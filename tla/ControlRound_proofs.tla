------------------------ MODULE ControlRound_proofs ------------------------
(***************************************************************************)
(* Proofs about ControlRound: a client and a server of any test, with any  *)
(* limits and deadlines, wherever either of them stops; and that the round *)
(* implements ServerAnyPeer and ClientAnyServer.                           *)
(***************************************************************************)
EXTENDS ControlRound, ServerAnyPeer_proofs, ClientAnyServer_proofs

Lasts == {<<>>, <<"ClientTerminate">>}

\* The two paths are sequences of items.
LEMMA Paths ==
    /\ ServerPath \in Seq(Items) /\ Len(ServerPath) = 7
    /\ ClientPath \in Seq(Items) /\ Len(ClientPath) = 5
BY DEF ServerPath, ClientPath, Items, States, Frames

\* A stretch of a path is a sequence of items.
LEMMA Stretch ==
    ASSUME NEW s \in Seq(Items), NEW a \in 0..7, NEW b \in 0..7, b <= Len(s)
    PROVE  /\ SubSeq(s, a + 1, b) \in Seq(Items)
           /\ a < b => SubSeq(s, a + 1, b) # <<>>
<1>1. \A i \in (a + 1)..b : s[i] \in Items
  BY ElementOfSeq
<1>2. SubSeq(s, a + 1, b) \in Seq(Items)
  BY <1>1, SubSeqProperties
<1>3. Len(SubSeq(s, a + 1, b)) = IF a + 1 <= b THEN b - (a + 1) + 1 ELSE 0
  BY <1>1, SubSeqProperties
<1>4. ASSUME a < b PROVE SubSeq(s, a + 1, b) # <<>>
  <2>1. Len(SubSeq(s, a + 1, b)) > 0
    BY <1>3, <1>4
  <2> QED BY <2>1, EmptySeq
<1> QED BY <1>2, <1>4

LEMMA ServerStretch ==
    ASSUME NEW a \in 0..7, NEW b \in 0..7
    PROVE  /\ SubSeq(ServerPath, a + 1, b) \in Seq(Items)
           /\ a < b => SubSeq(ServerPath, a + 1, b) # <<>>
<1>1. ServerPath \in Seq(Items) /\ b <= Len(ServerPath)
  BY Paths
<1> QED BY <1>1, Stretch

LEMMA ClientStretch ==
    ASSUME NEW a \in 0..5, NEW b \in 0..5
    PROVE  /\ SubSeq(ClientPath, a + 1, b) \in Seq(Items)
           /\ a < b => SubSeq(ClientPath, a + 1, b) # <<>>
<1>1. ClientPath \in Seq(Items) /\ b <= Len(ClientPath) /\ a \in 0..7 /\ b \in 0..7
  BY Paths
<1> QED BY <1>1, Stretch

\* Nothing of a path is ahead of a reader that has read all that was written.
LEMMA NothingAhead ==
    ASSUME NEW k \in 0..7, NEW t \in Seq(Items)
    PROVE  Ahead(k, k, t) = t
<1>1. SubSeq(ServerPath, k + 1, k) = <<>>
  BY SubSeqEmpty
<1> QED BY <1>1, ConcatEmptySeq DEF Ahead

LEMMA NothingBehind ==
    ASSUME NEW k \in 0..5, NEW t \in Seq(Items)
    PROVE  Behind(k, k, t) = t
<1>1. SubSeq(ClientPath, k + 1, k) = <<>>
  BY SubSeqEmpty
<1> QED BY <1>1, ConcatEmptySeq DEF Behind

\* A reader that has not takes the next item of the path.
LEMMA NextAhead ==
    ASSUME NEW p \in 0..7, NEW k \in 0..7, p < k, NEW t \in Seq(Items)
    PROVE  /\ Ahead(p, k, t) # <<>>
           /\ Head(Ahead(p, k, t)) = ServerPath[p + 1]
           /\ Tail(Ahead(p, k, t)) = Ahead(p + 1, k, t)
<1> DEFINE s == SubSeq(ServerPath, p + 1, k)
<1>1. s \in Seq(Items) /\ s # <<>>
  BY ServerStretch
<1>2. Head(s) = ServerPath[p + 1] /\ Tail(s) = SubSeq(ServerPath, p + 2, k)
  BY Paths, HeadTailOfSubSeq
<1>3. /\ s \o t # <<>> /\ Head(s \o t) = Head(s) /\ Tail(s \o t) = Tail(s) \o t
  <2> HIDE DEF s
  <2> QED BY <1>1
<1>4. Tail(s) = SubSeq(ServerPath, (p + 1) + 1, k)
  BY <1>2
<1> QED BY <1>2, <1>3, <1>4 DEF Ahead

LEMMA NextBehind ==
    ASSUME NEW p \in 0..5, NEW k \in 0..5, p < k, NEW t \in Seq(Items)
    PROVE  /\ Behind(p, k, t) # <<>>
           /\ Head(Behind(p, k, t)) = ClientPath[p + 1]
           /\ Tail(Behind(p, k, t)) = Behind(p + 1, k, t)
<1> DEFINE s == SubSeq(ClientPath, p + 1, k)
<1>1. s \in Seq(Items) /\ s # <<>>
  BY ClientStretch
<1>2. Head(s) = ClientPath[p + 1] /\ Tail(s) = SubSeq(ClientPath, p + 2, k)
  BY Paths, HeadTailOfSubSeq
<1>3. /\ s \o t # <<>> /\ Head(s \o t) = Head(s) /\ Tail(s \o t) = Tail(s) \o t
  <2> HIDE DEF s
  <2> QED BY <1>1
<1>4. Tail(s) = SubSeq(ClientPath, (p + 1) + 1, k)
  BY <1>2
<1> QED BY <1>2, <1>3, <1>4 DEF Behind

\* Writing on the path, or ending it, is seen behind what is unread.
LEMMA MoreAhead ==
    ASSUME NEW p \in 0..7, NEW k \in 0..7, p <= k, NEW t \in Seq(Items)
    PROVE  /\ Ahead(p, k, <<>>) \o t = Ahead(p, k, t)
           /\ \A l \in k..7 : t = Ahead(k, l, <<>>) => Ahead(p, k, t) = Ahead(p, l, <<>>)
<1>1. SubSeq(ServerPath, p + 1, k) \in Seq(Items)
  BY ServerStretch
<1>2. Ahead(p, k, <<>>) = SubSeq(ServerPath, p + 1, k)
  BY <1>1, ConcatEmptySeq DEF Ahead
<1>3. ASSUME NEW l \in k..7, t = Ahead(k, l, <<>>)
      PROVE  Ahead(p, k, t) = Ahead(p, l, <<>>)
  <2>1. SubSeq(ServerPath, k + 1, l) \in Seq(Items) /\ SubSeq(ServerPath, p + 1, l) \in Seq(Items)
    BY ServerStretch
  <2>2. t = SubSeq(ServerPath, k + 1, l) /\ Ahead(p, l, <<>>) = SubSeq(ServerPath, p + 1, l)
    BY <1>3, <2>1, ConcatEmptySeq DEF Ahead
  <2> QED BY <2>2, Paths, ConcatAdjacentSubSeq DEF Ahead
<1> QED BY <1>2, <1>3 DEF Ahead

LEMMA MoreBehind ==
    ASSUME NEW p \in 0..5, NEW k \in 0..5, p <= k, NEW t \in Seq(Items)
    PROVE  /\ Behind(p, k, <<>>) \o t = Behind(p, k, t)
           /\ k < 5 /\ t = <<ClientPath[k + 1]>> => Behind(p, k, t) = Behind(p, k + 1, <<>>)
<1>1. SubSeq(ClientPath, p + 1, k) \in Seq(Items)
  BY ClientStretch
<1>2. Behind(p, k, <<>>) = SubSeq(ClientPath, p + 1, k)
  BY <1>1, ConcatEmptySeq DEF Behind
<1>3. ASSUME k < 5, t = <<ClientPath[k + 1]>>
      PROVE  Behind(p, k, t) = Behind(p, k + 1, <<>>)
  <2>1. SubSeq(ClientPath, p + 1, k + 1) \in Seq(Items)
    BY <1>3, ClientStretch
  <2>2. Behind(p, k + 1, <<>>) = SubSeq(ClientPath, p + 1, k + 1)
    BY <2>1, ConcatEmptySeq DEF Behind
  <2>3. SubSeq(ClientPath, p + 1, k + 1) = SubSeq(ClientPath, p + 1, k) \o <<ClientPath[k + 1]>>
    BY <1>3, Paths, SubSeqRecursiveSecond
  <2> QED BY <1>3, <2>2, <2>3 DEF Behind
<1> QED BY <1>2, <1>3 DEF Behind

\* One item of a path is the path from there to the next item.
LEMMA OneBehind ==
    ASSUME NEW m \in 0..4
    PROVE  Behind(m, m + 1, <<>>) = <<ClientPath[m + 1]>>
<1>1. <<ClientPath[m + 1]>> \in Seq(Items)
  BY DEF ClientPath, Items, States, Frames
<1>2. m \in 0..5 /\ m < 5 /\ m <= m
  OBVIOUS
<1>3. Behind(m, m, <<ClientPath[m + 1]>>) = Behind(m, m + 1, <<>>)
  BY <1>1, <1>2, MoreBehind
<1>4. Behind(m, m, <<ClientPath[m + 1]>>) = <<ClientPath[m + 1]>>
  BY <1>1, <1>2, NothingBehind
<1> QED BY <1>3, <1>4
-----------------------------------------------------------------------------
(* What the invariant says of the next item a side reads.                    *)

Spots == {0, 1, 2, 4, 5, 7}

\* What can stand last on the wire is a sequence of items.
LEMMA LastType ==
    /\ \A last \in Lasts : last \in Seq(Items)
    /\ <<>> \in Seq(Items) /\ <<"ServerTerminate">> \in Seq(Items)
    /\ \A code \in Codes : Relay(code) \in Seq(Items)
BY DEF Lasts, Relay, Items, States

\* A server that follows its path is at one of its spots.
LEMMA LiveSpot ==
    ASSUME ServerLive
    PROVE  /\ Written \in Spots /\ ReadOf \in 0..4
           /\ Written <= ServerReach(ReadOf)
           /\ spc \in {"cookie", "params", "setup", "reap", "start", "await", "flush",
                       "exchange", "results", "done"}
BY DEF ServerLive, Written, ReadOf, Spots, ServerReach

\* The further one side is, the further the other may be.
LEMMA ReachGrows ==
    /\ \A a, b \in 0..5 : a <= b => ServerReach(a) <= ServerReach(b)
    /\ \A a, b \in Spots : a <= b => ClientReach(a) <= ClientReach(b)
    /\ \A n \in 0..5 : ServerReach(n) \in Spots
    /\ \A k \in Spots : ClientReach(k) \in 0..5
BY DEF ServerReach, ClientReach, Spots

\* A client that reads has written no more than the server let it.
LEMMA ReadingReach ==
    ASSUME NEW p \in 0..7, NEW n \in 0..4, NEW k \in Spots, At(p, n), p <= k
    PROVE  n <= ClientReach(k)
BY DEF At, ClientReach, Spots

\* While the server follows its path the client reads along or has left.
LEMMA LiveMode ==
    ASSUME Inv, ServerLive
    PROVE  \/ Over /\ \E n \in 0..5, last \in Lasts : Left(n, last)
           \/ /\ ~Over /\ ~Pending /\ ~final /\ outcome = "none" /\ cEnd = "open"
              /\ \E p \in 0..7, n \in 0..4 : Position(p, n, Written) /\ LiveWire(p, n, Written)
<1>1. CASE Over /\ OverInv
  BY <1>1 DEF OverInv, Lasts
<1>2. CASE Pending /\ PendingInv
  BY <1>2 DEF PendingInv
<1>3. CASE ~Over /\ ~Pending /\ ~final /\ outcome = "none" /\ ReadingInv
  <2>1. PICK p \in 0..7, n \in 0..4, k \in Spots : Position(p, n, k) /\ LiveWire(p, n, k)
    BY <1>3 DEF ReadingInv, Spots
  <2>2. k = Written
    BY <2>1 DEF LiveWire
  <2>3. cEnd = "open"
    BY <1>3 DEF Inv, JointInv, Over
  <2> QED BY <1>3, <2>1, <2>2, <2>3
<1> QED BY <1>1, <1>2, <1>3 DEF Inv, JointInv

\* What a server that follows its path finds unread.
LEMMA UnreadHead ==
    ASSUME ServerLive, NEW n \in 0..5, NEW last \in Lasts, Unread(n, last), c2s # <<>>
    PROVE  \/ /\ ReadOf < n /\ Head(c2s) = ClientPath[ReadOf + 1]
              /\ Tail(c2s) = Behind(ReadOf + 1, n, last)
           \/ /\ ReadOf = n /\ last = <<"ClientTerminate">>
              /\ Head(c2s) = "ClientTerminate" /\ Tail(c2s) = <<>>
<1> DEFINE r == ReadOf
<1>1. r \in 0..4 /\ r <= n /\ c2s = Behind(r, n, last) /\ last \in Seq(Items)
  BY LiveSpot, LastType DEF Unread
<1> HIDE DEF r
<1>2. CASE r < n
  <2>1. r \in 0..5
    BY <1>1
  <2> QED BY <1>1, <1>2, <2>1, NextBehind DEF r
<1>3. CASE r = n
  <2>1. c2s = last
    BY <1>1, <1>3, NothingBehind
  <2>2. last = <<"ClientTerminate">>
    BY <2>1 DEF Lasts
  <2> QED BY <1>3, <2>1, <2>2 DEF r
<1> QED BY <1>1, <1>2, <1>3

\* It finds the next item of the client's path, or that the client gave up.
LEMMA LiveHead ==
    ASSUME Inv, ServerLive, c2s # <<>>
    PROVE  \/ Head(c2s) = "ClientTerminate" /\ Over
           \/ Head(c2s) = ClientPath[ReadOf + 1] /\ (Over \/ ReadOf <= 3)
<1>1. CASE Over /\ \E n \in 0..5, last \in Lasts : Left(n, last)
  <2>1. PICK n \in 0..5, last \in Lasts : Left(n, last)
    BY <1>1
  <2> QED BY <1>1, <2>1, UnreadHead DEF Left
<1>2. CASE \E p \in 0..7, n \in 0..4 : Position(p, n, Written) /\ LiveWire(p, n, Written)
  <2>1. PICK n \in 0..4 : Unread(n, <<>>)
    BY <1>2 DEF LiveWire
  <2>2. n \in 0..5 /\ <<>> \in Lasts /\ <<>> # <<"ClientTerminate">>
    BY DEF Lasts
  <2>3. ReadOf < n /\ Head(c2s) = ClientPath[ReadOf + 1]
    BY <2>1, <2>2, UnreadHead
  <2> QED BY <2>3, LiveSpot
<1> QED BY <1>1, <1>2, LiveMode

\* The items by name.
LEMMA LiveItems ==
    ASSUME Inv, ServerLive, c2s # <<>>
    PROVE  /\ Head(c2s) = "ClientTerminate" => Over
           /\ Head(c2s) # "ClientTerminate" =>
                /\ spc = "cookie" => Head(c2s) = "Cookie"
                /\ spc = "params" => Head(c2s) = "Params"
                /\ spc \in {"setup", "await"} => Head(c2s) = "TestEnd"
                /\ spc = "results" => Head(c2s) = "Results"
                /\ spc = "done" => Head(c2s) = "IperfDone" /\ Over
BY LiveHead DEF ClientPath, ReadOf

\* During setup the client has not written TEST_END.
LEMMA SetupHead ==
    ASSUME Inv, spc = "setup", c2s # <<>>
    PROVE  Head(c2s) = "ClientTerminate" /\ Over
<1>1. ServerLive /\ Written = 2 /\ ReadOf = 2
  BY DEF ServerLive, Written, ReadOf
<1>2. CASE Over /\ \E n \in 0..5, last \in Lasts : Left(n, last)
  <2>1. PICK n \in 0..5, last \in Lasts : Left(n, last)
    BY <1>2
  <2>2. n <= 2
    BY <1>1, <2>1 DEF Left, ClientReach
  <2> QED BY <1>1, <1>2, <2>1, <2>2, UnreadHead DEF Left
<1>3. CASE \E p \in 0..7, n \in 0..4 : Position(p, n, Written) /\ LiveWire(p, n, Written)
  <2>1. PICK p \in 0..7, n \in 0..4 : Position(p, n, Written) /\ LiveWire(p, n, Written)
    BY <1>3
  <2>2. n <= 2 /\ Unread(n, <<>>) /\ <<>> \in Lasts
    BY <1>1, <2>1 DEF Position, At, LiveWire, Lasts
  <2>3. n \in 0..5
    OBVIOUS
  <2> QED BY <1>1, <2>2, <2>3, UnreadHead
<1> QED BY <1>1, <1>2, <1>3, LiveMode

\* A report the client displayed finds the server waiting for IPERF_DONE,
\* and IPERF_DONE before it.
LEMMA FinalLive ==
    ASSUME Inv, ServerLive, final
    PROVE  spc = "done" /\ c2s = <<"IperfDone">> /\ Over /\ Displayed
<1>1. PICK n \in 0..5, last \in Lasts : Over /\ Left(n, last)
  BY LiveMode
<1>2. n = 5 /\ last = <<>> /\ Displayed
  BY <1>1 DEF Left
<1>3. Written = 7
  BY <1>1, <1>2, LiveSpot DEF Left, ClientReach, Spots
<1>4. spc = "done"
  BY <1>3, LiveSpot DEF Written
<1>5. c2s = Behind(4, 5, <<>>)
  BY <1>1, <1>2, <1>4 DEF Left, Unread, ReadOf
<1>6. Behind(4, 5, <<>>) = <<"IperfDone">>
  <2>1. 4 \in 0..4 /\ 4 + 1 = 5 /\ ClientPath[5] = "IperfDone"
    BY DEF ClientPath
  <2>2. Behind(4, 4 + 1, <<>>) = <<ClientPath[4 + 1]>>
    BY <2>1, OneBehind
  <2> QED BY <2>1, <2>2
<1> QED BY <1>1, <1>2, <1>4, <1>5, <1>6

\* IPERF_DONE comes from a client that displayed its report.
LEMMA DoneHead ==
    ASSUME Inv, spc = "done", c2s # <<>>, Head(c2s) # "ClientTerminate"
    PROVE  Displayed
<1>1. ServerLive /\ ReadOf = 4
  BY DEF ServerLive, ReadOf
<1>2. Over
  BY <1>1, LiveItems
<1>3. PICK n \in 0..5, last \in Lasts : Left(n, last)
  BY <1>1, <1>2, LiveMode
<1>4. n = 5
  BY <1>1, <1>3, UnreadHead DEF Left
<1> QED BY <1>3, <1>4 DEF Left
-----------------------------------------------------------------------------
(* The kinds of step the server takes.                                       *)

\* What the other side's part of the invariant is about.
serverSide == <<spc, flags, serr, relay, refused, reported, sterm>>
clientSide == <<cpc, event, results, final, outcome>>

\* The server wrote t, unless the client is gone.
Wrote(t) == IF cEnd = "open"
            THEN cEnd' = "open" /\ (s2c' = s2c \o t \/ (t = <<>> /\ s2c' = s2c))
            ELSE cEnd' # "open"

\* It wrote the items of its path up to its next spot, and read an item of
\* the client's or nothing.
Advances(t) ==
    /\ ServerLive /\ ServerLive' /\ Written <= Written'
    /\ Wrote(t) /\ t \in Seq(Items) /\ t = Ahead(Written, Written', <<>>)
    /\ \/ c2s' = c2s /\ ReadOf' = ReadOf
       \/ /\ c2s # <<>> /\ Head(c2s) # "ClientTerminate"
          /\ c2s' = Tail(c2s) /\ ReadOf' = ReadOf + 1
    /\ spc \notin {"reap", "done"} /\ spc' # "reap"
    /\ UNCHANGED <<sEnd, flags, serr, relay, refused, reported, sterm>>

\* It left its path, with t as its last word.
LastWord(t) ==
    \/ t = <<>> \/ t = <<"ServerTerminate">>
    \/ \E code \in Codes :
          t = Relay(code) /\ (Reason(code)' \/ (code = "E117" /\ spc = "results"))
Leaves(t) ==
    /\ ServerLive /\ ~ServerLive'
    /\ Wrote(t) /\ (Over \/ LastWord(t))
    /\ spc = "done" /\ (~Over \/ final) => AfterExchange'
    /\ spc' = "emit" /\ flags' = {} => Displayed
    /\ flags' \subseteq FlagNames \ {"early_done"}
    /\ UNCHANGED <<relay, reported, sterm>>

\* It had left it before.
Winds ==
    /\ ~ServerLive /\ ~ServerLive'
    /\ UNCHANGED <<s2c, cEnd, flags, relay, refused>>
    /\ serr' = serr \/ (spc = "park" /\ spc' = "gate" /\ serr' = "none")
    /\ AfterExchange => AfterExchange'
    /\ spc \in {"return", "returned", "cancelled"} => spc' \in {"return", "returned", "cancelled"}
    /\ spc' = "park" => spc = "park"
    /\ spc' = "emit" => flags # {}
    /\ reported => reported'
    /\ reported' => reported \/ spc = "emit"
    /\ sterm' = "Completed" => sterm = "Completed" \/ (reported /\ serr = "none" /\ flags = {})

\* A step of the server leaves what is said of the client as it was.
LEMMA ClientSame ==
    ASSUME UNCHANGED clientSide
    PROVE  /\ (Over <=> Over') /\ (Pending <=> Pending') /\ (Displayed <=> Displayed')
           /\ \A p, n, k : Position(p, n, k) => Position(p, n, k)'
BY DEF clientSide, Over, Pending, Displayed, Position, At

\* A step of the client leaves what is said of the server as it was.
LEMMA ServerSame ==
    ASSUME UNCHANGED serverSide
    PROVE  /\ (ServerLive <=> ServerLive') /\ Written' = Written /\ ReadOf' = ReadOf
           /\ (AfterExchange <=> AfterExchange')
           /\ \A code : Reason(code) <=> Reason(code)'
BY DEF serverSide, ServerLive, Written, ReadOf, AfterExchange, Reason

\* A server that winds up keeps the reasons it gave.
LEMMA WindsReason ==
    ASSUME Winds, NEW code, Reason(code)
    PROVE  Reason(code)'
BY DEF Winds, Reason

\* It keeps the invariant.
LEMMA WindsKeeps ==
    ASSUME Inv, Winds, UNCHANGED clientSide
    PROVE  Inv'
<1>0. /\ ~ServerLive /\ ~ServerLive' /\ s2c' = s2c /\ cEnd' = cEnd
      /\ AfterExchange => AfterExchange'
      /\ cpc' = cpc /\ outcome' = outcome /\ final' = final /\ results' = results
  BY DEF Winds, clientSide
<1>1. JointInv'
  <2>1. CASE Over
    BY <1>0, <2>1, ClientSame DEF Inv, JointInv, OverInv
  <2>2. CASE Pending /\ ~final /\ outcome = "none" /\ PendingInv
    <3>1. PICK code \in Codes : s2c = <<code>> /\ Reason(code)
      BY <2>2 DEF PendingInv
    <3>2. Reason(code)'
      BY <3>1, WindsReason
    <3>3. PendingInv'
      BY <1>0, <2>2, <3>1, <3>2 DEF PendingInv
    <3> QED BY <1>0, <2>2, <3>3, ClientSame DEF Inv, JointInv
  <2>3. CASE ~Over /\ ~Pending /\ ~final /\ outcome = "none" /\ ReadingInv
    <3>1. PICK p \in 0..7, n \in 0..4, k \in Spots : Position(p, n, k) /\ EndedWire(p, k)
      BY <1>0, <2>3 DEF ReadingInv, Spots
    <3>2. Position(p, n, k)'
      BY <3>1, ClientSame
    <3>3. EndedWire(p, k)'
      <4>1. \A code : Reason(code) => Reason(code)'
        BY WindsReason
      <4> QED BY <1>0, <3>1, <4>1 DEF EndedWire
    <3>4. ReadingInv'
      BY <1>0, <3>2, <3>3 DEF ReadingInv, Spots
    <3> QED BY <1>0, <2>3, <3>4, ClientSame DEF Inv, JointInv
  <2> QED BY <2>1, <2>2, <2>3 DEF Inv, JointInv
<1>2. EndsInv'
  <2> USE DEF Inv, EndsInv
  <2>1. flags' = flags /\ flags' \subseteq FlagNames \ {"early_done"} /\ relay' \in Codes \cup {"none"}
    BY DEF Winds
  <2>2. spc' = "park" => ~reported'
    BY DEF Winds
  <2>3. (final => AfterExchange') /\ (outcome = "Completed" => results /\ final)
    BY <1>0
  <2>4. (spc' = "emit" \/ (reported' /\ serr' = "none")) /\ flags' = {} => Displayed
    BY DEF Winds
  <2>5. sterm' = "Completed" => reported' /\ serr' = "none" /\ flags' = {}
    BY DEF Winds
  <2>6. outcome \in Codes => Reason(outcome)'
    <3>1. SUFFICES ASSUME outcome \in Codes PROVE Reason(outcome)'
      OBVIOUS
    <3>2. PICK code \in Codes : outcome = code
      BY <3>1
    <3>3. Reason(code)'
      BY <3>2, WindsReason
    <3> QED BY <1>0, <3>2, <3>3
  <2> QED BY <1>0, <2>1, <2>2, <2>3, <2>4, <2>5, <2>6, ClientSame
<1> QED BY <1>1, <1>2 DEF Inv
\* The wire a client reads from, when the server wrote.
LEMMA WroteAhead ==
    ASSUME NEW p \in 0..7, NEW k \in 0..7, p <= k, NEW t \in Seq(Items),
           s2c = Ahead(p, k, <<>>), Wrote(t), cEnd = "open"
    PROVE  s2c' = Ahead(p, k, t) /\ cEnd' = "open"
<1>1. Ahead(p, k, <<>>) \o t = Ahead(p, k, t)
  BY MoreAhead
<1>2. CASE s2c' = s2c \o t
  BY <1>1, <1>2 DEF Wrote
<1>3. CASE t = <<>> /\ s2c' = s2c
  BY <1>3 DEF Wrote
<1> QED BY <1>2, <1>3 DEF Wrote

\* A server that goes on along its path keeps the invariant.
LEMMA AdvancesKeeps ==
    ASSUME Inv, NEW t, Advances(t), UNCHANGED clientSide
    PROVE  Inv'
<1>0. /\ ServerLive /\ ServerLive' /\ Wrote(t) /\ t \in Seq(Items) /\ sEnd' = sEnd
      /\ cpc' = cpc /\ outcome' = outcome /\ final' = final /\ results' = results
      /\ Written \in Spots /\ Written' \in Spots /\ Written <= Written'
      /\ t = Ahead(Written, Written', <<>>)
      /\ ReadOf \in 0..4 /\ ReadOf' \in 0..4 /\ Written' <= ServerReach(ReadOf')
  <2>1. Written' \in Spots /\ ReadOf' \in 0..4 /\ Written' <= ServerReach(ReadOf')
    BY DEF Advances, ServerLive, Written, ReadOf, Spots, ServerReach
  <2> QED BY <2>1, LiveSpot DEF Advances, clientSide
<1>1. \A n \in 0..5, last \in Lasts : Unread(n, last) => Unread(n, last)'
  <2> SUFFICES ASSUME NEW n \in 0..5, NEW last \in Lasts, Unread(n, last)
               PROVE  Unread(n, last)'
    OBVIOUS
  <2>1. CASE c2s' = c2s /\ ReadOf' = ReadOf
    BY <2>1 DEF Unread
  <2>2. CASE c2s # <<>> /\ Head(c2s) # "ClientTerminate" /\ c2s' = Tail(c2s) /\ ReadOf' = ReadOf + 1
    <3>1. ReadOf < n /\ Tail(c2s) = Behind(ReadOf + 1, n, last)
      BY <1>0, <2>2, UnreadHead
    <3> QED BY <1>0, <2>2, <3>1 DEF Unread
  <2> QED BY <2>1, <2>2 DEF Advances
<1>2. (cEnd = "open") <=> (cEnd' = "open")
  BY <1>0 DEF Wrote
<1>3. JointInv'
  <2>1. CASE Over /\ \E n \in 0..5, last \in Lasts : Left(n, last)
    <3>1. PICK n \in 0..5, last \in Lasts : Left(n, last)
      BY <2>1
    <3>2. n <= ClientReach(Written') /\ Unread(n, last)'
      <4>1. ClientReach(Written) <= ClientReach(Written')
        BY <1>0, ReachGrows
      <4>2. ClientReach(Written) \in 0..5 /\ ClientReach(Written') \in 0..5 /\ n <= ClientReach(Written)
        BY <1>0, <3>1, ReachGrows DEF Left
      <4>3. n <= ClientReach(Written')
        BY <4>1, <4>2
      <4> QED BY <1>1, <3>1, <4>3 DEF Left
    <3>3. Left(n, last)'
      BY <1>0, <3>1, <3>2, ClientSame DEF Left
    <3> QED BY <1>0, <1>2, <2>1, <3>3, ClientSame DEF Inv, JointInv, OverInv, Lasts
  <2>2. CASE /\ ~Over /\ ~Pending /\ ~final /\ outcome = "none" /\ cEnd = "open"
             /\ \E p \in 0..7, n \in 0..4 : Position(p, n, Written) /\ LiveWire(p, n, Written)
    <3>1. PICK p \in 0..7, n \in 0..4 : Position(p, n, Written) /\ LiveWire(p, n, Written)
      BY <2>2
    <3>2. PICK k \in Spots, l \in Spots : k = Written /\ l = Written'
      BY <1>0
    <3>3. p <= k /\ k <= l /\ k \in 0..7 /\ l \in k..7
      BY <1>0, <3>1, <3>2 DEF Position, Spots
    <3>4. Unread(n, <<>>)'
      BY <1>1, <3>1 DEF LiveWire, Lasts
    <3>5. s2c' = Ahead(p, l, <<>>)
      <4>1. s2c' = Ahead(p, k, t)
        BY <1>0, <2>2, <3>1, <3>2, <3>3, WroteAhead DEF LiveWire
      <4>2. t = Ahead(k, l, <<>>)
        BY <1>0, <3>2
      <4> QED BY <1>0, <3>3, <4>1, <4>2, MoreAhead
    <3>6. Position(p, n, l)'
      <4>1. ServerReach(ReadOf') <= ServerReach(n)
        <5>1. ReadOf' <= n
          BY <3>4 DEF Unread
        <5> QED BY <1>0, <5>1, ReachGrows
      <4>2. l <= ServerReach(n)
        <5>1. ServerReach(ReadOf') \in Spots /\ ServerReach(n) \in Spots
          BY <1>0, ReachGrows
        <5> QED BY <1>0, <3>2, <4>1, <5>1 DEF Spots
      <4>3. Position(p, n, k) /\ p <= l
        BY <3>1, <3>2, <3>3
      <4> QED BY <4>2, <4>3 DEF Position, At, clientSide
    <3>7. LiveWire(p, n, l)'
      BY <3>2, <3>4, <3>5 DEF LiveWire, Advances
    <3>8. ReadingInv'
      BY <1>0, <3>6, <3>7 DEF ReadingInv, Spots
    <3> QED BY <1>0, <1>2, <2>2, <3>8, ClientSame DEF Inv, JointInv
  <2> QED BY <1>0, <2>1, <2>2, LiveMode
<1>4. EndsInv'
  <2>1. ~final
    BY <1>0, FinalLive DEF Advances
  <2>2. spc' \notin {"emit", "park"}
    BY <1>0 DEF ServerLive
  <2> QED BY <1>0, <2>1, <2>2 DEF Inv, EndsInv, Advances
<1> QED BY <1>3, <1>4 DEF Inv

\* A server that leaves its path keeps the invariant.
LEMMA LeavesKeeps ==
    ASSUME Inv, NEW t \in Seq(Items), Leaves(t), UNCHANGED clientSide
    PROVE  Inv'
<1>0. /\ ServerLive /\ ~ServerLive' /\ Wrote(t)
      /\ cpc' = cpc /\ outcome' = outcome /\ final' = final /\ results' = results
  BY DEF Leaves, clientSide
<1>1. JointInv'
  <2>1. CASE Over
    <3>1. (cEnd = "open") <=> (cEnd' = "open")
      BY <1>0 DEF Wrote
    <3> QED BY <1>0, <2>1, <3>1, ClientSame DEF Inv, JointInv, OverInv
  <2>2. CASE /\ ~Over /\ ~Pending /\ ~final /\ outcome = "none" /\ cEnd = "open"
             /\ \E p \in 0..7, n \in 0..4 : Position(p, n, Written) /\ LiveWire(p, n, Written)
    <3>1. PICK p \in 0..7, n \in 0..4 : Position(p, n, Written) /\ LiveWire(p, n, Written)
      BY <2>2
    <3>2. PICK k \in Spots : k = Written
      BY <1>0, LiveSpot
    <3>3. p <= k /\ k \in 0..7
      BY <3>1, <3>2 DEF Position, Spots
    <3>4. s2c' = Ahead(p, k, t) /\ cEnd' = "open"
      BY <1>0, <2>2, <3>1, <3>2, <3>3, WroteAhead DEF LiveWire
    <3>5. k = 7 => AfterExchange'
      BY <1>0, <2>2, <3>2 DEF Leaves, Written, ServerLive
    <3>6. spc = "results" => k = 5 /\ p >= 4
      BY <3>1, <3>2 DEF Written, Position, At, LiveWire, Unread, ReadOf
    <3>7. EndedWire(p, k)'
      <4>1. LastWord(t)
        BY <2>2 DEF Leaves
      <4> QED BY <3>4, <3>5, <3>6, <4>1 DEF EndedWire, LastWord
    <3>8. Position(p, n, k)'
      BY <3>1, <3>2, ClientSame
    <3>9. ReadingInv'
      BY <1>0, <3>7, <3>8 DEF ReadingInv, Spots
    <3> QED BY <1>0, <2>2, <3>4, <3>9, ClientSame DEF Inv, JointInv
  <2> QED BY <1>0, <2>1, <2>2, LiveMode
<1>2. EndsInv'
  <2>1. final => AfterExchange'
    BY <1>0, FinalLive DEF Leaves
  <2>2. ~reported /\ ~reported' /\ sterm' = sterm /\ sterm # "Completed" /\ outcome \notin Codes
    BY <1>0 DEF Inv, EndsInv, Leaves
  <2>3. spc' = "emit" /\ flags' = {} => Displayed'
    BY ClientSame DEF Leaves
  <2>4. outcome = "Completed" => results /\ final
    BY DEF Inv, EndsInv
  <2>5. relay' \in Codes \cup {"none"}
    BY DEF Inv, EndsInv, Leaves
  <2> QED BY <1>0, <2>1, <2>2, <2>3, <2>4, <2>5 DEF EndsInv, Leaves
<1> QED BY <1>1, <1>2 DEF Inv
\* A step that concerns neither side's end keeps the invariant.
LEMMA StillKeeps ==
    ASSUME Inv, UNCHANGED <<c2s, s2c, cEnd, sEnd, serverSide, clientSide>>
    PROVE  Inv'
<1>0. /\ cpc' = cpc /\ outcome' = outcome /\ final' = final /\ results' = results
      /\ c2s' = c2s /\ s2c' = s2c /\ cEnd' = cEnd /\ sEnd' = sEnd
      /\ UNCHANGED serverSide /\ UNCHANGED clientSide
  BY DEF clientSide
<1>1. JointInv'
  <2>1. CASE Over /\ OverInv
    <3>1. ASSUME NEW n \in 0..5, NEW last \in Lasts, Left(n, last)
          PROVE  Left(n, last)'
      BY <1>0, <3>1, ClientSame, ServerSame DEF Left, Unread
    <3>2. OverInv'
      BY <1>0, <2>1, <3>1, ServerSame DEF OverInv, Lasts
    <3> QED BY <1>0, <2>1, <3>2, ClientSame, ServerSame DEF Inv, JointInv
  <2>2. CASE Pending /\ ~final /\ outcome = "none" /\ PendingInv
    <3>1. PendingInv'
      BY <1>0, <2>2, ServerSame DEF PendingInv
    <3> QED BY <1>0, <2>2, <3>1, ClientSame, ServerSame DEF Inv, JointInv
  <2>3. CASE ~Over /\ ~Pending /\ ~final /\ outcome = "none" /\ ReadingInv
    <3>1. PICK p \in 0..7, n \in 0..4, k \in Spots :
              Position(p, n, k) /\ IF ServerLive THEN LiveWire(p, n, k) ELSE EndedWire(p, k)
      BY <2>3 DEF ReadingInv, Spots
    <3>2. LiveWire(p, n, k) => LiveWire(p, n, k)'
      BY <1>0, ServerSame DEF LiveWire, Unread, serverSide
    <3>3. EndedWire(p, k) => EndedWire(p, k)'
      BY <1>0, ServerSame DEF EndedWire
    <3>4. ReadingInv'
      BY <1>0, <3>1, <3>2, <3>3, ClientSame, ServerSame DEF ReadingInv, Spots
    <3> QED BY <1>0, <2>3, <3>4, ClientSame, ServerSame DEF Inv, JointInv
  <2> QED BY <2>1, <2>2, <2>3 DEF Inv, JointInv
<1>2. EndsInv'
  BY <1>0, ClientSame, ServerSame DEF Inv, EndsInv, serverSide
<1> QED BY <1>1, <1>2 DEF Inv

\* A setup kill (abort_setup_streams) keeps the invariant.
LEMMA KillKeeps ==
    ASSUME Inv, spc = "setup", NEW e, NEW code, Kill(e, code), UNCHANGED clientSide,
           code \in Codes \cup {"none"},
           \/ c2s' = c2s /\ (Over \/ code \in {"E106", "E203", "E144"})
           \/ c2s # <<>> /\ c2s' = Tail(c2s)
    PROVE  Inv'
<1>0. /\ ServerLive /\ ServerLive' /\ Written = 2 /\ Written' = 2 /\ ReadOf = 2 /\ ReadOf' = 2
      /\ spc' = "reap" /\ relay' = code /\ s2c' = s2c /\ cEnd' = cEnd /\ sEnd' = sEnd
      /\ flags' = flags /\ reported' = reported /\ sterm' = sterm
      /\ cpc' = cpc /\ outcome' = outcome /\ final' = final /\ results' = results
  BY DEF Kill, ServerLive, Written, ReadOf, clientSide
<1>1. JointInv'
  <2>1. CASE Over /\ \E n \in 0..5, last \in Lasts : Left(n, last)
    <3>1. PICK n \in 0..5, last \in Lasts : Left(n, last)
      BY <2>1
    <3>2. CASE c2s' = c2s
      <4>1. Left(n, last)'
        BY <1>0, <3>1, <3>2, ClientSame DEF Left, Unread
      <4> QED BY <1>0, <2>1, <4>1, ClientSame DEF Inv, JointInv, OverInv, Lasts
    <3>3. CASE c2s # <<>> /\ c2s' = Tail(c2s)
      <4>1. Head(c2s) = "ClientTerminate"
        BY <3>3, SetupHead
      <4>2. n = 2 /\ c2s' = <<>>
        BY <1>0, <3>1, <3>3, <4>1, UnreadHead DEF Left, ClientPath
      <4>3. Behind(n, n, <<>>) = <<>>
        BY LastType, NothingBehind
      <4>4. Left(n, <<>>)'
        BY <1>0, <3>1, <4>2, <4>3, ClientSame DEF Left, Unread
      <4> QED BY <1>0, <2>1, <4>4, ClientSame DEF Inv, JointInv, OverInv, Lasts
    <3> QED BY <3>2, <3>3
  <2>2. CASE /\ ~Over /\ ~Pending /\ ~final /\ outcome = "none" /\ cEnd = "open"
             /\ \E p \in 0..7, n \in 0..4 : Position(p, n, Written) /\ LiveWire(p, n, Written)
    <3>1. PICK p \in 0..7, n \in 0..4 : Position(p, n, 2) /\ LiveWire(p, n, 2)
      BY <1>0, <2>2
    <3>2. c2s' = c2s /\ code \in {"E106", "E203", "E144"}
      BY <2>2, SetupHead
    <3>3. LiveWire(p, n, 2)' /\ Position(p, n, 2)'
      BY <1>0, <3>1, <3>2, ClientSame DEF LiveWire, Unread
    <3>4. ReadingInv'
      BY <1>0, <3>3 DEF ReadingInv
    <3> QED BY <1>0, <2>2, <3>4, ClientSame DEF Inv, JointInv
  <2> QED BY <1>0, <2>1, <2>2, LiveMode
<1>2. EndsInv'
  <2>1. ~final
    BY <1>0, FinalLive
  <2> QED BY <1>0, <2>1 DEF Inv, EndsInv
<1> QED BY <1>1, <1>2 DEF Inv
-----------------------------------------------------------------------------
(* The server's actions, each one a step of these kinds.                     *)

\* What a write of the server does to the wire.
LEMMA ServerSent ==
    ASSUME NEW t
    PROVE  /\ SServerSend(t) => Wrote(t)
           /\ SendFails => Wrote(t)
           /\ UNCHANGED <<s2c, cEnd>> => Wrote(<<>>)
BY DEF SServerSend, SendFails, ServerSendCanFail, Wrote

\* While a client reads, nothing that needs it gone happens to the server.
LEMMA GoneOver ==
    ASSUME Inv, ServerLive, cEnd # "open"
    PROVE  Over
BY LiveMode

LEMMA TwoItems ==
    ASSUME NEW a \in Items, NEW b \in Items
    PROVE  <<a>> \o <<b>> = <<a, b>>
<1> DEFINE s == <<a>>
           t == <<b>>
<1>1. s \in Seq(Items) /\ t \in Seq(Items) /\ Len(s) = 1 /\ Len(t) = 1 /\ s[1] = a /\ t[1] = b
  OBVIOUS
<1>2. <<a, b>> \in Seq(Items) /\ Len(<<a, b>>) = 2 /\ <<a, b>>[1] = a /\ <<a, b>>[2] = b
  OBVIOUS
<1> HIDE DEF s, t
<1>3. s \o t \in Seq(Items) /\ Len(s \o t) = 2 /\ (s \o t)[1] = a /\ (s \o t)[2] = b
  BY <1>1, ConcatProperties
<1>4. \A i \in 1..2 : (s \o t)[i] = <<a, b>>[i]
  BY <1>2, <1>3
<1>5. s \o t = <<a, b>>
  BY <1>2, <1>3, <1>4, SeqEqual
<1> QED BY <1>5 DEF s, t

\* The stretches of its path the server writes at once.
LEMMA Segments ==
    /\ <<"ParamExchange">> = Ahead(0, 1, <<>>) /\ <<"CreateStreams">> = Ahead(1, 2, <<>>)
    /\ <<"TestStart", "TestRunning">> = Ahead(2, 4, <<>>)
    /\ <<"ExchangeResults">> = Ahead(4, 5, <<>>)
    /\ <<"Results", "DisplayResults">> = Ahead(5, 7, <<>>)
    /\ \A k \in Spots : <<>> = Ahead(k, k, <<>>)
<1>1. ASSUME NEW m \in 0..6 PROVE Ahead(m, m + 1, <<>>) = <<ServerPath[m + 1]>>
  <2>1. SubSeq(ServerPath, m + 1, m + 1) = SubSeq(ServerPath, m + 1, m) \o <<ServerPath[m + 1]>>
    BY Paths, SubSeqRecursiveSecond
  <2>2. SubSeq(ServerPath, m + 1, m) = <<>>
    BY SubSeqEmpty
  <2>3. <<ServerPath[m + 1]>> \in Seq(Items)
    BY DEF ServerPath, Items, States, Frames
  <2> QED BY <2>1, <2>2, <2>3, ConcatEmptySeq DEF Ahead
<1>2. ASSUME NEW m \in 0..5 PROVE Ahead(m, m + 2, <<>>) = <<ServerPath[m + 1], ServerPath[m + 2]>>
  <2>1. SubSeq(ServerPath, m + 1, m + 2) = SubSeq(ServerPath, m + 1, m + 1) \o <<ServerPath[m + 2]>>
    BY Paths, SubSeqRecursiveSecond
  <2>2. SubSeq(ServerPath, m + 1, m + 1) = <<ServerPath[m + 1]>>
    <3>1. SubSeq(ServerPath, m + 1, m + 1) \in Seq(Items)
      BY ServerStretch
    <3> QED BY <1>1, <3>1, ConcatEmptySeq DEF Ahead
  <2>3. ServerPath[m + 1] \in Items /\ ServerPath[m + 2] \in Items
    BY DEF ServerPath, Items, States, Frames
  <2>4. <<ServerPath[m + 1]>> \o <<ServerPath[m + 2]>> = <<ServerPath[m + 1], ServerPath[m + 2]>>
    BY <2>3, TwoItems
  <2>5. SubSeq(ServerPath, m + 1, m + 2) = <<ServerPath[m + 1], ServerPath[m + 2]>>
    BY <2>1, <2>2, <2>4
  <2>6. m \in 0..7 /\ m + 2 \in 0..7
    OBVIOUS
  <2>7. SubSeq(ServerPath, m + 1, m + 2) \in Seq(Items)
    BY <2>6, ServerStretch
  <2> QED BY <2>5, <2>7, ConcatEmptySeq DEF Ahead
<1>3. ASSUME NEW k \in Spots PROVE <<>> = Ahead(k, k, <<>>)
  <2>1. k \in 0..7 /\ <<>> \in Seq(Items)
    BY LastType DEF Spots
  <2> QED BY <2>1, NothingAhead
<1>4. /\ Ahead(0, 1, <<>>) = <<ServerPath[1]>> /\ Ahead(1, 2, <<>>) = <<ServerPath[2]>>
      /\ Ahead(4, 5, <<>>) = <<ServerPath[5]>>
  BY <1>1
<1>5. /\ Ahead(2, 4, <<>>) = <<ServerPath[3], ServerPath[4]>>
      /\ Ahead(5, 7, <<>>) = <<ServerPath[6], ServerPath[7]>>
  BY <1>2
<1> QED BY <1>3, <1>4, <1>5 DEF ServerPath
\* The negotiation (negotiate_test) keeps the invariant.
LEMMA NegotiateKeeps ==
    ASSUME Inv, UNCHANGED clientSide,
           \/ RecvCookie \/ RecvCookieFails \/ RecvParams \/ RecvParamsFails
           \/ NegotiateInterrupted
    PROVE  Inv'
<1>0. spc \in {"cookie", "params"} /\ ServerLive /\ flags = {} /\ serr = "none"
  <2>1. spc \in {"cookie", "params"}
    BY DEF RecvCookie, RecvCookieFails, RecvParams, RecvParamsFails, NegotiateInterrupted
  <2> QED BY <2>1 DEF ServerLive, Inv, EndsInv
<1>1. ASSUME NEW t \in Seq(Items), Wrote(t), Over \/ LastWord(t), spc' \in {"return", "park"},
             UNCHANGED <<flags, relay, reported, sterm>>
      PROVE  Inv'
  <2>1. ~ServerLive' /\ spc # "done" /\ spc' # "emit"
    BY <1>0, <1>1 DEF ServerLive
  <2>2. flags' \subseteq FlagNames \ {"early_done"}
    BY <1>0, <1>1
  <2>3. Leaves(t)
    BY <1>0, <1>1, <2>1, <2>2 DEF Leaves
  <2> QED BY <2>3, LeavesKeeps
<1>2. ASSUME NEW code \in Codes, Wrote(Relay(code)), Over \/ Reason(code)',
             spc' \in {"return", "park"}, UNCHANGED <<flags, relay, reported, sterm>>
      PROVE  Inv'
  <2>1. Over \/ LastWord(Relay(code))
    BY <1>2 DEF LastWord
  <2>2. Relay(code) \in Seq(Items)
    BY LastType
  <2> QED BY <1>1, <1>2, <2>1, <2>2
<1>3. ASSUME SendFails PROVE Over /\ Wrote(<<>>)
  BY <1>0, <1>3, GoneOver DEF SendFails, ServerSendCanFail, Wrote
<1>4. <<>> \in Seq(Items) /\ LastWord(<<>>)
  BY LastType DEF LastWord
<1>5. CASE RecvCookie
  <2>0. spc = "cookie" /\ c2s # <<>> /\ Head(c2s) = "Cookie" /\ c2s' = Tail(c2s) /\ sEnd' = sEnd
    BY <1>5 DEF RecvCookie, ServerSees, ServerReads
  <2>1. CASE SServerSend(<<"ParamExchange">>) /\ GoTo("params")
    <3>1. /\ spc' = "params" /\ Written = 0 /\ Written' = 1 /\ ReadOf = 0 /\ ReadOf' = 1
          /\ UNCHANGED <<flags, serr, relay, refused, reported, sterm>> /\ ServerLive'
      BY <2>0, <2>1 DEF GoTo, sResult, Written, ReadOf, ServerLive
    <3>2. Wrote(<<"ParamExchange">>) /\ <<"ParamExchange">> \in Seq(Items)
      BY <2>1, ServerSent DEF Items, States
    <3>3. Advances(<<"ParamExchange">>)
      BY <1>0, <2>0, <3>1, <3>2, Segments DEF Advances
    <3> QED BY <3>3, AdvancesKeeps
  <2>2. CASE ServerSendCanFail /\ BestEffort(Relay("E111")) /\ ReturnErr("SendControlFailed")
    <3>1. Over
      BY <1>0, <2>2, GoneOver DEF ServerSendCanFail
    <3>2. Wrote(Relay("E111")) /\ "E111" \in Codes
      BY <2>2, ServerSent DEF BestEffort, Codes
    <3> QED BY <1>2, <2>2, <3>1, <3>2 DEF ReturnErr
  <2> QED BY <1>5, <2>1, <2>2 DEF RecvCookie
<1>6. CASE RecvCookieFails
  <2>1. Wrote(Relay("E106")) /\ "E106" \in Codes
    BY <1>6, ServerSent DEF RecvCookieFails, BestEffort, Codes
  <2>2. Reason("E106")'
    BY <1>6 DEF RecvCookieFails, ReturnErr, Reason
  <2> QED BY <1>2, <1>6, <2>1, <2>2 DEF RecvCookieFails, ReturnErr
<1>7. CASE RecvParams
  <2>0. spc = "params" /\ c2s # <<>> /\ Head(c2s) = "Params" /\ c2s' = Tail(c2s)
    BY <1>7 DEF RecvParams, ServerSees, ServerReads
  <2>1. CASE ReturnErr("InvalidParams") /\ UNCHANGED <<s2c, cEnd, sEnd>>
    BY <1>1, <1>4, <2>1, ServerSent DEF ReturnErr
  <2>2. ASSUME NEW code \in {"E27", "E37"}, Refuse(code) PROVE Inv'
    <3>1. CASE /\ SServerSend(Relay(code)) /\ refused' = TRUE /\ spc' = "park"
               /\ UNCHANGED <<flags, bare, serr, relay, reported, docError, sdocs, sterm>>
      <4>1. code \in Codes /\ Wrote(Relay(code)) /\ Reason(code)'
        BY <2>2, <3>1, ServerSent DEF Codes, Reason
      <4> QED BY <1>2, <3>1, <4>1
    <3>2. CASE SendFails /\ ReturnErr("Io")
      BY <1>1, <1>3, <1>4, <3>2 DEF ReturnErr
    <3> QED BY <2>2, <3>1, <3>2 DEF Refuse
  <2>3. CASE DenyAccess
    BY <1>1, <1>4, <2>3, ServerSent DEF DenyAccess
  <2>4. CASE AskForStreams
    <3>1. CASE SServerSend(<<"CreateStreams">>) /\ GoTo("setup") /\ UNCHANGED sEnd
      <4>1. /\ spc' = "setup" /\ Written = 1 /\ Written' = 2 /\ ReadOf = 1 /\ ReadOf' = 2
            /\ UNCHANGED <<flags, serr, relay, refused, reported, sterm>> /\ ServerLive'
        BY <2>0, <3>1 DEF GoTo, sResult, Written, ReadOf, ServerLive
      <4>2. Wrote(<<"CreateStreams">>) /\ <<"CreateStreams">> \in Seq(Items)
        BY <3>1, ServerSent DEF Items, States
      <4>3. Advances(<<"CreateStreams">>)
        BY <1>0, <2>0, <3>1, <4>1, <4>2, Segments DEF Advances
      <4> QED BY <4>3, AdvancesKeeps
    <3>2. CASE /\ SendFails /\ spc' = "park"
               /\ UNCHANGED <<flags, bare, relay, refused, reported, docError, sdocs, sterm>>
      BY <1>1, <1>3, <1>4, <3>2
    <3> QED BY <2>4, <3>1, <3>2 DEF AskForStreams
  <2> QED BY <1>7, <2>1, <2>2, <2>3, <2>4 DEF RecvParams
<1>8. CASE RecvParamsFails
  <2>1. Wrote(Relay("E114")) /\ "E114" \in Codes
    BY <1>8, ServerSent DEF RecvParamsFails, BestEffort, Codes
  <2>2. Reason("E114")'
    BY <1>8 DEF RecvParamsFails, ReturnErr, Reason
  <2> QED BY <1>2, <1>8, <2>1, <2>2 DEF RecvParamsFails, ReturnErr
<1>9. CASE NegotiateInterrupted
  BY <1>1, <1>4, <1>9, ServerSent DEF NegotiateInterrupted
<1> QED BY <1>5, <1>6, <1>7, <1>8, <1>9
\* Setup (setup_data_streams, abort_setup_streams) keeps it.
LEMMA SetupKeeps ==
    ASSUME Inv, UNCHANGED clientSide,
           \/ AcceptStream \/ SetupCtrlByte \/ SetupCtrlClosed \/ SetupKilled
           \/ SetupIoError \/ SetupReaped
    PROVE  Inv'
<1>0. spc \in {"setup", "reap"} /\ ServerLive /\ flags = {}
  <2>1. spc \in {"setup", "reap"}
    BY DEF AcceptStream, SetupCtrlByte, SetupCtrlClosed, SetupKilled, SetupIoError, SetupReaped
  <2> QED BY <2>1 DEF ServerLive, Inv, EndsInv
<1>1. ASSUME NEW t \in Seq(Items), Wrote(t), Over \/ LastWord(t), spc' = "park",
             UNCHANGED <<flags, relay, reported, sterm>>
      PROVE  Inv'
  <2>1. ~ServerLive' /\ spc # "done" /\ spc' # "emit"
    BY <1>0, <1>1 DEF ServerLive
  <2>2. flags' \subseteq FlagNames \ {"early_done"}
    BY <1>0, <1>1
  <2>3. Leaves(t)
    BY <1>0, <1>1, <2>1, <2>2 DEF Leaves
  <2> QED BY <2>3, LeavesKeeps
<1>2. CASE AcceptStream
  <2>0. /\ spc = "setup" /\ c2s' = c2s /\ sEnd' = sEnd /\ UNCHANGED <<s2c, cEnd>>
        /\ UNCHANGED <<flags, serr, relay, refused, reported, sterm>>
    BY <1>2 DEF AcceptStream, wireVars, sResult
  <2>1. CASE spc' = "setup"
    <3>1. UNCHANGED <<c2s, s2c, cEnd, sEnd, serverSide>>
      BY <2>0, <2>1 DEF serverSide
    <3> QED BY <3>1, StillKeeps
  <2>2. CASE spc' = "start"
    <3>1. Written = 2 /\ Written' = 2 /\ ReadOf = 2 /\ ReadOf' = 2 /\ ServerLive'
      BY <2>0, <2>2 DEF Written, ReadOf, ServerLive
    <3>2. Wrote(<<>>) /\ <<>> \in Seq(Items)
      BY <2>0, ServerSent, LastType
    <3>3. <<>> = Ahead(Written, Written', <<>>)
      <4>1. Written \in Spots /\ Written' = Written
        BY <1>0, <3>1, LiveSpot
      <4> QED BY <4>1, Segments
    <3>4. Advances(<<>>)
      BY <1>0, <2>0, <2>2, <3>1, <3>2, <3>3 DEF Advances
    <3> QED BY <3>4, AdvancesKeeps
  <2> QED BY <1>2, <2>1, <2>2 DEF AcceptStream
<1>3. CASE SetupCtrlByte
  <2>1. spc = "setup" /\ c2s # <<>> /\ c2s' = Tail(c2s)
    BY <1>3 DEF SetupCtrlByte, ServerReads
  <2>2. Head(c2s) = "ClientTerminate"
    BY <2>1, SetupHead
  <2>3. Kill("ClientTerminated", "E119")
    BY <1>3, <2>2 DEF SetupCtrlByte
  <2> QED BY <2>1, <2>3, KillKeeps DEF Codes
<1>4. CASE SetupCtrlClosed
  <2>1. Over /\ spc = "setup" /\ c2s' = c2s /\ Kill("ControlSocketClosed", "E109")
    BY <1>0, <1>4, GoneOver DEF SetupCtrlClosed, ServerSeesEof
  <2> QED BY <2>1, KillKeeps DEF Codes
<1>5. CASE SetupKilled
  <2>1. spc = "setup" /\ c2s' = c2s
    BY <1>5 DEF SetupKilled
  <2>2. PICK e \in ErrNames, code \in {"E106", "E203", "E144"} : Kill(e, code)
    BY <1>5 DEF SetupKilled, ErrNames
  <2> QED BY <2>1, <2>2, KillKeeps DEF Codes
<1>6. CASE SetupIoError
  <2>1. Wrote(<<>>) /\ <<>> \in Seq(Items) /\ LastWord(<<>>)
    BY <1>6, ServerSent, LastType DEF SetupIoError, LastWord
  <2> QED BY <1>1, <1>6, <2>1 DEF SetupIoError
<1>7. CASE SetupReaped
  <2>0. /\ spc = "reap" /\ spc' = "park"
        /\ UNCHANGED <<flags, bare, serr, relay, refused, reported, docError, sterm>>
    BY <1>7 DEF SetupReaped
  <2>1. CASE relay = "none" /\ UNCHANGED <<s2c, cEnd>>
    <3>1. Wrote(<<>>) /\ <<>> \in Seq(Items) /\ LastWord(<<>>)
      BY <2>1, ServerSent, LastType DEF LastWord
    <3> QED BY <1>1, <2>0, <3>1
  <2>2. CASE BestEffort(Relay(relay)) /\ relay \in Codes
    <3>1. Wrote(Relay(relay)) /\ Relay(relay) \in Seq(Items)
      BY <2>2, ServerSent, LastType DEF BestEffort
    <3>2. ~Over => relay \in {"E106", "E203", "E144"}
      BY <1>0, <2>0, LiveMode DEF LiveWire
    <3>3. Over \/ LastWord(Relay(relay))
      <4>1. PICK code \in Codes : code = relay
        BY <2>2
      <4>2. ~Over => Reason(code)'
        BY <2>0, <3>2, <4>1 DEF Reason
      <4> QED BY <4>1, <4>2 DEF LastWord
    <3> QED BY <1>1, <2>0, <3>1, <3>3
  <2> QED BY <1>7, <2>1, <2>2 DEF SetupReaped, Inv, EndsInv
<1> QED BY <1>2, <1>3, <1>4, <1>5, <1>6, <1>7
\* The test itself (start_test, await_test_end) keeps it.
LEMMA AwaitKeeps ==
    ASSUME Inv, UNCHANGED clientSide,
           \/ StartTest \/ RecvTestEnd \/ RecvClientTerminate \/ RecvTestStart
           \/ RecvEarlyDone \/ RecvUnexpected \/ RecvCtrlClosed \/ RecvHardError
           \/ AwaitInterrupted \/ RateBreach \/ IdleExpired \/ WatchdogExpired
    PROVE  Inv'
<1>0. spc \in {"start", "await"} /\ ServerLive /\ flags = {} /\ serr = "none"
  <2>1. spc \in {"start", "await"}
    BY DEF StartTest, RecvTestEnd, RecvClientTerminate, RecvTestStart, RecvEarlyDone,
       RecvUnexpected, RecvCtrlClosed, RecvHardError, AwaitInterrupted, RateBreach,
       IdleExpired, WatchdogExpired, EndArm
  <2> QED BY <2>1 DEF ServerLive, Inv, EndsInv
\* An arm that ends the test raises a flag and leaves its last word ...
<1>1. ASSUME NEW t \in Seq(Items), Wrote(t), Over \/ LastWord(t), NEW b,
             NEW flag \in FlagNames \ {"early_done"}, Raise(flag, b, "flush")
      PROVE  Inv'
  <2>1. flags' = {flag} /\ spc' = "flush" /\ UNCHANGED <<relay, reported, sterm>>
    BY <1>0, <1>1 DEF Raise
  <2>2. ~ServerLive' /\ spc # "done" /\ spc' # "emit" /\ flags' \subseteq FlagNames \ {"early_done"}
    BY <1>0, <2>1 DEF ServerLive
  <2>3. Leaves(t)
    BY <1>0, <1>1, <2>1, <2>2 DEF Leaves
  <2> QED BY <2>3, LeavesKeeps
\* ... or an error, when the client is gone.
<1>2. ASSUME NEW t \in Seq(Items), Wrote(t), Over, NEW e, GateErr(e)
      PROVE  Inv'
  <2>1. flags' = {} /\ spc' = "gate" /\ UNCHANGED <<relay, reported, sterm>>
    BY <1>0, <1>2 DEF GateErr
  <2>2. ~ServerLive' /\ spc # "done" /\ spc' # "emit" /\ flags' \subseteq FlagNames \ {"early_done"}
    BY <1>0, <2>1 DEF ServerLive
  <2>3. Leaves(t)
    BY <1>0, <1>2, <2>1, <2>2 DEF Leaves
  <2> QED BY <2>3, LeavesKeeps
<1>3. ASSUME SendFails PROVE Over /\ Wrote(<<>>)
  BY <1>0, <1>3, GoneOver DEF SendFails, ServerSendCanFail, Wrote
<1>4. <<>> \in Seq(Items)
  BY LastType
<1>5. \A code \in Codes : BestEffort(Relay(code)) => Wrote(Relay(code)) /\ Relay(code) \in Seq(Items)
  BY ServerSent, LastType DEF BestEffort
<1>6. spc = "await" /\ c2s # <<>> => Head(c2s) \in {"TestEnd", "ClientTerminate"}
  BY <1>0, LiveItems
<1>7. CASE StartTest
  <2>0. spc = "start" /\ c2s' = c2s /\ sEnd' = sEnd
    BY <1>7 DEF StartTest
  <2>1. CASE SServerSend(<<"TestStart", "TestRunning">>) /\ GoTo("await")
    <3>1. /\ spc' = "await" /\ Written = 2 /\ Written' = 4 /\ ReadOf = 2 /\ ReadOf' = 2
          /\ UNCHANGED <<flags, serr, relay, refused, reported, sterm>> /\ ServerLive'
      BY <2>0, <2>1 DEF GoTo, sResult, Written, ReadOf, ServerLive
    <3>2. /\ Wrote(<<"TestStart", "TestRunning">>)
          /\ <<"TestStart", "TestRunning">> \in Seq(Items)
      BY <2>1, ServerSent DEF Items, States
    <3>3. Advances(<<"TestStart", "TestRunning">>)
      BY <1>0, <2>0, <3>1, <3>2, Segments DEF Advances
    <3> QED BY <3>3, AdvancesKeeps
  <2>2. CASE SendFails /\ GateErr("Io")
    BY <1>2, <1>3, <1>4, <2>2
  <2> QED BY <1>7, <2>1, <2>2 DEF StartTest
<1>8. CASE RecvTestEnd
  <2>1. /\ spc = "await" /\ c2s # <<>> /\ Head(c2s) = "TestEnd" /\ c2s' = Tail(c2s)
        /\ sEnd' = sEnd /\ UNCHANGED <<s2c, cEnd>>
    BY <1>8 DEF RecvTestEnd, EndArm, ServerSees, ServerReads
  <2>2. /\ spc' = "flush" /\ Written = 4 /\ Written' = 4 /\ ReadOf = 2 /\ ReadOf' = 3
        /\ UNCHANGED <<flags, serr, relay, refused, reported, sterm>> /\ ServerLive'
    BY <1>0, <1>8, <2>1 DEF RecvTestEnd, GoTo, sResult, Written, ReadOf, ServerLive
  <2>3. Wrote(<<>>) /\ <<>> = Ahead(Written, Written', <<>>)
    <3>1. Written \in Spots /\ Written' = Written
      BY <1>0, <2>2, LiveSpot
    <3> QED BY <2>1, <3>1, Segments, ServerSent
  <2>4. Advances(<<>>)
    BY <1>0, <1>4, <2>1, <2>2, <2>3 DEF Advances
  <2> QED BY <2>4, AdvancesKeeps
<1>9. CASE RecvClientTerminate
  <2>1. Over
    BY <1>0, <1>9, LiveItems DEF RecvClientTerminate, ServerSees
  <2>2. BestEffort(Relay("E119")) /\ Raise("client_terminated", FALSE, "flush")
    BY <1>9 DEF RecvClientTerminate
  <2> QED BY <1>1, <1>5, <2>1, <2>2 DEF Codes, FlagNames
<1>10. CASE RecvTestStart
  BY <1>6, <1>10 DEF RecvTestStart, EndArm, ServerSees
<1>11. CASE RecvEarlyDone
  BY <1>6, <1>11 DEF RecvEarlyDone, EndArm, ServerSees
<1>12. CASE RecvUnexpected
  BY <1>6, <1>12 DEF RecvUnexpected, EndArm
<1>13. CASE RecvCtrlClosed
  <2>1. Over
    BY <1>0, <1>13, GoneOver DEF RecvCtrlClosed, ServerSeesEof
  <2>2. BestEffort(Relay("E109")) /\ Raise("ctrl_closed", TRUE, "flush")
    BY <1>13 DEF RecvCtrlClosed
  <2> QED BY <1>1, <1>5, <2>1, <2>2 DEF Codes, FlagNames
<1>14. CASE RecvHardError
  <2>1. Over
    BY <1>0, <1>14, GoneOver DEF RecvHardError, ServerSeesRst
  <2>2. GateErr("Io") /\ Wrote(<<>>)
    BY <1>14, ServerSent DEF RecvHardError
  <2> QED BY <1>2, <1>4, <2>1, <2>2
<1>15. CASE AwaitInterrupted
  <2>1. Wrote(<<"ServerTerminate">>) /\ Raise("interrupted", FALSE, "flush")
    BY <1>15, ServerSent DEF AwaitInterrupted, BestEffort
  <2>2. LastWord(<<"ServerTerminate">>) /\ <<"ServerTerminate">> \in Seq(Items)
    BY LastType DEF LastWord
  <2> QED BY <1>1, <2>1, <2>2 DEF FlagNames
<1>16. ASSUME NEW code \in {"E27", "E144", "E160"}, BestEffort(Relay(code)),
              Raise("server_error", TRUE, "flush")
       PROVE  Inv'
  <2>1. "server_error" \in flags'
    BY <1>16 DEF Raise
  <2>2. Reason(code)' /\ code \in Codes
    BY <1>16, <2>1 DEF Reason, Codes
  <2>3. LastWord(Relay(code)) /\ Wrote(Relay(code)) /\ Relay(code) \in Seq(Items)
    BY <1>5, <1>16, <2>2 DEF LastWord
  <2> QED BY <1>1, <1>16, <2>3 DEF FlagNames
<1>17. ASSUME NEW code \in {"E27", "E160"}, SelfTerminate(code) PROVE Inv'
  <2>1. CASE SServerSend(Relay(code)) /\ Raise("server_error", TRUE, "flush")
    BY <1>16, <1>17, <2>1 DEF BestEffort
  <2>2. CASE SendFails /\ GateErr("Io")
    BY <1>2, <1>3, <1>4, <2>2
  <2> QED BY <1>17, <2>1, <2>2 DEF SelfTerminate
<1>18. CASE RateBreach
  BY <1>17, <1>18 DEF RateBreach
<1>19. CASE IdleExpired
  BY <1>16, <1>19 DEF IdleExpired
<1>20. CASE WatchdogExpired
  BY <1>17, <1>20 DEF WatchdogExpired
<1> QED BY <1>7, <1>8, <1>9, <1>10, <1>11, <1>12, <1>13, <1>14, <1>15, <1>18, <1>19, <1>20

\* The exchange (exchange_results_phase) keeps it.
LEMMA ExchangeKeeps ==
    ASSUME Inv, UNCHANGED clientSide,
           \/ SendExchange \/ RecvResults \/ RecvResultsFails \/ ExchangeInterrupted
           \/ RecvDone \/ RecvDoneFails
    PROVE  Inv'
<1>0. spc \in {"exchange", "results", "done"} /\ ServerLive /\ flags = {} /\ serr = "none"
  <2>1. spc \in {"exchange", "results", "done"}
    BY DEF SendExchange, RecvResults, RecvResultsFails, ExchangeInterrupted, RecvDone,
       RecvDoneFails
  <2> QED BY <2>1 DEF ServerLive, Inv, EndsInv
<1>1. ASSUME NEW t \in Seq(Items), Wrote(t), Over \/ LastWord(t), NEW b,
             NEW flag \in FlagNames \ {"early_done"}, Raise(flag, b, "emit"),
             spc = "done" /\ (~Over \/ final) => flag \in {"interrupted", "recv_message_error"}
      PROVE  Inv'
  <2>1. flags' = {flag} /\ spc' = "emit" /\ UNCHANGED <<serr, relay, reported, sterm>>
    BY <1>0, <1>1 DEF Raise
  <2>2. ~ServerLive' /\ flags' # {} /\ flags' \subseteq FlagNames \ {"early_done"}
    BY <1>0, <2>1 DEF ServerLive
  <2>3. spc = "done" /\ (~Over \/ final) => AfterExchange'
    BY <1>0, <1>1, <2>1 DEF AfterExchange
  <2>4. Leaves(t)
    BY <1>0, <1>1, <2>1, <2>2, <2>3 DEF Leaves
  <2> QED BY <2>4, LeavesKeeps
<1>2. ASSUME SendFails PROVE Over /\ Wrote(<<>>)
  BY <1>0, <1>2, GoneOver DEF SendFails, ServerSendCanFail, Wrote
<1>3. <<>> \in Seq(Items)
  BY LastType
<1>4. \A code \in Codes : BestEffort(Relay(code)) => Wrote(Relay(code)) /\ Relay(code) \in Seq(Items)
  BY ServerSent, LastType DEF BestEffort
<1>5. CASE SendExchange
  <2>0. spc = "exchange" /\ c2s' = c2s /\ sEnd' = sEnd
    BY <1>5 DEF SendExchange
  <2>1. CASE SServerSend(<<"ExchangeResults">>) /\ GoTo("results")
    <3>1. /\ spc' = "results" /\ Written = 4 /\ Written' = 5 /\ ReadOf = 3 /\ ReadOf' = 3
          /\ UNCHANGED <<flags, serr, relay, refused, reported, sterm>> /\ ServerLive'
      BY <2>0, <2>1 DEF GoTo, sResult, Written, ReadOf, ServerLive
    <3>2. Wrote(<<"ExchangeResults">>) /\ <<"ExchangeResults">> \in Seq(Items)
      BY <2>1, ServerSent DEF Items, States
    <3>3. Advances(<<"ExchangeResults">>)
      BY <1>0, <2>0, <3>1, <3>2, Segments DEF Advances
    <3> QED BY <3>3, AdvancesKeeps
  <2>2. CASE SendFails /\ Raise("send_error", FALSE, "emit")
    BY <1>1, <1>2, <1>3, <2>0, <2>2 DEF FlagNames
  <2> QED BY <1>5, <2>1, <2>2 DEF SendExchange
<1>6. CASE RecvResults
  <2>0. /\ spc = "results" /\ c2s # <<>> /\ Head(c2s) = "Results" /\ c2s' = Tail(c2s)
        /\ sEnd' = sEnd
    BY <1>6 DEF RecvResults, ServerSees, ServerReads
  <2>1. CASE SServerSend(<<"Results", "DisplayResults">>) /\ GoTo("done")
    <3>1. /\ spc' = "done" /\ Written = 5 /\ Written' = 7 /\ ReadOf = 3 /\ ReadOf' = 4
          /\ UNCHANGED <<flags, serr, relay, refused, reported, sterm>> /\ ServerLive'
      BY <2>0, <2>1 DEF GoTo, sResult, Written, ReadOf, ServerLive
    <3>2. /\ Wrote(<<"Results", "DisplayResults">>)
          /\ <<"Results", "DisplayResults">> \in Seq(Items)
      BY <2>1, ServerSent DEF Items, States, Frames
    <3>3. Advances(<<"Results", "DisplayResults">>)
      BY <1>0, <2>0, <3>1, <3>2, Segments DEF Advances
    <3> QED BY <3>3, AdvancesKeeps
  <2>2. CASE SendFails /\ Raise("send_error", FALSE, "emit")
    BY <1>1, <1>2, <1>3, <2>0, <2>2 DEF FlagNames
  <2> QED BY <1>6, <2>1, <2>2 DEF RecvResults
<1>7. CASE RecvResultsFails
  <2>1. spc = "results" /\ BestEffort(Relay("E117")) /\ Raise("recv_failed", FALSE, "emit")
    BY <1>7 DEF RecvResultsFails
  <2>2. Wrote(Relay("E117")) /\ Relay("E117") \in Seq(Items) /\ LastWord(Relay("E117"))
    BY <1>4, <2>1 DEF Codes, LastWord
  <2> QED BY <1>1, <2>1, <2>2 DEF FlagNames
<1>8. CASE ExchangeInterrupted
  <2>1. Wrote(<<"ServerTerminate">>) /\ Raise("interrupted", FALSE, "emit")
    BY <1>8, ServerSent DEF ExchangeInterrupted, BestEffort
  <2>2. LastWord(<<"ServerTerminate">>) /\ <<"ServerTerminate">> \in Seq(Items)
    BY LastType DEF LastWord
  <2> QED BY <1>1, <2>1, <2>2 DEF FlagNames
<1>9. CASE RecvDone
  <2>0. spc = "done" /\ c2s # <<>> /\ c2s' = Tail(c2s)
    BY <1>9 DEF RecvDone, ServerReads
  <2>1. Head(c2s) \in {"IperfDone", "ClientTerminate"} /\ Over
    BY <1>0, <2>0, LiveItems
  <2>2. CASE Head(c2s) = "IperfDone"
    <3>1. GoTo("emit") /\ UNCHANGED <<s2c, cEnd>>
      BY <1>9, <2>2 DEF RecvDone
    <3>2. /\ spc' = "emit" /\ ~ServerLive' /\ AfterExchange'
          /\ flags' = {} /\ UNCHANGED <<relay, reported, sterm>>
      BY <1>0, <3>1 DEF GoTo, sResult, ServerLive, AfterExchange
    <3>3. Displayed
      BY <2>0, <2>2, DoneHead
    <3>4. Leaves(<<>>)
      BY <1>0, <2>1, <3>1, <3>2, <3>3, ServerSent DEF Leaves
    <3> QED BY <1>3, <3>4, LeavesKeeps
  <2>3. CASE Head(c2s) = "ClientTerminate"
    <3>1. BestEffort(Relay("E119")) /\ Raise("client_terminated", FALSE, "emit")
      BY <1>9, <2>3 DEF RecvDone
    <3>2. ~final
      <4>1. c2s # <<"IperfDone">>
        BY <2>3
      <4> QED BY <1>0, <4>1, FinalLive
    <3> QED BY <1>1, <1>4, <2>1, <3>1, <3>2 DEF Codes, FlagNames
  <2> QED BY <2>1, <2>2, <2>3
<1>10. CASE RecvDoneFails
  <2>0. spc = "done" /\ Over
    BY <1>0, <1>10, GoneOver DEF RecvDoneFails, ServerSeesEof, ServerSeesRst
  <2>1. CASE ServerSeesEof /\ BestEffort(Relay("E109")) /\ Raise("ctrl_closed", FALSE, "emit")
    <3>1. ~final
      <4>1. c2s # <<"IperfDone">>
        BY <2>1 DEF ServerSeesEof
      <4> QED BY <1>0, <4>1, FinalLive
    <3> QED BY <1>1, <1>4, <2>0, <2>1, <3>1 DEF Codes, FlagNames
  <2>2. CASE UNCHANGED <<s2c, cEnd>> /\ Raise("recv_message_error", FALSE, "emit")
    BY <1>1, <1>3, <2>0, <2>2, ServerSent DEF FlagNames
  <2> QED BY <1>10, <2>1, <2>2 DEF RecvDoneFails
<1> QED BY <1>5, <1>6, <1>7, <1>8, <1>9, <1>10
\* The order of the Termination names every end a round of this client can
\* have, so only a round without one is Completed.
LEMMA CompletedUnflagged ==
    ASSUME NEW fs \in SUBSET (FlagNames \ {"early_done"}), Termination(fs) = "Completed"
    PROVE  fs = {}
<1> SUFFICES ASSUME NEW f \in fs PROVE FALSE
  OBVIOUS
<1> DEFINE order == TerminationOrder
           Found(i) == order[i] \in fs /\ \A j \in 1..(i - 1) : order[j] \notin fs
<1>1. DOMAIN order = 1..8 /\ \A i \in 1..8 : order[i] \in FlagNames \ {"early_done"}
  BY DEF TerminationOrder, FlagNames
<1>2. \E i \in 1..8 : order[i] \in fs
  <2>1. \E i \in 1..8 : order[i] = f
    BY DEF TerminationOrder, FlagNames
  <2> QED BY <2>1
<1> HIDE DEF order
<1>3. \E i \in 1..8 : Found(i)
  <2>1. CASE Found(1)
    BY <2>1
  <2>2. CASE Found(2)
    BY <2>2
  <2>3. CASE Found(3)
    BY <2>3
  <2>4. CASE Found(4)
    BY <2>4
  <2>5. CASE Found(5)
    BY <2>5
  <2>6. CASE Found(6)
    BY <2>6
  <2>7. CASE Found(7)
    BY <2>7
  <2>8. CASE Found(8)
    BY <2>8
  <2> QED BY <1>2, <2>1, <2>2, <2>3, <2>4, <2>5, <2>6, <2>7, <2>8
<1>4. FirstOf(order, fs) \in fs
  <2>1. \E i \in DOMAIN order : Found(i)
    BY <1>1, <1>3
  <2> DEFINE i == CHOOSE k \in DOMAIN order : Found(k)
  <2>2. Found(i)
    BY <2>1
  <2> QED BY <1>1, <1>2, <2>2 DEF FirstOf
<1>5. FirstOf(order, fs) \notin {"none", "Completed"}
  BY <1>4 DEF FlagNames
<1> QED BY <1>5 DEF Termination, order

\* The document, the gate, the park and the end of the round keep it.
LEMMA WindingKeeps ==
    ASSUME Inv, UNCHANGED clientSide,
           \/ ParkDrain \/ ParkEnds \/ ParkInterrupted \/ ShutdownAndFlush
           \/ EmitFinalOutput \/ Gate \/ Join \/ Return
    PROVE  Inv'
<1> USE DEF Winds, ServerLive, AfterExchange
<1>1. CASE ParkDrain
  <2>1. Winds
    BY <1>1 DEF ParkDrain, sResult
  <2> QED BY <2>1, WindsKeeps
<1>2. CASE ParkEnds
  <2>1. Winds
    BY <1>2 DEF ParkEnds, wireVars
  <2> QED BY <2>1, WindsKeeps
<1>3. CASE ParkInterrupted
  <2>1. Winds
    BY <1>3 DEF ParkInterrupted, wireVars
  <2> QED BY <2>1, WindsKeeps
<1>4. CASE ShutdownAndFlush
  <2>0. /\ spc = "flush" /\ UNCHANGED <<c2s, s2c, cEnd, sEnd>>
        /\ UNCHANGED <<flags, serr, relay, refused, reported, sterm>>
    BY <1>4 DEF ShutdownAndFlush, wireVars
  <2>1. CASE flags = {}
    <3>1. /\ spc' = "exchange" /\ Written = 4 /\ Written' = 4 /\ ReadOf = 3 /\ ReadOf' = 3
          /\ ServerLive /\ ServerLive'
      BY <1>4, <2>0, <2>1 DEF ShutdownAndFlush, Written, ReadOf
    <3>2. Wrote(<<>>) /\ <<>> \in Seq(Items) /\ <<>> = Ahead(Written, Written', <<>>)
      <4>1. Written \in Spots /\ Written' = Written
        BY <3>1, LiveSpot
      <4> QED BY <2>0, <4>1, Segments, ServerSent, LastType
    <3>3. Advances(<<>>)
      BY <2>0, <3>1, <3>2 DEF Advances
    <3> QED BY <3>3, AdvancesKeeps
  <2>2. CASE flags # {}
    <3>1. Winds
      BY <1>4, <2>0, <2>2 DEF ShutdownAndFlush
    <3> QED BY <3>1, WindsKeeps
  <2> QED BY <2>1, <2>2
<1>5. CASE EmitFinalOutput
  <2>1. Winds
    BY <1>5 DEF EmitFinalOutput, wireVars
  <2> QED BY <2>1, WindsKeeps
<1>6. CASE Gate
  <2>1. Winds
    BY <1>6 DEF Gate, wireVars, sResult
  <2> QED BY <2>1, WindsKeeps
<1>7. CASE Join
  <2>1. Winds
    BY <1>7 DEF Join, wireVars, sResult
  <2> QED BY <2>1, WindsKeeps
<1>8. CASE Return
  <2>1. sterm' = "Completed" => reported /\ serr = "none" /\ flags = {}
    <3>1. flags \in SUBSET (FlagNames \ {"early_done"})
      BY DEF Inv, EndsInv
    <3> QED BY <1>8, <3>1, CompletedUnflagged DEF Return
  <2>2. Winds
    BY <1>8, <2>1 DEF Return
  <2> QED BY <2>2, WindsKeeps
<1> QED BY <1>1, <1>2, <1>3, <1>4, <1>5, <1>6, <1>7, <1>8

\* So does a caller that drops the round's future.
LEMMA CancelKeeps ==
    ASSUME Inv, UNCHANGED clientSide, CancelServer
    PROVE  Inv'
<1>0. /\ spc' = "cancelled" /\ ~ServerLive' /\ UNCHANGED <<s2c, cEnd>>
      /\ UNCHANGED <<flags, serr, relay, refused, reported, sterm>>
  BY DEF CancelServer, sResult, ServerLive
<1>1. CASE ServerLive
  <2>1. flags = {} /\ (spc # "reap" => serr = "none")
    BY <1>1 DEF Inv, EndsInv
  <2>2. Leaves(<<>>)
    BY <1>0, <1>1, <2>1, ServerSent DEF Leaves, LastWord, AfterExchange
  <2> QED BY <2>2, LeavesKeeps, LastType
<1>2. CASE ~ServerLive
  <2>1. Winds
    BY <1>0, <1>2 DEF Winds, AfterExchange
  <2> QED BY <2>1, WindsKeeps
<1> QED BY <1>1, <1>2

\* Every step of the server keeps the invariant.
LEMMA ServerKeeps ==
    ASSUME Inv, ServerStep, UNCHANGED clientVars
    PROVE  Inv'
<1>0. UNCHANGED clientSide
  BY DEF clientVars, cResult, clientSide
<1>1. CASE InterruptServer \/ \E i \in slive : ServerTaskEnds(i)
  <2>1. UNCHANGED <<c2s, s2c, cEnd, sEnd, serverSide>>
    BY <1>1 DEF InterruptServer, ServerTaskEnds, wireVars, sResult, serverSide
  <2> QED BY <1>0, <2>1, StillKeeps
<1> QED BY <1>0, <1>1, NegotiateKeeps, SetupKeeps, AwaitKeeps, ExchangeKeeps, WindingKeeps,
     CancelKeeps DEF ServerStep, ServerProgress, ServerEvents
-----------------------------------------------------------------------------
(* The kinds of step the client takes.                                       *)

\* The client reads along the server's path.
Wire(p, n, k) ==
    Position(p, n, k) /\ IF ServerLive THEN LiveWire(p, n, k) ELSE EndedWire(p, k)

Reading == ~Over /\ ~Pending

\* A client that reads is at some point of the two paths.
LEMMA ReadingMode ==
    ASSUME Inv, Reading
    PROVE  /\ ~final /\ outcome = "none" /\ cEnd = "open"
           /\ \E p \in 0..7, n \in 0..4, k \in Spots : Wire(p, n, k)
BY DEF Inv, JointInv, ReadingInv, Reading, Over, Wire, Spots

\* An error number at the end of the path is one the client may be told.
Told(p, k, code) ==
    s2c = Relay(code) /\ (Reason(code) \/ (code = "E117" /\ k = 5 /\ p >= 4))

\* What a client that reads finds unread: the next item, or how the round of
\* a server that wrote all it will ended.
LEMMA ClientHead ==
    ASSUME NEW p \in 0..7, NEW n \in 0..4, NEW k \in Spots, Wire(p, n, k), s2c # <<>>
    PROVE  \/ p < k /\ Head(s2c) = ServerPath[p + 1]
           \/ /\ p = k /\ ~ServerLive
              /\ \/ Head(s2c) = "ServerTerminate"
                 \/ Head(s2c) = "ServerError" /\ \E code \in Codes : Told(p, k, code)
<1>0. p <= k /\ k \in 0..7
  BY DEF Wire, Position, Spots
<1>1. PICK t \in Seq(Items) :
          /\ s2c = Ahead(p, k, t)
          /\ \/ t = <<>> \/ (~ServerLive /\ t = <<"ServerTerminate">>)
             \/ \E code \in Codes : /\ ~ServerLive /\ t = Relay(code)
                                    /\ Reason(code) \/ (code = "E117" /\ k = 5 /\ p >= 4)
  BY LastType DEF Wire, LiveWire, EndedWire
<1>2. CASE p < k
  BY <1>0, <1>1, <1>2, NextAhead
<1>3. CASE p = k
  <2>1. s2c = t
    BY <1>0, <1>1, <1>3, NothingAhead
  <2>2. CASE ~ServerLive /\ t = <<"ServerTerminate">>
    BY <1>3, <2>1, <2>2
  <2>3. ASSUME NEW code \in Codes, ~ServerLive, t = Relay(code),
               Reason(code) \/ (code = "E117" /\ k = 5 /\ p >= 4)
        PROVE  Head(s2c) = "ServerError" /\ Told(p, k, code)
    BY <2>1, <2>3 DEF Told, Relay
  <2> QED BY <1>1, <1>3, <2>1, <2>2, <2>3
<1> QED BY <1>0, <1>2, <1>3

\* Reading the next item leaves the rest of the path.
LEMMA ClientTail ==
    ASSUME NEW p \in 0..7, NEW n \in 0..4, NEW k \in Spots, Wire(p, n, k), p < k,
           s2c' = Tail(s2c), UNCHANGED serverSide
    PROVE  /\ ServerLive => s2c' = Ahead(p + 1, k, <<>>)
           /\ ~ServerLive => EndedWire(p + 1, k)'
<1>0. k \in 0..7
  BY DEF Spots
<1>1. \A t \in Seq(Items) : s2c = Ahead(p, k, t) => s2c' = Ahead(p + 1, k, t)
  <2> SUFFICES ASSUME NEW t \in Seq(Items), s2c = Ahead(p, k, t)
               PROVE  s2c' = Ahead(p + 1, k, t)
    OBVIOUS
  <2>1. Tail(Ahead(p, k, t)) = Ahead(p + 1, k, t)
    BY <1>0, NextAhead
  <2> QED BY <2>1
<1>2. ServerLive => s2c' = Ahead(p + 1, k, <<>>)
  BY <1>1, LastType DEF Wire, LiveWire
<1>3. ASSUME ~ServerLive PROVE EndedWire(p + 1, k)'
  <2>1. EndedWire(p, k)
    BY <1>3 DEF Wire
  <2>2. k = 7 => AfterExchange'
    BY <2>1, ServerSame DEF EndedWire
  <2>3. CASE s2c = Ahead(p, k, <<>>) \/ s2c = Ahead(p, k, <<"ServerTerminate">>)
    BY <1>1, <2>2, <2>3, LastType DEF EndedWire
  <2>4. ASSUME NEW code \in Codes, s2c = Ahead(p, k, Relay(code)),
               Reason(code) \/ (code = "E117" /\ k = 5 /\ p >= 4)
        PROVE  EndedWire(p + 1, k)'
    <3>1. s2c' = Ahead(p + 1, k, Relay(code))
      BY <1>1, <2>4, LastType
    <3>2. Reason(code)' \/ (code = "E117" /\ k = 5 /\ p + 1 >= 4)
      BY <2>4, ServerSame
    <3> QED BY <2>2, <3>1, <3>2 DEF EndedWire
  <2> QED BY <2>1, <2>3, <2>4 DEF EndedWire
<1> QED BY <1>2, <1>3

\* What a write of the client does while the server follows its path.
LEMMA ClientWrites ==
    ASSUME Inv, ServerLive, NEW t
    PROVE  /\ CClientSend(t) => c2s' = c2s \o t /\ sEnd' = sEnd
           /\ ~ClientSendFails
BY DEF Inv, JointInv, CClientSend, ClientSendFails, ClientSendCanFail

\* The client's own end does not move while it reads.
LEMMA EndsSame ==
    ASSUME Inv, UNCHANGED serverSide, Reading, ~final', outcome' = "none"
    PROVE  EndsInv'
<1>1. ~Displayed /\ ~final
  BY ReadingMode DEF Displayed, Reading, Over
<1> QED BY <1>1, ServerSame DEF Inv, EndsInv, serverSide, Codes

\* A client that reads on keeps the invariant.
LEMMA MoveKeeps ==
    ASSUME Inv, UNCHANGED serverSide, Reading,
           NEW p \in 0..7, NEW n \in 0..4, NEW k \in Spots, Wire(p, n, k),
           NEW q \in 0..7, NEW m \in 0..4, At(q, m)', q <= k, results' <=> q >= 6,
           \/ q = p /\ s2c' = s2c
           \/ q = p + 1 /\ s2c' = Tail(s2c),
           \/ m = n /\ UNCHANGED <<c2s, sEnd>>
           \/ m = n + 1 /\ CClientSend(<<ClientPath[m]>>),
           UNCHANGED <<cEnd, final, outcome>>
    PROVE  Inv'
<1>0. ~final /\ outcome = "none" /\ cEnd = "open" /\ Reading'
  <2>1. Reading'
    BY DEF At, Reading, Over, Pending
  <2> QED BY <2>1, ReadingMode
<1>1. Position(q, m, k)'
  <2>1. k <= ServerReach(n)
    BY DEF Wire, Position
  <2>2. ServerReach(n) <= ServerReach(m) /\ ServerReach(n) \in Spots /\ ServerReach(m) \in Spots
    BY ReachGrows
  <2>3. k <= ServerReach(m)
    BY <2>1, <2>2 DEF Spots
  <2> QED BY <2>3 DEF Position
<1>2. ServerLive => s2c' = Ahead(q, k, <<>>)
  <2>1. CASE q = p /\ s2c' = s2c
    BY <2>1 DEF Wire, LiveWire
  <2>2. CASE q = p + 1 /\ s2c' = Tail(s2c)
    <3>1. p < k
      BY <2>2 DEF Spots
    <3> QED BY <2>2, <3>1, ClientTail
  <2> QED BY <2>1, <2>2
<1>3. ~ServerLive => EndedWire(q, k)'
  <2>1. CASE q = p /\ s2c' = s2c
    <3>1. ~ServerLive => EndedWire(p, k)
      BY DEF Wire
    <3> QED BY <2>1, <3>1, ServerSame DEF EndedWire
  <2>2. CASE q = p + 1 /\ s2c' = Tail(s2c)
    <3>1. p < k
      BY <2>2 DEF Spots
    <3> QED BY <2>2, <3>1, ClientTail
  <2> QED BY <2>1, <2>2
<1>4. ServerLive => Unread(m, <<>>)' /\ sEnd' = sEnd
  <2> SUFFICES ASSUME ServerLive PROVE Unread(m, <<>>)' /\ sEnd' = sEnd
    OBVIOUS
  <2>1. ReadOf \in 0..4 /\ ReadOf <= n /\ c2s = Behind(ReadOf, n, <<>>) /\ ReadOf' = ReadOf
    BY LiveSpot, ServerSame DEF Wire, LiveWire, Unread
  <2>2. CASE m = n /\ UNCHANGED <<c2s, sEnd>>
    BY <2>1, <2>2 DEF Unread
  <2>3. CASE m = n + 1 /\ CClientSend(<<ClientPath[m]>>)
    <3>1. c2s' = c2s \o <<ClientPath[n + 1]>> /\ sEnd' = sEnd
      BY <2>3, ClientWrites
    <3>2. PICK r \in 0..5 : r = ReadOf
      BY <2>1
    <3>3. <<ClientPath[n + 1]>> \in Seq(Items) /\ n \in 0..5 /\ n < 5 /\ r <= n
      BY <2>1, <3>2 DEF ClientPath, Items, States, Frames
    <3>4. Behind(r, n, <<>>) \o <<ClientPath[n + 1]>> = Behind(r, n + 1, <<>>)
      BY <3>3, MoreBehind
    <3> QED BY <2>1, <2>3, <3>1, <3>2, <3>3, <3>4 DEF Unread
  <2> QED BY <2>2, <2>3
<1>5. ServerLive => LiveWire(q, m, k)'
  <2>1. ServerLive => k = Written /\ (spc = "reap" => relay \in {"E106", "E203", "E144"})
    BY DEF Wire, LiveWire
  <2> QED BY <1>2, <1>4, <2>1, ServerSame DEF LiveWire, serverSide
<1>6. ReadingInv'
  BY <1>1, <1>3, <1>5, ServerSame DEF ReadingInv, Spots
<1>7. (cpc \notin {"returned", "cancelled"})'
  BY DEF At
<1>8. JointInv'
  BY <1>0, <1>4, <1>6, <1>7, ServerSame DEF Inv, JointInv, Reading
<1>9. EndsInv'
  BY <1>0, EndsSame
<1> QED BY <1>8, <1>9 DEF Inv
\* What a client that leaves may still have said.
Says == \/ c2s' = c2s
        \/ cpc' # "ending" /\ CClientSend(<<"ClientTerminate">>)

\* The end of the connection it shows.
EndShown == (cEnd' = "open") <=> (cpc' \notin {"returned", "cancelled"})

\* A client that stops reading keeps the invariant.
LEMMA QuitKeeps ==
    ASSUME Inv, UNCHANGED serverSide, ~Over, Over', Says, EndShown,
           UNCHANGED <<results, final>>, ServerLive => sEnd' = sEnd,
           outcome' # "Completed", outcome' \in Codes => ~ServerLive /\ Reason(outcome')
    PROVE  Inv'
<1>0. ~final /\ ~Displayed
  BY DEF Inv, JointInv, Displayed, Over
<1>1. JointInv'
  <2>1. CASE ~ServerLive
    BY <2>1, ServerSame DEF Inv, JointInv, OverInv, EndShown
  <2>2. CASE ServerLive
    <3>1. ~Pending
      BY <2>2 DEF Inv, JointInv, PendingInv
    <3>2. PICK p \in 0..7, n \in 0..4, k \in Spots : Wire(p, n, k)
      BY <3>1, ReadingMode DEF Reading
    <3>3. /\ k = Written /\ n <= ClientReach(k) /\ ReadOf \in 0..4
          /\ ReadOf <= n /\ c2s = Behind(ReadOf, n, <<>>)
      BY <2>2, <3>2, ReadingReach, LiveSpot DEF Wire, LiveWire, Position, Unread
    <3>4. PICK last \in Lasts : c2s' = Behind(ReadOf, n, last) /\ (cpc' = "ending" => last = <<>>)
      <4>1. CASE c2s' = c2s
        BY <3>3, <4>1 DEF Lasts
      <4>2. CASE cpc' # "ending" /\ CClientSend(<<"ClientTerminate">>)
        <5>1. c2s' = c2s \o <<"ClientTerminate">>
          BY <2>2, <4>2, ClientWrites
        <5>2. PICK r \in 0..5 : r = ReadOf
          BY <3>3
        <5>3. <<"ClientTerminate">> \in Seq(Items) /\ n \in 0..5 /\ r <= n
          BY <3>3, <5>2 DEF Items, States
        <5>4. Behind(r, n, <<>>) \o <<"ClientTerminate">> = Behind(r, n, <<"ClientTerminate">>)
          BY <5>3, MoreBehind
        <5> QED BY <3>3, <4>2, <5>1, <5>2, <5>4 DEF Lasts
      <4> QED BY <4>1, <4>2 DEF Says
    <3>5. Left(n, last)'
      BY <1>0, <3>3, <3>4, ServerSame DEF Left, Unread
    <3>6. OverInv'
      <4>1. n \in 0..5
        OBVIOUS
      <4> QED BY <3>5, <4>1 DEF OverInv, Lasts
    <3> QED BY <2>2, <3>6, ServerSame DEF Inv, JointInv, EndShown
  <2> QED BY <2>1, <2>2
<1>2. EndsInv'
  <2>1. outcome' \in Codes => ~ServerLive' /\ Reason(outcome)'
    <3> SUFFICES ASSUME outcome' \in Codes PROVE ~ServerLive' /\ Reason(outcome)'
      OBVIOUS
    <3>1. PICK code \in Codes : outcome' = code
      OBVIOUS
    <3>2. ~ServerLive /\ Reason(code)
      BY <3>1
    <3>3. ~ServerLive' /\ Reason(code)'
      BY <3>2, ServerSame
    <3> QED BY <3>1, <3>3
  <2> QED BY <1>0, <2>1, ServerSame DEF Inv, EndsInv, serverSide
<1> QED BY <1>1, <1>2 DEF Inv

\* A client that reads SERVER_ERROR has the number before it.
LEMMA PendKeeps ==
    ASSUME Inv, UNCHANGED serverSide, Reading, Pending', ~Over',
           NEW code \in Codes, ~ServerLive, s2c' = <<code>>, Reason(code), ~results,
           UNCHANGED <<results, final, outcome, cEnd>>
    PROVE  Inv'
<1>0. ~final /\ outcome = "none" /\ cEnd = "open"
  BY ReadingMode
<1>1. PendingInv' /\ ~ServerLive'
  BY ServerSame DEF PendingInv
<1>2. (cpc \notin {"returned", "cancelled"})'
  BY DEF Over
<1>3. JointInv'
  BY <1>0, <1>1, <1>2 DEF JointInv
<1>4. EndsInv'
  BY <1>0, EndsSame
<1> QED BY <1>3, <1>4 DEF Inv

\* A client whose run is over keeps the invariant until it has returned.
LEMMA OverKeeps ==
    ASSUME Inv, UNCHANGED serverSide, Over, Over', EndShown, cpc' # "ending",
           UNCHANGED <<results, final>>, ServerLive => sEnd' = sEnd,
           c2s' = c2s \/ (cpc = "ending" /\ CClientSend(<<"ClientTerminate">>)),
           Displayed => Displayed',
           outcome' = "Completed" => outcome = "Completed" \/ (results /\ final),
           outcome' \in Codes => outcome' = outcome
    PROVE  Inv'
<1>1. JointInv'
  <2>1. CASE ~ServerLive
    BY <2>1, ServerSame DEF JointInv, OverInv, EndShown
  <2>2. CASE ServerLive
    <3>1. PICK n \in 0..5, last \in Lasts : Left(n, last)
      BY <2>2, LiveMode
    <3>2. ReadOf \in 0..4 /\ ReadOf <= n /\ c2s = Behind(ReadOf, n, last)
      BY <2>2, <3>1, LiveSpot DEF Left, Unread
    <3>3. PICK word \in Lasts : c2s' = Behind(ReadOf, n, word) /\ (n = 5 => word = <<>>)
      <4>1. CASE c2s' = c2s
        BY <3>1, <3>2, <4>1 DEF Left
      <4>2. CASE cpc = "ending" /\ CClientSend(<<"ClientTerminate">>)
        <5>1. c2s' = c2s \o <<"ClientTerminate">> /\ last = <<>> /\ n # 5
          BY <2>2, <3>1, <4>2, ClientWrites DEF Left, Displayed
        <5>2. PICK r \in 0..5 : r = ReadOf
          BY <3>2
        <5>3. <<"ClientTerminate">> \in Seq(Items) /\ r <= n
          BY <3>2, <5>2 DEF Items, States
        <5>4. Behind(r, n, <<>>) \o <<"ClientTerminate">> = Behind(r, n, <<"ClientTerminate">>)
          BY <5>3, MoreBehind
        <5> QED BY <3>2, <5>1, <5>2, <5>4 DEF Lasts
      <4> QED BY <4>1, <4>2
    <3>4. Left(n, word)'
      BY <3>1, <3>2, <3>3, ServerSame DEF Left, Unread
    <3>5. OverInv'
      BY <3>4 DEF OverInv, Lasts
    <3> QED BY <2>2, <3>5, ServerSame DEF Inv, JointInv, EndShown
  <2> QED BY <2>1, <2>2
<1>2. EndsInv'
  <2>1. outcome' \in Codes => ~ServerLive' /\ Reason(outcome)'
    <3> SUFFICES ASSUME outcome' \in Codes PROVE ~ServerLive' /\ Reason(outcome)'
      OBVIOUS
    <3>1. PICK code \in Codes : outcome' = code /\ outcome = code
      OBVIOUS
    <3>2. ~ServerLive /\ Reason(code)
      BY <3>1 DEF Inv, EndsInv
    <3>3. ~ServerLive' /\ Reason(code)'
      BY <3>2, ServerSame
    <3> QED BY <3>1, <3>3
  <2> QED BY <2>1, ServerSame DEF Inv, EndsInv, serverSide
<1> QED BY <1>1, <1>2 DEF Inv

\* So does the report (on_display_results), sent or not.
LEMMA DisplayKeeps ==
    ASSUME Inv, OnDisplayResults, UNCHANGED serverSide
    PROVE  Inv'
<1>0. /\ cpc = "loop" /\ s2c # <<>> /\ Head(s2c) = "DisplayResults"
      /\ cpc' = "teardown" /\ final' = TRUE /\ UNCHANGED <<results, cEnd>>
  BY DEF OnDisplayResults, LoopArm, ClientSees, ClientFrame
<1>1. Reading
  BY <1>0 DEF Reading, Over, Pending
<1>2. ~final /\ outcome = "none" /\ cEnd = "open"
  BY <1>1, ReadingMode
<1>3. PICK p \in 0..7, n \in 0..4, k \in Spots : Wire(p, n, k)
  BY <1>1, ReadingMode
<1>4. p = 6 /\ n = 4 /\ k = 7 /\ results
  BY <1>0, <1>3, ClientHead DEF Wire, Position, At, Spots, ServerPath
<1>5. AfterExchange'
  <2>1. CASE ServerLive
    <3>1. spc = "done"
      BY <1>3, <1>4, <2>1, LiveSpot DEF Wire, LiveWire, Written
    <3> QED BY <2>1, <3>1, ServerSame DEF Inv, EndsInv, AfterExchange
  <2>2. CASE ~ServerLive
    BY <1>3, <1>4, <2>2, ServerSame DEF Wire, EndedWire
  <2> QED BY <2>1, <2>2
<1>6. CASE CClientSend(<<"IperfDone">>) /\ UNCHANGED outcome
  <2>1. Displayed'
    BY <1>0, <1>2, <1>4, <1>6 DEF Displayed
  <2>2. ServerLive => sEnd' = sEnd /\ Left(5, <<>>)'
    <3> SUFFICES ASSUME ServerLive PROVE sEnd' = sEnd /\ Left(5, <<>>)'
      OBVIOUS
    <3>1. c2s' = c2s \o <<"IperfDone">> /\ sEnd' = sEnd
      BY <1>6, ClientWrites
    <3>2. ReadOf \in 0..4 /\ c2s = Behind(ReadOf, n, <<>>) /\ Written = 7
      BY <1>3, <1>4, LiveSpot DEF Wire, LiveWire, Unread
    <3>3. PICK r \in 0..5 : r = ReadOf
      BY <3>2
    <3>4. /\ <<"IperfDone">> \in Seq(Items) /\ n \in 0..5 /\ r <= n /\ n < 5
          /\ <<"IperfDone">> = <<ClientPath[n + 1]>> /\ n + 1 = 5
      BY <1>4, <3>2, <3>3 DEF Items, States, ClientPath
    <3>5. Behind(r, n, <<>>) \o <<"IperfDone">> = Behind(r, n + 1, <<>>)
      BY <3>4, MoreBehind
    <3>6. c2s' = Behind(ReadOf, 5, <<>>)
      BY <3>1, <3>2, <3>3, <3>4, <3>5
    <3> QED BY <1>0, <2>1, <3>1, <3>2, <3>6, ServerSame DEF Left, Unread, ClientReach
  <2>3. OverInv' /\ Over'
    <3>1. 5 \in 0..5
      OBVIOUS
    <3> QED BY <1>0, <2>2, <3>1, ServerSame DEF OverInv, Over
  <2>4. JointInv'
    BY <1>0, <1>2, <2>2, <2>3, ServerSame DEF Inv, JointInv
  <2>5. EndsInv'
    BY <1>0, <1>2, <1>4, <1>5, <1>6, <2>1, ServerSame DEF Inv, EndsInv, serverSide, Codes
  <2> QED BY <2>4, <2>5 DEF Inv
<1>7. CASE ClientSendFails /\ outcome' = "Io"
  <2>1. ~ServerLive
    BY <1>7, ClientWrites
  <2>2. JointInv'
    BY <1>0, <1>2, <2>1, ServerSame DEF JointInv, Over, OverInv
  <2>3. ~Displayed
    BY <1>0 DEF Displayed
  <2>4. EndsInv'
    BY <1>0, <1>5, <1>7, <2>1, <2>3, ServerSame DEF Inv, EndsInv, serverSide, Codes
  <2> QED BY <2>2, <2>4 DEF Inv
<1> QED BY <1>6, <1>7 DEF OnDisplayResults
-----------------------------------------------------------------------------
(* The client's actions, each one a step of these kinds.                     *)

\* Leaving with an error, a number or an interrupt, having said nothing.
LEMMA LeaveKeeps ==
    ASSUME Inv, UNCHANGED serverSide, ~Over, NEW value, NEW docs, Leave(value, docs),
           Says, ServerLive => sEnd' = sEnd, UNCHANGED cEnd,
           value # "Completed", value \in Codes => ~ServerLive /\ Reason(value)
    PROVE  Inv'
<1>1. Over' /\ cpc' = "teardown" /\ outcome' = value /\ UNCHANGED <<results, final>>
  BY DEF Leave, Over
<1>2. EndShown
  BY <1>1 DEF EndShown, Inv, JointInv, Over
<1> QED BY <1>1, <1>2, QuitKeeps

\* The central loop (client.rs on_param_exchange, on_create_streams and their
\* like) keeps the invariant.
LEMMA LoopKeeps ==
    ASSUME Inv, UNCHANGED serverSide,
           \/ ConnectControl \/ OnParamExchange \/ OnCreateStreams \/ OnTestStart
           \/ OnTestRunning \/ OnExchangeResults \/ OnServerError \/ OnServerTerminate
           \/ OnIperfDone \/ OnAccessDenied \/ OnUnexpectedState
    PROVE  Inv'
<1>0. cpc \in {"connect", "loop"} /\ Reading
  <2>1. cpc \in {"connect", "loop"}
    BY DEF ConnectControl, OnParamExchange, OnCreateStreams, OnTestStart, OnTestRunning,
       OnExchangeResults, OnServerError, OnServerTerminate, OnIperfDone, OnAccessDenied,
       OnUnexpectedState, LoopArm
  <2> QED BY <2>1 DEF Reading, Over, Pending
<1>1. PICK p \in 0..7, n \in 0..4, k \in Spots : Wire(p, n, k)
  BY <1>0, ReadingMode
<1>2. At(p, n) /\ p <= k /\ (results <=> p >= 6)
  BY <1>1 DEF Wire, Position
<1>3. ~final /\ outcome = "none"
  BY <1>0, ReadingMode
<1>4. ASSUME ClientSendFails, Leave("Io", 0), UNCHANGED cEnd PROVE Inv'
  <2>1. ~ServerLive /\ c2s' = c2s
    BY <1>4, ClientWrites DEF ClientSendFails
  <2>2. "Io" \notin Codes /\ "Io" # "Completed"
    BY DEF Codes
  <2> QED BY <1>0, <1>4, <2>1, <2>2, LeaveKeeps DEF Says, Reading
<1>5. ASSUME NEW state, LoopArm(state)
      PROVE  /\ cpc = "loop" /\ s2c # <<>> /\ Head(s2c) = state /\ s2c' = Tail(s2c) /\ cEnd' = cEnd
             /\ state \notin {"ServerTerminate", "ServerError"} => p < k /\ state = ServerPath[p + 1]
             /\ state \in {"ServerTerminate", "ServerError"} => p = k /\ ~ServerLive
  <2>1. /\ cpc = "loop" /\ s2c # <<>> /\ Head(s2c) = state /\ s2c' = Tail(s2c) /\ cEnd' = cEnd
    BY <1>5 DEF LoopArm, ClientSees, ClientReads, ClientFrame
  <2>2. p < k => ServerPath[p + 1] \notin {"ServerTerminate", "ServerError"}
    BY DEF ServerPath, Spots
  <2> QED BY <1>1, <2>1, <2>2, ClientHead
<1> USE DEF At, ServerPath, Stay, cResult
<1>6. CASE ConnectControl
  <2>1. p = 0 /\ n = 0 /\ s2c' = s2c /\ cEnd' = cEnd
    BY <1>2, <1>6 DEF ConnectControl, ClientFrame
  <2>2. CASE CClientSend(<<"Cookie">>) /\ Stay("loop")
    <3>1. At(0, 1)' /\ results' = results /\ UNCHANGED <<final, outcome>>
      BY <2>2
    <3>2. <<"Cookie">> = <<ClientPath[1]>> /\ 0 \in 0..7 /\ 1 \in 0..4 /\ 1 = n + 1 /\ 0 <= k
      BY <1>2, <2>1 DEF ClientPath
    <3> QED BY <1>0, <1>1, <1>2, <2>1, <2>2, <3>1, <3>2, MoveKeeps
  <2>3. CASE ClientSendFails /\ Leave("Io", 0)
    BY <1>4, <2>1, <2>3
  <2> QED BY <1>6, <2>2, <2>3 DEF ConnectControl
<1>7. CASE OnParamExchange
  <2>0. p < k /\ "ParamExchange" = ServerPath[p + 1] /\ cpc = "loop" /\ s2c' = Tail(s2c) /\ cEnd' = cEnd
    BY <1>5, <1>7 DEF OnParamExchange
  <2>1. p = 0 /\ n = 1
    BY <1>2, <2>0
  <2>2. CASE CClientSend(<<"Params">>) /\ Stay("loop")
    <3>1. At(1, 2)' /\ results' = results /\ UNCHANGED <<final, outcome>>
      BY <2>2
    <3>2. /\ <<"Params">> = <<ClientPath[2]>> /\ 1 \in 0..7 /\ 2 \in 0..4
          /\ 2 = n + 1 /\ 1 = p + 1 /\ 1 <= k
      BY <2>0, <2>1 DEF ClientPath, Spots
    <3> QED BY <1>0, <1>1, <1>2, <2>0, <2>1, <2>2, <3>1, <3>2, MoveKeeps
  <2>3. CASE ClientSendFails /\ Leave("Io", 0)
    BY <1>4, <2>0, <2>3
  <2> QED BY <1>7, <2>2, <2>3 DEF OnParamExchange
<1>8. CASE OnCreateStreams
  <2>0. /\ p < k /\ "CreateStreams" = ServerPath[p + 1] /\ cpc = "loop" /\ s2c' = Tail(s2c)
        /\ cEnd' = cEnd /\ Stay("create") /\ UNCHANGED <<c2s, sEnd>>
    BY <1>5, <1>8 DEF OnCreateStreams
  <2>1. p = 1 /\ n = 2
    BY <1>2, <2>0
  <2>2. At(2, 2)' /\ results' = results /\ UNCHANGED <<final, outcome>>
    BY <2>0
  <2>3. 2 \in 0..7 /\ 2 \in 0..4 /\ 2 = n /\ 2 = p + 1 /\ 2 <= k
    BY <2>0, <2>1 DEF Spots
  <2> QED BY <1>0, <1>1, <1>2, <2>0, <2>1, <2>2, <2>3, MoveKeeps
<1>9. CASE OnTestStart
  <2>0. /\ p < k /\ "TestStart" = ServerPath[p + 1] /\ cpc = "loop" /\ s2c' = Tail(s2c)
        /\ cEnd' = cEnd /\ Stay("loop") /\ UNCHANGED <<c2s, sEnd>>
    BY <1>5, <1>9 DEF OnTestStart
  <2>1. p = 2 /\ n = 2
    BY <1>2, <2>0
  <2>2. At(3, 2)' /\ results' = results /\ UNCHANGED <<final, outcome>>
    BY <2>0
  <2>3. 3 \in 0..7 /\ 2 \in 0..4 /\ 2 = n /\ 3 = p + 1 /\ 3 <= k
    BY <2>0, <2>1 DEF Spots
  <2> QED BY <1>0, <1>1, <1>2, <2>0, <2>1, <2>2, <2>3, MoveKeeps
<1>10. CASE OnTestRunning
  <2>0. /\ p < k /\ "TestRunning" = ServerPath[p + 1] /\ cpc = "loop" /\ s2c' = Tail(s2c)
        /\ cEnd' = cEnd /\ Stay("run") /\ UNCHANGED <<c2s, sEnd>>
    BY <1>5, <1>10 DEF OnTestRunning
  <2>1. p = 3 /\ n = 2
    BY <1>2, <2>0
  <2>2. At(4, 2)' /\ results' = results /\ UNCHANGED <<final, outcome>>
    BY <2>0
  <2>3. 4 \in 0..7 /\ 2 \in 0..4 /\ 2 = n /\ 4 = p + 1 /\ 4 <= k
    BY <2>0, <2>1 DEF Spots
  <2> QED BY <1>0, <1>1, <1>2, <2>0, <2>1, <2>2, <2>3, MoveKeeps
<1>11. CASE OnExchangeResults
  <2>0. p < k /\ "ExchangeResults" = ServerPath[p + 1] /\ cpc = "loop" /\ s2c' = Tail(s2c) /\ cEnd' = cEnd
    BY <1>5, <1>11 DEF OnExchangeResults
  <2>1. p = 4 /\ n = 3
    BY <1>2, <2>0
  <2>2. CASE CClientSend(<<"Results">>) /\ Stay("results")
    <3>1. At(5, 4)' /\ results' = results /\ UNCHANGED <<final, outcome>>
      BY <2>2
    <3>2. /\ <<"Results">> = <<ClientPath[4]>> /\ 5 \in 0..7 /\ 4 \in 0..4
          /\ 4 = n + 1 /\ 5 = p + 1 /\ 5 <= k
      BY <2>0, <2>1 DEF ClientPath, Spots
    <3> QED BY <1>0, <1>1, <1>2, <2>0, <2>1, <2>2, <3>1, <3>2, MoveKeeps
  <2>3. CASE ClientSendFails /\ Leave("Io", 0)
    BY <1>4, <2>0, <2>3
  <2> QED BY <1>11, <2>2, <2>3 DEF OnExchangeResults
<1>12. CASE OnServerError
  <2>0. /\ p = k /\ ~ServerLive /\ cpc = "loop" /\ s2c # <<>> /\ Head(s2c) = "ServerError"
        /\ s2c' = Tail(s2c) /\ cEnd' = cEnd /\ Stay("payload")
    BY <1>5, <1>12 DEF OnServerError
  <2>1. PICK code \in Codes : Told(p, k, code)
    BY <1>1, <2>0, ClientHead DEF Spots
  <2>2. ~results /\ ~(code = "E117" /\ k = 5)
    BY <1>2, <2>0 DEF Spots
  <2>3. s2c' = <<code>> /\ Reason(code)
    BY <2>0, <2>1, <2>2 DEF Told, Relay
  <2>4. Pending' /\ ~Over' /\ UNCHANGED <<results, final, outcome>>
    BY <2>0 DEF Pending, Over
  <2> QED BY <1>0, <2>0, <2>2, <2>3, <2>4, PendKeeps
<1>13. CASE OnServerTerminate
  <2>1. Leave("ServerTerminated", 1) /\ UNCHANGED <<c2s, sEnd, cEnd>>
    BY <1>5, <1>13 DEF OnServerTerminate
  <2>2. "ServerTerminated" \notin Codes /\ "ServerTerminated" # "Completed"
    BY DEF Codes
  <2> QED BY <1>0, <2>1, <2>2, LeaveKeeps DEF Says, Reading
<1>14. \A state : LoopArm(state) => state \notin {"IperfDone", "AccessDenied", "TestEnd",
                                                  "ClientTerminate", "IperfStart"}
  BY <1>5 DEF Spots
<1> QED BY <1>6, <1>7, <1>8, <1>9, <1>10, <1>11, <1>12, <1>13, <1>14
     DEF OnIperfDone, OnAccessDenied, OnUnexpectedState
\* A read that fails in the central loop, and a signal in a wait, keep it.
LEMMA BreakKeeps ==
    ASSUME Inv, UNCHANGED serverSide, LoopRecvFails \/ WaitInterrupted
    PROVE  Inv'
<1>0. ~Over /\ UNCHANGED cEnd
  BY DEF LoopRecvFails, WaitInterrupted, ClientFrame, Over
<1>1. /\ "ControlSocketClosed" \notin Codes /\ "Io" \notin Codes /\ "Interrupted" \notin Codes
      /\ "UnknownControlMessage" \notin Codes
  BY DEF Codes
<1>2. CASE LoopRecvFails
  <2>1. PICK value \in {"ControlSocketClosed", "Io", "UnknownControlMessage"}, docs \in {0, 1} :
            Leave(value, docs)
    BY <1>2 DEF LoopRecvFails
  <2>2. Says /\ sEnd' = sEnd
    BY <1>2 DEF LoopRecvFails, Says
  <2> QED BY <1>0, <1>1, <2>1, <2>2, LeaveKeeps
<1>3. CASE WaitInterrupted
  <2>1. CClientSend(<<"ClientTerminate">>) /\ Leave("Interrupted", 1)
    BY <1>3 DEF WaitInterrupted
  <2>2. Says /\ (ServerLive => sEnd' = sEnd)
    BY <2>1, ClientWrites DEF Says, Leave
  <2> QED BY <1>0, <1>1, <2>1, <2>2, LeaveKeeps
<1> QED BY <1>2, <1>3

\* The data connections (create_streams) keep it.
LEMMA ConnectKeeps ==
    ASSUME Inv, UNCHANGED serverSide, ConnectStream \/ ConnectStreamFails
    PROVE  Inv'
<1>0. /\ cpc = "create" /\ Reading /\ UNCHANGED cEnd /\ UNCHANGED <<c2s, s2c, sEnd>>
  BY DEF ConnectStream, ConnectStreamFails, ClientFrame, Reading, Over, Pending
<1>1. CASE ConnectStream
  <2>0. cpc' \in {"create", "loop"} /\ UNCHANGED <<event, results, final, outcome>>
    BY <1>1 DEF ConnectStream, cResult
  <2>1. PICK p \in 0..7, n \in 0..4, k \in Spots : Wire(p, n, k)
    BY <1>0, ReadingMode
  <2>2. p = 2 /\ n = 2 /\ p <= k /\ (results <=> p >= 6)
    BY <1>0, <2>1 DEF Wire, Position, At
  <2>3. At(p, n)'
    BY <2>0, <2>2 DEF At
  <2> QED BY <1>0, <2>0, <2>1, <2>2, <2>3, MoveKeeps
<1>2. CASE ConnectStreamFails
  <2>1. Leave("Io", 0) /\ Says /\ "Io" \notin Codes /\ "Io" # "Completed"
    BY <1>0, <1>2 DEF ConnectStreamFails, Says, Codes
  <2> QED BY <1>0, <2>1, LeaveKeeps DEF Reading
<1> QED BY <1>1, <1>2

\* The test itself (run_test) keeps it.
LEMMA RunKeeps ==
    ASSUME Inv, UNCHANGED serverSide, EndCondition \/ WatchControl \/ RunInterrupted
    PROVE  Inv'
<1>0. cpc = "run" /\ Reading
  BY DEF EndCondition, WatchControl, RunInterrupted, Reading, Over, Pending
<1>1. PICK p \in 0..7, n \in 0..4, k \in Spots : Wire(p, n, k)
  BY <1>0, ReadingMode
<1>2. p = 4 /\ n = 2 /\ k = 4 /\ ~results
  BY <1>0, <1>1 DEF Wire, Position, At, Spots, ServerReach
<1>3. \A ev : RunEnds(ev) => /\ event' = ev /\ cpc' = "ending" /\ UNCHANGED <<c2s, sEnd, cEnd>>
                             /\ UNCHANGED <<results, final, outcome>>
  BY DEF RunEnds, ClientFrame
<1>4. ~final /\ outcome = "none"
  BY <1>0, ReadingMode
<1>5. ASSUME NEW ev \in {"Terminated", "Interrupted", "Closed"}, RunEnds(ev) PROVE Inv'
  <2>1. Over' /\ Says /\ EndShown /\ outcome' = "none"
    BY <1>0, <1>3, <1>4, <1>5 DEF Over, Says, EndShown, Inv, JointInv
  <2>2. "none" \notin Codes
    BY DEF Codes
  <2> QED BY <1>0, <1>3, <1>5, <2>1, <2>2, QuitKeeps DEF Reading
<1>6. CASE EndCondition
  <2>1. RunEnds("none") /\ s2c' = s2c
    BY <1>6 DEF EndCondition
  <2>2. At(p, n)'
    BY <1>2, <1>3, <2>1 DEF At
  <2> QED BY <1>0, <1>1, <1>2, <1>3, <2>1, <2>2, MoveKeeps
<1>7. CASE WatchControl
  <2>1. CASE ClientSees("ServerError") /\ ClientReads /\ RunEnds("ServerError")
    <3>1. s2c # <<>> /\ Head(s2c) = "ServerError" /\ s2c' = Tail(s2c)
      BY <2>1 DEF ClientSees, ClientReads
    <3>2. PICK code \in Codes : ~ServerLive /\ Told(p, k, code)
      BY <1>1, <1>2, <3>1, ClientHead
    <3>3. s2c' = <<code>> /\ Reason(code)
      BY <1>2, <3>1, <3>2 DEF Told, Relay
    <3>4. Pending' /\ ~Over'
      BY <1>3, <2>1 DEF Pending, Over
    <3> QED BY <1>0, <1>2, <1>3, <2>1, <3>2, <3>3, <3>4, PendKeeps
  <2>2. CASE s2c # <<>> /\ Head(s2c) \in States \ {"ServerTerminate", "ServerError"}
    BY <1>1, <1>2, <2>2, ClientHead
  <2> QED BY <1>5, <1>7, <2>1, <2>2 DEF WatchControl
<1>8. CASE RunInterrupted
  BY <1>5, <1>8 DEF RunInterrupted
<1> QED BY <1>6, <1>7, <1>8

\* What on_test_running makes of the end of the test keeps it.
LEMMA EndingKeeps ==
    ASSUME Inv, UNCHANGED serverSide, OnRunEnded
    PROVE  Inv'
<1>0. cpc = "ending" /\ UNCHANGED <<s2c, cEnd>>
  BY DEF OnRunEnded, ClientFrame
<1>1. /\ \A c \in {"ServerTerminated", "Interrupted", "ControlSocketClosed", "Io"} :
            c \notin Codes /\ c # "Completed"
  BY DEF Codes
<1>2. ASSUME event \in {"Terminated", "Interrupted", "Closed"},
             NEW value \in {"ServerTerminated", "Interrupted", "ControlSocketClosed"},
             NEW docs, Leave(value, docs),
             CClientSend(<<"ClientTerminate">>) \/ UNCHANGED <<c2s, sEnd>>
      PROVE  Inv'
  <2>1. Over /\ Over' /\ cpc' = "teardown" /\ outcome' = value /\ UNCHANGED <<results, final>>
    BY <1>0, <1>2 DEF Over, Leave
  <2>2. EndShown /\ ~Displayed
    BY <1>0, <2>1 DEF EndShown, Displayed, Inv, JointInv
  <2>3. ServerLive => sEnd' = sEnd
    BY <1>2, ClientWrites
  <2> QED BY <1>0, <1>1, <1>2, <2>1, <2>2, <2>3, OverKeeps
<1>3. CASE event = "ServerError" /\ Stay("payload") /\ UNCHANGED <<c2s, sEnd>>
  <2>1. Pending /\ Pending' /\ ~Over /\ ~Over' /\ UNCHANGED <<results, final, outcome>>
    BY <1>0, <1>3 DEF Pending, Over, Stay, cResult
  <2>2. ~final /\ outcome = "none" /\ PendingInv
    BY <2>1 DEF Inv, JointInv
  <2>3. PendingInv' /\ ~ServerLive'
    BY <1>0, <2>1, <2>2, ServerSame DEF PendingInv
  <2>4. (cpc' \notin {"returned", "cancelled"}) /\ cEnd = "open"
    BY <1>0, <1>3 DEF Stay, Inv, JointInv
  <2>5. JointInv'
    BY <1>0, <2>1, <2>2, <2>3, <2>4 DEF JointInv
  <2>6. EndsInv'
    BY <1>0, <2>1, <2>2, ServerSame DEF Inv, EndsInv, serverSide, Codes, Displayed
  <2> QED BY <2>5, <2>6 DEF Inv
<1>4. CASE event = "none"
  <2>1. Reading
    BY <1>0, <1>4 DEF Reading, Over, Pending
  <2>2. PICK p \in 0..7, n \in 0..4, k \in Spots : Wire(p, n, k)
    BY <2>1, ReadingMode
  <2>3. p = 4 /\ n = 2 /\ p <= k /\ ~results
    BY <1>0, <2>2 DEF Wire, Position, At
  <2>4. CASE CClientSend(<<"TestEnd">>) /\ Stay("loop")
    <3>1. At(4, 3)' /\ UNCHANGED <<results, final, outcome>>
      BY <2>4 DEF At, Stay, cResult
    <3>2. <<"TestEnd">> = <<ClientPath[3]>> /\ 4 \in 0..7 /\ 3 \in 0..4 /\ 3 = n + 1 /\ 4 = p /\ 4 <= k
      BY <2>3 DEF ClientPath
    <3> QED BY <1>0, <2>1, <2>2, <2>3, <2>4, <3>1, <3>2, MoveKeeps
  <2>5. CASE ClientSendFails /\ Leave("Io", 0)
    <3>1. Says /\ ~ServerLive
      BY <2>5, ClientWrites DEF Says, ClientSendFails
    <3> QED BY <1>0, <1>1, <2>1, <2>5, <3>1, LeaveKeeps DEF Reading
  <2> QED BY <1>4, <2>4, <2>5 DEF OnRunEnded
<1> QED BY <1>2, <1>3, <1>4 DEF OnRunEnded

\* The error number (on_server_error_relay) keeps it.
LEMMA PayloadKeeps ==
    ASSUME Inv, UNCHANGED serverSide, OnServerErrorRelay
    PROVE  Inv'
<1>0. cpc = "payload" /\ ~Over /\ Pending /\ UNCHANGED <<c2s, sEnd, cEnd>>
  BY DEF OnServerErrorRelay, Over, Pending, ClientFrame
<1>1. PICK code \in Codes : ~ServerLive /\ s2c = <<code>> /\ Reason(code)
  BY <1>0 DEF Inv, JointInv, PendingInv
<1>2. Says
  BY <1>0 DEF Says
<1>3. CASE s2c # <<>> /\ Head(s2c) \in Codes /\ Leave(Head(s2c), 1)
  <2>1. Leave(code, 1) /\ code # "Completed"
    BY <1>1, <1>3 DEF Codes
  <2> QED BY <1>0, <1>1, <1>2, <2>1, LeaveKeeps
<1>4. CASE Leave("ServerErrorUnknown", 1)
  <2>1. "ServerErrorUnknown" \notin Codes /\ "ServerErrorUnknown" # "Completed"
    BY DEF Codes
  <2> QED BY <1>0, <1>2, <1>4, <2>1, LeaveKeeps
<1> QED BY <1>3, <1>4 DEF OnServerErrorRelay

\* The server's results (on_exchange_results) keep it.
LEMMA ResultsKeep ==
    ASSUME Inv, UNCHANGED serverSide, RecvServerResults \/ RecvServerResultsFails
    PROVE  Inv'
<1>0. cpc = "results" /\ Reading /\ UNCHANGED <<c2s, sEnd, cEnd>>
  BY DEF RecvServerResults, RecvServerResultsFails, Reading, Over, Pending, ClientFrame
<1>1. CASE RecvServerResults
  <2>0. /\ s2c # <<>> /\ Head(s2c) = "Results" /\ s2c' = Tail(s2c) /\ results' = TRUE
        /\ cpc' = "loop" /\ UNCHANGED <<final, outcome>>
    BY <1>1 DEF RecvServerResults, ClientSees, ClientReads
  <2>1. PICK p \in 0..7, n \in 0..4, k \in Spots : Wire(p, n, k)
    BY <1>0, ReadingMode
  <2>2. p = 5 /\ n = 4 /\ p < k
    BY <1>0, <2>0, <2>1, ClientHead DEF Wire, Position, At
  <2>3. At(6, 4)'
    BY <2>0 DEF At
  <2>4. 6 \in 0..7 /\ 4 \in 0..4 /\ 6 = p + 1 /\ 4 = n /\ 6 <= k /\ (results' <=> 6 >= 6)
    BY <2>0, <2>2 DEF Spots
  <2> QED BY <1>0, <2>0, <2>1, <2>3, <2>4, MoveKeeps
<1>2. CASE RecvServerResultsFails
  <2>1. Leave("RecvResultsFailed", 1) /\ Says
    BY <1>0, <1>2 DEF RecvServerResultsFails, Says
  <2>2. "RecvResultsFailed" \notin Codes /\ "RecvResultsFailed" # "Completed"
    BY DEF Codes
  <2> QED BY <1>0, <2>1, <2>2, LeaveKeeps DEF Reading
<1> QED BY <1>1, <1>2

\* The teardown, the return and the death of the client keep it.
LEMMA TeardownKeeps ==
    ASSUME Inv, UNCHANGED serverSide, Teardown \/ GraceEnds \/ JoinAndReturn \/ ClientDies
    PROVE  Inv'
<1>0. UNCHANGED <<c2s, sEnd, results, final>> /\ Over' /\ cpc' # "ending"
  BY DEF Teardown, GraceEnds, JoinAndReturn, ClientDies, wireVars, cResult, Over
<1>1. EndShown
  BY DEF Teardown, GraceEnds, JoinAndReturn, ClientDies, wireVars, ClosedEnd, EndShown, Inv,
     JointInv
<1>2. /\ outcome' = "Completed" => outcome = "Completed" \/ (results /\ final)
      /\ outcome' \in Codes => outcome' = outcome
  BY DEF Teardown, GraceEnds, JoinAndReturn, ClientDies, cResult, RunCompleted, Codes
<1>3. Displayed => Displayed'
  BY DEF Teardown, GraceEnds, JoinAndReturn, ClientDies, cResult, RunCompleted, Displayed
<1>4. CASE Over
  BY <1>0, <1>1, <1>2, <1>3, <1>4, OverKeeps
<1>5. CASE ~Over
  <2>1. outcome' = outcome
    BY <1>5 DEF Teardown, GraceEnds, JoinAndReturn, ClientDies, cResult, Over
  <2>2. outcome = "none"
    BY <1>5 DEF Inv, JointInv
  <2>3. Says /\ "none" \notin Codes
    BY <1>0 DEF Says, Codes
  <2> QED BY <1>0, <1>1, <1>5, <2>1, <2>2, <2>3, QuitKeeps
<1> QED BY <1>4, <1>5

\* Every step of the client keeps the invariant.
LEMMA ClientKeeps ==
    ASSUME Inv, ClientStep, UNCHANGED serverVars
    PROVE  Inv'
<1>0. UNCHANGED serverSide
  BY DEF serverVars, sResult, serverSide
<1>1. CASE InterruptClient \/ \E i \in clive : ClientTaskEnds(i)
  <2>1. UNCHANGED <<c2s, s2c, cEnd, sEnd, clientSide>>
    BY <1>1 DEF InterruptClient, ClientTaskEnds, wireVars, cResult, clientSide
  <2> QED BY <1>0, <2>1, StillKeeps
<1> QED BY <1>0, <1>1, LoopKeeps, BreakKeeps, ConnectKeeps, RunKeeps, EndingKeeps,
     PayloadKeeps, ResultsKeep, DisplayKeeps, TeardownKeeps
     DEF ClientStep, ClientProgress, ClientOddStates, ClientEvents
-----------------------------------------------------------------------------
\* A fresh round satisfies the invariant.
LEMMA InitInv == Init => Inv
<1> SUFFICES ASSUME Init PROVE Inv
  OBVIOUS
<1> USE DEF Init, WireInit, ServerInit, ClientInit
<1>1. Position(0, 0, 0) /\ ServerLive /\ Written = 0 /\ ReadOf = 0 /\ ~Over /\ ~Pending
  BY DEF Position, At, ServerReach, ServerLive, Written, ReadOf, Over, Pending
<1>2. LiveWire(0, 0, 0)
  <2>1. Ahead(0, 0, <<>>) = <<>>
    BY Segments DEF Spots
  <2>2. Behind(0, 0, <<>>) = <<>>
    <3>1. 0 \in 0..5 /\ <<>> \in Seq(Items)
      BY LastType
    <3> QED BY <3>1, NothingBehind
  <2> QED BY <1>1, <2>1, <2>2 DEF LiveWire, Unread
<1>3. JointInv
  BY <1>1, <1>2 DEF JointInv, ReadingInv
<1>4. EndsInv
  BY <1>1 DEF EndsInv, FlagNames, Codes
<1> QED BY <1>3, <1>4 DEF Inv

\* Every step keeps it.
LEMMA NextInv == Inv /\ [Next]_vars => Inv'
<1> SUFFICES ASSUME Inv, [Next]_vars PROVE Inv'
  OBVIOUS
<1>1. CASE ServerStep /\ UNCHANGED clientVars
  BY <1>1, ServerKeeps
<1>2. CASE ClientStep /\ UNCHANGED serverVars
  BY <1>2, ClientKeeps
<1>3. CASE UNCHANGED vars
  <2>1. UNCHANGED <<c2s, s2c, cEnd, sEnd, serverSide, clientSide>>
    BY <1>3 DEF vars, wireVars, serverVars, clientVars, sResult, cResult, serverSide, clientSide
  <2> QED BY <2>1, StillKeeps
<1> QED BY <1>1, <1>2, <1>3 DEF Next

\* The two state machines (server.rs handle_one_test, client.rs Client::run)
\* stay where the other expects them on the control connection, for every
\* test, limit and deadline and wherever either of them stops.
THEOREM Invariance == Spec => []Inv
BY InitInv, NextInv, PTL DEF Spec

\* What each side finds on the wire, from where it is in the round.
LEMMA InvFraming == Inv => FramingKept
<1> SUFFICES ASSUME Inv PROVE FramingKept
  OBVIOUS
<1>1. ASSUME cpc \in {"loop", "run"}, s2c # <<>> PROVE Head(s2c) \in States
  <2>1. Reading
    BY <1>1 DEF Reading, Over, Pending
  <2>2. PICK p \in 0..7, n \in 0..4, k \in Spots : Wire(p, n, k)
    BY <2>1, ReadingMode
  <2>3. p \in {0, 1, 2, 3, 4, 6}
    BY <1>1, <2>2 DEF Wire, Position, At
  <2> QED BY <1>1, <2>2, <2>3, ClientHead DEF ServerPath, States
<1>2. ASSUME cpc = "payload", s2c # <<>> PROVE Head(s2c) \in Codes
  <2>1. PICK code \in Codes : s2c = <<code>>
    BY <1>2 DEF Inv, JointInv, Over, Pending, PendingInv
  <2> QED BY <2>1
<1>3. ASSUME spc \in {"setup", "await", "done"}, c2s # <<>> PROVE Head(c2s) \in States
  <2>1. ServerLive
    BY <1>3 DEF ServerLive
  <2> QED BY <1>3, <2>1, LiveItems DEF States
<1>4. ASSUME cpc = "results", s2c # <<>>
      PROVE  Head(s2c) \in {"Results", "ServerTerminate", "ServerError"}
  <2>1. Reading
    BY <1>4 DEF Reading, Over, Pending
  <2>2. PICK p \in 0..7, n \in 0..4, k \in Spots : Wire(p, n, k)
    BY <2>1, ReadingMode
  <2>3. p = 5
    BY <1>4, <2>2 DEF Wire, Position, At
  <2> QED BY <1>4, <2>2, <2>3, ClientHead DEF ServerPath
<1>5. ASSUME spc = "params", c2s # <<>> PROVE Head(c2s) \in {"Params", "ClientTerminate"}
  <2>1. ServerLive
    BY <1>5 DEF ServerLive
  <2> QED BY <1>5, <2>1, LiveItems
<1>6. ASSUME spc = "results", c2s # <<>> PROVE Head(c2s) \in {"Results", "ClientTerminate"}
  <2>1. ServerLive
    BY <1>6 DEF ServerLive
  <2> QED BY <1>6, <2>1, LiveItems
<1> QED BY <1>1, <1>2, <1>3, <1>4, <1>5, <1>6 DEF FramingKept

LEMMA InvClient == Inv => ClientCompletedTruly
BY DEF Inv, EndsInv, AfterExchange, ClientCompletedTruly

LEMMA InvServer == Inv => ServerCompletedTruly
BY DEF Inv, EndsInv, Displayed, ServerCompletedTruly

LEMMA InvRelay == Inv => RelayNamesTheReason
BY DEF Inv, EndsInv, Reason, Codes, RelayNamesTheReason

\* Neither side loses the framing of the control connection on its own
\* (protocol.rs recv_state): a reader that expects
\* a control byte meets no frame, and one that expects a frame meets a control
\* byte only when the peer was interrupted or gave the round up.
THEOREM FramingAlwaysKept == Spec => []FramingKept
BY Invariance, InvFraming, PTL

\* A client that returns Completed (client.rs Client::run) faces a server
\* that took its results, sent its own, and ended cleanly or after that.
THEOREM ClientCompletesTruly == Spec => []ClientCompletedTruly
BY Invariance, InvClient, PTL

\* A server whose Termination is Completed (server.rs handle_one_test) served
\* a client that displayed both sides' results and returns Completed, unless
\* it dies first.
THEOREM ServerCompletesTruly == Spec => []ServerCompletedTruly
BY Invariance, InvServer, PTL

\* An error number a client returns (client.rs on_server_error_relay) was sent
\* for the reason it names, and five of the twelve numbers the server relays
\* reach no client that still reads them as one.
THEOREM RelayedReasonsTrue == Spec => []RelayNamesTheReason
BY Invariance, InvRelay, PTL
-----------------------------------------------------------------------------
(* The round as one of the rounds a server has with any peer, and as one of  *)
(* the runs a client has with any server.                                    *)

\* Nothing bounds what is in flight.
Unbounded == PeerInFlight = Nat /\ ServerInFlight = Nat /\ Numbers = Codes

RoundInv == Inv /\ AskInv /\ InvAnyPeer /\ InvAnyServer

\* What is not on a wire is not there when an item is read.
LEMMA UnsaidTail ==
    ASSUME NEW m, NEW s \in Seq(Items), s # <<>>, Unsaid(m, s)
    PROVE  Unsaid(m, Tail(s))
<1> SUFFICES ASSUME NEW i \in DOMAIN Tail(s) PROVE Tail(s)[i] # m
  BY DEF Unsaid
<1>1. i \in 1..(Len(s) - 1) /\ Tail(s)[i] = s[i + 1] /\ Len(s) \in Nat
  BY HeadTailProperties
<1>2. i + 1 \in DOMAIN s
  BY <1>1
<1> QED BY <1>1, <1>2 DEF Unsaid

\* Nor when others come behind.
LEMMA UnsaidMore ==
    ASSUME NEW m, NEW s \in Seq(Items), NEW t \in Seq(Items), Unsaid(m, s), Unsaid(m, t)
    PROVE  Unsaid(m, s \o t)
<1> SUFFICES ASSUME NEW i \in DOMAIN (s \o t) PROVE (s \o t)[i] # m
  BY DEF Unsaid
<1>1. /\ i \in 1..(Len(s) + Len(t)) /\ Len(s) \in Nat /\ Len(t) \in Nat
      /\ i <= Len(s) => (s \o t)[i] = s[i]
      /\ i > Len(s) => (s \o t)[i] = t[i - Len(s)]
  BY ConcatProperties
<1>2. CASE i <= Len(s)
  <2>1. i \in DOMAIN s
    BY <1>1, <1>2
  <2> QED BY <1>1, <1>2, <2>1 DEF Unsaid
<1>3. CASE i > Len(s)
  <2>1. i - Len(s) \in DOMAIN t
    BY <1>1, <1>3
  <2> QED BY <1>1, <1>3, <2>1 DEF Unsaid
<1> QED BY <1>1, <1>2, <1>3

\* An item at the head is there.
LEMMA UnsaidHead ==
    ASSUME NEW m, NEW s \in Seq(Items), s # <<>>, Head(s) = m
    PROVE  ~Unsaid(m, s)
<1>1. 1 \in DOMAIN s /\ s[1] = m
  OBVIOUS
<1> QED BY <1>1 DEF Unsaid

\* A wire with one other item, or none, does not hold it.
LEMMA UnsaidOne ==
    ASSUME NEW m, NEW a, a # m
    PROVE  Unsaid(m, <<a>>) /\ Unsaid(m, <<>>)
BY DEF Unsaid

\* The types of the wire.
LEMMA RoundTypes ==
    ASSUME RoundInv
    PROVE  /\ WireTypeOK /\ c2s \in Seq(Items) /\ s2c \in Seq(Items)
           /\ Len(c2s) \in Nat /\ Len(s2c) \in Nat /\ dialed \in Nat
           /\ Total(test) \in 1..MaxStreams /\ MaxStreams \in Nat
<1>1. WireTypeOK
  BY DEF RoundInv, InvAnyPeer, TypeOKAnyPeer
<1>2. c2s \in Seq(Items) /\ s2c \in Seq(Items) /\ dialed \in Nat /\ test \in Tests
  BY <1>1 DEF WireTypeOK
<1>3. Len(c2s) \in Nat /\ Len(s2c) \in Nat
  BY <1>2
<1> QED BY <1>1, <1>2, <1>3, TestsAssumption
-----------------------------------------------------------------------------
(* A step of the client, as the wire sees it.                                *)

\* It read an item or none, and wrote one or none.
ClientTalks ==
    /\ cpc \notin {"returned", "cancelled"}
    /\ UNCHANGED <<test, cEnd, dialed>>
    /\ s2c' = s2c \/ (s2c # <<>> /\ s2c' = Tail(s2c))
    /\ \/ UNCHANGED <<c2s, sEnd>>
       \/ \E m \in States \cup {"Cookie", "Results"} : CClientSend(<<m>>)
       \/ CClientSend(<<"Params">>) /\ s2c # <<>> /\ Head(s2c) = "ParamExchange"
            /\ s2c' = Tail(s2c)
    /\ cpc' = "create" =>
          /\ cpc = "loop" /\ s2c # <<>> /\ Head(s2c) = "CreateStreams" /\ s2c' = Tail(s2c)
          /\ batch' = batch

ClientCloses ==
    /\ cpc \notin {"returned", "cancelled"}
    /\ cpc' \in {"returned", "cancelled"}
    /\ cEnd' = ClosedEnd(s2c) /\ s2c' = <<>>
    /\ UNCHANGED <<test, c2s, sEnd, dialed>>

ClientRests == UNCHANGED <<wireVars, batch>> /\ cpc' \in {cpc, "grace", "join"}

\* Every step of the client is one of these.
LEMMA ClientMoves ==
    ASSUME ClientStep
    PROVE  ClientTalks \/ ConnectStream \/ ClientCloses \/ ClientRests
<1>1. CASE ConnectControl
  <2>1. "Cookie" \in States \cup {"Cookie", "Results"}
    OBVIOUS
  <2> QED BY <1>1, <2>1 DEF ConnectControl, ClientSendFails, Stay, Leave, ClientFrame, ClientTalks
<1>2. CASE OnParamExchange
  BY <1>2 DEF OnParamExchange, LoopArm, ClientSees, ClientReads, ClientSendFails, Stay, Leave,
     ClientFrame, ClientTalks
<1>3. CASE OnCreateStreams \/ OnTestStart \/ OnTestRunning \/ OnServerError \/ OnServerTerminate
           \/ OnIperfDone \/ OnAccessDenied \/ OnUnexpectedState
  BY <1>3 DEF OnCreateStreams, OnTestStart, OnTestRunning, OnServerError, OnServerTerminate,
     OnIperfDone, OnAccessDenied, OnUnexpectedState, LoopArm, ClientSees, ClientReads, Stay,
     Leave, ClientFrame, ClientTalks, cTasks
<1>4. CASE OnExchangeResults
  <2>1. "Results" \in States \cup {"Cookie", "Results"}
    OBVIOUS
  <2> QED BY <1>4, <2>1 DEF OnExchangeResults, LoopArm, ClientSees, ClientReads, ClientSendFails,
          Stay, Leave, ClientFrame, ClientTalks
<1>5. CASE OnDisplayResults
  <2>1. "IperfDone" \in States \cup {"Cookie", "Results"}
    BY DEF States
  <2> QED BY <1>5, <2>1 DEF OnDisplayResults, LoopArm, ClientSees, ClientReads, ClientSendFails,
          ClientFrame, ClientTalks
<1>6. CASE LoopRecvFails
  BY <1>6 DEF LoopRecvFails, ClientReads, Leave, ClientFrame, ClientTalks
<1>7. CASE WaitInterrupted
  <2>1. "ClientTerminate" \in States \cup {"Cookie", "Results"}
    BY DEF States
  <2> QED BY <1>7, <2>1 DEF WaitInterrupted, Leave, ClientFrame, ClientTalks
<1>8. CASE ConnectStreamFails
  BY <1>8 DEF ConnectStreamFails, Leave, ClientFrame, ClientTalks
<1>9. CASE EndCondition \/ WatchControl \/ RunInterrupted
  BY <1>9 DEF EndCondition, WatchControl, RunInterrupted, RunEnds, ClientSees, ClientReads,
     ClientFrame, ClientTalks
<1>10. CASE OnRunEnded
  <2>1. {"ClientTerminate", "TestEnd"} \subseteq States \cup {"Cookie", "Results"}
    BY DEF States
  <2> QED BY <1>10, <2>1 DEF OnRunEnded, ClientSendFails, Stay, Leave, ClientFrame, ClientTalks
<1>11. CASE OnServerErrorRelay \/ RecvServerResults \/ RecvServerResultsFails
  BY <1>11 DEF OnServerErrorRelay, RecvServerResults, RecvServerResultsFails, ClientSees,
     ClientReads, Leave, ClientFrame, ClientTalks
<1>12. CASE JoinAndReturn \/ ClientDies
  BY <1>12 DEF JoinAndReturn, ClientDies, ClientCloses
<1>13. CASE Teardown \/ GraceEnds \/ InterruptClient \/ \E i \in clive : ClientTaskEnds(i)
  BY <1>13 DEF Teardown, GraceEnds, InterruptClient, ClientTaskEnds, ClientRests, cTasks
<1> QED BY <1>1, <1>2, <1>3, <1>4, <1>5, <1>6, <1>7, <1>8, <1>9, <1>10, <1>11, <1>12, <1>13
        DEF ClientStep, ClientProgress, ClientOddStates, ClientEvents

\* The client is a peer the server may have.
LEMMA ClientIsPeer ==
    ASSUME RoundInv, Unbounded, ClientStep, UNCHANGED serverVars
    PROVE  PeerStep \/ UNCHANGED varsAnyPeer
<1>0. cpc \notin {"returned", "cancelled"} => cEnd = "open"
  BY DEF RoundInv, Inv, JointInv
<1>1. CASE ClientTalks
  <2>1. cEnd = "open" /\ PeerReads /\ UNCHANGED <<test, cEnd, dialed, serverVars>>
    BY <1>0, <1>1 DEF ClientTalks, PeerReads
  <2>2. PeerWrites \/ UNCHANGED <<c2s, sEnd>>
    <3>1. Len(c2s) \in PeerInFlight
      BY RoundTypes DEF Unbounded
    <3>2. \A m \in States \cup {"Cookie", "Results", "Params"} :
              m \in States \cup {Unmapped} \cup Frames
      BY DEF Frames
    <3> QED BY <1>1, <3>1, <3>2 DEF ClientTalks, PeerWrites
  <2> QED BY <2>1, <2>2 DEF PeerStep, PeerTalks
<1>2. CASE ConnectStream
  <2>1. cpc = "create" /\ dialed' = dialed + 1 /\ UNCHANGED <<test, c2s, s2c, cEnd, sEnd>>
    BY <1>2 DEF ConnectStream, ClientFrame
  <2>2. dialed <= Total(test)
    BY DEF RoundInv, AskInv
  <2> QED BY <1>0, <2>1, <2>2 DEF PeerStep, PeerDials
<1>3. CASE ClientCloses
  BY <1>0, <1>3 DEF ClientCloses, PeerStep, PeerCloses
<1>4. CASE ClientRests
  BY <1>4 DEF ClientRests, varsAnyPeer
<1> QED BY <1>1, <1>2, <1>3, <1>4, ClientMoves

\* It opens the streams it was asked for, and asks for no more.
LEMMA ClientKeepsAsk ==
    ASSUME RoundInv, ClientStep, UNCHANGED serverVars
    PROVE  AskInv'
<1>0. /\ c2s \in Seq(Items) /\ s2c \in Seq(Items) /\ dialed \in Nat /\ spc' = spc
      /\ AskInv /\ Total(test) \in Nat
  BY RoundTypes DEF RoundInv, serverVars
<1>1. CASE ClientTalks
  <2>1. UNCHANGED <<test, dialed>> /\ Total(test)' = Total(test)
    BY <1>1 DEF ClientTalks, Total
  <2>2. s2c' = s2c \/ (s2c # <<>> /\ s2c' = Tail(s2c))
    BY <1>1 DEF ClientTalks
  <2>3. ASSUME spc \in {"cookie", "params"} PROVE cpc' # "create"
    <3>1. s2c = <<>> \/ Head(s2c) = "ParamExchange"
      BY <1>0, <2>3 DEF AskInv
    <3>2. cpc # "create"
      BY <1>0, <2>3 DEF AskInv
    <3> QED BY <1>1, <3>1, <3>2 DEF ClientTalks
  <2>4. ASSUME spc = "cookie" PROVE s2c' = <<>> /\ Unsaid("Params", c2s')
    <3>1. s2c = <<>> /\ Unsaid("Params", c2s)
      BY <1>0, <2>4, UnsaidOne DEF AskInv
    <3>2. CASE UNCHANGED c2s
      BY <2>2, <3>1, <3>2
    <3>3. CASE \E m \in States \cup {"Cookie", "Results"} : CClientSend(<<m>>)
      <4>1. PICK m \in States \cup {"Cookie", "Results"} : CClientSend(<<m>>)
        BY <3>3
      <4>2. m # "Params" /\ <<m>> \in Seq(Items)
        BY DEF States, Items, Frames
      <4>3. Unsaid("Params", c2s \o <<m>>)
        BY <1>0, <3>1, <4>2, UnsaidOne, UnsaidMore
      <4> QED BY <2>2, <3>1, <4>1, <4>3 DEF CClientSend
    <3> QED BY <1>1, <3>1, <3>2, <3>3 DEF ClientTalks
  <2>5. ASSUME spc = "params"
        PROVE  s2c' = <<>> \/ (s2c' = <<"ParamExchange">> /\ Unsaid("Params", c2s'))
    <3>1. CASE s2c = <<>>
      BY <2>2, <3>1
    <3>2. CASE s2c = <<"ParamExchange">> /\ Unsaid("Params", c2s) /\ s2c' = Tail(s2c)
      BY <3>2
    <3>3. CASE s2c = <<"ParamExchange">> /\ Unsaid("Params", c2s) /\ s2c' = s2c
      <4>1. s2c' # Tail(s2c)
        BY <3>3
      <4>2. CASE UNCHANGED c2s
        BY <3>3, <4>2
      <4>3. CASE \E m \in States \cup {"Cookie", "Results"} : CClientSend(<<m>>)
        <5>1. PICK m \in States \cup {"Cookie", "Results"} : CClientSend(<<m>>)
          BY <4>3
        <5>2. m # "Params" /\ <<m>> \in Seq(Items)
          BY DEF States, Items, Frames
        <5>3. Unsaid("Params", c2s \o <<m>>)
          BY <1>0, <3>3, <5>2, UnsaidOne, UnsaidMore
        <5> QED BY <3>3, <5>1, <5>3 DEF CClientSend
      <4> QED BY <1>1, <4>1, <4>2, <4>3 DEF ClientTalks
    <3> QED BY <1>0, <2>2, <2>5, <3>1, <3>2, <3>3 DEF AskInv
  <2>6. ASSUME dialed # 0 PROVE Unsaid("CreateStreams", s2c')
    <3>1. Unsaid("CreateStreams", s2c)
      BY <1>0, <2>6 DEF AskInv
    <3> QED BY <1>0, <2>2, <3>1, UnsaidTail
  <2>7. ASSUME cpc' = "create" PROVE dialed = batch'
    <3>1. /\ cpc = "loop" /\ s2c # <<>> /\ Head(s2c) = "CreateStreams" /\ batch' = batch
      BY <1>1, <2>7 DEF ClientTalks
    <3>2. dialed = 0
      BY <1>0, <3>1, UnsaidHead DEF AskInv
    <3>3. batch = 0
      BY <3>1 DEF RoundInv, InvAnyServer, AskedInv, Waiting
    <3> QED BY <3>1, <3>2, <3>3
  <2>8. sEnd \in {"open", "shut"} => sEnd' \in {"open", "shut"}
    BY <1>1 DEF ClientTalks, CClientSend
  <2> QED BY <1>0, <2>1, <2>3, <2>4, <2>5, <2>6, <2>7, <2>8 DEF AskInv
<1>2. CASE ConnectStream
  <2>1. /\ cpc = "create" /\ dialed' = dialed + 1 /\ UNCHANGED <<test, c2s, s2c, cEnd, sEnd>>
        /\ (batch' = batch + 1 /\ cpc' = "create") \/ cpc' = "loop"
    BY <1>2 DEF ConnectStream, ClientFrame
  <2>2. batch < Total(test) /\ Unsaid("CreateStreams", s2c)
    BY <2>1 DEF RoundInv, InvAnyServer, AskedInv, Unsaid
  <2>3. dialed = batch /\ spc \notin {"cookie", "params"}
    BY <1>0, <2>1 DEF AskInv
  <2>4. Total(test)' = Total(test)
    BY <2>1 DEF Total
  <2>5. dialed' <= Total(test)
    BY <1>0, <2>1, <2>2, <2>3
  <2> QED BY <1>0, <2>1, <2>2, <2>3, <2>4, <2>5 DEF AskInv
<1>3. CASE ClientCloses
  <2>1. /\ s2c' = <<>> /\ cpc' # "create" /\ UNCHANGED <<test, c2s, sEnd, dialed>>
        /\ Total(test)' = Total(test)
    BY <1>3 DEF ClientCloses, Total
  <2>2. Unsaid("CreateStreams", <<>>)
    BY DEF Unsaid
  <2> QED BY <1>0, <2>1, <2>2 DEF AskInv
<1>4. CASE ClientRests
  <2>1. UNCHANGED <<test, c2s, s2c, sEnd, dialed, batch>> /\ cpc' \in {cpc, "grace", "join"}
    BY <1>4 DEF ClientRests, wireVars
  <2>2. Total(test)' = Total(test)
    BY <2>1 DEF Total
  <2> QED BY <1>0, <2>1, <2>2 DEF AskInv
<1> QED BY <1>1, <1>2, <1>3, <1>4, ClientMoves
-----------------------------------------------------------------------------
(* A step of the server, as the wire sees it.                                *)

\* It wrote one of the answers; it asks for streams when it took parameters.
Answered ==
    /\ sEnd = "open"
    /\ \E ms \in Answers :
          /\ SServerSend(ms)
          /\ ms = <<"CreateStreams">> => spc = "params" /\ c2s # <<>> /\ Head(c2s) = "Params"

ServerTalks ==
    /\ c2s' = c2s \/ (c2s # <<>> /\ c2s' = Tail(c2s)) \/ c2s' = <<>>
    /\ Answered \/ UNCHANGED <<s2c, cEnd>>
    /\ sEnd' = sEnd \/ (sEnd = "open" /\ sEnd' = "shut")
    /\ spc \in {"returned", "cancelled"} => spc' = spc

ServerLeaves ==
    /\ spc \notin {"returned", "cancelled"} /\ spc' \in {"returned", "cancelled"}
    /\ sEnd' = ClosedEnd(c2s) /\ c2s' = <<>>
    /\ UNCHANGED <<s2c, cEnd>>

\* While it negotiates it writes PARAM_EXCHANGE, for the cookie.
StillEarly ==
    spc' \in {"cookie", "params"} =>
        \/ UNCHANGED <<spc, c2s, s2c>>
        \/ /\ spc = "cookie" /\ spc' = "params" /\ c2s # <<>> /\ c2s' = Tail(c2s)
           /\ s2c' = s2c \/ s2c' = s2c \o <<"ParamExchange">>

ServerMoves ==
    /\ UNCHANGED <<test, dialed>>
    /\ ServerTalks \/ ServerLeaves
    /\ StillEarly

\* What the server writes is one of the answers, and it writes on an open
\* connection.
LEMMA ServerSays ==
    ASSUME Inv, ServerLive, Numbers = Codes
    PROVE  /\ sEnd = "open"
           /\ SServerSend(<<"ParamExchange">>) => Answered
           /\ SServerSend(<<"CreateStreams">>) /\ spc = "params" /\ ServerSees("Params") => Answered
           /\ SServerSend(<<"TestStart", "TestRunning">>) => Answered
           /\ SServerSend(<<"ExchangeResults">>) => Answered
           /\ SServerSend(<<"Results", "DisplayResults">>) => Answered
           /\ SServerSend(<<"ServerTerminate">>) => Answered
           /\ \A code \in Codes : SServerSend(Relay(code)) => Answered
<1>1. sEnd = "open"
  BY DEF Inv, JointInv
<1>2. {"ParamExchange", "CreateStreams", "ExchangeResults", "ServerTerminate"} \subseteq States
  BY DEF States
<1>3. /\ {<<"ParamExchange">>, <<"CreateStreams">>, <<"ExchangeResults">>, <<"ServerTerminate">>,
          <<"TestStart", "TestRunning">>, <<"Results", "DisplayResults">>} \subseteq Answers
      /\ \A code \in Codes : Relay(code) \in Answers
  BY <1>2 DEF Answers
<1>4. ASSUME NEW ms \in Answers, SServerSend(ms), ms # <<"CreateStreams">> PROVE Answered
  BY <1>1, <1>4 DEF Answered
<1>5. /\ <<"ParamExchange">> # <<"CreateStreams">> /\ <<"ExchangeResults">> # <<"CreateStreams">>
      /\ <<"ServerTerminate">> # <<"CreateStreams">>
      /\ <<"TestStart", "TestRunning">> # <<"CreateStreams">>
      /\ <<"Results", "DisplayResults">> # <<"CreateStreams">>
      /\ \A code \in Codes : Relay(code) # <<"CreateStreams">>
  BY DEF Relay
<1>6. ASSUME SServerSend(<<"CreateStreams">>), spc = "params", ServerSees("Params")
      PROVE  Answered
  BY <1>1, <1>3, <1>6 DEF Answered, ServerSees
<1> QED BY <1>1, <1>3, <1>4, <1>5, <1>6

\* The negotiation.
LEMMA NegotiateMoves ==
    ASSUME Inv, Numbers = Codes,
           \/ RecvCookie \/ RecvCookieFails \/ RecvParams \/ RecvParamsFails
           \/ NegotiateInterrupted
    PROVE  ServerMoves
<1>0. /\ spc \in {"cookie", "params"} /\ ServerLive
      /\ {"E111", "E106", "E27", "E37", "E114"} \subseteq Codes
  BY DEF RecvCookie, RecvCookieFails, RecvParams, RecvParamsFails, NegotiateInterrupted,
     ServerLive, Codes
<1> USE DEF ServerMoves, ServerTalks, StillEarly, ServerFrame, BestEffort
<1>1. CASE RecvCookie
  <2>1. s2c' = s2c \/ s2c' = s2c \o <<"ParamExchange">> \/ spc' = "return"
    BY <1>1 DEF RecvCookie, SServerSend, ReturnErr
  <2> QED BY <1>0, <1>1, <2>1, ServerSays DEF RecvCookie, ServerSees, ServerReads, GoTo, ReturnErr
<1>2. CASE RecvCookieFails \/ RecvParamsFails
  BY <1>0, <1>2, ServerSays DEF RecvCookieFails, RecvParamsFails, FrameFails, ServerReads, ReturnErr
<1>3. CASE RecvParams
  <2>1. c2s # <<>> /\ c2s' = Tail(c2s) /\ spc = "params" /\ UNCHANGED <<test, dialed>>
    BY <1>3 DEF RecvParams, ServerSees, ServerReads
  <2>2. CASE ReturnErr("InvalidParams") /\ UNCHANGED <<s2c, cEnd, sEnd>>
    BY <2>1, <2>2 DEF ReturnErr
  <2>3. CASE Refuse("E27") \/ Refuse("E37")
    BY <1>0, <2>1, <2>3, ServerSays DEF Refuse, SendFails, ReturnErr
  <2>4. CASE DenyAccess
    BY <2>1, <2>4 DEF DenyAccess
  <2>5. CASE AskForStreams
    <3>1. ServerSees("Params")
      BY <1>3 DEF RecvParams
    <3> QED BY <1>0, <2>1, <2>5, <3>1, ServerSays DEF AskForStreams, SendFails, GoTo
  <2> QED BY <1>3, <2>2, <2>3, <2>4, <2>5 DEF RecvParams
<1>4. CASE NegotiateInterrupted
  BY <1>0, <1>4 DEF NegotiateInterrupted
<1> QED BY <1>1, <1>2, <1>3, <1>4

\* The setup and the park.
LEMMA SetupMoves ==
    ASSUME Inv, Numbers = Codes,
           \/ AcceptStream \/ SetupCtrlByte \/ SetupCtrlClosed \/ SetupKilled \/ SetupIoError
           \/ SetupReaped \/ ParkDrain \/ ParkEnds \/ ParkInterrupted
    PROVE  ServerMoves
<1> USE DEF ServerMoves, ServerTalks, StillEarly, ServerFrame, BestEffort
<1>1. CASE AcceptStream
  BY <1>1 DEF AcceptStream, wireVars
<1>2. CASE SetupCtrlByte
  <2>1. /\ spc = "setup" /\ c2s # <<>> /\ c2s' = Tail(c2s) /\ UNCHANGED <<test, dialed>>
        /\ UNCHANGED <<s2c, cEnd, sEnd>> /\ spc' \in {"setup", "reap"}
    BY <1>2 DEF SetupCtrlByte, ServerReads, Kill
  <2> QED BY <2>1
<1>3. CASE SetupCtrlClosed \/ SetupKilled
  BY <1>3 DEF SetupCtrlClosed, SetupKilled, Kill
<1>4. CASE SetupIoError
  <2>1. ServerLive
    BY <1>4 DEF SetupIoError, ServerLive
  <2> QED BY <1>4, <2>1, ServerSays DEF SetupIoError
<1>5. CASE SetupReaped
  <2>1. ServerLive
    BY <1>5 DEF SetupReaped, ServerLive
  <2>2. relay = "none" \/ relay \in Codes
    BY DEF Inv, EndsInv
  <2> QED BY <1>5, <2>1, <2>2, ServerSays DEF SetupReaped
<1>6. CASE ParkDrain \/ ParkEnds \/ ParkInterrupted
  BY <1>6 DEF ParkDrain, ParkEnds, ParkInterrupted, wireVars
<1> QED BY <1>1, <1>2, <1>3, <1>4, <1>5, <1>6

\* The test.
LEMMA AwaitMoves ==
    ASSUME Inv, Numbers = Codes,
           \/ StartTest \/ RecvTestEnd \/ RecvClientTerminate \/ RecvTestStart \/ RecvEarlyDone
           \/ RecvUnexpected \/ RecvCtrlClosed \/ RecvHardError \/ AwaitInterrupted
           \/ RateBreach \/ IdleExpired \/ WatchdogExpired
    PROVE  ServerMoves
<1>0. /\ spc \in {"start", "await"} /\ ServerLive
      /\ {"E119", "E110", "E109", "E27", "E144", "E160"} \subseteq Codes
  BY DEF StartTest, RecvTestEnd, RecvClientTerminate, RecvTestStart, RecvEarlyDone,
     RecvUnexpected, RecvCtrlClosed, RecvHardError, AwaitInterrupted, RateBreach, IdleExpired,
     WatchdogExpired, EndArm, ServerLive, Codes
<1> USE DEF ServerMoves, ServerTalks, StillEarly, ServerFrame, BestEffort
<1>1. CASE StartTest
  BY <1>0, <1>1, ServerSays DEF StartTest, SendFails, GoTo, GateErr
<1>2. CASE RecvTestEnd \/ RecvTestStart \/ RecvEarlyDone \/ RecvHardError
  BY <1>0, <1>2 DEF RecvTestEnd, RecvTestStart, RecvEarlyDone, RecvHardError, EndArm,
     ServerSees, ServerReads, GoTo, Raise, GateErr
<1>3. CASE RecvClientTerminate \/ RecvUnexpected \/ RecvCtrlClosed
  BY <1>0, <1>3, ServerSays DEF RecvClientTerminate, RecvUnexpected, RecvCtrlClosed, EndArm,
     ServerSees, ServerReads, Raise
<1>4. CASE AwaitInterrupted \/ IdleExpired
  BY <1>0, <1>4, ServerSays DEF AwaitInterrupted, IdleExpired, EndArm, Raise
<1>5. CASE RateBreach \/ WatchdogExpired
  BY <1>0, <1>5, ServerSays DEF RateBreach, WatchdogExpired, EndArm, SelfTerminate, SendFails,
     Raise, GateErr
<1> QED BY <1>1, <1>2, <1>3, <1>4, <1>5

\* The exchange and the end.
LEMMA EndMoves ==
    ASSUME Inv, Numbers = Codes,
           \/ ShutdownAndFlush \/ SendExchange \/ RecvResults \/ RecvResultsFails
           \/ ExchangeInterrupted \/ RecvDone \/ RecvDoneFails \/ EmitFinalOutput
           \/ Gate \/ Join \/ Return \/ CancelServer \/ InterruptServer
           \/ \E i \in slive : ServerTaskEnds(i)
    PROVE  ServerMoves
<1>0. /\ {"E117", "E119", "E110", "E109"} \subseteq Codes
      /\ spc \in {"exchange", "results", "done"} => ServerLive
  BY DEF ServerLive, Codes
<1> USE DEF ServerMoves, ServerTalks, StillEarly, ServerFrame, BestEffort
<1>1. CASE ShutdownAndFlush
  BY <1>1 DEF ShutdownAndFlush, wireVars
<1>2. CASE SendExchange
  BY <1>0, <1>2, ServerSays DEF SendExchange, SendFails, GoTo, Raise
<1>3. CASE RecvResults
  BY <1>0, <1>3, ServerSays DEF RecvResults, ServerSees, ServerReads, SendFails, GoTo, Raise
<1>4. CASE RecvResultsFails
  BY <1>0, <1>4, ServerSays DEF RecvResultsFails, FrameFails, ServerReads, Raise
<1>5. CASE ExchangeInterrupted
  BY <1>0, <1>5, ServerSays DEF ExchangeInterrupted, Raise
<1>6. CASE RecvDone
  <2>1. /\ spc = "done" /\ c2s # <<>> /\ c2s' = Tail(c2s) /\ UNCHANGED <<test, dialed, sEnd>>
    BY <1>6 DEF RecvDone, ServerReads
  <2>2. /\ spc' \in {"done", "emit"}
        /\ \/ UNCHANGED <<s2c, cEnd>>
           \/ SServerSend(Relay("E119")) \/ SServerSend(Relay("E110"))
    BY <1>6, <2>1 DEF RecvDone, GoTo, Raise
  <2> QED BY <1>0, <2>1, <2>2, ServerSays
<1>7. CASE RecvDoneFails
  BY <1>0, <1>7, ServerSays DEF RecvDoneFails, Raise
<1>8. CASE EmitFinalOutput \/ Gate \/ Join
  BY <1>8 DEF EmitFinalOutput, Gate, Join, wireVars
<1>9. CASE Return \/ CancelServer
  BY <1>9 DEF Return, CancelServer, ServerLeaves
<1>10. CASE InterruptServer \/ \E i \in slive : ServerTaskEnds(i)
  BY <1>10 DEF InterruptServer, ServerTaskEnds, wireVars
<1> QED BY <1>1, <1>2, <1>3, <1>4, <1>5, <1>6, <1>7, <1>8, <1>9, <1>10

\* Every step of the server.
LEMMA EveryServerMove ==
    ASSUME Inv, Numbers = Codes, ServerStep
    PROVE  ServerMoves
BY NegotiateMoves, SetupMoves, AwaitMoves, EndMoves DEF ServerStep, ServerProgress, ServerEvents

\* Where it asks for streams it has not asked before.
LEMMA FirstAsk ==
    ASSUME RoundInv, spc = "params", c2s # <<>>, Head(c2s) = "Params"
    PROVE  MayAsk /\ dialed = 0
<1>1. ~Unsaid("Params", c2s)
  BY RoundTypes, UnsaidHead
<1>2. s2c = <<>> /\ dialed = 0 /\ cpc # "create"
  BY <1>1 DEF RoundInv, AskInv
<1> QED BY <1>2, RoundTypes DEF MayAsk

\* The server is a server the client may meet.
LEMMA ServerIsServer ==
    ASSUME RoundInv, Unbounded, ServerStep, UNCHANGED clientVars
    PROVE  AnyServerStep
<1>1. ServerMoves
  BY EveryServerMove DEF RoundInv, Unbounded
<1>2. UNCHANGED <<test, dialed>>
  BY <1>1 DEF ServerMoves
<1>3. CASE ServerTalks
  <2>1. ServerHears
    BY <1>3 DEF ServerTalks, ServerHears
  <2>2. ServerWrites \/ UNCHANGED <<s2c, cEnd>>
    <3>1. ASSUME Answered PROVE ServerWrites
      <4>1. PICK ms \in Answers :
                /\ SServerSend(ms)
                /\ ms = <<"CreateStreams">> => spc = "params" /\ c2s # <<>> /\ Head(c2s) = "Params"
        BY <3>1 DEF Answered
      <4>2. ms = <<"CreateStreams">> => MayAsk
        BY <4>1, FirstAsk
      <4>3. sEnd = "open" /\ Len(s2c) \in ServerInFlight /\ Len(c2s) \in ServerInFlight
        BY <3>1, RoundTypes DEF Answered, Unbounded
      <4> QED BY <4>1, <4>2, <4>3 DEF ServerWrites
    <3> QED BY <1>3, <3>1 DEF ServerTalks
  <2> QED BY <1>2, <2>1, <2>2 DEF AnyServerStep
<1>4. CASE ServerLeaves
  <2>1. sEnd \in {"open", "shut"}
    BY <1>4 DEF ServerLeaves, RoundInv, AskInv
  <2> QED BY <1>2, <1>4, <2>1 DEF ServerLeaves, ServerCloses, AnyServerStep
<1> QED BY <1>1, <1>3, <1>4 DEF ServerMoves

\* It asks for the streams once.
LEMMA ServerKeepsAsk ==
    ASSUME RoundInv, Unbounded, ServerStep, UNCHANGED clientVars
    PROVE  AskInv'
<1>0. /\ c2s \in Seq(Items) /\ s2c \in Seq(Items) /\ AskInv /\ UNCHANGED <<cpc, batch>>
  BY RoundTypes DEF RoundInv, clientVars, cTasks
<1>1. ServerMoves
  BY EveryServerMove DEF RoundInv, Unbounded
<1>2. UNCHANGED <<test, dialed>> /\ Total(test)' = Total(test)
  BY <1>1 DEF ServerMoves, Total
<1>3. ASSUME spc' \in {"cookie", "params"}
      PROVE  /\ dialed = 0 /\ cpc # "create"
             /\ \/ s2c' = <<>> /\ (spc' = "cookie" => Unsaid("Params", c2s'))
                \/ spc' = "params" /\ s2c' = <<"ParamExchange">> /\ Unsaid("Params", c2s')
  <2>1. CASE UNCHANGED <<spc, c2s, s2c>>
    BY <1>0, <1>3, <2>1 DEF AskInv
  <2>2. CASE /\ spc = "cookie" /\ spc' = "params" /\ c2s # <<>> /\ c2s' = Tail(c2s)
             /\ s2c' = s2c \/ s2c' = s2c \o <<"ParamExchange">>
    <3>1. dialed = 0 /\ cpc # "create" /\ s2c = <<>> /\ Unsaid("Params", c2s)
      BY <1>0, <2>2 DEF AskInv
    <3>2. Unsaid("Params", c2s')
      BY <1>0, <2>2, <3>1, UnsaidTail
    <3>3. s2c' = <<>> \/ s2c' = <<"ParamExchange">>
      BY <2>2, <3>1
    <3> QED BY <2>2, <3>1, <3>2, <3>3
  <2> QED BY <1>1, <1>3, <2>1, <2>2 DEF ServerMoves, StillEarly
<1>4. ASSUME dialed # 0 PROVE Unsaid("CreateStreams", s2c')
  <2>1. Unsaid("CreateStreams", s2c)
    BY <1>0, <1>4 DEF AskInv
  <2>2. CASE s2c' = s2c
    BY <2>1, <2>2
  <2>3. CASE Answered
    <3>1. PICK ms \in Answers :
              /\ SServerSend(ms)
              /\ ms = <<"CreateStreams">> => spc = "params" /\ c2s # <<>> /\ Head(c2s) = "Params"
      BY <2>3 DEF Answered
    <3>2. ms # <<"CreateStreams">>
      BY <1>4, <3>1, FirstAsk
    <3>3. ms \in Seq(Items) /\ Unsaid("CreateStreams", ms)
      BY <3>2, AnswerType DEF Unsaid
    <3>4. Unsaid("CreateStreams", s2c \o ms)
      BY <1>0, <2>1, <3>3, UnsaidMore
    <3> QED BY <2>1, <3>1, <3>4 DEF SServerSend
  <2> QED BY <1>1, <2>2, <2>3 DEF ServerMoves, ServerTalks, ServerLeaves
<1>5. spc' \notin {"returned", "cancelled"} => sEnd' \in {"open", "shut"}
  BY <1>0, <1>1 DEF ServerMoves, ServerTalks, ServerLeaves, AskInv
<1>6. (cpc = "create" => dialed = batch) /\ dialed <= Total(test)
  BY <1>0 DEF AskInv
<1> QED BY <1>0, <1>2, <1>3, <1>4, <1>5, <1>6 DEF AskInv
-----------------------------------------------------------------------------
(* The refinements. *)

\* A fresh round satisfies the invariant of all three.
LEMMA RoundInit == Init => RoundInv
<1> SUFFICES ASSUME Init PROVE RoundInv
  OBVIOUS
<1>1. Inv
  BY InitInv
<1>2. InvAnyPeer
  BY InitInvAnyPeer DEF Init, InitAnyPeer
<1>3. InvAnyServer
  BY InitInvAnyServer DEF Init, InitAnyServer
<1>4. AskInv
  <2>1. Total(test) \in 1..MaxStreams
    BY TestsAssumption DEF Init, WireInit
  <2>2. 0 <= Total(test)
    BY <2>1, TestsAssumption
  <2> QED BY <2>2 DEF Init, WireInit, ServerInit, ClientInit, AskInv, Unsaid
<1> QED BY <1>1, <1>2, <1>3, <1>4 DEF RoundInv

\* Every step of the round is one of each of the two, or none of it.
LEMMA RoundSteps ==
    ASSUME RoundInv, Unbounded, [Next]_vars
    PROVE  [NextAnyPeer]_varsAnyPeer /\ [NextAnyServer]_varsAnyServer
<1>1. CASE ServerStep /\ UNCHANGED clientVars
  BY <1>1, ServerIsServer DEF NextAnyPeer, NextAnyServer
<1>2. CASE ClientStep /\ UNCHANGED serverVars
  BY <1>2, ClientIsPeer DEF NextAnyPeer, NextAnyServer
<1>3. CASE UNCHANGED vars
  BY <1>3 DEF vars, varsAnyPeer, varsAnyServer
<1> QED BY <1>1, <1>2, <1>3 DEF Next

\* Every step keeps it.
LEMMA RoundNext ==
    ASSUME RoundInv, Unbounded, [Next]_vars
    PROVE  RoundInv'
<1>1. Inv'
  BY NextInv DEF RoundInv
<1>2. InvAnyPeer'
  BY RoundSteps, NextInvAnyPeer DEF RoundInv
<1>3. InvAnyServer'
  BY RoundSteps, TypesKept, DocsKept, DoneKept DEF RoundInv, InvAnyServer
<1>4. AskInv'
  <2>1. CASE UNCHANGED vars
    <3>1. UNCHANGED <<test, c2s, s2c, sEnd, dialed, spc, cpc, batch>>
      BY <2>1 DEF vars, wireVars, serverVars, clientVars, cTasks
    <3>2. Total(test)' = Total(test)
      BY <3>1 DEF Total
    <3> QED BY <3>1, <3>2 DEF RoundInv, AskInv, Unsaid
  <2> QED BY <2>1, ServerKeepsAsk, ClientKeepsAsk DEF Next
<1> QED BY <1>1, <1>2, <1>3, <1>4 DEF RoundInv

\* The stages of both ends, and that the streams are asked for once, in every
\* round (server.rs handle_one_test, client.rs Client::run).
THEOREM RoundInvariance ==
    ASSUME Unbounded
    PROVE  Spec => []RoundInv
<1>1. RoundInv /\ [Next]_vars => RoundInv'
  BY RoundNext
<1> QED BY RoundInit, <1>1, PTL DEF Spec

\* The round implements the server against any peer (server.rs
\* handle_one_test): a riperf3 client does nothing on the wire that the model
\* of an arbitrary peer leaves out.
THEOREM ClientIsAPeer ==
    ASSUME Unbounded
    PROVE  Spec => SpecAnyPeer
<1>1. Init => InitAnyPeer
  BY DEF Init, InitAnyPeer
<1>2. RoundInv /\ [Next]_vars => [NextAnyPeer]_varsAnyPeer
  BY RoundSteps
<1> QED BY <1>1, <1>2, RoundInvariance, PTL DEF Spec, SpecAnyPeer

\* The round implements the client against any server (client.rs
\* Client::run): a riperf3 server does nothing on the wire that the model of
\* an arbitrary server leaves out.
THEOREM ServerIsAServer ==
    ASSUME Unbounded
    PROVE  Spec => SpecAnyServer
<1>1. Init => InitAnyServer
  BY DEF Init, InitAnyServer
<1>2. RoundInv /\ [Next]_vars => [NextAnyServer]_varsAnyServer
  BY RoundSteps
<1> QED BY <1>1, <1>2, RoundInvariance, PTL DEF Spec, SpecAnyServer

\* So what is proved of either side among strangers holds between the two: the
\* server's one document agrees with its Termination and no test runs over its
\* limits (server.rs handle_one_test, run); the client and main() print the
\* documents OneDocument counts (client.rs, main.rs): one, at most one after a
\* signal, two when the run fails after it displayed its report; and the grace
\* comes before the abort.
THEOREM RoundKeepsBothSides ==
    ASSUME Unbounded
    PROVE  Spec => /\ [](AtMostOneDocument /\ DocMatchesTermination /\ LimitsRespected)
                   /\ []OneDocument /\ GraceBeforeAbort
<1>1. Spec => [](AtMostOneDocument /\ DocMatchesTermination /\ LimitsRespected)
  BY ClientIsAPeer, OneServerDocument, DocumentAgrees, LimitsAlwaysRespected, PTL
<1>2. Spec => []OneDocument /\ GraceBeforeAbort
  BY ServerIsAServer, OneDocumentAlways, GraceAlwaysFirst, PTL
<1> QED BY <1>1, <1>2, PTL
============================================================================
