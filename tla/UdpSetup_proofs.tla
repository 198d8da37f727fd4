--------------------------- MODULE UdpSetup_proofs ---------------------------
(***************************************************************************)
(* The streams of the two sides pair up, for every number of streams, of   *)
(* retries, and every network.                                             *)
(***************************************************************************)
EXTENDS UdpSetup, FiniteSetTheorems, TLAPS

\* What waits at a recycled listener, and what a demux socket has not seen,
\* is the magic of the next stream: the client has begun no later one, and all
\* the earlier ones are claimed.
LEMMA NextSource ==
    ASSUME Inv, NEW src \in Streams, src <= ci, ~Claimed(src)
    PROVE  src = Len(slots) + 1 /\ src = Connected + 1
<1>1. src \notin DOMAIN slots
  BY DEF Inv, Pairing, Claimed
<1>2. DOMAIN slots = 1..Len(slots) /\ Len(slots) \in Nat
  BY DEF Inv, TypeOK
<1>3. src > Len(slots)
  BY <1>1, <1>2 DEF Streams
<1>n. N \in Nat /\ ci \in 1..N /\ src \in 1..N
  BY SetupAssumption DEF Inv, TypeOK, Streams
<1>a. Len(slots) = Connected \/ Len(slots) = Connected + 1
  BY DEF Inv, ServerAheadByOne
<1>4. CASE cpc = "done"
  <2>1. Connected = N BY <1>4 DEF Connected
  <2>2. Len(slots) >= N BY <1>a, <2>1, <1>n
  <2> QED BY <1>2, <1>3, <1>n, <2>2
<1>5. CASE cpc # "done"
  <2>1. Connected = ci - 1 BY <1>5 DEF Connected
  <2>2. Len(slots) = ci - 1 \/ Len(slots) = ci BY <1>a, <2>1, <1>n
  <2>3. src <= ci /\ src > Len(slots) BY <1>3
  <2>4. src \in Nat /\ ci \in Nat /\ Len(slots) \in Nat BY <1>2, <1>n
  <2>5. Len(slots) # ci BY <2>3, <2>4
  <2>6. Len(slots) = ci - 1 BY <2>2, <2>5
  <2>7. src = ci BY <2>3, <2>4, <2>6
  <2> QED BY <2>1, <2>4, <2>6, <2>7
<1> QED BY <1>4, <1>5

\* A new slot for that source keeps the pairing.
LEMMA ClaimNext ==
    ASSUME Inv, NEW src \in Streams, src = Len(slots) + 1
    PROVE  LET new == Append(slots, src)
           IN  /\ new \in Seq(Streams)
               /\ Len(new) = Len(slots) + 1
               /\ Len(new) <= N
               /\ \A k \in DOMAIN new : new[k] = k
<1> USE SetupAssumption
<1> DEFINE new == Append(slots, src)
<1>1. slots \in Seq(Streams) /\ Len(slots) \in Nat /\ \A k \in 1..Len(slots) : slots[k] = k
  BY DEF Inv, TypeOK, Pairing
<1>2. new \in Seq(Streams) /\ Len(new) = Len(slots) + 1 /\ DOMAIN new = 1..(Len(slots) + 1)
  BY <1>1
<1>3. Len(new) <= N
  BY <1>1, <1>2 DEF Streams
<1>4. ASSUME NEW k \in DOMAIN new PROVE new[k] = k
  BY <1>1, <1>2, <1>4
<1> QED BY <1>2, <1>3, <1>4

LEMMA InitInv == Init => Inv
<1> USE SetupAssumption
<1> SUFFICES ASSUME Init PROVE Inv OBVIOUS
<1>1. TypeOK
  <2>1. /\ mode \in [demux : BOOLEAN, send : 0..N] /\ 1 \in 1..N
        /\ 0 \in 0..MaxTries /\ 0 \in 0..MaxLost /\ 0 \in 0..MaxDup /\ 0 \in 0..MaxStray
    BY DEF Init
  <2>2. /\ [i \in Streams |-> 0] \in [Streams -> Nat]
        /\ <<>> \in Seq(0..N) /\ <<>> \in Seq(Streams) /\ Len(<<>>) <= N
    OBVIOUS
  <2> QED BY <2>1, <2>2 DEF Init, TypeOK, Streams
<1>2. Pairing BY DEF Init, Pairing
<1>3. ServerAheadByOne BY DEF Init, ServerAheadByOne, Connected
<1>4. WireInv BY DEF Init, WireInv
<1> QED BY <1>1, <1>2, <1>3, <1>4 DEF Inv

LEMMA ClientStep ==
    ASSUME Inv, Client \/ ClientFault
    PROVE  Inv'
<1> USE SetupAssumption DEF Inv
<1>0. slots' = slots /\ mode' = mode /\ queue' = queue
  BY DEF Client, ClientFault, SendMagic, TransientError, ReceiveReply, GiveUp, svars
<1>1. Pairing'
  BY <1>0 DEF Pairing, ServerSends, ClientSends
<1>2. CASE SendMagic
  <2>0. tries' \in 0..MaxTries /\ icmp' \in BOOLEAN
    <3>1. tries \in 0..MaxTries /\ tries < MaxTries /\ tries' = tries + 1 /\ MaxTries \in Nat
      BY <1>2 DEF SendMagic, TypeOK
    <3>2. tries' \in 0..MaxTries BY <3>1
    <3>3. icmp' \in BOOLEAN BY <1>2 DEF SendMagic
    <3> QED BY <3>2, <3>3
  <2>a. magics' \in [Streams -> Nat] BY <1>2 DEF SendMagic, TypeOK
  <2>b. trouble' \subseteq Troubles BY <1>2 DEF SendMagic, TypeOK, Troubles
  <2>1. TypeOK' BY <1>2, <2>0, <2>a, <2>b DEF SendMagic, TypeOK, svars, bounds
  <2>2. ServerAheadByOne' BY <1>2 DEF SendMagic, ServerAheadByOne, Connected, svars
  <2>3. WireInv' BY <1>2 DEF SendMagic, WireInv, TypeOK, svars, Claimed, Streams
  <2> QED BY <1>1, <2>1, <2>2, <2>3
<1>3. CASE TransientError
  <2>1. TypeOK' BY <1>3 DEF TransientError, TypeOK, cvars, svars, bounds
  <2>2. ServerAheadByOne' BY <1>3 DEF TransientError, ServerAheadByOne, Connected, cvars, svars
  <2>3. WireInv' BY <1>3 DEF TransientError, WireInv, cvars, svars, Claimed
  <2> QED BY <1>1, <2>1, <2>2, <2>3
<1>4. CASE ReceiveReply
  <2>n. ci \in 1..N /\ N \in Nat /\ Len(slots) \in Nat
    BY DEF TypeOK, Streams
  <2>p. cpc = "wait" /\ ci <= Len(slots)
    BY <1>4, <2>n DEF ReceiveReply, WireInv, Streams
  <2>0. Len(slots) = ci
    <3>1. Connected = ci - 1 BY <2>p DEF Connected
    <3> QED BY <2>n, <2>p, <3>1 DEF ServerAheadByOne
  <2>a. replies' \in [Streams -> Nat] BY <1>4 DEF ReceiveReply, TypeOK
  <2>b. /\ ci' \in 1..N /\ tries' \in 0..MaxTries /\ icmp' \in BOOLEAN
        /\ cpc' \in {"wait", "done", "failed"}
    <3>1. CASE ci = N BY <1>4, <2>n, <3>1 DEF ReceiveReply, TypeOK
    <3>2. CASE ci # N
      <4>1. ci + 1 \in 1..N BY <2>n, <3>2
      <4>2. 0 \in 0..MaxTries OBVIOUS
      <4> QED BY <1>4, <3>2, <4>1, <4>2 DEF ReceiveReply, TypeOK
    <3> QED BY <3>1, <3>2
  <2>1. TypeOK' BY <1>4, <2>a, <2>b DEF ReceiveReply, TypeOK, svars, bounds, Streams
  <2>2. ServerAheadByOne'
    BY <1>4, <2>0, <2>p, <2>n DEF ReceiveReply, ServerAheadByOne, Connected, svars
  <2>c. ci' \in Nat /\ ci' >= ci BY <1>4, <2>n DEF ReceiveReply
  <2>3. WireInv'
    <3>1. \A i \in Streams : magics'[i] > 0 => i <= ci'
      BY <1>4, <2>n, <2>c DEF ReceiveReply, WireInv, Streams
    <3>2. \A i \in Streams : replies'[i] > 0 => i <= Len(slots')
      BY <1>4, <1>0 DEF ReceiveReply, WireInv, TypeOK
    <3>3. \A k \in DOMAIN queue' : queue'[k] <= ci'
      BY <1>0, <2>n, <2>c DEF WireInv, TypeOK
    <3> QED BY <1>0, <3>1, <3>2, <3>3 DEF WireInv, Claimed
  <2> QED BY <1>1, <2>1, <2>2, <2>3
<1>5. CASE GiveUp \/ ClientFault
  <2>1. TypeOK' BY <1>5 DEF GiveUp, ClientFault, TypeOK, svars, bounds, Troubles
  <2>2. ServerAheadByOne'
    BY <1>5 DEF GiveUp, ClientFault, ServerAheadByOne, Connected, svars
  <2>3. WireInv' BY <1>5 DEF GiveUp, ClientFault, WireInv, svars, Claimed
  <2> QED BY <1>1, <2>1, <2>2, <2>3
<1> QED BY <1>2, <1>3, <1>4, <1>5 DEF Client

LEMMA RecyclingStep ==
    ASSUME Inv, RecyclingReceive
    PROVE  Inv'
<1> USE SetupAssumption
<1>0. /\ mode' = mode /\ cpc' = cpc /\ ci' = ci /\ queue' = <<>> /\ magics' = magics
      /\ queue # <<>> /\ ~mode.demux
  BY DEF RecyclingReceive, cvars
<1>1. Head(queue) \in 0..N /\ Head(queue) = queue[1] /\ 1 \in DOMAIN queue
  BY <1>0 DEF Inv, TypeOK
<1>2. CASE Head(queue) = Foreign
  <2>1. slots' = slots /\ replies' = replies
    BY <1>2 DEF RecyclingReceive
  <2>t. trouble' \subseteq Troubles /\ spc' = "failed"
    BY <1>2 DEF Inv, RecyclingReceive, TypeOK, Troubles
  <2>2. TypeOK'
    BY <1>0, <2>1, <2>t DEF Inv, RecyclingReceive, TypeOK, cvars, bounds
  <2>3. Pairing' /\ ServerAheadByOne'
    BY <1>0, <2>1 DEF Inv, Pairing, ServerSends, ClientSends, ServerAheadByOne, Connected
  <2>4. WireInv'
    BY <1>0, <2>1 DEF Inv, WireInv
  <2> QED BY <2>2, <2>3, <2>4 DEF Inv
<1>3. CASE Head(queue) # Foreign
  <2> DEFINE src == Head(queue)
  <2>0. src \in Streams /\ src <= ci /\ ~Claimed(src)
    BY <1>0, <1>1, <1>3 DEF Inv, WireInv, Foreign, Streams, TypeOK
  <2>1. src = Len(slots) + 1 /\ src = Connected + 1
    BY <2>0, NextSource
  <2>2. slots' = Append(slots, src) /\ replies' = [replies EXCEPT ![src] = @ + 1]
    BY <1>3 DEF RecyclingReceive
  <2>3. /\ slots' \in Seq(Streams) /\ Len(slots') = Len(slots) + 1 /\ Len(slots') <= N
        /\ \A k \in DOMAIN slots' : slots'[k] = k
    BY <2>0, <2>1, <2>2, ClaimNext
  <2>4. TypeOK'
    BY <1>0, <1>3, <2>0, <2>2, <2>3 DEF Inv, RecyclingReceive, TypeOK, cvars, bounds
  <2>5. Pairing'
    <3>1. mode'.send \in Nat /\ DOMAIN slots' \subseteq Nat
      BY <2>4 DEF TypeOK
    <3>2. ASSUME NEW k \in DOMAIN slots' PROVE k > mode'.send <=> ~(slots'[k] <= mode'.send)
      BY <2>3, <3>1
    <3> QED BY <2>3, <3>2 DEF Pairing, ServerSends, ClientSends
  <2>6. ServerAheadByOne'
    BY <1>0, <2>1, <2>3 DEF Inv, ServerAheadByOne, Connected
  <2>7. WireInv'
    <3>1. \A i \in Streams : magics'[i] > 0 => i <= ci'
      BY <1>0 DEF Inv, WireInv
    <3>2. ASSUME NEW i \in Streams, replies'[i] > 0
          PROVE  i <= Len(slots')
      <4>1. CASE i = src
        BY <2>1, <2>3, <4>1 DEF Inv, TypeOK
      <4>2. CASE i # src
        <5>1. replies'[i] = replies[i]
          BY <2>2, <4>2 DEF Inv, TypeOK
        <5>2. i <= Len(slots) /\ Len(slots) \in Nat /\ i \in Nat
          BY <3>2, <5>1 DEF Inv, TypeOK, WireInv, Streams
        <5> QED BY <2>3, <5>2
      <4> QED BY <4>1, <4>2
    <3>3. queue' = <<>>
      BY <1>0
    <3> QED BY <3>1, <3>2, <3>3 DEF WireInv
  <2> QED BY <2>4, <2>5, <2>6, <2>7 DEF Inv
<1> QED BY <1>2, <1>3

LEMMA DemuxStep ==
    ASSUME Inv, DemuxReceive
    PROVE  Inv'
<1> USE SetupAssumption
<1>0. /\ mode' = mode /\ cpc' = cpc /\ ci' = ci /\ queue' = Tail(queue) /\ magics' = magics
      /\ queue # <<>> /\ mode.demux
  BY DEF DemuxReceive, cvars
<1>1. Head(queue) \in 0..N /\ Head(queue) = queue[1] /\ 1 \in DOMAIN queue
  BY <1>0 DEF Inv, TypeOK
<1>2. queue' \in Seq(0..N) /\ \A k \in DOMAIN queue' : queue'[k] <= ci
  BY <1>0 DEF Inv, TypeOK, WireInv
<1>3. CASE Head(queue) = Foreign
  <2>1. slots' = slots /\ replies' = replies
    BY <1>3 DEF DemuxReceive
  <2>2. TypeOK'
    BY <1>0, <1>2, <1>3, <2>1 DEF Inv, DemuxReceive, TypeOK, cvars, bounds
  <2>3. Pairing' /\ ServerAheadByOne'
    BY <1>0, <2>1 DEF Inv, Pairing, ServerSends, ClientSends, ServerAheadByOne, Connected
  <2>4. WireInv'
    BY <1>0, <1>2, <2>1 DEF Inv, WireInv
  <2> QED BY <2>2, <2>3, <2>4 DEF Inv
<1>4. CASE Head(queue) # Foreign
  <2> DEFINE src == Head(queue)
  <2>0. src \in Streams /\ src <= ci
    BY <1>0, <1>1, <1>4 DEF Inv, WireInv, Foreign, Streams, TypeOK
  <2>1. /\ replies' = [replies EXCEPT ![src] = @ + 1]
        /\ slots' = IF Claimed(src) THEN slots ELSE Append(slots, src)
        /\ spc' \in {"recv", "proceed"}
    BY <1>4 DEF DemuxReceive, ReplyTo, Claim
  <2>2. /\ slots' \in Seq(Streams) /\ Len(slots') <= N
        /\ \A k \in DOMAIN slots' : slots'[k] = k
        /\ Len(slots') \in {Connected, Connected + 1}
        /\ Len(slots') >= Len(slots) /\ src <= Len(slots')
    <3>1. CASE Claimed(src)
      <4>1. slots' = slots BY <2>1, <3>1
      <4>2. src <= Len(slots) BY <3>1 DEF Inv, Pairing, Claimed, TypeOK
      <4> QED BY <4>1, <4>2 DEF Inv, TypeOK, Pairing, ServerAheadByOne
    <3>2. CASE ~Claimed(src)
      <4>1. src = Len(slots) + 1 /\ src = Connected + 1
        BY <2>0, <3>2, NextSource
      <4>2. slots' = Append(slots, src) BY <2>1, <3>2
      <4>3. /\ slots' \in Seq(Streams) /\ Len(slots') = Len(slots) + 1 /\ Len(slots') <= N
            /\ \A k \in DOMAIN slots' : slots'[k] = k
        BY <2>0, <4>1, <4>2, ClaimNext
      <4> QED BY <4>1, <4>3 DEF Inv, TypeOK
    <3> QED BY <3>1, <3>2
  <2>3. TypeOK'
    BY <1>0, <1>2, <2>0, <2>1, <2>2 DEF Inv, DemuxReceive, TypeOK, cvars, bounds
  <2>4. Pairing'
    <3>1. mode'.send \in Nat /\ DOMAIN slots' \subseteq Nat
      BY <2>3 DEF TypeOK
    <3>2. ASSUME NEW k \in DOMAIN slots' PROVE k > mode'.send <=> ~(slots'[k] <= mode'.send)
      BY <2>2, <3>1
    <3> QED BY <2>2, <3>2 DEF Pairing, ServerSends, ClientSends
  <2>5. ServerAheadByOne'
    BY <1>0, <2>2 DEF ServerAheadByOne, Connected
  <2>6. WireInv'
    <3>1. ASSUME NEW i \in Streams, replies'[i] > 0 PROVE i <= Len(slots')
      <4>1. CASE i = src BY <2>2, <4>1
      <4>2. CASE i # src
        <5>1. replies'[i] = replies[i] BY <2>1, <4>2 DEF Inv, TypeOK
        <5>2. i <= Len(slots) BY <3>1, <5>1 DEF Inv, WireInv
        <5>3. i \in Nat /\ Len(slots) \in Nat /\ Len(slots') \in Nat
          BY <2>2 DEF Inv, TypeOK, Streams
        <5> QED BY <2>2, <5>2, <5>3
      <4> QED BY <4>1, <4>2
    <3> QED BY <1>0, <1>2, <3>1 DEF Inv, WireInv
  <2> QED BY <2>3, <2>4, <2>5, <2>6 DEF Inv
<1> QED BY <1>3, <1>4

LEMMA OtherServerStep ==
    ASSUME Inv, Rebind \/ ControlClosed \/ IdleTimeout \/ ServerFault
    PROVE  Inv'
<1> USE SetupAssumption DEF Inv
<1>0. UNCHANGED <<mode, cvars, icmp, magics, replies, queue, slots, bounds>>
  BY DEF Rebind, ControlClosed, IdleTimeout, ServerFault
<1>1. TypeOK'
  BY <1>0 DEF Rebind, ControlClosed, IdleTimeout, ServerFault, TypeOK, cvars, bounds, Troubles
<1>2. Pairing' /\ ServerAheadByOne' /\ WireInv'
  BY <1>0 DEF Pairing, ServerSends, ClientSends, ServerAheadByOne, Connected, WireInv,
              Claimed, cvars
<1> QED BY <1>1, <1>2

LEMMA NetworkStep ==
    ASSUME Inv, Network \/ ForeignDatagram
    PROVE  Inv'
<1> USE SetupAssumption
<1>0. UNCHANGED <<mode, cvars, svars>>
  BY DEF Network, ForeignDatagram, DeliverMagic, LoseMagic, LoseReply, DuplicateMagic,
         DuplicateReply
<1>1. Pairing' /\ ServerAheadByOne'
  BY <1>0 DEF Inv, Pairing, ServerSends, ClientSends, ServerAheadByOne, Connected, cvars, svars
<1>2. ASSUME NEW i \in Streams, DeliverMagic(i) PROVE TypeOK' /\ WireInv'
  <2>1. i <= ci /\ i \in 0..N
    BY <1>2 DEF DeliverMagic, Inv, WireInv, TypeOK, Streams
  <2>2. ~mode.demux /\ ToListener(i) => ~Claimed(i)
    BY DEF ToListener
  <2>a. magics' \in [Streams -> Nat] BY <1>2 DEF Inv, DeliverMagic, TypeOK
  <2>b. queue' \in Seq(0..N)
    <3>1. queue \in Seq(0..N) /\ Append(queue, i) \in Seq(0..N) BY <2>1 DEF Inv, TypeOK
    <3> QED BY <1>2, <3>1 DEF DeliverMagic
  <2>c. icmp' \in BOOLEAN BY <1>2 DEF Inv, DeliverMagic, TypeOK
  <2>3. TypeOK'
    BY <1>2, <2>a, <2>b, <2>c DEF Inv, DeliverMagic, TypeOK, cvars, svars, bounds
  <2>4. WireInv'
    <3>1. ASSUME NEW j \in Streams, magics'[j] > 0 PROVE j <= ci'
      BY <1>0, <1>2, <3>1 DEF DeliverMagic, Inv, WireInv, TypeOK, cvars
    <3>2. ASSUME NEW j \in Streams, replies'[j] > 0 PROVE j <= Len(slots')
      BY <1>2, <3>2 DEF DeliverMagic, Inv, WireInv, svars
    <3>3. CASE ToListener(i)
      <4>1. queue' = Append(queue, i) BY <1>2, <3>3 DEF DeliverMagic
      <4>2. \A k \in DOMAIN queue' : queue'[k] = i \/ (k \in DOMAIN queue /\ queue'[k] = queue[k])
        BY <4>1 DEF Inv, TypeOK
      <4> QED BY <1>0, <2>1, <2>2, <3>1, <3>2, <3>3, <4>2 DEF Inv, WireInv, Claimed, cvars, svars
    <3>4. CASE ~ToListener(i)
      <4>1. queue' = queue BY <1>2, <3>4 DEF DeliverMagic
      <4> QED BY <1>0, <3>1, <3>2, <4>1 DEF Inv, WireInv, Claimed, cvars, svars
    <3> QED BY <3>3, <3>4
  <2> QED BY <2>3, <2>4
<1>3. ASSUME NEW i \in Streams, LoseMagic(i) \/ DuplicateMagic(i) PROVE TypeOK' /\ WireInv'
  <2>a. magics' \in [Streams -> Nat]
    <3>1. magics \in [Streams -> Nat] /\ magics[i] > 0 BY <1>3 DEF Inv, LoseMagic, DuplicateMagic, TypeOK
    <3>2. magics[i] - 1 \in Nat /\ magics[i] + 1 \in Nat BY <3>1
    <3> QED BY <1>3, <3>1, <3>2 DEF LoseMagic, DuplicateMagic
  <2>b. trouble' \subseteq Troubles BY <1>3 DEF Inv, LoseMagic, DuplicateMagic, TypeOK, Troubles
  <2>c. lost' \in 0..MaxLost /\ dups' \in 0..MaxDup BY <1>3 DEF Inv, LoseMagic, DuplicateMagic, TypeOK
  <2>1. TypeOK'
    BY <1>3, <2>a, <2>b, <2>c DEF Inv, LoseMagic, DuplicateMagic, TypeOK, cvars, svars
  <2>2. WireInv'
    BY <1>3 DEF Inv, LoseMagic, DuplicateMagic, WireInv, TypeOK, Claimed, cvars, svars
  <2> QED BY <2>1, <2>2
<1>4. ASSUME NEW i \in Streams, LoseReply(i) \/ DuplicateReply(i) PROVE TypeOK' /\ WireInv'
  <2>a. replies' \in [Streams -> Nat]
    <3>1. replies \in [Streams -> Nat] /\ replies[i] > 0 BY <1>4 DEF Inv, LoseReply, DuplicateReply, TypeOK
    <3>2. replies[i] - 1 \in Nat /\ replies[i] + 1 \in Nat BY <3>1
    <3> QED BY <1>4, <3>1, <3>2 DEF LoseReply, DuplicateReply
  <2>b. trouble' \subseteq Troubles BY <1>4 DEF Inv, LoseReply, DuplicateReply, TypeOK, Troubles
  <2>c. lost' \in 0..MaxLost /\ dups' \in 0..MaxDup BY <1>4 DEF Inv, LoseReply, DuplicateReply, TypeOK
  <2>1. TypeOK'
    BY <1>4, <2>a, <2>b, <2>c DEF Inv, LoseReply, DuplicateReply, TypeOK, cvars, svars
  <2>2. WireInv'
    BY <1>4 DEF Inv, LoseReply, DuplicateReply, WireInv, TypeOK, Claimed, cvars, svars
  <2> QED BY <2>1, <2>2
<1>5. CASE ForeignDatagram
  <2>0. queue' = Append(queue, Foreign) /\ UNCHANGED <<magics, replies>>
    BY <1>5 DEF ForeignDatagram
  <2>1. TypeOK'
    BY <1>5 DEF Inv, ForeignDatagram, TypeOK, cvars, svars, Foreign
  <2>2. \A k \in DOMAIN queue' : queue'[k] = Foreign \/ (k \in DOMAIN queue /\ queue'[k] = queue[k])
    BY <2>0 DEF Inv, TypeOK
  <2>3. WireInv'
    <3>1. Foreign <= ci BY DEF Inv, TypeOK, Foreign, Streams
    <3> QED BY <1>0, <2>0, <2>2, <3>1 DEF Inv, WireInv, Claimed, cvars, svars
  <2> QED BY <1>1, <2>1, <2>3 DEF Inv
<1> QED BY <1>1, <1>2, <1>3, <1>4, <1>5 DEF Inv, Network

LEMMA StepInv == Inv /\ [Next]_vars => Inv'
<1> SUFFICES ASSUME Inv, [Next]_vars PROVE Inv' OBVIOUS
<1>1. CASE UNCHANGED vars
  BY <1>1 DEF Inv, TypeOK, Pairing, ServerSends, ClientSends, ServerAheadByOne, Connected,
              WireInv, Claimed, vars, cvars, svars, bounds
<1>2. CASE Next
  BY <1>2, ClientStep, RecyclingStep, DemuxStep, OtherServerStep, NetworkStep DEF Next, Server
<1> QED BY <1>1, <1>2

LEMMA InvAlways == Spec => []Inv
BY InitInv, StepInv, PTL DEF Spec

\* The types of client, server and network hold for every number of streams
\* and every bound.
THEOREM TypeCorrect == Spec => []TypeOK
<1>1. Inv => TypeOK BY DEF Inv
<1> QED BY <1>1, InvAlways, PTL

\* The k-th UDP stream of the server is the k-th of the client, in the opposite
\* direction, with either design of the server and however many magics the
\* network repeats or delays.
THEOREM StreamsPair == Spec => []Pairing
<1>1. Inv => Pairing BY DEF Inv
<1> QED BY <1>1, InvAlways, PTL

\* The server has every stream the client has connected, and at most one more.
THEOREM ServerKeepsUp == Spec => []ServerAheadByOne
<1>1. Inv => ServerAheadByOne BY DEF Inv
<1> QED BY <1>1, InvAlways, PTL

-----------------------------------------------------------------------------
(* What the tries of a handshake were spent on. *)

\* The streams claimed are the first ones.
LEMMA ClaimedIff ==
    ASSUME Inv, NEW i \in Streams
    PROVE  Claimed(i) <=> i <= Len(slots)
<1>1. DOMAIN slots = 1..Len(slots) /\ \A k \in DOMAIN slots : slots[k] = k
  BY DEF Inv, TypeOK, Pairing
<1>2. Len(slots) \in Nat /\ i \in Nat /\ i >= 1
  BY SetupAssumption DEF Inv, TypeOK, Streams
<1>3. i <= Len(slots) <=> i \in DOMAIN slots
  BY <1>1, <1>2
<1> QED BY <1>1, <1>3 DEF Claimed

\* With one more stream to come the demux server is still receiving.
LEMMA StreamsToCome ==
    ASSUME Inv, cpc = "wait", ci < N
    PROVE  Len(slots) < N
<1>1. ci \in 1..N /\ N \in Nat /\ Len(slots) \in Nat
  BY SetupAssumption DEF Inv, TypeOK, Streams
<1>2. Len(slots) = ci - 1 \/ Len(slots) = ci - 1 + 1
  BY DEF Inv, ServerAheadByOne, Connected
<1> QED BY <1>1, <1>2

LEMMA WaitingFinite ==
    ASSUME Inv, NEW i
    PROVE  IsFiniteSet(Waiting(i)) /\ Cardinality(Waiting(i)) \in Nat
<1>1. Waiting(i) \subseteq 1..Len(queue) /\ Len(queue) \in Int /\ 1 \in Int
  BY DEF Inv, TypeOK, Waiting
<1>2. IsFiniteSet(1..Len(queue))
  BY <1>1, FS_Interval
<1>3. IsFiniteSet(Waiting(i))
  BY <1>1, <1>2, FS_Subset
<1> QED BY <1>3, FS_CardinalityType

\* A magic that joins the queue is one more of its stream.
LEMMA WaitingAppend ==
    ASSUME Inv, NEW i, NEW x, queue' = Append(queue, x)
    PROVE  /\ Cardinality(Waiting(i)') = Cardinality(Waiting(i)) + (IF x = i THEN 1 ELSE 0)
           /\ Waiting(i) \subseteq Waiting(i)'
           /\ x = i => Waiting(i)' # {}
<1> DEFINE n == Len(queue) + 1
<1>0. n \in Nat /\ n \notin Waiting(i)
  BY DEF Inv, TypeOK, Waiting
<1>1. /\ DOMAIN queue' = DOMAIN queue \cup {n}
      /\ \A k \in DOMAIN queue : queue'[k] = queue[k]
      /\ queue'[n] = x
  BY DEF Inv, TypeOK
<1>2. CASE x = i
  <2>1. Waiting(i)' = Waiting(i) \cup {n}
    BY <1>0, <1>1, <1>2 DEF Waiting
  <2> QED BY <1>0, <1>2, <2>1, WaitingFinite, FS_AddElement
<1>3. CASE x # i
  <2>1. Waiting(i)' = Waiting(i)
    BY <1>0, <1>1, <1>3 DEF Waiting
  <2> QED BY <1>3, <2>1, WaitingFinite
<1> QED BY <1>2, <1>3

\* The head of the queue that is taken is one less of its stream.
LEMMA WaitingTail ==
    ASSUME Inv, Inv', NEW i, queue # <<>>, queue' = Tail(queue)
    PROVE  /\ Cardinality(Waiting(i)') =
                Cardinality(Waiting(i)) - (IF Head(queue) = i THEN 1 ELSE 0)
           /\ Head(queue) # i /\ Waiting(i) # {} => Waiting(i)' # {}
<1> DEFINE f == [k \in Waiting(i)' |-> k + 1]
<1>1. /\ Len(queue) \in Nat \ {0} /\ DOMAIN queue = 1..Len(queue)
      /\ DOMAIN queue' = 1..(Len(queue) - 1)
      /\ \A k \in DOMAIN queue' : queue'[k] = queue[k + 1]
      /\ Head(queue) = queue[1]
  BY DEF Inv, TypeOK
<1>2. f \in Bijection(Waiting(i)', Waiting(i) \ {1})
  <2>1. f \in [Waiting(i)' -> Waiting(i) \ {1}]
    BY <1>1 DEF Waiting
  <2>2. \A a, b \in Waiting(i)' : f[a] = f[b] => a = b
    BY <1>1 DEF Waiting
  <2>3. ASSUME NEW t \in Waiting(i) \ {1} PROVE \E a \in Waiting(i)' : f[a] = t
    <3>1. t \in 2..Len(queue) /\ t - 1 \in DOMAIN queue' /\ queue'[t - 1] = i
      BY <1>1, <2>3 DEF Waiting
    <3>2. t - 1 \in Waiting(i)' /\ f[t - 1] = t
      BY <3>1 DEF Waiting
    <3> QED BY <3>2
  <2> QED BY <2>1, <2>2, <2>3 DEF Bijection, Injection, IsInjective, Surjection
<1>3. IsFiniteSet(Waiting(i) \ {1}) /\ IsFiniteSet(Waiting(i)) /\ IsFiniteSet(Waiting(i)')
  <2>1. IsFiniteSet(Waiting(i)) BY WaitingFinite
  <2>2. IsFiniteSet(Waiting(i) \ {1}) BY <2>1, FS_RemoveElement
  <2>3. Waiting(i)' \subseteq 1..(Len(queue) - 1) /\ Len(queue) - 1 \in Int /\ 1 \in Int
    BY <1>1 DEF Waiting
  <2>4. IsFiniteSet(Waiting(i)') BY <2>3, FS_Interval, FS_Subset
  <2> QED BY <2>1, <2>2, <2>4
<1>4. Cardinality(Waiting(i)') = Cardinality(Waiting(i) \ {1})
  <2>1. ExistsBijection(Waiting(i)', Waiting(i) \ {1})
    BY <1>2 DEF ExistsBijection
  <2> QED BY <1>3, <2>1, FS_Bijection
<1>5. 1 \in Waiting(i) <=> Head(queue) = i
  BY <1>1 DEF Waiting
<1>6. Cardinality(Waiting(i) \ {1}) =
        (IF 1 \in Waiting(i) THEN Cardinality(Waiting(i)) - 1 ELSE Cardinality(Waiting(i)))
  BY <1>3, FS_RemoveElement
<1>7. ASSUME Head(queue) # i, Waiting(i) # {} PROVE Waiting(i)' # {}
  <2>1. PICK t \in Waiting(i) : TRUE BY <1>7
  <2>2. t \in Waiting(i) \ {1} BY <1>5, <1>7, <2>1
  <2>3. t \in 2..Len(queue) /\ t - 1 \in Waiting(i)'
    BY <1>1, <2>2 DEF Waiting
  <2> QED BY <2>3
<1> QED BY <1>4, <1>5, <1>6, <1>7, WaitingFinite

\* A new handshake has spent nothing, and none is covered before the first.
LEMMA InitCover == Init => CoverInv
<1> SUFFICES ASSUME Init PROVE CoverInv OBVIOUS
<1> USE SetupAssumption
<1>0. Inv BY InitInv
<1>1. ServerInv BY DEF Init, ServerInv
<1>n. ci \in Streams /\ ~Claimed(ci) BY DEF Init, Streams, Claimed
<1>2. RecyclingCovered BY <1>n DEF Init, RecyclingCovered, Covered
<1>3. DemuxCovered
  <2>1. Cardinality(Waiting(ci)) \in Nat /\ magics[ci] = 0 /\ replies[ci] = 0
    BY <1>0, <1>n, WaitingFinite DEF Init
  <2> QED BY <2>1 DEF Init, DemuxCovered
<1>4. RetryCovers BY DEF Init, RetryCovers
<1> QED BY <1>0, <1>1, <1>2, <1>3, <1>4 DEF CoverInv

\* The server's part.
LEMMA ServerCover ==
    ASSUME CoverInv, Next, Inv'
    PROVE  ServerInv'
<1> USE SetupAssumption DEF ServerInv, Troubles
<1>0. ServerInv /\ TypeOK BY DEF CoverInv, Inv
<1>1. CASE Client \/ ClientFault
  BY <1>0, <1>1 DEF Client, ClientFault, SendMagic, TransientError, ReceiveReply, GiveUp,
                    svars, cvars
<1>2. CASE RecyclingReceive
  BY <1>0, <1>2 DEF RecyclingReceive, cvars
<1>3. CASE DemuxReceive
  <2>1. Len(slots') <= N /\ Len(slots') \in Nat BY <1>3 DEF Inv, TypeOK
  <2> QED BY <1>0, <1>3, <2>1 DEF DemuxReceive, cvars
<1>4. CASE Rebind
  <2>1. Len(slots) <= N /\ Len(slots) \in Nat BY <1>0 DEF TypeOK
  <2> QED BY <1>0, <1>4, <2>1 DEF Rebind, cvars
<1>5. CASE ControlClosed \/ IdleTimeout \/ ServerFault
  BY <1>0, <1>5 DEF ControlClosed, IdleTimeout, ServerFault, cvars
<1>6. CASE Network \/ ForeignDatagram
  BY <1>0, <1>6 DEF Network, ForeignDatagram, DeliverMagic, LoseMagic, LoseReply,
                    DuplicateMagic, DuplicateReply, svars, cvars
<1> QED BY <1>1, <1>2, <1>3, <1>4, <1>5, <1>6 DEF Next, Server

\* The steps of the client that stay in the setup.
LEMMA ClientCover ==
    ASSUME CoverInv, Inv', SendMagic \/ TransientError \/ ReceiveReply
    PROVE  RecyclingCovered' /\ DemuxCovered'
<1> USE SetupAssumption
<1>0. /\ UNCHANGED <<mode, queue, svars, bounds>> /\ cpc = "wait"
      /\ Inv /\ ServerInv /\ RecyclingCovered /\ DemuxCovered
  BY DEF SendMagic, TransientError, ReceiveReply, CoverInv
<1>n. /\ ci \in Streams /\ N \in Nat /\ tries \in Nat /\ lost \in Nat /\ icmp \in BOOLEAN
      /\ magics[ci] \in Nat /\ replies[ci] \in Nat /\ Cardinality(Waiting(ci)) \in Nat
      /\ magics \in [Streams -> Nat] /\ replies \in [Streams -> Nat]
  <2>1. Cardinality(Waiting(ci)) \in Nat BY <1>0, WaitingFinite
  <2> QED BY <1>0, <2>1 DEF Inv, TypeOK
<1>w. ci' = ci => (Waiting(ci)' = Waiting(ci) /\ (Claimed(ci)' <=> Claimed(ci)))
  BY <1>0 DEF Waiting, Claimed, svars
<1>1. CASE SendMagic
  <2>1. /\ ci' = ci /\ cpc' = cpc /\ tries' = tries + 1 /\ icmp' = FALSE /\ replies' = replies
        /\ magics'[ci] = magics[ci] + (IF icmp THEN 0 ELSE 1)
        /\ lost' = lost /\ spc' = spc /\ trouble \subseteq trouble'
        /\ spc = "rebind" /\ tries > 0 => "late" \in trouble'
    BY <1>1, <1>n DEF SendMagic, svars, bounds
  <2>2. RecyclingCovered'
    <3> SUFFICES ASSUME trouble' \subseteq {"magic"} PROVE Covered'
      BY DEF RecyclingCovered, Covered
    <3>1. Covered BY <1>0, <2>1 DEF RecyclingCovered, Covered
    <3>2. spc = "rebind" => tries = 0 BY <1>n, <2>1
    <3> QED BY <1>n, <1>w, <2>1, <3>1, <3>2 DEF Covered
  <2>3. DemuxCovered'
    BY <1>0, <1>n, <1>w, <2>1 DEF DemuxCovered
  <2> QED BY <2>2, <2>3
<1>2. CASE TransientError
  <2>1. /\ UNCHANGED <<ci, cpc, tries, magics, replies, lost, spc, trouble>> /\ icmp' = FALSE
    BY <1>2 DEF TransientError, cvars, svars, bounds
  <2>2. RecyclingCovered'
    <3> SUFFICES ASSUME trouble' \subseteq {"magic"} PROVE Covered'
      BY DEF RecyclingCovered, Covered
    <3>1. Covered BY <1>0, <2>1 DEF RecyclingCovered, Covered
    <3> QED BY <1>n, <1>w, <2>1, <3>1 DEF Covered
  <2>3. DemuxCovered'
    BY <1>0, <1>n, <1>w, <2>1 DEF DemuxCovered
  <2> QED BY <2>2, <2>3
<1>3. CASE ReceiveReply
  <2>1. CASE ci = N
    BY <1>3, <2>1 DEF ReceiveReply, RecyclingCovered, DemuxCovered
  <2>2. CASE ci # N
    <3>1. /\ ci' = ci + 1 /\ tries' = 0 /\ icmp' = FALSE /\ cpc' = "wait"
          /\ magics' = magics /\ lost' = lost /\ spc' = spc /\ trouble' = trouble
      BY <1>0, <1>3, <2>2 DEF ReceiveReply, svars, bounds
    <3>2. /\ ci' \in Streams /\ magics'[ci'] \in Nat /\ replies'[ci'] \in Nat
          /\ Cardinality(Waiting(ci')) \in Nat
      <4>1. ci' \in Streams /\ replies' \in [Streams -> Nat] /\ magics' \in [Streams -> Nat]
        BY DEF Inv, TypeOK
      <4> QED BY <1>0, <4>1, WaitingFinite
    <3>3. ~Claimed(ci')
      <4>1. Len(slots) <= ci
        <5>1. Len(slots) = ci - 1 \/ Len(slots) = ci - 1 + 1
          BY <1>0 DEF Inv, ServerAheadByOne, Connected
        <5> QED BY <1>n, <5>1 DEF Streams
      <4>2. Len(slots) \in Nat /\ ci \in Nat BY <1>0 DEF Inv, TypeOK, Streams
      <4> QED BY <1>0, <3>1, <3>2, <4>1, <4>2, ClaimedIff
    <3>4. trouble \subseteq {"magic"} => spc = "recv" \/ spc = "rebind"
      <4>1. spc # "proceed"
        <5>1. ci < N BY <1>n, <2>2 DEF Streams
        <5>2. Len(slots) < N BY <1>0, <5>1, StreamsToCome
        <5> QED BY <1>0, <5>2 DEF Inv, TypeOK, ServerInv
      <4>2. trouble \subseteq {"magic"} => spc # "failed"
        BY <1>0 DEF ServerInv
      <4> QED BY <1>0, <4>1, <4>2 DEF Inv, TypeOK
    <3>5. RecyclingCovered'
      <4> SUFFICES ASSUME trouble' \subseteq {"magic"} PROVE Covered'
        BY DEF RecyclingCovered, Covered
      <4>1. ~Claimed(ci') /\ (~Claimed(ci))'
        BY <1>0, <3>3 DEF Claimed, svars
      <4> QED BY <1>n, <3>1, <3>2, <3>4, <4>1 DEF Covered
    <3>6. DemuxCovered'
      <4>1. Cardinality(Waiting(ci))' \in Nat BY WaitingFinite, <3>2, <1>0 DEF Waiting
      <4> QED BY <1>n, <3>1, <3>2, <4>1 DEF DemuxCovered
    <3> QED BY <3>5, <3>6
  <2> QED BY <2>1, <2>2
<1> QED BY <1>1, <1>2, <1>3

\* The magic the server takes is answered, and nothing else leaves its queue.
LEMMA ServerTakesCover ==
    ASSUME CoverInv, Inv', RecyclingReceive \/ DemuxReceive
    PROVE  RecyclingCovered' /\ DemuxCovered'
<1> USE SetupAssumption
<1> DEFINE src == Head(queue)
<1>0. /\ UNCHANGED <<mode, cpc, ci, tries, icmp, magics, lost>> /\ spc = "recv" /\ queue # <<>>
      /\ trouble \subseteq trouble'
      /\ Inv /\ ServerInv /\ RecyclingCovered /\ DemuxCovered
  BY DEF RecyclingReceive, DemuxReceive, CoverInv, cvars, bounds
<1>n. /\ ci \in Streams /\ N \in Nat /\ tries \in Nat /\ lost \in Nat /\ icmp \in BOOLEAN
      /\ magics[ci] \in Nat /\ replies[ci] \in Nat /\ Cardinality(Waiting(ci)) \in Nat
      /\ replies \in [Streams -> Nat] /\ src \in 0..N
  <2>1. Cardinality(Waiting(ci)) \in Nat BY <1>0, WaitingFinite
  <2> QED BY <1>0, <2>1 DEF Inv, TypeOK
<1>1. CASE src = ci
  <2>1. ci # Foreign BY <1>n DEF Streams, Foreign
  <2>2. /\ replies'[ci] = replies[ci] + 1
        /\ slots' = Append(slots, ci) \/ (slots' = slots /\ Claimed(ci))
    BY <1>n, <1>1, <2>1 DEF RecyclingReceive, DemuxReceive, ReplyTo, Claim
  <2>3. Claimed(ci)'
    <3>1. CASE slots' = slots /\ Claimed(ci)
      BY <1>0, <3>1 DEF Claimed
    <3>2. CASE slots' = Append(slots, ci)
      <4>1. Len(slots) + 1 \in DOMAIN slots' /\ slots'[Len(slots) + 1] = ci
        BY <1>0, <3>2 DEF Inv, TypeOK
      <4> QED BY <1>0, <4>1 DEF Claimed
    <3> QED BY <2>2, <3>1, <3>2
  <2>4. RecyclingCovered'
    BY <1>0, <1>n, <2>2, <2>3 DEF RecyclingCovered, Covered
  <2>5. DemuxCovered'
    <3> SUFFICES ASSUME mode.demux, cpc = "wait", ci < N, trouble' \subseteq {"magic", "reply"}
                 PROVE  ~icmp /\ tries <= lost + magics[ci] + Cardinality(Waiting(ci)')
                                                + replies'[ci]
      BY <1>0 DEF DemuxCovered, Waiting
    <3>1. ~icmp /\ tries <= lost + magics[ci] + Cardinality(Waiting(ci)) + replies[ci]
      BY <1>0 DEF DemuxCovered
    <3>2. queue' = Tail(queue) BY DEF RecyclingReceive, DemuxReceive
    <3>3. Cardinality(Waiting(ci)') = Cardinality(Waiting(ci)) - 1
      BY <1>0, <1>1, <3>2, WaitingTail
    <3> QED BY <1>n, <2>2, <3>1, <3>3
  <2> QED BY <2>4, <2>5
<1>2. CASE src # ci
  <2>1. CASE RecyclingReceive
    \* It is foreign: of the streams only the current one has no socket yet.
    <3>1. CASE src = Foreign
      <4>1. "foreign" \in trouble' /\ ~mode'.demux
        BY <2>1, <3>1 DEF RecyclingReceive
      <4> QED BY <4>1 DEF RecyclingCovered, DemuxCovered
    <3>2. CASE src # Foreign
      <4>1. 1 \in DOMAIN queue /\ src = queue[1] BY <1>0 DEF Inv, TypeOK
      <4>2. src \in Streams /\ src <= ci /\ ~Claimed(src) /\ ~mode.demux
        BY <1>0, <1>n, <2>1, <3>2, <4>1 DEF RecyclingReceive, Inv, WireInv, Foreign, Streams
      <4>3. src = Connected + 1 BY <1>0, <4>2, NextSource
      <4>4. CASE cpc = "done"
        BY <1>0, <4>4 DEF RecyclingCovered, DemuxCovered
      <4>5. CASE cpc # "done"
        BY <1>2, <1>n, <4>3, <4>5 DEF Connected, Streams
      <4> QED BY <4>4, <4>5
    <3> QED BY <3>1, <3>2
  <2>2. CASE DemuxReceive
    <3>0. mode.demux /\ queue' = Tail(queue) BY <2>2 DEF DemuxReceive
    <3>1. replies'[ci] = replies[ci]
      BY <1>n, <1>2, <2>2 DEF DemuxReceive, ReplyTo
    <3>2. Claimed(ci)' <=> Claimed(ci)
      <4>1. slots' = slots \/ (slots' = Append(slots, src) /\ src \in Streams)
        BY <1>n, <2>2 DEF DemuxReceive, Claim, Foreign, Streams
      <4>2. CASE slots' = slots
        BY <1>0, <4>2 DEF Claimed
      <4>3. CASE slots' = Append(slots, src) /\ src \in Streams
        <5>1. /\ DOMAIN slots' = DOMAIN slots \cup {Len(slots) + 1}
              /\ \A k \in DOMAIN slots : slots'[k] = slots[k]
              /\ slots'[Len(slots) + 1] = src
          <6>1. slots \in Seq(Streams) BY <1>0 DEF Inv, TypeOK
          <6> HIDE DEF src
          <6> QED BY <4>3, <6>1
        <5> QED BY <1>0, <1>2, <5>1 DEF Claimed
      <4> QED BY <4>1, <4>2, <4>3
    <3>3. /\ Cardinality(Waiting(ci)') = Cardinality(Waiting(ci))
          /\ Waiting(ci) # {} => Waiting(ci)' # {}
      BY <1>0, <1>n, <1>2, <3>0, WaitingTail
    <3>4. ci < N /\ cpc = "wait" => spc' = "recv"
      <4> SUFFICES ASSUME ci < N, cpc = "wait" PROVE spc' = "recv" OBVIOUS
      <4>1. Len(slots') < N
        <5>1. ci' = ci /\ cpc' = "wait" BY <1>0
        <5>2. Len(slots') \in Nat /\ N \in Nat /\ ci \in 1..N
          BY <1>n DEF Inv, TypeOK, Streams
        <5>3. Len(slots') = ci - 1 \/ Len(slots') = ci - 1 + 1
          BY <5>1 DEF Inv, ServerAheadByOne, Connected
        <5> QED BY <5>2, <5>3
      <4> QED BY <1>0, <2>2, <4>1 DEF DemuxReceive
    <3>5. DemuxCovered'
      <4> SUFFICES ASSUME cpc = "wait", ci < N, trouble' \subseteq {"magic", "reply"}
                   PROVE  ~icmp /\ tries <= lost + magics[ci] + Cardinality(Waiting(ci)')
                                                  + replies'[ci]
        BY <1>0 DEF DemuxCovered, Waiting
      <4>1. ~icmp /\ tries <= lost + magics[ci] + Cardinality(Waiting(ci)) + replies[ci]
        BY <1>0, <3>0 DEF DemuxCovered
      <4> QED BY <1>n, <3>1, <3>3, <4>1
    <3>6. RecyclingCovered'
      <4> SUFFICES ASSUME cpc = "wait", trouble' \subseteq {"magic"} PROVE Covered'
        BY <1>0 DEF RecyclingCovered, Covered
      <4>1. Covered BY <1>0 DEF RecyclingCovered, Covered
      <4>2. ~(~Claimed(ci)' /\ spc' # "recv")
        <5> SUFFICES ASSUME ~Claimed(ci)', spc' # "recv" PROVE FALSE OBVIOUS
        <5>1. Len(slots') >= N /\ Len(slots') \in Nat /\ N \in Nat /\ ci \in 1..N
          BY <1>0, <1>n, <2>2 DEF DemuxReceive, Inv, TypeOK, Streams
        <5>2. DOMAIN slots' = 1..Len(slots') /\ \A k \in DOMAIN slots' : slots'[k] = k
          BY DEF Inv, TypeOK, Pairing
        <5>3. ci \in DOMAIN slots' /\ slots'[ci] = ci BY <5>1, <5>2
        <5> QED BY <1>0, <5>3 DEF Claimed
      <4> QED BY <1>0, <1>n, <3>1, <3>2, <3>3, <4>1, <4>2 DEF Covered
    <3> QED BY <3>5, <3>6
  <2> QED BY <2>1, <2>2
<1> QED BY <1>1, <1>2

\* The other steps of the server: a listener bound anew is met by one try.
LEMMA ServerMovesCover ==
    ASSUME CoverInv, Inv', Rebind \/ ControlClosed \/ IdleTimeout \/ ServerFault
    PROVE  RecyclingCovered' /\ DemuxCovered'
<1> USE SetupAssumption
<1>0. /\ UNCHANGED <<mode, cpc, ci, tries, icmp, magics, replies, queue, slots, lost>>
      /\ trouble \subseteq trouble'
      /\ Inv /\ ServerInv /\ RecyclingCovered /\ DemuxCovered
  BY DEF Rebind, ControlClosed, IdleTimeout, ServerFault, CoverInv, cvars, bounds
<1>1. DemuxCovered'
  <2>1. (Waiting(ci))' = Waiting(ci) BY <1>0 DEF Waiting
  <2> QED BY <1>0, <2>1 DEF DemuxCovered
<1>2. CASE Rebind
  <2>1. spc = "rebind" /\ spc' = IF Len(slots) < N THEN "recv" ELSE "proceed"
    BY <1>2 DEF Rebind
  <2>2. /\ ci \in 1..N /\ N \in Nat /\ Len(slots) \in Nat /\ tries \in Nat /\ lost \in Nat
        /\ magics[ci] \in Nat
    BY <1>0 DEF Inv, TypeOK, Streams
  <2>3. ~Claimed(ci) => Len(slots) < N
    <3>1. Claimed(ci) <=> ci <= Len(slots) BY <1>0, <2>2, ClaimedIff DEF Streams
    <3> QED BY <2>2, <3>1
  <2>4. ~Claimed(ci) => spc' = "recv" BY <2>1, <2>3
  <2>5. RecyclingCovered'
    <3> SUFFICES ASSUME cpc = "wait", trouble' \subseteq {"magic"} PROVE Covered'
      BY <1>0 DEF RecyclingCovered, Covered
    <3>1. Covered BY <1>0 DEF RecyclingCovered, Covered
    <3>2. (Waiting(ci))' = Waiting(ci) /\ (Claimed(ci))' = Claimed(ci)
      BY <1>0 DEF Waiting, Claimed
    <3> QED BY <1>0, <2>1, <2>2, <2>4, <3>1, <3>2 DEF Covered
  <2> QED BY <1>1, <2>5
<1>3. CASE ControlClosed \/ IdleTimeout \/ ServerFault
  <2>1. cpc' # "wait" \/ ~(trouble' \subseteq {"magic"})
    BY <1>3 DEF ControlClosed, IdleTimeout, ServerFault, cvars
  <2> QED BY <1>1, <2>1 DEF RecyclingCovered
<1> QED BY <1>2, <1>3

\* Trouble and losses only grow, and the design stays.
LEMMA TroubleGrows ==
    ASSUME TypeOK, Next
    PROVE  trouble \subseteq trouble' /\ lost' >= lost /\ mode' = mode
<1>n. lost \in Nat BY SetupAssumption DEF TypeOK
<1>1. CASE Client \/ ClientFault
  BY <1>n, <1>1 DEF Client, ClientFault, SendMagic, TransientError, ReceiveReply, GiveUp, bounds
<1>2. CASE Server \/ ControlClosed \/ IdleTimeout \/ ServerFault
  BY <1>n, <1>2 DEF Server, RecyclingReceive, Rebind, DemuxReceive, ControlClosed, IdleTimeout,
                    ServerFault, bounds
<1>3. ASSUME NEW i \in Streams, DeliverMagic(i) \/ DuplicateMagic(i) \/ DuplicateReply(i)
      PROVE  trouble \subseteq trouble' /\ lost' >= lost /\ mode' = mode
  <2>1. UNCHANGED <<trouble, lost, mode>>
    BY <1>3 DEF DeliverMagic, DuplicateMagic, DuplicateReply, bounds
  <2> QED BY <1>n, <2>1
<1>4. ASSUME NEW i \in Streams, LoseMagic(i) \/ LoseReply(i)
      PROVE  trouble \subseteq trouble' /\ lost' >= lost /\ mode' = mode
  BY <1>n, <1>4 DEF LoseMagic, LoseReply
<1>5. CASE ForeignDatagram BY <1>n, <1>5 DEF ForeignDatagram
<1> QED BY <1>1, <1>2, <1>3, <1>4, <1>5 DEF Next, Network

\* The network and the kernel: a magic is delivered, bounced once, or lost.
LEMMA NetworkCover ==
    ASSUME CoverInv, Inv', Network \/ ForeignDatagram
    PROVE  RecyclingCovered' /\ DemuxCovered'
<1> USE SetupAssumption
<1>0. /\ UNCHANGED <<mode, cpc, ci, tries, spc, slots>>
      /\ trouble \subseteq trouble' /\ lost' >= lost
      /\ Inv /\ ServerInv /\ RecyclingCovered /\ DemuxCovered
  <2>1. trouble \subseteq trouble' /\ lost' >= lost /\ mode' = mode
    BY TroubleGrows DEF CoverInv, Inv, Next
  <2>2. UNCHANGED <<cpc, ci, tries, spc, slots>>
    BY DEF Network, ForeignDatagram, DeliverMagic, LoseMagic, LoseReply, DuplicateMagic,
           DuplicateReply, cvars, svars
  <2> QED BY <2>1, <2>2 DEF CoverInv
<1>n. /\ ci \in Streams /\ N \in Nat /\ tries \in Nat /\ lost \in Nat /\ icmp \in BOOLEAN
      /\ magics[ci] \in Nat /\ replies[ci] \in Nat /\ Cardinality(Waiting(ci)) \in Nat
      /\ magics \in [Streams -> Nat] /\ replies \in [Streams -> Nat]
      /\ lost' \in Nat /\ icmp' \in BOOLEAN /\ magics'[ci] \in Nat /\ replies'[ci] \in Nat
  <2>1. Cardinality(Waiting(ci)) \in Nat BY <1>0, WaitingFinite
  <2> QED BY <1>0, <2>1 DEF Inv, TypeOK
<1>c. (Claimed(ci))' <=> Claimed(ci)
  BY <1>0 DEF Claimed
<1>q. /\ Cardinality(Waiting(ci)') >= Cardinality(Waiting(ci))
      /\ Cardinality(Waiting(ci)') \in Nat
      /\ Waiting(ci) # {} => Waiting(ci)' # {}
  <2>1. CASE queue' = queue BY <1>0, <1>n, <2>1 DEF Waiting
  <2>2. ASSUME NEW x, queue' = Append(queue, x)
        PROVE  /\ Cardinality(Waiting(ci)') >= Cardinality(Waiting(ci))
               /\ Cardinality(Waiting(ci)') \in Nat
               /\ Waiting(ci) # {} => Waiting(ci)' # {}
    <3>1. /\ Cardinality(Waiting(ci)') = Cardinality(Waiting(ci)) + (IF x = ci THEN 1 ELSE 0)
          /\ Waiting(ci) \subseteq Waiting(ci)'
      BY <1>0, <2>2, WaitingAppend
    <3> QED BY <1>n, <3>1
  <2>3. queue' = queue \/ \E x : queue' = Append(queue, x)
    BY DEF Network, ForeignDatagram, DeliverMagic, LoseMagic, LoseReply, DuplicateMagic,
           DuplicateReply
  <2> QED BY <2>1, <2>2, <2>3
<1>w. (Waiting(ci))' = Waiting(ci)'
  BY <1>0 DEF Waiting
\* A step that takes nothing away, or takes only what it counts as lost.
<1>1. ASSUME icmp' = icmp, replies'[ci] >= replies[ci],
             lost' + magics'[ci] >= lost + magics[ci]
      PROVE  RecyclingCovered' /\ DemuxCovered'
  <2>1. RecyclingCovered'
    <3> SUFFICES ASSUME cpc = "wait", trouble' \subseteq {"magic"} PROVE Covered'
      BY <1>0 DEF RecyclingCovered, Covered
    <3>1. Covered BY <1>0 DEF RecyclingCovered, Covered
    <3> QED BY <1>0, <1>n, <1>c, <1>q, <1>w, <1>1, <3>1 DEF Covered
  <2>2. DemuxCovered'
    BY <1>0, <1>n, <1>q, <1>w, <1>1 DEF DemuxCovered
  <2> QED BY <2>1, <2>2
<1>2. ASSUME NEW i \in Streams, DeliverMagic(i) PROVE RecyclingCovered' /\ DemuxCovered'
  <2>1. CASE i # ci
    <3>1. magics'[ci] = magics[ci] /\ icmp' = icmp /\ replies' = replies /\ lost' = lost
      BY <1>2, <2>1, <1>n DEF DeliverMagic, bounds
    <3> QED BY <1>1, <1>n, <3>1
  <2>2. CASE i = ci
    <3>1. /\ replies' = replies /\ lost' = lost /\ magics'[ci] = magics[ci] - 1
          /\ queue' = IF ToListener(ci) THEN Append(queue, ci) ELSE queue
          /\ ~ToNobody(ci) => icmp' = icmp
      BY <1>2, <2>2, <1>n DEF DeliverMagic, bounds
    <3>2. CASE ToListener(ci)
      <4>1. /\ Cardinality(Waiting(ci)') = Cardinality(Waiting(ci)) + 1
            /\ Waiting(ci)' # {}
        BY <1>0, <1>n, <3>1, <3>2, WaitingAppend
      <4>2. icmp' = icmp BY <3>1, <3>2 DEF ToListener, ToNobody
      <4>3. RecyclingCovered'
        <5> SUFFICES ASSUME cpc = "wait", trouble' \subseteq {"magic"} PROVE Covered'
          BY <1>0 DEF RecyclingCovered, Covered
        <5>1. Covered BY <1>0 DEF RecyclingCovered, Covered
        <5> QED BY <1>0, <1>c, <1>w, <3>1, <4>1, <5>1 DEF Covered
      <4>4. DemuxCovered'
        BY <1>0, <1>n, <1>w, <3>1, <4>1, <4>2 DEF DemuxCovered
      <4> QED BY <4>3, <4>4
    <3>3. CASE ~ToListener(ci)
      <4>1. queue' = queue BY <3>1, <3>3
      <4>2. RecyclingCovered'
        <5> SUFFICES ASSUME cpc = "wait", trouble' \subseteq {"magic"} PROVE Covered'
          BY <1>0 DEF RecyclingCovered, Covered
        <5>1. Covered BY <1>0 DEF RecyclingCovered, Covered
        <5>2. ~Claimed(ci) => spc # "recv" BY <3>3 DEF ToListener
        <5> QED BY <1>0, <1>c, <1>q, <1>w, <3>1, <5>1, <5>2 DEF Covered
      <4>3. DemuxCovered'
        <5>1. ASSUME mode.demux, cpc = "wait", ci < N, trouble' \subseteq {"magic", "reply"}
              PROVE  FALSE
          <6>1. Len(slots) < N BY <1>0, <5>1, StreamsToCome
          <6>2. Len(slots) # N BY <1>n, <6>1 DEF Inv, TypeOK
          <6>3. spc \in {"recv", "rebind", "proceed", "failed"} BY <1>0 DEF Inv, TypeOK
          <6> QED BY <1>0, <3>3, <5>1, <6>2, <6>3 DEF ServerInv, ToListener
        <5> QED BY <1>0, <5>1 DEF DemuxCovered
      <4> QED BY <4>2, <4>3
    <3> QED BY <3>2, <3>3
  <2> QED BY <2>1, <2>2
<1>3. ASSUME NEW i \in Streams, LoseMagic(i) \/ DuplicateMagic(i) \/ DuplicateReply(i)
      PROVE  RecyclingCovered' /\ DemuxCovered'
  <2>1. icmp' = icmp BY <1>3 DEF LoseMagic, DuplicateMagic, DuplicateReply
  <2>2. replies'[ci] >= replies[ci]
    BY <1>3, <1>n DEF LoseMagic, DuplicateMagic, DuplicateReply
  <2>3. lost' + magics'[ci] >= lost + magics[ci]
    BY <1>3, <1>n DEF LoseMagic, DuplicateMagic, DuplicateReply
  <2> QED BY <1>1, <2>1, <2>2, <2>3
<1>4. ASSUME NEW i \in Streams, LoseReply(i) PROVE RecyclingCovered' /\ DemuxCovered'
  <2>1. RecyclingCovered' BY <1>4 DEF LoseReply, RecyclingCovered
  <2>2. lost' = lost + 1 /\ magics' = magics /\ icmp' = icmp /\ replies'[ci] + 1 >= replies[ci]
    BY <1>4, <1>n DEF LoseReply
  <2>3. DemuxCovered'
    BY <1>0, <1>n, <1>q, <1>w, <2>2 DEF DemuxCovered
  <2> QED BY <2>1, <2>3
<1>5. CASE ForeignDatagram
  <2>1. icmp' = icmp /\ replies' = replies /\ lost' = lost /\ magics' = magics
    BY <1>5 DEF ForeignDatagram
  <2> QED BY <1>1, <1>n, <2>1
<1> QED BY <1>2, <1>3, <1>4, <1>5 DEF Network

\* A client that gives up has spent all its tries, and none is under way.
LEMMA FailureCovered ==
    ASSUME CoverInv, Next, Inv'
    PROVE  RetryCovers'
<1> USE SetupAssumption
<1>0. TypeOK /\ TypeOK' BY DEF CoverInv, Inv
<1>n. /\ lost \in Nat /\ lost' \in Nat /\ tries \in Nat /\ MaxTries \in Nat /\ ci \in Streams
      /\ magics[ci] \in Nat /\ replies[ci] \in Nat /\ icmp \in BOOLEAN
  BY <1>0 DEF TypeOK
<1>1. trouble \subseteq trouble' /\ lost' >= lost /\ mode' = mode
  BY <1>0, TroubleGrows
<1>2. CASE ~(Client \/ ClientFault)
  <2>1. cpc' = cpc /\ ci' = ci
    BY <1>2 DEF Next, Server, Network, RecyclingReceive, Rebind, DemuxReceive, ControlClosed,
                IdleTimeout, ServerFault, ForeignDatagram, DeliverMagic, LoseMagic, LoseReply,
                DuplicateMagic, DuplicateReply, cvars
  <2>2. ASSUME lost' + 2 < MaxTries PROVE lost + 2 < MaxTries
    <3>1. \A a, b, m \in Nat : b >= a /\ b + 2 < m => a + 2 < m OBVIOUS
    <3> QED BY <1>n, <1>1, <2>2, <3>1
  <2> QED BY <1>1, <2>1, <2>2 DEF CoverInv, RetryCovers
<1>3. CASE SendMagic \/ TransientError \/ ReceiveReply
  <2>1. cpc' # "failed"
    BY <1>3 DEF SendMagic, TransientError, ReceiveReply, cvars
  <2> QED BY <2>1 DEF RetryCovers
<1>5. CASE ClientFault
  <2>1. "fault" \in trouble' BY <1>5 DEF ClientFault
  <2>2. trouble' \ {"magic"} # {} /\ trouble' \ {"magic", "reply"} # {} BY <2>1
  <2> QED BY <2>2 DEF RetryCovers
<1>4. CASE GiveUp
  <2>1. /\ cpc = "wait" /\ tries = MaxTries /\ lost' = lost /\ ci' = ci /\ mode' = mode
        /\ Outstanding => "late" \in trouble'
    BY <1>4 DEF GiveUp, bounds
  <2> SUFFICES ASSUME lost + 2 < MaxTries
               PROVE  /\ ~(trouble' \subseteq {"magic"})
                      /\ mode.demux /\ ci < N => ~(trouble' \subseteq {"magic", "reply"})
    BY <2>1 DEF RetryCovers
  <2>2. ~Outstanding => Waiting(ci) = {} /\ ~(magics[ci] > 0) /\ ~(replies[ci] > 0)
    BY DEF Outstanding, Waiting
  <2>3. ASSUME trouble' \subseteq {"magic"} PROVE FALSE
    <3>1. RecyclingCovered /\ trouble \subseteq {"magic"} BY <1>1, <2>3 DEF CoverInv
    <3>2. Covered BY <2>1, <3>1 DEF RecyclingCovered, Covered
    <3>3. ~Outstanding BY <2>1, <2>3
    <3> QED BY <1>n, <2>1, <2>2, <3>2, <3>3 DEF Covered
  <2>4. ASSUME mode.demux, ci < N, trouble' \subseteq {"magic", "reply"} PROVE FALSE
    <3>1. DemuxCovered /\ trouble \subseteq {"magic", "reply"} BY <1>1, <2>4 DEF CoverInv
    <3>2. tries <= lost + magics[ci] + Cardinality(Waiting(ci)) + replies[ci]
      BY <2>1, <2>4, <3>1 DEF DemuxCovered
    <3>3. ~Outstanding BY <2>1, <2>4
    <3>4. Cardinality(Waiting(ci)) = 0 BY <2>2, <3>3, FS_EmptySet
    <3> QED BY <1>n, <2>1, <2>2, <3>2, <3>3, <3>4
  <2> QED BY <2>3, <2>4
<1> QED BY <1>2, <1>3, <1>4, <1>5 DEF Client

LEMMA StepCover == CoverInv /\ [Next]_vars => CoverInv'
<1> SUFFICES ASSUME CoverInv, [Next]_vars PROVE CoverInv' OBVIOUS
<1>0. Inv /\ Inv' BY StepInv DEF CoverInv
<1>1. CASE UNCHANGED vars
  BY <1>0, <1>1 DEF CoverInv, ServerInv, RecyclingCovered, Covered, DemuxCovered, RetryCovers, Claimed,
              Waiting, vars, cvars, svars, bounds
<1>2. CASE Next
  <2>1. ServerInv' /\ RetryCovers' BY <1>0, <1>2, ServerCover, FailureCovered
  <2>2. RecyclingCovered' /\ DemuxCovered'
    <3>1. CASE GiveUp \/ ClientFault
      BY <3>1 DEF GiveUp, ClientFault, RecyclingCovered, DemuxCovered
    <3>2. CASE SendMagic \/ TransientError \/ ReceiveReply BY <1>0, <3>2, ClientCover
    <3>3. CASE RecyclingReceive \/ DemuxReceive BY <1>0, <3>3, ServerTakesCover
    <3>4. CASE Rebind \/ ControlClosed \/ IdleTimeout \/ ServerFault
      BY <1>0, <3>4, ServerMovesCover
    <3>5. CASE Network \/ ForeignDatagram BY <1>0, <3>5, NetworkCover
    <3> QED BY <1>2, <3>1, <3>2, <3>3, <3>4, <3>5 DEF Next, Client, Server
  <2> QED BY <1>0, <2>1, <2>2 DEF CoverInv
<1> QED BY <1>1, <1>2

\* The retries of udp_connect_client cover every handshake in which magics are
\* all that is lost, and fewer than MaxTries - 2 of them: whatever the number of
\* streams, the order of the datagrams and the time a new listener takes, a
\* client that gives up met something else.  With setup_udp_demux a lost reply
\* is covered too.
THEOREM RetriesCover == Spec => []RetryCovers
<1>1. CoverInv => RetryCovers BY DEF CoverInv
<1> QED BY <1>1, InitCover, StepCover, PTL DEF Spec
=============================================================================
