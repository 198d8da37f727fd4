------------------------------ MODULE UdpSetup ------------------------------
(***************************************************************************)
(* The creation of the data streams of a UDP test, over datagrams that are *)
(* lost, late and duplicated.  The client connects its streams one after   *)
(* the other: it sends a magic word, again every half second, until a reply*)
(* comes or its thirty seconds are over.  The server has two designs:      *)
(*   - recycling: the listener that got the magic is connected to its      *)
(*     source and replies once, then a fresh listener is bound to the same *)
(*     port; in between the port answers with ICMP;                        *)
(*   - demux: one socket for all streams replies to every magic, and only a*)
(*     new source claims a slot.                                           *)
(* The position of a source in slots is its stream on the server, with the *)
(* direction of that position; nothing in a datagram names the stream.     *)
(*                                                                         *)
(* Magic words of an earlier test are left out: the handshake has nothing  *)
(* to tell them apart.  Of the control connection only its end is here; the*)
(* bytes a server dispatches while it sets up are in ControlServer.        *)
(***************************************************************************)
EXTENDS Naturals, Sequences, FiniteSets

CONSTANTS N,          \* data streams of the test (total in the code)
          MaxTries,   \* sends that fit into UDP_CONNECT_TOTAL_TIMEOUT
          MaxLost,    \* bounds: datagrams the network loses,
          MaxDup,     \*         duplicates,
          MaxStray    \*         foreign datagrams at the server's port

ASSUME SetupAssumption ==
    /\ N \in Nat \ {0}
    /\ MaxTries \in Nat \ {0}
    /\ MaxLost \in Nat /\ MaxDup \in Nat /\ MaxStray \in Nat

VARIABLES mode,     \* the server's design, and the streams the client sends on
          cpc,      \* the client: in a handshake, done with all, or failed
          ci,       \* the stream whose handshake the client is in
          tries,    \* magics sent in this handshake
          icmp,     \* an ICMP answer is pending on the client's socket
          magics,   \* magics in flight, by stream
          replies,  \* replies in flight, by stream
          queue,    \* datagrams in the socket the server receives magics on
          spc,      \* the server: receiving, between two listeners, or over
          slots,    \* sources in the order they became streams
          trouble,  \* history: what else than the program went wrong
          lost, dups, strays  \* uses of the bounds

cvars   == <<cpc, ci, tries>>
svars   == <<spc, slots>>
bounds  == <<lost, dups, strays>>
vars    == <<mode, cvars, icmp, magics, replies, queue, svars, trouble, bounds>>

Streams == 1..N
Foreign == 0
Troubles == {"magic", "reply", "late", "foreign", "idle", "fault"}

\* The client's side of a direction: index below send_count.
ClientSends(i) == i <= mode.send
\* The server's side: index at or above recv_count, which is the client's
\* send_count.
ServerSends(k) == k > mode.send

\* idle_armed: some stream of the server receives (not a pure reverse test).
IdleArmed == mode.send > 0

Init ==
    /\ mode \in [demux : BOOLEAN, send : {s \in 0..N : s \in {0, N} \/ 2 * s = N}]
    /\ cpc = "wait" /\ ci = 1 /\ tries = 0
    /\ icmp = FALSE
    /\ magics = [i \in Streams |-> 0]
    /\ replies = [i \in Streams |-> 0]
    /\ queue = <<>>
    /\ spc = "recv" /\ slots = <<>>
    /\ trouble = {}
    /\ lost = 0 /\ dups = 0 /\ strays = 0

Claimed(i) == \E k \in DOMAIN slots : slots[k] = i

-----------------------------------------------------------------------------
(* The client's handshake, udp_connect_client. *)

\* The retry timer fires (the first send included).  A pending ICMP answer is
\* what the send reports, and no datagram leaves.  A retry that still meets
\* the gap between two listeners shows a server slower than the timer.
SendMagic ==
    /\ cpc = "wait" /\ tries < MaxTries
    /\ tries' = tries + 1
    /\ magics' = IF icmp THEN magics ELSE [magics EXCEPT ![ci] = @ + 1]
    /\ icmp' = FALSE
    /\ trouble' = IF tries > 0 /\ spc = "rebind" THEN trouble \cup {"late"} ELSE trouble
    /\ UNCHANGED <<mode, cpc, ci, replies, queue, svars, bounds>>

\* Mutant: any error of the receive ends the handshake.
ErrorFatal ==
    /\ cpc = "wait" /\ icmp
    /\ icmp' = FALSE
    /\ cpc' = "failed"
    /\ UNCHANGED <<mode, ci, tries, magics, replies, queue, svars, trouble, bounds>>

\* The receive reports the pending ICMP answer: transient, the loop goes on.
TransientError ==
    /\ cpc = "wait" /\ icmp
    /\ icmp' = FALSE
    /\ UNCHANGED <<mode, cvars, magics, replies, queue, svars, trouble, bounds>>

\* The reply arrives: create_streams goes on with the next stream, on a
\* socket of its own.
ReceiveReply ==
    /\ cpc = "wait" /\ replies[ci] > 0
    /\ replies' = [replies EXCEPT ![ci] = @ - 1]
    /\ IF ci = N
       THEN cpc' = "done" /\ UNCHANGED <<ci, tries, icmp>>
       ELSE ci' = ci + 1 /\ tries' = 0 /\ icmp' = FALSE /\ UNCHANGED cpc
    /\ UNCHANGED <<mode, magics, queue, svars, trouble, bounds>>

\* Something of this handshake is still under way.
Outstanding ==
    \/ magics[ci] > 0
    \/ replies[ci] > 0
    \/ \E k \in DOMAIN queue : queue[k] = ci

\* The deadline passes after the last send.  An answer that is still under
\* way comes too late.
GiveUp ==
    /\ cpc = "wait" /\ tries = MaxTries
    /\ cpc' = "failed"
    /\ trouble' = IF Outstanding THEN trouble \cup {"late"} ELSE trouble
    /\ UNCHANGED <<mode, ci, tries, icmp, magics, replies, queue, svars, bounds>>

\* A bind, connect, send or receive fails for another reason.
ClientFault ==
    /\ cpc = "wait"
    /\ cpc' = "failed"
    /\ trouble' = trouble \cup {"fault"}
    /\ UNCHANGED <<mode, ci, tries, icmp, magics, replies, queue, svars, bounds>>

-----------------------------------------------------------------------------
(* The server's wait for the magics. *)

\* Recycling: connect to the source, reply, leave what else is queued to the
\* data socket.  A datagram that is no magic ends the setup.
RecyclingReceive ==
    /\ ~mode.demux /\ spc = "recv" /\ queue # <<>>
    /\ queue' = <<>>
    /\ IF Head(queue) = Foreign
       THEN /\ spc' = "failed"
            /\ trouble' = trouble \cup {"foreign"}
            /\ UNCHANGED <<slots, replies>>
       ELSE /\ spc' = "rebind"
            /\ slots' = Append(slots, Head(queue))
            /\ replies' = [replies EXCEPT ![Head(queue)] = @ + 1]
            /\ UNCHANGED trouble
    /\ UNCHANGED <<mode, cvars, icmp, magics, bounds>>

\* The stream is spawned and a fresh listener bound, but for the last one.
Rebind ==
    /\ spc = "rebind"
    /\ spc' = IF Len(slots) < N THEN "recv" ELSE "proceed"
    /\ UNCHANGED <<mode, cvars, icmp, magics, replies, queue, slots, trouble, bounds>>

\* Mutants: a slot for every magic; the test of seen.insert the wrong way
\* round; a reply to new sources only.
ClaimEvery(src) == Append(slots, src)
ClaimSeen(src) == IF Claimed(src) THEN Append(slots, src) ELSE slots
ReplyOnce(src) == IF Claimed(src) THEN replies ELSE [replies EXCEPT ![src] = @ + 1]

\* Demux: reply to every magic, and give a slot to a source not seen before.
Claim(src) == IF Claimed(src) THEN slots ELSE Append(slots, src)

ReplyTo(src) == [replies EXCEPT ![src] = @ + 1]

DemuxReceive ==
    /\ mode.demux /\ spc = "recv" /\ queue # <<>>
    /\ queue' = Tail(queue)
    /\ IF Head(queue) = Foreign
       THEN UNCHANGED <<spc, slots, replies>>
       ELSE /\ replies' = ReplyTo(Head(queue))
            /\ slots' = Claim(Head(queue))
            /\ spc' = IF Len(slots') < N THEN "recv" ELSE "proceed"
    /\ UNCHANGED <<mode, cvars, icmp, magics, trouble, bounds>>

\* Mutant: the control connection is looked at only with the idle timeout.
ControlClosedArmed ==
    /\ spc = "recv" /\ cpc = "failed" /\ IdleArmed
    /\ spc' = "failed"
    /\ UNCHANGED <<mode, cvars, icmp, magics, replies, queue, slots, trouble, bounds>>

\* The client that failed has closed the control connection.
ControlClosed ==
    /\ spc = "recv" /\ cpc = "failed"
    /\ spc' = "failed"
    /\ UNCHANGED <<mode, cvars, icmp, magics, replies, queue, slots, trouble, bounds>>

\* Nothing came for rcv_timeout.
IdleTimeout ==
    /\ spc = "recv" /\ IdleArmed
    /\ spc' = "failed"
    /\ trouble' = trouble \cup {"idle"}
    /\ UNCHANGED <<mode, cvars, icmp, magics, replies, queue, slots, bounds>>

\* A socket call of the setup fails.
ServerFault ==
    /\ spc \in {"recv", "rebind"}
    /\ spc' = "failed"
    /\ trouble' = trouble \cup {"fault"}
    /\ UNCHANGED <<mode, cvars, icmp, magics, replies, queue, slots, bounds>>

-----------------------------------------------------------------------------
(* The network and the server's kernel. *)

\* The kernel gives a datagram of source i to the data socket connected to i
\* if there is one, else to the unconnected socket; after the setup the demux
\* socket takes everything as data.
ToListener(i) == spc = "recv" /\ (mode.demux \/ ~Claimed(i))
ToNobody(i)   == spc = "failed" \/ (~mode.demux /\ ~Claimed(i) /\ spc # "recv")

\* The port answers with ICMP when no socket takes the datagram; the answer
\* may get lost, and only the socket of the current handshake is looked at.
DeliverMagic(i) ==
    /\ magics[i] > 0
    /\ magics' = [magics EXCEPT ![i] = @ - 1]
    /\ queue' = IF ToListener(i) THEN Append(queue, i) ELSE queue
    /\ icmp' \in IF ToNobody(i) /\ i = ci THEN {icmp, TRUE} ELSE {icmp}
    /\ UNCHANGED <<mode, cvars, replies, svars, trouble, bounds>>

LoseMagic(i) ==
    /\ magics[i] > 0 /\ lost < MaxLost
    /\ magics' = [magics EXCEPT ![i] = @ - 1]
    /\ lost' = lost + 1
    /\ trouble' = trouble \cup {"magic"}
    /\ UNCHANGED <<mode, cvars, icmp, replies, queue, svars, dups, strays>>

LoseReply(i) ==
    /\ replies[i] > 0 /\ lost < MaxLost
    /\ replies' = [replies EXCEPT ![i] = @ - 1]
    /\ lost' = lost + 1
    /\ trouble' = trouble \cup {"reply"}
    /\ UNCHANGED <<mode, cvars, icmp, magics, queue, svars, dups, strays>>

DuplicateMagic(i) ==
    /\ magics[i] > 0 /\ dups < MaxDup
    /\ magics' = [magics EXCEPT ![i] = @ + 1]
    /\ dups' = dups + 1
    /\ UNCHANGED <<mode, cvars, icmp, replies, queue, svars, trouble, lost, strays>>

DuplicateReply(i) ==
    /\ replies[i] > 0 /\ dups < MaxDup
    /\ replies' = [replies EXCEPT ![i] = @ + 1]
    /\ dups' = dups + 1
    /\ UNCHANGED <<mode, cvars, icmp, magics, queue, svars, trouble, lost, strays>>

\* A datagram of something else arrives at the port.
ForeignDatagram ==
    /\ strays < MaxStray /\ spc = "recv"
    /\ queue' = Append(queue, Foreign)
    /\ strays' = strays + 1
    /\ UNCHANGED <<mode, cvars, icmp, magics, replies, svars, trouble, lost, dups>>

-----------------------------------------------------------------------------
Client == SendMagic \/ TransientError \/ ReceiveReply \/ GiveUp

Server == RecyclingReceive \/ Rebind \/ DemuxReceive

Network == \E i \in Streams :
    DeliverMagic(i) \/ LoseMagic(i) \/ LoseReply(i) \/ DuplicateMagic(i) \/ DuplicateReply(i)

Next ==
    \/ Client \/ ClientFault
    \/ Server \/ ControlClosed \/ IdleTimeout \/ ServerFault
    \/ Network \/ ForeignDatagram

\* Timers fire, an async task whose future is ready is polled, and a closed
\* control connection stays readable.  The network owes nothing.
Fairness == WF_vars(Client) /\ WF_vars(Server) /\ WF_vars(ControlClosed)

Spec == Init /\ [][Next]_vars /\ Fairness

-----------------------------------------------------------------------------
TypeOK ==
    /\ mode \in [demux : BOOLEAN, send : 0..N]
    /\ cpc \in {"wait", "done", "failed"}
    /\ ci \in Streams /\ tries \in 0..MaxTries
    /\ icmp \in BOOLEAN
    /\ magics \in [Streams -> Nat] /\ replies \in [Streams -> Nat]
    /\ queue \in Seq(0..N)
    /\ spc \in {"recv", "rebind", "proceed", "failed"}
    /\ slots \in Seq(Streams) /\ Len(slots) <= N
    /\ trouble \subseteq Troubles
    /\ lost \in 0..MaxLost /\ dups \in 0..MaxDup /\ strays \in 0..MaxStray

\* The k-th stream of the server is the k-th of the client, and of the two one
\* sends and one receives, although no datagram says which stream it belongs
\* to and retries and duplicates of earlier streams keep arriving.
Pairing ==
    \A k \in DOMAIN slots : slots[k] = k /\ (ServerSends(k) <=> ~ClientSends(slots[k]))

\* The streams the client has connected.
Connected == IF cpc = "done" THEN N ELSE ci - 1

\* The server is never behind the client and at most one stream ahead: a test
\* in which the client has all its streams has all of them on the server.
ServerAheadByOne == Len(slots) \in {Connected, Connected + 1}

\* A client that gives up met more than lost magics: the retries carry every
\* handshake over the gap between two listeners, the ICMP answers it causes
\* (which swallow the next send) and up to MaxTries - 3 losses.  With one
\* socket for all streams a lost reply costs nothing either, as long as
\* another stream is still to come.
RetryCovers ==
    (cpc = "failed" /\ lost + 2 < MaxTries) =>
        /\ trouble \ {"magic"} # {}
        /\ mode.demux /\ ci < N => trouble \ {"magic", "reply"} # {}

\* Both sides leave the setup, whatever the network does: also the server of a
\* reverse test, which has no timeout of its own.
SetupEnds == <>(cpc \in {"done", "failed"} /\ spc \in {"proceed", "failed"})

-----------------------------------------------------------------------------
(* The inductive strengthening the proofs use. *)

\* Magics belong to streams the client has begun, replies to claimed ones, and
\* what waits in a recycled listener comes from a source that has no socket.
WireInv ==
    /\ \A i \in Streams : magics[i] > 0 => i <= ci
    /\ \A i \in Streams : replies[i] > 0 => i <= Len(slots)
    /\ \A k \in DOMAIN queue :
          /\ queue[k] <= ci
          /\ ~mode.demux => queue[k] = Foreign \/ ~Claimed(queue[k])

Inv == TypeOK /\ Pairing /\ ServerAheadByOne /\ WireInv

\* Magics of the stream that wait in the server's queue.
Waiting(i) == {k \in DOMAIN queue : queue[k] = i}

\* A handshake has its reply, or a magic at the server, or has spent its tries
\* on losses, on one magic that met the gap between two listeners, and on one
\* send its ICMP answer swallowed.
Covered ==
    \/ Claimed(ci) /\ replies[ci] > 0
    \/ /\ ~Claimed(ci)
       /\ \/ Waiting(ci) # {}
          \/ spc = "rebind" /\ tries <= 1
          \/ /\ spc = "recv"
             /\ tries + (IF icmp THEN 1 ELSE 0) <= lost + magics[ci] + 2

RecyclingCovered == (cpc = "wait" /\ trouble \subseteq {"magic"}) => Covered

\* With one socket, and a stream still to come, every try is somewhere or lost.
DemuxCovered ==
    (mode.demux /\ cpc = "wait" /\ ci < N /\ trouble \subseteq {"magic", "reply"}) =>
        /\ ~icmp
        /\ tries <= lost + magics[ci] + Cardinality(Waiting(ci)) + replies[ci]

\* A server fails only after the client or with a trouble other than a loss.
ServerInv ==
    /\ spc = "failed" => cpc = "failed" \/ ~(trouble \subseteq {"magic", "reply"})
    /\ spc = "proceed" => Len(slots) = N
    /\ mode.demux => spc # "rebind"

CoverInv == Inv /\ ServerInv /\ RecyclingCovered /\ DemuxCovered /\ RetryCovers
=============================================================================
