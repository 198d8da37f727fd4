----------------------------- MODULE UdpStream -----------------------------
(***************************************************************************)
(* One UDP data stream (stream.rs): the sending thread, the network, the   *)
(* receiving thread and the omit boundary the interval reporters of the    *)
(* two hosts cross.  The sender numbers its datagrams 1, 2, ... and takes  *)
(* a number back when the kernel refuses the datagram; the receiver knows  *)
(* nothing but the numbers it reads, and derives the loss it reports from  *)
(* them.  A datagram is identified by its place in `wire`, the sequence of *)
(* everything the kernel accepted; wire[i] is the number in its header.    *)
(*                                                                         *)
(* Bytes are counted in blocks (every datagram carries one), time is       *)
(* abstracted to "the deadline has passed", and jitter, a float no control *)
(* decision reads, is left out.                                            *)
(***************************************************************************)
EXTENDS Integers, Sequences, FiniteSets

CONSTANTS BatchSize,     \* what udp_pacing_batch yields for the test
          MaxGro,        \* most datagrams one recv returns coalesced
          SeqModulus,    \* 2^32 or 2^64: the width of the header's number
          MaxSent,       \* bound on the datagrams a behaviour sends
          MaxLate        \* bound on the late arrivals while copies are made

ASSUME ConstantsAssumption ==
    /\ BatchSize \in Nat \ {0}
    /\ MaxGro \in Nat \ {0}
    /\ SeqModulus \in Nat \ {0}
    /\ MaxSent \in Nat
    /\ MaxLate \in Nat

VARIABLES
    mode,       \* [sendmmsg, duplicates]: sender used, kind of network
    start,      \* AtomicBool: the test has started
    done,       \* AtomicBool: the test has ended
    expired,    \* the sender's max_duration has passed
    spc, seq,   \* sender: program point, number of the last header
    batch,      \* datagrams of this batch the kernel accepted
    tried,      \* sends attempted in this batch (udp_send_loop)
    datagrams_sent,  \* StreamCounters of the sending host
    wire,       \* headers of every datagram the kernel accepted
    net,        \* datagrams in flight (indices into wire)
    rpc, buf,   \* receiver: program point, datagrams left in its buffer
    stats,      \* UdpRecvStats
    crossed,    \* the receiving host's reporter crossed the omit boundary
    received    \* history: the datagrams the receiver has counted

controlVars  == <<mode, start, done, expired>>
senderVars   == <<spc, seq, batch, tried, datagrams_sent>>
netVars      == <<wire, net>>
statVars     == <<stats, crossed, received>>
receiverVars == <<rpc, buf, statVars>>
vars == <<controlVars, senderVars, netVars, receiverVars>>

Modes == [sendmmsg : BOOLEAN, duplicates : BOOLEAN]

-----------------------------------------------------------------------------
(* Counters and statistics. *)

UdpRecvStats == [packet_count : Int, cnt_error : Int, outoforder : Int,
                 omitted_packet_count : Int, omitted_cnt_error : Int]

NewStats == [packet_count |-> 0, cnt_error |-> 0, outoforder |-> 0,
             omitted_packet_count |-> 0, omitted_cnt_error |-> 0]

\* The header keeps the low 32 (or 64) bits of the number.
WireSeq(n) == n % SeqModulus

\* Fault: a late datagram is not taken off the loss.
UpdateKeepsLoss(st, pcount) ==
    IF pcount > st.packet_count
    THEN [st EXCEPT !.packet_count = pcount,
                    !.cnt_error = @ + (pcount - 1 - st.packet_count)]
    ELSE [st EXCEPT !.outoforder = @ + 1]

\* UdpRecvStats::update, without jitter.
Update(st, pcount) ==
    IF pcount > st.packet_count
    THEN [st EXCEPT !.packet_count = pcount,
                    !.cnt_error = @ + (pcount - 1 - st.packet_count)]
    ELSE [st EXCEPT !.outoforder = @ + 1,
                    !.cnt_error = IF @ > 0 THEN @ - 1 ELSE @]

\* Fault: the errors are not baselined with the packets.
OmitPacketsOnly(st) == [st EXCEPT !.omitted_packet_count = st.packet_count]

\* UdpRecvStats::snapshot_omit.
SnapshotOmit(st) == [st EXCEPT !.omitted_packet_count = st.packet_count,
                               !.omitted_cnt_error = st.cnt_error]

\* What the reports print: gross counters minus the baselines, unclamped.
NetPackets == stats.packet_count - stats.omitted_packet_count
NetLost    == stats.cnt_error - stats.omitted_cnt_error

-----------------------------------------------------------------------------
Init ==
    /\ mode \in Modes
    /\ start = FALSE /\ done = FALSE /\ expired = FALSE
    /\ spc = "await" /\ seq = 0 /\ batch = 0 /\ tried = 0
    /\ datagrams_sent = 0
    /\ wire = <<>> /\ net = {}
    /\ rpc = "top" /\ buf = <<>> /\ stats = NewStats
    /\ crossed = FALSE /\ received = {}

-----------------------------------------------------------------------------
(* The control side: TestStart raises start, the end of the test done. *)

Start ==
    /\ ~start /\ start' = TRUE
    /\ UNCHANGED <<mode, done, expired, senderVars, netVars, receiverVars>>

Finish ==
    /\ ~done /\ done' = TRUE
    /\ UNCHANGED <<mode, start, expired, senderVars, netVars, receiverVars>>

\* A sender with a max_duration counts it from the start it saw.
Expire ==
    /\ ~expired /\ spc \notin {"await", "end"}
    /\ expired' = TRUE
    /\ UNCHANGED <<mode, start, done, senderVars, netVars, receiverVars>>

-----------------------------------------------------------------------------
(* The sending thread. *)

SenderAt(p, q) == spc = p /\ spc' = q

\* Fault: a sender that was never started does not look at done.
AwaitStartOnly ==
    /\ start
    /\ SenderAt("await", "top")
    /\ UNCHANGED <<controlVars, seq, batch, tried, datagrams_sent, netVars,
                   receiverVars>>

\* await_start: polled every millisecond; done wins only while start is unset.
AwaitStart ==
    /\ start \/ done
    /\ SenderAt("await", IF start THEN "top" ELSE "end")
    /\ UNCHANGED <<controlVars, seq, batch, tried, datagrams_sent, netVars,
                   receiverVars>>

\* The loop head of both senders.
SenderTop ==
    /\ SenderAt("top", IF done \/ expired THEN "end" ELSE "batch")
    /\ UNCHANGED <<controlVars, seq, batch, tried, datagrams_sent, netVars,
                   receiverVars>>

\* The kernel takes the first k of the headers numbered from seq + 1.
Accept(k) ==
    /\ Len(wire) + k <= MaxSent
    /\ wire' = wire \o [i \in 1..k |-> WireSeq(seq + i)]
    /\ net' = net \cup (Len(wire) + 1 .. Len(wire) + k)

\* Fault: the numbers of the datagrams the kernel left are not taken back.
SendmmsgKeepsSeq ==
    /\ mode.sendmmsg
    /\ SenderAt("batch", "record")
    /\ \E k \in 0..BatchSize : Accept(k) /\ batch' = k
    /\ seq' = seq + BatchSize
    /\ UNCHANGED <<controlVars, tried, datagrams_sent, receiverVars>>

\* run_udp_sender_sendmmsg: BatchSize headers are filled and one call made.
\* It may take them all, a prefix, or (EAGAIN, any error) none; the numbers of
\* those left are taken back.
Sendmmsg ==
    /\ mode.sendmmsg
    /\ SenderAt("batch", "record")
    /\ \E k \in 0..BatchSize :
          /\ Accept(k)
          /\ batch' = k
          /\ seq' = seq + BatchSize - (BatchSize - k)
    /\ UNCHANGED <<controlVars, tried, datagrams_sent, receiverVars>>

\* udp_send_loop: one datagram per call; an error ends the batch.
SendOne ==
    /\ ~mode.sendmmsg
    /\ spc = "batch" /\ tried < BatchSize
    /\ tried' = tried + 1
    /\ \/ /\ Accept(1)
          /\ seq' = seq + 1
          /\ batch' = batch + 1
          /\ spc' = IF tried' = BatchSize THEN "record" ELSE "batch"
       \/ /\ spc' = "record"
          /\ UNCHANGED <<seq, batch, wire, net>>
    /\ UNCHANGED <<controlVars, datagrams_sent, receiverVars>>

\* record_sent and record_datagrams_sent, once per batch.
RecordBatch ==
    /\ SenderAt("record", "pace")
    /\ datagrams_sent' = datagrams_sent + batch
    /\ batch' = 0 /\ tried' = 0
    /\ UNCHANGED <<controlVars, seq, netVars, receiverVars>>

\* pace_until: the next slot comes, or done or the deadline cuts the wait
\* (an unpaced sender goes straight on).
Pace ==
    /\ \/ SenderAt("pace", "top")
       \/ SenderAt("pace", "end") /\ (done \/ expired)
    /\ UNCHANGED <<controlVars, seq, batch, tried, datagrams_sent, netVars,
                   receiverVars>>

-----------------------------------------------------------------------------
(* The network delivers what is in flight at any time, in any order, never  *)
(* (that is its loss) and, when it duplicates, more than once.              *)

\* What stays in flight once the datagrams of S are delivered.
Delivered(S) ==
    \/ net' = net \ S
    \/ net' = net /\ mode.duplicates /\ stats.outoforder < MaxLate

\* What one recv can return: datagrams in any order, coalesced by GRO.
RecvBuffers ==
    {b \in UNION {[1..n -> net] : n \in 1..MaxGro} :
        \A i, j \in DOMAIN b : b[i] = b[j] => i = j}

-----------------------------------------------------------------------------
(* The receiving thread. *)

ReceiverAt(p, q) == rpc = p /\ rpc' = q

\* The loop head: done sends the receiver to the drain.
ReceiverTop ==
    /\ ReceiverAt("top", IF done THEN "drain" ELSE "recv")
    /\ UNCHANGED <<controlVars, senderVars, netVars, buf, statVars>>

\* recv returns; record_received counts its bytes before the lock is taken.
Recv ==
    /\ ReceiverAt("recv", "recorded")
    /\ \E b \in RecvBuffers :
          buf' = b /\ Delivered({b[i] : i \in DOMAIN b})
    /\ UNCHANGED <<controlVars, senderVars, wire, statVars>>

\* The 500 ms read timeout, or a reset-class error: look at done again.
RecvTimeout ==
    /\ ReceiverAt("recv", "top")
    /\ UNCHANGED <<controlVars, senderVars, netVars, buf, statVars>>

\* Any other error ends the receiver without a drain.
RecvFails ==
    /\ ReceiverAt("recv", "end")
    /\ UNCHANGED <<controlVars, senderVars, netVars, buf, statVars>>

\* walk_udp_headers: header after header, the lock held from first to last.
WalkHeader ==
    /\ rpc \in {"recorded", "walk"}
    /\ stats' = Update(stats, wire[Head(buf)])
    /\ received' = received \cup {Head(buf)}
    /\ buf' = Tail(buf)
    /\ rpc' = IF Len(buf) = 1 THEN "top" ELSE "walk"
    /\ UNCHANGED <<controlVars, senderVars, netVars, crossed>>

\* drain_udp_after_done: what arrives now is read and dropped, uncounted.
Drain ==
    /\ ReceiverAt("drain", "drain")
    /\ \E i \in net : Delivered({i})
    /\ UNCHANGED <<controlVars, senderVars, wire, buf, statVars>>

\* The socket stays quiet for 500 ms, fails, or the ten seconds are over.
DrainEnds ==
    /\ ReceiverAt("drain", "end")
    /\ UNCHANGED <<controlVars, senderVars, netVars, buf, statVars>>

-----------------------------------------------------------------------------
(* The omit boundary, crossed once by the receiving host's reporter. *)

\* Waits for the lock a walk holds.
ReceiverOmit ==
    /\ rpc # "walk"
    /\ ~crossed /\ crossed' = TRUE
    /\ stats' = SnapshotOmit(stats)
    /\ UNCHANGED <<controlVars, senderVars, netVars, rpc, buf, received>>

-----------------------------------------------------------------------------
SenderStep ==
    AwaitStart \/ SenderTop \/ Sendmmsg \/ SendOne \/ RecordBatch \/ Pace

ReceiverStep ==
    ReceiverTop \/ Recv \/ RecvTimeout \/ RecvFails \/ WalkHeader

Next ==
    \/ Start \/ Finish \/ Expire
    \/ SenderStep \/ ReceiverStep \/ Drain \/ DrainEnds
    \/ ReceiverOmit

\* The threads are OS threads and run on; every wait of theirs is bounded
\* (1 ms, 100 ms, 500 ms, 10 s).  Nothing is asked of the network, of the
\* control side or of the clock.
Spec == Init /\ [][Next]_vars
             /\ WF_vars(SenderStep) /\ WF_vars(ReceiverStep)
             /\ WF_vars(DrainEnds)

-----------------------------------------------------------------------------
TypeOK ==
    /\ mode \in Modes
    /\ start \in BOOLEAN /\ done \in BOOLEAN /\ expired \in BOOLEAN
    /\ spc \in {"await", "top", "batch", "record", "pace", "end"}
    /\ seq \in Nat /\ batch \in Nat /\ tried \in Nat
    /\ datagrams_sent \in Nat
    /\ wire \in Seq(0 .. SeqModulus - 1)
    /\ net \subseteq 1..Len(wire)
    /\ rpc \in {"top", "recv", "recorded", "walk", "drain", "end"}
    /\ buf \in Seq(1..Len(wire))
    /\ stats \in UdpRecvStats
    /\ crossed \in BOOLEAN
    /\ received \subseteq 1..Len(wire)

\* However the kernel splits, refuses or fails the batches, the datagrams on
\* the wire carry 1, 2, 3, ... without a gap or a repetition (modulo the
\* width of the header): a refused send is never seen as loss by the peer.
NumberingDense == \A i \in DOMAIN wire : wire[i] = WireSeq(i)

\* Whenever the sender is between batches, and so in the report taken after it
\* ended, datagrams_sent is the number of datagrams that really went out.
SentCountExact ==
    spc \notin {"batch", "record"} =>
        datagrams_sent = Len(wire)

\* The numbers have not gone round the header's width.
NoWrap == Len(wire) < SeqModulus

\* On a network that does not duplicate, cnt_error is exactly the number of
\* datagrams up to the highest one seen that have not arrived, in whatever
\* order the others came.
LossExact ==
    (NoWrap /\ ~mode.duplicates) =>
        stats.cnt_error = Cardinality((1..stats.packet_count) \ received)

\* Duplicates are taken for late arrivals and lower cnt_error: loss may be
\* understated, but it is never overstated and never negative.
LossNeverOverstated ==
    NoWrap => /\ stats.cnt_error >= 0
              /\ stats.cnt_error <=
                    Cardinality((1..stats.packet_count) \ received)

\* The reported loss never exceeds the reported packets, wherever the omit
\* boundary fell and even after the numbers have gone round: no report shows
\* more than 100 % loss.
NetLossWithinPackets == NetLost <= NetPackets

\* The reports of the two hosts fit together: once the sender has ended, what
\* the receiver counted as arrived and as lost is never more than the sender
\* says it sent.
ReportsAgree ==
    (spc = "end" /\ NoWrap) =>
        Cardinality(received) + stats.cnt_error <= datagrams_sent

\* Raising done ends both threads, even when the sender was never started and
\* while duplicates keep arriving at the drain.
DoneEndsThreads == done ~> (spc = "end" /\ rpc = "end")

-----------------------------------------------------------------------------
(* The inductive strengthening the proofs use. *)

\* The number of the last header is the number of datagrams out, the batch
\* under way being the only ones datagrams_sent does not count yet.
SenderInv ==
    /\ seq = Len(wire)
    /\ datagrams_sent + batch = Len(wire)
    /\ spc \notin {"batch", "record"} => batch = 0
    /\ (mode.sendmmsg /\ spc = "batch") => batch = 0

\* The receiver walks a buffer that still holds a header.
BufferInv == rpc \in {"recorded", "walk"} => buf # <<>>

\* Without duplication a datagram is in flight, in the buffer (once) or
\* counted, and never two of these.
OnceInv ==
    ~mode.duplicates =>
        /\ net \cap received = {}
        /\ \A i \in DOMAIN buf : buf[i] \notin net \cup received
        /\ \A i, j \in DOMAIN buf : buf[i] = buf[j] => i = j

\* Every counted datagram is at most the highest number seen, and the loss is
\* (or, with duplicates, is at most) what the count of arrivals leaves.
StatsInv ==
    NoWrap =>
        /\ stats.packet_count \in 0..Len(wire)
        /\ received \subseteq 1..stats.packet_count
        /\ stats.cnt_error >= 0
        /\ stats.cnt_error + Cardinality(received) <= stats.packet_count
        /\ ~mode.duplicates =>
              stats.cnt_error + Cardinality(received) = stats.packet_count

Inv == /\ TypeOK /\ SenderInv /\ NumberingDense /\ BufferInv /\ OnceInv
       /\ StatsInv /\ NetLossWithinPackets
=============================================================================
