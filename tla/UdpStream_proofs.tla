-------------------------- MODULE UdpStream_proofs --------------------------
(***************************************************************************)
(* Proofs about UdpStream: for every batch size, coalescing limit, header  *)
(* width and number of datagrams.                                          *)
(***************************************************************************)
EXTENDS UdpStream, FiniteSetTheorems, SequenceTheorems, TLAPS

\* A header number fits the header (UdpHeader::write_to).
LEMMA WireSeqType ==
    ASSUME NEW n \in Nat
    PROVE  /\ WireSeq(n) \in 0 .. SeqModulus - 1
           /\ n < SeqModulus => WireSeq(n) = n
BY ConstantsAssumption DEF WireSeq

\* A buffer of datagrams is still one when more datagrams have been sent.
LEMMA SeqWidens ==
    ASSUME NEW S, NEW T, S \subseteq T, NEW s \in Seq(S)
    PROVE  s \in Seq(T)
<1>1. s \in [1..Len(s) -> T] /\ Len(s) \in Nat
  BY ElementOfSeq
<1> QED
  BY <1>1

\* What the kernel accepts extends the wire by the next numbers, whatever part
\* of a batch it takes.
LEMMA AcceptExtends ==
    ASSUME Inv, NEW k \in Nat, Accept(k)
    PROVE  /\ wire' \in Seq(0 .. SeqModulus - 1)
           /\ Len(wire') = Len(wire) + k
           /\ \A i \in 1..Len(wire) : wire'[i] = wire[i]
           /\ NumberingDense'
           /\ net' = net \cup (Len(wire) + 1 .. Len(wire) + k)
<1> DEFINE new == [i \in 1..k |-> WireSeq(seq + i)]
<1>1. new \in Seq(0 .. SeqModulus - 1) /\ Len(new) = k
  <2>1. \A i \in 1..k : WireSeq(seq + i) \in 0 .. SeqModulus - 1
    <3>1. \A i \in 1..k : seq + i \in Nat
      BY DEF Inv, TypeOK
    <3> QED
      BY <3>1, WireSeqType
  <2>2. new \in [1..k -> 0 .. SeqModulus - 1]
    BY <2>1
  <2> QED
    BY <2>2
<1>2. wire \in Seq(0 .. SeqModulus - 1)
  BY DEF Inv, TypeOK
<1>3. wire' = wire \o new
  BY DEF Accept
<1>4. /\ wire' \in Seq(0 .. SeqModulus - 1)
      /\ Len(wire') = Len(wire) + k
      /\ \A i \in 1..Len(wire') :
            wire'[i] = IF i <= Len(wire) THEN wire[i] ELSE new[i - Len(wire)]
  <2> HIDE DEF new
  <2> QED
    BY <1>1, <1>2, <1>3, ConcatProperties
<1>5. \A i \in 1..Len(wire') : wire'[i] = WireSeq(i)
  <2> SUFFICES ASSUME NEW i \in 1..Len(wire')
               PROVE  wire'[i] = WireSeq(i)
    OBVIOUS
  <2>1. CASE i <= Len(wire)
    <3>1. wire[i] = WireSeq(i)
      BY <2>1, <1>2 DEF Inv, NumberingDense
    <3> QED
      BY <3>1, <2>1, <1>4
  <2>2. CASE ~(i <= Len(wire))
    <3>1. i - Len(wire) \in 1..k /\ seq + (i - Len(wire)) = i
      BY <2>2, <1>2, <1>4 DEF Inv, SenderInv
    <3>2. new[i - Len(wire)] = WireSeq(i)
      BY <3>1
    <3> QED
      BY <3>2, <2>2, <1>4
  <2> QED
    BY <2>1, <2>2
<1>6. DOMAIN wire' = 1..Len(wire')
  BY <1>4
<1> QED
  BY <1>2, <1>4, <1>5, <1>6 DEF Accept, NumberingDense

\* Sending disturbs no invariant of the receiver: the new datagrams are in
\* nobody's hands yet, and a wire that has not gone round had not before.
LEMMA AcceptKeepsReceiver ==
    ASSUME Inv, NEW k \in Nat, Accept(k), UNCHANGED <<mode, receiverVars>>
    PROVE  /\ net' \subseteq 1..Len(wire')
           /\ buf' \in Seq(1..Len(wire'))
           /\ received' \subseteq 1..Len(wire')
           /\ stats' \in UdpRecvStats
           /\ BufferInv' /\ OnceInv' /\ StatsInv' /\ NetLossWithinPackets'
<1>1. /\ Len(wire') = Len(wire) + k /\ Len(wire) \in Nat
      /\ net' = net \cup (Len(wire) + 1 .. Len(wire) + k)
  BY AcceptExtends DEF Inv, TypeOK
<1>2. /\ buf' = buf /\ received' = received /\ stats' = stats
      /\ rpc' = rpc /\ mode' = mode
  BY DEF receiverVars, statVars
<1>3. /\ net \subseteq 1..Len(wire) /\ received \subseteq 1..Len(wire)
      /\ buf \in Seq(1..Len(wire)) /\ stats \in UdpRecvStats
  BY DEF Inv, TypeOK
<1>4. \A i \in DOMAIN buf : buf[i] \in 1..Len(wire)
  BY <1>3
<1>5. buf' \in Seq(1..Len(wire'))
  <2>1. 1..Len(wire) \subseteq 1..Len(wire')
    BY <1>1
  <2> QED
    BY <2>1, <1>2, <1>3, SeqWidens
<1>6. OnceInv'
  <2> SUFFICES ASSUME ~mode.duplicates
               PROVE  /\ net' \cap received = {}
                      /\ \A i \in DOMAIN buf : buf[i] \notin net' \cup received
                      /\ \A i, j \in DOMAIN buf : buf[i] = buf[j] => i = j
    BY <1>2 DEF OnceInv
  <2>1. /\ net \cap received = {}
        /\ \A i \in DOMAIN buf : buf[i] \notin net \cup received
        /\ \A i, j \in DOMAIN buf : buf[i] = buf[j] => i = j
    BY DEF Inv, OnceInv
  <2>2. \A d \in Len(wire) + 1 .. Len(wire) + k : d \notin 1..Len(wire)
    BY <1>1
  <2>3. net' \cap received = {}
    BY <2>1, <2>2, <1>1, <1>3
  <2>4. \A i \in DOMAIN buf : buf[i] \notin net' \cup received
    BY <2>1, <2>2, <1>1, <1>4
  <2> QED
    BY <2>1, <2>3, <2>4
<1>7. StatsInv'
  <2> SUFFICES ASSUME NoWrap'
               PROVE  StatsInv'
    BY DEF StatsInv
  <2>1. NoWrap
    BY <1>1, ConstantsAssumption DEF NoWrap
  <2>2. 0..Len(wire) \subseteq 0..Len(wire')
    BY <1>1
  <2> QED
    BY <1>2, <2>1, <2>2 DEF Inv, StatsInv
<1>8. BufferInv' /\ NetLossWithinPackets'
  BY <1>2 DEF Inv, BufferInv, NetLossWithinPackets, NetLost, NetPackets
<1>9. net' \subseteq 1..Len(wire') /\ received' \subseteq 1..Len(wire')
  <2>1. /\ 1..Len(wire) \subseteq 1..Len(wire')
        /\ Len(wire) + 1 .. Len(wire) + k \subseteq 1..Len(wire')
    BY <1>1
  <2> QED
    BY <2>1, <1>1, <1>2, <1>3
<1> QED
  BY <1>2, <1>3, <1>5, <1>6, <1>7, <1>8, <1>9

\* Counting one datagram (UdpRecvStats::update) keeps the loss what it should
\* be.  The case that needs the strengthening is the late datagram: without
\* duplicates it was not counted before, so the arrivals do not fill
\* 1..packet_count and cnt_error is positive when it is lowered.
LEMMA UpdateKeepsStats ==
    ASSUME Inv, NEW d \in 1..Len(wire),
           stats' = Update(stats, wire[d]), received' = received \cup {d},
           wire' = wire, mode' = mode,
           ~mode.duplicates => d \notin received
    PROVE  stats' \in UdpRecvStats /\ StatsInv' /\ NetLossWithinPackets'
<1> DEFINE p == wire[d]
<1>1. p \in 0 .. SeqModulus - 1 /\ p \in Nat /\ Len(wire) \in Nat
  BY ConstantsAssumption DEF Inv, TypeOK
<1>2. stats \in UdpRecvStats
  BY DEF Inv, TypeOK
<1>3. stats' = IF p > stats.packet_count
               THEN [stats EXCEPT !.packet_count = p,
                        !.cnt_error = @ + (p - 1 - stats.packet_count)]
               ELSE [stats EXCEPT !.outoforder = @ + 1,
                        !.cnt_error = IF @ > 0 THEN @ - 1 ELSE @]
  BY DEF Update
<1>4. stats' \in UdpRecvStats
  <2> HIDE DEF p
  <2>1. CASE p > stats.packet_count
    <3>1. p \in Int /\ stats.cnt_error + (p - 1 - stats.packet_count) \in Int
      BY <1>1, <1>2 DEF UdpRecvStats
    <3> QED
      BY <2>1, <3>1, <1>2, <1>3 DEF UdpRecvStats
  <2>2. CASE ~(p > stats.packet_count)
    <3>1. /\ stats.outoforder + 1 \in Int
          /\ (IF stats.cnt_error > 0 THEN stats.cnt_error - 1
                                     ELSE stats.cnt_error) \in Int
      BY <1>2 DEF UdpRecvStats
    <3> QED
      BY <2>2, <3>1, <1>2, <1>3 DEF UdpRecvStats
  <2> QED
    BY <2>1, <2>2
<1>5. NetLossWithinPackets'
  BY <1>1, <1>2, <1>3
  DEF Inv, NetLossWithinPackets, NetLost, NetPackets, UdpRecvStats
<1>6. StatsInv'
  <2> SUFFICES ASSUME NoWrap'
               PROVE  StatsInv'
    BY DEF StatsInv
  <2>1. NoWrap
    BY DEF NoWrap
  <2>2. p = d
    <3>1. d \in DOMAIN wire /\ d \in Nat /\ d < SeqModulus
      BY <2>1, <1>1, ConstantsAssumption DEF NoWrap, Inv, TypeOK
    <3> QED
      BY <3>1, WireSeqType DEF Inv, NumberingDense
  <2>3. /\ stats.packet_count \in 0..Len(wire)
        /\ received \subseteq 1..stats.packet_count
        /\ stats.cnt_error >= 0
        /\ stats.cnt_error + Cardinality(received) <= stats.packet_count
        /\ ~mode.duplicates =>
              stats.cnt_error + Cardinality(received) = stats.packet_count
    BY <2>1 DEF Inv, StatsInv
  <2>4. /\ IsFiniteSet(1..stats.packet_count)
        /\ Cardinality(1..stats.packet_count) = stats.packet_count
    <3>1. stats.packet_count \in Nat /\ stats.packet_count \in Int /\ 1 \in Int
      BY <2>3, <1>1
    <3>2. /\ IsFiniteSet(1..stats.packet_count)
          /\ Cardinality(1..stats.packet_count) =
                IF 1 > stats.packet_count THEN 0 ELSE stats.packet_count - 1 + 1
      BY <3>1, FS_Interval
    <3> QED
      BY <3>1, <3>2
  <2>5. IsFiniteSet(received) /\ Cardinality(received) \in Nat
    BY <2>3, <2>4, FS_Subset, FS_CardinalityType
  <2>6. Cardinality(received \cup {d}) =
            IF d \in received THEN Cardinality(received)
                              ELSE Cardinality(received) + 1
    BY <2>5, FS_AddElement
  <2>7. CASE d > stats.packet_count
    <3>1. d \notin received
      BY <2>3, <2>7
    <3>2. /\ stats'.packet_count = d
          /\ stats'.cnt_error = stats.cnt_error + (d - 1 - stats.packet_count)
      BY <1>2, <1>3, <2>2, <2>7 DEF UdpRecvStats
    <3>3. received' \subseteq 1..d
      BY <2>3, <2>7
    <3>4. Cardinality(received') = Cardinality(received) + 1
      BY <3>1, <2>6
    <3>5. /\ stats'.cnt_error >= 0 /\ d \in 0..Len(wire)
          /\ stats'.cnt_error + Cardinality(received') <= d
          /\ ~mode.duplicates =>
                stats'.cnt_error + Cardinality(received') = d
      <4>1. /\ d \in Nat /\ d <= Len(wire) /\ stats.cnt_error \in Int
            /\ stats.packet_count \in Int
        BY <1>1, <1>2 DEF UdpRecvStats
      <4> QED
        BY <4>1, <1>1, <2>3, <2>5, <2>7, <3>2, <3>4
    <3> QED
      BY <3>2, <3>3, <3>5 DEF StatsInv
  <2>8. CASE ~(d > stats.packet_count)
    <3>1. /\ stats'.packet_count = stats.packet_count
          /\ stats'.cnt_error = IF stats.cnt_error > 0
                                THEN stats.cnt_error - 1 ELSE stats.cnt_error
      BY <1>2, <1>3, <2>2, <2>8 DEF UdpRecvStats
    <3>2. received' \subseteq 1..stats.packet_count
      BY <2>3, <2>8
    <3>3. Cardinality(received') <= stats.packet_count
      BY <3>2, <2>4, FS_Subset
    <3>4. stats'.cnt_error >= 0
      BY <1>2, <2>3, <3>1 DEF UdpRecvStats
    <3>5. stats'.cnt_error + Cardinality(received') <= stats.packet_count
      BY <1>2, <2>3, <2>5, <2>6, <3>1, <3>3 DEF UdpRecvStats
    <3>6. ASSUME ~mode.duplicates
          PROVE  stats'.cnt_error + Cardinality(received')
                    = stats.packet_count
      <4>1. Cardinality(received') = Cardinality(received) + 1
        BY <3>6, <2>6
      <4>2. stats.cnt_error + Cardinality(received) = stats.packet_count
        BY <3>6, <2>3
      <4>3. stats.cnt_error > 0
        BY <4>1, <4>2, <3>3, <2>3, <2>5, <1>2 DEF UdpRecvStats
      <4> QED
        BY <4>1, <4>2, <4>3, <3>1, <2>5, <1>2 DEF UdpRecvStats
    <3> QED
      BY <2>3, <3>1, <3>2, <3>4, <3>5, <3>6 DEF StatsInv
  <2> QED
    BY <2>7, <2>8, <1>1, <1>2, <2>3 DEF UdpRecvStats
<1> QED
  BY <1>4, <1>5, <1>6

\* The initial states satisfy the invariant.
LEMMA InitInv == Init => Inv
<1> SUFFICES ASSUME Init PROVE Inv
  OBVIOUS
<1> USE DEF Init
<1>1. TypeOK
  <2>1. NewStats \in UdpRecvStats
    BY DEF NewStats, UdpRecvStats
  <2>2. wire \in Seq(0 .. SeqModulus - 1) /\ buf \in Seq(1..Len(wire))
    OBVIOUS
  <2> QED
    BY <2>1, <2>2 DEF TypeOK
<1>2. SenderInv /\ NumberingDense /\ BufferInv /\ OnceInv
  BY DEF SenderInv, NumberingDense, BufferInv, OnceInv
<1>3. StatsInv
  BY FS_EmptySet DEF StatsInv, NewStats
<1>4. NetLossWithinPackets
  BY DEF NetLossWithinPackets, NetLost, NetPackets, NewStats
<1> QED
  BY <1>1, <1>2, <1>3, <1>4 DEF Inv

\* Every step of the sender, the network, the receiver and the reporter keeps
\* the invariant.
LEMMA StepInv == Inv /\ [Next]_vars => Inv'
<1> SUFFICES ASSUME Inv, [Next]_vars PROVE Inv'
  OBVIOUS
<1> USE DEF controlVars, senderVars, netVars, statVars, receiverVars
<1>0. /\ TypeOK /\ SenderInv /\ NumberingDense /\ BufferInv /\ OnceInv
      /\ StatsInv /\ NetLossWithinPackets
  BY DEF Inv
<1> DEFINE Rest == /\ NumberingDense /\ BufferInv /\ OnceInv /\ StatsInv
                   /\ NetLossWithinPackets
<1>1. ASSUME UNCHANGED <<mode, netVars, receiverVars>>
      PROVE  Rest'
  BY <1>0, <1>1 DEF NumberingDense, BufferInv, OnceInv, StatsInv, NoWrap,
     NetLossWithinPackets, NetLost, NetPackets
<1>2. CASE Start \/ Finish \/ Expire
  <2>1. UNCHANGED <<mode, senderVars, netVars, receiverVars>>
    BY <1>2 DEF Start, Finish, Expire
  <2>2. TypeOK'
    BY <1>0, <1>2, <2>1 DEF TypeOK, Start, Finish, Expire
  <2>3. SenderInv'
    BY <1>0, <2>1 DEF SenderInv
  <2> QED
    BY <1>1, <2>1, <2>2, <2>3 DEF Inv
<1>3. CASE AwaitStart \/ SenderTop \/ Pace
  <2>1. UNCHANGED <<controlVars, seq, batch, tried, datagrams_sent, netVars,
                    receiverVars>>
    BY <1>3 DEF AwaitStart, SenderTop, Pace
  <2>2. TypeOK'
    BY <1>0, <1>3, <2>1 DEF TypeOK, AwaitStart, SenderTop, Pace, SenderAt
  <2>3. SenderInv'
    BY <1>0, <1>3, <2>1 DEF SenderInv, AwaitStart, SenderTop, Pace, SenderAt
  <2> QED
    BY <1>1, <2>1, <2>2, <2>3 DEF Inv
<1>4. CASE RecordBatch
  <2>1. UNCHANGED <<controlVars, seq, netVars, receiverVars>>
    BY <1>4 DEF RecordBatch
  <2>2. TypeOK'
    BY <1>0, <1>4, <2>1 DEF TypeOK, RecordBatch, SenderAt
  <2>3. SenderInv'
    BY <1>0, <1>4, <2>1 DEF TypeOK, SenderInv, RecordBatch, SenderAt
  <2> QED
    BY <1>1, <2>1, <2>2, <2>3 DEF Inv
<1>5. ASSUME NEW k \in Nat, Accept(k), UNCHANGED <<controlVars, receiverVars>>,
             seq' = seq + k, batch' = batch + k, tried' \in Nat,
             datagrams_sent' = datagrams_sent,
             spc' \in {"batch", "record"}, mode.sendmmsg => spc' = "record"
      PROVE  Inv'
  <2>1. /\ wire' \in Seq(0 .. SeqModulus - 1) /\ Len(wire') = Len(wire) + k
        /\ NumberingDense' /\ Len(wire) \in Nat
    BY <1>5, AcceptExtends DEF Inv, TypeOK
  <2>2. /\ net' \subseteq 1..Len(wire')
        /\ buf' \in Seq(1..Len(wire'))
        /\ received' \subseteq 1..Len(wire')
        /\ stats' \in UdpRecvStats
        /\ BufferInv' /\ OnceInv' /\ StatsInv' /\ NetLossWithinPackets'
    BY <1>5, AcceptKeepsReceiver
  <2>3. TypeOK'
    BY <1>0, <1>5, <2>1, <2>2 DEF TypeOK
  <2>4. SenderInv'
    <3>1. seq' = Len(wire') /\ datagrams_sent' + batch' = Len(wire')
      <4>1. /\ seq = Len(wire) /\ datagrams_sent + batch = Len(wire)
            /\ batch \in Nat /\ datagrams_sent \in Nat
        BY <1>0 DEF TypeOK, SenderInv
      <4>2. /\ Len(wire') = Len(wire) + k /\ seq' = seq + k
            /\ batch' = batch + k /\ datagrams_sent' = datagrams_sent
            /\ Len(wire) \in Nat
        BY <1>5, <2>1
      <4> QED
        BY <4>1, <4>2
    <3>2. (mode'.sendmmsg /\ spc' = "batch") => batch' = 0
      BY <1>5
    <3> QED
      BY <1>5, <3>1, <3>2 DEF SenderInv
  <2> QED
    BY <2>1, <2>2, <2>3, <2>4 DEF Inv
<1>6. CASE Sendmmsg
  <2>1. PICK k \in 0..BatchSize : /\ Accept(k) /\ batch' = k
                                  /\ seq' = seq + BatchSize - (BatchSize - k)
    BY <1>6 DEF Sendmmsg
  <2>2. k \in Nat /\ seq' = seq + k
    BY <1>0, <2>1, ConstantsAssumption DEF TypeOK
  <2>3. batch = 0
    BY <1>0, <1>6 DEF SenderInv, Sendmmsg, SenderAt
  <2> QED
    BY <1>0, <1>5, <1>6, <2>1, <2>2, <2>3 DEF TypeOK, Sendmmsg, SenderAt
<1>7. CASE SendOne
  <2>1. CASE Accept(1) /\ seq' = seq + 1 /\ batch' = batch + 1
    BY <1>0, <1>5, <1>7, <2>1 DEF TypeOK, SendOne
  <2>2. CASE spc' = "record" /\ UNCHANGED <<seq, batch, wire, net>>
    <3>1. UNCHANGED <<controlVars, datagrams_sent, netVars, receiverVars>>
      BY <1>7, <2>2 DEF SendOne
    <3>2. TypeOK'
      BY <1>0, <1>7, <2>2, <3>1 DEF TypeOK, SendOne
    <3>3. SenderInv'
      BY <1>0, <1>7, <2>2, <3>1 DEF SenderInv, SendOne
    <3> QED
      BY <1>1, <3>1, <3>2, <3>3 DEF Inv
  <2> QED
    BY <1>7, <2>1, <2>2 DEF SendOne
<1>8. CASE ReceiverTop \/ RecvTimeout \/ RecvFails \/ DrainEnds
  <2>1. UNCHANGED <<controlVars, senderVars, netVars, buf, statVars>>
    BY <1>8 DEF ReceiverTop, RecvTimeout, RecvFails, DrainEnds
  <2>2. rpc' \in {"drain", "recv", "top", "end"}
    BY <1>8 DEF ReceiverTop, RecvTimeout, RecvFails, DrainEnds, ReceiverAt
  <2>3. TypeOK'
    BY <1>0, <2>1, <2>2 DEF TypeOK
  <2>4. SenderInv' /\ NumberingDense' /\ BufferInv'
    BY <1>0, <2>1, <2>2 DEF SenderInv, NumberingDense, BufferInv
  <2>5. OnceInv' /\ StatsInv' /\ NetLossWithinPackets'
    BY <1>0, <2>1
    DEF OnceInv, StatsInv, NoWrap, NetLossWithinPackets, NetLost, NetPackets
  <2> QED
    BY <2>3, <2>4, <2>5 DEF Inv
<1>9. ASSUME UNCHANGED <<controlVars, senderVars, wire, statVars>>
      PROVE  SenderInv' /\ NumberingDense' /\ StatsInv' /\ NetLossWithinPackets'
  BY <1>0, <1>9 DEF SenderInv, NumberingDense, StatsInv, NoWrap,
     NetLossWithinPackets, NetLost, NetPackets
<1>10. CASE Recv
  <2>1. UNCHANGED <<controlVars, senderVars, wire, statVars>>
    BY <1>10 DEF Recv
  <2>2. PICK b \in RecvBuffers : buf' = b /\ Delivered({b[i] : i \in DOMAIN b})
    BY <1>10 DEF Recv
  <2>3. PICK n \in 1..MaxGro : b \in [1..n -> net]
    BY <2>2 DEF RecvBuffers
  <2>4. \A i, j \in DOMAIN b : b[i] = b[j] => i = j
    BY <2>2 DEF RecvBuffers
  <2>5. n \in Nat /\ n >= 1 /\ DOMAIN b = 1..n
    BY <2>3, ConstantsAssumption
  <2>6. b \in Seq(net) /\ b # <<>>
    <3>1. Len(b) = n /\ b \in Seq(net)
      BY <2>3, <2>5
    <3> QED
      BY <3>1, <2>5
  <2>7. net' \subseteq net
    BY <2>2 DEF Delivered
  <2>8. TypeOK'
    <3>1. net \subseteq 1..Len(wire)
      BY <1>0 DEF TypeOK
    <3>2. buf' \in Seq(1..Len(wire))
      BY <3>1, <2>2, <2>6, SeqWidens
    <3> QED
      BY <1>0, <1>10, <2>1, <2>7, <3>1, <3>2 DEF TypeOK, Recv, ReceiverAt
  <2>9. BufferInv'
    BY <2>2, <2>6 DEF BufferInv
  <2>10. OnceInv'
    <3> SUFFICES ASSUME ~mode.duplicates
                 PROVE  /\ net' \cap received = {}
                        /\ \A i \in DOMAIN b : b[i] \notin net' \cup received
                        /\ \A i, j \in DOMAIN b : b[i] = b[j] => i = j
      BY <2>1, <2>2 DEF OnceInv
    <3>1. net' = net \ {b[i] : i \in DOMAIN b}
      BY <2>2 DEF Delivered
    <3>2. net \cap received = {}
      BY <1>0 DEF OnceInv
    <3>3. \A i \in DOMAIN b : b[i] \in net /\ b[i] \notin net'
      BY <2>3, <2>5, <3>1
    <3> QED
      BY <2>4, <2>7, <3>2, <3>3
  <2> QED
    BY <1>9, <2>1, <2>8, <2>9, <2>10 DEF Inv
<1>11. CASE Drain
  <2>1. /\ UNCHANGED <<controlVars, senderVars, wire, buf, statVars>>
        /\ rpc = "drain" /\ rpc' = "drain"
    BY <1>11 DEF Drain, ReceiverAt
  <2>2. net' \subseteq net
    BY <1>11 DEF Drain, Delivered
  <2>3. TypeOK' /\ BufferInv'
    BY <1>0, <2>1, <2>2 DEF TypeOK, BufferInv
  <2>4. OnceInv'
    BY <1>0, <2>1, <2>2 DEF OnceInv
  <2> QED
    BY <1>9, <2>1, <2>3, <2>4 DEF Inv
<1>12. CASE WalkHeader
  <2>1. /\ UNCHANGED <<controlVars, senderVars, netVars, crossed>>
        /\ stats' = Update(stats, wire[Head(buf)])
        /\ received' = received \cup {Head(buf)}
        /\ buf' = Tail(buf)
        /\ rpc' = IF Len(buf) = 1 THEN "top" ELSE "walk"
    BY <1>12 DEF WalkHeader
  <2>2. buf # <<>> /\ buf \in Seq(1..Len(wire))
    BY <1>0, <1>12 DEF BufferInv, WalkHeader, TypeOK
  <2>3. /\ Head(buf) \in 1..Len(wire) /\ Tail(buf) \in Seq(1..Len(wire))
        /\ Len(buf) \in Nat /\ Len(buf) >= 1 /\ Len(Tail(buf)) = Len(buf) - 1
        /\ Head(buf) = buf[1]
        /\ \A i \in 1..Len(Tail(buf)) : Tail(buf)[i] = buf[i + 1]
        /\ DOMAIN buf = 1..Len(buf)
        /\ DOMAIN Tail(buf) = 1..Len(Tail(buf))
    BY <2>2, HeadTailProperties, EmptySeq
  <2>4. ~mode.duplicates => Head(buf) \notin received
    BY <1>0, <2>3 DEF OnceInv
  <2>5. stats' \in UdpRecvStats /\ StatsInv' /\ NetLossWithinPackets'
    BY <2>1, <2>3, <2>4, UpdateKeepsStats
  <2>6. TypeOK'
    BY <1>0, <2>1, <2>3, <2>5 DEF TypeOK
  <2>7. SenderInv' /\ NumberingDense'
    BY <1>0, <2>1 DEF SenderInv, NumberingDense
  <2>8. BufferInv'
    <3>1. CASE Len(buf) = 1
      BY <3>1, <2>1 DEF BufferInv
    <3>2. CASE Len(buf) # 1
      <4>1. Len(Tail(buf)) # 0
        BY <3>2, <2>3
      <4>2. Tail(buf) # <<>>
        BY <4>1, <2>3, EmptySeq
      <4> QED
        BY <4>2, <2>1 DEF BufferInv
    <3> QED
      BY <3>1, <3>2
  <2>9. OnceInv'
    <3> DEFINE t == Tail(buf)
    <3> SUFFICES ASSUME ~mode.duplicates
                 PROVE  /\ net \cap (received \cup {buf[1]}) = {}
                        /\ \A i \in 1..Len(t) :
                              t[i] \notin net \cup (received \cup {buf[1]})
                        /\ \A i, j \in 1..Len(t) : t[i] = t[j] => i = j
      BY <2>1, <2>3 DEF OnceInv
    <3>1. /\ net \cap received = {}
          /\ \A i \in 1..Len(buf) : buf[i] \notin net \cup received
          /\ \A i, j \in 1..Len(buf) : buf[i] = buf[j] => i = j
      BY <1>0, <2>3 DEF OnceInv
    <3>2. 1 \in 1..Len(buf)
      BY <2>3
    <3>3. \A i \in 1..Len(t) : /\ i + 1 \in 1..Len(buf) /\ i + 1 # 1
                               /\ t[i] = buf[i + 1]
      BY <2>3
    <3> HIDE DEF t
    <3>4. net \cap (received \cup {buf[1]}) = {}
      BY <3>1, <3>2
    <3>5. \A i \in 1..Len(t) : t[i] \notin net \cup (received \cup {buf[1]})
      BY <3>1, <3>2, <3>3
    <3>6. \A i, j \in 1..Len(t) : t[i] = t[j] => i = j
      <4> SUFFICES ASSUME NEW i \in 1..Len(t), NEW j \in 1..Len(t), t[i] = t[j]
                   PROVE  i = j
        OBVIOUS
      <4>1. i + 1 = j + 1
        BY <3>1, <3>3
      <4> QED
        BY <4>1
    <3> QED
      BY <3>4, <3>5, <3>6
  <2> QED
    BY <2>5, <2>6, <2>7, <2>8, <2>9 DEF Inv
<1>13. CASE ReceiverOmit
  <2>1. /\ UNCHANGED <<controlVars, senderVars, netVars, rpc, buf, received>>
        /\ stats' = SnapshotOmit(stats) /\ crossed' = TRUE
    BY <1>13 DEF ReceiverOmit
  <2>2. stats \in UdpRecvStats
    BY <1>0 DEF TypeOK
  <2>3. /\ stats' \in UdpRecvStats
        /\ stats'.packet_count = stats.packet_count
        /\ stats'.cnt_error = stats.cnt_error
        /\ stats'.omitted_packet_count = stats.packet_count
        /\ stats'.omitted_cnt_error = stats.cnt_error
    BY <2>1, <2>2 DEF SnapshotOmit, UdpRecvStats
  <2>4. TypeOK'
    BY <1>0, <2>1, <2>3 DEF TypeOK
  <2>5. SenderInv' /\ NumberingDense' /\ BufferInv' /\ OnceInv'
    BY <1>0, <2>1 DEF SenderInv, NumberingDense, BufferInv, OnceInv
  <2>6. StatsInv'
    BY <1>0, <2>1, <2>3 DEF StatsInv, NoWrap
  <2>7. NetLossWithinPackets'
    BY <2>2, <2>3
    DEF NetLossWithinPackets, NetLost, NetPackets, UdpRecvStats
  <2> QED
    BY <2>4, <2>5, <2>6, <2>7 DEF Inv
<1>14. CASE UNCHANGED vars
  <2>1. TypeOK' /\ SenderInv'
    BY <1>0, <1>14 DEF vars, TypeOK, SenderInv
  <2> QED
    BY <1>1, <1>14, <2>1 DEF vars, Inv
<1> QED
  BY <1>2, <1>3, <1>4, <1>6, <1>7, <1>8, <1>10, <1>11, <1>12, <1>13, <1>14
  DEF Next, SenderStep, ReceiverStep

\* The invariant holds in every state of every behaviour.
LEMMA Invariance == Spec => []Inv
BY InitInv, StepInv, PTL DEF Spec

\* Every variable keeps its type.
THEOREM TypeCorrect == Spec => []TypeOK
BY Invariance, PTL DEF Inv

\* The wire carries 1, 2, 3, ... for every batch size, whatever the kernel
\* refuses: run_udp_sender_sendmmsg and udp_send_loop take back exactly the
\* numbers that did not go out.
THEOREM DenseNumbering == Spec => []NumberingDense
BY Invariance, PTL DEF Inv

\* Between batches and at the end the datagram counter is exact.
THEOREM ExactSentCount == Spec => []SentCountExact
<1>1. Inv => SentCountExact
  BY DEF Inv, SenderInv, SentCountExact, TypeOK
<1> QED
  BY <1>1, Invariance, PTL

\* The arrivals counted against the numbers up to the highest one seen.
LEMMA MissingCount ==
    ASSUME Inv, NoWrap
    PROVE  /\ Cardinality(received) \in Nat
           /\ Cardinality((1..stats.packet_count) \ received) =
                 stats.packet_count - Cardinality(received)
<1> DEFINE n == stats.packet_count
<1>1. n \in 0..Len(wire) /\ received \subseteq 1..n /\ Len(wire) \in Nat
  BY DEF Inv, StatsInv, TypeOK
<1>2. n \in Nat /\ n \in Int /\ 1 \in Int
  BY <1>1
<1> HIDE DEF n
<1>3. /\ IsFiniteSet(1..n)
      /\ Cardinality(1..n) = IF 1 > n THEN 0 ELSE n - 1 + 1
  BY <1>2, FS_Interval
<1>4. Cardinality(1..n) = n
  BY <1>2, <1>3
<1>5. Cardinality((1..n) \ received) =
         Cardinality(1..n) - Cardinality((1..n) \cap received)
  BY <1>3, FS_Difference
<1>6. (1..n) \cap received = received
  BY <1>1
<1>7. IsFiniteSet(received) /\ Cardinality(received) \in Nat
  BY <1>1, <1>3, FS_Subset, FS_CardinalityType
<1> QED
  BY <1>4, <1>5, <1>6, <1>7 DEF n

\* Without duplication the loss the receiver derives from the numbers alone is
\* the true one.
THEOREM ExactLoss == Spec => []LossExact
<1>1. Inv => LossExact
  <2> SUFFICES ASSUME Inv, NoWrap, ~mode.duplicates
               PROVE  stats.cnt_error =
                         Cardinality((1..stats.packet_count) \ received)
    BY DEF LossExact
  <2>1. stats.cnt_error + Cardinality(received) = stats.packet_count
    BY DEF Inv, StatsInv
  <2>2. stats.cnt_error \in Int /\ stats.packet_count \in Int
    BY DEF Inv, TypeOK, UdpRecvStats
  <2> QED
    BY <2>1, <2>2, MissingCount
<1> QED
  BY <1>1, Invariance, PTL

\* With duplication it is never more than the true one, and never negative.
THEOREM LossBounded == Spec => []LossNeverOverstated
<1>1. Inv => LossNeverOverstated
  <2> SUFFICES ASSUME Inv, NoWrap
               PROVE  /\ stats.cnt_error >= 0
                      /\ stats.cnt_error <=
                            Cardinality((1..stats.packet_count) \ received)
    BY DEF LossNeverOverstated
  <2>1. /\ stats.cnt_error >= 0
        /\ stats.cnt_error + Cardinality(received) <= stats.packet_count
    BY DEF Inv, StatsInv
  <2>2. stats.cnt_error \in Int /\ stats.packet_count \in Int
    BY DEF Inv, TypeOK, UdpRecvStats
  <2> QED
    BY <2>1, <2>2, MissingCount
<1> QED
  BY <1>1, Invariance, PTL

\* The reported loss is at most the reported packets, wherever the omit
\* boundary falls and however often the numbers have gone round.
THEOREM LossWithinPackets == Spec => []NetLossWithinPackets
BY Invariance, PTL DEF Inv

\* What the receiver reports as arrived and lost was sent, by the count the
\* sender reports.
THEOREM AgreeingReports == Spec => []ReportsAgree
<1>1. Inv => ReportsAgree
  <2> SUFFICES ASSUME Inv, NoWrap, spc = "end"
               PROVE  Cardinality(received) + stats.cnt_error <= datagrams_sent
    BY DEF ReportsAgree
  <2>1. /\ stats.cnt_error + Cardinality(received) <= stats.packet_count
        /\ stats.packet_count \in 0..Len(wire)
    BY DEF Inv, StatsInv
  <2>2. datagrams_sent = Len(wire) /\ Len(wire) \in Nat
    BY DEF Inv, SenderInv, TypeOK
  <2>3. stats.cnt_error \in Int /\ Cardinality(received) \in Nat
    BY MissingCount DEF Inv, TypeOK, UdpRecvStats
  <2> QED
    BY <2>1, <2>2, <2>3
<1> QED
  BY <1>1, Invariance, PTL
=============================================================================
