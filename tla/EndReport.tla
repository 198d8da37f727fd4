----------------------------- MODULE EndReport -----------------------------
(***************************************************************************)
(* The end block of a report (json_report.rs, ReportInput::build): how the *)
(* figures a host measured and those its peer sent it become one entry per *)
(* stream and the sums of each direction.  Everything here is a function   *)
(* of the ReportInput; module Results says where its figures come from.    *)
(*                                                                         *)
(* Bytes are counted in blocks of blksize, so bytes / blksize is the byte  *)
(* count itself.  Rates, times, jitter, CPU and TCP_INFO extremes, which   *)
(* are carried and divided but never decide anything, are left out.  An    *)
(* Option<T> is a set with at most one member.                             *)
(***************************************************************************)
EXTENDS Integers, FiniteSets, Functions

None == {}
Some(x) == {x}
IsSome(o) == o # None
Then(cond, x) == IF cond THEN {x} ELSE {}
UnwrapOr(o, d) == IF IsSome(o) THEN CHOOSE x \in o : TRUE ELSE d

\* StreamReport: one stream as its host sees it.
StreamReports ==
    [is_sender : BOOLEAN, local_bytes : Nat, datagrams_sent : SUBSET Nat,
     remote_bytes : SUBSET Nat, remote_packets : SUBSET Int,
     retransmits : SUBSET Int,
     udp : SUBSET [lost : Int, packets : Int]]

\* Sums over the streams of one direction (want) or of both.
Dir(in, want) == {i \in DOMAIN in.streams : in.streams[i].is_sender = want}
SumOf(in, S, f(_)) == SumFunction([i \in S |-> f(in.streams[i])])

LocalBytes(in, want) == SumOf(in, Dir(in, want), LAMBDA s : s.local_bytes)

\* peer_dir_bytes: absent when no stream of the direction has a peer figure.
PeerBytes(in, want) ==
    LET S == {i \in Dir(in, want) : IsSome(in.streams[i].remote_bytes)}
    IN  Then(S # {}, SumOf(in, S, LAMBDA s : UnwrapOr(s.remote_bytes, 0)))

NoStats == [lost |-> 0, packets |-> 0]
UdpLost(in, S)    == SumOf(in, S, LAMBDA s : UnwrapOr(s.udp, NoStats).lost)
UdpPackets(in, S) == SumOf(in, S, LAMBDA s : UnwrapOr(s.udp, NoStats).packets)

\* sent_datagrams, local_sent_packets: the counter, or bytes / blksize.
SentDatagrams(s) == UnwrapOr(s.datagrams_sent, s.local_bytes)
LocalSentPackets(in) == SumOf(in, Dir(in, TRUE), SentDatagrams)

\* exchanged_sent_packets: all streams of the direction reported one, or none.
ExchangedSentPackets(in, want) ==
    LET count(s) == {p \in s.remote_packets : p > 0}
        S == Dir(in, want)
    IN  Then(S # {} /\ \A i \in S : IsSome(count(in.streams[i])),
             SumOf(in, S, LAMBDA s : UnwrapOr(count(s), 0)))

-----------------------------------------------------------------------------
(* Retransmits: who may show them, and their total. *)

\* effective_sender_flag: the capability of whoever sends in the direction.
EffectiveSenderFlag(in, local_sends) ==
    IF local_sends THEN in.local_has_retransmit_info
    ELSE \E f \in in.peer_sender_has_retransmits : f # 0

\* retransmits_for: -1 ("unavailable") is collapsed, never added up.
RetransmitsFor(in, S) ==
    LET V == {i \in S : IsSome(in.streams[i].retransmits)}
        r(s) == UnwrapOr(s.retransmits, 0)
    IN  IF V = {} THEN None
        ELSE IF \A i \in V : r(in.streams[i]) < 0 THEN Some(-1)
        ELSE Some(SumOf(in, V, LAMBDA s : IF r(s) < 0 THEN 0 ELSE r(s)))

\* stream_less_sender_retransmits: a TCP sender without a stream yet shows 0.
StreamLess(in) ==
    Then(/\ DOMAIN in.streams = {} /\ ~in.udp /\ ~in.reverse
         /\ ~in.is_server /\ in.local_has_retransmit_info, 0)

-----------------------------------------------------------------------------
(* SumSide: the aggregates of one direction. *)

TcpSum(bytes, sender, retransmits) ==
    [bytes |-> bytes, sender |-> sender, retransmits |-> retransmits,
     lost |-> None, packets |-> None, percent_of |-> None]

UdpSum(bytes, sender, packets, lost, percent_of) ==
    [bytes |-> bytes, sender |-> sender, retransmits |-> None,
     lost |-> Some(lost), packets |-> Some(packets),
     percent_of |-> Some(percent_of)]

ZeroUdpSum(sender) == UdpSum(0, sender, 0, 0, 0)

Gated(o, flag) == IF flag THEN o ELSE None

Sums(sent, received) ==
    [sum_sent |-> sent, sum_received |-> received, sum |-> None,
     sum_bidir_reverse |-> None, sum_sent_bidir_reverse |-> None,
     sum_received_bidir_reverse |-> None]

\* The server fills in what it measured and zero for the other half: it
\* prints before the exchange and never learns the client's figures.
ServerSums(in) ==
    LET all  == DOMAIN in.streams
        rx   == Dir(in, FALSE)
        sent == LocalBytes(in, TRUE)
        recv == LocalBytes(in, FALSE)
        pkts == LocalSentPackets(in)
        mine(S) == UdpSum(recv, FALSE, UdpPackets(in, S), UdpLost(in, S),
                          UdpPackets(in, S))
    IN
    IF in.bidir /\ in.udp THEN
        [Sums(ZeroUdpSum(TRUE), mine(rx)) EXCEPT
            !.sum = Some([mine(rx) EXCEPT !.bytes = 0]),
            !.sum_bidir_reverse = Some(UdpSum(sent, TRUE, pkts, 0, pkts)),
            !.sum_sent_bidir_reverse = Some(UdpSum(sent, TRUE, pkts, 0, pkts)),
            !.sum_received_bidir_reverse = Some(ZeroUdpSum(FALSE))]
    ELSE IF in.bidir THEN
        [Sums(TcpSum(0, FALSE, None), TcpSum(recv, FALSE, None)) EXCEPT
            !.sum_sent_bidir_reverse =
                Some(TcpSum(sent, TRUE,
                            Gated(RetransmitsFor(in, Dir(in, TRUE)),
                                  EffectiveSenderFlag(in, TRUE)))),
            !.sum_received_bidir_reverse = Some(TcpSum(0, TRUE, None))]
    ELSE IF in.udp THEN
        LET of   == IF in.reverse THEN pkts ELSE UdpPackets(in, all)
            lost == IF in.reverse THEN 0 ELSE UdpLost(in, all)
        IN  [Sums(UdpSum(sent, TRUE, pkts, 0, pkts),
                  [mine(all) EXCEPT !.percent_of = Some(of)]) EXCEPT
                !.sum = Some(UdpSum(sent, in.reverse, of, lost, of))]
    ELSE
        Sums(TcpSum(sent, in.reverse,
                    Gated(RetransmitsFor(in, all),
                          EffectiveSenderFlag(in, TRUE))),
             TcpSum(recv, in.reverse, None))

\* Fault: the missing half is filled in on a terminated run too.
GraftAlways(in, peer, own) == UnwrapOr(peer, own)

\* The half the peer measured: its figure when it came, even when it is 0;
\* this host's own on a run that ended well without one; 0 on one that did not.
Graft(in, peer, own) ==
    UnwrapOr(peer, IF IsSome(in.error) THEN 0 ELSE own)

Positive(n, fallback) == IF n > 0 THEN n ELSE fallback

\* Bidirectional client, UDP: forward in sum_sent and sum_received, reverse
\* in the *_bidir_reverse sums; the packets of a direction are the sender's
\* count or, when that is 0, the receiver's.
ClientUdpBidirSums(in) ==
    LET tx == Dir(in, TRUE)
        rx == Dir(in, FALSE)
        fwd_sent == LocalBytes(in, TRUE)
        rev_recv == LocalBytes(in, FALSE)
        fwd_recv == Graft(in, PeerBytes(in, TRUE), fwd_sent)
        rev_sent == Graft(in, PeerBytes(in, FALSE), rev_recv)
        fwd_pkts == LocalSentPackets(in)
        rev_pkts == UnwrapOr(ExchangedSentPackets(in, FALSE), rev_sent)
        fwd_of == Positive(fwd_pkts, UdpPackets(in, tx))
        rev_of == Positive(rev_pkts, UdpPackets(in, rx))
    IN  [Sums(UdpSum(fwd_sent, TRUE, fwd_pkts, 0, fwd_pkts),
              UdpSum(fwd_recv, FALSE, UdpPackets(in, tx), UdpLost(in, tx),
                     fwd_of)) EXCEPT
            !.sum = Some(UdpSum(fwd_sent, TRUE, fwd_of, UdpLost(in, tx),
                                fwd_of)),
            !.sum_bidir_reverse =
                Some(UdpSum(rev_sent, FALSE, rev_of, UdpLost(in, rx), rev_of)),
            !.sum_sent_bidir_reverse =
                Some(UdpSum(rev_sent, TRUE, rev_pkts, 0, rev_pkts)),
            !.sum_received_bidir_reverse =
                Some(UdpSum(rev_recv, FALSE, UdpPackets(in, rx),
                            UdpLost(in, rx), rev_of))]

\* Bidirectional client, TCP: the reverse sent sum carries the peer's
\* retransmits, the forward one only this host's.
ClientTcpBidirSums(in) ==
    LET fwd_sent == LocalBytes(in, TRUE)
        rev_recv == LocalBytes(in, FALSE)
        fwd_retr == RetransmitsFor(in, Dir(in, TRUE))
    IN  [Sums(TcpSum(fwd_sent, TRUE,
                     Gated(IF IsSome(fwd_retr) THEN fwd_retr
                           ELSE StreamLess(in), EffectiveSenderFlag(in, TRUE))),
              TcpSum(Graft(in, PeerBytes(in, TRUE), fwd_sent), TRUE, None))
         EXCEPT
            !.sum_sent_bidir_reverse =
                Some(TcpSum(Graft(in, PeerBytes(in, FALSE), rev_recv), FALSE,
                            Gated(RetransmitsFor(in, Dir(in, FALSE)),
                                  EffectiveSenderFlag(in, FALSE)))),
            !.sum_received_bidir_reverse = Some(TcpSum(rev_recv, FALSE, None))]

\* One direction, UDP: own bytes when there are any, else the peer's.
ClientUdpSums(in) ==
    LET all == DOMAIN in.streams
        fwd == ~in.reverse
        own_sent == LocalBytes(in, TRUE)
        sent == Positive(own_sent, UnwrapOr(PeerBytes(in, FALSE), 0))
        recv == Positive(LocalBytes(in, FALSE),
                         UnwrapOr(PeerBytes(in, TRUE), 0))
        pkts == IF fwd /\ own_sent > 0 THEN LocalSentPackets(in)
                ELSE UnwrapOr(Gated(ExchangedSentPackets(in, FALSE), ~fwd), sent)
        of   == Positive(pkts, UdpPackets(in, all))
    IN  [Sums(UdpSum(sent, TRUE, pkts, 0, pkts),
              UdpSum(recv, FALSE, UdpPackets(in, all), UdpLost(in, all), of))
         EXCEPT !.sum = Some(UdpSum(sent, fwd, of, UdpLost(in, all), of))]

\* Fault: a peer that reports 0 is taken for one that reported nothing.
OwnOrPeerPositive(in, own, peer, other) ==
    IF own # 0 THEN own
    ELSE Graft(in, {p \in peer : p > 0}, other)

\* An own figure of 0 gives way to the peer's, if it sent one.
OwnOrPeer(in, own, peer, other) ==
    IF own # 0 THEN own ELSE Graft(in, peer, other)

\* One direction, TCP: both sums carry the sender flag of the test.
ClientTcpSums(in) ==
    LET fwd == ~in.reverse
        own_sent == LocalBytes(in, TRUE)
        own_recv == LocalBytes(in, FALSE)
        retr == RetransmitsFor(in, DOMAIN in.streams)
    IN  Sums(TcpSum(OwnOrPeer(in, own_sent, PeerBytes(in, FALSE), own_recv),
                    fwd, Gated(IF IsSome(retr) THEN retr ELSE StreamLess(in),
                               EffectiveSenderFlag(in, fwd))),
             TcpSum(OwnOrPeer(in, own_recv, PeerBytes(in, TRUE), own_sent),
                    fwd, None))

BuildSums(in) ==
    CASE in.is_server            -> ServerSums(in)
      [] ~in.is_server /\  in.bidir /\  in.udp -> ClientUdpBidirSums(in)
      [] ~in.is_server /\  in.bidir /\ ~in.udp -> ClientTcpBidirSums(in)
      [] ~in.is_server /\ ~in.bidir /\  in.udp -> ClientUdpSums(in)
      [] ~in.is_server /\ ~in.bidir /\ ~in.udp -> ClientTcpSums(in)

-----------------------------------------------------------------------------
(* One stream's entry. *)

\* end_stream, UDP: `bytes` is what the sender sent, `packets` the sender's
\* count or the measured one; the percentage only ever has a sender's count
\* under it.
UdpEndStream(in, s) ==
    LET measured == UnwrapOr(s.udp, NoStats)
        entry(bytes, packets, sender_count) ==
            [bytes |-> bytes, packets |-> packets, lost |-> measured.lost,
             percent_of |-> IF sender_count THEN packets ELSE 0,
             sender |-> s.is_sender]
        peer_bytes == UnwrapOr(s.remote_bytes, s.local_bytes)
        peer_sent  == {p \in s.remote_packets : p > 0}
    IN  IF s.is_sender
        THEN entry(s.local_bytes, SentDatagrams(s), TRUE)
        ELSE IF in.is_server \/ IsSome(in.error)
        THEN entry(0, measured.packets, FALSE)
        ELSE IF IsSome(peer_sent)
        THEN entry(peer_bytes, UnwrapOr(peer_sent, 0), TRUE)
        ELSE IF peer_bytes > 0
        THEN entry(peer_bytes, peer_bytes, TRUE)
        ELSE entry(peer_bytes, measured.packets, FALSE)

\* end_stream, TCP: a sender half and a receiver half; the half the server
\* did not measure is 0, the client's is grafted.
TcpEndStream(in, s) ==
    LET remote == IF in.is_server THEN 0
                  ELSE Graft(in, s.remote_bytes, s.local_bytes)
        extras == /\ ~(in.is_server /\ ~s.is_sender)
                  /\ EffectiveSenderFlag(in, s.is_sender)
    IN  [sender   |-> IF s.is_sender THEN s.local_bytes ELSE remote,
         receiver |-> IF s.is_sender THEN remote ELSE s.local_bytes,
         retransmits |-> Gated(s.retransmits, extras),
         dir |-> s.is_sender]

\* sender_tcp_congestion, receiver_tcp_congestion: whose algorithm each names;
\* the sides of a client swap on a test where it receives.
Congestion(in) ==
    LET local == Some(IF in.is_server THEN "server" ELSE "client")
        remote == IF in.is_server THEN None ELSE in.peer_congestion
    IN  CASE in.udp -> [sender |-> None, receiver |-> None]
          [] ~in.udp /\ (in.reverse \/ in.bidir)
               -> [sender |-> IF in.is_server THEN local ELSE remote,
                   receiver |-> IF in.is_server THEN None ELSE local]
          [] ~in.udp /\ ~(in.reverse \/ in.bidir)
               -> [sender |-> IF in.is_server THEN None ELSE local,
                   receiver |-> IF in.is_server THEN local ELSE remote]

\* ReportInput::build: the document.  A bare end shows nothing at all.
Build(in) ==
    [bare |-> in.bare_end, error |-> in.error, input |-> in,
     streams |-> [i \in DOMAIN in.streams |->
                    IF in.udp THEN UdpEndStream(in, in.streams[i])
                    ELSE TcpEndStream(in, in.streams[i])],
     sums |-> Then(~in.bare_end, BuildSums(in)),
     congestion |-> Congestion(in),
     server_output |-> in.server_output]
=============================================================================
