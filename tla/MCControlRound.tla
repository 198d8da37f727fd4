--------------------------- MODULE MCControlRound ---------------------------
EXTENDS ControlRound

Base == [udp |-> FALSE, reverse |-> FALSE, bidir |-> FALSE, parallel |-> 1,
         duration |-> 1, omit |-> 0, bounded |-> FALSE, bandwidth |-> 1,
         fqrate |-> 0, wellFormed |-> TRUE, authorized |-> TRUE]

Upload     == Base
BidirUdp   == [Base EXCEPT !.udp = TRUE, !.bidir = TRUE]
Bytes      == [Base EXCEPT !.duration = 0, !.bounded = TRUE]
Unlimited  == [Base EXCEPT !.duration = 0, !.reverse = TRUE]
TooFast    == [Base EXCEPT !.bandwidth = 3, !.omit = 3]
Malformed  == [Base EXCEPT !.wellFormed = FALSE]
Stranger   == [Base EXCEPT !.authorized = FALSE]

RoundTests    == {Upload, BidirUdp, Bytes, Unlimited, TooFast, Malformed, Stranger}
TcpTests      == {Upload}
==============================================================================
