--------------------------- MODULE MCServerAnyPeer ---------------------------
EXTENDS ServerAnyPeer

\* The tests the runs use: a timed TCP upload,
\* a bidirectional UDP test, and one test per verdict of the negotiation.
Base == [udp |-> FALSE, reverse |-> FALSE, bidir |-> FALSE, parallel |-> 1,
         duration |-> 1, omit |-> 0, bounded |-> FALSE, bandwidth |-> 1,
         fqrate |-> 0, wellFormed |-> TRUE, authorized |-> TRUE]

Upload      == Base
Bidir       == [Base EXCEPT !.bidir = TRUE]
BidirUdp    == [Bidir EXCEPT !.udp = TRUE]
TooFast     == [Base EXCEPT !.bidir = TRUE, !.bandwidth = 2, !.omit = 3]
TooLong     == [Base EXCEPT !.duration = 3, !.omit = 3]
Malformed   == [Base EXCEPT !.wellFormed = FALSE]
Stranger    == [Base EXCEPT !.authorized = FALSE]

AnyPeerTests  == {Upload, BidirUdp, TooFast, TooLong, Malformed, Stranger}
UploadOnly    == {Upload}
==============================================================================
