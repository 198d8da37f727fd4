-------------------------- MODULE MCClientAnyServer --------------------------
EXTENDS ClientAnyServer

Base == [udp |-> FALSE, reverse |-> FALSE, bidir |-> FALSE, parallel |-> 1,
         duration |-> 1, omit |-> 0, bounded |-> FALSE, bandwidth |-> 1,
         fqrate |-> 0, wellFormed |-> TRUE, authorized |-> TRUE]

Bidir      == [Base EXCEPT !.bidir = TRUE]
UdpForever == [Base EXCEPT !.udp = TRUE, !.duration = 0]

AnyServerTests == {Bidir, UdpForever}
==============================================================================
