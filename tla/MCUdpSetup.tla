----------------------------- MODULE MCUdpSetup -----------------------------
\* The streams are told apart by their order, so no symmetry is used.
EXTENDS UdpSetup
=============================================================================
