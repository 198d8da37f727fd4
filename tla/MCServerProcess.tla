-------------------------- MODULE MCServerProcess --------------------------
(* Two servers started with one port and one pidfile, both restarted when  *)
(* idle; the second is a one-off.                                          *)
EXTENDS ServerProcess

CONSTANTS p1, p2

MCProcs == {p1, p2}
MCOneOffs == {p2}
MCIdleTimeouts == {p1, p2}
============================================================================
