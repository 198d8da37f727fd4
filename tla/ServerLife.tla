----------------------------- MODULE ServerLife -----------------------------
(***************************************************************************)
(* What a server process promises whoever starts it (Server::run and the   *)
(* binary around it): it either gives up before it listens, or it serves   *)
(* round after round, whatever happens in a round, until a signal tells it *)
(* to stop or one-off makes the first round the last; told to stop it      *)
(* stops.  The processes share nothing here.                               *)
(***************************************************************************)
EXTENDS Naturals

CONSTANTS Procs, OneOffs

VARIABLES phase,      \* starting, serving, leaving or crashed
          served,     \* rounds behind it
          signalled   \* a termination signal was caught

lifeVars == <<phase, served, signalled>>

Init ==
    /\ phase = [p \in Procs |-> "starting"]
    /\ served = [p \in Procs |-> 0]
    /\ signalled = [p \in Procs |-> FALSE]

Moves(p, from, to) ==
    /\ phase[p] = from
    /\ phase' = [phase EXCEPT ![p] = to]
    /\ UNCHANGED <<served, signalled>>

Listen(p) == Moves(p, "starting", "serving")

\* The set-up fails, or a signal comes before there is anything to serve.
GiveUp(p) == Moves(p, "starting", "leaving")

Serve(p) ==
    /\ phase[p] = "serving" /\ p \notin OneOffs
    /\ served' = [served EXCEPT ![p] = @ + 1]
    /\ UNCHANGED <<phase, signalled>>

\* The reason to stop is a signal or one-off, never a failed round.
Stop(p) ==
    /\ signalled[p] \/ p \in OneOffs
    /\ Moves(p, "serving", "leaving")

Signal(p) ==
    /\ signalled' = [signalled EXCEPT ![p] = TRUE]
    /\ UNCHANGED <<phase, served>>

\* A panic, SIGKILL, or the default action of a signal nobody handles yet.
Crash(p) ==
    \E from \in {"starting", "serving", "leaving"} : Moves(p, from, "crashed")

Next ==
    \E p \in Procs :
       Listen(p) \/ GiveUp(p) \/ Serve(p) \/ Stop(p) \/ Signal(p) \/ Crash(p)

SafeSpec == Init /\ [][Next]_lifeVars

\* Once signalled, a server does not go on serving.
Told(p) == signalled[p]
Serving(p) == phase[p] = "serving"

Spec == SafeSpec /\ \A p \in Procs : Told(p) ~> ~Serving(p)
============================================================================
