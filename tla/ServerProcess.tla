--------------------------- MODULE ServerProcess ---------------------------
(***************************************************************************)
(* Server processes of one machine that share a port and a --pidfile path: *)
(* the set-up of run() in main.rs, the serve loop of Server::run, the      *)
(* termination signals, and the exit through the pidfile guard and the     *)
(* runtime.  A round is one step here; ControlServer is its inside.        *)
(*                                                                         *)
(* The server's future and the signal arm share one task, so a step of the *)
(* future runs from one await to the next.                                 *)
(***************************************************************************)
EXTENDS Naturals, Sequences, FiniteSets

CONSTANTS
    Procs,        \* processes started with the same port and pidfile
    OneOffs,      \* those started with -1
    IdleTimeouts, \* those started with --idle-timeout
    MaxRounds,    \* bound: rounds of one server
    MaxSignals,   \* bound: termination signals sent to one process
    MaxKills      \* bound: processes that die by SIGKILL

ASSUME ProcsAssumption ==
    /\ OneOffs \subseteq Procs /\ IdleTimeouts \subseteq Procs
    /\ "nobody" \notin Procs /\ "empty" \notin Procs

VARIABLES
    pc,       \* where run() is, a step of SetUp or a later state
    future,   \* where Server::run is: build, bind, accept, round or over
    intr,     \* the interrupt watch has fired
    pending,  \* a caught signal the signal arm has not taken yet
    hard,     \* the second-signal handler is registered
    result,   \* how the process ended: "" while it runs
    number,   \* server_test_number
    sent,     \* signals sent so far
    pidfile,  \* what the path holds: nobody (no file), "empty" or a process
    linked,   \* the processes whose open file is the one at the path
    port      \* the process that listens, or nobody

vars == <<pc, future, intr, pending, hard, result, number, sent, pidfile,
          linked, port>>

Nobody == "nobody"

\* The fallible steps of run() in order.  fs::write is two of them: it
\* creates or truncates the file and then writes the pid.
SetUp == <<"daemonize", "logfile", "affinity", "runtime", "sigend",
           "create", "write">>
Caught == {"create", "write", "app", "dump", "guard", "rt"}
Alive(p) == pc[p] # "exited"

\* Leaving: the listener closes with the future, the pidfile is unlinked.
Closed(p) == IF port = p THEN Nobody ELSE port
Unlink == pidfile' = Nobody /\ linked' = {}
KeepFile == UNCHANGED <<pidfile, linked>>

----------------------------------------------------------------------------
Init ==
    /\ pc = [p \in Procs |-> SetUp[1]]
    /\ future = [p \in Procs |-> "build"]
    /\ intr = [p \in Procs |-> FALSE]
    /\ pending = [p \in Procs |-> FALSE]
    /\ hard = [p \in Procs |-> FALSE]
    /\ result = [p \in Procs |-> ""]
    /\ number = [p \in Procs |-> 1]
    /\ sent = [p \in Procs |-> 0]
    /\ pidfile = Nobody /\ linked = {} /\ port = Nobody

SetUpStep(p) ==
    \E i \in DOMAIN SetUp :
       /\ pc[p] = SetUp[i]
       /\ pc' = [pc EXCEPT ![p] = IF i = Len(SetUp) THEN "app" ELSE SetUp[i + 1]]
       /\ CASE pc[p] = "create" -> pidfile' = "empty" /\ linked' = linked \cup {p}
            [] pc[p] = "write" /\ p \in linked -> pidfile' = p /\ UNCHANGED linked
            [] OTHER -> KeepFile
       /\ UNCHANGED <<future, intr, pending, hard, result, number, sent, port>>

\* The ? of a set-up step: no guard exists yet.
SetUpFails(p) ==
    /\ \E i \in DOMAIN SetUp : pc[p] = SetUp[i]
    /\ pc' = [pc EXCEPT ![p] = "exited"]
    /\ result' = [result EXCEPT ![p] = IF pc[p] = "write" THEN "unwritten"
                                       ELSE "error"]
    /\ UNCHANGED <<future, intr, pending, hard, number, sent, port, pidfile,
                   linked>>

----------------------------------------------------------------------------
(* The future: async_main and Server::run.                                 *)

Polled(p) == pc[p] \in {"app", "dump"}

\* The future is over: the select takes its result, or the dump window ends.
Returns(p, value) ==
    /\ future' = [future EXCEPT ![p] = "over"]
    /\ pc' = [pc EXCEPT ![p] = "guard"]
    /\ result' = [result EXCEPT ![p] = IF pc[p] = "dump" /\ value # "panic"
                                       THEN "signal" ELSE value]
    /\ port' = Closed(p)

Build(p) ==
    /\ Polled(p) /\ future[p] = "build"
    /\ \/ /\ future' = [future EXCEPT ![p] = "bind"]
          /\ UNCHANGED <<pc, result, port>>
       \/ Returns(p, "error")
    /\ UNCHANGED <<intr, pending, hard, number, sent, pidfile, linked>>

\* tcp_listen: it fails on a taken port and may fail otherwise.
Bind(p) ==
    /\ Polled(p) /\ future[p] = "bind"
    /\ \/ /\ port = Nobody
          /\ port' = p
          /\ future' = [future EXCEPT ![p] = "accept"]
          /\ UNCHANGED <<pc, result>>
       \/ Returns(p, "error")
    /\ UNCHANGED <<intr, pending, hard, number, sent, pidfile, linked>>

\* Fault: an error of the round is an error of the server.
RoundOverPropagates(p, counted, failed) ==
    IF intr[p] \/ p \in OneOffs \/ failed
    THEN Returns(p, IF failed THEN "error" ELSE "ok") /\ UNCHANGED number
    ELSE /\ future' = [future EXCEPT ![p] = "accept"]
         /\ number' = [number EXCEPT ![p] = IF counted THEN @ + 1 ELSE @]
         /\ UNCHANGED <<pc, result, port>>

\* What the loop does when handle_one_test returns, with no await between.
RoundOver(p, counted, failed) ==
    IF intr[p] \/ p \in OneOffs
    THEN Returns(p, "ok") /\ UNCHANGED number
    ELSE /\ future' = [future EXCEPT ![p] = "accept"]
         /\ number' = [number EXCEPT ![p] = IF counted THEN @ + 1 ELSE @]
         /\ UNCHANGED <<pc, result, port>>

Accept(p) ==
    /\ Polled(p) /\ future[p] = "accept"
    /\ number[p] < MaxRounds
    /\ future' = [future EXCEPT ![p] = "round"]
    /\ UNCHANGED <<pc, intr, pending, hard, result, number, sent, pidfile,
                   linked, port>>

\* A failed accept() is a round of its own.
AcceptFails(p) ==
    /\ Polled(p) /\ future[p] = "accept"
    /\ number[p] < MaxRounds
    /\ RoundOver(p, TRUE, TRUE)
    /\ UNCHANGED <<intr, pending, hard, sent, pidfile, linked>>

\* The silent restart of an idle server: nothing is counted.
IdleExpires(p) ==
    /\ Polled(p) /\ future[p] = "accept" /\ p \in IdleTimeouts
    /\ RoundOver(p, FALSE, TRUE)
    /\ UNCHANGED <<intr, pending, hard, sent, pidfile, linked>>

\* The interrupt arm of accept_control.
AcceptInterrupted(p) ==
    /\ Polled(p) /\ future[p] = "accept" /\ intr[p]
    /\ RoundOver(p, TRUE, FALSE)
    /\ UNCHANGED <<intr, pending, hard, sent, pidfile, linked>>

\* handle_one_test returns: a report, no report, or an error.
RoundEnds(p) ==
    /\ Polled(p) /\ future[p] = "round"
    /\ \E failed \in BOOLEAN : RoundOver(p, TRUE, failed)
    /\ UNCHANGED <<intr, pending, hard, sent, pidfile, linked>>

Panics(p) ==
    /\ Polled(p)
    /\ Returns(p, "panic")
    /\ UNCHANGED <<intr, pending, hard, number, sent, pidfile, linked>>

----------------------------------------------------------------------------
(* Signals and the way out.                                                *)

\* select! takes the signal: the hard handler first, then the interrupt.
SignalArm(p) ==
    /\ pc[p] = "app" /\ pending[p]
    /\ pc' = [pc EXCEPT ![p] = "dump"]
    /\ pending' = [pending EXCEPT ![p] = FALSE]
    /\ hard' = [hard EXCEPT ![p] = TRUE]
    /\ intr' = [intr EXCEPT ![p] = TRUE]
    /\ UNCHANGED <<future, result, number, sent, pidfile, linked, port>>

\* Fault: a run that does not notice the interrupt is waited for.
DumpWaits(p) == FALSE /\ UNCHANGED vars

\* The 5 s window is over and the future is dropped where it stands.
DumpTimesOut(p) ==
    /\ pc[p] = "dump"
    /\ Returns(p, "ok")
    /\ UNCHANGED <<intr, pending, hard, number, sent, pidfile, linked>>

\* Fault: the file is removed only after an orderly run.
DropGuardOnSuccess(p) ==
    /\ pc[p] = "guard"
    /\ pc' = [pc EXCEPT ![p] = "rt"]
    /\ IF result[p] = "error" THEN KeepFile ELSE Unlink
    /\ UNCHANGED <<future, intr, pending, hard, result, number, sent, port>>

\* PidfileGuard::drop: it unlinks the path, whoever wrote the file there.
DropGuard(p) ==
    /\ pc[p] = "guard"
    /\ pc' = [pc EXCEPT ![p] = "rt"]
    /\ Unlink
    /\ UNCHANGED <<future, intr, pending, hard, result, number, sent, port>>

\* The runtime waits for its blocking threads, then the process exits.
DropRuntime(p) ==
    /\ pc[p] = "rt"
    /\ pc' = [pc EXCEPT ![p] = "exited"]
    /\ UNCHANGED <<future, intr, pending, hard, result, number, sent, pidfile,
                   linked, port>>

\* A termination signal: fatal before Sigend::install, remembered by tokio
\* after it, fatal again (with an unlink) once the hard handler is in place.
Signal(p) ==
    /\ Alive(p) /\ sent[p] < MaxSignals
    /\ sent' = [sent EXCEPT ![p] = @ + 1]
    /\ IF hard[p] \/ pc[p] \notin Caught
       THEN /\ pc' = [pc EXCEPT ![p] = "exited"]
            /\ result' = [result EXCEPT ![p] = IF ~hard[p] THEN "default"
                                               ELSE IF @ = "" THEN "signal" ELSE @]
            /\ future' = [future EXCEPT ![p] = "over"]
            /\ port' = Closed(p)
            /\ IF hard[p] THEN Unlink ELSE KeepFile
            /\ UNCHANGED pending
       ELSE /\ pending' = [pending EXCEPT ![p] = TRUE]
            /\ KeepFile
            /\ UNCHANGED <<pc, result, future, port>>
    /\ UNCHANGED <<intr, hard, number>>

\* SIGKILL or a crash of the machine's making: nothing is cleaned up.
Kill(p) ==
    /\ Alive(p)
    /\ Cardinality({q \in Procs : result[q] = "killed"}) < MaxKills
    /\ pc' = [pc EXCEPT ![p] = "exited"]
    /\ result' = [result EXCEPT ![p] = "killed"]
    /\ future' = [future EXCEPT ![p] = "over"]
    /\ port' = Closed(p)
    /\ UNCHANGED <<intr, pending, hard, number, sent, pidfile, linked>>

Step(p) ==
    \/ SetUpStep(p) \/ SetUpFails(p)
    \/ Build(p) \/ Bind(p) \/ Accept(p) \/ AcceptFails(p) \/ IdleExpires(p)
    \/ AcceptInterrupted(p) \/ RoundEnds(p) \/ Panics(p)
    \/ SignalArm(p) \/ DumpTimesOut(p) \/ DropGuard(p) \/ DropRuntime(p)

Done == (\A p \in Procs : ~Alive(p)) /\ UNCHANGED vars

Next == (\E p \in Procs : Step(p) \/ Signal(p) \/ Kill(p)) \/ Done

\* The process's own steps go on; a round, a client and a signal may never
\* come.  The runtime's drop is bounded by the drain of the streams (10 s).
Fairness ==
    \A p \in Procs :
       /\ WF_vars(SetUpStep(p)) /\ WF_vars(Build(p)) /\ WF_vars(Bind(p))
       /\ WF_vars(AcceptInterrupted(p)) /\ WF_vars(SignalArm(p))
       /\ WF_vars(DumpTimesOut(p)) /\ WF_vars(DropGuard(p))
       /\ WF_vars(DropRuntime(p))

Spec == Init /\ [][Next]_vars /\ Fairness

----------------------------------------------------------------------------
(* Properties.                                                             *)

\* "The pidfile must be unlinked on EVERY exit path": what the path holds is
\* the pid of a process that has not reached its guard, or of one that died
\* by SIGKILL.  With the path shared this is about every order of the two
\* processes' creates, writes and unlinks, hard exits included.  An empty
\* file is the work of a process between its two steps, or of one whose
\* write failed or was cut off there.
PidfileNamesLive ==
    /\ pidfile \in Procs =>
          \/ pc[pidfile] \in {"app", "dump", "guard"}
          \/ result[pidfile] = "killed"
    /\ pidfile = "empty" =>
          \E p \in linked :
             pc[p] = "write" \/ result[p] \in {"unwritten", "killed"}

\* A termination signal ends the process, whatever its future is doing: in
\* the middle of its set-up, idle, in a round that never looks at the
\* interrupt, or while the loop restarts again and again.
SignalEndsProcess ==
    \A p \in Procs : sent[p] > 0 ~> pc[p] = "exited"

----------------------------------------------------------------------------
(* The process keeps ServerLife's promise.                                 *)

Phase(p) ==
    IF result[p] \in {"panic", "killed", "default"} THEN "crashed"
    ELSE IF result[p] # "" THEN "leaving"
    ELSE IF future[p] \in {"accept", "round"} THEN "serving"
    ELSE "starting"

Life == INSTANCE ServerLife WITH
    phase <- [p \in Procs |-> Phase(p)],
    served <- [p \in Procs |-> number[p] - 1],
    signalled <- [p \in Procs |-> sent[p] > 0 /\ result[p] # "default"]

\* Every process implements the abstract server life: once it listens, only
\* a signal or one-off ends it, no failed round does, and a signal does.
ImplementsServerLife == Life!Spec

----------------------------------------------------------------------------
(* The inductive strengthening the proofs use. *)

\* Before Sigend::install and before the pidfile.
Early == {"daemonize", "logfile", "affinity", "runtime", "sigend"}
Setting == Early \cup {"create", "write"}

TypeOK ==
    /\ pc \in [Procs -> Setting \cup {"app", "dump", "guard", "rt", "exited"}]
    /\ future \in [Procs -> {"build", "bind", "accept", "round", "over"}]
    /\ intr \in [Procs -> BOOLEAN] /\ pending \in [Procs -> BOOLEAN]
    /\ hard \in [Procs -> BOOLEAN]
    /\ result \in [Procs -> {"", "ok", "error", "signal", "panic", "killed",
                             "default", "unwritten"}]
    /\ number \in [Procs -> Nat \ {0}] /\ sent \in [Procs -> Nat]
    /\ pidfile \in Procs \cup {Nobody, "empty"} /\ linked \subseteq Procs
    /\ port \in Procs \cup {Nobody}

\* A process has a result once it leaves; the future is over only then, has
\* not begun in the set-up, and whatever a signal causes follows a signal.
StageInv(p) ==
    /\ result[p] = "" <=> pc[p] \in Setting \cup {"app", "dump"}
    /\ result[p] \in {"killed", "default", "unwritten"} => pc[p] = "exited"
    /\ pc[p] \in Setting => future[p] = "build"
    /\ result[p] = "" => future[p] # "over"
    /\ pc[p] \in Early => sent[p] = 0
    /\ intr[p] \/ pending[p] \/ hard[p] \/ pc[p] = "dump" => sent[p] > 0

Inv == TypeOK /\ PidfileNamesLive /\ \A p \in Procs : StageInv(p)
============================================================================
