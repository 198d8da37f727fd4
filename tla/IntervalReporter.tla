-------------------------- MODULE IntervalReporter --------------------------
(***************************************************************************)
(* The accounting of one host during a TCP test: the data tasks that count *)
(* bytes (stream.rs), the interval reporter that swaps the counters out    *)
(* and crosses the omit boundary (reporter.rs) and the client's driver     *)
(* that ends the test on time, on an event or on the -n/-k limit           *)
(* (client.rs run_test, wait_byte_limit).  They share relaxed atomics and  *)
(* two Notify permits and no lock, so each load, store and swap that       *)
(* another task can observe is a step.                                     *)
(*                                                                         *)
(* Data streams are 1..K, in the order the reporter walks them.  A history *)
(* variable keeps the bytes of the printed intervals that are not marked   *)
(* omitted.  The numbers in an interval line other than its bytes (rates,  *)
(* TCP_INFO) are left out.                                                 *)
(***************************************************************************)
EXTENDS Integers, Functions

CONSTANTS K,          \* data streams
          Block,      \* bytes per write or read
          Target,     \* the -n/-k limit, in bytes
          MaxBytes    \* bound on what a stream without a budget transfers

ASSUME ConstantsAssumption ==
    /\ K \in Nat \ {0} /\ Block \in Nat \ {0}
    /\ Target \in Nat \ {0} /\ MaxBytes \in Nat

Streams == 1..K

VARIABLES
    mode,       \* [omit, limit, sender]: -O given, -n/-k given, our direction
    done,       \* AtomicBool: the data tasks stop
    task,       \* data task -> its point
    bytes,      \* StreamCounters: bytes_sent (or bytes_received), gross
    interval,   \* StreamCounters: the current interval's part
    omitted,    \* StreamCounters: the baseline of snapshot_omit
    budget,     \* AtomicI64: the shared -n/-k budget of the senders
    rpc, at,    \* reporter: point, and stream it is at
    warm,       \* reporter: in_warmup
    ticked,     \* reporter: interval_num > 0
    row,        \* reporter: the rows taken for the interval being made
    reported,   \* history: bytes in the printed, not omitted, intervals
    finish,     \* ReporterEnd: the permit of finish()
    passed,     \* OmitBoundary: crossed
    dpc,        \* driver: point
    why         \* history: what ended the test

taskVars     == <<task, bytes, interval>>
lineVars     == <<row, reported>>
reporterVars == <<rpc, at, warm, ticked, lineVars>>
driverVars   == <<dpc, why>>
vars == <<mode, done, taskVars, omitted, budget, reporterVars, finish, passed,
          driverVars>>

Modes == [omit : BOOLEAN, limit : BOOLEAN, sender : BOOLEAN]

-----------------------------------------------------------------------------
(* The -n/-k limit. *)

\* make_byte_budget: only the sending host of a limited test has a budget.
Budgeted == mode.limit /\ mode.sender

\* bytes_sent_net, bytes_received_net.
Net(s) == IF bytes[s] >= omitted[s] THEN bytes[s] - omitted[s] ELSE 0

SumOver(f) == FoldFunction(LAMBDA x, y : x + y, 0, f)

\* transferred_bytes: what was sent net of the warm-up, what was received gross.
Transferred == IF mode.sender THEN SumOver([s \in Streams |-> Net(s)])
                              ELSE SumOver(bytes)

-----------------------------------------------------------------------------
Init ==
    /\ mode \in Modes
    /\ done = FALSE
    /\ task = [s \in Streams |-> "top"]
    /\ bytes = [s \in Streams |-> 0]
    /\ interval = [s \in Streams |-> 0]
    /\ omitted = [s \in Streams |-> 0]
    /\ budget = IF Budgeted THEN Target ELSE 0
    /\ rpc = "wait" /\ at = 1 /\ warm = mode.omit /\ ticked = FALSE
    /\ row = [s \in Streams |-> 0] /\ reported = [s \in Streams |-> 0]
    /\ finish = FALSE /\ passed = FALSE
    /\ dpc = (IF mode.limit /\ mode.omit THEN "gate" ELSE "poll")
    /\ why = "none"

-----------------------------------------------------------------------------
(* The data tasks. *)

TaskAt(s, p, q) == task[s] = p /\ task' = [task EXCEPT ![s] = q]

\* The loop head of run_tcp_sender: a block is claimed from a positive budget,
\* and the sender idles at a spent one.  A receiver, and a sender without a
\* limit, has no budget to ask.
Claim(s) ==
    /\ ~done
    /\ TaskAt(s, "top", "io")
    /\ \/ Budgeted /\ budget > 0 /\ budget' = budget - Block
       \/ ~Budgeted /\ bytes[s] + Block <= MaxBytes /\ UNCHANGED budget
    /\ UNCHANGED <<mode, done, bytes, interval, omitted, reporterVars, finish,
                   passed, driverVars>>

\* write_all or read completed: record_sent/record_received add to the total...
CountTotal(s) ==
    /\ TaskAt(s, "io", "counted")
    /\ bytes' = [bytes EXCEPT ![s] = @ + Block]
    /\ UNCHANGED <<mode, done, interval, omitted, budget, reporterVars, finish,
                   passed, driverVars>>

\* ... and then to the interval.
CountInterval(s) ==
    /\ TaskAt(s, "counted", "top")
    /\ interval' = [interval EXCEPT ![s] = @ + Block]
    /\ UNCHANGED <<mode, done, bytes, omitted, budget, reporterVars, finish,
                   passed, driverVars>>

\* done is seen at the loop head, or after the rate limiter's wait.
TaskStops(s) ==
    /\ done
    /\ TaskAt(s, "top", "ended") \/ TaskAt(s, "io", "ended")
    /\ UNCHANGED <<mode, done, bytes, interval, omitted, budget, reporterVars,
                   finish, passed, driverVars>>

\* The socket fails, or the peer closes it.
TaskFails(s) ==
    /\ TaskAt(s, "io", "failed")
    /\ UNCHANGED <<mode, done, bytes, interval, omitted, budget, reporterVars,
                   finish, passed, driverVars>>

-----------------------------------------------------------------------------
(* The interval reporter. *)

ReporterAt(p, q) == rpc = p /\ rpc' = q

\* The next stream of the walk, or point q once the walk is over.
Walk(p, q) ==
    /\ rpc' = IF at = K THEN q ELSE p
    /\ at' = IF at = K THEN 1 ELSE at + 1

\* The tick arm of the biased select; the end signal is looked at first.
Tick ==
    /\ ~finish /\ ~done
    /\ ReporterAt("wait", "emit")
    /\ ticked' = TRUE
    /\ UNCHANGED <<mode, done, taskVars, omitted, budget, at, warm, lineVars,
                   finish, passed, driverVars>>

\* take_sent_interval/take_received_interval of the stream the walk is at: the
\* bytes are the stream's row of the interval; one of the warm-up is marked
\* omitted and not counted here.
TakeInterval ==
    /\ interval' = [interval EXCEPT ![at] = 0]
    /\ row' = IF warm THEN row ELSE [row EXCEPT ![at] = @ + interval[at]]

\* emit_interval for a tick: the streams are taken one by one ...
Emit ==
    /\ rpc = "emit" /\ Walk("emit", "print")
    /\ TakeInterval
    /\ UNCHANGED <<mode, done, task, bytes, omitted, budget, warm, ticked,
                   reported, finish, passed, driverVars>>

\* ... and their rows printed, or collected, once all are taken.
PrintRows ==
    /\ ReporterAt("print", "wait") \/ ReporterAt("print_last", "ended")
    /\ reported' = [s \in Streams |-> reported[s] + row[s]]
    /\ row' = [s \in Streams |-> 0]
    /\ UNCHANGED <<mode, done, taskVars, omitted, budget, at, warm, ticked,
                   finish, passed, driverVars>>

\* Printing panics (stdout is gone): the reporter task is over, and the rows it
\* was printing are lost.
ReporterDies ==
    /\ ReporterAt("print", "ended") \/ ReporterAt("print_last", "ended")
    /\ UNCHANGED <<mode, done, taskVars, omitted, budget, at, warm, ticked,
                   lineVars, finish, passed, driverVars>>

\* A tick after done: the finish signal is due, wait for it.
TickDone ==
    /\ ~finish /\ done
    /\ ReporterAt("wait", "late")
    /\ UNCHANGED <<mode, done, taskVars, omitted, budget, at, warm, ticked,
                   lineVars, finish, passed, driverVars>>

\* Fault: the consumed permit is not given back for the end arm.
LateSwallows ==
    /\ finish /\ finish' = FALSE
    /\ ReporterAt("late", "wait")
    /\ UNCHANGED <<mode, done, taskVars, omitted, budget, at, warm, ticked,
                   lineVars, passed, driverVars>>

\* It came: the permit is consumed and given back, for the end arm to run.
LateFinish ==
    /\ finish
    /\ ReporterAt("late", "wait")
    /\ UNCHANGED <<mode, done, taskVars, omitted, budget, at, warm, ticked,
                   lineVars, finish, passed, driverVars>>

\* It did not in 2 s, twenty times the driver's grace: the driver was dropped.
LateTimeout ==
    /\ ~finish /\ dpc = "dropped"
    /\ ReporterAt("late", "ended")
    /\ UNCHANGED <<mode, done, taskVars, omitted, budget, at, warm, ticked,
                   lineVars, finish, passed, driverVars>>

\* The omit arm: the boundary block begins.
OmitDeadline ==
    /\ ~finish /\ warm
    /\ ReporterAt("wait", "take")
    /\ UNCHANGED <<mode, done, taskVars, omitted, budget, at, warm, ticked,
                   lineVars, finish, passed, driverVars>>

\* The interval bytes of the warm-up's tail are thrown away ...
BoundaryTake ==
    /\ ReporterAt("take", "snapshot")
    /\ interval' = [interval EXCEPT ![at] = 0]
    /\ UNCHANGED <<mode, done, task, bytes, omitted, budget, at, warm, ticked,
                   lineVars, finish, passed, driverVars>>

\* ... and the total so far becomes the baseline (snapshot_omit).
BoundarySnapshot ==
    /\ rpc = "snapshot" /\ Walk("take", "refill")
    /\ omitted' = [omitted EXCEPT ![at] = bytes[at]]
    /\ UNCHANGED <<mode, done, taskVars, budget, warm, ticked, lineVars,
                   finish, passed, driverVars>>

\* Fault: the intervals are drained after the baselines were taken.
RefillDrains ==
    /\ ReporterAt("refill", "cross")
    /\ budget' = IF Budgeted THEN Target ELSE budget
    /\ interval' = [s \in Streams |-> 0]
    /\ UNCHANGED <<mode, done, task, bytes, omitted, at, warm, ticked, lineVars,
                   finish, passed, driverVars>>

\* Fault: the budget stays what the warm-up left of it.
RefillSkipped ==
    /\ ReporterAt("refill", "cross")
    /\ UNCHANGED <<mode, done, taskVars, omitted, budget, at, warm, ticked,
                   lineVars, finish, passed, driverVars>>

\* With every baseline taken the budget is refilled.
Refill ==
    /\ ReporterAt("refill", "cross")
    /\ budget' = IF Budgeted THEN Target ELSE budget
    /\ UNCHANGED <<mode, done, taskVars, omitted, at, warm, ticked, lineVars,
                   finish, passed, driverVars>>

\* OmitBoundary::cross wakes the driver; the timeline restarts at zero.
Cross ==
    /\ ReporterAt("cross", "wait")
    /\ passed' = TRUE /\ warm' = FALSE /\ ticked' = FALSE
    /\ UNCHANGED <<mode, done, taskVars, omitted, budget, at, lineVars, finish,
                   driverVars>>

\* The tail [last tick, end] is empty: the timer ended the test on a tick.
Aligned == ~mode.limit /\ ticked

\* The end arm: the tail is flushed, unless it has no length or it is both
\* short and without bytes (keep_final_interval).
Finish ==
    /\ finish /\ finish' = FALSE
    /\ \/ ReporterAt("wait", "flush")
       \/ /\ ReporterAt("wait", "ended")
          /\ Aligned \/ \A s \in Streams : interval[s] = 0
    /\ UNCHANGED <<mode, done, taskVars, omitted, budget, at, warm, ticked,
                   lineVars, passed, driverVars>>

\* The final interval; once it is printed the reporter is over.
Flush ==
    /\ rpc = "flush" /\ Walk("flush", "print_last")
    /\ TakeInterval
    /\ UNCHANGED <<mode, done, task, bytes, omitted, budget, warm, ticked,
                   reported, finish, passed, driverVars>>

-----------------------------------------------------------------------------
(* The driver. *)

DriverAt(p, q) == dpc = p /\ dpc' = q

\* Fault: the limit is polled during the warm-up.
GateOpen ==
    /\ DriverAt("gate", "poll")
    /\ UNCHANGED <<mode, done, taskVars, omitted, budget, reporterVars, finish,
                   passed, why>>

\* OmitBoundary::crossed; the fallback, two seconds past the deadline, is for a
\* reporter that died before its boundary.
Gate ==
    /\ passed \/ rpc = "ended"
    /\ DriverAt("gate", "poll")
    /\ UNCHANGED <<mode, done, taskVars, omitted, budget, reporterVars, finish,
                   passed, why>>

\* wait_byte_limit: the poll sees the limit reached.
LimitReached ==
    /\ mode.limit /\ Transferred >= Target
    /\ DriverAt("poll", "grace")
    /\ done' = TRUE /\ why' = "limit"
    /\ UNCHANGED <<mode, taskVars, omitted, budget, reporterVars, finish,
                   passed>>

\* The duration elapsed (-t), a control event or an interrupt.
Ends ==
    /\ DriverAt("gate", "grace") \/ DriverAt("poll", "grace")
    /\ done' = TRUE /\ why' = "event"
    /\ UNCHANGED <<mode, taskVars, omitted, budget, reporterVars, finish,
                   passed>>

\* 100 ms after done, the reporter is told to flush: time enough between the
\* two additions of a task, not for a write or read the socket holds up.
SignalFinish ==
    /\ \A s \in Streams : task[s] # "counted"
    /\ DriverAt("grace", "join")
    /\ finish' = TRUE
    /\ UNCHANGED <<mode, done, taskVars, omitted, budget, reporterVars, passed,
                   why>>

\* run_test joins the reporter; the END block reads the totals after that.
Join ==
    /\ rpc = "ended"
    /\ DriverAt("join", "ended")
    /\ UNCHANGED <<mode, done, taskVars, omitted, budget, reporterVars, finish,
                   passed, why>>

\* The run's future is dropped: DoneOnDrop raises done, nobody calls finish.
Dropped ==
    /\ dpc \in {"gate", "poll", "grace"} /\ dpc' = "dropped"
    /\ done' = TRUE
    /\ UNCHANGED <<mode, taskVars, omitted, budget, reporterVars, finish,
                   passed, why>>

-----------------------------------------------------------------------------
TaskStep(s) == Claim(s) \/ CountTotal(s) \/ CountInterval(s) \/ TaskStops(s)

BoundaryStep == BoundaryTake \/ BoundarySnapshot \/ Refill \/ Cross

ReporterStep ==
    Emit \/ PrintRows \/ TickDone \/ LateFinish \/ LateTimeout \/ Finish \/ Flush

DriverStep == Gate \/ LimitReached \/ SignalFinish \/ Join

Next ==
    \/ \E s \in Streams : TaskStep(s) \/ TaskFails(s)
    \/ Tick \/ OmitDeadline \/ ReporterStep \/ BoundaryStep \/ ReporterDies
    \/ DriverStep \/ Ends \/ Dropped

\* Tasks, reporter and driver are scheduled by the runtime and their timers
\* fire; the omit deadline is an arm the biased select may pass over for a tick
\* that is due, but not for ever.  Failures, events and the end of the time are
\* never assumed.
Fairness ==
    /\ \A s \in Streams : WF_vars(TaskStep(s))
    /\ WF_vars(ReporterStep) /\ WF_vars(BoundaryStep)
    /\ SF_vars(OmitDeadline)
    /\ WF_vars(DriverStep)

Spec == Init /\ [][Next]_vars /\ Fairness

-----------------------------------------------------------------------------
TypeOK ==
    /\ mode \in Modes
    /\ done \in BOOLEAN /\ finish \in BOOLEAN /\ passed \in BOOLEAN
    /\ task \in [Streams -> {"top", "io", "counted", "ended", "failed"}]
    /\ bytes \in [Streams -> Nat]
    /\ interval \in [Streams -> Nat]
    /\ omitted \in [Streams -> Nat]
    /\ row \in [Streams -> Nat] /\ reported \in [Streams -> Nat]
    /\ budget \in Int
    /\ rpc \in {"wait", "emit", "late", "take", "snapshot", "refill", "cross",
                "flush", "print", "print_last", "ended"}
    /\ at \in Streams
    /\ warm \in BOOLEAN /\ ticked \in BOOLEAN
    /\ dpc \in {"gate", "poll", "grace", "join", "ended", "dropped"}
    /\ why \in {"none", "limit", "event"}

\* Bytes a task has added to the total and not yet to the interval.
Pending(s) == IF task[s] = "counted" THEN Block ELSE 0

\* Past the warm-up no byte of the net total is missing from the intervals: it
\* was in a printed one, or is in the one being made (the one a reporter that
\* died was printing: no more than its last is lost), or is still in the counter
\* the next one takes, or is on its way there.  The reporter throws interval bytes away at the boundary
\* while the tasks keep counting, and never one that the baseline leaves in.
NoByteUnaccounted ==
    \A s \in Streams :
        ~warm => reported[s] + row[s] + interval[s] + Pending(s) >= Net(s)

\* A test the -n/-k limit ended has moved its target: the reported total never
\* falls below it afterwards, whatever the boundary baselines.
LimitMeansTarget == why = "limit" => Transferred >= Target

\* A limited test of a sending host ends by itself, with and without warm-up:
\* no interleaving of the refill with the senders swallows budget.
LimitEnds ==
    (mode.limit /\ mode.sender) ~>
        (dpc \in {"ended", "dropped"} \/ \E s \in Streams : task[s] = "failed")

\* The reporter outlives the test by a bounded time: done is followed by its
\* end, whether finish is signalled before, during or after its last tick, or
\* never.
ReporterEnds == done ~> rpc = "ended"

-----------------------------------------------------------------------------
(* The inductive strengthening the proofs use. *)

\* A walk starts at the first stream, and the boundary belongs to the warm-up.
WalkInv ==
    /\ rpc \in {"wait", "print", "late", "refill", "cross"} => at = 1
    /\ rpc \in {"take", "snapshot", "refill", "cross"} => warm

\* The baseline of the stream is taken, or it needs none.
Baselined(s) ==
    \/ ~warm
    \/ rpc \in {"take", "snapshot"} /\ s < at
    \/ rpc \in {"refill", "cross"}

\* From its baseline on a stream's net bytes are accounted for.
AccountInv ==
    \A s \in Streams :
        /\ omitted[s] <= bytes[s]
        /\ Baselined(s) =>
              bytes[s] - omitted[s] <=
                  reported[s] + row[s] + interval[s] + Pending(s)

Inv == TypeOK /\ WalkInv /\ AccountInv

\* The limit is polled on the far side of the boundary only, or when no reporter
\* is left to move a baseline.
GateInv ==
    /\ warm => mode.omit
    /\ passed => ~warm
    /\ dpc = "poll" /\ mode.limit => ~warm \/ rpc = "ended"
    /\ why = "limit" => ~warm \/ rpc = "ended"

LimitInv == Inv /\ GateInv /\ LimitMeansTarget
=============================================================================
