---------------------------- MODULE ControlClient ----------------------------
(***************************************************************************)
(* One run of the client (client.rs, Client::run) from the established     *)
(* control connection to the value it returns.                             *)
(*                                                                         *)
(* cpc names the await the run is parked on:                               *)
(*   connect   connect_control, the cookie not yet written                 *)
(*   loop      the central select!: a control byte or the interrupt        *)
(*   create    create_streams                                              *)
(*   run       run_test: the end condition, watch_control, the interrupt   *)
(*   ending    run_test's tail (done, the grace, the reporter)             *)
(*   payload   read_server_error_payload                                   *)
(*   results   on_exchange_results, waiting for the server's results       *)
(*   teardown, grace, join   the unconditional teardown; grace is the      *)
(*             pause between done and the abort                            *)
(*   returned, cancelled   over; cancelled: the caller dropped the future, *)
(*             or the process died                                         *)
(***************************************************************************)
EXTENDS ControlWire

CONSTANT ClientMayDie   \* the process may be killed or its future dropped

ASSUME ClientMayDieAssumption == ClientMayDie \in BOOLEAN

VARIABLES
    cpc,
    cIntr,       \* the interrupt watch holds a message
    event,       \* the ControlEvent run_test ended on, or "none"
    results,     \* RunCtx.server_results is present
    final,       \* RunCtx.final_report is present
    cdocs,       \* documents this run has written
    outcome,     \* what run returns: a Termination, an error, or "none"
    cdone,       \* RunCtx.done
    cstarted,    \* RunCtx.stage is Started
    cAborted,    \* abort() was called on every task
    batch,       \* streams this call of create_streams has connected
    clive        \* stream tasks still running

cResult    == <<event, results, final, cdocs, outcome>>
cTasks     == <<cdone, cstarted, cAborted, batch, clive>>
clientVars == <<cpc, cIntr, cResult, cTasks>>

ClientPcs == {"connect", "loop", "create", "run", "ending", "payload",
              "results", "teardown", "grace", "join", "returned", "cancelled"}

Terminations == {"Completed", "Interrupted", "ServerTerminated"} \cup Codes
                  \cup {"ServerErrorUnknown"}
ClientErrs == {"ControlSocketClosed", "UnknownControlMessage", "Io",
               "ServerBusy", "RecvResultsFailed", "MissingResults"}

ClientInit ==
    /\ cpc = "connect"
    /\ cIntr = FALSE
    /\ event = "none"
    /\ results = FALSE
    /\ final = FALSE
    /\ cdocs = 0
    /\ outcome = "none"
    /\ cdone = FALSE
    /\ cstarted = FALSE
    /\ cAborted = FALSE
    /\ batch = 0
    /\ clive = {}
------------------------------------------------------------------------------
ClientReads == s2c' = Tail(s2c)
ClientFrame == UNCHANGED <<test, cEnd, cIntr>>

ClientSendFails == ClientSendCanFail /\ UNCHANGED <<c2s, sEnd>>

\* The async block ends with this value; docs is what it wrote on the way.
Leave(value, docs) ==
    /\ outcome' = value
    /\ cdocs' = cdocs + docs
    /\ cpc' = "teardown"
    /\ UNCHANGED <<event, results, final>>

Stay(pc) == cpc' = pc /\ UNCHANGED cResult

\* Fault: the handles are dropped instead.
DetachTasks == UNCHANGED cAborted

\* abort() on every task.
AbortClientTasks == cAborted' = TRUE

\* Fault: a wait that does not look at the interrupt.
NotTaken == FALSE
------------------------------------------------------------------------------
ConnectControl ==
    /\ cpc = "connect"
    /\ \/ CClientSend(<<"Cookie">>) /\ Stay("loop")
       \/ ClientSendFails /\ Leave("Io", 0)
    /\ ClientFrame /\ UNCHANGED <<s2c, dialed, cTasks>>

\* The arms of the central loop.
LoopArm(state) ==
    /\ cpc = "loop"
    /\ ClientSees(state)
    /\ ClientReads
    /\ ClientFrame
    /\ UNCHANGED dialed

OnParamExchange ==
    /\ LoopArm("ParamExchange")
    /\ \/ CClientSend(<<"Params">>) /\ Stay("loop")
       \/ ClientSendFails /\ Leave("Io", 0)
    /\ UNCHANGED cTasks

OnCreateStreams ==
    /\ LoopArm("CreateStreams")
    /\ Stay("create")
    /\ UNCHANGED <<c2s, sEnd, cTasks>>

OnTestStart ==
    /\ LoopArm("TestStart")
    /\ cstarted' = TRUE
    /\ Stay("loop")
    /\ UNCHANGED <<c2s, sEnd, cdone, cAborted, batch, clive>>

OnTestRunning ==
    /\ LoopArm("TestRunning")
    /\ Stay("run")
    /\ UNCHANGED <<c2s, sEnd, cTasks>>

OnExchangeResults ==
    /\ LoopArm("ExchangeResults")
    /\ \/ CClientSend(<<"Results">>) /\ Stay("results")
       \/ ClientSendFails /\ Leave("Io", 0)
    /\ UNCHANGED cTasks

\* The report is written before IPERF_DONE is sent; a failing send discards it.
OnDisplayResults ==
    /\ LoopArm("DisplayResults")
    /\ final' = TRUE
    /\ cdocs' = cdocs + 1
    /\ \/ CClientSend(<<"IperfDone">>) /\ UNCHANGED outcome
       \/ ClientSendFails /\ outcome' = "Io"
    /\ cpc' = "teardown"
    /\ UNCHANGED <<event, results, cTasks>>

OnIperfDone ==
    /\ LoopArm("IperfDone")
    /\ Stay("teardown")
    /\ UNCHANGED <<c2s, sEnd, cTasks>>

OnAccessDenied ==
    /\ LoopArm("AccessDenied")
    /\ Leave("ServerBusy", 0)
    /\ UNCHANGED <<c2s, sEnd, cTasks>>

OnServerError ==
    /\ LoopArm("ServerError")
    /\ Stay("payload")
    /\ UNCHANGED <<c2s, sEnd, cTasks>>

OnServerTerminate ==
    /\ LoopArm("ServerTerminate")
    /\ Leave("ServerTerminated", 1)
    /\ UNCHANGED <<c2s, sEnd, cTasks>>

\* A state with no arm is logged and ignored.
OnUnexpectedState ==
    /\ \E state \in {"TestEnd", "ClientTerminate", "IperfStart"} : LoopArm(state)
    /\ Stay("loop")
    /\ UNCHANGED <<c2s, sEnd, cTasks>>

\* Everything else recv_state can return.
LoopRecvFails ==
    /\ cpc = "loop"
    /\ \/ ClientSeesEof /\ Leave("ControlSocketClosed", 1) /\ UNCHANGED s2c
       \/ ClientSeesRst /\ Leave("Io", 0) /\ UNCHANGED s2c
       \/ /\ s2c # <<>> /\ Head(s2c) \notin States
          /\ ClientReads
          /\ Leave("UnknownControlMessage", 0)
    /\ ClientFrame /\ UNCHANGED <<c2s, sEnd, dialed, cTasks>>

\* on_interrupted_wait, in the central loop and in the results wait.
WaitInterrupted ==
    /\ cpc \in {"loop", "results"}
    /\ cIntr
    /\ CClientSend(<<"ClientTerminate">>)
    /\ Leave("Interrupted", 1)
    /\ ClientFrame /\ UNCHANGED <<s2c, dialed, cTasks>>

\* create_streams connects the data streams one by one; it does not look at
\* the control socket or the interrupt.
ConnectStream ==
    /\ cpc = "create"
    /\ dialed' = dialed + 1
    /\ clive' = clive \cup {dialed'}
    /\ IF batch + 1 < Total(test)
         THEN batch' = batch + 1 /\ cpc' = "create"
         ELSE batch' = 0 /\ cpc' = "loop"
    /\ UNCHANGED <<cResult, cdone, cstarted, cAborted>>
    /\ ClientFrame /\ UNCHANGED <<c2s, s2c, sEnd>>

ConnectStreamFails ==
    /\ cpc = "create"
    /\ Leave("Io", 0)
    /\ ClientFrame /\ UNCHANGED <<c2s, s2c, sEnd, dialed, cTasks>>
------------------------------------------------------------------------------
\* run_test: the arms of its select!.

RunEnds(ev) ==
    /\ event' = ev
    /\ cdone' = TRUE
    /\ cpc' = "ending"
    /\ UNCHANGED <<results, final, cdocs, outcome, cstarted, cAborted, batch, clive>>
    /\ ClientFrame /\ UNCHANGED <<c2s, sEnd, dialed>>

\* The duration passed, or the byte or block limit was reached.
EndCondition ==
    /\ cpc = "run"
    /\ test.duration # 0 \/ test.bounded
    /\ RunEnds("none")
    /\ UNCHANGED s2c

\* watch_control adopts the two kill states, ignores the others and takes any
\* error for a closed connection.
WatchControl ==
    /\ cpc = "run"
    /\ \/ ClientSees("ServerTerminate") /\ ClientReads /\ RunEnds("Terminated")
       \/ ClientSees("ServerError") /\ ClientReads /\ RunEnds("ServerError")
       \/ (ClientSeesEof \/ ClientSeesRst) /\ UNCHANGED s2c /\ RunEnds("Closed")
       \/ s2c # <<>> /\ Head(s2c) \notin States /\ ClientReads /\ RunEnds("Closed")
       \/ /\ s2c # <<>>
          /\ Head(s2c) \in States \ {"ServerTerminate", "ServerError"}
          /\ ClientReads
          /\ ClientFrame
          /\ UNCHANGED <<c2s, sEnd, dialed, cpc, cResult, cTasks>>

RunInterrupted ==
    /\ cpc = "run"
    /\ cIntr
    /\ RunEnds("Interrupted")
    /\ UNCHANGED s2c

\* The grace is over and the reporter joined: on_test_running's match.
OnRunEnded ==
    /\ cpc = "ending"
    /\ \/ event = "Terminated" /\ Leave("ServerTerminated", 1) /\ UNCHANGED <<c2s, sEnd>>
       \/ event = "Interrupted" /\ CClientSend(<<"ClientTerminate">>) /\ Leave("Interrupted", 1)
       \/ event = "ServerError" /\ Stay("payload") /\ UNCHANGED <<c2s, sEnd>>
       \/ event = "Closed" /\ Leave("ControlSocketClosed", 1) /\ UNCHANGED <<c2s, sEnd>>
       \/ event = "none" /\ CClientSend(<<"TestEnd">>) /\ Stay("loop")
       \/ event = "none" /\ ClientSendFails /\ Leave("Io", 0)
    /\ ClientFrame /\ UNCHANGED <<s2c, dialed, cTasks>>

\* on_server_error_relay: the number, or "server error" if it does not come.
OnServerErrorRelay ==
    /\ cpc = "payload"
    /\ \/ /\ s2c # <<>> /\ Head(s2c) \in Codes
          /\ ClientReads
          /\ Leave(Head(s2c), 1)
       \/ /\ ClientSeesEof \/ ClientSeesRst \/ ClientTimesOut
          /\ Leave("ServerErrorUnknown", 1)
          /\ UNCHANGED s2c
       \/ /\ s2c # <<>> /\ Head(s2c) \notin Codes
          /\ ClientReads
          /\ Leave("ServerErrorUnknown", 1)
    /\ ClientFrame /\ UNCHANGED <<c2s, sEnd, dialed, cTasks>>

\* recv_results: a frame, or anything else read as one.
RecvServerResults ==
    /\ cpc = "results"
    /\ ClientSees("Results")
    /\ ClientReads
    /\ results' = TRUE
    /\ cpc' = "loop"
    /\ UNCHANGED <<event, final, cdocs, outcome>>
    /\ ClientFrame /\ UNCHANGED <<c2s, sEnd, dialed, cTasks>>

RecvServerResultsFails ==
    /\ cpc = "results"
    /\ \/ (ClientSeesEof \/ ClientSeesRst \/ ClientTimesOut) /\ UNCHANGED s2c
       \/ s2c # <<>> /\ Head(s2c) # "Results" /\ ClientReads
    /\ Leave("RecvResultsFailed", 1)
    /\ ClientFrame /\ UNCHANGED <<c2s, sEnd, dialed, cTasks>>
------------------------------------------------------------------------------
\* Fault: no grace.
NoGrace == FALSE

\* done is set.  A run that has not set it before owes its started streams
\* the grace; then the tasks are aborted.
GraceOwed == ~cdone /\ dialed > 0 /\ cstarted

Teardown ==
    /\ cpc = "teardown"
    /\ cdone' = TRUE
    /\ IF GraceOwed
         THEN cpc' = "grace" /\ UNCHANGED cAborted
         ELSE cpc' = "join" /\ AbortClientTasks
    /\ UNCHANGED <<wireVars, cIntr, cResult, cstarted, batch, clive>>

GraceEnds ==
    /\ cpc = "grace"
    /\ AbortClientTasks
    /\ cpc' = "join"
    /\ UNCHANGED <<wireVars, cIntr, cResult, cdone, cstarted, batch, clive>>

\* A run that left the loop by Break completed only if it has the server's
\* results and has displayed its own.
RunCompleted == results /\ final

\* The tasks are joined.
JoinAndReturn ==
    /\ cpc = "join"
    /\ clive = {}
    /\ outcome' = IF outcome # "none" THEN outcome
                  ELSE IF RunCompleted THEN "Completed" ELSE "MissingResults"
    /\ cEnd' = ClosedEnd(s2c)
    /\ s2c' = <<>>
    /\ cpc' = "returned"
    /\ UNCHANGED <<test, c2s, sEnd, dialed, cIntr, event, results, final, cdocs, cTasks>>

\* The process dies, or the caller drops the future: the guards set done and
\* abort the tasks, the sockets close.
ClientDies ==
    /\ ClientMayDie
    /\ cpc \notin {"connect", "returned", "cancelled"}
    /\ cpc' = "cancelled"
    /\ cdone' = TRUE
    /\ AbortClientTasks
    /\ cEnd' = ClosedEnd(s2c)
    /\ s2c' = <<>>
    /\ UNCHANGED <<test, c2s, sEnd, dialed, cIntr, cResult, cstarted, batch, clive>>

ClientTaskEnds(i) ==
    /\ i \in clive
    /\ clive' = clive \ {i}
    /\ UNCHANGED <<wireVars, cpc, cIntr, cResult, cdone, cstarted, cAborted, batch>>

ClientTaskReaped(i) ==
    /\ IF test.udp THEN cdone ELSE cAborted
    /\ ClientTaskEnds(i)

\* Fault: main() renders every error itself.
MainRendersAll == IF ~cIntr /\ outcome \in ClientErrs THEN 1 ELSE 0

\* What main() adds under -J when run() has returned: the document of an
\* error, unless the library has written one for it.  After a signal the
\* result of the run is thrown away and nothing is added.
MainRenders ==
    IF ~cIntr /\ outcome \in ClientErrs \ {"ControlSocketClosed", "RecvResultsFailed"}
    THEN 1 ELSE 0

InterruptClient ==
    /\ ~cIntr
    /\ cpc \notin {"returned", "cancelled"}
    /\ cIntr' = TRUE
    /\ UNCHANGED <<wireVars, cpc, cResult, cTasks>>
------------------------------------------------------------------------------
ClientProgress ==
    \/ ConnectControl
    \/ OnParamExchange \/ OnCreateStreams \/ OnTestStart \/ OnTestRunning
    \/ OnExchangeResults \/ OnDisplayResults \/ OnServerError \/ OnServerTerminate
    \/ LoopRecvFails \/ WaitInterrupted
    \/ ConnectStream
    \/ EndCondition \/ WatchControl \/ RunInterrupted \/ OnRunEnded
    \/ OnServerErrorRelay \/ RecvServerResults \/ RecvServerResultsFails
    \/ Teardown \/ GraceEnds \/ JoinAndReturn

\* Arms for states a riperf3 server never sends to the client it is serving.
ClientOddStates == OnIperfDone \/ OnAccessDenied \/ OnUnexpectedState

ClientEvents ==
    \/ ConnectStreamFails
    \/ ClientDies
    \/ InterruptClient
    \/ \E i \in clive : ClientTaskEnds(i)

ClientStep == ClientProgress \/ ClientOddStates \/ ClientEvents

ClientTypeOK ==
    /\ cpc \in ClientPcs
    /\ cIntr \in BOOLEAN
    /\ event \in {"none", "Terminated", "Interrupted", "ServerError", "Closed"}
    /\ results \in BOOLEAN
    /\ final \in BOOLEAN
    /\ cdocs \in Nat
    /\ outcome \in Terminations \cup ClientErrs \cup {"none"}
    /\ cdone \in BOOLEAN
    /\ cstarted \in BOOLEAN
    /\ cAborted \in BOOLEAN
    /\ batch \in Nat
    /\ clive \in SUBSET (1..MaxStreams)
==============================================================================
