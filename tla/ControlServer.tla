---------------------------- MODULE ControlServer ----------------------------
(***************************************************************************)
(* One round of the server (server.rs, handle_one_test) from the accepted  *)
(* control connection to the value it returns, whatever the peer does.     *)
(*                                                                         *)
(* spc names the await the round is parked on:                             *)
(*   cookie, params   negotiate_test                                       *)
(*   setup, reap      setup_data_streams; reap is the join of              *)
(*                    abort_setup_streams on a kill                        *)
(*   park             park_refused_round                                   *)
(*   start            start_test                                           *)
(*   await            await_test_end                                       *)
(*   flush            shutdown_and_flush                                   *)
(*   exchange, results, done   exchange_results_phase                      *)
(*   emit             the report and emit_final_output                     *)
(*   gate, join       the abort/join gate every exit passes                *)
(*   return           handle_one_test's result, matched in run()           *)
(*   returned, cancelled   over; cancelled: the caller dropped the future  *)
(*                                                                         *)
(* The data streams appear as their tasks: slive holds the ones that still *)
(* run.  Time is abstract: a timeout may fire whenever it is armed.        *)
(***************************************************************************)
EXTENDS ControlWire, FiniteSets

CONSTANT Cancellable   \* the caller may drop the future (run_once in a timeout)

ASSUME CancellableAssumption == Cancellable \in BOOLEAN

VARIABLES
    spc,
    sIntr,     \* the interrupt watch holds a message (it is never cleared)
    flags,     \* the abnormal-end fields of TestRunCtx that are set
    bare,      \* TestRunCtx.bare_end
    serr,      \* the Err the round ends with, or "none"
    relay,     \* the error number a setup kill will relay, or "none"
    refused,   \* the round was refused in negotiate_test
    reported,  \* emit_final_output ran
    docError,  \* EndState.report_error, the error key of the document
    sdocs,     \* documents this round has written
    sterm,     \* the Termination, "Err", "NoReport", or "none" before the end
    sdone,     \* TestRunCtx.done
    sAborted,  \* abort() was called on every task spawned so far
    accepted,  \* data streams accepted so far
    slive      \* stream tasks still running

sResult    == <<flags, bare, serr, relay, refused, reported, docError, sdocs, sterm>>
sTasks     == <<sdone, sAborted, accepted, slive>>
serverVars == <<spc, sIntr, sResult, sTasks>>

ServerPcs == {"cookie", "params", "setup", "reap", "park", "start", "await",
              "flush", "exchange", "results", "done", "emit", "gate", "join",
              "return", "returned", "cancelled"}

FlagNames == {"interrupted", "client_terminated", "server_error",
              "unknown_message", "ctrl_closed", "early_done", "recv_failed",
              "send_error", "recv_message_error"}

ErrNames == {"RecvCookieFailed", "SendControlFailed", "RecvParamsFailed",
             "InvalidParams", "AccessDenied", "StreamConnectFailed",
             "RecvDataCookieFailed", "ControlSocketClosed", "ClientTerminated",
             "UnknownControlMessage", "DataIdleTimeout", "Io"}

ServerInit ==
    /\ spc = "cookie"
    /\ sIntr = FALSE
    /\ flags = {}
    /\ bare = FALSE
    /\ serr = "none"
    /\ relay = "none"
    /\ refused = FALSE
    /\ reported = FALSE
    /\ docError = "none"
    /\ sdocs = 0
    /\ sterm = "none"
    /\ sdone = FALSE
    /\ sAborted = FALSE
    /\ accepted = 0
    /\ slive = {}
------------------------------------------------------------------------------
\* What the actions below are made of.

ServerReads == c2s' = Tail(c2s)

\* A frame that does not come: EOF, a hard error, the read deadline, or other
\* bytes, which are consumed as if they were its beginning.
FrameFails(frame) ==
    \/ (ServerSeesEof \/ ServerSeesRst \/ ServerTimesOut) /\ UNCHANGED c2s
    \/ c2s # <<>> /\ Head(c2s) # frame /\ ServerReads

\* The client's side and the data connections are untouched.
ServerFrame == UNCHANGED <<test, dialed, sIntr>>

\* A best-effort write (let _ = ...) and one whose failure is looked at.
BestEffort(ms) == SServerSend(ms)
SendFails      == ServerSendCanFail /\ UNCHANGED <<s2c, cEnd>>

\* Before the round's context exists an error returns at once.
ReturnErr(e) ==
    /\ spc' = "return"
    /\ serr' = e
    /\ UNCHANGED <<flags, bare, relay, refused, reported, docError, sdocs, sterm>>

\* Once it exists, an error leaves the async block for the gate.
GateErr(e) ==
    /\ spc' = "gate"
    /\ serr' = e
    /\ UNCHANGED <<flags, bare, relay, refused, reported, docError, sdocs, sterm>>

\* An abnormal-end arm: one flag, and the data loop or the exchange is left.
Raise(flag, bareEnd, pc) ==
    /\ flags' = flags \cup {flag}
    /\ bare' = (bare \/ bareEnd)
    /\ spc' = pc
    /\ UNCHANGED <<serr, relay, refused, reported, docError, sdocs, sterm>>

GoTo(pc) == spc' = pc /\ UNCHANGED sResult

\* Fault: the abort alone, which no blocking thread hears.
AbortTasks == sAborted' = TRUE /\ UNCHANGED sdone

\* done is set before the tasks are aborted: the setup kill, the gate and the
\* drop guards all do both.
StopTasks == sdone' = TRUE /\ sAborted' = TRUE
------------------------------------------------------------------------------
\* negotiate_test.  Its select! also waits for the interrupt.

RecvCookie ==
    /\ spc = "cookie"
    /\ ServerSees("Cookie")
    /\ ServerReads
    /\ \/ SServerSend(<<"ParamExchange">>) /\ GoTo("params")
       \/ ServerSendCanFail /\ BestEffort(Relay("E111")) /\ ReturnErr("SendControlFailed")
    /\ ServerFrame /\ UNCHANGED <<sEnd, sTasks>>

RecvCookieFails ==
    /\ spc = "cookie"
    /\ FrameFails("Cookie")
    /\ BestEffort(Relay("E106"))
    /\ ReturnErr("RecvCookieFailed")
    /\ ServerFrame /\ UNCHANGED <<sEnd, sTasks>>

\* A refusal: relay the number, shut the write half, wait in park.
Refuse(code) ==
    \/ /\ SServerSend(Relay(code))
       /\ sEnd' = "shut"
       /\ refused' = TRUE
       /\ spc' = "park"
       /\ UNCHANGED <<flags, bare, serr, relay, reported, docError, sdocs, sterm>>
    \/ SendFails /\ ReturnErr("Io") /\ UNCHANGED sEnd

\* authenticate fails: the document, then a bare close.
DenyAccess ==
    /\ spc' = "return"
    /\ serr' = "AccessDenied"
    /\ sdocs' = sdocs + 1
    /\ UNCHANGED <<s2c, cEnd, sEnd, flags, bare, relay, refused, reported, docError, sterm>>

\* setup_data_streams begins by asking for the streams; that failing is a
\* setup error like any other, so the round parks.
AskForStreams ==
    \/ SServerSend(<<"CreateStreams">>) /\ GoTo("setup") /\ UNCHANGED sEnd
    \/ /\ SendFails
       /\ sEnd' = "shut"
       /\ serr' = "Io"
       /\ spc' = "park"
       /\ UNCHANGED <<flags, bare, relay, refused, reported, docError, sdocs, sterm>>

RecvParams ==
    /\ spc = "params"
    /\ ServerSees("Params")
    /\ ServerReads
    /\ \/ /\ Verdict(test) = "invalid"
          /\ ReturnErr("InvalidParams")
          /\ UNCHANGED <<s2c, cEnd, sEnd>>
       \/ Verdict(test) = "rate" /\ Refuse("E27")
       \/ Verdict(test) = "duration" /\ Refuse("E37")
       \/ Verdict(test) = "unauthorized" /\ DenyAccess
       \/ Verdict(test) = "proceed" /\ AskForStreams
    /\ ServerFrame /\ UNCHANGED sTasks

RecvParamsFails ==
    /\ spc = "params"
    /\ FrameFails("Params")
    /\ BestEffort(Relay("E114"))
    /\ ReturnErr("RecvParamsFailed")
    /\ ServerFrame /\ UNCHANGED <<sEnd, sTasks>>

\* The interrupt wins the select!: a skeleton document and no result.
NegotiateInterrupted ==
    /\ spc \in {"cookie", "params"}
    /\ sIntr
    /\ spc' = "return"
    /\ sdocs' = sdocs + 1
    /\ UNCHANGED <<test, c2s, s2c, cEnd, sEnd, dialed, sIntr, sTasks>>
    /\ UNCHANGED <<flags, bare, serr, relay, refused, reported, docError, sterm>>
------------------------------------------------------------------------------
\* setup_data_streams.  This wait does not look at the interrupt.

AcceptStream ==
    /\ spc = "setup"
    /\ accepted < Total(test)
    /\ accepted < dialed
    /\ accepted' = accepted + 1
    /\ slive' = slive \cup {accepted'}
    /\ spc' = IF accepted' = Total(test) THEN "start" ELSE "setup"
    /\ UNCHANGED <<wireVars, sIntr, sResult, sdone, sAborted>>

\* A setup kill: abort_setup_streams, and what is to follow it.
Kill(e, code) ==
    /\ StopTasks
    /\ spc' = "reap"
    /\ serr' = e
    /\ relay' = code
    /\ UNCHANGED <<s2c, cEnd, sEnd, flags, bare, refused, reported, docError,
                   sdocs, sterm, accepted, slive>>

\* dispatch_setup_ctrl_byte
SetupCtrlByte ==
    /\ spc = "setup"
    /\ c2s # <<>>
    /\ ServerReads
    /\ CASE Head(c2s) = "TestStart" ->
              UNCHANGED <<s2c, cEnd, sEnd, spc, sResult, sTasks>>
         [] Head(c2s) = "ClientTerminate" -> Kill("ClientTerminated", "E119")
         [] Head(c2s) = "IperfDone" -> Kill("none", "none")
         [] OTHER -> Kill("UnknownControlMessage", "E110")
    /\ ServerFrame

\* Fault: a wait that does not look.
NeverTaken == FALSE

SetupCtrlClosed ==
    /\ spc = "setup"
    /\ ServerSeesEof
    /\ Kill("ControlSocketClosed", "E109")
    /\ ServerFrame /\ UNCHANGED c2s

\* A data cookie read that fails hard, a failing accept(), or no connection
\* within the receive timeout.
SetupKilled ==
    /\ spc = "setup"
    /\ \/ ~test.udp /\ Kill("RecvDataCookieFailed", "E106")
       \/ ~test.udp /\ Kill("StreamConnectFailed", "E203")
       \/ IdleArmed(test) /\ Kill("DataIdleTimeout", "E144")
    /\ ServerFrame /\ UNCHANGED c2s

\* An error that leaves setup through `?`: a reset of the control socket, a
\* socket option that cannot be set on an accepted stream, a datagram that is
\* no connect message on the UDP socket.  Nothing is aborted, relayed or
\* written; the round parks with its tasks alive.
SetupIoError ==
    /\ spc = "setup"
    /\ ServerSeesRst \/ accepted < dialed \/ test.udp
    /\ sEnd' = "shut"
    /\ serr' = "Io"
    /\ spc' = "park"
    /\ ServerFrame /\ UNCHANGED <<c2s, s2c, cEnd, sTasks>>
    /\ UNCHANGED <<flags, bare, relay, refused, reported, docError, sdocs, sterm>>

\* The tasks are joined: relay the error number, write the setup document and
\* park with the write half shut.
SetupReaped ==
    /\ spc = "reap"
    /\ slive = {}
    /\ IF relay = "none" THEN UNCHANGED <<s2c, cEnd>> ELSE BestEffort(Relay(relay))
    /\ sEnd' = "shut"
    /\ sdocs' = sdocs + 1
    /\ spc' = "park"
    /\ ServerFrame /\ UNCHANGED <<c2s, sTasks>>
    /\ UNCHANGED <<flags, bare, serr, relay, refused, reported, docError, sterm>>
------------------------------------------------------------------------------
\* park_refused_round: drain until the peer is gone or silent.

ParkDrain ==
    /\ spc = "park"
    /\ c2s # <<>>
    /\ c2s' = <<>>
    /\ ServerFrame /\ UNCHANGED <<s2c, cEnd, sEnd, spc, sResult, sTasks>>

\* Only a refusal writes its document after the park.
ParkEnds ==
    /\ spc = "park"
    /\ c2s = <<>> \/ ServerSeesRst
    /\ IF refused
         THEN spc' = "return" /\ sdocs' = sdocs + 1
         ELSE spc' = "gate" /\ UNCHANGED sdocs
    /\ UNCHANGED <<wireVars, sIntr, sTasks>>
    /\ UNCHANGED <<flags, bare, serr, relay, refused, reported, docError, sterm>>

\* An interrupt ends the park: a refusal writes the interrupt's document
\* instead of its own, and a setup kill drops its error.
ParkInterrupted ==
    /\ spc = "park"
    /\ sIntr
    /\ IF refused
         THEN spc' = "return" /\ sdocs' = sdocs + 1 /\ UNCHANGED serr
         ELSE spc' = "gate" /\ serr' = "none" /\ UNCHANGED sdocs
    /\ UNCHANGED <<wireVars, sIntr, sTasks>>
    /\ UNCHANGED <<flags, bare, relay, refused, reported, docError, sterm>>
------------------------------------------------------------------------------
\* start_test: two writes, the second of which may be the one to fail.

StartTest ==
    /\ spc = "start"
    /\ \/ SServerSend(<<"TestStart", "TestRunning">>) /\ GoTo("await")
       \/ SendFails /\ GateErr("Io")
    /\ ServerFrame /\ UNCHANGED <<c2s, sEnd, sTasks>>
------------------------------------------------------------------------------
\* await_test_end: one action per arm of its select! loop.

EndArm == spc = "await" /\ ServerFrame /\ UNCHANGED <<sEnd, sTasks>>

RecvTestEnd ==
    /\ EndArm
    /\ ServerSees("TestEnd")
    /\ ServerReads
    /\ GoTo("flush")
    /\ UNCHANGED <<s2c, cEnd>>

RecvClientTerminate ==
    /\ EndArm
    /\ ServerSees("ClientTerminate")
    /\ ServerReads
    /\ BestEffort(Relay("E119"))
    /\ Raise("client_terminated", FALSE, "flush")

RecvTestStart ==
    /\ EndArm
    /\ ServerSees("TestStart")
    /\ ServerReads
    /\ UNCHANGED <<s2c, cEnd, spc, sResult>>

RecvEarlyDone ==
    /\ EndArm
    /\ ServerSees("IperfDone")
    /\ ServerReads
    /\ Raise("early_done", TRUE, "flush")
    /\ UNCHANGED <<s2c, cEnd>>

\* Any other state, or a byte that maps to none.
RecvUnexpected ==
    /\ EndArm
    /\ c2s # <<>>
    /\ Head(c2s) \notin {"TestEnd", "ClientTerminate", "TestStart", "IperfDone"}
    /\ ServerReads
    /\ BestEffort(Relay("E110"))
    /\ Raise("unknown_message", TRUE, "flush")

RecvCtrlClosed ==
    /\ EndArm
    /\ ServerSeesEof
    /\ BestEffort(Relay("E109"))
    /\ Raise("ctrl_closed", TRUE, "flush")
    /\ UNCHANGED c2s

RecvHardError ==
    /\ EndArm
    /\ ServerSeesRst
    /\ GateErr("Io")
    /\ UNCHANGED <<c2s, s2c, cEnd>>

AwaitInterrupted ==
    /\ EndArm
    /\ sIntr
    /\ BestEffort(<<"ServerTerminate">>)
    /\ Raise("interrupted", FALSE, "flush")
    /\ UNCHANGED c2s

\* The bitrate limit and the duration watchdog propagate a failing relay, the
\* idle check does not.
SelfTerminate(code) ==
    \/ SServerSend(Relay(code)) /\ Raise("server_error", TRUE, "flush")
    \/ SendFails /\ GateErr("Io")

RateBreach ==
    /\ EndArm
    /\ BitrateLimit > 0
    /\ SelfTerminate("E27")
    /\ UNCHANGED c2s

IdleExpired ==
    /\ EndArm
    /\ IdleArmed(test)
    /\ BestEffort(Relay("E144"))
    /\ Raise("server_error", TRUE, "flush")
    /\ UNCHANGED c2s

WatchdogExpired ==
    /\ EndArm
    /\ test.duration # 0
    /\ SelfTerminate("E160")
    /\ UNCHANGED c2s
------------------------------------------------------------------------------
\* shutdown_and_flush, the exchange, the document.

\* The first name of a precedence list that is in the set fs, or "none".
FirstOf(order, fs) ==
    IF \E i \in DOMAIN order : order[i] \in fs
      THEN order[CHOOSE i \in DOMAIN order :
                    /\ order[i] \in fs
                    /\ \A j \in 1..(i - 1) : order[j] \notin fs]
      ELSE "none"

FlushOrder == <<"interrupted", "client_terminated", "server_error">>

\* An abnormal end aborts the stream tasks here; a clean one only sets done.
ShutdownAndFlush ==
    /\ spc = "flush"
    /\ sAborted' = (sAborted \/ flags # {})
    /\ sdone' = TRUE
    /\ docError' = FirstOf(FlushOrder, flags)
    /\ spc' = IF flags = {} THEN "exchange" ELSE "emit"
    /\ UNCHANGED <<wireVars, sIntr, accepted, slive>>
    /\ UNCHANGED <<flags, bare, serr, relay, refused, reported, sdocs, sterm>>

SendExchange ==
    /\ spc = "exchange"
    /\ \/ SServerSend(<<"ExchangeResults">>) /\ GoTo("results")
       \/ SendFails /\ Raise("send_error", FALSE, "emit")
    /\ ServerFrame /\ UNCHANGED <<c2s, sEnd, sTasks>>

RecvResults ==
    /\ spc = "results"
    /\ ServerSees("Results")
    /\ ServerReads
    /\ \/ SServerSend(<<"Results", "DisplayResults">>) /\ GoTo("done")
       \/ SendFails /\ Raise("send_error", FALSE, "emit")
    /\ ServerFrame /\ UNCHANGED <<sEnd, sTasks>>

\* Fault: the exchange goes on after a failed read.
RecvResultsGoesOn ==
    /\ spc = "results"
    /\ FrameFails("Results")
    /\ BestEffort(<<"Results", "DisplayResults">>)
    /\ Raise("recv_failed", FALSE, "emit")
    /\ ServerFrame /\ UNCHANGED <<sEnd, sTasks>>

RecvResultsFails ==
    /\ spc = "results"
    /\ FrameFails("Results")
    /\ BestEffort(Relay("E117"))
    /\ Raise("recv_failed", FALSE, "emit")
    /\ ServerFrame /\ UNCHANGED <<sEnd, sTasks>>

ExchangeInterrupted ==
    /\ spc \in {"results", "done"}
    /\ sIntr
    /\ BestEffort(<<"ServerTerminate">>)
    /\ Raise("interrupted", FALSE, "emit")
    /\ ServerFrame /\ UNCHANGED <<c2s, sEnd, sTasks>>

\* The wait for IPERF_DONE.
RecvDone ==
    /\ spc = "done"
    /\ c2s # <<>>
    /\ ServerReads
    /\ CASE Head(c2s) = "IperfDone" -> GoTo("emit") /\ UNCHANGED <<s2c, cEnd>>
         [] Head(c2s) = "TestStart" -> UNCHANGED <<s2c, cEnd, spc, sResult>>
         [] Head(c2s) = "ClientTerminate" ->
              BestEffort(Relay("E119")) /\ Raise("client_terminated", FALSE, "emit")
         [] OTHER ->
              BestEffort(Relay("E110")) /\ Raise("unknown_message", FALSE, "emit")
    /\ ServerFrame /\ UNCHANGED <<sEnd, sTasks>>

RecvDoneFails ==
    /\ spc = "done"
    /\ \/ /\ ServerSeesEof
          /\ BestEffort(Relay("E109"))
          /\ Raise("ctrl_closed", FALSE, "emit")
       \/ /\ ServerSeesRst
          /\ UNCHANGED <<s2c, cEnd>>
          /\ Raise("recv_message_error", FALSE, "emit")
    /\ ServerFrame /\ UNCHANGED <<c2s, sEnd, sTasks>>

\* Fault: an end missing from a list.
EmitOrderShort == <<"interrupted", "client_terminated", "unknown_message",
                    "recv_failed", "send_error", "recv_message_error">>

\* report_error is resolved again for what the exchange may have raised.
EmitOrder == <<"interrupted", "client_terminated", "unknown_message",
               "ctrl_closed", "recv_failed", "send_error", "recv_message_error">>

EmitFinalOutput ==
    /\ spc = "emit"
    /\ docError' = IF docError # "none" THEN docError ELSE FirstOf(EmitOrder, flags)
    /\ reported' = TRUE
    /\ sdocs' = sdocs + 1
    /\ spc' = "gate"
    /\ UNCHANGED <<wireVars, sIntr, sTasks>>
    /\ UNCHANGED <<flags, bare, serr, relay, refused, sterm>>
------------------------------------------------------------------------------
\* The gate, and the result.

Gate ==
    /\ spc = "gate"
    /\ StopTasks
    /\ spc' = "join"
    /\ UNCHANGED <<wireVars, sIntr, sResult, accepted, slive>>

Join ==
    /\ spc = "join"
    /\ slive = {}
    /\ spc' = "return"
    /\ UNCHANGED <<wireVars, sIntr, sResult, sTasks>>

\* Fault: an end missing from the list.
TerminationOrderShort == <<"interrupted", "client_terminated", "server_error",
                           "unknown_message", "recv_failed", "send_error",
                           "recv_message_error">>

TerminationOrder == <<"interrupted", "client_terminated", "server_error",
                      "unknown_message", "ctrl_closed", "recv_failed",
                      "send_error", "recv_message_error">>

Termination(fs) ==
    IF FirstOf(TerminationOrder, fs) = "none" THEN "Completed"
    ELSE FirstOf(TerminationOrder, fs)

\* Fault: a document for every error.
RunDocumentsAll(e) == e # "none"

\* The errors run() writes a document for; for the others the round did.
RunDocuments(e) == e \in {"RecvCookieFailed", "RecvParamsFailed",
                          "SendControlFailed", "InvalidParams", "Io"}

Return ==
    /\ spc = "return"
    /\ sterm' = IF serr # "none" THEN "Err"
                ELSE IF reported THEN Termination(flags) ELSE "NoReport"
    /\ sdocs' = IF RunDocuments(serr) THEN sdocs + 1 ELSE sdocs
    /\ sEnd' = ClosedEnd(c2s)
    /\ c2s' = <<>>
    /\ spc' = "returned"
    /\ ServerFrame /\ UNCHANGED <<s2c, cEnd, sTasks>>
    /\ UNCHANGED <<flags, bare, serr, relay, refused, reported, docError>>

\* The caller drops the future at an await: DoneOnDrop, then
\* AbortStreamsOnDrop, then the sockets.
CancelServer ==
    /\ Cancellable
    /\ spc \notin {"returned", "cancelled"}
    /\ spc' = "cancelled"
    /\ StopTasks
    /\ sEnd' = ClosedEnd(c2s)
    /\ c2s' = <<>>
    /\ ServerFrame /\ UNCHANGED <<s2c, cEnd, sResult, accepted, slive>>

\* A stream task ends: an abort or done reached it, its peer closed the data
\* socket, or its I/O failed.
ServerTaskEnds(i) ==
    /\ i \in slive
    /\ slive' = slive \ {i}
    /\ UNCHANGED <<wireVars, spc, sIntr, sResult, sdone, sAborted, accepted>>

\* A signal is delivered to the server's process.
InterruptServer ==
    /\ ~sIntr
    /\ spc \notin {"returned", "cancelled"}
    /\ sIntr' = TRUE
    /\ UNCHANGED <<wireVars, spc, sResult, sTasks>>
------------------------------------------------------------------------------
\* The round's own progress, and the events it only reacts to.

ServerProgress ==
    \/ RecvCookie \/ RecvCookieFails \/ RecvParams \/ RecvParamsFails
    \/ NegotiateInterrupted
    \/ AcceptStream \/ SetupCtrlByte \/ SetupCtrlClosed \/ SetupReaped
    \/ ParkDrain \/ ParkEnds \/ ParkInterrupted
    \/ StartTest
    \/ RecvTestEnd \/ RecvClientTerminate \/ RecvTestStart \/ RecvEarlyDone
    \/ RecvUnexpected \/ RecvCtrlClosed \/ RecvHardError \/ AwaitInterrupted
    \/ ShutdownAndFlush \/ SendExchange \/ RecvResults \/ RecvResultsFails
    \/ ExchangeInterrupted \/ RecvDone \/ RecvDoneFails \/ EmitFinalOutput
    \/ Gate \/ Join \/ Return

ServerEvents ==
    \/ SetupKilled \/ SetupIoError
    \/ RateBreach \/ IdleExpired \/ WatchdogExpired
    \/ InterruptServer \/ CancelServer
    \/ \E i \in slive : ServerTaskEnds(i)

ServerStep == ServerProgress \/ ServerEvents

\* A TCP task dies of the abort; a UDP task runs on a blocking thread, which
\* abort() cannot reach, and polls done.
ServerTaskReaped(i) ==
    /\ IF test.udp THEN sdone ELSE sAborted
    /\ ServerTaskEnds(i)
------------------------------------------------------------------------------
ServerTypeOK ==
    /\ spc \in ServerPcs
    /\ sIntr \in BOOLEAN
    /\ flags \in SUBSET FlagNames
    /\ bare \in BOOLEAN
    /\ serr \in ErrNames \cup {"none"}
    /\ relay \in Codes \cup {"none"}
    /\ refused \in BOOLEAN
    /\ reported \in BOOLEAN
    /\ docError \in FlagNames \cup {"none"}
    /\ sdocs \in Nat
    /\ sterm \in FlagNames \cup {"none", "Err", "NoReport", "Completed"}
    /\ sdone \in BOOLEAN
    /\ sAborted \in BOOLEAN
    /\ accepted \in Nat
    /\ slive \in SUBSET (1..MaxStreams)
==============================================================================
