----------------------- MODULE ClientAnyServer_proofs -----------------------
(***************************************************************************)
(* Proofs about ClientAnyServer: what the client's run does whatever the   *)
(* server writes, for every set of tests and every bound.                  *)
(***************************************************************************)
EXTENDS ClientAnyServer, SequenceTheorems, TLAPS

-----------------------------------------------------------------------------
(* Documents: the library writes one with the outcome, or the report. *)

Undocumented == {"Io", "ServerBusy", "UnknownControlMessage"}

\* Leaving the run with an outcome and the document that goes with it.
LEMMA LeaveKeepsDocs ==
    ASSUME DocsInv, cpc \in Waiting, NEW v, NEW n, Leave(v, n),
           \/ v \in Documented /\ n = 1
           \/ v \in Undocumented /\ n = 0
    PROVE  DocsInv'
<1>1. cdocs = 0 /\ outcome = "none" /\ ~final
  BY DEF DocsInv, Documented, Terminations, Codes
<1>2. cdocs' = n /\ outcome' = v /\ cpc' = "teardown" /\ ~final'
  BY <1>1 DEF Leave
<1>3. v # "none" /\ v # "Completed"
  BY DEF Documented, Terminations, Codes, Undocumented
<1>4. v \in Undocumented => v \notin Documented
  BY DEF Documented, Terminations, Codes, Undocumented
<1> QED BY <1>2, <1>3, <1>4 DEF DocsInv, Waiting

LEMMA StayKeepsDocs ==
    ASSUME DocsInv, cpc \in Waiting, UNCHANGED <<final, cdocs, outcome>>,
           cpc' \in Waiting \cup {"teardown"}
    PROVE  DocsInv'
BY DEF DocsInv, Waiting

\* From the teardown on, only the join gives an outcome that was not there.
LEMMA TeardownKeepsDocs ==
    ASSUME DocsInv, UNCHANGED <<final, cdocs, outcome>>,
           cpc' \in {"grace", "join", "cancelled"}
    PROVE  DocsInv'
BY DEF DocsInv, Waiting

LEMMA JoinKeepsDocs ==
    ASSUME DocsInv, JoinAndReturn
    PROVE  DocsInv'
<1>1. /\ outcome' = IF outcome # "none" THEN outcome
                    ELSE IF results /\ final THEN "Completed" ELSE "MissingResults"
      /\ cpc' = "returned" /\ final' = final /\ cdocs' = cdocs
  BY DEF JoinAndReturn, RunCompleted
<1>2. {"none", "Completed", "MissingResults"} \cap Documented = {}
  BY DEF Documented, Terminations, Codes
<1> QED BY <1>1, <1>2 DEF DocsInv, Waiting

\* The documents are counted right whatever step is taken.
LEMMA DocsKept ==
    ASSUME DocsInv, [NextAnyServer]_varsAnyServer
    PROVE  DocsInv'
<1>1. CASE ConnectControl
  <2>1. cpc \in Waiting
    BY <1>1 DEF ConnectControl, Waiting
  <2>2. CASE Stay("loop")
    BY <2>1, <2>2, StayKeepsDocs DEF Stay, cResult, Waiting
  <2>3. CASE Leave("Io", 0)
    BY <2>1, <2>3, LeaveKeepsDocs DEF Undocumented
  <2> QED BY <1>1, <2>2, <2>3 DEF ConnectControl
<1>2. CASE OnParamExchange \/ OnExchangeResults
  <2>1. cpc \in Waiting
    BY <1>2 DEF OnParamExchange, OnExchangeResults, LoopArm, Waiting
  <2>2. CASE Stay("loop") \/ Stay("results")
    BY <2>1, <2>2, StayKeepsDocs DEF Stay, cResult, Waiting
  <2>3. CASE Leave("Io", 0)
    BY <2>1, <2>3, LeaveKeepsDocs DEF Undocumented
  <2> QED BY <1>2, <2>2, <2>3 DEF OnParamExchange, OnExchangeResults
<1>3. CASE \/ OnCreateStreams \/ OnTestStart \/ OnTestRunning \/ OnIperfDone
           \/ OnServerError \/ OnUnexpectedState
  <2>1. cpc \in Waiting
    BY <1>3 DEF OnCreateStreams, OnTestStart, OnTestRunning, OnIperfDone,
                OnServerError, OnUnexpectedState, LoopArm, Waiting
  <2>2. PICK pc \in Waiting \cup {"teardown"} : Stay(pc)
    BY <1>3 DEF OnCreateStreams, OnTestStart, OnTestRunning, OnIperfDone,
                OnServerError, OnUnexpectedState, Waiting
  <2> QED BY <2>1, <2>2, StayKeepsDocs DEF Stay, cResult
<1>4. CASE OnDisplayResults
  <2>1. cpc \in Waiting
    BY <1>4 DEF OnDisplayResults, LoopArm, Waiting
  <2>2. cdocs = 0 /\ outcome = "none"
    BY <2>1 DEF DocsInv, Documented, Terminations, Codes
  <2>3. final' /\ cdocs' = 1 /\ cpc' = "teardown" /\ outcome' \in {"none", "Io"}
    BY <1>4, <2>2 DEF OnDisplayResults
  <2> QED BY <2>3 DEF DocsInv, Waiting
<1>5. CASE OnAccessDenied \/ OnServerTerminate
  <2>1. cpc \in Waiting
    BY <1>5 DEF OnAccessDenied, OnServerTerminate, LoopArm, Waiting
  <2>2. Leave("ServerBusy", 0) \/ Leave("ServerTerminated", 1)
    BY <1>5 DEF OnAccessDenied, OnServerTerminate
  <2> QED BY <2>1, <2>2, LeaveKeepsDocs DEF Undocumented, Documented, Terminations
<1>6. CASE LoopRecvFails
  <2>1. cpc \in Waiting
    BY <1>6 DEF LoopRecvFails, Waiting
  <2>2. \/ Leave("ControlSocketClosed", 1) \/ Leave("Io", 0)
        \/ Leave("UnknownControlMessage", 0)
    BY <1>6 DEF LoopRecvFails
  <2> QED BY <2>1, <2>2, LeaveKeepsDocs DEF Undocumented, Documented
<1>7. CASE WaitInterrupted
  <2>1. cpc \in Waiting /\ Leave("Interrupted", 1)
    BY <1>7 DEF WaitInterrupted, Waiting
  <2> QED BY <2>1, LeaveKeepsDocs DEF Documented, Terminations
<1>8. CASE ConnectStream
  <2>1. /\ cpc \in Waiting /\ UNCHANGED cResult
        /\ cpc' \in {"create", "loop"}
    BY <1>8 DEF ConnectStream, Waiting
  <2> QED BY <2>1, StayKeepsDocs DEF cResult, Waiting
<1>9. CASE ConnectStreamFails
  <2>1. cpc \in Waiting /\ Leave("Io", 0)
    BY <1>9 DEF ConnectStreamFails, Waiting
  <2> QED BY <2>1, LeaveKeepsDocs DEF Undocumented
<1>10. CASE EndCondition \/ WatchControl \/ RunInterrupted
  <2>1. cpc \in Waiting /\ UNCHANGED <<final, cdocs, outcome>> /\ cpc' \in {"run", "ending"}
    BY <1>10 DEF EndCondition, WatchControl, RunInterrupted, RunEnds, Waiting, cResult
  <2> QED BY <2>1, StayKeepsDocs DEF Waiting
<1>11. CASE OnRunEnded
  <2>1. cpc \in Waiting
    BY <1>11 DEF OnRunEnded, Waiting
  <2>2. CASE Stay("payload") \/ Stay("loop")
    BY <2>1, <2>2, StayKeepsDocs DEF Stay, cResult, Waiting
  <2>3. CASE \/ Leave("ServerTerminated", 1) \/ Leave("Interrupted", 1)
             \/ Leave("ControlSocketClosed", 1) \/ Leave("Io", 0)
    BY <2>1, <2>3, LeaveKeepsDocs DEF Undocumented, Documented, Terminations
  <2> QED BY <1>11, <2>2, <2>3 DEF OnRunEnded
<1>12. CASE OnServerErrorRelay
  <2>1. cpc \in Waiting
    BY <1>12 DEF OnServerErrorRelay, Waiting
  <2>2. PICK v \in Codes \cup {"ServerErrorUnknown"} : Leave(v, 1)
    BY <1>12 DEF OnServerErrorRelay
  <2>3. v \in Documented
    BY DEF Documented, Terminations, Codes
  <2> QED BY <2>1, <2>2, <2>3, LeaveKeepsDocs
<1>13. CASE RecvServerResults
  <2>1. cpc \in Waiting /\ UNCHANGED <<final, cdocs, outcome>> /\ cpc' = "loop"
    BY <1>13 DEF RecvServerResults, Waiting
  <2> QED BY <2>1, StayKeepsDocs DEF Waiting
<1>14. CASE RecvServerResultsFails
  <2>1. cpc \in Waiting /\ Leave("RecvResultsFailed", 1)
    BY <1>14 DEF RecvServerResultsFails, Waiting
  <2> QED BY <2>1, LeaveKeepsDocs DEF Documented
<1>15. CASE Teardown \/ GraceEnds \/ ClientDies
  BY <1>15, TeardownKeepsDocs DEF Teardown, GraceEnds, ClientDies, cResult
<1>16. CASE JoinAndReturn
  BY <1>16, JoinKeepsDocs
<1>17. CASE \/ InterruptClient \/ \E i \in clive : ClientTaskEnds(i)
            \/ AnyServerStep \/ UNCHANGED varsAnyServer
  <2>1. UNCHANGED <<cpc, cResult>>
    BY <1>17 DEF InterruptClient, ClientTaskEnds, AnyServerStep, varsAnyServer, clientVars
  <2> QED BY <2>1 DEF cResult, DocsInv
<1> QED BY <1>1, <1>2, <1>3, <1>4, <1>5, <1>6, <1>7, <1>8, <1>9, <1>10, <1>11, <1>12,
           <1>13, <1>14, <1>15, <1>16, <1>17
           DEF NextAnyServer, ClientStep, ClientProgress, ClientOddStates, ClientEvents

-----------------------------------------------------------------------------
(* done before the abort. *)

LEMMA DoneKept ==
    ASSUME DoneInv, [NextAnyServer]_varsAnyServer
    PROVE  DoneInv'
<1>1. CASE \/ ConnectControl \/ OnParamExchange \/ OnCreateStreams \/ OnTestStart
           \/ OnTestRunning \/ OnExchangeResults \/ OnServerError
           \/ OnServerTerminate \/ LoopRecvFails \/ WaitInterrupted \/ OnIperfDone
           \/ OnAccessDenied \/ OnUnexpectedState \/ OnRunEnded \/ OnServerErrorRelay
           \/ RecvServerResultsFails \/ ConnectStreamFails
  <2>1. /\ UNCHANGED <<cdone, cAborted>>
        /\ cpc' \in {"loop", "create", "run", "results", "payload", "teardown"}
    BY <1>1 DEF ConnectControl, OnParamExchange, OnCreateStreams, OnTestStart,
         OnTestRunning, OnExchangeResults, OnServerError, OnServerTerminate,
         LoopRecvFails, WaitInterrupted, OnIperfDone, OnAccessDenied,
         OnUnexpectedState, OnRunEnded, OnServerErrorRelay,
         RecvServerResultsFails, ConnectStreamFails, Leave, Stay, cTasks
  <2> QED BY <2>1 DEF DoneInv
<1>2. CASE OnDisplayResults \/ ConnectStream \/ RecvServerResults
  BY <1>2 DEF OnDisplayResults, ConnectStream, RecvServerResults, cTasks, DoneInv
<1>3. CASE EndCondition \/ WatchControl \/ RunInterrupted
  BY <1>3 DEF EndCondition, WatchControl, RunInterrupted, RunEnds, cTasks, DoneInv
<1>4. CASE Teardown \/ GraceEnds \/ JoinAndReturn \/ ClientDies
  BY <1>4 DEF Teardown, GraceEnds, JoinAndReturn, ClientDies, AbortClientTasks,
              cTasks, DoneInv
<1>5. CASE \/ InterruptClient \/ \E i \in clive : ClientTaskEnds(i)
           \/ AnyServerStep \/ UNCHANGED varsAnyServer
  BY <1>5 DEF InterruptClient, ClientTaskEnds, AnyServerStep, varsAnyServer,
              clientVars, cTasks, DoneInv
<1> QED BY <1>1, <1>2, <1>3, <1>4, <1>5
           DEF NextAnyServer, ClientStep, ClientProgress, ClientOddStates, ClientEvents

-----------------------------------------------------------------------------
(* Types, and how often the client is asked for streams. *)

\* What is in flight never asks twice: reading takes the one demand there is.
LEMMA ReadTakesDemand ==
    ASSUME TypeOKAnyServer, AskedInv, s2c # <<>>, s2c' = Tail(s2c)
    PROVE  s2c' \in Seq(Items) /\ \A i \in DOMAIN s2c' : s2c'[i] # "CreateStreams"
<1>1. s2c \in Seq(Items)
  BY DEF TypeOKAnyServer, WireTypeOK
<1>2. s2c' \in Seq(Items)
  BY <1>1, HeadTailProperties
<1>3. ASSUME NEW i \in DOMAIN s2c' PROVE s2c'[i] # "CreateStreams"
  <2>1. i \in 1..(Len(s2c) - 1) /\ s2c'[i] = s2c[i + 1] /\ Len(s2c) \in Nat
    BY <1>1, <1>3, HeadTailProperties
  <2>2. i + 1 \in DOMAIN s2c /\ i + 1 # 1
    BY <1>1, <2>1
  <2> QED BY <2>1, <2>2 DEF AskedInv
<1> QED BY <1>2, <1>3

\* A message of the client and the fate of its end.
LEMMA SendTypes ==
    ASSUME TypeOKAnyServer, NEW m \in Items,
           CClientSend(<<m>>) \/ ClientSendFails \/ UNCHANGED <<c2s, sEnd>>
    PROVE  c2s' \in Seq(Items) /\ sEnd' \in Ends
<1>1. c2s \in Seq(Items) /\ sEnd \in Ends /\ <<m>> \in Seq(Items)
  BY DEF TypeOKAnyServer, WireTypeOK
<1>2. c2s \o <<m>> \in Seq(Items)
  BY <1>1, ConcatProperties
<1> QED BY <1>1, <1>2 DEF CClientSend, ClientSendFails, Ends

\* What a step of the client leaves of the wire and its result.
WireStep ==
    /\ UNCHANGED <<test, cEnd>> /\ c2s' \in Seq(Items) /\ sEnd' \in Ends
    /\ s2c' = s2c \/ (s2c # <<>> /\ s2c' = Tail(s2c))

ResultTypes ==
    /\ cpc' \in ClientPcs /\ cIntr' \in BOOLEAN
    /\ event' \in {"none", "Terminated", "Interrupted", "ServerError", "Closed"}
    /\ results' \in BOOLEAN /\ final' \in BOOLEAN /\ cdocs' \in Nat
    /\ outcome' \in Terminations \cup ClientErrs \cup {"none"}

\* A step that connects no stream and does not ask for one.
LEMMA PlainStep ==
    ASSUME TypeOKAnyServer, AskedInv, WireStep, ResultTypes, UNCHANGED <<dialed, batch>>,
           cdone' \in BOOLEAN, cstarted' \in BOOLEAN, cAborted' \in BOOLEAN,
           clive' \subseteq clive, cpc' # "create",
           cpc \in Waiting \ {"create"} \/ cpc' \notin Waiting
    PROVE  TypeOKAnyServer' /\ AskedInv'
<1>1. s2c' \in Seq(Items)
  BY ReadTakesDemand DEF WireStep, TypeOKAnyServer, WireTypeOK
<1>2. TypeOKAnyServer'
  BY <1>1 DEF TypeOKAnyServer, WireTypeOK, ClientTypeOK, WireStep, ResultTypes
<1>3. cpc' \in Waiting \ {"create"} => batch' = 0
  BY DEF AskedInv
<1>4. ASSUME NEW i \in DOMAIN s2c', s2c'[i] = "CreateStreams"
      PROVE  i = 1 /\ dialed' + Total(test)' <= MaxStreams
  <2>1. s2c' = s2c
    BY <1>4, ReadTakesDemand DEF WireStep
  <2> QED BY <1>4, <2>1 DEF AskedInv, WireStep, Total
<1> QED BY <1>2, <1>3, <1>4 DEF AskedInv

\* The run leaves the loop with a value.
LEMMA LeaveTypes ==
    ASSUME TypeOKAnyServer, NEW v \in (Terminations \cup ClientErrs), NEW n \in {0, 1}, Leave(v, n),
           cIntr' = cIntr
    PROVE  ResultTypes /\ cpc' = "teardown"
BY DEF Leave, TypeOKAnyServer, ClientTypeOK, ResultTypes, ClientPcs

LEMMA StayTypes ==
    ASSUME TypeOKAnyServer, NEW pc \in ClientPcs, Stay(pc), cIntr' = cIntr
    PROVE  ResultTypes /\ cpc' = pc
BY DEF Stay, cResult, TypeOKAnyServer, ClientTypeOK, ResultTypes

Values == Terminations \cup ClientErrs

\* What a server writes at once is a sequence of items, and a demand for
\* streams stands alone.
LEMMA AnswerType ==
    ASSUME NEW ms \in Answers
    PROVE  /\ ms \in Seq(Items)
           /\ \A i \in DOMAIN ms : ms[i] = "CreateStreams" => i = 1 /\ ms = <<"CreateStreams">>
<1>1. CASE \E m \in States \cup {Unmapped, "Results"} \cup Numbers : ms = <<m>>
  <2>1. PICK m \in States \cup {Unmapped, "Results"} \cup Numbers : ms = <<m>>
    BY <1>1
  <2>2. m \in Items
    BY <2>1, ServerInFlightAssumption DEF Items, Frames
  <2> QED BY <2>1, <2>2
<1>2. CASE \E n \in Numbers : ms = Relay(n)
  <2>1. PICK n \in Codes : ms = <<"ServerError", n>>
    BY <1>2, ServerInFlightAssumption DEF Relay
  <2>2. n # "CreateStreams" /\ n \in Items /\ "ServerError" \in Items
    BY DEF Codes, Items, States
  <2> QED BY <2>1, <2>2
<1>3. ASSUME NEW a \in Items \ {"CreateStreams"}, NEW b \in Items \ {"CreateStreams"},
             ms = <<a, b>>
      PROVE  ms \in Seq(Items) /\ \A i \in DOMAIN ms : ms[i] # "CreateStreams"
  BY <1>3
<1>4. {"TestStart", "TestRunning", "Results", "DisplayResults"} \subseteq Items \ {"CreateStreams"}
  BY DEF Items, States, Frames
<1> QED BY <1>1, <1>2, <1>3, <1>4 DEF Answers

\* Whatever the server does, the wire keeps its type.
LEMMA AnyServerTypes ==
    ASSUME TypeOKAnyServer, AnyServerStep
    PROVE  c2s' \in Seq(Items) /\ s2c' \in Seq(Items) /\ cEnd' \in Ends /\ sEnd' \in Ends
<1>1. c2s \in Seq(Items) /\ s2c \in Seq(Items) /\ cEnd \in Ends /\ sEnd \in Ends
  BY DEF TypeOKAnyServer, WireTypeOK
<1>2. <<>> \in Seq(Items)
  OBVIOUS
<1>3. c2s # <<>> => Tail(c2s) \in Seq(Items)
  BY <1>1, HeadTailProperties
<1>4. CASE ServerHears /\ UNCHANGED <<s2c, cEnd>>
  BY <1>1, <1>2, <1>3, <1>4 DEF ServerHears, Ends
<1>5. CASE ServerHears /\ ServerWrites
  <2>1. c2s' \in Seq(Items) /\ sEnd' \in Ends
    BY <1>1, <1>2, <1>3, <1>5 DEF ServerHears, Ends
  <2>2. PICK ms \in Answers : SServerSend(ms)
    BY <1>5 DEF ServerWrites
  <2>3. s2c \o ms \in Seq(Items)
    BY <1>1, AnswerType, ConcatProperties
  <2> QED BY <1>1, <2>1, <2>2, <2>3 DEF SServerSend, Ends
<1>6. CASE ServerCloses
  BY <1>1, <1>2, <1>6 DEF ServerCloses, ClosedEnd, Ends
<1> QED BY <1>4, <1>5, <1>6 DEF AnyServerStep

\* It asks for streams only where nothing else is in flight.
LEMMA AnyServerAsks ==
    ASSUME TypeOKAnyServer, AskedInv, AnyServerStep
    PROVE  \A i \in DOMAIN s2c' : s2c'[i] = "CreateStreams" =>
               i = 1 /\ cpc # "create" /\ dialed + Total(test) <= MaxStreams
<1>1. CASE s2c' = s2c
  BY <1>1 DEF AskedInv
<1>2. CASE \E ms \in Answers : /\ ms = <<"CreateStreams">> => MayAsk
                               /\ s2c' = s2c \o ms
  <2>1. PICK ms \in Answers : (ms = <<"CreateStreams">> => MayAsk) /\ s2c' = s2c \o ms
    BY <1>2
  <2>2. s2c \in Seq(Items) /\ ms \in Seq(Items)
    BY AnswerType DEF TypeOKAnyServer, WireTypeOK
  <2> SUFFICES ASSUME NEW i \in DOMAIN s2c', s2c'[i] = "CreateStreams"
               PROVE  i = 1 /\ cpc # "create" /\ dialed + Total(test) <= MaxStreams
    OBVIOUS
  <2>3. /\ i \in 1..(Len(s2c) + Len(ms)) /\ Len(s2c) \in Nat /\ Len(ms) \in Nat
        /\ i <= Len(s2c) => s2c'[i] = s2c[i]
        /\ i > Len(s2c) => s2c'[i] = ms[i - Len(s2c)]
    BY <2>1, <2>2, ConcatProperties
  <2>4. CASE i <= Len(s2c)
    <3>1. i \in DOMAIN s2c /\ s2c[i] = "CreateStreams"
      BY <2>2, <2>3, <2>4
    <3> QED BY <3>1 DEF AskedInv
  <2>5. CASE i > Len(s2c)
    <3>1. i - Len(s2c) \in DOMAIN ms /\ ms[i - Len(s2c)] = "CreateStreams"
      BY <2>2, <2>3, <2>5
    <3>2. i - Len(s2c) = 1 /\ ms = <<"CreateStreams">>
      BY <3>1, AnswerType
    <3>3. MayAsk
      BY <2>1, <3>2
    <3>4. s2c = <<>>
      BY <3>3 DEF MayAsk
    <3>5. Len(s2c) = 0
      BY <3>4
    <3> QED BY <2>3, <3>2, <3>3, <3>5 DEF MayAsk
  <2> QED BY <2>3, <2>4, <2>5
<1> QED BY <1>1, <1>2 DEF AnyServerStep, ServerWrites, ServerCloses, SServerSend

LEMMA TypesKept ==
    ASSUME TypeOKAnyServer, AskedInv, [NextAnyServer]_varsAnyServer
    PROVE  TypeOKAnyServer' /\ AskedInv'
<1> USE DEF Waiting
<1>0. /\ {"Cookie", "Params", "Results", "IperfDone", "ClientTerminate", "TestEnd"}
           \subseteq Items
      /\ {"loop", "results", "run", "payload", "teardown"} \subseteq ClientPcs
      /\ {"Io", "ServerBusy", "ServerTerminated", "ControlSocketClosed",
          "UnknownControlMessage", "Interrupted", "ServerErrorUnknown",
          "RecvResultsFailed"} \cup Codes \subseteq Terminations \cup ClientErrs
      /\ <<>> \in Seq(Items)
  BY DEF Items, States, Frames, ClientPcs, Terminations, ClientErrs
<1>1. CASE ConnectControl \/ OnParamExchange \/ OnExchangeResults \/ WaitInterrupted
  <2>1. PICK m \in Items : CClientSend(<<m>>) \/ ClientSendFails
    BY <1>0, <1>1 DEF ConnectControl, OnParamExchange, OnExchangeResults, WaitInterrupted
  <2>2. /\ \/ Stay("loop") \/ Stay("results") \/ Leave("Io", 0)
           \/ Leave("Interrupted", 1)
        /\ ClientFrame /\ UNCHANGED <<dialed, cTasks>>
        /\ s2c' = s2c \/ (s2c # <<>> /\ s2c' = Tail(s2c))
        /\ cpc \in Waiting \ {"create"}
    <3>1. CASE ConnectControl
      BY <3>1 DEF ConnectControl
    <3>2. CASE OnParamExchange
      BY <3>2 DEF OnParamExchange, LoopArm, ClientSees, ClientReads
    <3>3. CASE OnExchangeResults
      BY <3>3 DEF OnExchangeResults, LoopArm, ClientSees, ClientReads
    <3>4. CASE WaitInterrupted
      BY <3>4 DEF WaitInterrupted
    <3> QED BY <1>1, <3>1, <3>2, <3>3, <3>4
  <2>3. ResultTypes /\ cpc' # "create"
    BY <1>0, <2>2, StayTypes, LeaveTypes DEF ClientFrame
  <2>4. WireStep
    BY <2>1, <2>2, SendTypes DEF WireStep, ClientFrame
  <2> QED BY <2>2, <2>3, <2>4, PlainStep DEF cTasks, TypeOKAnyServer, ClientTypeOK
<1>2. CASE \/ OnTestRunning \/ OnIperfDone \/ OnAccessDenied
           \/ OnServerError \/ OnServerTerminate \/ OnUnexpectedState
  <2>1. /\ \/ Stay("loop") \/ Stay("run") \/ Stay("teardown") \/ Stay("payload")
           \/ Leave("ServerBusy", 0) \/ Leave("ServerTerminated", 1)
        /\ ClientFrame /\ UNCHANGED <<c2s, sEnd, dialed, cTasks>>
        /\ s2c # <<>> /\ s2c' = Tail(s2c) /\ cpc \in Waiting \ {"create"}
    BY <1>2 DEF OnTestRunning, OnIperfDone, OnAccessDenied, OnServerError,
                OnServerTerminate, OnUnexpectedState, LoopArm, ClientSees, ClientReads
  <2>2. ResultTypes /\ cpc' # "create"
    BY <1>0, <2>1, StayTypes, LeaveTypes DEF ClientFrame
  <2>3. WireStep
    BY <2>1 DEF WireStep, ClientFrame, TypeOKAnyServer, WireTypeOK
  <2> QED BY <2>1, <2>2, <2>3, PlainStep DEF cTasks, TypeOKAnyServer, ClientTypeOK
<1>3. CASE OnTestStart
  <2>1. /\ Stay("loop") /\ ClientFrame /\ UNCHANGED <<c2s, sEnd, dialed>> /\ cpc = "loop"
        /\ UNCHANGED <<cdone, cAborted, batch, clive>> /\ cstarted' = TRUE
        /\ s2c # <<>> /\ s2c' = Tail(s2c)
    BY <1>3 DEF OnTestStart, LoopArm, ClientSees, ClientReads
  <2>2. ResultTypes /\ cpc' # "create"
    BY <1>0, <2>1, StayTypes DEF ClientFrame
  <2>3. WireStep
    BY <2>1 DEF WireStep, ClientFrame, TypeOKAnyServer, WireTypeOK
  <2> QED BY <2>1, <2>2, <2>3, PlainStep DEF TypeOKAnyServer, ClientTypeOK
<1>4. CASE OnDisplayResults
  <2>1. /\ CClientSend(<<"IperfDone">>) \/ ClientSendFails
        /\ ClientFrame /\ UNCHANGED <<dialed, cTasks, event, results>>
        /\ final' = TRUE /\ cdocs' = cdocs + 1 /\ outcome' \in {outcome, "Io"}
        /\ s2c # <<>> /\ s2c' = Tail(s2c) /\ cpc' = "teardown"
    BY <1>4 DEF OnDisplayResults, LoopArm, ClientSees, ClientReads
  <2>2. ResultTypes
    BY <1>0, <2>1 DEF ClientFrame, ResultTypes, TypeOKAnyServer, ClientTypeOK
  <2>3. WireStep
    BY <1>0, <2>1, SendTypes DEF WireStep, ClientFrame
  <2> QED BY <2>1, <2>2, <2>3, PlainStep DEF cTasks, TypeOKAnyServer, ClientTypeOK
<1>5. CASE LoopRecvFails \/ OnServerErrorRelay \/ RecvServerResultsFails
           \/ ConnectStreamFails
  <2>1. PICK v \in Values, n \in {0, 1} : Leave(v, n)
    BY <1>0, <1>5 DEF LoopRecvFails, OnServerErrorRelay, RecvServerResultsFails,
                      ConnectStreamFails, Values
  <2>2. /\ ClientFrame /\ UNCHANGED <<c2s, sEnd, dialed, cTasks>>
        /\ s2c' = s2c \/ (s2c # <<>> /\ s2c' = Tail(s2c))
    <3>1. CASE LoopRecvFails
      BY <3>1 DEF LoopRecvFails, ClientReads
    <3>2. CASE OnServerErrorRelay
      BY <3>2 DEF OnServerErrorRelay, ClientReads
    <3>3. CASE RecvServerResultsFails
      BY <3>3 DEF RecvServerResultsFails, ClientReads
    <3>4. CASE ConnectStreamFails
      BY <3>4 DEF ConnectStreamFails
    <3> QED BY <1>5, <3>1, <3>2, <3>3, <3>4
  <2>3. ResultTypes /\ cpc' = "teardown"
    BY <2>1, <2>2, LeaveTypes DEF ClientFrame, Values
  <2>4. WireStep
    BY <2>2 DEF WireStep, ClientFrame, TypeOKAnyServer, WireTypeOK
  <2> QED BY <2>2, <2>3, <2>4, PlainStep DEF cTasks, TypeOKAnyServer, ClientTypeOK
<1>6. CASE EndCondition \/ WatchControl \/ RunInterrupted
  <2>1. /\ ClientFrame /\ UNCHANGED <<c2s, sEnd, dialed, results, final, cdocs, outcome,
                                      cstarted, cAborted, batch, clive>>
        /\ s2c' = s2c \/ (s2c # <<>> /\ s2c' = Tail(s2c))
        /\ cpc = "run" /\ cpc' \in {"run", "ending"} /\ cdone' \in {cdone, TRUE}
        /\ event' \in {event, "none", "Terminated", "ServerError", "Closed", "Interrupted"}
    <3>1. CASE EndCondition \/ RunInterrupted
      BY <3>1 DEF EndCondition, RunInterrupted, RunEnds, cTasks
    <3>2. CASE WatchControl
      BY <3>2 DEF WatchControl, RunEnds, ClientSees, ClientReads, cResult, cTasks
    <3> QED BY <1>6, <3>1, <3>2
  <2>2. ResultTypes
    BY <2>1 DEF ClientFrame, ResultTypes, TypeOKAnyServer, ClientTypeOK, ClientPcs
  <2>3. WireStep
    BY <2>1 DEF WireStep, ClientFrame, TypeOKAnyServer, WireTypeOK
  <2> QED BY <2>1, <2>2, <2>3, PlainStep DEF TypeOKAnyServer, ClientTypeOK
<1>7. CASE OnRunEnded
  <2>1. PICK m \in Items : CClientSend(<<m>>) \/ ClientSendFails \/ UNCHANGED <<c2s, sEnd>>
    BY <1>0, <1>7 DEF OnRunEnded
  <2>2. /\ \/ Leave("ServerTerminated", 1) \/ Leave("Interrupted", 1)
           \/ Leave("ControlSocketClosed", 1) \/ Leave("Io", 0)
           \/ Stay("payload") \/ Stay("loop")
        /\ ClientFrame /\ UNCHANGED <<s2c, dialed, cTasks>> /\ cpc = "ending"
    BY <1>7 DEF OnRunEnded
  <2>3. ResultTypes /\ cpc' # "create"
    BY <1>0, <2>2, StayTypes, LeaveTypes DEF ClientFrame
  <2>4. WireStep
    BY <2>1, <2>2, SendTypes DEF WireStep, ClientFrame
  <2> QED BY <2>2, <2>3, <2>4, PlainStep DEF cTasks, TypeOKAnyServer, ClientTypeOK
<1>8. CASE RecvServerResults
  <2>1. /\ cpc = "results" /\ s2c # <<>> /\ s2c' = Tail(s2c) /\ results' = TRUE
        /\ cpc' = "loop" /\ UNCHANGED <<event, final, cdocs, outcome>>
        /\ ClientFrame /\ UNCHANGED <<c2s, sEnd, dialed, cTasks>>
    BY <1>8 DEF RecvServerResults, ClientSees, ClientReads
  <2>2. ResultTypes /\ WireStep
    BY <2>1 DEF ClientFrame, WireStep, ResultTypes, TypeOKAnyServer, WireTypeOK, ClientTypeOK,
                ClientPcs
  <2> QED BY <2>1, <2>2, PlainStep DEF cTasks, TypeOKAnyServer, ClientTypeOK
<1>9. CASE Teardown \/ GraceEnds
  <2>1. /\ UNCHANGED <<wireVars, cIntr, cResult, cstarted, batch, clive>>
        /\ cpc' \in {"grace", "join"} /\ cdone' \in {cdone, TRUE} /\ cAborted' \in {cAborted, TRUE}
    BY <1>9 DEF Teardown, GraceEnds, AbortClientTasks
  <2>2. ResultTypes
    BY <2>1 DEF cResult, ResultTypes, TypeOKAnyServer, ClientTypeOK, ClientPcs
  <2>3. WireStep
    BY <2>1 DEF wireVars, WireStep, TypeOKAnyServer, WireTypeOK
  <2> QED BY <2>1, <2>2, <2>3, PlainStep DEF wireVars, TypeOKAnyServer, ClientTypeOK
<1>10. CASE JoinAndReturn \/ ClientDies
  <2>1. /\ UNCHANGED <<test, c2s, sEnd, dialed, cIntr, event, results, final, cdocs,
                       cstarted, batch, clive>>
        /\ cEnd' \in {"rst", "fin"} /\ s2c' = <<>> /\ cpc' \in {"returned", "cancelled"}
        /\ cdone' \in {cdone, TRUE} /\ cAborted' \in {cAborted, TRUE}
        /\ outcome' \in {outcome, "Completed", "MissingResults"}
    BY <1>10 DEF JoinAndReturn, ClientDies, AbortClientTasks, ClosedEnd, cResult, cTasks
  <2>2. TypeOKAnyServer'
    <3>1. WireTypeOK'
      BY <1>0, <2>1 DEF TypeOKAnyServer, WireTypeOK, Ends
    <3>2. ClientTypeOK'
      <4>1. outcome' \in Terminations \cup ClientErrs \cup {"none"}
        BY <2>1 DEF TypeOKAnyServer, ClientTypeOK, Terminations, ClientErrs
      <4>2. cdone' \in BOOLEAN /\ cAborted' \in BOOLEAN /\ cpc' \in ClientPcs
        BY <2>1 DEF TypeOKAnyServer, ClientTypeOK, ClientPcs
      <4> QED BY <2>1, <4>1, <4>2 DEF TypeOKAnyServer, ClientTypeOK
    <3> QED BY <3>1, <3>2 DEF TypeOKAnyServer
  <2> QED BY <2>1, <2>2 DEF AskedInv
<1>11. CASE OnCreateStreams
  <2>1. /\ cpc = "loop" /\ s2c # <<>> /\ Head(s2c) = "CreateStreams" /\ s2c' = Tail(s2c)
        /\ cpc' = "create" /\ UNCHANGED <<test, cEnd, cIntr, c2s, sEnd, dialed>>
        /\ UNCHANGED <<cResult, cTasks>>
    BY <1>11 DEF OnCreateStreams, LoopArm, ClientSees, ClientReads, Stay, ClientFrame
  <2>2. s2c' \in Seq(Items) /\ \A i \in DOMAIN s2c' : s2c'[i] # "CreateStreams"
    BY <2>1, ReadTakesDemand
  <2>3. TypeOKAnyServer'
    BY <2>1, <2>2 DEF TypeOKAnyServer, WireTypeOK, ClientTypeOK, ClientPcs, cResult, cTasks
  <2>4. batch = 0 /\ dialed + Total(test) <= MaxStreams
    <3>1. s2c \in Seq(Items) /\ 1 \in DOMAIN s2c /\ s2c[1] = "CreateStreams"
      BY <2>1 DEF TypeOKAnyServer, WireTypeOK
    <3> QED BY <2>1, <3>1 DEF AskedInv
  <2>5. Total(test) \in 1..MaxStreams /\ MaxStreams \in Nat
    BY TestsAssumption DEF TypeOKAnyServer, WireTypeOK
  <2>6. batch' = 0 /\ dialed' = dialed /\ Total(test)' = Total(test) /\ dialed \in Nat
    BY <2>1, <2>4 DEF cTasks, Total, TypeOKAnyServer, WireTypeOK
  <2> QED BY <2>1, <2>2, <2>3, <2>4, <2>5, <2>6 DEF AskedInv
<1>12. CASE ConnectStream
  <2>1. /\ cpc = "create" /\ dialed' = dialed + 1 /\ clive' = clive \cup {dialed + 1}
        /\ \/ batch + 1 < Total(test) /\ batch' = batch + 1 /\ cpc' = "create"
           \/ ~(batch + 1 < Total(test)) /\ batch' = 0 /\ cpc' = "loop"
        /\ UNCHANGED <<test, cEnd, cIntr, c2s, s2c, sEnd, cResult, cdone, cstarted, cAborted>>
    BY <1>12 DEF ConnectStream, ClientFrame
  <2>2. /\ batch < Total(test) /\ dialed + Total(test) <= MaxStreams + batch
        /\ \A i \in DOMAIN s2c : s2c[i] # "CreateStreams"
    BY <2>1 DEF AskedInv
  <2>3. /\ Total(test) \in 1..MaxStreams /\ MaxStreams \in Nat /\ dialed \in Nat
        /\ batch \in Nat /\ Total(test)' = Total(test)
    BY <2>1, TestsAssumption DEF TypeOKAnyServer, WireTypeOK, ClientTypeOK, Total
  <2>4. dialed + 1 \in 1..MaxStreams
    BY <2>2, <2>3
  <2>5. TypeOKAnyServer'
    BY <2>1, <2>3, <2>4 DEF TypeOKAnyServer, WireTypeOK, ClientTypeOK, ClientPcs, cResult
  <2> QED BY <2>1, <2>2, <2>3, <2>5 DEF AskedInv
<1>13. CASE InterruptClient \/ (\E i \in clive : ClientTaskEnds(i)) \/ UNCHANGED varsAnyServer
  <2>1. /\ UNCHANGED <<wireVars, cpc, cResult, cdone, cstarted, cAborted, batch>>
        /\ clive' \subseteq clive /\ cIntr' \in {cIntr, TRUE}
    BY <1>13 DEF InterruptClient, ClientTaskEnds, varsAnyServer, clientVars, cTasks
  <2>2. TypeOKAnyServer'
    BY <2>1 DEF wireVars, cResult, TypeOKAnyServer, WireTypeOK, ClientTypeOK
  <2> QED BY <2>1, <2>2 DEF wireVars, AskedInv, Total
<1>14. CASE AnyServerStep
  <2>1. UNCHANGED <<test, dialed, clientVars>>
    BY <1>14 DEF AnyServerStep
  <2>2. TypeOKAnyServer'
    <3>1. WireTypeOK'
      BY <1>14, <2>1, AnyServerTypes DEF TypeOKAnyServer, WireTypeOK
    <3>2. ClientTypeOK'
      BY <2>1 DEF clientVars, cResult, cTasks, TypeOKAnyServer, ClientTypeOK
    <3> QED BY <3>1, <3>2 DEF TypeOKAnyServer
  <2>3. \A i \in DOMAIN s2c' : s2c'[i] = "CreateStreams" =>
            i = 1 /\ cpc # "create" /\ dialed + Total(test) <= MaxStreams
    BY <1>14, AnyServerAsks
  <2> QED BY <2>1, <2>2, <2>3 DEF clientVars, cTasks, AskedInv, Total
<1> QED BY <1>1, <1>2, <1>3, <1>4, <1>5, <1>6, <1>7, <1>8, <1>9, <1>10, <1>11, <1>12,
           <1>13, <1>14
           DEF NextAnyServer, ClientStep, ClientProgress, ClientOddStates, ClientEvents

-----------------------------------------------------------------------------
(* The theorems. *)

LEMMA InitInvAnyServer == InitAnyServer => InvAnyServer
<1> SUFFICES ASSUME InitAnyServer PROVE InvAnyServer
  OBVIOUS
<1>1. TypeOKAnyServer
  <2>1. <<>> \in Seq(Items)
    OBVIOUS
  <2> QED BY <2>1 DEF InitAnyServer, WireInit, ClientInit, TypeOKAnyServer, WireTypeOK, ClientTypeOK, Ends, ClientPcs
<1>2. DocsInv /\ DoneInv /\ AskedInv
  BY DEF InitAnyServer, WireInit, ClientInit, DocsInv, DoneInv, AskedInv, Documented,
         Terminations, Codes
<1> QED BY <1>1, <1>2 DEF InvAnyServer

\* Types, the count of documents and the order of done and abort hold whatever
\* the server writes (client.rs, Client::run).
THEOREM ClientInvariance == SpecAnyServer => []InvAnyServer
<1>1. InvAnyServer /\ [NextAnyServer]_varsAnyServer => InvAnyServer'
  BY TypesKept, DocsKept, DoneKept DEF InvAnyServer
<1> QED BY InitInvAnyServer, <1>1, PTL DEF SpecAnyServer

\* Under -J the library (client.rs) and main() print, between them, exactly one
\* document for a run without a signal and at most one after a signal, whatever
\* the server's states and in whatever order; but exactly two where the run
\* fails after it displayed its report (see ExactlyOneDocument).
THEOREM OneDocumentAlways == SpecAnyServer => []OneDocument
<1>1. InvAnyServer => OneDocument
  <2> SUFFICES ASSUME InvAnyServer, cpc = "returned" PROVE OneDocument
    BY DEF OneDocument
  <2>1. /\ cdocs = IF final \/ outcome \in Documented THEN 1 ELSE 0
        /\ final => outcome \in {"Io", "Completed", "MissingResults"}
        /\ outcome \in Terminations \cup ClientErrs
        /\ outcome = "Completed" => final
    BY DEF InvAnyServer, DocsInv, TypeOKAnyServer, ClientTypeOK
  <2>2. \/ outcome \in Documented
        \/ outcome = "Completed"
        \/ outcome \in ClientErrs \ {"ControlSocketClosed", "RecvResultsFailed"}
    BY <2>1 DEF Documented
  <2>3. Documented \cap {"Io", "Completed", "MissingResults"} = {}
    BY DEF Documented, Terminations, Codes
  <2>4. /\ "Completed" \notin ClientErrs /\ {"Io", "MissingResults"} \subseteq ClientErrs
        /\ Documented \cap ClientErrs = {"ControlSocketClosed", "RecvResultsFailed"}
    BY DEF ClientErrs, Documented, Terminations, Codes
  <2>5. CASE cIntr
    BY <2>1, <2>5 DEF OneDocument
  <2>6. CASE ~cIntr /\ outcome \in Documented
    <3>1. ~final /\ cdocs = 1 /\ MainRenders = 0
      BY <2>1, <2>3, <2>4, <2>6 DEF MainRenders
    <3> QED BY <2>6, <3>1 DEF OneDocument
  <2>7. CASE ~cIntr /\ outcome = "Completed"
    <3>1. final /\ cdocs = 1 /\ MainRenders = 0 /\ outcome \notin ClientErrs
      BY <2>1, <2>3, <2>4, <2>7 DEF MainRenders
    <3> QED BY <2>7, <3>1 DEF OneDocument
  <2>8. CASE ~cIntr /\ outcome \in ClientErrs \ {"ControlSocketClosed", "RecvResultsFailed"}
    <3>1. MainRenders = 1 /\ outcome \notin Documented
      BY <2>4, <2>8 DEF MainRenders
    <3> QED BY <2>1, <2>8, <3>1 DEF OneDocument
  <2> QED BY <2>2, <2>5, <2>6, <2>7, <2>8
<1> QED BY <1>1, ClientInvariance, PTL

\* The tasks of a started test are told to stop before they are aborted, but
\* where the process dies (client.rs, the teardown and its grace).
THEOREM GraceAlwaysFirst == SpecAnyServer => GraceBeforeAbort
<1>1. InvAnyServer /\ [NextAnyServer]_varsAnyServer =>
        [(cAborted' /\ ~cAborted /\ cstarted /\ dialed > 0 /\ cpc' # "cancelled")
            => cdone]_varsAnyServer
  <2> SUFFICES ASSUME InvAnyServer, NextAnyServer, cAborted', ~cAborted, cstarted, dialed > 0,
                      cpc' # "cancelled"
               PROVE  cdone
    OBVIOUS
  <2>1. Teardown \/ GraceEnds
    BY DEF NextAnyServer, ClientStep, ClientProgress, ClientOddStates, ClientEvents,
           ConnectControl, OnParamExchange, OnCreateStreams, OnTestStart,
           OnTestRunning, OnExchangeResults, OnServerError, OnServerTerminate,
           LoopRecvFails, WaitInterrupted, OnIperfDone, OnAccessDenied,
           OnUnexpectedState, OnRunEnded, OnServerErrorRelay, OnDisplayResults,
           RecvServerResults, RecvServerResultsFails, ConnectStream,
           ConnectStreamFails, EndCondition, WatchControl, RunInterrupted, RunEnds,
           JoinAndReturn, ClientDies, InterruptClient, ClientTaskEnds,
           AnyServerStep, clientVars, cTasks
  <2>2. CASE Teardown
    BY <2>2 DEF Teardown, GraceOwed
  <2>3. CASE GraceEnds
    BY <2>3 DEF GraceEnds, InvAnyServer, DoneInv
  <2> QED BY <2>1, <2>2, <2>3
<1> QED BY <1>1, ClientInvariance, PTL DEF SpecAnyServer, GraceBeforeAbort
=============================================================================
