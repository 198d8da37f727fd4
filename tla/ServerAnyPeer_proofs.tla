------------------------ MODULE ServerAnyPeer_proofs ------------------------
(***************************************************************************)
(* Proofs about ServerAnyPeer: for every set of tests, every limit and     *)
(* every number of streams, and whatever the peer writes.                  *)
(***************************************************************************)
EXTENDS ServerAnyPeer, SequenceTheorems, TLAPS

\* A stream keeps its type when its head is read.
LEMMA ReadType ==
    ASSUME c2s \in Seq(Items), c2s # <<>>
    PROVE  Tail(c2s) \in Seq(Items) /\ Head(c2s) \in Items
BY HeadTailProperties

\* What the server writes to the control socket (protocol.rs send_state,
\* send_server_error) keeps the type of the wire.
LEMMA SendType ==
    ASSUME WireTypeOK, NEW ms \in Seq(Items), SServerSend(ms)
    PROVE  s2c' \in Seq(Items) /\ cEnd' \in Ends
BY ConcatProperties DEF WireTypeOK, SServerSend, Ends

\* The SERVER_ERROR byte and its number are items of the wire.
LEMMA RelayType ==
    ASSUME NEW code \in Codes
    PROVE  Relay(code) \in Seq(Items)
BY DEF Relay, Items, States

\* What the peer reads of it keeps the type too.
LEMMA HeardType ==
    ASSUME s2c \in Seq(Items), PeerReads
    PROVE  s2c' \in Seq(Items)
<1>1. CASE s2c' = s2c \/ s2c' = <<>>
  <2>1. <<>> \in Seq(Items)
    OBVIOUS
  <2> QED BY <1>1, <2>1
<1>2. CASE s2c # <<>> /\ s2c' = Tail(s2c)
  BY <1>2, HeadTailProperties
<1> QED BY <1>1, <1>2 DEF PeerReads

\* A single control byte is an item of the wire.
LEMMA StateType ==
    ASSUME NEW s \in States
    PROVE  <<s>> \in Seq(Items)
BY DEF Items

\* A precedence list of the round finds nothing in the empty set.
LEMMA FirstOfEmpty ==
    ASSUME NEW order
    PROVE  FirstOf(order, {}) = "none"
BY DEF FirstOf

\* It finds a single flag if it names it.
LEMMA FirstOfSingle ==
    ASSUME NEW order, NEW f, NEW i \in DOMAIN order, order[i] = f,
           \A j \in 1..(i - 1) : order[j] # f
    PROVE  FirstOf(order, {f}) = f
BY DEF FirstOf

\* It finds nothing if it does not.
LEMMA FirstOfOther ==
    ASSUME NEW order, NEW f, \A i \in DOMAIN order : order[i] # f
    PROVE  FirstOf(order, {f}) = "none"
BY DEF FirstOf

\* What shutdown_and_flush resolves a single flag to.
LEMMA FlushOrderSingle ==
    ASSUME NEW f \in FlagNames
    PROVE  FirstOf(FlushOrder, {f}) =
             IF f \in {"interrupted", "client_terminated", "server_error"}
               THEN f ELSE "none"
<1>1. CASE f \in {"interrupted", "client_terminated", "server_error"}
  <2>1. PICK i \in DOMAIN FlushOrder :
            FlushOrder[i] = f /\ \A j \in 1..(i - 1) : FlushOrder[j] # f
    BY <1>1 DEF FlushOrder
  <2> QED BY <1>1, <2>1, FirstOfSingle
<1>2. CASE f \notin {"interrupted", "client_terminated", "server_error"}
  <2>1. \A i \in DOMAIN FlushOrder : FlushOrder[i] # f
    BY <1>2 DEF FlushOrder
  <2> QED BY <1>2, <2>1, FirstOfOther
<1> QED BY <1>1, <1>2

\* The same for the order emit_final_output resolves report_error in.
LEMMA EmitOrderSingle ==
    ASSUME NEW f \in FlagNames
    PROVE  FirstOf(EmitOrder, {f}) =
             IF f \in {"server_error", "early_done"} THEN "none" ELSE f
<1>1. CASE f \notin {"server_error", "early_done"}
  <2>1. PICK i \in DOMAIN EmitOrder :
            EmitOrder[i] = f /\ \A j \in 1..(i - 1) : EmitOrder[j] # f
    BY <1>1 DEF EmitOrder, FlagNames
  <2> QED BY <1>1, <2>1, FirstOfSingle
<1>2. CASE f \in {"server_error", "early_done"}
  <2>1. \A i \in DOMAIN EmitOrder : EmitOrder[i] # f
    BY <1>2 DEF EmitOrder
  <2> QED BY <1>2, <2>1, FirstOfOther
<1> QED BY <1>1, <1>2

\* The same for the order of the Termination.
LEMMA TerminationSingle ==
    ASSUME NEW f \in FlagNames
    PROVE  Termination({f}) = IF f = "early_done" THEN "Completed" ELSE f
<1>1. CASE f # "early_done"
  <2>1. PICK i \in DOMAIN TerminationOrder :
            TerminationOrder[i] = f /\ \A j \in 1..(i - 1) : TerminationOrder[j] # f
    BY <1>1 DEF TerminationOrder, FlagNames
  <2>2. FirstOf(TerminationOrder, {f}) = f
    BY <2>1, FirstOfSingle
  <2>3. f # "none"
    BY DEF FlagNames
  <2> QED BY <1>1, <2>2, <2>3 DEF Termination
<1>2. CASE f = "early_done"
  <2>1. \A i \in DOMAIN TerminationOrder : TerminationOrder[i] # f
    BY <1>2 DEF TerminationOrder
  <2> QED BY <1>2, <2>1, FirstOfOther DEF Termination
<1> QED BY <1>1, <1>2
-----------------------------------------------------------------------------
\* The waits in which no abnormal end has been recorded yet: every arm that
\* records one leaves for flush or emit, and flush goes to the exchange only
\* if there was none.
Unflagged == {"cookie", "params", "setup", "reap", "park", "start", "await",
              "exchange", "results", "done"}

FlagsInv ==
    /\ spc \in Unflagged => flags = {}
    /\ FlagsExclusive

InvAnyPeer == TypeOKAnyPeer /\ FlagsInv

\* A fresh round satisfies the invariant.
LEMMA InitInvAnyPeer == InitAnyPeer => InvAnyPeer
<1> SUFFICES ASSUME InitAnyPeer PROVE InvAnyPeer
  OBVIOUS
<1>1. WireTypeOK
  BY DEF InitAnyPeer, WireInit, WireTypeOK, Ends
<1>2. ServerTypeOK
  BY DEF InitAnyPeer, ServerInit, ServerTypeOK, ServerPcs
<1>3. FlagsInv
  BY DEF InitAnyPeer, ServerInit, FlagsInv, FlagsExclusive
<1> QED BY <1>1, <1>2, <1>3 DEF InvAnyPeer, TypeOKAnyPeer

\* The two bytes start_test writes are items of the wire.
LEMMA StartType == <<"TestStart", "TestRunning">> \in Seq(Items)
BY DEF Items, States

\* So are the results and the DISPLAY_RESULTS byte behind them.
LEMMA ResultsType == <<"Results", "DisplayResults">> \in Seq(Items)
BY DEF Items, States, Frames

\* Every step keeps the type of the wire.
LEMMA NextWireType == TypeOKAnyPeer /\ [NextAnyPeer]_varsAnyPeer => WireTypeOK'
<1> SUFFICES ASSUME TypeOKAnyPeer, [NextAnyPeer]_varsAnyPeer PROVE WireTypeOK'
  OBVIOUS
<1> USE DEF TypeOKAnyPeer, WireTypeOK, Ends
<1>1. CASE RecvCookie
  BY <1>1, ReadType, SendType, StateType, RelayType DEF RecvCookie, ServerSees,
     ServerReads, BestEffort, States, Codes, wireVars, ServerFrame
<1>2. CASE RecvCookieFails
  BY <1>2, ReadType, SendType, RelayType DEF RecvCookieFails, FrameFails,
     ServerReads, BestEffort, Codes, wireVars, ServerFrame
<1>3. CASE RecvParams
  BY <1>3, ReadType, SendType, RelayType, StateType DEF RecvParams,
     ServerSees, ServerReads, SendFails, Refuse, DenyAccess, AskForStreams,
     Codes, States, wireVars, ServerFrame
<1>4. CASE RecvParamsFails
  BY <1>4, ReadType, SendType, RelayType DEF RecvParamsFails, FrameFails,
     ServerReads, BestEffort, Codes, wireVars, ServerFrame
<1>5. CASE NegotiateInterrupted
  BY <1>5 DEF NegotiateInterrupted, wireVars, ServerFrame
<1>6. CASE AcceptStream
  BY <1>6, TestsAssumption DEF AcceptStream, wireVars, ServerFrame
<1>7. CASE SetupCtrlByte
  BY <1>7, ReadType DEF SetupCtrlByte, ServerReads, Kill, Codes, wireVars,
     ServerFrame
<1>8. CASE SetupCtrlClosed
  BY <1>8 DEF SetupCtrlClosed, Kill, Codes, wireVars, ServerFrame
<1>9. CASE SetupKilled
  BY <1>9 DEF SetupKilled, Kill, Codes, wireVars, ServerFrame
<1>10. CASE SetupIoError
  BY <1>10 DEF SetupIoError, wireVars, ServerFrame
<1>11. CASE SetupReaped
  <2>1. relay # "none" => relay \in Codes
    BY DEF ServerTypeOK
  <2>2. s2c' \in Seq(Items) /\ cEnd' \in Ends
    BY <1>11, <2>1, SendType, RelayType DEF SetupReaped, BestEffort
  <2> QED BY <1>11, <2>2 DEF SetupReaped, ServerFrame
<1>12. CASE ParkDrain
  BY <1>12 DEF ParkDrain, wireVars, ServerFrame
<1>13. CASE ParkEnds
  BY <1>13 DEF ParkEnds, wireVars, ServerFrame
<1>14. CASE ParkInterrupted
  BY <1>14 DEF ParkInterrupted, wireVars, ServerFrame
<1>15. CASE StartTest
  BY <1>15, SendType, StartType DEF StartTest, SendFails, wireVars,
     ServerFrame
<1>16. CASE RecvTestEnd
  BY <1>16, ReadType DEF RecvTestEnd, EndArm, ServerSees, ServerReads,
     wireVars, ServerFrame
<1>17. CASE RecvClientTerminate
  BY <1>17, ReadType, SendType, RelayType DEF RecvClientTerminate, EndArm,
     ServerSees, ServerReads, BestEffort, Codes, wireVars, ServerFrame
<1>18. CASE RecvTestStart
  BY <1>18, ReadType DEF RecvTestStart, EndArm, ServerSees, ServerReads,
     wireVars, ServerFrame
<1>19. CASE RecvEarlyDone
  BY <1>19, ReadType DEF RecvEarlyDone, EndArm, ServerSees, ServerReads,
     wireVars, ServerFrame
<1>20. CASE RecvUnexpected
  BY <1>20, ReadType, SendType, RelayType DEF RecvUnexpected, EndArm,
     ServerReads, BestEffort, Codes, wireVars, ServerFrame
<1>21. CASE RecvCtrlClosed
  BY <1>21, SendType, RelayType DEF RecvCtrlClosed, EndArm, BestEffort,
     Codes, wireVars, ServerFrame
<1>22. CASE RecvHardError
  BY <1>22 DEF RecvHardError, EndArm, wireVars, ServerFrame
<1>23. CASE AwaitInterrupted
  BY <1>23, SendType, StateType DEF AwaitInterrupted, EndArm, BestEffort,
     States, wireVars, ServerFrame
<1>24. CASE RateBreach
  BY <1>24, SendType, RelayType DEF RateBreach, EndArm, SelfTerminate,
     SendFails, Codes, wireVars, ServerFrame
<1>25. CASE IdleExpired
  BY <1>25, SendType, RelayType DEF IdleExpired, EndArm, BestEffort, Codes,
     wireVars, ServerFrame
<1>26. CASE WatchdogExpired
  BY <1>26, SendType, RelayType DEF WatchdogExpired, EndArm, SelfTerminate,
     SendFails, Codes, wireVars, ServerFrame
<1>27. CASE ShutdownAndFlush
  BY <1>27 DEF ShutdownAndFlush, wireVars, ServerFrame
<1>28. CASE SendExchange
  BY <1>28, SendType, StateType DEF SendExchange, SendFails, States,
     wireVars, ServerFrame
<1>29. CASE RecvResults
  BY <1>29, ReadType, SendType, ResultsType DEF RecvResults, ServerSees,
     ServerReads, SendFails, wireVars, ServerFrame
<1>30. CASE RecvResultsFails
  BY <1>30, ReadType, SendType, RelayType DEF RecvResultsFails, FrameFails,
     ServerReads, BestEffort, Codes, wireVars, ServerFrame
<1>31. CASE ExchangeInterrupted
  BY <1>31, SendType, StateType DEF ExchangeInterrupted, BestEffort, States,
     wireVars, ServerFrame
<1>32. CASE RecvDone
  BY <1>32, ReadType, SendType, RelayType DEF RecvDone, ServerReads,
     BestEffort, Codes, wireVars, ServerFrame
<1>33. CASE RecvDoneFails
  BY <1>33, SendType, RelayType DEF RecvDoneFails, BestEffort, Codes,
     wireVars, ServerFrame
<1>34. CASE EmitFinalOutput
  BY <1>34 DEF EmitFinalOutput, wireVars, ServerFrame
<1>35. CASE Gate
  BY <1>35 DEF Gate, wireVars, ServerFrame
<1>36. CASE Join
  BY <1>36 DEF Join, wireVars, ServerFrame
<1>37. CASE Return
  BY <1>37 DEF Return, ClosedEnd, wireVars, ServerFrame
<1>38. CASE CancelServer
  BY <1>38 DEF CancelServer, ClosedEnd, wireVars, ServerFrame
<1>39. CASE InterruptServer
  BY <1>39 DEF InterruptServer, wireVars, ServerFrame
<1>40. ASSUME NEW i \in slive, ServerTaskEnds(i) PROVE WireTypeOK'
  BY <1>40 DEF ServerTaskEnds, wireVars, ServerFrame
<1>41. CASE PeerTalks
  <2>1. s2c' \in Seq(Items)
    BY <1>41, HeardType DEF PeerTalks
  <2>2. c2s' \in Seq(Items) /\ sEnd' \in Ends
    <3>1. ASSUME NEW m \in States \cup {Unmapped} \cup Frames, CClientSend(<<m>>)
          PROVE  c2s' \in Seq(Items) /\ sEnd' \in Ends
      <4>1. <<m>> \in Seq(Items)
        BY DEF Items
      <4> QED BY <3>1, <4>1, ConcatProperties DEF CClientSend, Ends
    <3> QED BY <1>41, <3>1 DEF PeerTalks, PeerWrites
  <2> QED BY <1>41, <2>1, <2>2 DEF PeerTalks
<1>43. CASE PeerDials
  BY <1>43 DEF PeerDials
<1>44. CASE PeerCloses
  BY <1>44 DEF PeerCloses, ClosedEnd
<1>45. CASE UNCHANGED varsAnyPeer
  BY <1>45 DEF varsAnyPeer, serverVars, wireVars, sResult, sTasks
<1> QED BY <1>1, <1>2, <1>3, <1>4, <1>5, <1>6, <1>7, <1>8, <1>9, <1>10,
     <1>11, <1>12, <1>13, <1>14, <1>15, <1>16, <1>17, <1>18, <1>19, <1>20,
     <1>21, <1>22, <1>23, <1>24, <1>25, <1>26, <1>27, <1>28, <1>29, <1>30,
     <1>31, <1>32, <1>33, <1>34, <1>35, <1>36, <1>37, <1>38, <1>39, <1>40,
     <1>41, <1>43, <1>44, <1>45 DEF NextAnyPeer, ServerStep, ServerProgress,
     ServerEvents, PeerStep

\* Moving on to another wait keeps the round's part of the invariant.
LEMMA GoToKeeps ==
    ASSUME InvAnyPeer, NEW pc \in ServerPcs, flags = {}, GoTo(pc), UNCHANGED <<sIntr, sTasks>>
    PROVE  (ServerTypeOK /\ FlagsInv)'
BY DEF InvAnyPeer, TypeOKAnyPeer, ServerTypeOK, FlagsInv, FlagsExclusive, GoTo, sResult, sTasks

\* So does an error that ends the round.
LEMMA ErrKeeps ==
    ASSUME InvAnyPeer, NEW e \in ErrNames, flags = {}, ReturnErr(e) \/ GateErr(e),
           UNCHANGED <<sIntr, sTasks>>
    PROVE  (ServerTypeOK /\ FlagsInv)'
BY DEF InvAnyPeer, TypeOKAnyPeer, ServerTypeOK, FlagsInv, FlagsExclusive, ReturnErr, GateErr, sTasks,
       ServerPcs

\* So does the first flag that is raised, because the arm that raises it
\* leaves for flush or emit.
LEMMA RaiseKeeps ==
    ASSUME InvAnyPeer, flags = {}, NEW flag \in FlagNames, NEW b \in BOOLEAN,
           NEW pc \in {"flush", "emit"}, Raise(flag, b, pc), UNCHANGED <<sIntr, sTasks>>
    PROVE  (ServerTypeOK /\ FlagsInv)'
<1>1. flags' = {flag} /\ spc' = pc
  BY DEF Raise
<1>2. bare' \in BOOLEAN
  BY Zenon DEF InvAnyPeer, TypeOKAnyPeer, ServerTypeOK, Raise
<1>3. ServerTypeOK'
  BY <1>1, <1>2 DEF InvAnyPeer, TypeOKAnyPeer, ServerTypeOK, Raise, sTasks, ServerPcs
<1>4. FlagsInv'
  BY <1>1 DEF FlagsInv, FlagsExclusive, Unflagged
<1> QED BY <1>3, <1>4

\* So does a setup kill.
LEMMA KillKeepsFlags ==
    ASSUME InvAnyPeer, flags = {}, NEW e \in ErrNames \cup {"none"}, NEW code \in Codes \cup {"none"},
           Kill(e, code), UNCHANGED sIntr
    PROVE  (ServerTypeOK /\ FlagsInv)'
BY DEF InvAnyPeer, TypeOKAnyPeer, ServerTypeOK, FlagsInv, FlagsExclusive, Kill, StopTasks, ServerPcs

\* Every step keeps the type of the round and the exclusion of the flags.
LEMMA NextServerInv == InvAnyPeer /\ [NextAnyPeer]_varsAnyPeer => (ServerTypeOK /\ FlagsInv)'
<1> SUFFICES ASSUME InvAnyPeer, [NextAnyPeer]_varsAnyPeer PROVE (ServerTypeOK /\ FlagsInv)'
  OBVIOUS
<1>1. CASE RecvCookie
  <2>1. flags = {}
    BY <1>1 DEF RecvCookie, InvAnyPeer, FlagsInv, Unflagged
  <2> QED BY <1>1, <2>1, GoToKeeps, ErrKeeps DEF RecvCookie, ServerFrame,
     ServerPcs, ErrNames
<1>2. CASE RecvCookieFails
  <2>1. flags = {}
    BY <1>2 DEF RecvCookieFails, InvAnyPeer, FlagsInv, Unflagged
  <2> QED BY <1>2, <2>1, ErrKeeps DEF RecvCookieFails, ServerFrame, ErrNames
<1>3. CASE RecvParams
  <2>0. flags = {} /\ UNCHANGED <<sIntr, sTasks>>
    BY <1>3 DEF InvAnyPeer, FlagsInv, Unflagged, RecvParams, ServerFrame
  <2>1. CASE \E e \in ErrNames : ReturnErr(e)
    BY <2>0, <2>1, ErrKeeps
  <2>2. CASE /\ refused' = TRUE /\ spc' = "park"
             /\ UNCHANGED <<flags, bare, serr, relay, reported, docError, sdocs, sterm>>
    BY <2>0, <2>2 DEF InvAnyPeer, TypeOKAnyPeer, ServerTypeOK, FlagsInv, FlagsExclusive, ServerPcs, sTasks
  <2>3. CASE DenyAccess
    BY <2>0, <2>3 DEF DenyAccess, InvAnyPeer, TypeOKAnyPeer, ServerTypeOK, FlagsInv, FlagsExclusive,
                      ServerPcs, ErrNames, sTasks
  <2>4. CASE AskForStreams
    <3>1. CASE GoTo("setup")
      BY <2>0, <3>1, GoToKeeps DEF ServerPcs
    <3>2. CASE /\ serr' = "Io" /\ spc' = "park"
               /\ UNCHANGED <<flags, bare, relay, refused, reported, docError, sdocs, sterm>>
      BY <2>0, <3>2 DEF InvAnyPeer, TypeOKAnyPeer, ServerTypeOK, FlagsInv, FlagsExclusive, ServerPcs,
                        ErrNames, sTasks
    <3> QED BY <2>4, <3>1, <3>2 DEF AskForStreams
  <2> QED BY <1>3, <2>1, <2>2, <2>3, <2>4 DEF RecvParams, Refuse, ErrNames
<1>4. CASE RecvParamsFails
  <2>1. flags = {}
    BY <1>4 DEF RecvParamsFails, InvAnyPeer, FlagsInv, Unflagged
  <2> QED BY <1>4, <2>1, ErrKeeps DEF RecvParamsFails, ServerFrame, ErrNames
<1>5. CASE NegotiateInterrupted
  BY <1>5 DEF NegotiateInterrupted, sResult, sTasks, ServerFrame, InvAnyPeer,
     TypeOKAnyPeer, ServerTypeOK, FlagsInv, FlagsExclusive, Unflagged, ServerPcs,
     ErrNames
<1>6. CASE AcceptStream
  <2>1. accepted' \in Nat /\ accepted' \in 1..MaxStreams
    BY <1>6, TestsAssumption DEF AcceptStream, InvAnyPeer, TypeOKAnyPeer, WireTypeOK, ServerTypeOK
  <2> QED BY <1>6, <2>1 DEF AcceptStream, InvAnyPeer, TypeOKAnyPeer, ServerTypeOK, FlagsInv,
             FlagsExclusive, Unflagged, ServerPcs, sResult
<1>7. CASE SetupCtrlByte
  <2>0. flags = {} /\ UNCHANGED sIntr
    BY <1>7 DEF InvAnyPeer, FlagsInv, Unflagged, SetupCtrlByte, ServerFrame
  <2>1. CASE UNCHANGED <<spc, sResult, sTasks>>
    BY <2>0, <2>1 DEF InvAnyPeer, TypeOKAnyPeer, ServerTypeOK, FlagsInv, FlagsExclusive, sResult, sTasks
  <2>2. CASE \/ Kill("ClientTerminated", "E119") \/ Kill("none", "none")
             \/ Kill("UnknownControlMessage", "E110")
    BY <2>0, <2>2, KillKeepsFlags DEF ErrNames, Codes
  <2> QED BY <1>7, <2>1, <2>2 DEF SetupCtrlByte
<1>8. CASE SetupCtrlClosed
  <2>1. flags = {}
    BY <1>8 DEF SetupCtrlClosed, InvAnyPeer, FlagsInv, Unflagged
  <2> QED BY <1>8, <2>1, KillKeepsFlags DEF SetupCtrlClosed, ServerFrame,
     ErrNames, Codes
<1>9. CASE SetupKilled
  <2>1. flags = {}
    BY <1>9 DEF SetupKilled, InvAnyPeer, FlagsInv, Unflagged
  <2> QED BY <1>9, <2>1, KillKeepsFlags DEF SetupKilled, ServerFrame, ErrNames,
     Codes
<1>10. CASE SetupIoError
  BY <1>10 DEF SetupIoError, sResult, sTasks, ServerFrame, InvAnyPeer, TypeOKAnyPeer,
     ServerTypeOK, FlagsInv, FlagsExclusive, Unflagged, ServerPcs, ErrNames
<1>11. CASE SetupReaped
  BY <1>11 DEF SetupReaped, sResult, sTasks, ServerFrame, InvAnyPeer, TypeOKAnyPeer,
     ServerTypeOK, FlagsInv, FlagsExclusive, Unflagged, ServerPcs, ErrNames
<1>12. CASE ParkDrain
  BY <1>12 DEF ParkDrain, sResult, sTasks, ServerFrame, InvAnyPeer, TypeOKAnyPeer,
     ServerTypeOK, FlagsInv, FlagsExclusive, Unflagged, ServerPcs, ErrNames
<1>13. CASE ParkEnds
  BY <1>13 DEF ParkEnds, sResult, sTasks, ServerFrame, InvAnyPeer, TypeOKAnyPeer,
     ServerTypeOK, FlagsInv, FlagsExclusive, Unflagged, ServerPcs, ErrNames
<1>14. CASE ParkInterrupted
  BY <1>14 DEF ParkInterrupted, sResult, sTasks, ServerFrame, InvAnyPeer, TypeOKAnyPeer,
     ServerTypeOK, FlagsInv, FlagsExclusive, Unflagged, ServerPcs, ErrNames
<1>15. CASE StartTest
  <2>1. flags = {}
    BY <1>15 DEF StartTest, InvAnyPeer, FlagsInv, Unflagged
  <2> QED BY <1>15, <2>1, GoToKeeps, ErrKeeps DEF StartTest, ServerFrame,
     ServerPcs, ErrNames
<1>16. CASE RecvTestEnd
  <2>1. flags = {}
    BY <1>16 DEF RecvTestEnd, InvAnyPeer, FlagsInv, Unflagged, EndArm
  <2> QED BY <1>16, <2>1, GoToKeeps DEF RecvTestEnd, ServerFrame, EndArm,
     ServerPcs
<1>17. CASE RecvClientTerminate
  <2>1. flags = {}
    BY <1>17 DEF RecvClientTerminate, InvAnyPeer, FlagsInv, Unflagged, EndArm
  <2> QED BY <1>17, <2>1, RaiseKeeps DEF RecvClientTerminate, ServerFrame,
     EndArm, FlagNames
<1>18. CASE RecvTestStart
  BY <1>18 DEF RecvTestStart, EndArm, sResult, sTasks, ServerFrame, InvAnyPeer,
     TypeOKAnyPeer, ServerTypeOK, FlagsInv, FlagsExclusive, Unflagged, ServerPcs,
     ErrNames
<1>19. CASE RecvEarlyDone
  <2>1. flags = {}
    BY <1>19 DEF RecvEarlyDone, InvAnyPeer, FlagsInv, Unflagged, EndArm
  <2> QED BY <1>19, <2>1, RaiseKeeps DEF RecvEarlyDone, ServerFrame, EndArm,
     FlagNames
<1>20. CASE RecvUnexpected
  <2>1. flags = {}
    BY <1>20 DEF RecvUnexpected, InvAnyPeer, FlagsInv, Unflagged, EndArm
  <2> QED BY <1>20, <2>1, RaiseKeeps DEF RecvUnexpected, ServerFrame,
     EndArm, FlagNames
<1>21. CASE RecvCtrlClosed
  <2>1. flags = {}
    BY <1>21 DEF RecvCtrlClosed, InvAnyPeer, FlagsInv, Unflagged, EndArm
  <2> QED BY <1>21, <2>1, RaiseKeeps DEF RecvCtrlClosed, ServerFrame,
     EndArm, FlagNames
<1>22. CASE RecvHardError
  <2>1. flags = {}
    BY <1>22 DEF RecvHardError, InvAnyPeer, FlagsInv, Unflagged, EndArm
  <2> QED BY <1>22, <2>1, ErrKeeps DEF RecvHardError, ServerFrame, EndArm,
     ErrNames
<1>23. CASE AwaitInterrupted
  <2>1. flags = {}
    BY <1>23 DEF AwaitInterrupted, InvAnyPeer, FlagsInv, Unflagged, EndArm
  <2> QED BY <1>23, <2>1, RaiseKeeps DEF AwaitInterrupted, ServerFrame,
     EndArm, FlagNames
<1>24. CASE RateBreach
  <2>1. flags = {}
    BY <1>24 DEF RateBreach, InvAnyPeer, FlagsInv, Unflagged, EndArm
  <2> QED BY <1>24, <2>1, RaiseKeeps, ErrKeeps DEF RateBreach, ServerFrame,
     EndArm, SelfTerminate, FlagNames, ErrNames
<1>25. CASE IdleExpired
  <2>1. flags = {}
    BY <1>25 DEF IdleExpired, InvAnyPeer, FlagsInv, Unflagged, EndArm
  <2> QED BY <1>25, <2>1, RaiseKeeps DEF IdleExpired, ServerFrame, EndArm,
     FlagNames
<1>26. CASE WatchdogExpired
  <2>1. flags = {}
    BY <1>26 DEF WatchdogExpired, InvAnyPeer, FlagsInv, Unflagged, EndArm
  <2> QED BY <1>26, <2>1, RaiseKeeps, ErrKeeps DEF WatchdogExpired,
     ServerFrame, EndArm, SelfTerminate, FlagNames, ErrNames
<1>27. CASE ShutdownAndFlush
  <2>1. flags = {} \/ \E f \in FlagNames : flags = {f}
    BY DEF InvAnyPeer, TypeOKAnyPeer, ServerTypeOK, FlagsInv, FlagsExclusive
  <2>2. docError' \in FlagNames \cup {"none"}
    BY <1>27, <2>1, FirstOfEmpty, FlushOrderSingle DEF ShutdownAndFlush
  <2>3. sAborted' \in BOOLEAN
    BY <1>27 DEF ShutdownAndFlush
  <2>4. spc' \in ServerPcs /\ (spc' \in Unflagged => flags' = {})
    BY <1>27 DEF ShutdownAndFlush, ServerPcs, Unflagged
  <2> QED BY <1>27, <2>2, <2>3, <2>4 DEF ShutdownAndFlush, InvAnyPeer, TypeOKAnyPeer, ServerTypeOK,
             FlagsInv, FlagsExclusive
<1>28. CASE SendExchange
  <2>1. flags = {}
    BY <1>28 DEF SendExchange, InvAnyPeer, FlagsInv, Unflagged
  <2> QED BY <1>28, <2>1, GoToKeeps, RaiseKeeps DEF SendExchange,
     ServerFrame, ServerPcs, FlagNames
<1>29. CASE RecvResults
  <2>1. flags = {}
    BY <1>29 DEF RecvResults, InvAnyPeer, FlagsInv, Unflagged
  <2> QED BY <1>29, <2>1, GoToKeeps, RaiseKeeps DEF RecvResults,
     ServerFrame, ServerPcs, FlagNames
<1>30. CASE RecvResultsFails
  <2>1. flags = {}
    BY <1>30 DEF RecvResultsFails, InvAnyPeer, FlagsInv, Unflagged
  <2> QED BY <1>30, <2>1, RaiseKeeps DEF RecvResultsFails, ServerFrame,
     FlagNames
<1>31. CASE ExchangeInterrupted
  <2>1. flags = {}
    BY <1>31 DEF ExchangeInterrupted, InvAnyPeer, FlagsInv, Unflagged
  <2> QED BY <1>31, <2>1, RaiseKeeps DEF ExchangeInterrupted, ServerFrame,
     FlagNames
<1>32. CASE RecvDone
  <2>0. flags = {} /\ UNCHANGED <<sIntr, sTasks>>
    BY <1>32 DEF InvAnyPeer, FlagsInv, Unflagged, RecvDone, ServerFrame
  <2>1. CASE GoTo("emit")
    BY <2>0, <2>1, GoToKeeps DEF ServerPcs
  <2>2. CASE UNCHANGED <<spc, sResult>>
    BY <2>0, <2>2 DEF InvAnyPeer, TypeOKAnyPeer, ServerTypeOK, FlagsInv, FlagsExclusive, sResult, sTasks
  <2>3. CASE \/ Raise("client_terminated", FALSE, "emit")
             \/ Raise("unknown_message", FALSE, "emit")
    BY <2>0, <2>3, RaiseKeeps DEF FlagNames
  <2> QED BY <1>32, <2>1, <2>2, <2>3 DEF RecvDone
<1>33. CASE RecvDoneFails
  <2>1. flags = {}
    BY <1>33 DEF RecvDoneFails, InvAnyPeer, FlagsInv, Unflagged
  <2> QED BY <1>33, <2>1, RaiseKeeps DEF RecvDoneFails, ServerFrame,
     FlagNames
<1>34. CASE EmitFinalOutput
  <2>1. flags = {} \/ \E f \in FlagNames : flags = {f}
    BY DEF InvAnyPeer, TypeOKAnyPeer, ServerTypeOK, FlagsInv, FlagsExclusive
  <2>2. docError' \in FlagNames \cup {"none"}
    BY <1>34, <2>1, FirstOfEmpty, EmitOrderSingle
       DEF EmitFinalOutput, InvAnyPeer, TypeOKAnyPeer, ServerTypeOK
  <2> QED BY <1>34, <2>2 DEF EmitFinalOutput, InvAnyPeer, TypeOKAnyPeer, ServerTypeOK, FlagsInv,
             FlagsExclusive, Unflagged, ServerPcs, sTasks
<1>35. CASE Gate
  BY <1>35 DEF Gate, StopTasks, sResult, sTasks, ServerFrame, InvAnyPeer, TypeOKAnyPeer,
     ServerTypeOK, FlagsInv, FlagsExclusive, Unflagged, ServerPcs, ErrNames
<1>36. CASE Join
  BY <1>36 DEF Join, sResult, sTasks, ServerFrame, InvAnyPeer, TypeOKAnyPeer,
     ServerTypeOK, FlagsInv, FlagsExclusive, Unflagged, ServerPcs, ErrNames
<1>37. CASE Return
  <2>1. flags = {} \/ \E f \in FlagNames : flags = {f}
    BY DEF InvAnyPeer, TypeOKAnyPeer, ServerTypeOK, FlagsInv, FlagsExclusive
  <2>2. Termination(flags) \in FlagNames \cup {"Completed"}
    BY <2>1, FirstOfEmpty, TerminationSingle DEF Termination
  <2>3. sterm' \in FlagNames \cup {"none", "Err", "NoReport", "Completed"}
    BY <1>37, <2>2 DEF Return
  <2>4. sdocs' \in Nat
    BY <1>37 DEF Return, InvAnyPeer, TypeOKAnyPeer, ServerTypeOK
  <2> QED BY <1>37, <2>3, <2>4 DEF Return, ServerFrame, InvAnyPeer, TypeOKAnyPeer, ServerTypeOK, FlagsInv,
             FlagsExclusive, Unflagged, ServerPcs, sTasks
<1>38. CASE CancelServer
  BY <1>38 DEF CancelServer, StopTasks, sResult, sTasks, ServerFrame, InvAnyPeer, TypeOKAnyPeer,
     ServerTypeOK, FlagsInv, FlagsExclusive, Unflagged, ServerPcs, ErrNames
<1>39. CASE InterruptServer
  BY <1>39 DEF InterruptServer, sResult, sTasks, ServerFrame, InvAnyPeer, TypeOKAnyPeer,
     ServerTypeOK, FlagsInv, FlagsExclusive, Unflagged, ServerPcs, ErrNames
<1>40. ASSUME NEW i \in slive, ServerTaskEnds(i) PROVE (ServerTypeOK /\ FlagsInv)'
  BY <1>40 DEF ServerTaskEnds, sResult, sTasks, ServerFrame, InvAnyPeer, TypeOKAnyPeer,
     ServerTypeOK, FlagsInv, FlagsExclusive, Unflagged, ServerPcs, ErrNames
<1>41. CASE PeerTalks
  BY <1>41 DEF PeerTalks, serverVars, sResult, sTasks, InvAnyPeer, TypeOKAnyPeer,
     ServerTypeOK, FlagsInv, FlagsExclusive, Unflagged, ServerPcs, ErrNames
<1>43. CASE PeerDials
  BY <1>43 DEF PeerDials, serverVars, sResult, sTasks, InvAnyPeer, TypeOKAnyPeer,
     ServerTypeOK, FlagsInv, FlagsExclusive, Unflagged, ServerPcs, ErrNames
<1>44. CASE PeerCloses
  BY <1>44 DEF PeerCloses, serverVars, sResult, sTasks, InvAnyPeer, TypeOKAnyPeer,
     ServerTypeOK, FlagsInv, FlagsExclusive, Unflagged, ServerPcs, ErrNames
<1>45. CASE UNCHANGED varsAnyPeer
  BY <1>45 DEF varsAnyPeer, serverVars, sResult, sTasks, InvAnyPeer, TypeOKAnyPeer, ServerTypeOK,
     FlagsInv, FlagsExclusive
<1> QED BY <1>1, <1>2, <1>3, <1>4, <1>5, <1>6, <1>7, <1>8, <1>9, <1>10,
     <1>11, <1>12, <1>13, <1>14, <1>15, <1>16, <1>17, <1>18, <1>19, <1>20,
     <1>21, <1>22, <1>23, <1>24, <1>25, <1>26, <1>27, <1>28, <1>29, <1>30,
     <1>31, <1>32, <1>33, <1>34, <1>35, <1>36, <1>37, <1>38, <1>39, <1>40,
     <1>41, <1>43, <1>44, <1>45 DEF NextAnyPeer, ServerStep, ServerProgress,
     ServerEvents, PeerStep

\* So every step keeps the invariant.
LEMMA NextInvAnyPeer == InvAnyPeer /\ [NextAnyPeer]_varsAnyPeer => InvAnyPeer'
BY NextWireType, NextServerInv DEF InvAnyPeer, TypeOKAnyPeer

\* The control round keeps the types of its state and of the wire
\* (handle_one_test against any peer).
THEOREM TypeCorrect == SpecAnyPeer => []TypeOKAnyPeer
<1>1. InvAnyPeer => TypeOKAnyPeer
  BY DEF InvAnyPeer
<1> QED BY InitInvAnyPeer, NextInvAnyPeer, <1>1, PTL DEF SpecAnyPeer

\* At most one abnormal-end field of TestRunCtx is set, so the precedence
\* lists that resolve them never have to choose.
THEOREM FlagsExclusiveAlways == SpecAnyPeer => []FlagsExclusive
<1>1. InvAnyPeer => FlagsExclusive
  BY DEF InvAnyPeer, FlagsInv
<1> QED BY InitInvAnyPeer, NextInvAnyPeer, <1>1, PTL DEF SpecAnyPeer
-----------------------------------------------------------------------------
\* The waits before anything was reported, and the ones a round only reaches
\* with all its streams.
Early   == {"cookie", "params", "setup", "reap", "park", "start", "await", "flush",
            "exchange", "results", "done", "emit"}
Started == {"start", "await", "flush", "exchange", "results", "done", "emit"}

\* Where the documents come from.  Nothing is written before the round ends
\* or is killed; an error that run() will write up has not been written up.
DocumentsInv ==
    /\ sdocs <= 1
    /\ spc \in Early \ {"park"} => sdocs = 0
    /\ spc = "park" /\ refused => sdocs = 0
    /\ spc # "returned" /\ RunDocuments(serr) => sdocs = 0
    /\ spc \in Early \ {"reap", "park"} => serr = "none"
    /\ spc = "reap" => ~RunDocuments(serr)
    /\ refused => serr = "none"
    /\ refused => spc \in {"park", "return", "returned", "cancelled"}

\* A round that has reported got all its streams and was not killed.
StartedInv ==
    /\ spc \in Early => ~reported
    /\ spc \in {"cookie", "params", "setup"} => ~refused /\ relay = "none"
    /\ spc \in Started => accepted = Total(test) /\ ~refused /\ relay = "none"
    /\ ReportedRoundsStarted

\* What report_error holds once it is resolved.
Resolved == docError = IF Termination(flags) = "Completed" THEN "none"
                       ELSE Termination(flags)

ResolvedInv ==
    /\ spc \in Early \ {"emit"} => docError = "none"
    /\ spc = "emit" => IF "server_error" \in flags THEN docError = "server_error"
                       ELSE docError \in flags \cup {"none"}
    /\ spc = "emit" => docError # "early_done"
    /\ reported => Resolved
    /\ spc = "returned" /\ reported /\ serr = "none" => sterm = Termination(flags)

\* Every step keeps the account of the documents.
LEMMA NextDocs ==
    InvAnyPeer /\ DocumentsInv /\ [NextAnyPeer]_varsAnyPeer => DocumentsInv'
<1> SUFFICES ASSUME InvAnyPeer, DocumentsInv, [NextAnyPeer]_varsAnyPeer PROVE DocumentsInv'
  OBVIOUS
<1> USE DEF DocumentsInv, Early, RunDocuments
<1>1. CASE RecvCookie
  BY <1>1 DEF RecvCookie, GoTo, ReturnErr, sResult, sTasks, ServerFrame,
     wireVars
<1>2. CASE RecvCookieFails
  BY <1>2 DEF RecvCookieFails, ReturnErr, sResult, sTasks, ServerFrame,
     wireVars
<1>3. CASE RecvParams
  BY <1>3 DEF RecvParams, GoTo, ReturnErr, Refuse, DenyAccess,
     AskForStreams, sResult, sTasks, ServerFrame, wireVars
<1>4. CASE RecvParamsFails
  BY <1>4 DEF RecvParamsFails, ReturnErr, sResult, sTasks, ServerFrame,
     wireVars
<1>5. CASE NegotiateInterrupted
  BY <1>5 DEF NegotiateInterrupted, sResult, sTasks, ServerFrame, wireVars
<1>6. CASE AcceptStream
  BY <1>6 DEF AcceptStream, sResult, sTasks, ServerFrame, wireVars
<1>7. CASE SetupCtrlByte
  BY <1>7 DEF SetupCtrlByte, Kill, sResult, sTasks, ServerFrame, wireVars
<1>8. CASE SetupCtrlClosed
  BY <1>8 DEF SetupCtrlClosed, Kill, sResult, sTasks, ServerFrame, wireVars
<1>9. CASE SetupKilled
  BY <1>9 DEF SetupKilled, Kill, sResult, sTasks, ServerFrame, wireVars
<1>10. CASE SetupIoError
  BY <1>10 DEF SetupIoError, sResult, sTasks, ServerFrame, wireVars
<1>11. CASE SetupReaped
  BY <1>11 DEF SetupReaped, sResult, sTasks, ServerFrame, wireVars
<1>12. CASE ParkDrain
  BY <1>12 DEF ParkDrain, sResult, sTasks, ServerFrame, wireVars
<1>13. CASE ParkEnds
  BY <1>13 DEF ParkEnds, sResult, sTasks, ServerFrame, wireVars
<1>14. CASE ParkInterrupted
  BY <1>14 DEF ParkInterrupted, sResult, sTasks, ServerFrame, wireVars
<1>15. CASE StartTest
  BY <1>15 DEF StartTest, GoTo, GateErr, sResult, sTasks, ServerFrame,
     wireVars
<1>16. CASE RecvTestEnd
  BY <1>16 DEF RecvTestEnd, EndArm, GoTo, sResult, sTasks, ServerFrame,
     wireVars
<1>17. CASE RecvClientTerminate
  BY <1>17 DEF RecvClientTerminate, EndArm, Raise, sResult, sTasks,
     ServerFrame, wireVars
<1>18. CASE RecvTestStart
  BY <1>18 DEF RecvTestStart, EndArm, sResult, sTasks, ServerFrame, wireVars
<1>19. CASE RecvEarlyDone
  BY <1>19 DEF RecvEarlyDone, EndArm, Raise, sResult, sTasks, ServerFrame,
     wireVars
<1>20. CASE RecvUnexpected
  BY <1>20 DEF RecvUnexpected, EndArm, Raise, sResult, sTasks, ServerFrame,
     wireVars
<1>21. CASE RecvCtrlClosed
  BY <1>21 DEF RecvCtrlClosed, EndArm, Raise, sResult, sTasks, ServerFrame,
     wireVars
<1>22. CASE RecvHardError
  BY <1>22 DEF RecvHardError, EndArm, GateErr, sResult, sTasks, ServerFrame,
     wireVars
<1>23. CASE AwaitInterrupted
  BY <1>23 DEF AwaitInterrupted, EndArm, Raise, sResult, sTasks,
     ServerFrame, wireVars
<1>24. CASE RateBreach
  BY <1>24 DEF RateBreach, EndArm, SelfTerminate, GateErr, Raise, sResult,
     sTasks, ServerFrame, wireVars
<1>25. CASE IdleExpired
  BY <1>25 DEF IdleExpired, EndArm, Raise, sResult, sTasks, ServerFrame,
     wireVars
<1>26. CASE WatchdogExpired
  BY <1>26 DEF WatchdogExpired, EndArm, SelfTerminate, GateErr, Raise,
     sResult, sTasks, ServerFrame, wireVars
<1>27. CASE ShutdownAndFlush
  BY <1>27 DEF ShutdownAndFlush, sResult, sTasks, ServerFrame, wireVars
<1>28. CASE SendExchange
  BY <1>28 DEF SendExchange, GoTo, Raise, sResult, sTasks, ServerFrame,
     wireVars
<1>29. CASE RecvResults
  BY <1>29 DEF RecvResults, GoTo, Raise, sResult, sTasks, ServerFrame,
     wireVars
<1>30. CASE RecvResultsFails
  BY <1>30 DEF RecvResultsFails, Raise, sResult, sTasks, ServerFrame,
     wireVars
<1>31. CASE ExchangeInterrupted
  BY <1>31 DEF ExchangeInterrupted, Raise, sResult, sTasks, ServerFrame,
     wireVars
<1>32. CASE RecvDone
  BY <1>32 DEF RecvDone, GoTo, Raise, sResult, sTasks, ServerFrame, wireVars
<1>33. CASE RecvDoneFails
  BY <1>33 DEF RecvDoneFails, Raise, sResult, sTasks, ServerFrame, wireVars
<1>34. CASE EmitFinalOutput
  BY <1>34 DEF EmitFinalOutput, sResult, sTasks, ServerFrame, wireVars
<1>35. CASE Gate
  BY <1>35 DEF Gate, sResult, sTasks, ServerFrame, wireVars
<1>36. CASE Join
  BY <1>36 DEF Join, sResult, sTasks, ServerFrame, wireVars
<1>37. CASE Return
  BY <1>37 DEF Return, sResult, sTasks, ServerFrame, wireVars
<1>38. CASE CancelServer
  BY <1>38 DEF CancelServer, sResult, sTasks, ServerFrame, wireVars
<1>39. CASE InterruptServer
  BY <1>39 DEF InterruptServer, sResult, sTasks, ServerFrame, wireVars
<1>40. ASSUME NEW i \in slive, ServerTaskEnds(i) PROVE DocumentsInv'
  BY <1>40 DEF ServerTaskEnds, sResult, sTasks, ServerFrame, wireVars
<1>41. CASE PeerTalks
  BY <1>41 DEF PeerTalks, serverVars, sResult, sTasks
<1>43. CASE PeerDials
  BY <1>43 DEF PeerDials, serverVars, sResult, sTasks
<1>44. CASE PeerCloses
  BY <1>44 DEF PeerCloses, serverVars, sResult, sTasks
<1>45. CASE UNCHANGED varsAnyPeer
  BY <1>45 DEF varsAnyPeer, serverVars, wireVars, sResult, sTasks
<1> QED BY <1>1, <1>2, <1>3, <1>4, <1>5, <1>6, <1>7, <1>8, <1>9, <1>10,
     <1>11, <1>12, <1>13, <1>14, <1>15, <1>16, <1>17, <1>18, <1>19, <1>20,
     <1>21, <1>22, <1>23, <1>24, <1>25, <1>26, <1>27, <1>28, <1>29, <1>30,
     <1>31, <1>32, <1>33, <1>34, <1>35, <1>36, <1>37, <1>38, <1>39, <1>40,
     <1>41, <1>43, <1>44, <1>45 DEF NextAnyPeer, ServerStep, ServerProgress,
     ServerEvents, PeerStep

\* Every step keeps the account of the streams.
LEMMA NextStarted ==
    InvAnyPeer /\ DocumentsInv /\ StartedInv /\ [NextAnyPeer]_varsAnyPeer => StartedInv'
<1> SUFFICES ASSUME InvAnyPeer, DocumentsInv, StartedInv, [NextAnyPeer]_varsAnyPeer PROVE StartedInv'
  OBVIOUS
<1> USE DEF StartedInv, ReportedRoundsStarted, Early, Started
<1>1. CASE RecvCookie
  BY <1>1 DEF RecvCookie, GoTo, ReturnErr, sResult, sTasks, ServerFrame,
     wireVars
<1>2. CASE RecvCookieFails
  BY <1>2 DEF RecvCookieFails, ReturnErr, sResult, sTasks, ServerFrame,
     wireVars
<1>3. CASE RecvParams
  BY <1>3 DEF RecvParams, GoTo, ReturnErr, Refuse, DenyAccess,
     AskForStreams, sResult, sTasks, ServerFrame, wireVars
<1>4. CASE RecvParamsFails
  BY <1>4 DEF RecvParamsFails, ReturnErr, sResult, sTasks, ServerFrame,
     wireVars
<1>5. CASE NegotiateInterrupted
  BY <1>5 DEF NegotiateInterrupted, sResult, sTasks, ServerFrame, wireVars
<1>6. CASE AcceptStream
  BY <1>6 DEF AcceptStream, sResult, sTasks, ServerFrame, wireVars
<1>7. CASE SetupCtrlByte
  BY <1>7 DEF SetupCtrlByte, Kill, sResult, sTasks, ServerFrame, wireVars
<1>8. CASE SetupCtrlClosed
  BY <1>8 DEF SetupCtrlClosed, Kill, sResult, sTasks, ServerFrame, wireVars
<1>9. CASE SetupKilled
  BY <1>9 DEF SetupKilled, Kill, sResult, sTasks, ServerFrame, wireVars
<1>10. CASE SetupIoError
  BY <1>10 DEF SetupIoError, sResult, sTasks, ServerFrame, wireVars
<1>11. CASE SetupReaped
  BY <1>11 DEF SetupReaped, sResult, sTasks, ServerFrame, wireVars
<1>12. CASE ParkDrain
  BY <1>12 DEF ParkDrain, sResult, sTasks, ServerFrame, wireVars
<1>13. CASE ParkEnds
  BY <1>13 DEF ParkEnds, sResult, sTasks, ServerFrame, wireVars
<1>14. CASE ParkInterrupted
  BY <1>14 DEF ParkInterrupted, sResult, sTasks, ServerFrame, wireVars
<1>15. CASE StartTest
  BY <1>15 DEF StartTest, GoTo, GateErr, sResult, sTasks, ServerFrame,
     wireVars
<1>16. CASE RecvTestEnd
  BY <1>16 DEF RecvTestEnd, EndArm, GoTo, sResult, sTasks, ServerFrame,
     wireVars
<1>17. CASE RecvClientTerminate
  BY <1>17 DEF RecvClientTerminate, EndArm, Raise, sResult, sTasks,
     ServerFrame, wireVars
<1>18. CASE RecvTestStart
  BY <1>18 DEF RecvTestStart, EndArm, sResult, sTasks, ServerFrame, wireVars
<1>19. CASE RecvEarlyDone
  BY <1>19 DEF RecvEarlyDone, EndArm, Raise, sResult, sTasks, ServerFrame,
     wireVars
<1>20. CASE RecvUnexpected
  BY <1>20 DEF RecvUnexpected, EndArm, Raise, sResult, sTasks, ServerFrame,
     wireVars
<1>21. CASE RecvCtrlClosed
  BY <1>21 DEF RecvCtrlClosed, EndArm, Raise, sResult, sTasks, ServerFrame,
     wireVars
<1>22. CASE RecvHardError
  BY <1>22 DEF RecvHardError, EndArm, GateErr, sResult, sTasks, ServerFrame,
     wireVars
<1>23. CASE AwaitInterrupted
  BY <1>23 DEF AwaitInterrupted, EndArm, Raise, sResult, sTasks,
     ServerFrame, wireVars
<1>24. CASE RateBreach
  BY <1>24 DEF RateBreach, EndArm, SelfTerminate, GateErr, Raise, sResult,
     sTasks, ServerFrame, wireVars
<1>25. CASE IdleExpired
  BY <1>25 DEF IdleExpired, EndArm, Raise, sResult, sTasks, ServerFrame,
     wireVars
<1>26. CASE WatchdogExpired
  BY <1>26 DEF WatchdogExpired, EndArm, SelfTerminate, GateErr, Raise,
     sResult, sTasks, ServerFrame, wireVars
<1>27. CASE ShutdownAndFlush
  BY <1>27 DEF ShutdownAndFlush, sResult, sTasks, ServerFrame, wireVars
<1>28. CASE SendExchange
  BY <1>28 DEF SendExchange, GoTo, Raise, sResult, sTasks, ServerFrame,
     wireVars
<1>29. CASE RecvResults
  BY <1>29 DEF RecvResults, GoTo, Raise, sResult, sTasks, ServerFrame,
     wireVars
<1>30. CASE RecvResultsFails
  BY <1>30 DEF RecvResultsFails, Raise, sResult, sTasks, ServerFrame,
     wireVars
<1>31. CASE ExchangeInterrupted
  BY <1>31 DEF ExchangeInterrupted, Raise, sResult, sTasks, ServerFrame,
     wireVars
<1>32. CASE RecvDone
  BY <1>32 DEF RecvDone, GoTo, Raise, sResult, sTasks, ServerFrame, wireVars
<1>33. CASE RecvDoneFails
  BY <1>33 DEF RecvDoneFails, Raise, sResult, sTasks, ServerFrame, wireVars
<1>34. CASE EmitFinalOutput
  BY <1>34 DEF EmitFinalOutput, sResult, sTasks, ServerFrame, wireVars
<1>35. CASE Gate
  BY <1>35 DEF Gate, sResult, sTasks, ServerFrame, wireVars
<1>36. CASE Join
  BY <1>36 DEF Join, sResult, sTasks, ServerFrame, wireVars
<1>37. CASE Return
  BY <1>37 DEF Return, RunDocuments, sResult, sTasks, ServerFrame, wireVars
<1>38. CASE CancelServer
  BY <1>38 DEF CancelServer, sResult, sTasks, ServerFrame, wireVars
<1>39. CASE InterruptServer
  BY <1>39 DEF InterruptServer, sResult, sTasks, ServerFrame, wireVars
<1>40. ASSUME NEW i \in slive, ServerTaskEnds(i) PROVE StartedInv'
  BY <1>40 DEF ServerTaskEnds, sResult, sTasks, ServerFrame, wireVars
<1>41. CASE PeerTalks
  BY <1>41 DEF PeerTalks, serverVars, sResult, sTasks
<1>43. CASE PeerDials
  BY <1>43 DEF PeerDials, serverVars, sResult, sTasks
<1>44. CASE PeerCloses
  BY <1>44 DEF PeerCloses, serverVars, sResult, sTasks
<1>45. CASE UNCHANGED varsAnyPeer
  BY <1>45 DEF varsAnyPeer, serverVars, wireVars, sResult, sTasks
<1> QED BY <1>1, <1>2, <1>3, <1>4, <1>5, <1>6, <1>7, <1>8, <1>9, <1>10,
     <1>11, <1>12, <1>13, <1>14, <1>15, <1>16, <1>17, <1>18, <1>19, <1>20,
     <1>21, <1>22, <1>23, <1>24, <1>25, <1>26, <1>27, <1>28, <1>29, <1>30,
     <1>31, <1>32, <1>33, <1>34, <1>35, <1>36, <1>37, <1>38, <1>39, <1>40,
     <1>41, <1>43, <1>44, <1>45 DEF NextAnyPeer, ServerStep, ServerProgress,
     ServerEvents, PeerStep

\* Every step keeps the resolution of report_error.
LEMMA NextResolved ==
    InvAnyPeer /\ StartedInv /\ ResolvedInv /\ [NextAnyPeer]_varsAnyPeer => ResolvedInv'
<1> SUFFICES ASSUME InvAnyPeer, StartedInv, ResolvedInv, [NextAnyPeer]_varsAnyPeer PROVE ResolvedInv'
  OBVIOUS
<1> USE DEF ResolvedInv
<1>1. CASE RecvCookie
  BY <1>1 DEF RecvCookie, GoTo, ReturnErr, StartedInv, Early, Resolved, InvAnyPeer,
     FlagsInv, Unflagged, sResult, sTasks, ServerFrame, wireVars
<1>2. CASE RecvCookieFails
  BY <1>2 DEF RecvCookieFails, ReturnErr, StartedInv, Early, Resolved, InvAnyPeer,
     FlagsInv, Unflagged, sResult, sTasks, ServerFrame, wireVars
<1>3. CASE RecvParams
  BY <1>3 DEF RecvParams, GoTo, ReturnErr, Refuse, DenyAccess,
     AskForStreams, StartedInv, Early, Resolved, InvAnyPeer, FlagsInv, Unflagged,
     sResult, sTasks, ServerFrame, wireVars
<1>4. CASE RecvParamsFails
  BY <1>4 DEF RecvParamsFails, ReturnErr, StartedInv, Early, Resolved, InvAnyPeer,
     FlagsInv, Unflagged, sResult, sTasks, ServerFrame, wireVars
<1>5. CASE NegotiateInterrupted
  BY <1>5 DEF NegotiateInterrupted, StartedInv, Early, Resolved, InvAnyPeer,
     FlagsInv, Unflagged, sResult, sTasks, ServerFrame, wireVars
<1>6. CASE AcceptStream
  BY <1>6 DEF AcceptStream, StartedInv, Early, Resolved, InvAnyPeer, FlagsInv,
     Unflagged, sResult, sTasks, ServerFrame, wireVars
<1>7. CASE SetupCtrlByte
  BY <1>7 DEF SetupCtrlByte, Kill, StartedInv, Early, Resolved, InvAnyPeer,
     FlagsInv, Unflagged, sResult, sTasks, ServerFrame, wireVars
<1>8. CASE SetupCtrlClosed
  BY <1>8 DEF SetupCtrlClosed, Kill, StartedInv, Early, Resolved, InvAnyPeer,
     FlagsInv, Unflagged, sResult, sTasks, ServerFrame, wireVars
<1>9. CASE SetupKilled
  BY <1>9 DEF SetupKilled, Kill, StartedInv, Early, Resolved, InvAnyPeer, FlagsInv,
     Unflagged, sResult, sTasks, ServerFrame, wireVars
<1>10. CASE SetupIoError
  BY <1>10 DEF SetupIoError, StartedInv, Early, Resolved, InvAnyPeer, FlagsInv,
     Unflagged, sResult, sTasks, ServerFrame, wireVars
<1>11. CASE SetupReaped
  BY <1>11 DEF SetupReaped, StartedInv, Early, Resolved, InvAnyPeer, FlagsInv,
     Unflagged, sResult, sTasks, ServerFrame, wireVars
<1>12. CASE ParkDrain
  BY <1>12 DEF ParkDrain, StartedInv, Early, Resolved, InvAnyPeer, FlagsInv,
     Unflagged, sResult, sTasks, ServerFrame, wireVars
<1>13. CASE ParkEnds
  BY <1>13 DEF ParkEnds, StartedInv, Early, Resolved, InvAnyPeer, FlagsInv,
     Unflagged, sResult, sTasks, ServerFrame, wireVars
<1>14. CASE ParkInterrupted
  BY <1>14 DEF ParkInterrupted, StartedInv, Early, Resolved, InvAnyPeer, FlagsInv,
     Unflagged, sResult, sTasks, ServerFrame, wireVars
<1>15. CASE StartTest
  BY <1>15 DEF StartTest, GoTo, GateErr, StartedInv, Early, Resolved, InvAnyPeer,
     FlagsInv, Unflagged, sResult, sTasks, ServerFrame, wireVars
<1>16. CASE RecvTestEnd
  BY <1>16 DEF RecvTestEnd, EndArm, GoTo, StartedInv, Early, Resolved, InvAnyPeer,
     FlagsInv, Unflagged, sResult, sTasks, ServerFrame, wireVars
<1>17. CASE RecvClientTerminate
  BY <1>17 DEF RecvClientTerminate, EndArm, Raise, StartedInv, Early,
     Resolved, InvAnyPeer, FlagsInv, Unflagged, sResult, sTasks, ServerFrame,
     wireVars
<1>18. CASE RecvTestStart
  BY <1>18 DEF RecvTestStart, EndArm, StartedInv, Early, Resolved, InvAnyPeer,
     FlagsInv, Unflagged, sResult, sTasks, ServerFrame, wireVars
<1>19. CASE RecvEarlyDone
  BY <1>19 DEF RecvEarlyDone, EndArm, Raise, StartedInv, Early, Resolved,
     InvAnyPeer, FlagsInv, Unflagged, sResult, sTasks, ServerFrame, wireVars
<1>20. CASE RecvUnexpected
  BY <1>20 DEF RecvUnexpected, EndArm, Raise, StartedInv, Early, Resolved,
     InvAnyPeer, FlagsInv, Unflagged, sResult, sTasks, ServerFrame, wireVars
<1>21. CASE RecvCtrlClosed
  BY <1>21 DEF RecvCtrlClosed, EndArm, Raise, StartedInv, Early, Resolved,
     InvAnyPeer, FlagsInv, Unflagged, sResult, sTasks, ServerFrame, wireVars
<1>22. CASE RecvHardError
  BY <1>22 DEF RecvHardError, EndArm, GateErr, StartedInv, Early, Resolved,
     InvAnyPeer, FlagsInv, Unflagged, sResult, sTasks, ServerFrame, wireVars
<1>23. CASE AwaitInterrupted
  BY <1>23 DEF AwaitInterrupted, EndArm, Raise, StartedInv, Early, Resolved,
     InvAnyPeer, FlagsInv, Unflagged, sResult, sTasks, ServerFrame, wireVars
<1>24. CASE RateBreach
  BY <1>24 DEF RateBreach, EndArm, SelfTerminate, GateErr, Raise,
     StartedInv, Early, Resolved, InvAnyPeer, FlagsInv, Unflagged, sResult, sTasks,
     ServerFrame, wireVars
<1>25. CASE IdleExpired
  BY <1>25 DEF IdleExpired, EndArm, Raise, StartedInv, Early, Resolved, InvAnyPeer,
     FlagsInv, Unflagged, sResult, sTasks, ServerFrame, wireVars
<1>26. CASE WatchdogExpired
  BY <1>26 DEF WatchdogExpired, EndArm, SelfTerminate, GateErr, Raise,
     StartedInv, Early, Resolved, InvAnyPeer, FlagsInv, Unflagged, sResult, sTasks,
     ServerFrame, wireVars
<1>27. CASE ShutdownAndFlush
  <2>1. flags = {} \/ \E f \in FlagNames : flags = {f}
    BY DEF InvAnyPeer, TypeOKAnyPeer, ServerTypeOK, FlagsInv, FlagsExclusive
  <2>2. CASE flags = {}
    BY <1>27, <2>2, FirstOfEmpty DEF ShutdownAndFlush, Early, StartedInv
  <2>3. ASSUME NEW f \in FlagNames, flags = {f} PROVE ResolvedInv'
    <3>1. docError' = IF f \in {"interrupted", "client_terminated", "server_error"}
                      THEN f ELSE "none"
      BY <1>27, <2>3, FlushOrderSingle DEF ShutdownAndFlush
    <3> QED BY <1>27, <2>3, <3>1 DEF ShutdownAndFlush, Early, StartedInv
  <2> QED BY <2>1, <2>2, <2>3
<1>28. CASE SendExchange
  BY <1>28 DEF SendExchange, GoTo, Raise, StartedInv, Early, Resolved, InvAnyPeer,
     FlagsInv, Unflagged, sResult, sTasks, ServerFrame, wireVars
<1>29. CASE RecvResults
  BY <1>29 DEF RecvResults, GoTo, Raise, StartedInv, Early, Resolved, InvAnyPeer,
     FlagsInv, Unflagged, sResult, sTasks, ServerFrame, wireVars
<1>30. CASE RecvResultsFails
  BY <1>30 DEF RecvResultsFails, Raise, StartedInv, Early, Resolved, InvAnyPeer,
     FlagsInv, Unflagged, sResult, sTasks, ServerFrame, wireVars
<1>31. CASE ExchangeInterrupted
  BY <1>31 DEF ExchangeInterrupted, Raise, StartedInv, Early, Resolved, InvAnyPeer,
     FlagsInv, Unflagged, sResult, sTasks, ServerFrame, wireVars
<1>32. CASE RecvDone
  BY <1>32 DEF RecvDone, GoTo, Raise, StartedInv, Early, Resolved, InvAnyPeer,
     FlagsInv, Unflagged, sResult, sTasks, ServerFrame, wireVars
<1>33. CASE RecvDoneFails
  BY <1>33 DEF RecvDoneFails, Raise, StartedInv, Early, Resolved, InvAnyPeer,
     FlagsInv, Unflagged, sResult, sTasks, ServerFrame, wireVars
<1>34. CASE EmitFinalOutput
  <2>0. /\ UNCHANGED flags /\ spc' = "gate"
        /\ docError' = IF docError # "none" THEN docError ELSE FirstOf(EmitOrder, flags)
    BY <1>34 DEF EmitFinalOutput
  <2>1. flags = {} \/ \E f \in FlagNames : flags = {f}
    BY DEF InvAnyPeer, TypeOKAnyPeer, ServerTypeOK, FlagsInv, FlagsExclusive
  <2>2. CASE flags = {}
    <3>1. docError' = "none" /\ Termination(flags) = "Completed"
      BY <1>34, <2>0, <2>2, FirstOfEmpty DEF EmitFinalOutput, Termination
    <3> QED BY <2>0, <3>1 DEF Early, Resolved
  <2>3. ASSUME NEW f \in FlagNames, flags = {f} PROVE ResolvedInv'
    <3>1. docError' = IF f = "early_done" THEN "none" ELSE f
      BY <1>34, <2>0, <2>3, EmitOrderSingle DEF EmitFinalOutput, FlagNames
    <3>2. Termination(flags) = IF f = "early_done" THEN "Completed" ELSE f
      BY <2>3, TerminationSingle
    <3>3. f # "Completed"
      BY <2>3 DEF FlagNames
    <3> QED BY <2>0, <3>1, <3>2, <3>3 DEF Early, Resolved
  <2> QED BY <2>1, <2>2, <2>3
<1>35. CASE Gate
  BY <1>35 DEF Gate, StartedInv, Early, Resolved, InvAnyPeer, FlagsInv, Unflagged,
     sResult, sTasks, ServerFrame, wireVars
<1>36. CASE Join
  BY <1>36 DEF Join, StartedInv, Early, Resolved, InvAnyPeer, FlagsInv, Unflagged,
     sResult, sTasks, ServerFrame, wireVars
<1>37. CASE Return
  BY <1>37 DEF Return, RunDocuments, StartedInv, Early, Resolved, InvAnyPeer,
     FlagsInv, Unflagged, sResult, sTasks, ServerFrame, wireVars
<1>38. CASE CancelServer
  BY <1>38 DEF CancelServer, StartedInv, Early, Resolved, InvAnyPeer, FlagsInv,
     Unflagged, sResult, sTasks, ServerFrame, wireVars
<1>39. CASE InterruptServer
  BY <1>39 DEF InterruptServer, StartedInv, Early, Resolved, InvAnyPeer, FlagsInv,
     Unflagged, sResult, sTasks, ServerFrame, wireVars
<1>40. ASSUME NEW i \in slive, ServerTaskEnds(i) PROVE ResolvedInv'
  BY <1>40 DEF ServerTaskEnds, StartedInv, Early, Resolved, InvAnyPeer, FlagsInv,
     Unflagged, sResult, sTasks, ServerFrame, wireVars
<1>41. CASE PeerTalks
  BY <1>41 DEF PeerTalks, StartedInv, Early, Resolved, InvAnyPeer, FlagsInv,
     Unflagged, serverVars, sResult, sTasks
<1>43. CASE PeerDials
  BY <1>43 DEF PeerDials, StartedInv, Early, Resolved, InvAnyPeer, FlagsInv,
     Unflagged, serverVars, sResult, sTasks
<1>44. CASE PeerCloses
  BY <1>44 DEF PeerCloses, StartedInv, Early, Resolved, InvAnyPeer, FlagsInv,
     Unflagged, serverVars, sResult, sTasks
<1>45. CASE UNCHANGED varsAnyPeer
  BY <1>45 DEF varsAnyPeer, serverVars, sResult, Early, Resolved
<1> QED BY <1>1, <1>2, <1>3, <1>4, <1>5, <1>6, <1>7, <1>8, <1>9, <1>10,
     <1>11, <1>12, <1>13, <1>14, <1>15, <1>16, <1>17, <1>18, <1>19, <1>20,
     <1>21, <1>22, <1>23, <1>24, <1>25, <1>26, <1>27, <1>28, <1>29, <1>30,
     <1>31, <1>32, <1>33, <1>34, <1>35, <1>36, <1>37, <1>38, <1>39, <1>40,
     <1>41, <1>43, <1>44, <1>45 DEF NextAnyPeer, ServerStep, ServerProgress,
     ServerEvents, PeerStep
-----------------------------------------------------------------------------
\* The three accounts hold together; each rests on the ones before it.
AccountInv == InvAnyPeer /\ DocumentsInv /\ StartedInv /\ ResolvedInv

\* A fresh round satisfies them.
LEMMA InitAccount == InitAnyPeer => AccountInv
BY InitInvAnyPeer DEF InitAnyPeer, ServerInit, AccountInv, DocumentsInv, StartedInv, ResolvedInv,
               ReportedRoundsStarted, RunDocuments, Early, Started

\* Every step keeps them.
LEMMA NextAccount == AccountInv /\ [NextAnyPeer]_varsAnyPeer => AccountInv'
BY NextInvAnyPeer, NextDocs, NextStarted, NextResolved DEF AccountInv

\* A round of the server writes at most one document, whatever its peer does,
\* whoever drops the future and whenever a signal arrives.
THEOREM OneServerDocument == SpecAnyPeer => []AtMostOneDocument
<1>1. AccountInv => AtMostOneDocument
  BY DEF AccountInv, DocumentsInv, AtMostOneDocument
<1> QED BY InitAccount, NextAccount, <1>1, PTL DEF SpecAnyPeer

\* A report is only ever made of a round that got all its streams and that
\* neither the negotiation nor the setup had given up.
THEOREM ReportsAreOfStartedRounds == SpecAnyPeer => []ReportedRoundsStarted
<1>1. AccountInv => ReportedRoundsStarted
  BY DEF AccountInv, StartedInv
<1> QED BY InitAccount, NextAccount, <1>1, PTL DEF SpecAnyPeer

\* The document's error key and the Termination the caller gets name the same
\* end of the round, although they are resolved at three different places.
THEOREM DocumentAgrees == SpecAnyPeer => []DocMatchesTermination
<1>1. AccountInv => DocMatchesTermination
  <2> SUFFICES ASSUME AccountInv, spc = "returned", reported, serr = "none"
               PROVE  sterm = (IF docError = "none" THEN "Completed" ELSE docError)
    BY DEF DocMatchesTermination
  <2>1. sterm = Termination(flags) /\ Resolved
    BY DEF AccountInv, ResolvedInv
  <2>2. Termination(flags) # "none"
    BY DEF Termination
  <2> QED BY <2>1, <2>2 DEF Resolved
<1> QED BY InitAccount, NextAccount, <1>1, PTL DEF SpecAnyPeer
-----------------------------------------------------------------------------
\* A test the negotiation lets through is within the limits: neither the
\* saturated sum nor the saturated product can hide an excess.
LEMMA ProceedWithinLimits ==
    ASSUME NEW t \in TestRecords, Verdict(t) = "proceed"
    PROVE  WithinLimits(t)
<1>1. ~RateViolated(t) /\ ~DurationViolated(t)
  BY DEF Verdict
<1>2. ASSUME MaxDuration \in 1..(U32Max - 1)
      PROVE  t.duration # 0 /\ t.duration + t.omit <= MaxDuration
  BY <1>1, <1>2, LimitsAssumption DEF DurationViolated, SaturatingAdd, TestRecords
<1>3. ASSUME BitrateLimit \in 1..(U64Max - 1), NEW rate \in {t.bandwidth, t.fqrate}
      PROVE  rate * t.parallel * (IF t.bidir THEN 2 ELSE 1) <= BitrateLimit
  <2> DEFINE k == IF t.bidir THEN 2 ELSE 1
  <2>1. rate \in Nat /\ t.parallel \in Nat /\ k \in Nat
    BY <1>3 DEF TestRecords
  <2>2. SaturatingMul(rate, t.parallel * k) <= BitrateLimit
    <3>1. ~(SaturatingMul(rate, t.parallel * k) > BitrateLimit)
      BY <1>1, <1>3, LimitsAssumption DEF RateViolated
    <3>2. rate * (t.parallel * k) \in Nat
      BY <2>1
    <3>3. SaturatingMul(rate, t.parallel * k) \in Nat
      BY <3>2, LimitsAssumption DEF SaturatingMul
    <3> QED BY <3>1, <3>3, LimitsAssumption
  <2>3. rate * (t.parallel * k) <= BitrateLimit
    <3>1. rate * (t.parallel * k) \in Nat
      BY <2>1
    <3> QED BY <1>3, <2>2, <3>1, LimitsAssumption DEF SaturatingMul
  <2> HIDE DEF k
  <2>4. rate * (t.parallel * k) = rate * t.parallel * k
    BY <2>1
  <2> QED BY <2>3, <2>4 DEF k
<1> QED BY <1>2, <1>3 DEF WithinLimits

\* The streams of a round are accepted only after the negotiation let the
\* test through.
NegotiatedInv ==
    spc = "setup" \/ accepted > 0 => Verdict(test) = "proceed"

\* Every step keeps that.
LEMMA NextNegotiated ==
    NegotiatedInv /\ [NextAnyPeer]_varsAnyPeer => NegotiatedInv'
<1> SUFFICES ASSUME NegotiatedInv, [NextAnyPeer]_varsAnyPeer PROVE NegotiatedInv'
  OBVIOUS
<1> USE DEF NegotiatedInv
<1>1. CASE RecvCookie
  BY <1>1 DEF RecvCookie, GoTo, ReturnErr, sResult, sTasks, ServerFrame,
     wireVars
<1>2. CASE RecvCookieFails
  BY <1>2 DEF RecvCookieFails, ReturnErr, sResult, sTasks, ServerFrame,
     wireVars
<1>3. CASE RecvParams
  <2>1. UNCHANGED <<test, accepted>>
    BY <1>3 DEF RecvParams, ServerFrame, sTasks
  <2>2. spc' = "setup" => Verdict(test) = "proceed"
    BY <1>3 DEF RecvParams, Refuse, DenyAccess, ReturnErr
  <2> QED BY <2>1, <2>2
<1>4. CASE RecvParamsFails
  BY <1>4 DEF RecvParamsFails, ReturnErr, sResult, sTasks, ServerFrame,
     wireVars
<1>5. CASE NegotiateInterrupted
  BY <1>5 DEF NegotiateInterrupted, sResult, sTasks, ServerFrame, wireVars
<1>6. CASE AcceptStream
  BY <1>6 DEF AcceptStream, sResult, sTasks, ServerFrame, wireVars
<1>7. CASE SetupCtrlByte
  BY <1>7 DEF SetupCtrlByte, Kill, sResult, sTasks, ServerFrame, wireVars
<1>8. CASE SetupCtrlClosed
  BY <1>8 DEF SetupCtrlClosed, Kill, sResult, sTasks, ServerFrame, wireVars
<1>9. CASE SetupKilled
  BY <1>9 DEF SetupKilled, Kill, sResult, sTasks, ServerFrame, wireVars
<1>10. CASE SetupIoError
  BY <1>10 DEF SetupIoError, sResult, sTasks, ServerFrame, wireVars
<1>11. CASE SetupReaped
  BY <1>11 DEF SetupReaped, sResult, sTasks, ServerFrame, wireVars
<1>12. CASE ParkDrain
  BY <1>12 DEF ParkDrain, sResult, sTasks, ServerFrame, wireVars
<1>13. CASE ParkEnds
  BY <1>13 DEF ParkEnds, sResult, sTasks, ServerFrame, wireVars
<1>14. CASE ParkInterrupted
  BY <1>14 DEF ParkInterrupted, sResult, sTasks, ServerFrame, wireVars
<1>15. CASE StartTest
  BY <1>15 DEF StartTest, GoTo, GateErr, sResult, sTasks, ServerFrame,
     wireVars
<1>16. CASE RecvTestEnd
  BY <1>16 DEF RecvTestEnd, EndArm, GoTo, sResult, sTasks, ServerFrame,
     wireVars
<1>17. CASE RecvClientTerminate
  BY <1>17 DEF RecvClientTerminate, EndArm, Raise, sResult, sTasks,
     ServerFrame, wireVars
<1>18. CASE RecvTestStart
  BY <1>18 DEF RecvTestStart, EndArm, sResult, sTasks, ServerFrame, wireVars
<1>19. CASE RecvEarlyDone
  BY <1>19 DEF RecvEarlyDone, EndArm, Raise, sResult, sTasks, ServerFrame,
     wireVars
<1>20. CASE RecvUnexpected
  BY <1>20 DEF RecvUnexpected, EndArm, Raise, sResult, sTasks, ServerFrame,
     wireVars
<1>21. CASE RecvCtrlClosed
  BY <1>21 DEF RecvCtrlClosed, EndArm, Raise, sResult, sTasks, ServerFrame,
     wireVars
<1>22. CASE RecvHardError
  BY <1>22 DEF RecvHardError, EndArm, GateErr, sResult, sTasks, ServerFrame,
     wireVars
<1>23. CASE AwaitInterrupted
  BY <1>23 DEF AwaitInterrupted, EndArm, Raise, sResult, sTasks,
     ServerFrame, wireVars
<1>24. CASE RateBreach
  BY <1>24 DEF RateBreach, EndArm, SelfTerminate, GateErr, Raise, sResult,
     sTasks, ServerFrame, wireVars
<1>25. CASE IdleExpired
  BY <1>25 DEF IdleExpired, EndArm, Raise, sResult, sTasks, ServerFrame,
     wireVars
<1>26. CASE WatchdogExpired
  BY <1>26 DEF WatchdogExpired, EndArm, SelfTerminate, GateErr, Raise,
     sResult, sTasks, ServerFrame, wireVars
<1>27. CASE ShutdownAndFlush
  BY <1>27 DEF ShutdownAndFlush, sResult, sTasks, ServerFrame, wireVars
<1>28. CASE SendExchange
  BY <1>28 DEF SendExchange, GoTo, Raise, sResult, sTasks, ServerFrame,
     wireVars
<1>29. CASE RecvResults
  BY <1>29 DEF RecvResults, GoTo, Raise, sResult, sTasks, ServerFrame,
     wireVars
<1>30. CASE RecvResultsFails
  BY <1>30 DEF RecvResultsFails, Raise, sResult, sTasks, ServerFrame,
     wireVars
<1>31. CASE ExchangeInterrupted
  BY <1>31 DEF ExchangeInterrupted, Raise, sResult, sTasks, ServerFrame,
     wireVars
<1>32. CASE RecvDone
  BY <1>32 DEF RecvDone, GoTo, Raise, sResult, sTasks, ServerFrame, wireVars
<1>33. CASE RecvDoneFails
  BY <1>33 DEF RecvDoneFails, Raise, sResult, sTasks, ServerFrame, wireVars
<1>34. CASE EmitFinalOutput
  BY <1>34 DEF EmitFinalOutput, sResult, sTasks, ServerFrame, wireVars
<1>35. CASE Gate
  BY <1>35 DEF Gate, sResult, sTasks, ServerFrame, wireVars
<1>36. CASE Join
  BY <1>36 DEF Join, sResult, sTasks, ServerFrame, wireVars
<1>37. CASE Return
  BY <1>37 DEF Return, RunDocuments, sResult, sTasks, ServerFrame, wireVars
<1>38. CASE CancelServer
  BY <1>38 DEF CancelServer, sResult, sTasks, ServerFrame, wireVars
<1>39. CASE InterruptServer
  BY <1>39 DEF InterruptServer, sResult, sTasks, ServerFrame, wireVars
<1>40. ASSUME NEW i \in slive, ServerTaskEnds(i) PROVE NegotiatedInv'
  BY <1>40 DEF ServerTaskEnds, sResult, sTasks, ServerFrame, wireVars
<1>41. CASE PeerTalks
  BY <1>41 DEF PeerTalks, serverVars, sResult, sTasks
<1>43. CASE PeerDials
  BY <1>43 DEF PeerDials, serverVars, sResult, sTasks
<1>44. CASE PeerCloses
  BY <1>44 DEF PeerCloses, serverVars, sResult, sTasks
<1>45. CASE UNCHANGED varsAnyPeer
  BY <1>45 DEF varsAnyPeer, serverVars, wireVars, sResult, sTasks
<1> QED BY <1>1, <1>2, <1>3, <1>4, <1>5, <1>6, <1>7, <1>8, <1>9, <1>10,
     <1>11, <1>12, <1>13, <1>14, <1>15, <1>16, <1>17, <1>18, <1>19, <1>20,
     <1>21, <1>22, <1>23, <1>24, <1>25, <1>26, <1>27, <1>28, <1>29, <1>30,
     <1>31, <1>32, <1>33, <1>34, <1>35, <1>36, <1>37, <1>38, <1>39, <1>40,
     <1>41, <1>43, <1>44, <1>45 DEF NextAnyPeer, ServerStep, ServerProgress,
     ServerEvents, PeerStep

\* No stream is accepted in a test beyond the server's limits, for any limits,
\* any test and any width of the two integer types.
THEOREM LimitsAlwaysRespected == SpecAnyPeer => []LimitsRespected
<1>1. InitAnyPeer => NegotiatedInv
  BY DEF InitAnyPeer, ServerInit, NegotiatedInv
<1>2. TypeOKAnyPeer /\ NegotiatedInv => LimitsRespected
  BY ProceedWithinLimits, TestsAssumption DEF TypeOKAnyPeer, WireTypeOK, NegotiatedInv, LimitsRespected
<1> QED BY <1>1, <1>2, NextNegotiated, TypeCorrect, PTL DEF SpecAnyPeer
=============================================================================
