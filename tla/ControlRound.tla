---------------------------- MODULE ControlRound ----------------------------
(***************************************************************************)
(* A riperf3 client and a riperf3 server in one round, over the control    *)
(* connection of ControlWire: every interleaving of the two state          *)
(* machines, with signals on both sides, limits and timeouts firing, the   *)
(* client dying, resets losing what was queued.                            *)
(***************************************************************************)
EXTENDS ControlServer, ControlClient

vars == <<wireVars, serverVars, clientVars>>

Init == WireInit /\ ServerInit /\ ClientInit

Next ==
    \/ ServerStep /\ UNCHANGED clientVars
    \/ ClientStep /\ UNCHANGED serverVars

\* Both processes run, aborted and done tasks end.  Signals, limits, timeouts,
\* deaths and failing I/O are never assumed to happen.
Fairness ==
    /\ WF_vars(ServerProgress /\ UNCHANGED clientVars)
    /\ WF_vars(ClientProgress /\ UNCHANGED serverVars)
    /\ WF_vars(WaitInterrupted /\ UNCHANGED serverVars)
    /\ WF_vars(RunInterrupted /\ UNCHANGED serverVars)
    /\ WF_vars(AwaitInterrupted /\ UNCHANGED clientVars)
    /\ \A i \in 1..MaxStreams :
          /\ WF_vars(ServerTaskReaped(i) /\ UNCHANGED clientVars)
          /\ WF_vars(ClientTaskReaped(i) /\ UNCHANGED serverVars)

Spec     == Init /\ [][Next]_vars
FairSpec == Spec /\ Fairness
------------------------------------------------------------------------------
\* The two ends never lose the framing of the stream on their own: a reader
\* that expects a control byte meets no frame, and one that expects a frame
\* meets a control byte only if the peer was interrupted or gave the round up.
FramingKept ==
    /\ cpc \in {"loop", "run"} /\ s2c # <<>> => Head(s2c) \in States
    /\ cpc = "payload" /\ s2c # <<>> => Head(s2c) \in Codes
    /\ spc \in {"setup", "await", "done"} /\ c2s # <<>> => Head(c2s) \in States
    /\ cpc = "results" /\ s2c # <<>> =>
          Head(s2c) \in {"Results", "ServerTerminate", "ServerError"}
    /\ spc = "params" /\ c2s # <<>> => Head(c2s) \in {"Params", "ClientTerminate"}
    /\ spc = "results" /\ c2s # <<>> => Head(c2s) \in {"Results", "ClientTerminate"}

\* A client that reports a completed test was right: the server took its
\* results and sent its own, and whatever ended the server's round came after
\* the exchange.
ClientCompletedTruly ==
    outcome = "Completed" =>
        /\ flags \subseteq {"interrupted", "recv_message_error"}
        /\ serr = "none"
        /\ spc \in {"done", "emit", "gate", "join", "return", "returned", "cancelled"}

\* A server that reports a completed test was right: its client displayed the
\* results of both sides and returns Completed, unless it dies first.
ServerCompletedTruly ==
    sterm = "Completed" =>
        /\ results /\ final
        /\ cpc \in {"teardown", "grace", "join"} \/ outcome = "Completed" \/ cpc = "cancelled"

\* An error number reaches the client only from the kill that sent it: the
\* client's message names the reason the server's round ended for.
RelayNamesTheReason ==
    /\ outcome = "E27"  => refused \/ "server_error" \in flags
    /\ outcome = "E37"  => refused
    /\ outcome \in {"E144", "E160"} => "server_error" \in flags \/ relay = outcome
    /\ outcome = "E203" => relay = outcome
    /\ outcome = "E106" => relay = outcome \/ serr = "RecvCookieFailed"
    /\ outcome = "E114" => serr = "RecvParamsFailed"
    \* Sent to a client that is gone, that gave up, or that reads results.
    /\ outcome \notin {"E109", "E110", "E111", "E117", "E119"}

\* Both sides come to an end, unless the test has no limit and nobody
\* interrupts it.
RoundEnds ==
    <>(\/ test.duration = 0 /\ ~test.bounded
       \/ /\ spc \in {"returned", "cancelled"} /\ slive = {}
          /\ cpc \in {"returned", "cancelled"} /\ clive = {})

\* A signal to the client ends both sides, whatever the test's limit.
ClientInterruptEndsBoth ==
    (cIntr /\ cpc \notin {"returned", "cancelled"}) ~>
        (spc \in {"returned", "cancelled"} /\ cpc \in {"returned", "cancelled"})
------------------------------------------------------------------------------
(* The inductive strengthening the proofs use: how far each side has come    *)
(* along what the other writes when nothing goes wrong.                      *)

ServerPath == <<"ParamExchange", "CreateStreams", "TestStart", "TestRunning",
                "ExchangeResults", "Results", "DisplayResults">>
ClientPath == <<"Cookie", "Params", "TestEnd", "Results", "IperfDone">>

\* What is unread of a path that was written up to its item b and read up to
\* its item a, and what was written after it.
Ahead(a, b, last)  == SubSeq(ServerPath, a + 1, b) \o last
Behind(a, b, last) == SubSeq(ClientPath, a + 1, b) \o last

\* The server still follows its path: what it has written of it, and read of
\* the client's.
ServerLive ==
    \/ spc \in {"cookie", "params", "setup", "reap", "start", "await", "exchange",
               "results", "done"}
    \/ spc = "flush" /\ flags = {}
Written == CASE spc = "cookie" -> 0
             [] spc = "params" -> 1
             [] spc \in {"setup", "reap", "start"} -> 2
             [] spc \in {"await", "flush", "exchange"} -> 4
             [] spc = "results" -> 5
             [] OTHER -> 7
ReadOf  == CASE spc = "cookie" -> 0
             [] spc = "params" -> 1
             [] spc \in {"setup", "reap", "start", "await"} -> 2
             [] spc \in {"flush", "exchange", "results"} -> 3
             [] OTHER -> 4

\* The server has yet to read its way to the client's item n.
Unread(n, last) == ReadOf <= n /\ c2s = Behind(ReadOf, n, last)

\* The client has read p items of the server's path and written n of its own.
At(p, n) ==
    \/ cpc = "connect" /\ p = 0 /\ n = 0
    \/ cpc = "loop" /\ \/ p = 0 /\ n = 1
                       \/ p \in {1, 2, 3} /\ n = 2
                       \/ p = 4 /\ n = 3
                       \/ p = 6 /\ n = 4
    \/ cpc = "create" /\ p = 2 /\ n = 2
    \/ (cpc = "run" \/ (cpc = "ending" /\ event = "none")) /\ p = 4 /\ n = 2
    \/ cpc = "results" /\ p = 5 /\ n = 4

\* How far the server can be when the client has written n items, and the
\* client when the server has written k.
ServerReach(n) == CASE n = 0 -> 0 [] n = 1 -> 1 [] n = 2 -> 4 [] n = 3 -> 5 [] OTHER -> 7
ClientReach(k) == CASE k = 0 -> 1 [] k \in {1, 2} -> 2 [] k = 4 -> 3 [] k = 5 -> 4 [] OTHER -> 5

\* What an error number relayed to a client that reads says of the server.
Reason(code) ==
    CASE code = "E27"  -> refused \/ "server_error" \in flags
      [] code = "E37"  -> refused
      [] code \in {"E144", "E160"} -> "server_error" \in flags \/ relay = code
      [] code = "E203" -> relay = code
      [] code = "E106" -> \/ relay = code
                          \/ serr = "RecvCookieFailed"
                             /\ spc \in {"return", "returned", "cancelled"}
      [] code = "E114" -> serr = "RecvParamsFailed"
                             /\ spc \in {"return", "returned", "cancelled"}
      [] OTHER -> FALSE

\* The server's round ended after it had sent its results.
AfterExchange ==
    /\ flags \subseteq {"interrupted", "recv_message_error"} /\ serr = "none"
    /\ spc \in {"done", "emit", "gate", "join", "return", "returned", "cancelled"}

\* The client displayed the results and could say so.
Displayed ==
    /\ results /\ final /\ outcome \in {"none", "Completed"}
    /\ cpc \in {"teardown", "grace", "join", "returned", "cancelled"}
    /\ cpc = "returned" => outcome = "Completed"

\* Where a client that reads on is, in front of a server that wrote k items.
Position(p, n, k) ==
    At(p, n) /\ p <= k /\ k <= ServerReach(n) /\ (results <=> p >= 6)

\* The wire between that client and a server that follows its path.
LiveWire(p, n, k) ==
    /\ k = Written /\ s2c = Ahead(p, k, <<>>) /\ Unread(n, <<>>)
    /\ spc = "reap" => relay \in {"E106", "E203", "E144"}

\* What it may still read of a server whose round is over.
EndedWire(p, k) ==
    /\ k = 7 => AfterExchange
    /\ \/ s2c = Ahead(p, k, <<>>)
       \/ s2c = Ahead(p, k, <<"ServerTerminate">>)
       \/ \E code \in Codes :
             /\ s2c = Ahead(p, k, Relay(code))
             /\ Reason(code) \/ (code = "E117" /\ k = 5 /\ p >= 4)

\* The client reads on: the wire holds the rest of the server's path and, if
\* the server's round is over, how it ended.
ReadingInv ==
    \E p \in 0..7, n \in 0..4, k \in {0, 1, 2, 4, 5, 7} :
       /\ Position(p, n, k)
       /\ IF ServerLive THEN LiveWire(p, n, k) ELSE EndedWire(p, k)

\* The client waits for the error number behind a SERVER_ERROR.
Pending == cpc = "payload" \/ (cpc = "ending" /\ event = "ServerError")

PendingInv == ~ServerLive /\ ~results /\ \E code \in Codes : s2c = <<code>> /\ Reason(code)

\* The client reads no more: what it wrote may still be read.
Over == \/ cpc \in {"teardown", "grace", "join", "returned", "cancelled"}
        \/ cpc = "ending" /\ event \in {"Terminated", "Interrupted", "Closed"}

\* It left when it had written n items, and last behind them.
Left(n, last) ==
    /\ n <= ClientReach(Written) /\ Unread(n, last)
    /\ cpc = "ending" => last = <<>>
    /\ n = 5 => last = <<>> /\ Displayed
    /\ final => n = 5

OverInv ==
    ServerLive => \E n \in 0..5, last \in {<<>>, <<"ClientTerminate">>} : Left(n, last)

JointInv ==
    /\ (cEnd = "open") <=> (cpc \notin {"returned", "cancelled"})
    /\ ServerLive => sEnd = "open"
    /\ \/ Over /\ OverInv
       \/ Pending /\ ~final /\ outcome = "none" /\ PendingInv
       \/ ~Over /\ ~Pending /\ ~final /\ outcome = "none" /\ ReadingInv

\* What each side says of its end.
EndsInv ==
    /\ flags \subseteq FlagNames \ {"early_done"} /\ relay \in Codes \cup {"none"}
    /\ ServerLive => flags = {} /\ (spc # "reap" => serr = "none")
    /\ ServerLive \/ spc = "park" => ~reported
    /\ final => AfterExchange
    /\ outcome = "Completed" => results /\ final
    /\ (spc = "emit" \/ (reported /\ serr = "none")) /\ flags = {} => Displayed
    /\ sterm = "Completed" => reported /\ serr = "none" /\ flags = {}
    /\ outcome \in Codes => ~ServerLive /\ Reason(outcome)

Inv == JointInv /\ EndsInv

\* The streams are asked for once: not before the parameters are taken, and
\* the client opens as many as the test has.
Unsaid(m, wire) == \A i \in DOMAIN wire : wire[i] # m

AskInv ==
    /\ spc \in {"cookie", "params"} =>
          /\ dialed = 0 /\ cpc # "create"
          /\ \/ s2c = <<>> /\ (spc = "cookie" => Unsaid("Params", c2s))
             \/ spc = "params" /\ s2c = <<"ParamExchange">> /\ Unsaid("Params", c2s)
    /\ dialed # 0 => Unsaid("CreateStreams", s2c)
    /\ cpc = "create" => dialed = batch
    /\ dialed <= Total(test)
    /\ spc \notin {"returned", "cancelled"} => sEnd \in {"open", "shut"}
==============================================================================
