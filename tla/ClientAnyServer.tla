--------------------------- MODULE ClientAnyServer ---------------------------
(***************************************************************************)
(* The client's run against a server that may do anything a TCP peer can:  *)
(* write any control byte, error number or frame at any time, in any order *)
(* and as often as it likes, read or not read, close or reset.             *)
(***************************************************************************)
EXTENDS ControlClient

CONSTANTS
    \* How much may be unread, each way, when the server writes more; a check
    \* bounds it, a theorem takes all of Nat.
    ServerInFlight,
    \* The error numbers the server writes.  One stands for all of them in a
    \* check: the client only passes it on.
    Numbers

ASSUME ServerInFlightAssumption ==
    ServerInFlight \subseteq Nat /\ Numbers \subseteq Codes

varsAnyServer == <<wireVars, clientVars>>

\* What the server may write at once: a byte, a number or a frame, and the
\* pairs a riperf3 server writes back to back.
Answers ==
    {<<m>> : m \in States \cup {Unmapped, "Results"} \cup Numbers}
      \cup {Relay(n) : n \in Numbers}
      \cup {<<"TestStart", "TestRunning">>, <<"Results", "DisplayResults">>}

\* MaxStreams bounds how often the client is asked for streams.
MayAsk == /\ cpc # "create"
          /\ dialed + Total(test) <= MaxStreams
          /\ s2c = <<>>

ServerWrites ==
    /\ sEnd = "open"
    /\ Len(s2c) \in ServerInFlight
    /\ Len(c2s) \in ServerInFlight
    /\ \E ms \in Answers : /\ ms = <<"CreateStreams">> => MayAsk
                           /\ SServerSend(ms)

\* Of what it was sent the server reads nothing, the next item, or all; it
\* may shut its write half.
ServerHears ==
    /\ \/ UNCHANGED c2s
       \/ c2s # <<>> /\ c2s' = Tail(c2s)
       \/ c2s' = <<>>
    /\ UNCHANGED sEnd \/ (sEnd = "open" /\ sEnd' = "shut")

ServerCloses ==
    /\ sEnd \in {"open", "shut"}
    /\ sEnd' = ClosedEnd(c2s)
    /\ c2s' = <<>>
    /\ UNCHANGED <<s2c, cEnd>>

AnyServerStep ==
    /\ \/ ServerHears /\ (ServerWrites \/ UNCHANGED <<s2c, cEnd>>)
       \/ ServerCloses
    /\ UNCHANGED <<test, dialed, clientVars>>

InitAnyServer == WireInit /\ ClientInit
NextAnyServer == ClientStep \/ AnyServerStep

\* The run's future is polled.  select! picks at random among the arms that
\* are ready, so an interrupt that is ready at every wait is taken at one of
\* them even if control bytes keep coming and the run goes from wait to wait:
\* that is strong fairness.
FairnessAnyServer ==
    /\ WF_varsAnyServer(ClientProgress)
    /\ SF_varsAnyServer(WaitInterrupted \/ RunInterrupted)
    /\ \A i \in 1..MaxStreams : WF_varsAnyServer(ClientTaskReaped(i))

SpecAnyServer     == InitAnyServer /\ [][NextAnyServer]_varsAnyServer
FairSpecAnyServer == SpecAnyServer /\ FairnessAnyServer
------------------------------------------------------------------------------
TypeOKAnyServer == WireTypeOK /\ ClientTypeOK

\* The documents -J prints: the library's and main()'s add up to exactly one
\* whatever order the server's states come in, to at most one after a signal,
\* and to two on one path only, that of a run which fails after it displayed
\* its report (see ExactlyOneDocument).
OneDocument ==
    cpc = "returned" =>
        IF cIntr THEN cdocs <= 1
        ELSE IF final /\ outcome \in ClientErrs THEN cdocs + MainRenders = 2
        ELSE cdocs + MainRenders = 1

\* The comment in main(): a second document "breaks every -J consumer.
\* iperf3 emits exactly one."  The code writes the report of a finished test
\* before it sends IPERF_DONE, and a failing send, or results that never
\* came, make it an error that main() renders again.
ExactlyOneDocument ==
    (cpc = "returned" /\ ~cIntr) => cdocs + MainRenders = 1

\* A started test is told to stop, and given the grace, before its tasks are
\* aborted: an abort in the middle of a write would lose the last interval.
GraceBeforeAbort ==
    [][(cAborted' /\ ~cAborted /\ cstarted /\ dialed > 0 /\ cpc' # "cancelled")
          => cdone]_varsAnyServer

\* Once the loop is left the run returns, whatever the server does with the
\* data connections.
TeardownEnds == (cpc = "teardown") ~> (cpc \in {"returned", "cancelled"})

\* A dropped future leaves no stream task behind.
DroppedRunReapsTasks == (cpc = "cancelled") ~> (clive = {})

\* A signal ends the run whatever the server does: every wait of the client
\* looks at it, or has an end of its own.
InterruptEndsRun ==
    (cIntr /\ cpc # "connect") ~> (cpc \in {"returned", "cancelled"})
------------------------------------------------------------------------------
(* The inductive strengthening the proofs use. *)

\* The waits of the run, before its teardown.
Waiting == {"connect", "loop", "create", "run", "ending", "payload", "results"}

\* The outcomes the library has written a document for when it returns them.
Documented == (Terminations \ {"Completed"})
                \cup {"ControlSocketClosed", "RecvResultsFailed"}

\* The run writes its document with its outcome, or when it has displayed the
\* results; those can only be followed by a failing IPERF_DONE.
DocsInv ==
    /\ cdocs = IF final \/ outcome \in Documented THEN 1 ELSE 0
    /\ cpc \in Waiting => outcome = "none" /\ ~final
    /\ final => outcome \in {"none", "Io", "Completed", "MissingResults"}
    /\ outcome = "Completed" => final
    /\ cpc = "returned" => outcome # "none"

\* done is set before any wait that an abort follows.
DoneInv == cpc \in {"ending", "grace", "join"} \/ cAborted => cdone

\* A CREATE_STREAMS is the first byte in flight, and what it asks for fits.
AskedInv ==
    /\ \A i \in DOMAIN s2c : s2c[i] = "CreateStreams" =>
          i = 1 /\ cpc # "create" /\ dialed + Total(test) <= MaxStreams
    /\ cpc \in Waiting \ {"create"} => batch = 0
    /\ cpc = "create" => /\ batch < Total(test)
                         /\ dialed + Total(test) <= MaxStreams + batch

InvAnyServer == TypeOKAnyServer /\ DocsInv /\ DoneInv /\ AskedInv
==============================================================================
