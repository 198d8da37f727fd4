---------------------------- MODULE ServerAnyPeer ----------------------------
(***************************************************************************)
(* The server's round against a peer that may do anything a TCP peer can:  *)
(* write any control byte or frame at any time, read or not read, open     *)
(* data connections or not, close or reset.  What holds here holds for     *)
(* every client the server may meet, riperf3's or not.                     *)
(***************************************************************************)
EXTENDS ControlServer

\* How much the peer may have unread with the server when it writes more; a
\* check bounds it, a theorem takes all of Nat.
CONSTANT PeerInFlight

ASSUME PeerInFlightAssumption == PeerInFlight \subseteq Nat

varsAnyPeer == <<wireVars, serverVars>>

\* Of what it was sent the peer reads nothing, the next item, or all.
PeerReads ==
    \/ UNCHANGED s2c
    \/ s2c # <<>> /\ s2c' = Tail(s2c)
    \/ s2c' = <<>>

PeerWrites ==
    /\ Len(c2s) \in PeerInFlight
    /\ \E m \in States \cup {Unmapped} \cup Frames : CClientSend(<<m>>)

\* It may answer what it reads in the same step.
PeerTalks ==
    /\ cEnd = "open"
    /\ PeerReads
    /\ PeerWrites \/ UNCHANGED <<c2s, sEnd>>
    /\ UNCHANGED <<test, cEnd, dialed, serverVars>>

\* One connection more than the test has streams: it waits in the backlog.
PeerDials ==
    /\ cEnd = "open"
    /\ dialed <= Total(test)
    /\ dialed' = dialed + 1
    /\ UNCHANGED <<test, c2s, s2c, cEnd, sEnd, serverVars>>

PeerCloses ==
    /\ cEnd = "open"
    /\ cEnd' = ClosedEnd(s2c)
    /\ s2c' = <<>>
    /\ UNCHANGED <<test, c2s, sEnd, dialed, serverVars>>

PeerStep == PeerTalks \/ PeerDials \/ PeerCloses

InitAnyPeer == WireInit /\ ServerInit
NextAnyPeer == ServerStep \/ PeerStep

\* The runtime polls the round's future, and select! is fair among the arms
\* that stay ready: a ready interrupt is taken even if control bytes keep
\* coming.  Aborted and done tasks get to their next await or poll.
FairnessAnyPeer ==
    /\ WF_varsAnyPeer(ServerProgress)
    /\ WF_varsAnyPeer(NegotiateInterrupted)
    /\ WF_varsAnyPeer(ParkInterrupted)
    /\ WF_varsAnyPeer(AwaitInterrupted)
    /\ WF_varsAnyPeer(ExchangeInterrupted)
    /\ \A i \in 1..MaxStreams : WF_varsAnyPeer(ServerTaskReaped(i))

SpecAnyPeer     == InitAnyPeer /\ [][NextAnyPeer]_varsAnyPeer
FairSpecAnyPeer == SpecAnyPeer /\ FairnessAnyPeer
------------------------------------------------------------------------------
TypeOKAnyPeer == WireTypeOK /\ ServerTypeOK

\* At most one abnormal-end field of TestRunCtx is ever set: each arm that
\* sets one leaves the data loop, and the exchange is skipped once one is set
\* (server.rs, the comment on the derivation of the Termination).
FlagsExclusive == \A f, g \in flags : f = g

\* The error key of the document and the Termination handed to the caller are
\* resolved at three places from the same fields; they never disagree.
DocMatchesTermination ==
    (spc = "returned" /\ reported /\ serr = "none") =>
        sterm = (IF docError = "none" THEN "Completed" ELSE docError)

\* A round writes at most one document: a kill that has written its own is
\* not written up again by the park, by the final output or by run().
AtMostOneDocument == sdocs <= 1

\* A round that has reported ended in await_test_end or later, so every
\* stream was accepted and the setup never killed it.
ReportedRoundsStarted ==
    reported => accepted = Total(test) /\ ~refused /\ relay = "none"

\* No stream is ever asked for in a test that breaks a limit of the server:
\* the sums of the negotiation saturate, so no large request wraps below one.
LimitsRespected == accepted > 0 => WithinLimits(test)

\* Whatever the peer does, a round that has to end does: the gate, and the
\* reaping of a setup kill, are never held up by a stream task.
GateOpens == (spc \in {"gate", "reap"}) ~> (spc \in {"returned", "cancelled", "park"})

\* A dropped future leaves no stream task behind.
CancelReapsTasks == (spc = "cancelled") ~> (slive = {})

\* An interrupt ends the round whatever the peer does or fails to do, unless
\* the round waits for data streams, where it is not looked at.
InterruptEndsRound ==
    (sIntr /\ spc # "setup") ~> (spc \in {"returned", "cancelled", "setup"})

\* outcome.rs on Termination::Completed: the test ran to completion and its
\* report is full, not the bare end of an abnormal one.
CompletedReportIsFull == sterm = "Completed" => ~bare
==============================================================================
