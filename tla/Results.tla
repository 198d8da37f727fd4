------------------------------ MODULE Results ------------------------------
(***************************************************************************)
(* From the counters to the documents.  The stream tasks of both hosts     *)
(* count what they move while the control sides end the test, baseline the *)
(* omitted part, exchange results and write their reports: the server takes*)
(* its results before the exchange and its document after it, the client    *)
(* renders what it holds when DisplayResults comes.  No task is joined on  *)
(* that way, so a write or a read that was under way when `done` was raised *)
(* may still be counted between any two of those steps.                     *)
(*                                                                         *)
(* A stream's data path is reduced to what UdpStream and IntervalReporter  *)
(* show of it: blocks are written in order and, on UDP, some are lost, so  *)
(* the receiver's packet_count is the highest number it saw and cnt_error  *)
(* the numbers below it that did not come.  A stream is named by its place *)
(* in the creation order, which UdpSetup shows both hosts agree on.        *)
(***************************************************************************)
EXTENDS EndReport

CONSTANTS Tests,        \* the tests two hosts may agree on
          MaxStreams,   \* bound on the streams of a test
          MaxBatch,     \* bound on the batch of a UDP sender
          MaxBlocks,    \* bound on the blocks written, over all streams and
                        \* beyond one batch
          Capable       \* the hosts whose OS reports TCP retransmits

Hosts == {"client", "server"}

\* What is negotiated, with the largest batch a UDP sender of the test records
\* at once; an old peer sends no omitted counts.
TestParams == {t \in [udp : BOOLEAN, reverse : BOOLEAN, bidir : BOOLEAN,
                      parallel : 1..MaxStreams, omit : BOOLEAN,
                      old_peer : BOOLEAN, batch : 1..MaxBatch] :
                 /\ ~(t.reverse /\ t.bidir)
                 /\ t.bidir => 2 * t.parallel <= MaxStreams
                 /\ t.old_peer => t.udp /\ t.omit
                 /\ ~t.udp => t.batch = 1}

ASSUME ConstantsAssumption ==
    /\ MaxStreams \in Nat \ {0} /\ MaxBatch \in Nat \ {0}
    /\ MaxBlocks \in Nat \ {0}
    /\ Capable \subseteq Hosts
    /\ Tests \subseteq TestParams

VARIABLES
    test,        \* what was negotiated
    tx, rx,      \* stream tasks: the sender's and the receiver's point
    wire,        \* blocks the kernel took from the sender
    taken,       \* blocks the receiver was handed or the network lost
    sent,        \* sender's StreamCounters: bytes (n) and datagrams
    rcvd,        \* receiver's StreamCounters and UdpRecvStats
    done,        \* per host: its done flag
    crossed,     \* per host: streams its reporter has baselined
    cl, sv,      \* control sides
    client_results, server_results,   \* the results each host took
    reply,       \* RunCtx::server_results: those the server has sent
    built,       \* ReportSource::Built: the report made before the exchange
    cdoc, sdoc   \* what each host wrote

taskVars == <<tx, rx, wire, taken, sent, rcvd>>
docVars  == <<client_results, server_results, reply, built, cdoc, sdoc>>
vars == <<test, taskVars, done, crossed, cl, sv, docVars>>

Streams == 1..(IF test.bidir THEN 2 * test.parallel ELSE test.parallel)

SenderOf(s) == IF test.bidir /\ s <= test.parallel THEN "client"
               ELSE IF test.bidir \/ test.reverse THEN "server" ELSE "client"
IsSender(h, s) == SenderOf(s) = h
ReceiverOf(s) == IF IsSender("client", s) THEN "server" ELSE "client"

NewSent == [n |-> 0, omit |-> 0, datagrams |-> 0, datagrams_omit |-> 0]
NewReceived == [n |-> 0, omit |-> 0, packets |-> 0, packets_omit |-> 0,
                errors |-> 0, errors_omit |-> 0]

Init ==
    /\ test \in Tests
    /\ tx = [s \in Streams |-> "writing"] /\ rx = [s \in Streams |-> "reading"]
    /\ wire = [s \in Streams |-> 0] /\ taken = [s \in Streams |-> 0]
    /\ sent = [s \in Streams |-> NewSent]
    /\ rcvd = [s \in Streams |-> NewReceived]
    /\ done = [h \in Hosts |-> FALSE] /\ crossed = [h \in Hosts |-> 0]
    /\ cl = "run" /\ sv = "run"
    /\ client_results = None /\ server_results = None /\ reply = None
    /\ built = None /\ cdoc = None /\ sdoc = None

-----------------------------------------------------------------------------
(* The stream tasks.  One that sees done at its wait, or is aborted there,   *)
(* simply takes no further step, an aborted sender possibly with blocks      *)
(* written and not counted.  When its host's report is out it is reaped.     *)

Reported(h) == IsSome(IF h = "client" THEN cdoc ELSE sdoc)

\* The kernel takes the next block of the sender's batch; a batch begun is
\* finished, whatever done says, but an error may cut it short.
WriteBlock(s) ==
    /\ tx[s] = "writing" /\ ~Reported(SenderOf(s))
    /\ wire[s] - sent[s].n < test.batch
    /\ SumFunction(wire) < MaxBlocks + test.batch
    /\ wire' = [wire EXCEPT ![s] = @ + 1]
    /\ UNCHANGED <<test, tx, rx, taken, sent, rcvd, done, crossed, cl, sv,
                   docVars>>

\* done is looked at before the next batch.
NextPoint(s) == IF done[SenderOf(s)] THEN "end" ELSE "writing"

\* record_sent, of the whole batch.
RecordSent(s) ==
    /\ tx[s] = "writing" /\ sent[s].n < wire[s] /\ ~Reported(SenderOf(s))
    /\ sent' = [sent EXCEPT ![s].n = wire[s]]
    /\ tx' = [tx EXCEPT ![s] = IF test.udp THEN "counted" ELSE NextPoint(s)]
    /\ UNCHANGED <<test, rx, wire, taken, rcvd, done, crossed, cl, sv, docVars>>

\* record_datagrams_sent: the batch's datagrams, in a counter of their own.
RecordDatagrams(s) ==
    /\ tx[s] = "counted" /\ ~Reported(SenderOf(s))
    /\ sent' = [sent EXCEPT ![s].datagrams = sent[s].n]
    /\ tx' = [tx EXCEPT ![s] = NextPoint(s)]
    /\ UNCHANGED <<test, rx, wire, taken, rcvd, done, crossed, cl, sv, docVars>>

\* Fault: a gap is charged with the arriving datagram too.
MissedOffByOne(seq, highest) == seq - highest

\* UdpRecvStats::update: the numbers between the highest seen and this one.
Missed(seq, highest) == seq - 1 - highest

\* record_received and UdpRecvStats::update of the next block.
ReadBlock(s) ==
    /\ rx[s] = "reading" /\ taken[s] < wire[s] /\ ~Reported(ReceiverOf(s))
    /\ taken' = [taken EXCEPT ![s] = @ + 1]
    /\ rcvd' = [rcvd EXCEPT ![s].n = @ + 1, ![s].packets = taken'[s],
                            ![s].errors = @ + Missed(taken'[s], rcvd[s].packets)]
    /\ rx' = [rx EXCEPT ![s] = IF done[ReceiverOf(s)] THEN "end" ELSE @]
    /\ UNCHANGED <<test, tx, wire, sent, done, crossed, cl, sv, docVars>>

\* The network loses a datagram.
LoseBlock(s) ==
    /\ test.udp /\ taken[s] < wire[s] /\ ~Reported(ReceiverOf(s))
    /\ taken' = [taken EXCEPT ![s] = @ + 1]
    /\ UNCHANGED <<test, tx, rx, wire, sent, rcvd, done, crossed, cl, sv,
                   docVars>>

\* snapshot_omit of one stream, by the reporter of host h.
Baseline(h, s) ==
    IF IsSender(h, s)
    THEN /\ sent' = [sent EXCEPT ![s].omit = sent[s].n,
                                 ![s].datagrams_omit = sent[s].datagrams]
         /\ UNCHANGED rcvd
    ELSE /\ rcvd' = [rcvd EXCEPT ![s].omit = rcvd[s].n,
                                 ![s].packets_omit = rcvd[s].packets,
                                 ![s].errors_omit = rcvd[s].errors]
         /\ UNCHANGED sent

\* The reporter is alive until its host has flushed it, and goes through the
\* streams one after another.
OmitBoundary(h) ==
    /\ test.omit /\ crossed[h] < Cardinality(Streams)
    /\ (IF h = "client" THEN cl ELSE sv) \in {"run", "stopping"}
    /\ Baseline(h, crossed[h] + 1)
    /\ crossed' = [crossed EXCEPT ![h] = @ + 1]
    /\ UNCHANGED <<test, tx, rx, wire, taken, done, cl, sv, docVars>>

\* The flush joins the reporter, which finishes a boundary it has begun.
Flushed(h) == crossed[h] \in {0, Cardinality(Streams)}

-----------------------------------------------------------------------------
(* What a host reads off its counters. *)

SentNet(s) == sent[s].n - sent[s].omit
RcvdNet(s) == rcvd[s].n - rcvd[s].omit
DatagramsNet(s) == sent[s].datagrams - sent[s].datagrams_omit

\* bytes_sent_net or bytes_received_net, by the host's role.
LocalBytesOf(h, s) == IF IsSender(h, s) THEN SentNet(s) ELSE RcvdNet(s)

\* sender_retransmits: one retransmit stands for whatever the kernel counted.
SenderRetransmits(h, s) ==
    Then(IsSender(h, s) /\ ~test.udp /\ h \in Capable, 1)

\* local_omitted_for.
LocalOmitted(h, s) ==
    IF IsSender(h, s) THEN sent[s].datagrams_omit ELSE rcvd[s].packets_omit

\* StreamResultJson: bytes net, packets and errors gross beside the baselines
\* the reader subtracts (which an old peer does not send).
StreamResult(h, s) ==
    LET old == h = "server" /\ test.old_peer
        rx_udp == test.udp /\ ~IsSender(h, s)
    IN  [bytes |-> LocalBytesOf(h, s),
         retransmits |-> UnwrapOr(SenderRetransmits(h, s), -1),
         errors |-> IF rx_udp THEN rcvd[s].errors ELSE 0,
         packets |-> IF rx_udp THEN rcvd[s].packets
                     ELSE IF test.udp THEN sent[s].datagrams ELSE 0,
         omitted |-> Then(~old,
                          [errors |-> IF rx_udp THEN rcvd[s].errors_omit
                                      ELSE 0,
                           packets |-> IF test.udp THEN LocalOmitted(h, s)
                                       ELSE 0])]

\* build_results, and build_result_streams with its envelope.
ResultsOf(h, output) ==
    [streams |-> [s \in Streams |-> StreamResult(h, s)],
     sender_has_retransmits |->
        IF \E s \in Streams : IsSender(h, s)
        THEN (IF ~test.udp /\ h \in Capable THEN 1 ELSE 0) ELSE -1,
     congestion |-> Then(~test.udp, h),
     server_output |-> output]

\* resolve_peer_omitted.
PeerOmitted(x, local_omitted) ==
    UnwrapOr(x.omitted, [errors |-> 0, packets |-> local_omitted])

\* The datagram statistics of a stream this host received.
MeasuredUdp(s) == [lost |-> rcvd[s].errors - rcvd[s].errors_omit,
                   packets |-> rcvd[s].packets - rcvd[s].packets_omit]

-----------------------------------------------------------------------------
(* The client's report. *)

\* stream_report_retransmits: the peer's count only when the peer can count.
ReportRetransmits(h, s, remote) ==
    IF test.udp THEN None
    ELSE IF IsSender(h, s) THEN Some(UnwrapOr(SenderRetransmits(h, s), -1))
    ELSE {r.streams[s].retransmits :
            r \in {q \in remote : q.sender_has_retransmits # 0}}

\* Client::build_report_input, one stream.  The loss of a stream it sent was
\* measured at the server and comes with the server's results.
ClientStream(s, remote) ==
    LET peer(x) == PeerOmitted(x, LocalOmitted("client", s))
        net(x) == x.packets - peer(x).packets
        sends == IsSender("client", s)
    IN  [is_sender |-> sends,
         local_bytes |-> LocalBytesOf("client", s),
         datagrams_sent |-> Then(test.udp /\ sends, DatagramsNet(s)),
         remote_bytes |-> {r.streams[s].bytes : r \in remote},
         remote_packets |-> {net(r.streams[s]) : r \in remote},
         retransmits |-> ReportRetransmits("client", s, remote),
         udp |-> IF ~test.udp THEN None
                 ELSE IF ~sends THEN Some(MeasuredUdp(s))
                 ELSE {[lost |-> r.streams[s].errors
                                    - peer(r.streams[s]).errors,
                        packets |-> net(r.streams[s])] : r \in remote}]

\* Client::build_report_input.
ClientInput(remote, bare, error) ==
    [udp |-> test.udp, reverse |-> test.reverse, bidir |-> test.bidir,
     is_server |-> FALSE, bare_end |-> bare, error |-> error,
     local_has_retransmit_info |-> "client" \in Capable,
     peer_sender_has_retransmits |-> {r.sender_has_retransmits : r \in remote},
     peer_congestion |-> UNION {r.congestion : r \in remote},
     server_output |-> UNION {r.server_output : r \in remote},
     streams |-> [s \in Streams |-> ClientStream(s, remote)]]

\* peer_half_summary.
PeerHalf(x, peer_sends, local_omitted) ==
    LET o == PeerOmitted(x, local_omitted)
    IN  [bytes |-> x.bytes,
         lost |-> IF peer_sends THEN 0 ELSE x.errors - o.errors,
         packets |-> IF test.udp THEN x.packets - o.packets ELSE 0]

ZeroHalf == [bytes |-> 0, lost |-> 0, packets |-> 0]

\* Fault: a run that got no results prints its own figures for both halves.
TextPairRepeated(s, remote) ==
    LET sends == IsSender("client", s)
        own == [bytes |-> LocalBytesOf("client", s),
                lost |-> IF test.udp /\ ~sends THEN MeasuredUdp(s).lost ELSE 0,
                packets |-> IF ~test.udp THEN 0
                            ELSE IF sends THEN DatagramsNet(s)
                            ELSE MeasuredUdp(s).packets]
        other == UnwrapOr({PeerHalf(r.streams[s], ~sends,
                                    LocalOmitted("client", s)) : r \in remote},
                          own)
    IN  [sender |-> IF sends THEN own ELSE other,
         receiver |-> IF sends THEN other ELSE own]

\* print_results_text: a sender and a receiver line for every stream, the
\* peer's line zero when it sent no results.
TextPair(s, remote) ==
    LET sends == IsSender("client", s)
        own == [bytes |-> LocalBytesOf("client", s),
                lost |-> IF test.udp /\ ~sends THEN MeasuredUdp(s).lost ELSE 0,
                packets |-> IF ~test.udp THEN 0
                            ELSE IF sends THEN DatagramsNet(s)
                            ELSE MeasuredUdp(s).packets]
        other == UnwrapOr({PeerHalf(r.streams[s], ~sends,
                                    LocalOmitted("client", s)) : r \in remote},
                          ZeroHalf)
    IN  [sender |-> IF sends THEN own ELSE other,
         receiver |-> IF sends THEN other ELSE own]

\* render_results: what each output mode shows.  The stream mode builds its
\* `end` event before the error is attached (emit_json_stream_end).
Rendered(remote, bare, error) ==
    [json   |-> Build(ClientInput(remote, bare, error)),
     stream |-> [Build(ClientInput(remote, bare, None)) EXCEPT !.error = error],
     text   |-> [s \in Streams |-> TextPair(s, remote)]]

-----------------------------------------------------------------------------
(* The server's report. *)

\* Server::build_report_input, one stream: nothing of the client's.
ServerStream(s) ==
    LET sends == IsSender("server", s)
    IN  [is_sender |-> sends,
         local_bytes |-> LocalBytesOf("server", s),
         datagrams_sent |-> Then(test.udp /\ sends, DatagramsNet(s)),
         remote_bytes |-> None, remote_packets |-> None,
         retransmits |-> Then(~test.udp /\ sends,
                              UnwrapOr(SenderRetransmits("server", s), -1)),
         udp |-> Then(test.udp /\ ~sends, MeasuredUdp(s))]

\* Server::build_report_input and build_ctx_report.
ServerReport(bare, error) ==
    Build([udp |-> test.udp, reverse |-> test.reverse, bidir |-> test.bidir,
           is_server |-> TRUE, bare_end |-> bare, error |-> error,
           local_has_retransmit_info |-> "server" \in Capable,
           peer_sender_has_retransmits |-> None, peer_congestion |-> None,
           server_output |-> None,
           streams |-> [s \in Streams |-> ServerStream(s)]])

\* Fault: the report is made anew although one went out with the results.
FinalReportRebuilt(bare, error) == ServerReport(bare, error)

\* ReportSource: the report built before the exchange is the one printed, an
\* error that came since attached to it; without one it is built now.
FinalReport(bare, error) ==
    UnwrapOr({[b EXCEPT !.error = IF IsSome(@) THEN @ ELSE error] : b \in built},
             ServerReport(bare, error))

-----------------------------------------------------------------------------
(* The control sides. *)

SetDone(h) == done' = [done EXCEPT ![h] = TRUE]

\* run_data_phase: the end condition, or an event on the control connection.
ClientStopsData ==
    /\ cl = "run" /\ cl' = "stopping"
    /\ SetDone("client")
    /\ UNCHANGED <<test, taskVars, crossed, sv, docVars>>

\* The flush is joined and TEST_END goes out.
ClientSendsTestEnd ==
    /\ cl = "stopping" /\ Flushed("client") /\ cl' = "test_end"
    /\ UNCHANGED <<test, taskVars, done, crossed, sv, docVars>>

\* await_test_end ends, with TEST_END or in some other way.
ServerStopsData ==
    /\ sv = "run" /\ sv' = "stopping"
    /\ SetDone("server")
    /\ UNCHANGED <<test, taskVars, crossed, cl, docVars>>

\* shutdown_and_flush, build_result_streams and finish_server_output; the
\* exchange is entered only on TEST_END.
ServerTakesResults ==
    /\ sv = "stopping" /\ Flushed("server") /\ sv' = "exchange"
    /\ cl = "test_end"
    /\ \E get_server_output \in BOOLEAN :
          built' = Then(get_server_output, ServerReport(FALSE, None))
    /\ server_results' = Some(ResultsOf("server", built'))
    /\ UNCHANGED <<test, taskVars, done, crossed, cl, client_results, reply,
                   cdoc, sdoc>>

\* on_exchange_results, up to the wait for the server's results.
ClientSendsResults ==
    /\ cl = "test_end" /\ sv = "exchange" /\ cl' = "results"
    /\ client_results' = Some(ResultsOf("client", None))
    /\ UNCHANGED <<test, taskVars, done, crossed, sv, server_results, reply,
                   built, cdoc, sdoc>>

\* The server reads (and drops) them, sends its own and DISPLAY_RESULTS.
ServerSendsResults ==
    /\ sv = "exchange" /\ IsSome(client_results) /\ sv' = "display"
    /\ reply' = server_results
    /\ UNCHANGED <<test, taskVars, done, crossed, cl, client_results,
                   server_results, built, cdoc, sdoc>>

\* recv_results; the next wait is the one for DISPLAY_RESULTS.
ClientReceivesResults ==
    /\ cl = "results" /\ IsSome(reply) /\ cl' = "received"
    /\ UNCHANGED <<test, taskVars, done, crossed, sv, docVars>>

\* on_display_results.
ClientDisplays ==
    /\ cl = "received" /\ cl' = "completed"
    /\ cdoc' = Some(Rendered(reply, FALSE, None))
    /\ UNCHANGED <<test, taskVars, done, crossed, sv, client_results,
                   server_results, reply, built, sdoc>>

\* IPERF_DONE: the server's turn.
ServerDisplays ==
    /\ sv = "display" /\ cl = "completed" /\ sv' = "completed"
    /\ sdoc' = Some(FinalReport(FALSE, None))
    /\ UNCHANGED <<test, taskVars, done, crossed, cl, client_results,
                   server_results, reply, built, cdoc>>

\* An interrupt or SERVER_TERMINATE (a full end), a relayed error, a lost
\* connection or results that cannot be read (a bare one).  Only the interrupt
\* of the last wait still has the server's results to show.
ClientFails(bare) ==
    /\ cl \in {"stopping", "test_end", "results", "received"}
    /\ Flushed("client")
    /\ cl' = "failed"
    /\ \E remote \in {None} \cup (IF cl = "received" /\ ~bare THEN {reply}
                               ELSE {}) :
          cdoc' = Some(Rendered(remote, bare, Some("error")))
    /\ UNCHANGED <<test, taskVars, done, crossed, sv, client_results,
                   server_results, reply, built, sdoc>>

\* The round ends in the data phase (bare for an unknown message or the
\* server's own limits) or during the exchange.
ServerFails(bare) ==
    /\ sv \in {"stopping", "exchange", "display"} /\ Flushed("server")
    /\ bare => sv = "stopping"
    /\ sv' = "failed"
    /\ sdoc' = Some(FinalReport(bare, Some("error")))
    /\ UNCHANGED <<test, taskVars, done, crossed, cl, client_results,
                   server_results, reply, built, cdoc>>

Next ==
    \/ \E s \in Streams : \/ WriteBlock(s) \/ RecordSent(s)
                          \/ RecordDatagrams(s) \/ ReadBlock(s) \/ LoseBlock(s)
    \/ \E h \in Hosts : OmitBoundary(h)
    \/ ClientStopsData \/ ClientSendsTestEnd \/ ClientSendsResults
    \/ ClientReceivesResults \/ ClientDisplays
    \/ ServerStopsData \/ ServerTakesResults \/ ServerSendsResults
    \/ ServerDisplays
    \/ \E bare \in BOOLEAN : ClientFails(bare) \/ ServerFails(bare)

Spec == Init /\ [][Next]_vars

-----------------------------------------------------------------------------
(* What the documents must say. *)

\* The run had the server's results when it wrote the document.
HadResults(doc) == IsSome(doc.input.peer_sender_has_retransmits)

\* A UDP entry is about what the sender sent, which a run that ended in an
\* error does not claim to know of a stream it received.
Unclaimed(doc, s) == test.udp /\ IsSome(doc.error) /\ ~IsSender("client", s)

SenderFigure(s, own, theirs) ==
    IF IsSender("client", s) THEN own[s] ELSE theirs[s]
ReceiverFigure(s, own, theirs) ==
    IF IsSender("client", s) THEN theirs[s] ELSE own[s]

\* The two halves of every stream, when the client's own counters stood at own
\* and the server's at theirs.
ShowsStreams(doc, own, theirs) ==
    \A s \in Streams :
       IF test.udp THEN doc.streams[s].bytes =
                           IF Unclaimed(doc, s) THEN 0
                           ELSE SenderFigure(s, own, theirs)
       ELSE /\ doc.streams[s].sender = SenderFigure(s, own, theirs)
            /\ doc.streams[s].receiver = ReceiverFigure(s, own, theirs)

\* The sums of both directions.
ShowsSums(doc, own, theirs) ==
    LET fwd == IF test.bidir THEN 1..test.parallel ELSE Streams
        rev == Streams \ fwd
        sender(S) == SumFunction([s \in S |-> SenderFigure(s, own, theirs)])
        receiver(S) == SumFunction([s \in S |-> ReceiverFigure(s, own, theirs)])
        sums == UnwrapOr(doc.sums, None)
    IN  /\ sums.sum_sent.bytes = sender(fwd)
        /\ sums.sum_received.bytes = receiver(fwd)
        /\ \A x \in sums.sum_sent_bidir_reverse : x.bytes = sender(rev)
        /\ \A x \in sums.sum_received_bidir_reverse : x.bytes = receiver(rev)

ShowsFigures(doc, own, theirs) ==
    ShowsStreams(doc, own, theirs) /\ ShowsSums(doc, own, theirs)

OwnFigures(doc)  == [s \in Streams |-> doc.input.streams[s].local_bytes]
PeerFigures      == [s \in Streams |->
                        UnwrapOr({r.streams[s].bytes : r \in reply}, 0)]

\* The document of a completed run shows, for every stream and in every sum,
\* what the host on that side of the stream counted: a peer's figure is never
\* replaced by a local one, a count of zero included, in any direction.
CompletedFiguresMeasured ==
    cl = "completed" =>
        \A d \in cdoc : /\ ShowsFigures(d.json, OwnFigures(d.json), PeerFigures)
                        /\ ShowsFigures(d.stream, OwnFigures(d.stream),
                                        PeerFigures)

KnownPeerFigures(doc) ==
    IF HadResults(doc) THEN PeerFigures ELSE [s \in Streams |-> 0]

\* A run that ended in an error shows its own counts and, for the peer's
\* halves, what the peer sent or zero: nothing it did not measure or was told.
TerminatedShowsOwn ==
    cl = "failed" =>
        \A d \in cdoc : d.json.bare \/
            ShowsFigures(d.json, OwnFigures(d.json), KnownPeerFigures(d.json))

\* As TerminatedShowsOwn, of the `end` event of the stream mode.
NoCrossGraft ==
    cl = "failed" =>
        \A d \in cdoc : d.stream.bare \/
            ShowsFigures(d.stream, OwnFigures(d.stream),
                         KnownPeerFigures(d.stream))

\* The entry that claims nothing is that of an interrupt after the results.
TextAgrees(d) ==
    \A s \in Streams :
        LET j == d.json.streams[s]
            t == d.text[s]
        IN  IF test.udp
            THEN /\ \/ HadResults(d.json) /\ Unclaimed(d.json, s)
                    \/ j.bytes = t.sender.bytes
                 /\ j.lost = t.receiver.lost
            ELSE j.sender = t.sender.bytes /\ j.receiver = t.receiver.bytes

\* The text summary and the document of the same run tell the same bytes and
\* the same loss of every stream, however the run ended (but for the entry that
\* claims nothing where an interrupt came after the results).
TextAgreesWithDocument == \A d \in cdoc : d.json.bare \/ TextAgrees(d)

\* The server's document is made after the results it sent: whatever its tasks
\* counted in between, it never shows less for a stream than the client was
\* told, and a report that travelled with the results is the one it prints.
ServerDocumentKeepsItsWord ==
    \A d \in sdoc :
        /\ \A r \in reply, s \in Streams :
              d.bare \/ d.input.streams[s].local_bytes >= r.streams[s].bytes
        /\ \A r \in reply : \A o \in r.server_output :
              o.streams = d.streams /\ o.sums = d.sums

\* What a sender may have on the wire beyond the datagrams it has counted, of
\* which the last was received if any loss was seen at all.
StreamSlack == test.batch - 1
SumSlack == test.parallel * StreamSlack

StreamLossWithinBatch(d) ==
    \A s \in Streams : d.streams[s].percent_of > 0 =>
        d.streams[s].lost <= d.streams[s].percent_of + StreamSlack

SumLossWithinBatch(d) ==
    \A m \in d.sums : \A x \in {m.sum_sent, m.sum_received} \cup m.sum :
        \A l \in x.lost, p \in x.percent_of : p > 0 => l <= p + SumSlack

LossesWithinBatch(d) == StreamLossWithinBatch(d) /\ SumLossWithinBatch(d)

\* Without an omitted period the loss one host measured exceeds the count of
\* sent datagrams it is shown over by less than the one batch a stream's sender
\* had under way, though the two are read at different times and the datagrams
\* are counted batch by batch: a sender that counts every datagram by itself
\* never makes a percentage above 100.
LossWithinBatch ==
    ~test.omit /\ test.udp =>
        \A d \in {c.json : c \in cdoc} \cup sdoc : LossesWithinBatch(d)

-----------------------------------------------------------------------------
(* The inductive strengthening the proofs use. *)

Counts == [n : Nat, omit : Nat, datagrams : Nat, datagrams_omit : Nat]
RecvCounts == [n : Nat, omit : Nat, packets : Nat, packets_omit : Nat,
               errors : Nat, errors_omit : Nat]

TypeOK ==
    /\ test \in TestParams
    /\ tx \in [Streams -> {"writing", "counted", "end"}]
    /\ rx \in [Streams -> {"reading", "end"}]
    /\ wire \in [Streams -> Nat] /\ taken \in [Streams -> Nat]
    /\ sent \in [Streams -> Counts] /\ rcvd \in [Streams -> RecvCounts]
    /\ done \in [Hosts -> BOOLEAN] /\ crossed \in [Hosts -> Nat]
    /\ cl \in {"run", "stopping", "test_end", "results", "received",
               "completed", "failed"}
    /\ sv \in {"run", "stopping", "exchange", "display", "completed", "failed"}

\* How far a sender's counters are behind what it wrote: less than a batch
\* more, the bytes counted first.
SenderInv(s) ==
    /\ sent[s].datagrams <= sent[s].n /\ sent[s].n <= wire[s]
    /\ wire[s] <= sent[s].datagrams + test.batch
    /\ tx[s] = "counted" => test.udp /\ wire[s] = sent[s].n
    /\ tx[s] # "counted" => sent[s].datagrams = sent[s].n
    /\ tx[s] = "end" => wire[s] = sent[s].n

\* A stream's counters: nothing is received that was not written, nothing is
\* baselined that was not counted, and of the numbers up to the highest seen
\* each was counted or charged as lost.
CountInv(s) ==
    /\ rcvd[s].packets <= taken[s] /\ taken[s] <= wire[s]
    /\ test.udp => SenderInv(s)
    /\ rcvd[s].n + rcvd[s].errors = rcvd[s].packets
    /\ rcvd[s].packets > 0 => rcvd[s].n > 0
    /\ sent[s].n <= wire[s]
    /\ sent[s].omit <= sent[s].n /\ rcvd[s].omit <= rcvd[s].n
    /\ ~test.omit => /\ sent[s].omit = 0 /\ rcvd[s].omit = 0
                     /\ sent[s].datagrams_omit = 0
                     /\ rcvd[s].packets_omit = 0 /\ rcvd[s].errors_omit = 0

\* What the server took stays true of its streams, which were told to stop:
\* each counts the batch it has under way at most, and no baseline is taken any
\* more.
TakenInv(x, s) ==
    /\ x.bytes \in Int /\ x.bytes <= LocalBytesOf("server", s)
    /\ ~test.omit /\ test.udp =>
          /\ x.omitted = Some([errors |-> 0, packets |-> 0])
          /\ x.packets \in Nat
          /\ IF IsSender("server", s)
             THEN /\ x.packets <= x.bytes /\ x.errors = 0
                  /\ wire[s] <= x.packets + test.batch
                  /\ tx[s] # "end" => sent[s].datagrams = x.packets
             ELSE x.errors \in Nat /\ x.errors <= rcvd[s].errors

\* The server takes its results once, and sends what it took.
ServerResultsInv ==
    /\ sv # "run" => done["server"]
    /\ IsSome(server_results) => sv \notin {"run", "stopping"}
    /\ reply \in {None, server_results}
    /\ cl = "received" => IsSome(reply)
    /\ \/ server_results = None /\ built = None
       \/ \E r \in server_results : server_results = {r} /\ r.server_output = built
    /\ \A r \in server_results, s \in Streams : TakenInv(r.streams[s], s)
    /\ built = None \/ \E b \in built : built = {b}
    /\ \A b \in built :
          /\ \A r \in server_results, s \in Streams :
                b.input.streams[s].local_bytes = r.streams[s].bytes
          /\ ~test.omit /\ test.udp => LossesWithinBatch(b)

\* The server's document against what it took, sent or not.
ServerDocInv(d) ==
    /\ sv \in {"completed", "failed"}
    /\ \A r \in server_results :
          /\ \A s \in Streams :
                d.input.streams[s].local_bytes >= r.streams[s].bytes
          /\ \A o \in r.server_output : o.streams = d.streams /\ o.sums = d.sums
    /\ ~test.omit /\ test.udp => LossesWithinBatch(d)

ClientDocInv(d) ==
    /\ cl \in {"completed", "failed"}
    /\ HadResults(d.json) => IsSome(reply)
    /\ cl = "completed" => HadResults(d.json) /\ ~d.json.bare /\ d.stream = d.json
    /\ ShowsStreams(d.json, OwnFigures(d.json), KnownPeerFigures(d.json))
    /\ d.json.bare \/ ShowsSums(d.json, OwnFigures(d.json), KnownPeerFigures(d.json))
    /\ TextAgrees(d)
    /\ ~test.omit /\ test.udp => LossesWithinBatch(d.json)

Inv == /\ TypeOK /\ \A s \in Streams : CountInv(s)
       /\ ServerResultsInv
       /\ \A d \in sdoc : ServerDocInv(d)
       /\ \A d \in cdoc : ClientDocInv(d)
=============================================================================
