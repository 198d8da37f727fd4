# riperf3 in TLA+

riperf3 is a network throughput tester, wire-compatible with iperf3: a client and
a server agree on a test over a TCP *control connection*, move data over TCP or
UDP *data streams*, exchange results and report. This directory holds models of
its control plane, of the parts of its data plane where threads, tasks, timers
and datagrams interleave, of the way from a command line to a test and from the
counters to a report, and of the server process with its signals and pidfile;
the TLC runs that check them on small instances; and TLAPS proofs for every size.

Source paths below are relative to `src/riperf3/src/`; `cli.rs` and `main.rs` are
in `src/riperf3-cli/src/`. `PROJECT.json` maps every
definition to the lines it models.

## 1. The system and its parts

| part | where | state | operations | interacts with |
|---|---|---|---|---|
| Serve loop | `server.rs` `run`, `run_once`, `accept_control` | listener, round count, idle restart, one-off | accept, denial of a second client, restart | starts a round per client |
| Server round | `server.rs` `handle_one_test` | `TestRunCtx`: ten abnormal-end fields, streams, `bare_end`, refused, JSON | negotiate, set up streams, run, flush, exchange, report, gate | control connection, stream tasks, signals, caller that may drop the future |
| Client run | `client.rs` `Client::run` | state loop, streams, results, document state | connect, one arm per server state, data phase, exchange, teardown | the same |
| Negotiation | `protocol.rs` `TestParams`, `server.rs` `from_params`, `negotiate_test` | none | validate, upfront duration and bitrate limits | server round |
| Control connection | `protocol.rs` | two byte streams, open/shut/closed/reset | control byte, JSON frame, cookie, error relay | both rounds |
| UDP stream setup | `server.rs` `setup_udp_*`, `protocol.rs` `udp_connect_client`, `client.rs` `create_streams` | listener, claimed sources, retry budget | magic, reply, rebind | network, kernel |
| Stream tasks | `stream.rs` | counters, `start`, `done` | senders, receivers, drain; drop guards | rounds (abort, join), reporter |
| UDP statistics | `stream.rs` `UdpRecvStats`, `UdpHeader` | packet count, loss, out of order, omit baselines | update, snapshot_omit | receiver threads, reporter |
| Interval reporter, omit boundary | `reporter.rs` | interval counters, baselines, `ReporterEnd`, `OmitBoundary` | tick, boundary, flush | tasks, driver |
| Budgets | `stream.rs`, `client.rs` `wait_byte_limit` | shared `-n`/`-k` budget | claim, refill, poll of the target | tasks, reporter, driver |
| Bitrate window | `server.rs` `RateLimitWindow` | ring of samples | push, breach | server round |
| Results and end report | `client.rs` `render_results`, `server.rs` `build_result_streams`, `json_report.rs` `ReportInput::build` | results of both hosts, `ReportSource`, documents | take counters, exchange, build, render | tasks still counting, the other host |
| Command line | `cli.rs`, `main.rs` | none | parse, check, build client or server | builders, wire, server's `from_params` |
| Process | `main.rs` `run`, `async_main`, `Sigend`, `PidfileGuard` | pidfile, signal handlers, interrupt watch | set up, serve, catch, dump, exit | serve loop, other processes at the same path and port |
| Sockets, authentication, units, CPU | `net.rs`, `auth.rs`, `units.rs`, … | none of their own | system calls, cryptography, formatting | everything |

What is hard here, and hardly reached by a test: the round of each side is one
future with a dozen waits, any of which may meet a control byte, a close, a
reset, a signal, a limit or a timeout, and may be dropped by the caller;
abnormal ends are recorded in many fields and resolved in several places; UDP
tasks are OS threads an abort does not reach; the counters of the data plane are
relaxed atomics that the tasks, the reporter and the driver share without a lock;
UDP streams are numbered and paired by order alone over a network that loses,
repeats and reorders; the reports are made from counters nobody has stopped, and
from halves that may never have arrived; numbers pass through the widths and
casts of C and are checked in three places; a signal meets a process at any point
between its first line and its last. `PROJECT.json` lists these hazards line by line, with the
property that watches each.

## 2. Modules

| module | models | composed of |
|---|---|---|
| `Negotiation` | verdict on a client's parameters, saturating limit arithmetic | - |
| `ControlWire` | control connection: bytes, frames, relays, FIN, RST, half-close, deadlines | `Negotiation` |
| `ControlServer` | one round of the server, `spc` naming the await it is parked on | `ControlWire` |
| `ControlClient` | one run of the client, `cpc` naming the await | `ControlWire` |
| `ServerAnyPeer` | the round against a peer that may do anything a TCP peer can | `ControlServer` |
| `ClientAnyServer` | the run against a server that may do anything | `ControlClient` |
| `ControlRound` | client and server together; implements `ServerAnyPeer` and `ClientAnyServer` | `ControlServer`, `ControlClient` |
| `UdpSetup` | the UDP connect handshake, recycling and demux server | - |
| `UdpStream` | one UDP stream: sender thread, network, receiver thread, omit boundary | - |
| `IntervalReporter` | counting tasks, reporter, omit boundary, budget, driver | - |
| `EndReport` | the end block of a report as a function of its input: streams, sums, retransmits, loss | - |
| `Results` | counters, omit baselines, results, exchange, documents and text of both hosts | `EndReport` |
| `CommandLine` | argument vector, C conversions, checks of `main`, builders, wire, server's configuration | - |
| `ServerLife` | abstract: what a server process promises | - |
| `ServerProcess` | server processes sharing a port and a pidfile: set-up, serve loop, signals, exit; implements `ServerLife` | `ServerLife` (refinement) |
| `*_proofs` | theorems about `ServerAnyPeer`, `ClientAnyServer`, `ControlRound`, `UdpSetup`, `UdpStream`, `IntervalReporter`, `Results`, and (`Process_proofs`) `CommandLine` and `ServerProcess` | |
| `MC*` | the instances TLC runs | |

How state and actions correspond to the code:

* **Control plane.** An action is everything between two awaits, every write,
  flag, abort and document included. The ten abnormal-end fields of `TestRunCtx`
  are the set `flags`; `FlushOrder`, `EmitOrder` and `TerminationOrder` are the
  three precedence lists that resolve them. Stream tasks are alive or ended:
  `StopTasks` is done plus abort, and a task ends at its next await or poll.
  Timeouts fire whenever they are armed; a signal may come at any time. A control
  socket closed with unread data resets, and a reset may lose what was queued.
  Payloads are names: a frame is `"Params"`, a relay the pair of a byte and a code.
* **Strangers.** The peer of `ServerAnyPeer` and the server of `ClientAnyServer` model
  no code: a step of either reads nothing, an item or all there is, and may write in
  the same step. `PeerInFlight` and `ServerInFlight` say how much may be unread when it
  writes: nothing in the runs, anything in the theorems.
* **UDP setup.** `queue` is the socket the server receives magics on, `slots` the
  sources in the order they became streams. The kernel's choice of a socket
  (connected before unconnected, ICMP when there is none) is written out in
  `ToListener` and `ToNobody` and marked external, like the network. `trouble` is
  history: what besides the program went wrong.
* **UDP stream.** `wire` is what the kernel accepted, in order; `net` what may
  still arrive. Batches are stamped before they are sent and cut back when the
  kernel takes only part; the receiver walks coalesced buffers header by header;
  `SeqModulus` is the width of the number in the header.
* **Interval reporter.** A task counts a block into the total and then into the
  interval (two steps, as in `record_sent`); the reporter walks the streams one
  by one, and prints the rows it took (`row`) when it is through, a step in which it
  may die and lose them. Taking an interval, taking a baseline, refilling the budget
  and opening the boundary are steps of their own, since another task can observe each.

* **Client and `main`.** `cdocs` counts what the library printed; `MainRenders` is
  the error document `main` adds for the errors it does not know to be printed.
* **Results.** A sender writes a batch block by block (`test.batch`: one for TCP, up
  to 128 datagrams of `sendmmsg`, 32 or the burst of `-b` else) and counts it
  afterwards, bytes and datagrams in two steps (`RecordSent`, `RecordDatagrams`), which
  may come at any time after `done`, as no task is joined before the results are
  taken; a batch may be cut short by an error. One stream's baseline is one step, and so
  is the reading of both hosts' figures of all streams for results or a report. An `Option` is a set with at most one member; bytes are counted in blocks.
  The client's document is rendered three ways from one state (document, `end` event,
  text), and the properties compare them.
* **Command line.** A text is what its three readers see of it: `strtod` a kind, a value
  in halves and the byte after it, `atoi` the leading digits (`1e3` is 1 to it and 1000
  to `strtod`), `strtol` with base 0 the number the whole text is, if it is one (a
  DSCP class name counts as its number). `Atoi`, `Rounded`, `UnitScaled`,
  `DoubleToU64`, `UnitToInt` and `ToInt` are the code's conversions, the widths of the
  integers, the mantissa and the spacings of doubles constants. `Unsupported` are the
  options `build()` refuses on the platform. `stage` is how far a vector got: parsed,
  built, on the wire, agreed.
* **Server process.** `pc` is the place in `run()`, `future` the place in `Server::run`
  polled beside the signal arm, `linked` the processes whose open file is the one at
  the path (`fs::write` is a create and a write). The refinement maps `pc`, `future`
  and `result` to one of four phases and `server_test_number - 1` to rounds served.

## 3. Runs

Every pass run explores its instance completely; each of its properties has a
mutant (a plausible bug in the mapped code, kept beside the definition it
replaces) that breaks it.

| run | instance | what it shows |
|---|---|---|
| `server_any_peer` | 1-2 streams, six tests (one per verdict and transport), a peer that writes when nothing is unread | `DocMatchesTermination`, `AtMostOneDocument`, `LimitsRespected`; `GateOpens`, `CancelReapsTasks`, `InterruptEndsRound` |
| `client_any_server` | the same, any states in any order | `OneDocument`, `GraceBeforeAbort`; `TeardownEnds`, `DroppedRunReapsTasks`, `InterruptEndsRun` |
| `control_round` | seven tests (one without any limit), signals, bitrate limit, deaths, resets; no `--server-max-duration`, which would refuse the unlimited test (its refusal is in `server_any_peer`) | `FramingKept`, `ClientCompletedTruly`, `ServerCompletedTruly`, `RelayNamesTheReason`; `RoundEnds`, `ClientInterruptEndsBoth` |
| `udp_setup` | 2 streams, 4 tries, one loss, one duplicate, one foreign datagram, both designs, all directions | `Pairing`, `ServerAheadByOne`, `RetryCovers`; `SetupEnds` |
| `udp_stream` | 4 datagrams, batches and GRO of 2, numbers modulo 4 | `NumberingDense`, `LossExact`, `NetLossWithinPackets`; `DoneEndsThreads` |
| `interval_reporter` | 2 streams, blocks of 2, target 3, with and without `-O`, `-n`, both directions | `NoByteUnaccounted`, `LimitMeansTarget`; `LimitEnds`, `ReporterEnds` |
| `results` | 2 streams, 2 blocks (3 where a batch is 2), TCP and UDP, every direction without `-O` and one stream per direction with it (UDP: one direction), batches of 2 on one stream one way, an old peer, `--get-server-output`, an end at any point; the client's OS reports retransmits, the server's does not | `CompletedFiguresMeasured`, `TerminatedShowsOwn`, `TextAgreesWithDocument`, `ServerDocumentKeepsItsWord`, `LossWithinBatch` |
| `command_line` | up to 4 of 33 options, with arguments at and past the limits and one `atoi` reads differently, `int` of 8 bits, `long` of 12, doubles exact to 2^9, a platform without `sendmmsg` | `NoLateRejection`, `BothEndsRunTheSameTest`, `NumbersMeanWhatTheySay` |
| `server_process` | 2 processes (one one-off), both with an idle timeout, 2 rounds each, 2 signals each, kills | `PidfileNamesLive`, `SignalEndsProcess`, `ImplementsServerLife` |

Three more runs are expected to be violated; each shows that the code does not do
what one of its comments says (`findings` in `PROJECT.json`):

| run | what the counterexample shows |
|---|---|
| `completed_report_is_full` | an `IPERF_DONE` in mid-test yields `Completed` with a bare report |
| `no_cross_graft` | the `end` event of a terminated `--json-stream` run shows the client's own bytes as the half the server never sent; the error that forbids it is attached after the build |
| `second_document` | a send of `IPERF_DONE` that fails after the document was printed makes `main` print an error document behind it |

Further disagreements of this kind that are visible in the models and have no run of
their own: a `SERVER_TERMINATE` that arrives while the client reads a results frame
becomes `RecvResultsFailed` (`ControlRound`); a setup killed through `?` whose park
is interrupted ends without a document (`ControlServer`); a write that outlasts the
100 ms grace is in the end totals and in no interval, and between its baseline and
the refill a sender claims more than the one block the comment allows
(`IntervalReporter`); the demux loop ends with the first magic of the last stream, so
its lost reply is never repeated (`UdpSetup`).

**Bounds, and why they are enough.** Two streams are the least with which the
round has accepted some and not all, and the reporter is between two streams; the
server tells a test's streams apart only by their number. A stranger
writes when what it wrote before was read, and of the error numbers it writes one,
which the client only passes on; the theorems have neither bound, nor has
`ControlRound`. `U32Max`/`U64Max` are
scaled down so that sums saturate (3) or never do (255). Four tries are the first
one (bounced by the gap), the one an ICMP answer swallows, one loss and one
success; the code has sixty. In `UdpStream` the numbers go round within the run.
In `Results` two streams give a bidirectional test and two streams of one
direction; two blocks give a count, a loss and a late count on top of each other, and
a batch of two leaves one block written and not counted while the other is lost
(`MaxBlocks` bounds the blocks of a test beyond one batch; batches of 128 are covered
by the proofs).
Four options are a mode, a transport and two numbers that interact; the widths
are scaled so that a unit letter carries an argument past each of them, the mantissa
so that numbers above it are rounded before they reach the width of `long`. Two
processes are the least that share a pidfile; two signals reach the second-signal
handler. What the bounds cut off is covered by the proofs where there is one.

**Deadlock** is checked in `server_process`. Everywhere else the model simply ends,
in states where both sides have returned.

**Fairness.** Weak fairness is assumed of what the runtime or the OS schedules:
polling a ready future, running a thread, firing a timer that only that wait
depends on. `select!` without `biased` picks at random among ready arms, so an
interrupt that is ready at wait after wait is eventually taken: strong fairness
in `ClientAnyServer`. The omit deadline has strong fairness since the reporter's
biased select may prefer a tick that is due, but not each time. In `ServerProcess`
the process's own steps, the 5 s window and the drop of the runtime (bounded by the
10 s drain of the streams) have weak fairness; rounds, clients and failures none. Signals, limits,
peers, losses, failures and the end of the test's time are never assumed, and the
network owes no delivery.

**Modelling decisions in the data plane.** The 100 ms between done and the flush
are long enough for two adjacent atomic operations of a task that is running,
and not for a blocked write. The two fallback timers of the reporter and the driver
(omit + 2 s, 2 s) fire only when the task they wait for is gone. A net loss may be
negative after a warm-up whose late datagrams arrive past the boundary: the code
does not clamp it. Loss is exact only until the numbers go round, which the
receiver cannot see. Jitter and rates are left out: no decision reads them.

## 4. Proofs

Eight modules hold proofs, checked by TLAPS; the theorems are listed in
`PROJECT.json`. The assumptions are only the types of the constants (positive
numbers of streams, batches, blocks, tries; natural bounds; a set of tests of the right
shape; two words of the pidfile model that are no process), and for the command line
what the library's limits and defaults owe each other (`LimitAssumption`: a default
lies within its limits, the limits within an `int`). So the results hold for
every number of streams or processes and every bound. The inductive invariant of
each stands at the end of the module it is about and was checked by TLC on the run of
that module before it was proved.

* `ServerAnyPeer_proofs`. `TypeCorrect`, then the facts on the abnormal ends:
  `FlagsExclusive` is inductive only with the positions in which a flag may be
  set (an arm that raises one leaves the data loop, the exchange starts with
  none); `AtMostOneDocument` needs which exits have written already;
  `DocMatchesTermination` follows from exclusiveness, which makes the order of the
  precedence lists irrelevant; `ReportedRoundsStarted` and `LimitsRespected` carry
  facts of the setup through the rest of the round.
* `ClientAnyServer_proofs`. `DocsInv` ties the count of documents to the outcome and
  to whether the results were displayed, at each await; `DoneInv` says which places
  are behind `done`; `AskedInv` bounds the streams a `CREATE_STREAMS` may still ask
  for, which the type of `dialed` needs. `OneDocument` and the action property
  `GraceBeforeAbort` follow. `OneDocument` is: one document without a signal, at most
  one after a signal, and two on the one path `second_document` shows, an error after the
  displayed report.
* `ControlRound_proofs`. When nothing goes wrong the server writes seven items and
  the client five (`ServerPath`, `ClientPath`). The invariant says how far each side
  is along both paths: what is unread on a wire is the stretch between what one side
  wrote and the other read, and behind it at most how the writer ended. The client is
  in one of three modes (it reads on; it waits for the number behind a
  `SERVER_ERROR`; it reads no more), and each step of either side keeps its mode or
  moves to a later one. `EndsInv` adds what each side says of its end. From it come
  `FramingKept`, the two theorems that a `Completed` on one side is one on the other,
  and that a relayed error number names what happened. The round then implements
  both `ServerAnyPeer` and `ClientAnyServer` (`ClientIsAPeer`, `ServerIsAServer`), under
  the identity mapping and without bounds on what is in flight (`Unbounded`): a step of
  one side is a step the other's stranger may take, or none of it. Two things are not
  plain from the step: that a stranger dials at most one connection more than the test
  has streams, and asks for streams only on an idle wire and where they fit. `AskInv`
  carries them: until the parameters are read the wire to the client is empty or holds
  `PARAM_EXCHANGE` alone, and the streams are asked for once. So what is proved of each
  side among strangers holds between the two (`RoundKeepsBothSides`).
* `UdpSetup_proofs`. `Inv` adds to the pairing that magics belong to streams the
  client has begun, replies to claimed ones, and that a recycled listener holds
  no magic of a connected source. Then an unclaimed source is the next stream
  (`NextSource`), so the new slot is the right one (`ClaimNext`). `RetriesCover`
  counts what the tries were spent on: as long as magics are all that went wrong, a
  waiting client has a reply on its way, a magic at the server, a server between two
  listeners, or no more tries behind it than magics lost or under way and the two the
  gap between listeners may swallow (`RecyclingCovered`); with one socket each try is
  somewhere or lost (`DemuxCovered`).
* `UdpStream_proofs`. `Inv` relates the sender's counter to the length of the wire,
  the buffered datagrams to the ones not yet counted, and `cnt_error` to the
  cardinality of what is missing below the highest number seen; numbering, sent
  count, exact loss, bounds on loss and the agreement of the two reports follow.
* `IntervalReporter_proofs`. `Inv` says how far the reporter's walk is
  (`WalkInv`) and, per stream, that reported, pending and in-flight bytes cover the
  net total on either side of the baseline (`AccountInv`). `LimitTruly` adds when the
  driver may find the target reached (`GateInv`): after the boundary, from which on
  the baselines stand, so that the net total only grows. The total is a fold over a
  finite set; that it is a sum is proved by the least set on which it would not be.
  A reporter that dies takes the rows of its last line along, and no others.
* `Results_proofs`. Each counter of a stream against the blocks on its way
  (`CountInv`), what the server took of them (`TakenInv`, `ServerResultsInv`) and
  what each document says (`ServerDocInv`, `ClientDocInv`). All five properties of
  the run are proved, the sums included. A sum is the same kind of fold
  (`SumFunction`); sums over equal figures are equal, over larger ones larger, and
  the shapes of the sums (`BuildSums`) are taken one by one. The loss of a
  stream exceeds the count it is shown over by less than a batch (`LossWithinBatch`):
  the counters are at most one batch behind what is written (`SenderInv`, `TakenInv`),
  and loss is only noticed by a datagram that arrived. A sum exceeds its count by less
  than a batch for each stream of its direction, the two added up (`SumWithin`). The
  bound is tight: results taken in mid-batch can show more lost than sent, and a
  percentage above 100, as soon as a batch is more than one datagram.
* `Process_proofs`, for `CommandLine`: for any arguments, widths, limits and defaults.
  First the conversions: `ToInt` is the identity on an `int`, `DoubleToU64` on both
  sides of 2^63 cuts the fraction off (`ToIntIdentity`, `DoubleToU64Value`), and a
  number a double holds survives rounding (`UnitScaledValue`); then what
  each field of a builder is (`BuilderSizes`, `BuilderCounts`, `ClientFields`). `InvLine`
  is what a stage knows of the earlier ones: a process past the parse has an argument
  vector main() accepted, a built client is `Client(Builder(argv))` without errors, what
  is on the wire is `BuildParams` of it. Each property is then a fact about one vector:
  `AcceptedBuilds` (`AcceptedIsBuilt`), `WireIsFaithful` (`OneTest`; options go through
  the wire as 0 and come back), `ClientAmounts` and `ClientCounts`
  (`NumbersKept`). `NumbersKept` promises of a count its leading digits, and of a
  size or rate the amount typed only where a double tells it from its neighbours: above
  2^53 the code rounds.
* `Process_proofs`, for `ServerProcess`. Per process the place in `run()` against the
  place in the serve loop, its handlers and its signals (`StageInv`); what the pidfile
  may hold while processes create, write and remove it (`PidfileNamesLive`); and that
  every step is a step or a stutter of `ServerLife` (`ProcessImplementsLife`), which
  leaves its liveness (`SignalCompletesLife` takes it from `SignalEndsProcess`).

The theorems on types, exclusive flags, started rounds, exact sent counts and
bounded loss (`TypeOK`, `FlagsExclusive`, `ReportedRoundsStarted`, `SentCountExact`,
`LossNeverOverstated`) are proved for every instance and have no run of their own.

Only model-checked is everything under fairness (`GateOpens`, `CancelReapsTasks`,
`InterruptEndsRound`, `TeardownEnds`, `DroppedRunReapsTasks`, `InterruptEndsRun`,
`RoundEnds`, `ClientInterruptEndsBoth`, `SetupEnds`, `DoneEndsThreads`, `LimitEnds`,
`ReporterEnds`, `SignalEndsProcess`), since liveness is out of the prover's reach.
Every safety property and every action property of a run is a theorem.

## 5. Not modelled

* The bitrate window as an algorithm; a breach is an event of the round.
* Socket options, TCP_INFO, CPU usage, file input, zero-copy: system calls without
  a protocol of their own (`net.rs`, `tcp_info.rs`, `cpu.rs`).
* In the reports: the start block, the interval objects, rates, jitter, CPU and
  TCP_INFO figures and the serialisation; they are carried, divided and printed, and
  decide nothing. The text summary is modelled by its figures.
* On the command line: the wording of messages and options that only choose output.
  A file-valued option is usable or not, at one moment; a key that disappears between
  the parse and the test is out of the model. The value `strtod` reads of a text is
  rounded once; that a hexadecimal mantissa is rounded digit by digit is left out.
* The library entries `run_once` and `bind`: one round of the loop without the loop.
* Windows signal handling, where the second signal is caught by a task.
* An idle expiry that wins the race with a signal leaves the serve loop without the
  `-J` document of the interrupt; documents are not part of `ServerProcess`.
* Cryptography of the authentication; its verdict is a field of a test.
* Late magics of an earlier test in the UDP setup: nothing in the protocol
  could tell them apart.

## 6. Plan

What the plan set out to model, check and prove is done, with three things left open:
the bitrate-limit window as a module of its own, since its sums of samples decide a
termination that is an event here; two consecutive UDP tests on one listener, which the
hazard of a late magic needs and `UdpSetup`, a model of one test, cannot show; and the
thirteen liveness properties, which stay with TLC for the reason given in section 4.
