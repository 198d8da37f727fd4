---------------------------- MODULE CommandLine ----------------------------
(***************************************************************************)
(* From an argument vector to a test both ends agree on: clap's own        *)
(* checks, the parse-class checks of main(), the builders of the library,  *)
(* the parameters a client puts on the wire and what TestConfig::          *)
(* from_params makes of them on the server.  Ranges are checked twice, in  *)
(* main() and in build(), on numbers that C conversions may have wrapped,  *)
(* and a third time by the server.                                         *)
(*                                                                         *)
(* A text is read in three ways, which need not agree (1e3, 0x10, 010), so *)
(* it is what each of them sees: strtod a kind ("number", "nan", "inf",    *)
(* "junk" for no number at all, "v4", "v6" or "name" for an address or a   *)
(* name), twice the value written (halves stand for fractions) and the     *)
(* byte that follows ("" none, "k" a unit letter, "x" any other; k stands  *)
(* for all four unit letters); atoi the leading decimal digits with their  *)
(* sign; and strtol with base 0 the text as a whole, or nothing.  An       *)
(* argument is the sequence of its texts between slashes; a flag has none. *)
(***************************************************************************)
EXTENDS Integers, Sequences, FiniteSets

CONSTANTS
    Inputs,                        \* <<option, argument>> a user may type
    MaxInputs,                     \* bound: arguments of one command line
    Unsupported,                   \* options this platform cannot serve
    IntTop, LongTop,               \* 2^31 and 2^63, one past i32 and i64
    Mantissa, Spacings,            \* of doubles, both in halves: how far they
                                   \* are 1 apart, and how far apart they get
    Kibi, Kilo,                    \* 1024 for sizes, 1000 for rates
    MaxTime, MaxOmit, MaxPort, MaxParallel, MaxMss,
    MinTimeout, MaxTimeout,        \* of --rcv-timeout, in milliseconds
    MinInterval, MaxInterval,      \* in halves of a second
    MaxWindow, MaxBurst, MaxBlock, MinUdpBlock, MaxUdpBlock,
    MaxTos, MaxDscp,
    DefaultDuration, DefaultTcpBlock, DefaultUdpBlock, DefaultUdpRate,
    DefaultPacing,
    Mss                            \* what TCP_MAXSEG may report; {}: it fails

VARIABLES
    argv,     \* the options given so far; a repeated one overrides itself
    stage,    \* how far the process got
    why,      \* what refused it, "" otherwise
    made,     \* the built Client or Server
    blksize,  \* the block size the client runs with
    wire,     \* the parameters sent
    config    \* the TestConfig of the server

varsLine == <<argv, stage, why, made, blksize, wire, config>>

Nothing == [none |-> TRUE]

----------------------------------------------------------------------------
(* Numbers, the way C converts them.                                       *)

ASSUME WidthAssumption ==
    IntTop \in Nat \ {0} /\ LongTop \in Nat /\ IntTop <= LongTop

IntMin == -IntTop
IntMax == IntTop - 1
LongMin == -LongTop
LongMax == LongTop - 1

ASSUME DoubleAssumption ==
    Mantissa \in Nat /\ Spacings \subseteq Nat \ {0} /\ 1 \in Spacings

ASSUME ScaleAssumption == Kibi \in Nat \ {0} /\ Kilo \in Nat \ {0}

\* What the defaults and limits of the library owe each other.
ASSUME LimitAssumption ==
    /\ {MaxTime, MaxOmit} \subseteq 0..IntMax
    /\ MaxBurst \in Nat
    /\ {MaxBlock, MinUdpBlock, MaxUdpBlock, DefaultPacing} \subseteq 1..IntMax
    /\ DefaultDuration \in 0..MaxTime
    /\ DefaultTcpBlock \in 1..MaxBlock
    /\ DefaultUdpBlock \in MinUdpBlock..MaxUdpBlock
    /\ \A mss \in Mss : mss \subseteq Int

Clamp(v, lo, hi) == IF v < lo THEN lo ELSE IF v > hi THEN hi ELSE v

ToInt(v) == ((v + IntTop) % (2 * IntTop)) - IntTop

Truncated(half) == IF half < 0 THEN -((-half) \div 2) ELSE half \div 2

\* Fault: the number strtod reads, its fraction cut off.
AtoiOfDouble(t) == ToInt(Clamp(Truncated(t.half), LongMin, LongMax))

\* atoi: a saturating strtol of the leading digits, narrowed to int.
Atoi(t) == ToInt(Clamp(t.digits, LongMin, LongMax))

\* The spacing of the doubles around n: the least with n inside its range.
IsSpacing(u, n) ==
    n <= u * Mantissa /\ \A w \in Spacings : w < u => n > w * Mantissa

SpacingAt(n) ==
    CHOOSE u \in Spacings :
        (\E w \in Spacings : IsSpacing(w, n)) => IsSpacing(u, n)

\* The double nearest to n, ties to the even multiple of the spacing.
Nearest(n) ==
    LET u == SpacingAt(n)
        q == n \div u
        rest == 2 * (n - q * u)
    IN  IF rest > u \/ (rest = u /\ q % 2 = 1) THEN (q + 1) * u ELSE q * u

Rounded(half) ==
    IF half \in -Mantissa..Mantissa THEN half
    ELSE IF half < 0 THEN -Nearest(-half) ELSE Nearest(half)

\* c_strtod_prefix: a double, or nothing.
IsDouble(t) == t.kind \in {"number", "nan", "inf"}
Strtod(t) == [nan |-> t.kind = "nan", half |-> Rounded(t.half)]

Atof(t) == IF IsDouble(t) THEN Strtod(t) ELSE [nan |-> FALSE, half |-> 0]

\* unit_suffix_scaled: any byte but a unit letter after the number is an error.
IsUnit(t) == IsDouble(t) /\ t.suffix # "x"
UnitScaled(t, base) ==
    [Strtod(t) EXCEPT !.half = IF t.suffix = "k" THEN Rounded(@ * base) ELSE @]

UnitAtoi(t) == UnitScaled(t, Kibi)
UnitAtofRate(t) == UnitScaled(t, Kilo)

\* What x86 makes of (uint64_t) d: two's complement below 2^63, shifted above.
DoubleToU64(d) ==
    IF d.nan THEN LongTop
    ELSE IF d.half < 2 * LongTop
         THEN Clamp(Truncated(d.half), LongMin, LongMax) % (2 * LongTop)
         ELSE LET rest == d.half - 2 * LongTop
              IN  IF rest < 2 * LongTop THEN Truncated(rest) + LongTop ELSE 0

UnitToInt(t) == ToInt(DoubleToU64(UnitAtoi(t)))

\* Rust's saturating `as i32`; a NaN is 0.
DoubleAsInt(d) == IF d.nan THEN 0 ELSE Clamp(Truncated(d.half), IntMin, IntMax)

\* u32::try_from(v).unwrap_or(otherwise) on an int.
TryUnsigned(v, otherwise) == IF v < 0 THEN otherwise ELSE v

----------------------------------------------------------------------------
(* Options.  An optional value is the set of its values: {} is None.       *)

Has(a, o) == o \in DOMAIN a
Given(a, o, Read(_)) == IF Has(a, o) THEN {Read(a[o][1])} ELSE {}
UnwrapOr(opt, default) == IF opt = {} THEN default ELSE CHOOSE v \in opt : TRUE
NonZero(opt) == {v \in opt : v # 0}

CommonOptions ==
    {"server", "client", "port", "format", "interval", "verbose", "json",
     "debug", "pidfile", "logfile", "forceflush", "timestamps"}

ServerOptions ==
    {"one_off", "daemon", "idle_timeout", "server_bitrate_limit",
     "server_max_duration"}

TestOptions ==
    {"udp", "time", "bytes", "blockcount", "length", "parallel", "reverse",
     "bidir", "window", "congestion", "mss", "no_delay", "bitrate", "tos",
     "omit", "title", "extra_data", "connect_timeout", "get_server_output",
     "udp_counters_64bit", "repeating_payload", "dont_fragment"}

SocketOptions ==
    {"cport", "pacing_timer", "version4", "version6", "bind", "bind_dev",
     "fq_rate", "flowlabel", "dscp", "mptcp", "zerocopy", "skip_rx_copy",
     "rcv_timeout", "snd_timeout", "file", "affinity", "json_stream",
     "json_stream_full_output", "gsro", "sendmmsg", "cntl_ka", "username",
     "rsa_public_key_path", "rsa_private_key_path", "authorized_users_path",
     "time_skew_threshold", "use_pkcs1_padding"}

\* clap hands over an argument for each of these options, a flag has none.
ValueOptions ==
    {"port", "format", "interval", "idle_timeout", "server_bitrate_limit",
     "server_max_duration", "time", "bytes", "blockcount", "length",
     "parallel", "window", "mss", "bitrate", "tos", "omit", "connect_timeout",
     "cport", "pacing_timer", "bind", "fq_rate", "dscp", "rcv_timeout",
     "snd_timeout", "time_skew_threshold"}

Texts ==
    [kind : {"number", "nan", "inf", "junk", "v4", "v6", "name"},
     half : Int, suffix : {"", "k", "x"}, digits : Int, whole : SUBSET Int]

IsInput(o, arg) ==
    /\ o \in CommonOptions \cup ServerOptions \cup TestOptions
               \cup SocketOptions
    /\ arg \in Seq(Texts)
    /\ o \in ValueOptions => arg # <<>>

ASSUME InputsAssumption == \A in \in Inputs : IsInput(in[1], in[2])

ClientOnly ==
    TestOptions \cup {"pacing_timer", "zerocopy", "skip_rx_copy", "fq_rate",
                     "flowlabel", "dscp", "username", "rsa_public_key_path",
                     "gsro", "sendmmsg"}

\* first_client_only_violation: -A is the client's when it names two cores.
ClientOnlyGiven(a) ==
    \/ DOMAIN a \cap ClientOnly # {}
    \/ Has(a, "affinity") /\ Len(a["affinity"]) > 1

ServerOnly ==
    ServerOptions \cup {"rsa_private_key_path", "time_skew_threshold",
                       "use_pkcs1_padding"}

\* The required group "mode" takes one of -s and -c; -4 conflicts with -6.
ClapRejects(a) ==
    \/ Has(a, "server") <=> Has(a, "client")
    \/ Has(a, "version4") /\ Has(a, "version6")

\* The options read by atoi, with the range main() accepts.
IntRange ==
    [time |-> 0..MaxTime, server_max_duration |-> 0..MaxTime,
     idle_timeout |-> 1..MaxTime, omit |-> 0..MaxOmit,
     port |-> 1..MaxPort, cport |-> 1..MaxPort,
     parallel |-> IntMin..MaxParallel, mss |-> IntMin..MaxMss,
     rcv_timeout |-> MinTimeout..MaxTimeout,
     snd_timeout |-> 0..MaxTimeout,
     time_skew_threshold |-> 1..IntMax]

BadInterval(d) ==
    d.nan \/ d.half \notin {0} \cup MinInterval..MaxInterval

KeepaliveViolated(spec) ==
    LET Piece(i) == IF i <= Len(spec) THEN Atoi(spec[i]) ELSE 0
    IN  Piece(1) # 0 /\ Piece(1) <= ToInt(Piece(3) * Piece(2))

RangeViolated(a) ==
    \/ \E o \in DOMAIN IntRange \cap DOMAIN a : Atoi(a[o][1]) \notin IntRange[o]
    \/ \E t \in Given(a, "format", LAMBDA t : t) : t.suffix # "k"
    \/ Has(a, "reverse") /\ Has(a, "bidir")
    \/ \E d \in Given(a, "interval", Atof) : BadInterval(d)
    \/ Has(a, "cntl_ka") /\ KeepaliveViolated(a["cntl_ka"])

\* The size, rate and window texts, before any side effect.
UnitViolated(a) ==
    \/ \E o \in {"bytes", "blockcount", "length", "pacing_timer",
                 "connect_timeout", "window", "fq_rate", "bitrate",
                 "server_bitrate_limit"} \cap DOMAIN a :
          ~IsUnit(a[o][1])
    \/ \E d \in Given(a, "window", UnitAtoi) : ~d.nan /\ d.half > 2 * MaxWindow
    \/ /\ Has(a, "bitrate") /\ Len(a["bitrate"]) > 1
       /\ Atoi(a["bitrate"][2]) \notin 1..MaxBurst
    \/ /\ Has(a, "server_bitrate_limit") /\ Len(a["server_bitrate_limit"]) > 1
       /\ BadInterval(Atof(a["server_bitrate_limit"][2]))

EndConditionSet(a, o) ==
    \E d \in Given(a, o, UnitAtoi) : DoubleToU64(d) # 0

EndConditionsConflict(a) ==
    \/ /\ Has(a, "time")
       /\ EndConditionSet(a, "bytes") \/ EndConditionSet(a, "blockcount")
    \/ EndConditionSet(a, "bytes") /\ EndConditionSet(a, "blockcount")

\* Fault: the block size is left to the builder.
LengthAccepted(a) == FALSE

LengthRejected(a) ==
    \E v \in Given(a, "length", UnitToInt) :
       \/ (v < 0 /\ ~Has(a, "udp")) \/ v > MaxBlock
       \/ v # 0 /\ Has(a, "udp") /\ v \notin MinUdpBlock..MaxUdpBlock

\* parse_class_rejection; usable is the set of files that open and hold a key.
ParseClassRejects(a, usable) ==
    \/ /\ Has(a, "server")
       /\ \/ ClientOnlyGiven(a)
          \/ Has(a, "rsa_private_key_path") # Has(a, "authorized_users_path")
          \/ \E o \in {"rsa_private_key_path", "authorized_users_path"} :
                Has(a, o) /\ o \notin usable
    \/ /\ Has(a, "client")
       /\ \/ DOMAIN a \cap ServerOnly # {}
          \/ Has(a, "username") # Has(a, "rsa_public_key_path")
          \/ /\ Has(a, "username")
             /\ ~({"rsa_public_key_path", "password"} \subseteq usable)
          \/ Has(a, "authorized_users_path")
          \/ Has(a, "rcv_timeout") /\ ~Has(a, "reverse") /\ ~Has(a, "bidir")
          \/ Has(a, "file") /\ Has(a, "udp")
          \/ LengthRejected(a)
          \/ EndConditionsConflict(a)

MainRejects(a, usable) ==
    \/ ClapRejects(a)
    \/ RangeViolated(a)
    \/ UnitViolated(a)
    \/ ParseClassRejects(a, usable)

----------------------------------------------------------------------------
(* The builders.                                                           *)

\* parse_int_base0: -S and --dscp are read by the library only, as a whole and
\* with the base their prefix names.
BadTos(t) == t.kind = "name" \/ t.whole \cap 0..MaxTos = {}

\* parse_dscp: a class name of DSCP (a "name" with a value) is as good.
BadDscp(t) == t.whole \cap 0..MaxDscp = {}

BindConflicts(a) ==
    \E t \in Given(a, "bind", LAMBDA t : t) :
       \/ Has(a, "version4") /\ t.kind = "v6"
       \/ Has(a, "version6") /\ t.kind = "v4"

\* What build_client() hands the builder: the amounts of the test, ...
Amounts(a) ==
    LET U64(o) == Given(a, o, LAMBDA t : DoubleToU64(UnitAtoi(t)))
    IN  [udp       |-> Has(a, "udp"),
         duration  |-> UnwrapOr(Given(a, "time",
                                      LAMBDA t : TryUnsigned(Atoi(t), IntMax)),
                                DefaultDuration),
         pacing    |-> UnwrapOr({v \in Given(a, "pacing_timer", UnitToInt) :
                                    v > 0}, 0),
         bytes     |-> U64("bytes"),
         blocks    |-> U64("blockcount"),
         length    |-> Given(a, "length", UnitToInt),
         streams   |-> UnwrapOr(Given(a, "parallel",
                                      LAMBDA t : TryUnsigned(Atoi(t), 0)), 1),
         reverse   |-> Has(a, "reverse"),
         bidir     |-> Has(a, "bidir"),
         window    |-> Given(a, "window", LAMBDA t : DoubleAsInt(UnitAtoi(t))),
         mss       |-> Given(a, "mss", Atoi),
         no_delay  |-> Has(a, "no_delay"),
         bandwidth |-> Given(a, "bitrate",
                              LAMBDA t : DoubleToU64(UnitAtofRate(t))),
         burst     |-> IF Has(a, "bitrate") /\ Len(a["bitrate"]) > 1
                       THEN TryUnsigned(Atoi(a["bitrate"][2]), 0) ELSE 0]

\* ... and the rest; --dscp replaces -S.
Extras(a) ==
    [tos       |-> UnwrapOr(Given(a, "dscp", LAMBDA t : 4 * UnwrapOr(t.whole, 0)),
                            UnwrapOr(Given(a, "tos",
                                           LAMBDA t : UnwrapOr(t.whole, 0)), 0)),
     omit      |-> UnwrapOr(Given(a, "omit",
                                  LAMBDA t : TryUnsigned(Atoi(t), IntMax)), 0),
     interval  |-> Given(a, "interval", Atof),
     repeating |-> Has(a, "repeating_payload"),
     gsro      |-> Has(a, "gsro"),
     df        |-> Has(a, "dont_fragment"),
     fq_rate   |-> Given(a, "fq_rate", LAMBDA t : DoubleToU64(UnitAtofRate(t)))]

Builder(a) ==
    [f \in DOMAIN Amounts(a) \cup DOMAIN Extras(a) |->
       IF f \in DOMAIN Amounts(a) THEN Amounts(a)[f] ELSE Extras(a)[f]]

\* The errors of build_client() and ClientBuilder::build, by field; what the
\* platform cannot serve is an error of its own kind.
ClientErrors(a, b) ==
    {e \in {"end", "len", "tos", "dscp", "duration", "bind_address", "omit",
            "interval", "burst", "unsupported"} :
        \/ e = "end" /\ EndConditionsConflict(a)
        \/ e = "tos" /\ \E t \in Given(a, "tos", LAMBDA t : t) : BadTos(t)
        \/ e = "dscp" /\ \E t \in Given(a, "dscp", LAMBDA t : t) : BadDscp(t)
        \/ e = "duration" /\ b.duration > MaxTime
        \/ e = "bind_address" /\ BindConflicts(a)
        \/ e = "omit" /\ b.omit > MaxOmit
        \/ e = "interval" /\ \E d \in b.interval : BadInterval(d)
        \/ e = "burst" /\ b.burst > MaxBurst
        \/ e = "unsupported" /\ DOMAIN a \cap Unsupported # {}
        \/ e = "len" /\ \E v \in NonZero(b.length) :
              \/ v < 0
              \/ ~b.udp /\ v > MaxBlock
              \/ b.udp /\ v \notin MinUdpBlock..MaxUdpBlock}

\* ClientBuilder::build, the successful case.
Client(b) ==
    [b EXCEPT !.length = NonZero(@), !.window = NonZero(@),
              !.bytes = NonZero(@), !.blocks = NonZero(@),
              !.bandwidth = {UnwrapOr(@, IF b.udp THEN DefaultUdpRate ELSE 0)},
              !.pacing = IF @ = 0 THEN DefaultPacing ELSE @]

Server(a) ==
    LET limit == Has(a, "server_bitrate_limit")
        spec  == a["server_bitrate_limit"]
    IN  [rateLimit     |-> Given(a, "server_bitrate_limit",
                                 LAMBDA t : DoubleToU64(UnitAtofRate(t))),
         rateInterval  |-> IF limit /\ Len(spec) > 1 THEN NonZero({Atof(spec[2]).half})
                           ELSE {},
         maxDuration   |-> Given(a, "server_max_duration",
                                 LAMBDA t : TryUnsigned(Atoi(t), IntMax)),
         idleTimeout   |-> Given(a, "idle_timeout",
                                 LAMBDA t : TryUnsigned(Atoi(t), IntMax)),
         rcvTimeout    |-> Given(a, "rcv_timeout",
                                 LAMBDA t : TryUnsigned(Atoi(t), 0))]

----------------------------------------------------------------------------
(* The wire.                                                               *)

\* resolve_udp_blksize on what connect_control read of the connection.
RunBlksize(c, mss) ==
    IF c.length # {} THEN UnwrapOr(c.length, 0)
    ELSE IF ~c.udp THEN DefaultTcpBlock
    ELSE LET usable == {m \in mss : m >= MinUdpBlock}
         IN  UnwrapOr({Clamp(m, 0, MaxUdpBlock) : m \in usable}, DefaultUdpBlock)

\* Fault: the duration is sent along with -n and -k.
TimeAlways(c) == c.duration
TimeSent(c) == IF c.bytes # {} \/ c.blocks # {} THEN 0 ELSE c.duration

\* build_params: zero rates, bursts and TOS are left out; num and blockcount
\* are always there, 0 when there is no limit.
BuildParams(c, blk) ==
    [udp |-> c.udp, reverse |-> c.reverse, bidir |-> c.bidir,
     nodelay |-> c.no_delay, time |-> TimeSent(c), omit |-> ToInt(c.omit),
     parallel |-> ToInt(c.streams), len |-> ToInt(blk), mss |-> c.mss,
     window |-> c.window, bandwidth |-> NonZero(c.bandwidth),
     fqrate |-> NonZero(c.fq_rate), gso |-> c.udp /\ c.gsro,
     dgram |-> IF c.udp /\ c.gsro THEN blk ELSE 0,
     burst |-> NonZero({c.burst}), pacing |-> ToInt(c.pacing),
     tos |-> NonZero({c.tos}), repeating |-> c.repeating, df |-> c.df,
     num |-> UnwrapOr(c.bytes, 0), blockcount |-> UnwrapOr(c.blocks, 0)]

ParamsRefused(p) ==
    \/ \E n \in p.burst : n > MaxBurst
    \/ p.len < 0
    \/ p.udp /\ p.len # 0 /\ p.len \notin MinUdpBlock..MaxUdpBlock
    \/ ~p.udp /\ p.len > MaxBlock

\* normalize_unlimited and from_params.
ConfigOf(p) ==
    [udp |-> p.udp, reverse |-> p.reverse, bidir |-> p.bidir,
     no_delay |-> p.nodelay, duration |-> p.time, omit |-> p.omit,
     streams |-> p.parallel,
     blksize |-> IF p.len # 0 THEN p.len
                 ELSE IF p.udp THEN DefaultUdpBlock ELSE DefaultTcpBlock,
     mss |-> p.mss, window |-> NonZero(p.window),
     bandwidth |-> UnwrapOr(p.bandwidth, 0), fq_rate |-> UnwrapOr(p.fqrate, 0),
     gso |-> p.gso,
     dgram |-> IF p.dgram = 0 /\ p.gso
               THEN (IF p.len > 0 THEN p.len ELSE DefaultUdpBlock) ELSE p.dgram,
     burst |-> UnwrapOr({n \in p.burst : n > 0}, 0),
     pacing |-> IF p.pacing > 0 THEN p.pacing ELSE DefaultPacing,
     tos |-> UnwrapOr(p.tos, 0), repeating |-> p.repeating, df |-> p.df,
     bytes |-> NonZero({p.num}), blocks |-> NonZero({p.blockcount})]

----------------------------------------------------------------------------
InitLine ==
    /\ argv = <<>>
    /\ stage = "typing"
    /\ why = ""
    /\ made = Nothing /\ wire = Nothing /\ config = Nothing
    /\ blksize = 0

\* The user types one more option; a repeated one overrides itself.
Type(o, arg) ==
    /\ stage = "typing"
    /\ Cardinality(DOMAIN argv) < MaxInputs \/ Has(argv, o)
    /\ argv' = [p \in DOMAIN argv \cup {o} |-> IF p = o THEN arg ELSE argv[p]]
    /\ UNCHANGED <<stage, why, made, blksize, wire, config>>

\* main() up to the call of run(): nothing outside the process has changed.
Parse ==
    /\ stage = "typing"
    /\ \E usable \in SUBSET {"rsa_private_key_path", "authorized_users_path",
                             "rsa_public_key_path", "password"} :
          stage' = IF MainRejects(argv, usable) THEN "rejected" ELSE "running"
    /\ UNCHANGED <<argv, why, made, blksize, wire, config>>

\* async_main: daemonized, logging and with a pidfile, the process builds.
BuildClient ==
    /\ stage = "running" /\ Has(argv, "client")
    /\ LET b == Builder(argv)
           errors == ClientErrors(argv, b)
       IN  IF errors = {}
           THEN stage' = "built" /\ made' = Client(b) /\ UNCHANGED why
           ELSE /\ \E e \in errors : why' = e
                /\ stage' = "failed"
                /\ UNCHANGED made
    /\ UNCHANGED <<argv, blksize, wire, config>>

BuildServer ==
    /\ stage = "running" /\ Has(argv, "server")
    /\ IF BindConflicts(argv)
       THEN stage' = "failed" /\ why' = "bind_address" /\ UNCHANGED made
       ELSE stage' = "serving" /\ made' = Server(argv) /\ UNCHANGED why
    /\ UNCHANGED <<argv, blksize, wire, config>>

\* connect_control, then the parameter exchange.
SendParams ==
    /\ stage = "built"
    /\ \E mss \in Mss :
          /\ blksize' = RunBlksize(made, mss)
          /\ wire' = BuildParams(made, blksize')
    /\ stage' = "sent"
    /\ UNCHANGED <<argv, why, made, config>>

FromParams ==
    /\ stage = "sent"
    /\ IF ParamsRefused(wire)
       THEN stage' = "refused" /\ UNCHANGED config
       ELSE stage' = "agreed" /\ config' = ConfigOf(wire)
    /\ UNCHANGED <<argv, why, made, blksize, wire>>

NextLine ==
    \/ \E in \in Inputs : Type(in[1], in[2])
    \/ Parse
    \/ BuildClient
    \/ BuildServer
    \/ SendParams
    \/ FromParams

SpecLine == InitLine /\ [][NextLine]_varsLine

----------------------------------------------------------------------------
(* Properties.                                                             *)

\* What main() accepts, the builders accept: run() has by then forked,
\* redirected stdout and written the pidfile.  -S, --dscp, the address family
\* of -B and what the platform lacks are all the command line leaves to build().
NoLateRejection ==
    stage = "failed" => why \in {"tos", "dscp", "bind_address", "unsupported"}

\* The server never refuses what the command line accepted (its range checks
\* repeat the client's on the wire's numbers), and it runs the test the
\* client runs: the same streams, sizes, rates and directions, and one and
\* the same end condition, bytes, blocks or time.
BothEndsRunTheSameTest ==
    /\ stage # "refused"
    /\ stage = "agreed" =>
          /\ \A f \in {"udp", "reverse", "bidir", "no_delay", "omit", "streams",
                       "mss", "window", "burst", "pacing", "tos", "repeating",
                       "df", "bytes", "blocks"} : config[f] = made[f]
          /\ config.blksize = blksize
          /\ config.bandwidth = UnwrapOr(made.bandwidth, 0)
          /\ config.fq_rate = UnwrapOr(made.fq_rate, 0)
          /\ config.gso => config.dgram = blksize
          /\ IF made.bytes = {} /\ made.blocks = {}
             THEN config.duration = made.duration
             ELSE config.duration = 0 /\ (made.bytes = {} \/ made.blocks = {})

Counts == {"time", "omit", "parallel", "server_max_duration"}
Sizes == {"bytes", "blockcount", "length"}
Rates == {"bitrate", "fq_rate", "server_bitrate_limit"}

\* Twice the amount a size or a rate names, with 1024 or 1000 per unit letter.
Scale(o) == IF o \in Sizes THEN Kibi ELSE Kilo
Meaning(t, base) == IF t.suffix = "k" THEN t.half * base ELSE t.half

\* A double holds the number typed and the amount it names.
Exact(t, base) ==
    /\ t.kind = "number"
    /\ Rounded(t.half) = t.half /\ Rounded(Meaning(t, base)) = Meaning(t, base)

\* What the Client or the Server was made to run with.
Held(o) ==
    CASE o = "bytes" -> made.bytes
      [] o = "blockcount" -> made.blocks
      [] o = "length" -> made.length
      [] o = "bitrate" -> made.bandwidth
      [] o = "fq_rate" -> made.fq_rate
      [] o = "server_bitrate_limit" -> made.rateLimit
      [] o = "time" -> {made.duration}
      [] o = "omit" -> {made.omit}
      [] o = "parallel" -> {made.streams}
      [] o = "server_max_duration" -> made.maxDuration

\* An accepted count is the one its leading decimal digits name, when an int
\* holds it and it is not negative, whatever else follows them (1e3 is 1); an
\* accepted size or rate is the amount typed, its fraction cut off, when a
\* double tells it from its neighbours and the type it ends in has room for it.
NumbersMeanWhatTheySay ==
    stage \in {"built", "serving"} =>
        /\ \A o \in Counts \cap DOMAIN argv :
              LET n == argv[o][1].digits IN n \in 0..IntMax => n \in Held(o)
        /\ \A o \in (Sizes \cup Rates) \cap DOMAIN argv :
              LET t == argv[o][1]
                  amount == Meaning(t, Scale(o)) \div 2
              IN  (/\ Exact(t, Scale(o)) /\ amount > 0
                   /\ amount < IF o = "length" THEN IntTop ELSE 2 * LongTop)
                  => amount \in Held(o)

----------------------------------------------------------------------------
(* What holds in every state, and carries the properties above.            *)

Texted == \A o \in DOMAIN argv : IsInput(o, argv[o])

Accepted ==
    stage \notin {"typing", "rejected"} =>
        \E usable \in SUBSET {"rsa_private_key_path", "authorized_users_path",
                              "rsa_public_key_path", "password"} :
           ~MainRejects(argv, usable)

Failure ==
    stage = "failed" =>
        \/ Has(argv, "client") /\ why \in ClientErrors(argv, Builder(argv))
        \/ Has(argv, "server") /\ why = "bind_address"

Made ==
    /\ stage \in {"built", "sent", "agreed", "refused"} =>
          /\ Has(argv, "client")
          /\ ClientErrors(argv, Builder(argv)) = {}
          /\ made = Client(Builder(argv))
    /\ stage = "serving" => Has(argv, "server") /\ made = Server(argv)

Sent ==
    /\ stage \in {"sent", "agreed", "refused"} =>
          \E mss \in Mss : /\ blksize = RunBlksize(made, mss)
                           /\ wire = BuildParams(made, blksize)
    /\ stage = "agreed" => ~ParamsRefused(wire) /\ config = ConfigOf(wire)
    /\ stage = "refused" => ParamsRefused(wire)

InvLine == Texted /\ Accepted /\ Failure /\ Made /\ Sent
============================================================================
