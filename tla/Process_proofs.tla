--------------------------- MODULE Process_proofs ---------------------------
(***************************************************************************)
(* Proofs about a process from its argument vector to its last step.       *)
(*                                                                         *)
(* CommandLine: for every argument, every width of the integers and every  *)
(* limit and default that fit each other, what main() accepts is built and *)
(* sent as it was typed, and the server runs the test the client runs.     *)
(*                                                                         *)
(* ServerProcess: for any number of processes on one port and one pidfile, *)
(* any rounds, signals and kills.                                          *)
(***************************************************************************)
EXTENDS CommandLine, ServerProcess, TLAPS

(***************************************************************************)
(* The command line.  Numbers first.                                       *)
(***************************************************************************)
\* int wraps onto its own range, ...
LEMMA ToIntRange ==
    ASSUME NEW v \in Int
    PROVE  ToInt(v) \in IntMin..IntMax
<1>1. \A m \in Nat \ {0}, w \in Int : w % m \in 0..(m - 1)
  OBVIOUS
<1>2. 2 * IntTop \in Nat \ {0} /\ v + IntTop \in Int /\ IntTop \in Nat
  BY WidthAssumption
<1>3. (v + IntTop) % (2 * IntTop) \in 0..(2 * IntTop - 1)
  BY <1>1, <1>2
<1> QED BY <1>2, <1>3 DEF ToInt, IntMin, IntMax

\* ... and leaves what fits alone.
LEMMA ToIntIdentity ==
    ASSUME NEW v \in IntMin..IntMax
    PROVE  ToInt(v) = v
<1>1. \A m \in Nat \ {0}, w \in Nat : w < m => w % m = w
  OBVIOUS
<1>2. /\ 2 * IntTop \in Nat \ {0} /\ IntTop \in Nat /\ v \in Int
      /\ v + IntTop \in Nat /\ v + IntTop < 2 * IntTop
  BY WidthAssumption DEF IntMin, IntMax
<1>3. (v + IntTop) % (2 * IntTop) = v + IntTop
  BY <1>1, <1>2
<1> QED BY <1>2, <1>3 DEF ToInt

LEMMA TruncatedInt ==
    ASSUME NEW h \in Int
    PROVE  /\ Truncated(h) \in Int
           /\ h >= 0 => Truncated(h) = h \div 2
BY DEF Truncated

LEMMA AtoiRange ==
    ASSUME NEW t \in Texts
    PROVE  Atoi(t) \in IntMin..IntMax
<1>1. t.digits \in Int
  BY DEF Texts
<1>2. LongMin \in Int /\ LongMax \in Int
  BY WidthAssumption DEF LongMin, LongMax
<1>3. Clamp(t.digits, LongMin, LongMax) \in Int
  BY <1>1, <1>2 DEF Clamp
<1> QED BY <1>3, ToIntRange DEF Atoi

\* atoi of digits that fit an int.
LEMMA AtoiValue ==
    ASSUME NEW t \in Texts, t.digits \in 0..IntMax
    PROVE  Atoi(t) = t.digits
<1>1. t.digits \in IntMin..IntMax /\ t.digits \in Nat /\ t.digits < LongTop
  BY WidthAssumption DEF IntMin, IntMax
<1>2. Clamp(t.digits, LongMin, LongMax) = t.digits
  BY <1>1, WidthAssumption DEF Clamp, LongMin, LongMax
<1> QED BY <1>1, <1>2, ToIntIdentity DEF Atoi

\* Rounding to a double stays among the halves.
LEMMA NearestInt ==
    ASSUME NEW n \in Nat
    PROVE  Nearest(n) \in Int
<1> DEFINE P(u) == (\E w \in Spacings : IsSpacing(w, n)) => IsSpacing(u, n)
<1>1. \E u \in Spacings : P(u)
  BY DoubleAssumption
<1>2. SpacingAt(n) = CHOOSE u \in Spacings : P(u)
  BY DEF SpacingAt
<1> HIDE DEF P
<1>3. SpacingAt(n) \in Nat \ {0}
  BY <1>1, <1>2, DoubleAssumption
<1>4. PICK u \in Nat \ {0} : u = SpacingAt(n)
  BY <1>3
<1>5. PICK q \in Int : q = n \div u
  OBVIOUS
<1>6. q * u \in Int /\ (q + 1) * u \in Int
  OBVIOUS
<1> QED BY <1>4, <1>5, <1>6 DEF Nearest

LEMMA RoundedInt ==
    ASSUME NEW h \in Int
    PROVE  Rounded(h) \in Int
<1>1. CASE h \in -Mantissa..Mantissa
  BY <1>1 DEF Rounded
<1>2. CASE h \notin -Mantissa..Mantissa /\ h < 0
  <2>1. Nearest(-h) \in Int
    BY <1>2, NearestInt
  <2> QED BY <1>2, <2>1 DEF Rounded
<1>3. CASE h \notin -Mantissa..Mantissa /\ ~(h < 0)
  <2>1. Nearest(h) \in Int
    BY <1>3, NearestInt
  <2> QED BY <1>3, <2>1 DEF Rounded
<1> QED BY <1>1, <1>2, <1>3

LEMMA MeaningInt ==
    ASSUME NEW t \in Texts, NEW base \in Nat \ {0}
    PROVE  Meaning(t, base) \in Int
<1>1. t.half \in Int
  BY DEF Texts
<1>2. t.half * base \in Int
  BY <1>1
<1> QED BY <1>1, <1>2 DEF Meaning

LEMMA UnitScaledInt ==
    ASSUME NEW t \in Texts, NEW base \in Nat \ {0}
    PROVE  UnitScaled(t, base).half \in Int
<1>1. PICK h \in Int : h = Rounded(t.half)
  BY RoundedInt DEF Texts
<1>2. h * base \in Int
  OBVIOUS
<1>3. PICK g \in Int : g = Rounded(h * base)
  BY <1>2, RoundedInt
<1> QED BY <1>1, <1>3 DEF UnitScaled, Strtod

LEMMA UnitScaledValue ==
    ASSUME NEW t \in Texts, NEW base \in Nat \ {0}, Exact(t, base)
    PROVE  UnitScaled(t, base).half = Meaning(t, base) /\ ~UnitScaled(t, base).nan
<1>1. /\ t.kind = "number" /\ Rounded(t.half) = t.half
      /\ Rounded(Meaning(t, base)) = Meaning(t, base)
  BY DEF Exact
<1>2. CASE t.suffix = "k"
  <2>1. Rounded(t.half * base) = t.half * base
    BY <1>1, <1>2 DEF Meaning
  <2> QED BY <1>1, <1>2, <2>1 DEF UnitScaled, Strtod, Meaning
<1>3. CASE t.suffix # "k"
  BY <1>1, <1>3 DEF UnitScaled, Strtod, Meaning
<1> QED BY <1>2, <1>3

LEMMA DoubleToU64Int ==
    ASSUME NEW d, d.half \in Int
    PROVE  DoubleToU64(d) \in Int
<1> DEFINE top == 2 * LongTop
           w == Clamp(Truncated(d.half), LongMin, LongMax)
           rest == d.half - top
<1>1. top \in Nat \ {0} /\ LongTop \in Nat
  BY WidthAssumption
<1>2. w \in Int
  BY <1>1, TruncatedInt DEF Clamp, LongMin, LongMax
<1>3. \A m \in Nat \ {0}, x \in Int : x % m \in Int
  OBVIOUS
<1>4. w % top \in Int
  BY <1>1, <1>2, <1>3
<1>5. Truncated(rest) \in Int
  BY <1>1, TruncatedInt
<1> QED BY <1>1, <1>4, <1>5 DEF DoubleToU64

\* The conversion to an unsigned long of what fits it.
LEMMA DoubleToU64Value ==
    ASSUME NEW d, ~d.nan, d.half \in Nat, d.half \div 2 < 2 * LongTop
    PROVE  DoubleToU64(d) = d.half \div 2
<1> DEFINE top == 2 * LongTop
           h == d.half
           w == Clamp(Truncated(h), LongMin, LongMax)
           rest == h - top
<1>1. top \in Nat \ {0} /\ LongTop \in Nat /\ h \in Nat
  BY WidthAssumption
<1>2. Truncated(h) = h \div 2 /\ h \div 2 \in Nat
  BY <1>1, TruncatedInt
<1>3. CASE h < top
  <2>1. h \div 2 < LongTop
    BY <1>1, <1>3
  <2>2. w = h \div 2
    BY <1>1, <1>2, <2>1 DEF Clamp, LongMin, LongMax
  <2>3. \A m \in Nat \ {0}, x \in Nat : x < m => x % m = x
    OBVIOUS
  <2>4. w % top = h \div 2
    BY <1>1, <1>2, <2>1, <2>2, <2>3
  <2> QED BY <1>3, <2>4 DEF DoubleToU64
<1>4. CASE ~(h < top)
  <2>1. rest \in Nat /\ Truncated(rest) = rest \div 2
    BY <1>1, <1>4, TruncatedInt
  <2>2. rest < top
    BY <1>1, <1>4
  <2>3. rest \div 2 + LongTop = h \div 2
    BY <1>1, <1>4
  <2> QED BY <1>1, <1>4, <2>1, <2>2, <2>3 DEF DoubleToU64
<1> QED BY <1>3, <1>4

LEMMA UnitToIntRange ==
    ASSUME NEW t \in Texts
    PROVE  UnitToInt(t) \in IntMin..IntMax
BY ScaleAssumption, UnitScaledInt, DoubleToU64Int, ToIntRange
   DEF UnitToInt, UnitAtoi

----------------------------------------------------------------------------
(* The builders.                                                           *)

LEMMA OptionOf ==
    ASSUME NEW v, NEW d
    PROVE  UnwrapOr({v}, d) = v /\ UnwrapOr({}, d) = d
BY DEF UnwrapOr

LEMMA AmountsKept ==
    ASSUME NEW a, NEW f \in {"udp", "duration", "pacing", "bytes", "blocks",
                             "length", "streams", "reverse", "bidir", "window",
                             "mss", "no_delay", "bandwidth", "burst"}
    PROVE  f \in DOMAIN Builder(a) /\ Builder(a)[f] = Amounts(a)[f]
<1>1. f \in DOMAIN Amounts(a)
  BY DEF Amounts
<1> QED BY <1>1 DEF Builder

LEMMA ExtrasKept ==
    ASSUME NEW a, NEW f \in {"tos", "omit", "interval", "repeating", "gsro",
                             "df", "fq_rate"}
    PROVE  f \in DOMAIN Builder(a) /\ Builder(a)[f] = Extras(a)[f]
<1>1. f \in DOMAIN Extras(a) /\ f \notin DOMAIN Amounts(a)
  BY DEF Extras, Amounts
<1> QED BY <1>1 DEF Builder

\* The options whose values the properties follow through the builder.
LEMMA BuilderSizes ==
    ASSUME NEW a
    PROVE  /\ Builder(a).udp = Has(a, "udp")
           /\ Builder(a).bytes = IF Has(a, "bytes")
                 THEN {DoubleToU64(UnitAtoi(a["bytes"][1]))} ELSE {}
           /\ Builder(a).blocks = IF Has(a, "blockcount")
                 THEN {DoubleToU64(UnitAtoi(a["blockcount"][1]))} ELSE {}
           /\ Builder(a).length = IF Has(a, "length")
                 THEN {UnitToInt(a["length"][1])} ELSE {}
           /\ Builder(a).bandwidth = IF Has(a, "bitrate")
                 THEN {DoubleToU64(UnitAtofRate(a["bitrate"][1]))} ELSE {}
           /\ Builder(a).fq_rate = IF Has(a, "fq_rate")
                 THEN {DoubleToU64(UnitAtofRate(a["fq_rate"][1]))} ELSE {}
<1>1. Builder(a).udp = Has(a, "udp")
  BY AmountsKept DEF Amounts
<1>2. Builder(a).bytes = IF Has(a, "bytes")
                 THEN {DoubleToU64(UnitAtoi(a["bytes"][1]))} ELSE {}
  BY AmountsKept DEF Amounts, Given
<1>3. Builder(a).blocks = IF Has(a, "blockcount")
                 THEN {DoubleToU64(UnitAtoi(a["blockcount"][1]))} ELSE {}
  BY AmountsKept DEF Amounts, Given
<1>4. Builder(a).length = IF Has(a, "length")
                 THEN {UnitToInt(a["length"][1])} ELSE {}
  BY AmountsKept DEF Amounts, Given
<1>5. Builder(a).bandwidth = IF Has(a, "bitrate")
                 THEN {DoubleToU64(UnitAtofRate(a["bitrate"][1]))} ELSE {}
  BY AmountsKept DEF Amounts, Given
<1>6. Builder(a).fq_rate = IF Has(a, "fq_rate")
                 THEN {DoubleToU64(UnitAtofRate(a["fq_rate"][1]))} ELSE {}
  BY ExtrasKept DEF Extras, Given
<1> QED BY <1>1, <1>2, <1>3, <1>4, <1>5, <1>6

LEMMA BuilderCounts ==
    ASSUME NEW a
    PROVE  /\ Builder(a).duration = IF Has(a, "time")
                 THEN TryUnsigned(Atoi(a["time"][1]), IntMax)
                 ELSE DefaultDuration
           /\ Builder(a).omit = IF Has(a, "omit")
                 THEN TryUnsigned(Atoi(a["omit"][1]), IntMax) ELSE 0
           /\ Builder(a).streams = IF Has(a, "parallel")
                 THEN TryUnsigned(Atoi(a["parallel"][1]), 0) ELSE 1
           /\ Builder(a).burst = IF Has(a, "bitrate") /\ Len(a["bitrate"]) > 1
                 THEN TryUnsigned(Atoi(a["bitrate"][2]), 0) ELSE 0
           /\ Builder(a).interval = IF Has(a, "interval")
                 THEN {Atof(a["interval"][1])} ELSE {}
           /\ \E v \in {0} \cup {v \in {UnitToInt(a["pacing_timer"][1])} :
                                    Has(a, "pacing_timer") /\ v > 0} :
                 Builder(a).pacing = v
<1>1. Builder(a).duration = IF Has(a, "time")
                 THEN TryUnsigned(Atoi(a["time"][1]), IntMax)
                 ELSE DefaultDuration
  BY AmountsKept, OptionOf DEF Amounts, Given
<1>2. Builder(a).omit = IF Has(a, "omit")
                 THEN TryUnsigned(Atoi(a["omit"][1]), IntMax) ELSE 0
  BY ExtrasKept, OptionOf DEF Extras, Given
<1>3. Builder(a).streams = IF Has(a, "parallel")
                 THEN TryUnsigned(Atoi(a["parallel"][1]), 0) ELSE 1
  BY AmountsKept, OptionOf DEF Amounts, Given
<1>4. Builder(a).burst = IF Has(a, "bitrate") /\ Len(a["bitrate"]) > 1
                 THEN TryUnsigned(Atoi(a["bitrate"][2]), 0) ELSE 0
  BY AmountsKept DEF Amounts
<1>5. Builder(a).interval = IF Has(a, "interval")
                 THEN {Atof(a["interval"][1])} ELSE {}
  BY ExtrasKept DEF Extras, Given
<1>6. \E v \in {0} \cup {v \in {UnitToInt(a["pacing_timer"][1])} :
                                    Has(a, "pacing_timer") /\ v > 0} :
                 Builder(a).pacing = v
  <2> DEFINE n == UnitToInt(a["pacing_timer"][1])
             opt == {v \in Given(a, "pacing_timer", UnitToInt) : v > 0}
  <2>1. Builder(a).pacing = UnwrapOr(opt, 0)
    BY AmountsKept DEF Amounts
  <2>2. opt = {} \/ (Has(a, "pacing_timer") /\ n > 0 /\ opt = {n})
    BY DEF Given
  <2>3. CASE opt = {}
    BY <2>1, <2>3, OptionOf
  <2>4. CASE Has(a, "pacing_timer") /\ n > 0 /\ opt = {n}
    <3>1. Builder(a).pacing = n
      BY <2>1, <2>4, OptionOf
    <3> QED BY <2>4, <3>1
  <2> QED BY <2>2, <2>3, <2>4
<1> QED BY <1>1, <1>2, <1>3, <1>4, <1>5, <1>6

\* build() keeps what it does not normalise.
LEMMA ClientFields ==
    ASSUME NEW a, NEW b, b = Builder(a), NEW c, c = Client(b)
    PROVE  /\ \A f \in {"udp", "duration", "streams", "reverse", "bidir", "mss",
                        "no_delay", "burst", "tos", "omit", "interval",
                        "repeating", "gsro", "df", "fq_rate"} : c[f] = b[f]
           /\ c.length = NonZero(b.length) /\ c.window = NonZero(b.window)
           /\ c.bytes = NonZero(b.bytes) /\ c.blocks = NonZero(b.blocks)
           /\ c.bandwidth = {UnwrapOr(b.bandwidth,
                                      IF b.udp THEN DefaultUdpRate ELSE 0)}
           /\ c.pacing = IF b.pacing = 0 THEN DefaultPacing ELSE b.pacing
<1>1. \A f \in {"length", "window", "bytes", "blocks", "bandwidth", "pacing"} :
         f \in DOMAIN b
  BY AmountsKept
<1>2. \A f \in {"udp", "duration", "streams", "reverse", "bidir", "mss",
                "no_delay", "burst"} : f \in DOMAIN b
  BY AmountsKept
<1>3. \A f \in {"tos", "omit", "interval", "repeating", "gsro", "df",
                "fq_rate"} : f \in DOMAIN b
  BY ExtrasKept
<1>4. b = [f \in DOMAIN b |-> b[f]]
  BY DEF Builder
<1> QED BY <1>1, <1>2, <1>3, <1>4 DEF Client

----------------------------------------------------------------------------
(* What main() accepts, the builder accepts.                               *)

Typed(a) == \A o \in DOMAIN a : IsInput(o, a[o])

LEMMA FirstText ==
    ASSUME NEW a, Typed(a), NEW o \in ValueOptions, Has(a, o)
    PROVE  a[o][1] \in Texts
<1>1. a[o] \in Seq(Texts) /\ a[o] # <<>>
  BY DEF Typed, IsInput, Has
<1> QED BY <1>1

LEMMA SecondText ==
    ASSUME NEW a, Typed(a), NEW o \in ValueOptions, Has(a, o), Len(a[o]) > 1
    PROVE  a[o][2] \in Texts
<1>1. a[o] \in Seq(Texts)
  BY DEF Typed, IsInput, Has
<1> QED BY <1>1

LEMMA UnsignedRange ==
    ASSUME NEW v \in IntMin..IntMax, NEW d \in {0, IntMax}
    PROVE  TryUnsigned(v, d) \in 0..IntMax
BY WidthAssumption DEF TryUnsigned, IntMin, IntMax

\* The numbers of a builder fit the types of its fields.
LEMMA BuilderTyped ==
    ASSUME NEW a, Typed(a)
    PROVE  /\ Builder(a).duration \in 0..IntMax
           /\ Builder(a).omit \in 0..IntMax
           /\ Builder(a).streams \in 0..IntMax
           /\ Builder(a).burst \in 0..IntMax
           /\ Builder(a).pacing \in 0..IntMax
           /\ Builder(a).length \subseteq IntMin..IntMax
<1>0. /\ IntMax \in Nat /\ 0 \in 0..IntMax /\ DefaultDuration \in 0..IntMax
      /\ IntMin \in Int
  BY WidthAssumption, LimitAssumption DEF IntMin, IntMax
<1>1. Builder(a).duration \in 0..IntMax
  <2>1. CASE Has(a, "time")
    <3>1. Atoi(a["time"][1]) \in IntMin..IntMax
      BY <2>1, FirstText, AtoiRange DEF ValueOptions
    <3> QED BY <2>1, <3>1, BuilderCounts, UnsignedRange
  <2> QED BY <1>0, <2>1, BuilderCounts
<1>2. Builder(a).omit \in 0..IntMax
  <2>1. CASE Has(a, "omit")
    <3>1. Atoi(a["omit"][1]) \in IntMin..IntMax
      BY <2>1, FirstText, AtoiRange DEF ValueOptions
    <3> QED BY <2>1, <3>1, BuilderCounts, UnsignedRange
  <2> QED BY <1>0, <2>1, BuilderCounts
<1>3. Builder(a).streams \in 0..IntMax
  <2>1. CASE Has(a, "parallel")
    <3>1. Atoi(a["parallel"][1]) \in IntMin..IntMax
      BY <2>1, FirstText, AtoiRange DEF ValueOptions
    <3> QED BY <2>1, <3>1, BuilderCounts, UnsignedRange
  <2>2. 1 \in 0..IntMax
    BY LimitAssumption, <1>0
  <2> QED BY <2>1, <2>2, BuilderCounts
<1>4. Builder(a).burst \in 0..IntMax
  <2>1. CASE Has(a, "bitrate") /\ Len(a["bitrate"]) > 1
    <3>1. Atoi(a["bitrate"][2]) \in IntMin..IntMax
      BY <2>1, SecondText, AtoiRange DEF ValueOptions
    <3> QED BY <2>1, <3>1, BuilderCounts, UnsignedRange
  <2> QED BY <1>0, <2>1, BuilderCounts
<1>5. Builder(a).pacing \in 0..IntMax
  <2>1. CASE Has(a, "pacing_timer")
    <3>1. UnitToInt(a["pacing_timer"][1]) \in IntMin..IntMax
      BY <2>1, FirstText, UnitToIntRange DEF ValueOptions
    <3> DEFINE n == UnitToInt(a["pacing_timer"][1])
    <3>2. Builder(a).pacing = 0 \/ (n > 0 /\ Builder(a).pacing = n)
      BY BuilderCounts
    <3> HIDE DEF n
    <3> QED BY <1>0, <3>1, <3>2 DEF n
  <2> QED BY <1>0, <2>1, BuilderCounts
<1>6. Builder(a).length \subseteq IntMin..IntMax
  <2>1. CASE Has(a, "length")
    <3>1. UnitToInt(a["length"][1]) \in IntMin..IntMax
      BY <2>1, FirstText, UnitToIntRange DEF ValueOptions
    <3> QED BY <2>1, <3>1, BuilderSizes
  <2> QED BY <2>1, BuilderSizes
<1> QED BY <1>1, <1>2, <1>3, <1>4, <1>5, <1>6

LEMMA Limits ==
    /\ MaxTime \in 0..IntMax /\ MaxOmit \in 0..IntMax /\ MaxBurst \in Nat
    /\ MaxBlock \in 1..IntMax /\ MinUdpBlock \in 1..IntMax
    /\ MaxUdpBlock \in 1..IntMax /\ DefaultPacing \in 1..IntMax
    /\ DefaultDuration \in 0..MaxTime /\ DefaultTcpBlock \in 1..MaxBlock
    /\ DefaultUdpBlock \in MinUdpBlock..MaxUdpBlock
    /\ IntMax \in Nat /\ IntMin \in Int /\ IntMin < 0
<1>1. IntMax \in Nat /\ IntMin \in Int /\ IntMin < 0
  BY WidthAssumption DEF IntMax, IntMin
<1> QED BY <1>1, LimitAssumption

LEMMA AcceptedRange ==
    ASSUME NEW a, ~RangeViolated(a)
    PROVE  /\ Has(a, "time") => Atoi(a["time"][1]) \in 0..MaxTime
           /\ Has(a, "omit") => Atoi(a["omit"][1]) \in 0..MaxOmit
<1>1. \A o \in DOMAIN IntRange : Has(a, o) => Atoi(a[o][1]) \in IntRange[o]
  BY DEF RangeViolated, Has
<1>2. "time" \in DOMAIN IntRange /\ "omit" \in DOMAIN IntRange
  BY DEF IntRange
<1>3. IntRange["time"] = 0..MaxTime /\ IntRange["omit"] = 0..MaxOmit
  BY DEF IntRange
<1>4. Has(a, "time") => Atoi(a["time"][1]) \in IntRange["time"]
  BY <1>1, <1>2
<1>5. Has(a, "omit") => Atoi(a["omit"][1]) \in IntRange["omit"]
  BY <1>1, <1>2
<1> QED BY <1>3, <1>4, <1>5

LEMMA UnsignedKept ==
    ASSUME NEW v \in Nat, NEW d
    PROVE  TryUnsigned(v, d) = v
BY DEF TryUnsigned

\* Every error of the builder but those of -S, --dscp, -B and the platform is
\* one that the checks of main() raise first.
LEMMA AcceptedBuilds ==
    ASSUME NEW a, Typed(a), Has(a, "client"),
           NEW usable, ~MainRejects(a, usable)
    PROVE  ClientErrors(a, Builder(a)) \subseteq
              {"tos", "dscp", "bind_address", "unsupported"}
<1> DEFINE b == Builder(a)
<1>0. /\ ~RangeViolated(a) /\ ~UnitViolated(a) /\ ~LengthRejected(a)
      /\ ~EndConditionsConflict(a)
  BY DEF MainRejects, ParseClassRejects
<1>1. b.duration <= MaxTime
  <2>1. CASE Has(a, "time")
    <3>1. Atoi(a["time"][1]) \in 0..MaxTime
      BY <1>0, <2>1, AcceptedRange
    <3>2. Atoi(a["time"][1]) \in Nat /\ Atoi(a["time"][1]) <= MaxTime
      BY <3>1
    <3> QED BY <2>1, <3>2, BuilderCounts, UnsignedKept
  <2>2. CASE ~(Has(a, "time"))
    <3>1. b.duration = DefaultDuration
      BY <2>2, BuilderCounts
    <3> QED BY <3>1, Limits
  <2> QED BY <2>1, <2>2
<1>2. b.omit <= MaxOmit
  <2>1. CASE Has(a, "omit")
    <3>1. Atoi(a["omit"][1]) \in 0..MaxOmit
      BY <1>0, <2>1, AcceptedRange
    <3>2. Atoi(a["omit"][1]) \in Nat /\ Atoi(a["omit"][1]) <= MaxOmit
      BY <3>1
    <3> QED BY <2>1, <3>2, BuilderCounts, UnsignedKept
  <2>2. CASE ~(Has(a, "omit"))
    <3>1. b.omit = 0
      BY <2>2, BuilderCounts
    <3> QED BY <3>1, Limits
  <2> QED BY <2>1, <2>2
<1>3. \A d \in b.interval : ~BadInterval(d)
  <2>1. CASE Has(a, "interval")
    <3>1. ~BadInterval(Atof(a["interval"][1]))
      BY <1>0, <2>1 DEF RangeViolated, Given
    <3> QED BY <2>1, <3>1, BuilderCounts
  <2> QED BY <2>1, BuilderCounts
<1>4. b.burst <= MaxBurst
  <2>1. CASE Has(a, "bitrate") /\ Len(a["bitrate"]) > 1
    <3>1. Atoi(a["bitrate"][2]) \in 1..MaxBurst
      BY <1>0, <2>1 DEF UnitViolated
    <3>2. /\ Atoi(a["bitrate"][2]) \in Nat
          /\ Atoi(a["bitrate"][2]) <= MaxBurst
      BY <3>1
    <3> QED BY <2>1, <3>2, BuilderCounts, UnsignedKept
  <2>2. CASE ~(Has(a, "bitrate") /\ Len(a["bitrate"]) > 1)
    <3>1. b.burst = 0
      BY <2>2, BuilderCounts
    <3> QED BY <3>1, Limits
  <2> QED BY <2>1, <2>2
<1>5. \A v \in NonZero(b.length) :
         /\ ~(v < 0)
         /\ ~(~b.udp /\ v > MaxBlock)
         /\ ~(b.udp /\ v \notin MinUdpBlock..MaxUdpBlock)
  <2>1. CASE Has(a, "length")
    <3> DEFINE n == UnitToInt(a["length"][1])
    <3>1. /\ ~(n < 0 /\ ~Has(a, "udp")) /\ ~(n > MaxBlock)
          /\ ~(n # 0 /\ Has(a, "udp") /\ n \notin MinUdpBlock..MaxUdpBlock)
      BY <1>0, <2>1 DEF LengthRejected, Given
    <3>2. b.udp = Has(a, "udp") /\ b.length = {n}
      BY <2>1, BuilderSizes
    <3>3. n \in Int
      BY <2>1, FirstText, UnitToIntRange DEF ValueOptions, IntMin, IntMax
    <3>4. MinUdpBlock \in Nat /\ MaxUdpBlock \in Nat
      BY LimitAssumption
    <3> HIDE DEF n, b
    <3> QED BY <3>1, <3>2, <3>3, <3>4 DEF NonZero
  <2> QED BY <2>1, BuilderSizes DEF NonZero
<1> HIDE DEF b
<1>6. /\ "end" \notin ClientErrors(a, b) /\ "duration" \notin ClientErrors(a, b)
      /\ "omit" \notin ClientErrors(a, b) /\ "interval" \notin ClientErrors(a, b)
      /\ "burst" \notin ClientErrors(a, b)
  <2>1. b.duration \in Int /\ b.omit \in Int /\ b.burst \in Int
    BY BuilderTyped, WidthAssumption DEF b, IntMax
  <2> QED BY <1>0, <1>1, <1>2, <1>3, <1>4, <2>1, LimitAssumption DEF ClientErrors, IntMax
<1>7. "len" \notin ClientErrors(a, b)
  BY <1>5 DEF ClientErrors
<1>8. ClientErrors(a, b) \subseteq {"end", "len", "tos", "dscp", "duration",
                                    "bind_address", "omit", "interval", "burst",
                                    "unsupported"}
  BY DEF ClientErrors
<1> QED BY <1>6, <1>7, <1>8 DEF b

----------------------------------------------------------------------------
(* What a client sends, the server takes as it was meant.                  *)

LEMMA BlksizeFits ==
    ASSUME NEW a, Typed(a), ClientErrors(a, Builder(a)) = {},
           NEW c, c = Client(Builder(a)), NEW mss \in Mss,
           NEW blk, blk = RunBlksize(c, mss)
    PROVE  /\ blk \in 1..IntMax
           /\ c.udp => blk \in MinUdpBlock..MaxUdpBlock
           /\ ~c.udp => blk <= MaxBlock
<1> DEFINE b == Builder(a)
<1>0. /\ c.udp = b.udp /\ c.length = NonZero(b.length)
  BY ClientFields
<1>1. CASE c.length # {}
  <2>1. PICK v : b.length = {v}
    BY <1>0, <1>1, BuilderSizes DEF NonZero
  <2>2. v \in IntMin..IntMax /\ v # 0 /\ c.length = {v} /\ v \in NonZero(b.length)
    BY <1>0, <1>1, <2>1, BuilderTyped DEF NonZero
  <2>3. blk = v
    BY <1>1, <2>2, OptionOf DEF RunBlksize
  <2>4. "len" \notin ClientErrors(a, b)
    OBVIOUS
  <2>5. /\ ~(v < 0) /\ ~(~b.udp /\ v > MaxBlock)
        /\ ~(b.udp /\ v \notin MinUdpBlock..MaxUdpBlock)
    BY <2>2, <2>4 DEF ClientErrors
  <2> HIDE DEF b
  <2> QED BY <1>0, <2>2, <2>3, <2>5, Limits
<1>2. CASE c.length = {} /\ ~c.udp
  <2>1. blk = DefaultTcpBlock
    BY <1>2 DEF RunBlksize
  <2> QED BY <1>2, <2>1, Limits
<1>3. CASE c.length = {} /\ c.udp
  <2> DEFINE opt == {Clamp(m, 0, MaxUdpBlock) : m \in {m \in mss : m >= MinUdpBlock}}
  <2>1. blk = UnwrapOr(opt, DefaultUdpBlock)
    BY <1>3 DEF RunBlksize
  <2>2. \A v \in opt : v \in MinUdpBlock..MaxUdpBlock
    <3>1. mss \subseteq Int
      BY LimitAssumption
    <3>2. \A m \in Int : m >= MinUdpBlock =>
             Clamp(m, 0, MaxUdpBlock) \in MinUdpBlock..MaxUdpBlock
      BY Limits DEF Clamp
    <3> QED BY <3>1, <3>2
  <2>3. blk \in MinUdpBlock..MaxUdpBlock
    <3> HIDE DEF opt
    <3>1. CASE opt = {}
      BY <2>1, <3>1, OptionOf, Limits
    <3>2. CASE opt # {}
      <4>1. (CHOOSE v \in opt : TRUE) \in opt
        BY <3>2
      <4> QED BY <2>1, <2>2, <3>2, <4>1 DEF UnwrapOr
    <3> QED BY <3>1, <3>2
  <2> QED BY <1>3, <2>3, Limits
<1> QED BY <1>0, <1>1, <1>2, <1>3

\* An optional value is there once or not at all.
IsOption(opt) == \E v : opt \in {{}, {v}}

\* What TypeOK would say of a built client, as far as the wire needs it.
Fitting(c) ==
    /\ c.omit \in 0..IntMax /\ c.streams \in 0..IntMax
    /\ c.burst \in 0..MaxBurst /\ c.pacing \in 1..IntMax
    /\ IsOption(c.bytes) /\ 0 \notin c.bytes
    /\ IsOption(c.blocks) /\ 0 \notin c.blocks
    /\ c.bytes = {} \/ c.blocks = {}
    /\ IsOption(c.bandwidth) /\ IsOption(c.fq_rate)

LEMMA BuiltFits ==
    ASSUME NEW a, Typed(a), ClientErrors(a, Builder(a)) = {},
           NEW c, c = Client(Builder(a))
    PROVE  Fitting(c)
<1> DEFINE b == Builder(a)
<1>1. c.omit \in 0..IntMax /\ c.streams \in 0..IntMax
  BY ClientFields, BuilderTyped
<1>2. c.burst \in 0..MaxBurst
  <2>1. ~(b.burst > MaxBurst)
    BY DEF ClientErrors
  <2>2. c.burst = b.burst /\ b.burst \in 0..IntMax
    BY ClientFields, BuilderTyped
  <2> HIDE DEF b
  <2> QED BY <2>1, <2>2, Limits
<1>3. c.pacing \in 1..IntMax
  <2>1. b.pacing \in 0..IntMax
    BY BuilderTyped
  <2>2. c.pacing = IF b.pacing = 0 THEN DefaultPacing ELSE b.pacing
    BY ClientFields
  <2> HIDE DEF b
  <2> QED BY <2>1, <2>2, Limits
<1>4. c.bytes = NonZero(b.bytes) /\ c.blocks = NonZero(b.blocks)
  BY ClientFields
<1>5. IsOption(c.bytes) /\ 0 \notin c.bytes
  <2>1. IsOption(b.bytes)
    BY BuilderSizes DEF IsOption
  <2> HIDE DEF b
  <2> QED BY <1>4, <2>1 DEF NonZero, IsOption
<1>6. IsOption(c.blocks) /\ 0 \notin c.blocks
  <2>1. IsOption(b.blocks)
    BY BuilderSizes DEF IsOption
  <2> HIDE DEF b
  <2> QED BY <1>4, <2>1 DEF NonZero, IsOption
<1>7. c.bytes = {} \/ c.blocks = {}
  <2>1. ~EndConditionsConflict(a)
    BY DEF ClientErrors
  <2>2. ~(EndConditionSet(a, "bytes") /\ EndConditionSet(a, "blockcount"))
    BY <2>1 DEF EndConditionsConflict
  <2>3. ~EndConditionSet(a, "bytes") => c.bytes = {}
    BY <1>4, BuilderSizes DEF EndConditionSet, Given, NonZero
  <2>4. ~EndConditionSet(a, "blockcount") => c.blocks = {}
    BY <1>4, BuilderSizes DEF EndConditionSet, Given, NonZero
  <2> QED BY <2>2, <2>3, <2>4
<1>8. IsOption(c.bandwidth)
  BY ClientFields DEF IsOption
<1>9. IsOption(c.fq_rate)
  <2>1. c.fq_rate = b.fq_rate
    BY ClientFields
  <2>2. IsOption(b.fq_rate)
    BY BuilderSizes DEF IsOption
  <2> QED BY <2>1, <2>2
<1> QED BY <1>1, <1>2, <1>3, <1>5, <1>6, <1>7, <1>8, <1>9 DEF Fitting

LEMMA NonZeroRoundTrip ==
    ASSUME NEW opt, IsOption(opt)
    PROVE  UnwrapOr(NonZero(opt), 0) = UnwrapOr(opt, 0)
<1>0. PICK v : opt \in {{}, {v}}
  BY DEF IsOption
<1>1. CASE opt = {}
  BY <1>1 DEF NonZero
<1>2. CASE opt = {v} /\ v = 0
  <2>1. NonZero(opt) = {}
    BY <1>2 DEF NonZero
  <2>2. UnwrapOr(opt, 0) = 0
    BY <1>2, OptionOf
  <2> QED BY <2>1, <2>2, OptionOf
<1>3. CASE opt = {v} /\ v # 0
  BY <1>3 DEF NonZero
<1> QED BY <1>0, <1>1, <1>2, <1>3

LEMMA NonZeroOfOne ==
    ASSUME NEW v
    PROVE  UnwrapOr(NonZero({v}), 0) = v
<1>1. UnwrapOr(NonZero({v}), 0) = UnwrapOr({v}, 0)
  BY NonZeroRoundTrip DEF IsOption
<1> QED BY <1>1, OptionOf

LEMMA OptionRoundTrip ==
    ASSUME NEW opt, IsOption(opt), 0 \notin opt
    PROVE  NonZero({UnwrapOr(opt, 0)}) = opt
<1>0. PICK v : opt \in {{}, {v}}
  BY DEF IsOption
<1>1. CASE opt = {}
  BY <1>1, OptionOf DEF NonZero
<1>2. CASE opt = {v}
  BY <1>2, OptionOf DEF NonZero
<1> QED BY <1>0, <1>1, <1>2

LEMMA NonZeroTwice ==
    ASSUME NEW opt
    PROVE  NonZero(NonZero(opt)) = NonZero(opt)
BY DEF NonZero

\* What both ends compare: the fields of the two, name by name.
SameTest(c, blk, g) ==
    /\ \A f \in {"udp", "reverse", "bidir", "no_delay", "omit", "streams",
                 "mss", "window", "burst", "pacing", "tos", "repeating",
                 "df", "bytes", "blocks"} : g[f] = c[f]
    /\ g.blksize = blk
    /\ g.bandwidth = UnwrapOr(c.bandwidth, 0)
    /\ g.fq_rate = UnwrapOr(c.fq_rate, 0)
    /\ g.gso => g.dgram = blk
    /\ IF c.bytes = {} /\ c.blocks = {}
       THEN g.duration = c.duration
       ELSE g.duration = 0 /\ (c.bytes = {} \/ c.blocks = {})

LEMMA WireIsFaithful ==
    ASSUME NEW a, Typed(a), ClientErrors(a, Builder(a)) = {},
           NEW c, c = Client(Builder(a)), NEW mss \in Mss,
           NEW blk, blk = RunBlksize(c, mss),
           NEW w, w = BuildParams(c, blk), NEW g, g = ConfigOf(w)
    PROVE  ~ParamsRefused(w) /\ SameTest(c, blk, g)
<1>1. /\ blk \in 1..IntMax
      /\ c.udp => blk \in MinUdpBlock..MaxUdpBlock
      /\ ~c.udp => blk <= MaxBlock
  BY BlksizeFits
<1>2. Fitting(c)
  BY BuiltFits
<1>3. c.window = NonZero(Builder(a).window)
  BY ClientFields
<1>4. ToInt(blk) = blk
  BY <1>1, ToIntIdentity, Limits
<1>5. ToInt(c.omit) = c.omit /\ ToInt(c.streams) = c.streams
      /\ ToInt(c.pacing) = c.pacing
  BY <1>2, ToIntIdentity, Limits DEF Fitting
<1>6. ~ParamsRefused(w)
  <2>1. w.len = blk /\ w.udp = c.udp /\ w.burst = NonZero({c.burst})
    BY <1>4 DEF BuildParams
  <2>2. \A n \in w.burst : ~(n > MaxBurst)
    BY <1>2, <2>1, Limits DEF Fitting, NonZero
  <2>3. ~(w.len < 0) /\ ~(w.udp /\ w.len \notin MinUdpBlock..MaxUdpBlock)
        /\ ~(~w.udp /\ w.len > MaxBlock)
    BY <1>1, <2>1, Limits
  <2> QED BY <2>2, <2>3 DEF ParamsRefused
<1>7. \A f \in {"udp", "reverse", "bidir", "no_delay", "mss", "repeating", "df"} :
         g[f] = c[f]
  BY DEF BuildParams, ConfigOf
<1>8. g.omit = c.omit /\ g.streams = c.streams
  BY <1>5 DEF BuildParams, ConfigOf
<1>9. g.window = c.window
  <2>1. g.window = NonZero(c.window)
    BY DEF BuildParams, ConfigOf
  <2> QED BY <1>3, <2>1, NonZeroTwice
<1>10. g.burst = c.burst
  <2>1. g.burst = UnwrapOr({n \in NonZero({c.burst}) : n > 0}, 0)
    BY DEF BuildParams, ConfigOf
  <2>2. c.burst \in Nat
    BY <1>2, Limits DEF Fitting
  <2>3. {n \in NonZero({c.burst}) : n > 0} = NonZero({c.burst})
    BY <2>2 DEF NonZero
  <2> QED BY <2>1, <2>3, NonZeroOfOne
<1>11. g.pacing = c.pacing
  <2>1. c.pacing > 0
    BY <1>2, Limits DEF Fitting
  <2> QED BY <1>5, <2>1 DEF BuildParams, ConfigOf
<1>12. g.tos = c.tos
  <2>1. g.tos = UnwrapOr(NonZero({c.tos}), 0)
    BY DEF BuildParams, ConfigOf
  <2> QED BY <2>1, NonZeroOfOne
<1>13. g.bytes = c.bytes
  <2>1. g.bytes = NonZero({UnwrapOr(c.bytes, 0)})
    BY DEF BuildParams, ConfigOf
  <2>2. IsOption(c.bytes) /\ 0 \notin c.bytes
    BY <1>2 DEF Fitting
  <2> QED BY <2>1, <2>2, OptionRoundTrip
<1>14. g.blocks = c.blocks
  <2>1. g.blocks = NonZero({UnwrapOr(c.blocks, 0)})
    BY DEF BuildParams, ConfigOf
  <2>2. IsOption(c.blocks) /\ 0 \notin c.blocks
    BY <1>2 DEF Fitting
  <2> QED BY <2>1, <2>2, OptionRoundTrip
<1>15. g.blksize = blk
  BY <1>1, <1>4, Limits DEF BuildParams, ConfigOf
<1>16. g.bandwidth = UnwrapOr(c.bandwidth, 0)
  <2>1. g.bandwidth = UnwrapOr(NonZero(c.bandwidth), 0)
    BY DEF BuildParams, ConfigOf
  <2>2. IsOption(c.bandwidth)
    BY <1>2 DEF Fitting
  <2> QED BY <2>1, <2>2, NonZeroRoundTrip
<1>17. g.fq_rate = UnwrapOr(c.fq_rate, 0)
  <2>1. g.fq_rate = UnwrapOr(NonZero(c.fq_rate), 0)
    BY DEF BuildParams, ConfigOf
  <2>2. IsOption(c.fq_rate)
    BY <1>2 DEF Fitting
  <2> QED BY <2>1, <2>2, NonZeroRoundTrip
<1>18. g.gso => g.dgram = blk
  <2>1. /\ w.gso = (c.udp /\ c.gsro)
        /\ w.dgram = IF c.udp /\ c.gsro THEN blk ELSE 0
    BY DEF BuildParams
  <2>2. /\ g.gso = w.gso
        /\ ~(w.dgram = 0 /\ w.gso) => g.dgram = w.dgram
    BY DEF ConfigOf
  <2>3. blk # 0
    BY <1>1, Limits
  <2> QED BY <2>1, <2>2, <2>3
<1>19. IF c.bytes = {} /\ c.blocks = {}
       THEN g.duration = c.duration
       ELSE g.duration = 0 /\ (c.bytes = {} \/ c.blocks = {})
  <2>1. g.duration = TimeSent(c)
    BY DEF BuildParams, ConfigOf
  <2>2. c.bytes = {} \/ c.blocks = {}
    BY <1>2 DEF Fitting
  <2> QED BY <2>1, <2>2 DEF TimeSent
<1> QED BY <1>6, <1>7, <1>8, <1>9, <1>10, <1>11, <1>12, <1>13, <1>14, <1>15,
           <1>16, <1>17, <1>18, <1>19 DEF SameTest

----------------------------------------------------------------------------
(* No conversion loses or rescales a value in its range.                   *)

LEMMA LongKept ==
    ASSUME NEW t \in Texts, NEW base \in Nat \ {0}, Exact(t, base),
           Meaning(t, base) \div 2 > 0, Meaning(t, base) \div 2 < 2 * LongTop
    PROVE  DoubleToU64(UnitScaled(t, base)) = Meaning(t, base) \div 2
<1>1. PICK d : d = UnitScaled(t, base)
  OBVIOUS
<1>2. d.half = Meaning(t, base) /\ d.half \in Int /\ ~d.nan
  BY <1>1, UnitScaledValue, MeaningInt
<1>3. d.half \in Nat /\ d.half \div 2 < 2 * LongTop
  BY <1>2
<1>4. DoubleToU64(d) = d.half \div 2
  BY <1>2, <1>3, DoubleToU64Value
<1> QED BY <1>1, <1>2, <1>4

LEMMA LengthKept ==
    ASSUME NEW t \in Texts, Exact(t, Kibi),
           Meaning(t, Kibi) \div 2 > 0, Meaning(t, Kibi) \div 2 < IntTop
    PROVE  UnitToInt(t) = Meaning(t, Kibi) \div 2
<1>1. Meaning(t, Kibi) \div 2 \in Int
  BY MeaningInt, ScaleAssumption
<1>2. Meaning(t, Kibi) \div 2 < 2 * LongTop
  BY <1>1, WidthAssumption
<1>3. DoubleToU64(UnitAtoi(t)) = Meaning(t, Kibi) \div 2
  BY <1>2, LongKept, ScaleAssumption DEF UnitAtoi
<1>4. Meaning(t, Kibi) \div 2 \in IntMin..IntMax
  BY <1>1, WidthAssumption DEF IntMin, IntMax
<1> QED BY <1>3, <1>4, ToIntIdentity DEF UnitToInt

\* The hypothesis of NumbersMeanWhatTheySay on a size or a rate, and what is
\* then held.
Amount(a, o) == Meaning(a[o][1], Scale(o)) \div 2
InRange(a, o) ==
    /\ Exact(a[o][1], Scale(o)) /\ Amount(a, o) > 0
    /\ Amount(a, o) < IF o = "length" THEN IntTop ELSE 2 * LongTop

LEMMA LongOption ==
    ASSUME NEW a, Typed(a), NEW o \in (Sizes \cup Rates) \ {"length"},
           Has(a, o), InRange(a, o)
    PROVE  /\ o \in Sizes => DoubleToU64(UnitAtoi(a[o][1])) = Amount(a, o)
           /\ o \notin Sizes => DoubleToU64(UnitAtofRate(a[o][1])) = Amount(a, o)
           /\ Amount(a, o) # 0
<1>1. PICK t \in Texts : t = a[o][1]
  BY FirstText DEF ValueOptions, Sizes, Rates
<1>2. Scale(o) = (IF o \in Sizes THEN Kibi ELSE Kilo) /\ Scale(o) \in Nat \ {0}
  BY ScaleAssumption DEF Scale
<1>3. DoubleToU64(UnitScaled(t, Scale(o))) = Amount(a, o)
  BY <1>1, <1>2, LongKept DEF InRange, Amount
<1> QED BY <1>1, <1>2, <1>3 DEF UnitAtoi, UnitAtofRate, InRange

LEMMA LengthOption ==
    ASSUME NEW a, Typed(a), Has(a, "length"), InRange(a, "length")
    PROVE  UnitToInt(a["length"][1]) = Amount(a, "length") /\ Amount(a, "length") # 0
<1>1. PICK t \in Texts : t = a["length"][1]
  BY FirstText DEF ValueOptions
<1>2. Scale("length") = Kibi
  BY DEF Scale, Sizes
<1> QED BY <1>1, <1>2, LengthKept DEF InRange, Amount

LEMMA CountOption ==
    ASSUME NEW a, Typed(a), NEW o \in Counts, Has(a, o),
           a[o][1].digits \in 0..IntMax, NEW d
    PROVE  TryUnsigned(Atoi(a[o][1]), d) = a[o][1].digits
<1>1. a[o][1] \in Texts
  BY FirstText DEF ValueOptions, Counts
<1>2. Atoi(a[o][1]) = a[o][1].digits /\ a[o][1].digits \in Nat
  BY <1>1, AtoiValue DEF IntMax
<1> QED BY <1>2, UnsignedKept

\* A size or a rate in range is what the built client holds.
LEMMA ClientAmounts ==
    ASSUME NEW a, Typed(a), NEW c, c = Client(Builder(a)),
           NEW o \in (Sizes \cup Rates) \ {"server_bitrate_limit"},
           Has(a, o), InRange(a, o)
    PROVE  /\ o = "bytes" => Amount(a, o) \in c.bytes
           /\ o = "blockcount" => Amount(a, o) \in c.blocks
           /\ o = "length" => Amount(a, o) \in c.length
           /\ o = "bitrate" => Amount(a, o) \in c.bandwidth
           /\ o = "fq_rate" => Amount(a, o) \in c.fq_rate
<1> DEFINE b == Builder(a)
<1>1. CASE o = "bytes"
  <2>1. b.bytes = {Amount(a, o)} /\ Amount(a, o) # 0
    <3>1. o \in Sizes /\ o # "length"
      BY <1>1 DEF Sizes
    <3>2. DoubleToU64(UnitAtoi(a[o][1])) = Amount(a, o) /\ Amount(a, o) # 0
      BY <3>1, LongOption
    <3>3. b.bytes = {DoubleToU64(UnitAtoi(a["bytes"][1]))}
      BY <1>1, BuilderSizes
    <3> QED BY <1>1, <3>2, <3>3
  <2>2. c.bytes = NonZero(b.bytes)
    BY ClientFields
  <2> QED BY <1>1, <2>1, <2>2 DEF NonZero
<1>2. CASE o = "blockcount"
  <2>1. b.blocks = {Amount(a, o)} /\ Amount(a, o) # 0
    <3>1. o \in Sizes /\ o # "length"
      BY <1>2 DEF Sizes
    <3>2. DoubleToU64(UnitAtoi(a[o][1])) = Amount(a, o) /\ Amount(a, o) # 0
      BY <3>1, LongOption
    <3>3. b.blocks = {DoubleToU64(UnitAtoi(a["blockcount"][1]))}
      BY <1>2, BuilderSizes
    <3> QED BY <1>2, <3>2, <3>3
  <2>2. c.blocks = NonZero(b.blocks)
    BY ClientFields
  <2> QED BY <1>2, <2>1, <2>2 DEF NonZero
<1>3. CASE o = "length"
  <2>1. b.length = {Amount(a, o)} /\ Amount(a, o) # 0
    BY <1>3, BuilderSizes, LengthOption
  <2>2. c.length = NonZero(b.length)
    BY ClientFields
  <2> QED BY <1>3, <2>1, <2>2 DEF NonZero
<1>4. CASE o = "bitrate"
  <2>1. b.bandwidth = {Amount(a, o)}
    <3>1. o \notin Sizes /\ o # "length"
      BY <1>4 DEF Sizes
    <3>2. DoubleToU64(UnitAtofRate(a[o][1])) = Amount(a, o)
      BY <3>1, LongOption
    <3>3. b.bandwidth = {DoubleToU64(UnitAtofRate(a["bitrate"][1]))}
      BY <1>4, BuilderSizes
    <3> QED BY <1>4, <3>2, <3>3
  <2>2. c.bandwidth = {UnwrapOr(b.bandwidth, IF b.udp THEN DefaultUdpRate ELSE 0)}
    BY ClientFields
  <2>3. c.bandwidth = {Amount(a, o)}
    BY <2>1, <2>2, OptionOf
  <2> QED BY <1>4, <2>3
<1>5. CASE o = "fq_rate"
  <2>1. b.fq_rate = {Amount(a, o)}
    <3>1. o \notin Sizes /\ o # "length"
      BY <1>5 DEF Sizes
    <3>2. DoubleToU64(UnitAtofRate(a[o][1])) = Amount(a, o)
      BY <3>1, LongOption
    <3>3. b.fq_rate = {DoubleToU64(UnitAtofRate(a["fq_rate"][1]))}
      BY <1>5, BuilderSizes
    <3> QED BY <1>5, <3>2, <3>3
  <2>2. c.fq_rate = b.fq_rate
    BY ClientFields
  <2> QED BY <1>5, <2>1, <2>2
<1> QED BY <1>1, <1>2, <1>3, <1>4, <1>5

\* A count an int holds is the client's.
LEMMA ClientCounts ==
    ASSUME NEW a, Typed(a), NEW c, c = Client(Builder(a)),
           NEW o \in Counts \ {"server_max_duration"}, Has(a, o),
           a[o][1].digits \in 0..IntMax
    PROVE  /\ o = "time" => c.duration = a[o][1].digits
           /\ o = "omit" => c.omit = a[o][1].digits
           /\ o = "parallel" => c.streams = a[o][1].digits
<1> DEFINE b == Builder(a)
<1>1. CASE o = "time"
  <2>1. b.duration = a[o][1].digits
    BY <1>1, BuilderCounts, CountOption
  <2>2. c.duration = b.duration
    BY ClientFields
  <2> QED BY <1>1, <2>1, <2>2
<1>2. CASE o = "omit"
  <2>1. b.omit = a[o][1].digits
    BY <1>2, BuilderCounts, CountOption
  <2>2. c.omit = b.omit
    BY ClientFields
  <2> QED BY <1>2, <2>1, <2>2
<1>3. CASE o = "parallel"
  <2>1. b.streams = a[o][1].digits
    BY <1>3, BuilderCounts, CountOption
  <2>2. c.streams = b.streams
    BY ClientFields
  <2> QED BY <1>3, <2>1, <2>2
<1> QED BY <1>1, <1>2, <1>3

\* An accepted command line has no option of the other end's.
LEMMA SidesApart ==
    ASSUME NEW a, NEW usable, ~MainRejects(a, usable),
           NEW o \in Counts \cup Sizes \cup Rates, Has(a, o)
    PROVE  /\ Has(a, "client") =>
                 o \notin {"server_bitrate_limit", "server_max_duration"}
           /\ Has(a, "server") =>
                 o \in {"server_bitrate_limit", "server_max_duration"}
<1>1. Has(a, "client") => DOMAIN a \cap ServerOnly = {}
  BY DEF MainRejects, ParseClassRejects
<1>2. Has(a, "server") => DOMAIN a \cap ClientOnly = {}
  BY DEF MainRejects, ParseClassRejects, ClientOnlyGiven
<1>3. {"server_bitrate_limit", "server_max_duration"} \subseteq ServerOnly
  BY DEF ServerOnly, ServerOptions
<1>4. {"bytes", "blockcount", "length", "bitrate", "fq_rate", "time", "omit",
       "parallel"} \subseteq ClientOnly
  BY DEF ClientOnly, TestOptions
<1> QED BY <1>1, <1>2, <1>3, <1>4 DEF Has, Counts, Sizes, Rates

----------------------------------------------------------------------------
(* The invariant.                                                          *)

Usables == SUBSET {"rsa_private_key_path", "authorized_users_path",
                   "rsa_public_key_path", "password"}

LEMMA InitInvLine == InitLine => InvLine
<1> SUFFICES ASSUME InitLine PROVE InvLine
  OBVIOUS
<1>1. Texted
  <2>1. DOMAIN argv = {}
    <3>1. argv = <<>>
      BY DEF InitLine
    <3> QED BY <3>1
  <2> QED BY <2>1 DEF Texted
<1> QED BY <1>1 DEF InitLine, InvLine, Accepted, Failure, Made, Sent

LEMMA TypeKeepsInv ==
    ASSUME InvLine, NEW in \in Inputs, Type(in[1], in[2])
    PROVE  InvLine'
<1>1. stage = "typing" /\ stage' = "typing"
  BY DEF Type
<1>2. Texted'
  <2> SUFFICES ASSUME NEW o \in DOMAIN argv' PROVE IsInput(o, argv'[o])
    BY DEF Texted
  <2>1. CASE o = in[1]
    BY <2>1, InputsAssumption DEF Type
  <2>2. CASE o # in[1]
    BY <2>2 DEF Type, InvLine, Texted
  <2> QED BY <2>1, <2>2
<1> QED BY <1>1, <1>2 DEF InvLine, Accepted, Failure, Made, Sent

LEMMA ParseKeepsInv ==
    ASSUME InvLine, Parse
    PROVE  InvLine'
<1>1. stage = "typing" /\ stage' \in {"rejected", "running"} /\ argv' = argv
  BY DEF Parse
<1>2. stage' # "rejected" => \E usable \in Usables : ~MainRejects(argv, usable)
  BY DEF Parse, Usables
<1>3. Accepted'
  BY <1>1, <1>2 DEF Accepted, Usables
<1> QED BY <1>1, <1>3 DEF InvLine, Texted, Failure, Made, Sent

LEMMA BuildClientKeepsInv ==
    ASSUME InvLine, BuildClient
    PROVE  InvLine'
<1>1. /\ stage = "running" /\ Has(argv, "client") /\ argv' = argv
      /\ stage' \in {"built", "failed"}
  BY DEF BuildClient
<1>2. Accepted'
  BY <1>1 DEF InvLine, Accepted
<1>3. Failure'
  BY <1>1 DEF BuildClient, Failure
<1>4. Made'
  BY <1>1 DEF BuildClient, Made
<1> QED BY <1>1, <1>2, <1>3, <1>4 DEF InvLine, Texted, Sent

LEMMA BuildServerKeepsInv ==
    ASSUME InvLine, BuildServer
    PROVE  InvLine'
<1>1. /\ stage = "running" /\ Has(argv, "server") /\ argv' = argv
      /\ stage' \in {"serving", "failed"}
  BY DEF BuildServer
<1>2. Accepted'
  BY <1>1 DEF InvLine, Accepted
<1>3. Failure'
  BY <1>1 DEF BuildServer, Failure
<1>4. Made'
  BY <1>1 DEF BuildServer, Made
<1> QED BY <1>1, <1>2, <1>3, <1>4 DEF InvLine, Texted, Sent

LEMMA SendParamsKeepsInv ==
    ASSUME InvLine, SendParams
    PROVE  InvLine'
<1>1. stage = "built" /\ stage' = "sent" /\ argv' = argv /\ made' = made
  BY DEF SendParams
<1>2. Accepted' /\ Failure' /\ Made'
  BY <1>1 DEF InvLine, Accepted, Failure, Made
<1>3. Sent'
  BY <1>1 DEF SendParams, Sent
<1> QED BY <1>1, <1>2, <1>3 DEF InvLine, Texted

LEMMA FromParamsKeepsInv ==
    ASSUME InvLine, FromParams
    PROVE  InvLine'
<1>1. /\ stage = "sent" /\ stage' \in {"agreed", "refused"} /\ argv' = argv
      /\ made' = made /\ blksize' = blksize /\ wire' = wire
  BY DEF FromParams
<1>2. Accepted' /\ Failure' /\ Made'
  BY <1>1 DEF InvLine, Accepted, Failure, Made
<1>3. Sent'
  BY <1>1 DEF FromParams, InvLine, Sent
<1> QED BY <1>1, <1>2, <1>3 DEF InvLine, Texted

\* What was typed is read, checked, built and sent as one and the same.
THEOREM LineInvariant == SpecLine => []InvLine
<1>1. InvLine /\ [NextLine]_varsLine => InvLine'
  <2> SUFFICES ASSUME InvLine, [NextLine]_varsLine PROVE InvLine'
    OBVIOUS
  <2>1. ASSUME NEW in \in Inputs, Type(in[1], in[2]) PROVE InvLine'
    BY <2>1, TypeKeepsInv
  <2>2. CASE Parse
    BY <2>2, ParseKeepsInv
  <2>3. CASE BuildClient
    BY <2>3, BuildClientKeepsInv
  <2>4. CASE BuildServer
    BY <2>4, BuildServerKeepsInv
  <2>5. CASE SendParams
    BY <2>5, SendParamsKeepsInv
  <2>6. CASE FromParams
    BY <2>6, FromParamsKeepsInv
  <2>7. CASE UNCHANGED varsLine
    BY <2>7 DEF varsLine, InvLine, Texted, Accepted, Failure, Made, Sent
  <2> QED BY <2>1, <2>2, <2>3, <2>4, <2>5, <2>6, <2>7 DEF NextLine
<1> QED BY <1>1, InitInvLine, PTL DEF SpecLine

----------------------------------------------------------------------------
(* The properties.                                                         *)

\* The builders refuse nothing that main() accepted, but a bad -S or --dscp,
\* a -B of the wrong address family and what the platform lacks: ParseClassRejects and RangeViolated
\* imply every other check of build_client() and ClientBuilder::build, for
\* every limit and default the library may be compiled with.
THEOREM AcceptedIsBuilt == SpecLine => []NoLateRejection
<1>1. InvLine => NoLateRejection
  <2> SUFFICES ASSUME InvLine, stage = "failed", why # "bind_address"
               PROVE  why \in {"tos", "dscp", "unsupported"}
    BY DEF NoLateRejection
  <2>1. Has(argv, "client") /\ why \in ClientErrors(argv, Builder(argv))
    BY DEF InvLine, Failure
  <2>2. PICK usable \in Usables : ~MainRejects(argv, usable)
    BY DEF InvLine, Accepted, Usables
  <2>3. Typed(argv)
    BY DEF InvLine, Texted, Typed
  <2> QED BY <2>1, <2>2, <2>3, AcceptedBuilds
<1> QED BY <1>1, LineInvariant, PTL

\* The server refuses no parameters that a client built sends, and the test
\* it makes of them is the client's, whatever TCP_MAXSEG reports and however
\* wide the integers: build_params and TestConfig::from_params are inverse to
\* each other on what build() returns.
THEOREM OneTest == SpecLine => []BothEndsRunTheSameTest
<1>1. InvLine => BothEndsRunTheSameTest
  <2> SUFFICES ASSUME InvLine PROVE BothEndsRunTheSameTest
    OBVIOUS
  <2>1. CASE stage \in {"agreed", "refused"}
    <3>1. PICK mss \in Mss : /\ blksize = RunBlksize(made, mss)
                             /\ wire = BuildParams(made, blksize)
      BY <2>1 DEF InvLine, Sent
    <3>2. /\ Typed(argv) /\ made = Client(Builder(argv))
          /\ ClientErrors(argv, Builder(argv)) = {}
      BY <2>1 DEF InvLine, Texted, Typed, Made
    <3>3. PICK g : g = ConfigOf(wire)
      OBVIOUS
    <3>4. ~ParamsRefused(wire) /\ SameTest(made, blksize, g)
      BY <3>1, <3>2, <3>3, WireIsFaithful
    <3>5. stage # "refused"
      BY <3>4 DEF InvLine, Sent
    <3>6. config = g
      BY <2>1, <3>3, <3>5 DEF InvLine, Sent
    <3> QED BY <3>4, <3>5, <3>6 DEF BothEndsRunTheSameTest, SameTest
  <2>2. CASE stage \notin {"agreed", "refused"}
    BY <2>2 DEF BothEndsRunTheSameTest
  <2> QED BY <2>1, <2>2
<1> QED BY <1>1, LineInvariant, PTL

\* A count an end runs with is the one its leading digits name, if an int
\* holds it; a size or a rate is the amount typed, its fraction cut off, if a
\* double can tell it and the type it ends in has room for it: none of the C
\* conversions between them (atoi, or strtod, the unit, a double to an unsigned
\* long, that to an int) loses it.
THEOREM NumbersKept == SpecLine => []NumbersMeanWhatTheySay
<1>1. InvLine => NumbersMeanWhatTheySay
  <2> SUFFICES ASSUME InvLine, stage \in {"built", "serving"}
               PROVE  /\ \A o \in Counts : Has(argv, o)
                            /\ argv[o][1].digits \in 0..IntMax
                            => argv[o][1].digits \in Held(o)
                      /\ \A o \in Sizes \cup Rates : Has(argv, o) /\ InRange(argv, o)
                            => Amount(argv, o) \in Held(o)
    BY DEF NumbersMeanWhatTheySay, InRange, Amount, Has
  <2>1. PICK usable \in Usables : ~MainRejects(argv, usable)
    BY DEF InvLine, Accepted, Usables
  <2>2. Typed(argv)
    BY DEF InvLine, Texted, Typed
  <2>3. CASE stage = "built"
    <3>1. Has(argv, "client") /\ made = Client(Builder(argv))
      BY <2>3 DEF InvLine, Made
    <3>2. ASSUME NEW o \in Counts, Has(argv, o), argv[o][1].digits \in 0..IntMax
          PROVE  argv[o][1].digits \in Held(o)
      <4>1. o \in {"time", "omit", "parallel"}
        BY <2>1, <3>1, <3>2, SidesApart DEF Counts
      <4>2. /\ o = "time" => made.duration = argv[o][1].digits
            /\ o = "omit" => made.omit = argv[o][1].digits
            /\ o = "parallel" => made.streams = argv[o][1].digits
        BY <2>2, <3>1, <3>2, <4>1, ClientCounts DEF Counts
      <4> QED BY <4>1, <4>2 DEF Held
    <3>3. ASSUME NEW o \in Sizes \cup Rates, Has(argv, o), InRange(argv, o)
          PROVE  Amount(argv, o) \in Held(o)
      <4>1. o \in {"bytes", "blockcount", "length", "bitrate", "fq_rate"}
        BY <2>1, <3>1, <3>3, SidesApart DEF Sizes, Rates
      <4>2. /\ o = "bytes" => Amount(argv, o) \in made.bytes
            /\ o = "blockcount" => Amount(argv, o) \in made.blocks
            /\ o = "length" => Amount(argv, o) \in made.length
            /\ o = "bitrate" => Amount(argv, o) \in made.bandwidth
            /\ o = "fq_rate" => Amount(argv, o) \in made.fq_rate
        BY <2>2, <3>1, <3>3, <4>1, ClientAmounts DEF Sizes, Rates
      <4> QED BY <4>1, <4>2 DEF Held
    <3> QED BY <3>2, <3>3
  <2>4. CASE stage = "serving"
    <3>1. Has(argv, "server") /\ made = Server(argv)
      BY <2>4 DEF InvLine, Made
    <3>2. ASSUME NEW o \in Counts, Has(argv, o), argv[o][1].digits \in 0..IntMax
          PROVE  argv[o][1].digits \in Held(o)
      <4>1. o = "server_max_duration"
        BY <2>1, <3>1, <3>2, SidesApart DEF Counts
      <4>2. made.maxDuration = {TryUnsigned(Atoi(argv[o][1]), IntMax)}
        BY <3>1, <3>2, <4>1 DEF Server, Given
      <4>3. TryUnsigned(Atoi(argv[o][1]), IntMax) = argv[o][1].digits
        BY <2>2, <3>2, CountOption
      <4> QED BY <4>1, <4>2, <4>3 DEF Held
    <3>3. ASSUME NEW o \in Sizes \cup Rates, Has(argv, o), InRange(argv, o)
          PROVE  Amount(argv, o) \in Held(o)
      <4>1. o = "server_bitrate_limit"
        BY <2>1, <3>1, <3>3, SidesApart DEF Sizes, Rates
      <4>2. made.rateLimit = {DoubleToU64(UnitAtofRate(argv[o][1]))}
        BY <3>1, <3>3, <4>1 DEF Server, Given
      <4>3. DoubleToU64(UnitAtofRate(argv[o][1])) = Amount(argv, o)
        BY <2>2, <3>3, <4>1, LongOption DEF Sizes, Rates
      <4> QED BY <4>1, <4>2, <4>3 DEF Held
    <3> QED BY <3>2, <3>3
  <2> QED BY <2>3, <2>4
<1> QED BY <1>1, LineInvariant, PTL

(***************************************************************************)
(* The processes on one port.                                              *)
(***************************************************************************)

\* A process that takes a step of its set-up, and the place it takes it to.
LEMMA SetUpStepMoves ==
    ASSUME NEW p \in Procs, TypeOK, SetUpStep(p)
    PROVE  /\ pc[p] \in Setting
           /\ pc' \in [Procs -> Setting \cup {"app", "dump", "guard", "rt", "exited"}]
           /\ \A q \in Procs : q # p => pc'[q] = pc[q]
           /\ pc'[p] \in Early => pc[p] \in Early
           /\ pc'[p] \in Setting \cup {"app"}
           /\ pc[p] = "create" => pc'[p] = "write"
           /\ pc[p] = "write" => pc'[p] = "app"
<1>1. PICK i \in 1..7 : /\ pc[p] = SetUp[i]
                        /\ pc' = [pc EXCEPT ![p] = IF i = 7 THEN "app" ELSE SetUp[i + 1]]
  <2>1. DOMAIN SetUp = 1..7 /\ Len(SetUp) = 7
    BY DEF SetUp
  <2> QED BY <2>1 DEF SetUpStep
<1>2. pc \in [Procs -> Setting \cup {"app", "dump", "guard", "rt", "exited"}]
  BY DEF TypeOK
<1>3. /\ SetUp[1] = "daemonize" /\ SetUp[2] = "logfile" /\ SetUp[3] = "affinity"
      /\ SetUp[4] = "runtime" /\ SetUp[5] = "sigend" /\ SetUp[6] = "create"
      /\ SetUp[7] = "write"
  BY DEF SetUp
<1>4. i = 1 \/ i = 2 \/ i = 3 \/ i = 4 \/ i = 5 \/ i = 6 \/ i = 7
  OBVIOUS
<1>5. CASE i = 1
  BY <1>1, <1>2, <1>3, <1>5 DEF Setting, Early
<1>6. CASE i = 2
  BY <1>1, <1>2, <1>3, <1>6 DEF Setting, Early
<1>7. CASE i = 3
  BY <1>1, <1>2, <1>3, <1>7 DEF Setting, Early
<1>8. CASE i = 4
  BY <1>1, <1>2, <1>3, <1>8 DEF Setting, Early
<1>9. CASE i = 5
  BY <1>1, <1>2, <1>3, <1>9 DEF Setting, Early
<1>10. CASE i = 6
  BY <1>1, <1>2, <1>3, <1>10 DEF Setting, Early
<1>11. CASE i = 7
  BY <1>1, <1>2, <1>3, <1>11 DEF Setting, Early
<1> QED BY <1>4, <1>5, <1>6, <1>7, <1>8, <1>9, <1>10, <1>11

\* The set-up of a process that fails in it.
LEMMA SetUpFailsFrom ==
    ASSUME NEW p \in Procs, SetUpFails(p)
    PROVE  pc[p] \in Setting
<1>1. PICK i \in 1..7 : pc[p] = SetUp[i]
  BY DEF SetUpFails, SetUp
<1> QED BY <1>1 DEF SetUp, Setting, Early

LEMMA InitInv == Init => Inv
<1> SUFFICES ASSUME Init PROVE Inv
  OBVIOUS
<1> SetUp[1] = "daemonize"
  BY DEF SetUp
<1>1. TypeOK
  <2>1. /\ pc \in [Procs -> Setting \cup {"app", "dump", "guard", "rt", "exited"}]
        /\ future \in [Procs -> {"build", "bind", "accept", "round", "over"}]
    BY DEF Init, Setting, Early
  <2>2. /\ intr \in [Procs -> BOOLEAN] /\ pending \in [Procs -> BOOLEAN]
        /\ hard \in [Procs -> BOOLEAN]
    BY DEF Init
  <2>3. result \in [Procs -> {"", "ok", "error", "signal", "panic", "killed",
                              "default", "unwritten"}]
    BY DEF Init
  <2>4. number \in [Procs -> Nat \ {0}]
    <3>1. number = [q \in Procs |-> 1]
      BY DEF Init
    <3>2. 1 \in Nat \ {0}
      OBVIOUS
    <3> QED BY <3>1, <3>2
  <2>5. sent \in [Procs -> Nat]
    BY DEF Init
  <2> QED BY <2>1, <2>2, <2>3, <2>4, <2>5 DEF Init, TypeOK
<1>2. PidfileNamesLive
  BY ProcsAssumption DEF Init, PidfileNamesLive, Nobody
<1>3. \A p \in Procs : StageInv(p)
  BY DEF Init, StageInv, Setting, Early
<1> QED BY <1>1, <1>2, <1>3 DEF Inv

-----------------------------------------------------------------------------
(* Each kind of step keeps the invariant.                                  *)

\* A step within the set-up.
LEMMA SetUpKeepsInv ==
    ASSUME Inv, NEW p \in Procs, SetUpStep(p)
    PROVE  Inv'
<1> USE ProcsAssumption DEF Inv
<1>0. UNCHANGED <<future, intr, pending, hard, result, number, sent, port>>
  BY DEF SetUpStep
<1>1. TypeOK'
  <2>1. /\ pidfile' \in Procs \cup {Nobody, "empty"} /\ linked' \subseteq Procs
    <3>1. CASE pc[p] = "create"
      <4>1. pidfile' = "empty" /\ linked' = linked \cup {p}
        BY <3>1 DEF SetUpStep
      <4> QED BY <4>1 DEF TypeOK
    <3>2. CASE pc[p] = "write" /\ p \in linked
      BY <3>2 DEF TypeOK, SetUpStep
    <3>3. CASE pc[p] # "create" /\ ~(pc[p] = "write" /\ p \in linked)
      BY <3>3 DEF TypeOK, SetUpStep, KeepFile
    <3> QED BY <3>1, <3>2, <3>3
  <2> QED BY <1>0, <2>1, SetUpStepMoves DEF TypeOK
<1>2. \A q \in Procs : StageInv(q)'
  <2>1. StageInv(p)'
    BY <1>0, SetUpStepMoves DEF StageInv, Setting, Early
  <2>2. ASSUME NEW q \in Procs, q # p PROVE StageInv(q)'
    BY <1>0, <2>2, SetUpStepMoves DEF StageInv
  <2> QED BY <2>1, <2>2
<1>3. PidfileNamesLive'
  <2>1. CASE pc[p] = "create"
    <3>1. pidfile' = "empty" /\ linked' = linked \cup {p} /\ pc'[p] = "write"
      BY <2>1, SetUpStepMoves DEF SetUpStep
    <3> QED BY <3>1 DEF PidfileNamesLive, TypeOK
  <2>2. CASE pc[p] = "write" /\ p \in linked
    <3>1. pidfile' = p /\ pc'[p] = "app"
      BY <2>2, SetUpStepMoves DEF SetUpStep
    <3> QED BY <3>1 DEF PidfileNamesLive
  <2>3. CASE pc[p] # "create" /\ ~(pc[p] = "write" /\ p \in linked)
    <3>1. pidfile' = pidfile /\ linked' = linked
      BY <2>3 DEF SetUpStep, KeepFile
    <3>2. result[p] = "" /\ pc[p] \notin {"app", "dump", "guard"}
      BY SetUpStepMoves DEF StageInv, Setting, Early
    <3> QED BY <1>0, <2>3, <3>1, <3>2, SetUpStepMoves DEF PidfileNamesLive, TypeOK
  <2> QED BY <2>1, <2>2, <2>3
<1> QED BY <1>1, <1>2, <1>3

\* A failed step of the set-up ends the process and leaves the file.
LEMMA SetUpFailsKeepsInv ==
    ASSUME Inv, NEW p \in Procs, SetUpFails(p)
    PROVE  Inv'
<1> USE DEF Inv
<1>1. TypeOK'
  BY DEF TypeOK, SetUpFails
<1>2. \A q \in Procs : StageInv(q)'
  BY SetUpFailsFrom DEF SetUpFails, StageInv, TypeOK, Setting, Early
<1>3. PidfileNamesLive'
  <2>1. result[p] = ""
    BY SetUpFailsFrom DEF StageInv
  <2> QED BY <2>1, SetUpFailsFrom DEF SetUpFails, PidfileNamesLive, TypeOK, Setting, Early
<1> QED BY <1>1, <1>2, <1>3

\* The end of the future takes the process to its guard, the file untouched.
LEMMA ReturnKeepsInv ==
    ASSUME Inv, NEW p \in Procs, Polled(p),
           NEW value \in {"ok", "error", "panic"}, Returns(p, value),
           UNCHANGED <<intr, pending, hard, sent, pidfile, linked>>,
           number' = number
    PROVE  Inv'
<1> USE DEF Inv
<1>1. TypeOK'
  BY DEF TypeOK, Returns, Closed
<1>2. \A q \in Procs : StageInv(q)'
  BY DEF Returns, StageInv, TypeOK, Setting, Early, Polled
<1>3. PidfileNamesLive'
  BY DEF Returns, PidfileNamesLive, TypeOK, StageInv, Polled
<1> QED BY <1>1, <1>2, <1>3

\* The future moves on while the process is polled.
LEMMA FutureKeepsInv ==
    ASSUME Inv, NEW p \in Procs, Polled(p),
           NEW where \in {"bind", "accept", "round"},
           future' = [future EXCEPT ![p] = where],
           UNCHANGED <<pc, intr, pending, hard, result, sent, pidfile, linked>>,
           number' \in [Procs -> Nat \ {0}],
           port' \in Procs \cup {Nobody}
    PROVE  Inv'
<1> USE DEF Inv
<1>1. TypeOK'
  BY DEF TypeOK
<1>2. \A q \in Procs : StageInv(q)'
  BY DEF StageInv, TypeOK, Setting, Early, Polled
<1>3. PidfileNamesLive'
  BY DEF PidfileNamesLive
<1> QED BY <1>1, <1>2, <1>3

\* What the loop does after a round.
LEMMA RoundOverKeepsInv ==
    ASSUME Inv, NEW p \in Procs, Polled(p), NEW counted \in BOOLEAN,
           NEW failed \in BOOLEAN, RoundOver(p, counted, failed),
           UNCHANGED <<intr, pending, hard, sent, pidfile, linked>>
    PROVE  Inv'
<1>1. CASE intr[p] \/ p \in OneOffs
  BY <1>1, ReturnKeepsInv DEF RoundOver
<1>2. CASE ~(intr[p] \/ p \in OneOffs)
  <2>1. number' \in [Procs -> Nat \ {0}] /\ port' \in Procs \cup {Nobody}
    <3>0. number \in [Procs -> Nat \ {0}]
      BY DEF Inv, TypeOK
    <3>1. number[p] \in Nat \ {0} /\ number[p] + 1 \in Nat \ {0}
      BY <3>0
    <3>2. number' = [number EXCEPT ![p] = IF counted THEN number[p] + 1 ELSE number[p]]
      BY <1>2 DEF RoundOver
    <3> QED BY <1>2, <3>1, <3>2 DEF RoundOver, Inv, TypeOK
  <2> QED BY <1>2, <2>1, FutureKeepsInv DEF RoundOver
<1> QED BY <1>1, <1>2

\* A signal.
LEMMA SignalKeepsInv ==
    ASSUME Inv, NEW p \in Procs, Signal(p)
    PROVE  Inv'
<1> USE ProcsAssumption DEF Inv
<1>0. /\ sent'[p] > 0 /\ pc[p] # "exited" /\ sent' \in [Procs -> Nat]
      /\ \A q \in Procs : q # p => sent'[q] = sent[q]
  <2>1. sent \in [Procs -> Nat]
    BY DEF TypeOK
  <2>2. sent[p] \in Nat /\ sent[p] + 1 \in Nat /\ sent[p] + 1 > 0
    BY <2>1
  <2>3. sent' = [sent EXCEPT ![p] = sent[p] + 1] /\ pc[p] # "exited"
    BY DEF Signal, Alive
  <2> QED BY <2>1, <2>2, <2>3
<1>1. TypeOK' /\ \A q \in Procs : StageInv(q)'
  <2>1. CASE hard[p] \/ pc[p] \notin Caught
    <3>1. /\ pc' = [pc EXCEPT ![p] = "exited"]
          /\ future' = [future EXCEPT ![p] = "over"]
          /\ UNCHANGED <<intr, pending, hard, number>>
      BY <2>1 DEF Signal
    <3>2. /\ result' \in [Procs -> {"", "ok", "error", "signal", "panic", "killed",
                                    "default", "unwritten"}]
          /\ result'[p] # "" /\ \A q \in Procs : q # p => result'[q] = result[q]
      BY <2>1 DEF Signal, TypeOK
    <3>3. /\ pidfile' \in Procs \cup {Nobody, "empty"} /\ linked' \subseteq Procs
          /\ port' \in Procs \cup {Nobody}
      BY <2>1 DEF Signal, TypeOK, Unlink, KeepFile, Closed
    <3>4. TypeOK'
      BY <1>0, <3>1, <3>2, <3>3 DEF TypeOK
    <3>5. StageInv(p)'
      BY <1>0, <3>1, <3>2 DEF StageInv, TypeOK, Setting, Early
    <3>6. ASSUME NEW q \in Procs, q # p PROVE StageInv(q)'
      BY <1>0, <3>1, <3>2, <3>6 DEF StageInv, TypeOK
    <3> QED BY <3>4, <3>5, <3>6
  <2>2. CASE ~(hard[p] \/ pc[p] \notin Caught)
    <3>1. /\ pending' = [pending EXCEPT ![p] = TRUE]
          /\ UNCHANGED <<pc, result, future, port, pidfile, linked, intr, hard, number>>
      BY <2>2 DEF Signal, KeepFile
    <3>2. TypeOK'
      BY <1>0, <3>1 DEF TypeOK
    <3>3. pc[p] \notin Early
      BY <2>2 DEF Caught, Early
    <3>4. StageInv(p)'
      BY <1>0, <3>1, <3>3 DEF StageInv
    <3>5. ASSUME NEW q \in Procs, q # p PROVE StageInv(q)'
      BY <1>0, <3>1, <3>5 DEF StageInv, TypeOK
    <3> QED BY <3>2, <3>4, <3>5
  <2> QED BY <2>1, <2>2
<1>3. PidfileNamesLive'
  <2>1. CASE hard[p]
    BY <2>1 DEF Signal, Unlink, PidfileNamesLive, Nobody
  <2>2. CASE ~hard[p] /\ pc[p] \notin Caught
    <3>1. pc[p] \notin {"app", "dump", "guard", "write"} /\ result[p] = ""
      BY <2>2, <1>0 DEF Caught, StageInv, TypeOK, Setting, Early
    <3>2. pidfile' = pidfile /\ linked' = linked
      BY <2>2 DEF Signal, KeepFile
    <3>3. \A q \in Procs : q # p => pc'[q] = pc[q] /\ result'[q] = result[q]
      BY <2>2 DEF Signal, TypeOK
    <3> QED BY <3>1, <3>2, <3>3 DEF PidfileNamesLive, TypeOK
  <2>3. CASE ~hard[p] /\ pc[p] \in Caught
    BY <2>3 DEF Signal, KeepFile, PidfileNamesLive
  <2> QED BY <2>1, <2>2, <2>3
<1> QED BY <1>1, <1>3

\* Death by SIGKILL.
LEMMA KillKeepsInv ==
    ASSUME Inv, NEW p \in Procs, Kill(p)
    PROVE  Inv'
<1> USE DEF Inv
<1>1. TypeOK'
  BY DEF TypeOK, Kill, Closed
<1>2. \A q \in Procs : StageInv(q)'
  BY DEF Kill, StageInv, TypeOK, Setting, Early
<1>3. PidfileNamesLive'
  BY DEF Kill, PidfileNamesLive, TypeOK
<1> QED BY <1>1, <1>2, <1>3

\* The signal arm, the guard and the runtime.
LEMMA WayOutKeepsInv ==
    ASSUME Inv, NEW p \in Procs, SignalArm(p) \/ DropGuard(p) \/ DropRuntime(p)
    PROVE  Inv'
<1> USE ProcsAssumption DEF Inv
<1>1. CASE SignalArm(p)
  <2>1. TypeOK'
    BY <1>1 DEF TypeOK, SignalArm
  <2>2. \A q \in Procs : StageInv(q)'
    BY <1>1 DEF SignalArm, StageInv, TypeOK, Setting, Early
  <2>3. PidfileNamesLive'
    BY <1>1 DEF SignalArm, PidfileNamesLive, TypeOK
  <2> QED BY <2>1, <2>2, <2>3
<1>2. CASE DropGuard(p)
  <2>1. TypeOK'
    BY <1>2 DEF TypeOK, DropGuard, Unlink, Nobody
  <2>2. \A q \in Procs : StageInv(q)'
    BY <1>2 DEF DropGuard, StageInv, TypeOK, Setting, Early
  <2>3. PidfileNamesLive'
    BY <1>2 DEF DropGuard, Unlink, PidfileNamesLive, Nobody
  <2> QED BY <2>1, <2>2, <2>3
<1>3. CASE DropRuntime(p)
  <2>1. TypeOK'
    BY <1>3 DEF TypeOK, DropRuntime
  <2>2. \A q \in Procs : StageInv(q)'
    BY <1>3 DEF DropRuntime, StageInv, TypeOK, Setting, Early
  <2>3. PidfileNamesLive'
    BY <1>3 DEF DropRuntime, PidfileNamesLive, TypeOK
  <2> QED BY <2>1, <2>2, <2>3
<1> QED BY <1>1, <1>2, <1>3

\* Every step of every process, and stuttering, keeps the invariant.
LEMMA NextInv == Inv /\ [Next]_vars => Inv'
<1> SUFFICES ASSUME Inv, [Next]_vars PROVE Inv'
  OBVIOUS
<1>1. CASE UNCHANGED vars
  BY <1>1 DEF vars, Inv, TypeOK, PidfileNamesLive, StageInv
<1>2. ASSUME NEW p \in Procs, Signal(p) PROVE Inv'
  BY <1>2, SignalKeepsInv
<1>3. ASSUME NEW p \in Procs, Kill(p) PROVE Inv'
  BY <1>3, KillKeepsInv
<1>4. ASSUME NEW p \in Procs, Step(p) PROVE Inv'
  <2>1. CASE SetUpStep(p)
    BY <2>1, SetUpKeepsInv
  <2>2. CASE SetUpFails(p)
    BY <2>2, SetUpFailsKeepsInv
  <2>3. CASE Build(p)
    <3>1. number' \in [Procs -> Nat \ {0}] /\ number' = number
      BY <2>3 DEF Build, Inv, TypeOK
    <3>2. CASE Returns(p, "error")
      BY <2>3, <3>1, <3>2, ReturnKeepsInv DEF Build
    <3>3. CASE ~Returns(p, "error")
      <4>1. port' \in Procs \cup {Nobody}
        BY <2>3, <3>3 DEF Build, Inv, TypeOK
      <4> QED BY <2>3, <3>1, <3>3, <4>1, FutureKeepsInv DEF Build
    <3> QED BY <3>2, <3>3
  <2>4. CASE Bind(p)
    <3>1. number' \in [Procs -> Nat \ {0}] /\ number' = number
      BY <2>4 DEF Bind, Inv, TypeOK
    <3>2. CASE Returns(p, "error")
      BY <2>4, <3>1, <3>2, ReturnKeepsInv DEF Bind
    <3>3. CASE ~Returns(p, "error")
      BY <2>4, <3>1, <3>3, FutureKeepsInv DEF Bind
    <3> QED BY <3>2, <3>3
  <2>5. CASE Accept(p)
    <3>1. number' \in [Procs -> Nat \ {0}] /\ port' \in Procs \cup {Nobody}
      BY <2>5 DEF Accept, Inv, TypeOK
    <3> QED BY <2>5, <3>1, FutureKeepsInv DEF Accept
  <2>6. CASE AcceptFails(p) \/ IdleExpires(p) \/ AcceptInterrupted(p) \/ RoundEnds(p)
    BY <2>6, RoundOverKeepsInv DEF AcceptFails, IdleExpires, AcceptInterrupted, RoundEnds
  <2>7. CASE Panics(p)
    BY <2>7, ReturnKeepsInv DEF Panics
  <2>8. CASE DumpTimesOut(p)
    BY <2>8, ReturnKeepsInv DEF DumpTimesOut, Polled
  <2>9. CASE SignalArm(p) \/ DropGuard(p) \/ DropRuntime(p)
    BY <2>9, WayOutKeepsInv
  <2> QED BY <1>4, <2>1, <2>2, <2>3, <2>4, <2>5, <2>6, <2>7, <2>8, <2>9 DEF Step
<1>5. CASE Done
  BY <1>5, <1>1 DEF Done
<1> QED BY <1>1, <1>2, <1>3, <1>4, <1>5 DEF Next

\* The invariant holds of every behaviour.
THEOREM Invariance == Spec => []Inv
BY InitInv, NextInv, PTL DEF Spec

\* What the pidfile holds is the pid of a process that has not reached its
\* guard or was killed, for any number of processes that share the path.
THEOREM PidfileAlwaysLive == Spec => []PidfileNamesLive
<1>1. Inv => PidfileNamesLive
  BY DEF Inv
<1> QED BY <1>1, Invariance, PTL

-----------------------------------------------------------------------------
(* Every step is a step of ServerLife or leaves its variables alone.       *)

\* What ServerLife sees of the other processes stays.
OthersKeep(p) ==
    \A q \in Procs : q # p =>
        /\ result'[q] = result[q] /\ future'[q] = future[q]
        /\ number'[q] = number[q] /\ sent'[q] = sent[q]

Signalled(p) == sent[p] > 0 /\ result[p] # "default"

\* A process whose phase changes, and nothing else.
LEMMA PhaseMoves ==
    ASSUME NEW p \in Procs, NEW from, NEW to, OthersKeep(p),
           Phase(p) = from, Phase(p)' = to,
           number'[p] = number[p], Signalled(p)' = Signalled(p)
    PROVE  Life!Moves(p, from, to)
<1>1. [q \in Procs |-> Phase(q)]' = [[q \in Procs |-> Phase(q)] EXCEPT ![p] = to]
  BY DEF OthersKeep, Phase
<1>2. [q \in Procs |-> number[q] - 1]' = [q \in Procs |-> number[q] - 1]
  BY DEF OthersKeep
<1>3. [q \in Procs |-> sent[q] > 0 /\ result[q] # "default"]'
        = [q \in Procs |-> sent[q] > 0 /\ result[q] # "default"]
  BY Zenon DEF OthersKeep, Signalled
<1> QED BY <1>1, <1>2, <1>3 DEF Life!Moves

\* A step ServerLife does not see.
LEMMA LifeStutters ==
    ASSUME NEW p \in Procs, OthersKeep(p), Phase(p)' = Phase(p),
           number'[p] = number[p], Signalled(p)' = Signalled(p)
    PROVE  UNCHANGED Life!lifeVars
<1>1. [q \in Procs |-> Phase(q)]' = [q \in Procs |-> Phase(q)]
  BY DEF OthersKeep, Phase
<1>2. [q \in Procs |-> number[q] - 1]' = [q \in Procs |-> number[q] - 1]
  BY DEF OthersKeep
<1>3. [q \in Procs |-> sent[q] > 0 /\ result[q] # "default"]'
        = [q \in Procs |-> sent[q] > 0 /\ result[q] # "default"]
  BY Zenon DEF OthersKeep, Signalled
<1> QED BY <1>1, <1>2, <1>3 DEF Life!lifeVars

\* A polled process has no result yet and starts or serves.
LEMMA PolledPhase ==
    ASSUME Inv, NEW p \in Procs, Polled(p)
    PROVE  /\ result[p] = ""
           /\ Phase(p) = IF future[p] \in {"accept", "round"} THEN "serving"
                         ELSE "starting"
BY DEF Inv, StageInv, Polled, Phase

\* The end of the future is a reason to leave ServerLife knows: nothing is
\* served yet, a signal came, or one-off.
LEMMA ReturnLeaves ==
    ASSUME Inv, NEW p \in Procs, Polled(p), NEW value \in {"ok", "error"},
           Returns(p, value), UNCHANGED <<number, sent>>,
           future[p] \in {"accept", "round"} => sent[p] > 0 \/ p \in OneOffs
    PROVE  Life!GiveUp(p) \/ Life!Stop(p)
<1>1. result[p] = "" /\ result'[p] \in {"ok", "error", "signal"}
  BY PolledPhase DEF Returns, Inv, TypeOK
<1>2. OthersKeep(p)
  BY DEF Returns, OthersKeep, Inv, TypeOK
<1>3. Phase(p)' = "leaving" /\ number'[p] = number[p]
  BY <1>1 DEF Phase
<1>4. Signalled(p)' = Signalled(p) /\ (Signalled(p) <=> sent[p] > 0)
  BY <1>1 DEF Signalled
<1>5. CASE future[p] \in {"accept", "round"}
  <2>1. Life!Moves(p, "serving", "leaving")
    BY <1>2, <1>3, <1>4, <1>5, PolledPhase, PhaseMoves
  <2>2. [q \in Procs |-> sent[q] > 0 /\ result[q] # "default"][p] \/ p \in OneOffs
    BY <1>1, <1>5
  <2> QED BY <2>1, <2>2 DEF Life!Stop
<1>6. CASE future[p] \notin {"accept", "round"}
  BY <1>2, <1>3, <1>4, <1>6, PolledPhase, PhaseMoves DEF Life!GiveUp
<1> QED BY <1>5, <1>6

\* After a round: one more served, an idle restart, or the reason to leave.
LEMMA RoundOverIsLife ==
    ASSUME Inv, NEW p \in Procs, Polled(p), NEW counted \in BOOLEAN,
           NEW failed \in BOOLEAN, RoundOver(p, counted, failed),
           UNCHANGED sent, future[p] \in {"accept", "round"}
    PROVE  Life!Next \/ UNCHANGED Life!lifeVars
<1>1. CASE intr[p] \/ p \in OneOffs
  <2>1. sent[p] > 0 \/ p \in OneOffs
    BY <1>1 DEF Inv, StageInv
  <2> QED BY <1>1, <2>1, ReturnLeaves DEF RoundOver, Life!Next
<1>2. CASE ~(intr[p] \/ p \in OneOffs)
  <2>1. /\ future' = [future EXCEPT ![p] = "accept"]
        /\ number' = [number EXCEPT ![p] = IF counted THEN @ + 1 ELSE @]
        /\ UNCHANGED <<pc, result, port>>
    BY <1>2 DEF RoundOver
  <2>2. OthersKeep(p) /\ Signalled(p)' = Signalled(p)
    BY <2>1 DEF OthersKeep, Signalled, Inv, TypeOK
  <2>3. Phase(p) = "serving" /\ Phase(p)' = "serving"
    BY <2>1, PolledPhase DEF Phase, Inv, TypeOK
  <2>4. number[p] \in Nat
    BY DEF Inv, TypeOK
  <2>5. CASE counted
    <3>1. [q \in Procs |-> Phase(q)]' = [q \in Procs |-> Phase(q)]
      BY <2>2, <2>3 DEF OthersKeep, Phase
    <3>2. number' = [number EXCEPT ![p] = number[p] + 1]
      BY <2>1, <2>5
    <3>3. [q \in Procs |-> number[q] - 1]'
            = [[q \in Procs |-> number[q] - 1] EXCEPT ![p] = number[p] - 1 + 1]
      <4>1. DOMAIN number = Procs
        BY DEF Inv, TypeOK
      <4>2. number'[p] = number[p] + 1 /\ \A q \in Procs : q # p => number'[q] = number[q]
        BY <3>2, <4>1
      <4>3. number'[p] - 1 = number[p] - 1 + 1
        BY <2>4, <4>2
      <4> QED BY <4>2, <4>3
    <3>4. [q \in Procs |-> sent[q] > 0 /\ result[q] # "default"]'
            = [q \in Procs |-> sent[q] > 0 /\ result[q] # "default"]
      BY <2>1
    <3> QED BY <1>2, <2>3, <3>1, <3>3, <3>4 DEF Life!Serve, Life!Next
  <2>6. CASE ~counted
    <3>1. number'[p] = number[p]
      BY <2>1, <2>6 DEF Inv, TypeOK
    <3> QED BY <2>2, <2>3, <3>1, LifeStutters
  <2> QED BY <2>5, <2>6
<1> QED BY <1>1, <1>2

\* A signal crashes a process that has no handler yet, is caught, or ends a
\* process that was told to stop before.
LEMMA SignalIsLife ==
    ASSUME Inv, NEW p \in Procs, Signal(p)
    PROVE  Life!Next \/ UNCHANGED Life!lifeVars
<1>1. /\ sent \in [Procs -> Nat] /\ sent' = [sent EXCEPT ![p] = sent[p] + 1]
      /\ pc[p] # "exited" /\ number' = number
  BY DEF Signal, Alive, Inv, TypeOK
<1>2. sent'[p] > 0
  BY <1>1
<1>3. result[p] \notin {"default", "killed", "unwritten"}
  BY <1>1 DEF Inv, StageInv
<1>4. CASE hard[p]
  <2>1. /\ result' = [result EXCEPT ![p] = IF result[p] = "" THEN "signal" ELSE result[p]]
        /\ future' = [future EXCEPT ![p] = "over"]
    BY <1>4 DEF Signal
  <2>2. OthersKeep(p) /\ number'[p] = number[p]
    BY <1>1, <2>1 DEF OthersKeep, Inv, TypeOK
  <2>3. sent[p] > 0
    BY <1>4 DEF Inv, StageInv
  <2>4. Signalled(p) /\ Signalled(p)'
    BY <1>2, <1>3, <2>1, <2>3 DEF Signalled, Inv, TypeOK
  <2>5. CASE result[p] = ""
    <3>1. Phase(p)' = "leaving" /\ Phase(p) \in {"starting", "serving"}
      BY <2>1, <2>5 DEF Phase, Inv, TypeOK
    <3>2. Life!Moves(p, Phase(p), "leaving")
      BY <2>2, <2>4, <3>1, PhaseMoves
    <3>3. [q \in Procs |-> sent[q] > 0 /\ result[q] # "default"][p]
      BY <1>3, <2>3
    <3> QED BY <3>1, <3>2, <3>3 DEF Life!GiveUp, Life!Stop, Life!Next
  <2>6. CASE result[p] # ""
    <3>1. Phase(p)' = Phase(p)
      BY <2>1, <2>6 DEF Phase, Inv, TypeOK
    <3> QED BY <2>2, <2>4, <3>1, LifeStutters
  <2> QED BY <2>5, <2>6
<1>5. CASE ~hard[p] /\ pc[p] \notin Caught
  <2>1. /\ result' = [result EXCEPT ![p] = "default"]
        /\ future' = [future EXCEPT ![p] = "over"]
    BY <1>5 DEF Signal
  <2>2. OthersKeep(p) /\ number'[p] = number[p]
    BY <1>1, <2>1 DEF OthersKeep, Inv, TypeOK
  <2>3. pc[p] \in Early
    BY <1>1, <1>5 DEF Caught, Inv, TypeOK, Setting
  <2>4. result[p] = "" /\ future[p] = "build" /\ sent[p] = 0
    BY <2>3 DEF Inv, StageInv, Setting
  <2>5. Phase(p) = "starting" /\ Phase(p)' = "crashed"
    BY <2>1, <2>4 DEF Phase, Inv, TypeOK
  <2>6. result'[p] = "default" /\ ~(sent[p] > 0)
    <3>1. result'[p] = "default"
      BY <2>1 DEF Inv, TypeOK
    <3>2. sent[p] = 0
      BY <2>4
    <3>3. ~(sent[p] > 0)
      BY <3>2
    <3> QED BY <3>1, <3>3
  <2>7. Signalled(p)' = Signalled(p)
    BY <2>6, Zenon DEF Signalled
  <2>8. Life!Moves(p, "starting", "crashed")
    BY <2>2, <2>5, <2>7, PhaseMoves
  <2> QED BY <2>8 DEF Life!Crash, Life!Next
<1>6. CASE ~hard[p] /\ pc[p] \in Caught
  <2>1. UNCHANGED <<result, future>>
    BY <1>6 DEF Signal
  <2>2. [q \in Procs |-> sent[q] > 0 /\ result[q] # "default"]'
          = [[q \in Procs |-> sent[q] > 0 /\ result[q] # "default"] EXCEPT ![p] = TRUE]
    BY <1>1, <1>2, <1>3, <2>1
  <2>3. /\ [q \in Procs |-> Phase(q)]' = [q \in Procs |-> Phase(q)]
        /\ [q \in Procs |-> number[q] - 1]' = [q \in Procs |-> number[q] - 1]
    BY <1>1, <2>1 DEF Phase
  <2> QED BY <2>2, <2>3 DEF Life!Signal, Life!Next
<1> QED BY <1>4, <1>5, <1>6

\* SIGKILL is a crash; a process that panicked has crashed already.
LEMMA KillIsLife ==
    ASSUME Inv, NEW p \in Procs, Kill(p)
    PROVE  Life!Next \/ UNCHANGED Life!lifeVars
<1>1. /\ result' = [result EXCEPT ![p] = "killed"]
      /\ future' = [future EXCEPT ![p] = "over"]
      /\ UNCHANGED <<number, sent>> /\ pc[p] # "exited"
  BY DEF Kill, Alive
<1>2. OthersKeep(p) /\ number'[p] = number[p]
  BY <1>1 DEF OthersKeep, Inv, TypeOK
<1>3. result[p] # "default"
  BY <1>1 DEF Inv, StageInv
<1>4. Signalled(p)' = Signalled(p)
  BY <1>1, <1>3 DEF Signalled, Inv, TypeOK
<1>5. Phase(p)' = "crashed"
  BY <1>1 DEF Phase, Inv, TypeOK
<1>6. Phase(p) \in {"starting", "serving", "leaving", "crashed"}
  BY DEF Phase
<1>7. CASE Phase(p) = "crashed"
  BY <1>2, <1>4, <1>5, <1>7, LifeStutters
<1>8. CASE Phase(p) # "crashed"
  <2>1. Life!Moves(p, Phase(p), "crashed")
    BY <1>2, <1>4, <1>5, PhaseMoves
  <2> QED BY <1>6, <1>8, <2>1 DEF Life!Crash, Life!Next
<1> QED BY <1>7, <1>8

\* A step of the process itself.
LEMMA StepIsLife ==
    ASSUME Inv, NEW p \in Procs, Step(p)
    PROVE  Life!Next \/ UNCHANGED Life!lifeVars
<1>1. CASE \/ SetUpStep(p) \/ SignalArm(p) \/ DropGuard(p) \/ DropRuntime(p)
  <2>1. UNCHANGED <<result, future, number, sent>>
    BY <1>1 DEF SetUpStep, SignalArm, DropGuard, DropRuntime
  <2> QED BY <2>1, LifeStutters DEF OthersKeep, Phase, Signalled
<1>2. CASE SetUpFails(p)
  <2>1. result[p] = "" /\ future[p] = "build"
    BY <1>2, SetUpFailsFrom DEF Inv, StageInv
  <2>2. /\ result' = [result EXCEPT ![p] = IF pc[p] = "write" THEN "unwritten" ELSE "error"]
        /\ UNCHANGED <<future, number, sent>>
    BY <1>2 DEF SetUpFails
  <2>3. result'[p] \in {"unwritten", "error"} /\ OthersKeep(p)
    BY <2>2 DEF OthersKeep, Inv, TypeOK
  <2>4. Phase(p) = "starting" /\ Phase(p)' = "leaving"
    BY <2>1, <2>3 DEF Phase
  <2>5. Signalled(p)' = Signalled(p) /\ number'[p] = number[p]
    BY <2>1, <2>2, <2>3 DEF Signalled
  <2> QED BY <2>3, <2>4, <2>5, PhaseMoves DEF Life!GiveUp, Life!Next
<1>3. CASE Build(p)
  <2>1. CASE Returns(p, "error")
    BY <1>3, <2>1, ReturnLeaves DEF Build, Life!Next
  <2>2. CASE ~Returns(p, "error")
    <3>1. /\ future' = [future EXCEPT ![p] = "bind"] /\ future[p] = "build"
          /\ UNCHANGED <<result, number, sent>>
      BY <1>3, <2>2 DEF Build
    <3>2. OthersKeep(p) /\ Phase(p)' = Phase(p) /\ Signalled(p)' = Signalled(p)
      BY <3>1 DEF OthersKeep, Phase, Signalled, Inv, TypeOK
    <3> QED BY <3>1, <3>2, LifeStutters
  <2> QED BY <2>1, <2>2
<1>4. CASE Bind(p)
  <2>1. CASE Returns(p, "error")
    BY <1>4, <2>1, ReturnLeaves DEF Bind, Life!Next
  <2>2. CASE ~Returns(p, "error")
    <3>1. /\ future' = [future EXCEPT ![p] = "accept"] /\ future[p] = "bind"
          /\ UNCHANGED <<result, number, sent>> /\ Polled(p)
      BY <1>4, <2>2 DEF Bind
    <3>2. OthersKeep(p) /\ Signalled(p)' = Signalled(p)
      BY <3>1 DEF OthersKeep, Signalled, Inv, TypeOK
    <3>3. Phase(p) = "starting" /\ Phase(p)' = "serving"
      BY <3>1, PolledPhase DEF Phase, Inv, TypeOK
    <3> QED BY <3>1, <3>2, <3>3, PhaseMoves DEF Life!Listen, Life!Next
  <2> QED BY <2>1, <2>2
<1>5. CASE Accept(p)
  <2>1. /\ future' = [future EXCEPT ![p] = "round"] /\ future[p] = "accept"
        /\ UNCHANGED <<result, number, sent>>
    BY <1>5 DEF Accept
  <2>2. OthersKeep(p) /\ Phase(p)' = Phase(p) /\ Signalled(p)' = Signalled(p)
    BY <2>1 DEF OthersKeep, Phase, Signalled, Inv, TypeOK
  <2> QED BY <2>1, <2>2, LifeStutters
<1>6. CASE AcceptFails(p) \/ IdleExpires(p) \/ AcceptInterrupted(p) \/ RoundEnds(p)
  <2>1. PICK counted \in BOOLEAN, failed \in BOOLEAN : RoundOver(p, counted, failed)
    BY <1>6 DEF AcceptFails, IdleExpires, AcceptInterrupted, RoundEnds
  <2>2. Polled(p) /\ UNCHANGED sent /\ future[p] \in {"accept", "round"}
    BY <1>6 DEF AcceptFails, IdleExpires, AcceptInterrupted, RoundEnds
  <2> QED BY <2>1, <2>2, RoundOverIsLife
<1>7. CASE Panics(p)
  <2>1. /\ result' = [result EXCEPT ![p] = "panic"]
        /\ future' = [future EXCEPT ![p] = "over"]
        /\ UNCHANGED <<number, sent>> /\ Polled(p)
    BY <1>7 DEF Panics, Returns
  <2>2. result[p] = "" /\ Phase(p) \in {"starting", "serving"}
    BY <2>1, PolledPhase
  <2>3. OthersKeep(p) /\ Phase(p)' = "crashed" /\ Signalled(p)' = Signalled(p)
    BY <2>1, <2>2 DEF OthersKeep, Phase, Signalled, Inv, TypeOK
  <2>4. Life!Moves(p, Phase(p), "crashed")
    BY <2>1, <2>3, PhaseMoves
  <2> QED BY <2>2, <2>4 DEF Life!Crash, Life!Next
<1>8. CASE DumpTimesOut(p)
  <2>1. Polled(p) /\ sent[p] > 0
    BY <1>8 DEF DumpTimesOut, Polled, Inv, StageInv
  <2> QED BY <1>8, <2>1, ReturnLeaves DEF DumpTimesOut, Life!Next
<1> QED BY <1>1, <1>2, <1>3, <1>4, <1>5, <1>6, <1>7, <1>8 DEF Step

LEMMA NextIsLife == Inv /\ [Next]_vars => [Life!Next]_(Life!lifeVars)
<1> SUFFICES ASSUME Inv, [Next]_vars PROVE Life!Next \/ UNCHANGED Life!lifeVars
  OBVIOUS
<1>1. CASE UNCHANGED vars
  BY <1>1 DEF vars, Life!lifeVars, Phase
<1>2. CASE \E p \in Procs : Step(p) \/ Signal(p) \/ Kill(p)
  BY <1>2, StepIsLife, SignalIsLife, KillIsLife
<1> QED BY <1>1, <1>2 DEF Next, Done

LEMMA InitIsLife == Init => Life!Init
<1> SUFFICES ASSUME Init PROVE Life!Init
  OBVIOUS
<1>1. [p \in Procs |-> Phase(p)] = [p \in Procs |-> "starting"]
  BY DEF Init, Phase
<1>2. [p \in Procs |-> number[p] - 1] = [p \in Procs |-> 0]
  <2>1. \A p \in Procs : number[p] = 1
    BY DEF Init
  <2>2. \A p \in Procs : number[p] - 1 = 0
    BY <2>1
  <2> QED BY <2>2
<1>3. [p \in Procs |-> sent[p] > 0 /\ result[p] # "default"] = [p \in Procs |-> FALSE]
  <2>0. \A p \in Procs : sent[p] = 0
    BY DEF Init
  <2>1. \A p \in Procs : ~(sent[p] > 0)
    BY <2>0
  <2>2. \A p \in Procs : (sent[p] > 0 /\ result[p] # "default") = FALSE
    BY <2>1, Zenon
  <2> QED BY <2>2, Zenon
<1> QED BY <1>1, <1>2, <1>3 DEF Life!Init

\* The server process implements the safe part of ServerLife: nothing but a
\* signal, one-off, a panic or a kill ends a server that listens, and a
\* failed round does not; whatever the other processes do.
THEOREM ProcessImplementsLife == Spec => Life!SafeSpec
<1>1. Spec => [][Life!Next]_(Life!lifeVars)
  BY Invariance, NextIsLife, PTL DEF Spec
<1> QED BY <1>1, InitIsLife, PTL DEF Spec, Life!SafeSpec

\* A signalled process that exits no longer serves.
LEMMA SignalStopsServing ==
    ASSUME NEW p \in Procs
    PROVE  Spec /\ (sent[p] > 0 ~> pc[p] = "exited")
             => (Life!Told(p) ~> ~Life!Serving(p))
<1>1. Inv /\ pc[p] = "exited" => ~Life!Serving(p)
  BY DEF Inv, StageInv, Phase, Setting, Early, Life!Serving
<1>2. Life!Told(p) => sent[p] > 0
  BY DEF Life!Told
<1> QED BY <1>1, <1>2, Invariance, PTL

\* The liveness of ServerLife is SignalEndsProcess: a server that ends on a
\* signal, as TLC checks under the fairness of Spec, implements all of it.
THEOREM SignalCompletesLife == Spec /\ SignalEndsProcess => ImplementsServerLife
<1>1. Spec /\ SignalEndsProcess =>
         \A p \in Procs : Life!Told(p) ~> ~Life!Serving(p)
  BY SignalStopsServing DEF SignalEndsProcess
<1> QED BY <1>1, ProcessImplementsLife, PTL DEF ImplementsServerLife, Life!Spec
=============================================================================
