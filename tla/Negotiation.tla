---------------------------- MODULE Negotiation ----------------------------
(***************************************************************************)
(* The server's verdict on the parameters of a client: the validation of   *)
(* TestConfig::from_params and the two upfront limits of negotiate_test    *)
(* (--server-bitrate-limit and --server-max-duration).  Pure operators:    *)
(* the control server uses them as the outcome of PARAM_EXCHANGE.          *)
(*                                                                         *)
(* A test is the record of the parameters that the verdict and the control *)
(* flow tell apart:                                                        *)
(*   udp, reverse, bidir        the transport and the direction            *)
(*   parallel                   -P, the streams of one direction           *)
(*   duration, omit             seconds; duration 0 is "no time limit"     *)
(*   bounded                    a byte or block limit (-n, -k) ends it     *)
(*   bandwidth, fqrate          bits per second, 0 is "unlimited"          *)
(*   wellFormed                 burst and block size within their ranges   *)
(*   authorized                 authenticate() accepts the token           *)
(***************************************************************************)
EXTENDS Naturals

CONSTANTS MaxDuration,   \* --server-max-duration; 0 or absent: no limit
          BitrateLimit,  \* --server-bitrate-limit; 0 or absent: no limit
          U32Max,        \* largest value of the u32 the duration is kept in
          U64Max         \* largest value of the u64 a rate is kept in

ASSUME LimitsAssumption ==
    /\ MaxDuration \in Nat
    /\ BitrateLimit \in Nat
    /\ U32Max \in Nat
    /\ U64Max \in Nat

TestRecords ==
    [udp : BOOLEAN, reverse : BOOLEAN, bidir : BOOLEAN, parallel : Nat,
     duration : Nat, omit : Nat, bounded : BOOLEAN, bandwidth : Nat,
     fqrate : Nat, wellFormed : BOOLEAN, authorized : BOOLEAN]

\* Fault: the two sums in wrapping arithmetic.
WrappingAdd(a, b) == (a + b) % (U32Max + 1)
WrappingMul(a, b) == (a * b) % (U64Max + 1)

\* u32::saturating_add and u64::saturating_mul.
SaturatingAdd(a, b) == IF a + b > U32Max THEN U32Max ELSE a + b
SaturatingMul(a, b) == IF a * b > U64Max THEN U64Max ELSE a * b

DurationViolated(t) ==
    /\ MaxDuration > 0
    /\ \/ SaturatingAdd(t.duration, t.omit) > MaxDuration
       \/ t.duration = 0

RateViolated(t) ==
    /\ BitrateLimit > 0
    /\ \E rate \in {t.bandwidth, t.fqrate} :
          SaturatingMul(rate, t.parallel * (IF t.bidir THEN 2 ELSE 1)) > BitrateLimit

\* from_params first, then the rate, then the duration, then the token: a
\* test that breaks both limits is refused for its rate.
Verdict(t) ==
    IF ~t.wellFormed THEN "invalid"
    ELSE IF RateViolated(t) THEN "rate"
    ELSE IF DurationViolated(t) THEN "duration"
    ELSE IF ~t.authorized THEN "unauthorized"
    ELSE "proceed"

\* The data streams of a round: receivers first, then senders.
Total(t) ==
    (IF t.reverse /\ ~t.bidir THEN 0 ELSE t.parallel)
      + (IF t.reverse \/ t.bidir THEN t.parallel ELSE 0)

\* The server expects data, so its receive timeouts apply.
IdleArmed(t) == ~t.reverse \/ t.bidir

\* What the two limits promise, in numbers that do not overflow.  At the very
\* top of a type a saturated value cannot be told from the limit.
WithinLimits(t) ==
    /\ MaxDuration \in 1..(U32Max - 1) =>
          t.duration # 0 /\ t.duration + t.omit <= MaxDuration
    /\ BitrateLimit \in 1..(U64Max - 1) =>
          \A rate \in {t.bandwidth, t.fqrate} :
             rate * t.parallel * (IF t.bidir THEN 2 ELSE 1) <= BitrateLimit
============================================================================
