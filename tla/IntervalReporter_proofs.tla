----------------------- MODULE IntervalReporter_proofs -----------------------
(***************************************************************************)
(* Proofs about IntervalReporter: for every number of streams, block size, *)
(* limit and bound.                                                        *)
(***************************************************************************)
EXTENDS IntervalReporter, FiniteSetTheorems, TLAPS

\* The initial states satisfy the invariant.
LEMMA InitInv == Init => Inv
<1> SUFFICES ASSUME Init PROVE Inv
  OBVIOUS
<1> USE ConstantsAssumption DEF Init
<1>1. TypeOK
  <2>1. 1 \in Streams
    BY DEF Streams
  <2>2. budget \in Int
    OBVIOUS
  <2>3. warm \in BOOLEAN
    BY DEF Modes
  <2> QED
    BY <2>1, <2>2, <2>3 DEF TypeOK
<1>2. WalkInv
  BY DEF WalkInv
<1>3. AccountInv
  BY DEF AccountInv, Pending
<1> QED
  BY <1>1, <1>2, <1>3 DEF Inv

\* Every step of a task, the reporter or the driver keeps the type.
LEMMA StepType == Inv /\ [Next]_vars => TypeOK'
<1> SUFFICES ASSUME Inv, [Next]_vars PROVE TypeOK'
  OBVIOUS
<1> USE ConstantsAssumption
    DEF Inv, TypeOK, taskVars, lineVars, reporterVars, driverVars
<1>1. ASSUME NEW s \in Streams, TaskStep(s) \/ TaskFails(s)
      PROVE  TypeOK'
  BY <1>1 DEF TaskStep, TaskFails, Claim, CountTotal, CountInterval,
              TaskStops, TaskAt
<1>2. ASSUME NEW p, NEW q, Walk(p, q)
      PROVE  at' \in Streams /\ rpc' \in {p, q}
  BY <1>2 DEF Walk, Streams
<1>3. ASSUME TakeInterval
      PROVE  /\ interval' \in [Streams -> Nat]
             /\ row' \in [Streams -> Nat]
  BY <1>3 DEF TakeInterval
<1>4. CASE Emit
  BY <1>2, <1>3, <1>4 DEF Emit
<1>5. CASE Flush
  BY <1>2, <1>3, <1>5 DEF Flush
<1>6. CASE BoundarySnapshot
  <2>1. omitted' \in [Streams -> Nat]
    BY <1>6 DEF BoundarySnapshot
  <2> QED
    BY <1>2, <1>6, <2>1 DEF BoundarySnapshot
<1>7. CASE BoundaryTake
  BY <1>7 DEF BoundaryTake, ReporterAt
<1>8. CASE \/ Tick \/ OmitDeadline \/ TickDone \/ LateFinish \/ LateTimeout
           \/ Finish \/ ReporterDies
  BY <1>8 DEF Tick, OmitDeadline, TickDone, LateFinish, LateTimeout, Finish,
              ReporterDies, ReporterAt
<1>12. CASE PrintRows
  <2>1. row' \in [Streams -> Nat] /\ reported' \in [Streams -> Nat]
    BY <1>12 DEF PrintRows
  <2> QED
    BY <1>12, <2>1 DEF PrintRows, ReporterAt
<1>9. CASE Refill \/ Cross
  <2>1. CASE Refill
    <3>1. budget' \in Int
      BY <2>1 DEF Refill
    <3> QED
      BY <2>1, <3>1 DEF Refill, ReporterAt
  <2>2. CASE Cross
    BY <2>2 DEF Cross, ReporterAt
  <2> QED
    BY <1>9, <2>1, <2>2
<1>10. CASE DriverStep \/ Ends \/ Dropped
  <2>1. CASE Gate
    BY <2>1 DEF Gate, DriverAt
  <2>2. CASE LimitReached
    BY <2>2 DEF LimitReached, DriverAt
  <2>3. CASE SignalFinish
    BY <2>3 DEF SignalFinish, DriverAt
  <2>4. CASE Join
    BY <2>4 DEF Join, DriverAt
  <2>5. CASE Ends
    BY <2>5 DEF Ends, DriverAt
  <2>6. CASE Dropped
    BY <2>6 DEF Dropped, DriverAt
  <2> QED
    BY <1>10, <2>1, <2>2, <2>3, <2>4, <2>5, <2>6 DEF DriverStep
<1>11. CASE UNCHANGED vars
  BY <1>11 DEF vars
<1> QED
  BY <1>1, <1>4, <1>5, <1>6, <1>7, <1>8, <1>9, <1>10, <1>11,
     <1>12
  DEF Next, ReporterStep, BoundaryStep

\* Every walk of the reporter starts at the first stream.
LEMMA StepWalk == Inv /\ [Next]_vars => WalkInv'
<1> SUFFICES ASSUME Inv, [Next]_vars PROVE WalkInv'
  OBVIOUS
<1> USE DEF Inv, WalkInv, taskVars, lineVars, reporterVars, driverVars
<1>1. CASE UNCHANGED <<rpc, at, warm>>
  BY <1>1
<1>2. CASE Emit \/ Flush \/ BoundarySnapshot
  BY <1>2 DEF Emit, Flush, BoundarySnapshot, Walk
<1>3. CASE \/ Tick \/ OmitDeadline \/ TickDone \/ LateFinish \/ LateTimeout
           \/ Finish
  BY <1>3 DEF Tick, OmitDeadline, TickDone, LateFinish, LateTimeout, Finish,
              ReporterAt
<1>7. CASE ReporterDies
  BY <1>7 DEF ReporterDies, ReporterAt
<1>8. CASE PrintRows
  BY <1>8 DEF PrintRows, ReporterAt
<1>4. CASE BoundaryTake \/ Refill \/ Cross
  BY <1>4 DEF BoundaryTake, Refill, Cross, ReporterAt
<1>5. ASSUME NEW s \in Streams, TaskStep(s) \/ TaskFails(s)
      PROVE  UNCHANGED <<rpc, at, warm>>
  BY <1>5 DEF TaskStep, TaskFails, Claim, CountTotal, CountInterval, TaskStops
<1>6. ASSUME DriverStep \/ Ends \/ Dropped
      PROVE  UNCHANGED <<rpc, at, warm>>
  BY <1>6 DEF DriverStep, Gate, LimitReached, SignalFinish, Join, Ends, Dropped
<1> QED
  BY <1>1, <1>2, <1>3, <1>4, <1>5, <1>6, <1>7, <1>8
  DEF Next, ReporterStep, BoundaryStep, vars

\* The accounting survives every step.
LEMMA StepAccount == Inv /\ [Next]_vars => AccountInv'
<1> SUFFICES ASSUME Inv, [Next]_vars, NEW s \in Streams
             PROVE  /\ omitted'[s] <= bytes'[s]
                    /\ Baselined(s)' =>
                          bytes'[s] - omitted'[s] <=
                              reported'[s] + row'[s] + interval'[s] + Pending(s)'
  BY DEF AccountInv
<1> USE DEF taskVars, lineVars, reporterVars, driverVars
<1>0. /\ bytes[s] \in Nat /\ interval[s] \in Nat /\ omitted[s] \in Nat
      /\ reported[s] \in Nat /\ row[s] \in Nat
      /\ Pending(s) \in Nat /\ Block \in Nat
      /\ at \in Nat /\ s \in Nat /\ s <= K /\ K \in Nat /\ at <= K
      /\ bytes \in [Streams -> Nat] /\ interval \in [Streams -> Nat]
      /\ omitted \in [Streams -> Nat] /\ reported \in [Streams -> Nat]
      /\ row \in [Streams -> Nat]
      /\ at \in Streams /\ DOMAIN task = Streams
      /\ omitted[s] <= bytes[s]
  <2>1. /\ bytes \in [Streams -> Nat] /\ interval \in [Streams -> Nat]
        /\ omitted \in [Streams -> Nat] /\ reported \in [Streams -> Nat]
        /\ row \in [Streams -> Nat] /\ at \in Streams /\ DOMAIN task = Streams
    BY DEF Inv, TypeOK
  <2>2. Pending(s) \in Nat /\ Block \in Nat /\ K \in Nat
    BY ConstantsAssumption DEF Pending
  <2>3. omitted[s] <= bytes[s]
    BY DEF Inv, AccountInv
  <2>4. at \in Nat /\ s \in Nat /\ s <= K /\ at <= K
    BY <2>1, <2>2 DEF Streams
  <2> QED BY <2>1, <2>2, <2>3, <2>4
<1>1. Baselined(s) => bytes[s] - omitted[s] <=
                         reported[s] + row[s] + interval[s] + Pending(s)
  BY DEF Inv, AccountInv
<1>2. ASSUME UNCHANGED <<task, bytes, interval, omitted, row, reported>>,
             Baselined(s)' => Baselined(s)
      PROVE  /\ omitted'[s] <= bytes'[s]
             /\ Baselined(s)' => bytes'[s] - omitted'[s] <=
                                   reported'[s] + row'[s] + interval'[s] + Pending(s)'
  BY <1>0, <1>1, <1>2 DEF Pending
<1>3. ASSUME NEW t \in Streams, TaskStep(t) \/ TaskFails(t)
      PROVE  /\ omitted'[s] <= bytes'[s]
             /\ Baselined(s)' => bytes'[s] - omitted'[s] <=
                                   reported'[s] + row'[s] + interval'[s] + Pending(s)'
  <2>1. UNCHANGED <<omitted, rpc, at, warm, row, reported>>
    BY <1>3 DEF TaskStep, TaskFails, Claim, CountTotal, CountInterval, TaskStops
  <2>2. Baselined(s)' => Baselined(s)
    BY <2>1 DEF Baselined
  <2>3. CASE Claim(t) \/ TaskStops(t) \/ TaskFails(t)
    <3>1. UNCHANGED <<bytes, interval>> /\ Pending(s)' = Pending(s)
      BY <1>0, <2>3 DEF Claim, TaskStops, TaskFails, TaskAt, Pending
    <3> QED
      BY <1>0, <1>1, <2>1, <2>2, <3>1
  <2>4. CASE CountTotal(t)
    <3>1. CASE s = t
      <4>1. /\ bytes'[s] = bytes[s] + Block /\ interval' = interval
            /\ Pending(s) = 0 /\ Pending(s)' = Block
        BY <1>0, <2>4, <3>1 DEF CountTotal, TaskAt, Pending
      <4> QED
        BY <1>0, <1>1, <2>1, <2>2, <4>1
    <3>2. CASE s # t
      <4>1. /\ bytes'[s] = bytes[s] /\ interval' = interval
            /\ Pending(s)' = Pending(s)
        BY <1>0, <2>4, <3>2 DEF CountTotal, TaskAt, Pending
      <4> QED
        BY <1>0, <1>1, <2>1, <2>2, <4>1
    <3> QED
      BY <3>1, <3>2
  <2>5. CASE CountInterval(t)
    <3>1. CASE s = t
      <4>1. /\ interval'[s] = interval[s] + Block /\ bytes' = bytes
            /\ Pending(s) = Block /\ Pending(s)' = 0
        BY <1>0, <2>5, <3>1 DEF CountInterval, TaskAt, Pending
      <4> QED
        BY <1>0, <1>1, <2>1, <2>2, <4>1
    <3>2. CASE s # t
      <4>1. /\ interval'[s] = interval[s] /\ bytes' = bytes
            /\ Pending(s)' = Pending(s)
        BY <1>0, <2>5, <3>2 DEF CountInterval, TaskAt, Pending
      <4> QED
        BY <1>0, <1>1, <2>1, <2>2, <4>1
    <3> QED
      BY <3>1, <3>2
  <2> QED
    BY <1>3, <2>3, <2>4, <2>5 DEF TaskStep
<1>4. CASE Emit \/ Flush
  <2>1. /\ UNCHANGED <<task, bytes, omitted, warm, reported>> /\ TakeInterval
        /\ rpc \in {"emit", "flush"}
        /\ rpc' \in {"emit", "flush", "print", "print_last"}
    BY <1>4 DEF Emit, Flush, Walk
  <2>2. Baselined(s)' => ~warm /\ Baselined(s)
    BY <2>1 DEF Baselined
  <2>3. ~warm => row'[s] + interval'[s] = row[s] + interval[s]
    BY <1>0, <2>1 DEF TakeInterval
  <2>4. interval'[s] \in Nat /\ row'[s] \in Nat
    BY <1>0, <2>1 DEF TakeInterval
  <2> QED
    BY <1>0, <1>1, <2>1, <2>2, <2>3, <2>4 DEF Pending
<1>10. CASE PrintRows
  <2>1. UNCHANGED <<task, bytes, interval, omitted, at, warm>>
    BY <1>10 DEF PrintRows
  <2>2. /\ rpc \in {"print", "print_last"} /\ rpc' \in {"wait", "ended"}
        /\ reported'[s] = reported[s] + row[s] /\ row'[s] = 0
    BY <1>10 DEF PrintRows, ReporterAt
  <2>3. Baselined(s)' => Baselined(s)
    BY <2>1, <2>2 DEF Baselined
  <2> QED
    BY <1>0, <1>1, <2>1, <2>2, <2>3 DEF Pending
<1>5. CASE BoundaryTake
  <2>1. /\ UNCHANGED <<task, bytes, omitted, row, reported, at, warm>>
        /\ interval' = [interval EXCEPT ![at] = 0]
        /\ rpc = "take" /\ rpc' = "snapshot"
    BY <1>5 DEF BoundaryTake, ReporterAt
  <2>2. Baselined(s)' => Baselined(s) /\ s # at
    BY <1>0, <2>1 DEF Baselined, Inv, WalkInv
  <2>3. s # at => interval'[s] = interval[s]
    BY <1>0, <2>1
  <2> QED
    BY <1>0, <1>1, <2>1, <2>2, <2>3 DEF Pending
<1>6. CASE BoundarySnapshot
  <2>1. /\ UNCHANGED <<task, bytes, interval, row, reported, warm>>
        /\ omitted' = [omitted EXCEPT ![at] = bytes[at]]
        /\ rpc = "snapshot" /\ Walk("take", "refill")
    BY <1>6 DEF BoundarySnapshot
  <2>2. CASE s = at
    <3>1. omitted'[s] = bytes[s] /\ bytes'[s] = bytes[s]
      BY <1>0, <2>1, <2>2
    <3> QED
      BY <1>0, <2>1, <3>1 DEF Pending
  <2>3. CASE s # at
    <3>1. omitted'[s] = omitted[s]
      BY <1>0, <2>1, <2>3
    <3>2. Baselined(s)' => Baselined(s)
      BY <1>0, <2>1, <2>3 DEF Baselined, Walk
    <3> QED
      BY <1>0, <1>1, <2>1, <3>1, <3>2 DEF Pending
  <2> QED
    BY <2>2, <2>3
<1>7. CASE \/ Tick \/ OmitDeadline \/ TickDone \/ LateFinish \/ LateTimeout
           \/ Finish \/ ReporterDies
  <2>1. UNCHANGED <<task, bytes, interval, omitted, row, reported, at, warm>>
    BY <1>7 DEF Tick, OmitDeadline, TickDone, LateFinish, LateTimeout, Finish,
                ReporterDies
  <2>2. Baselined(s)' => Baselined(s)
    <3>1. CASE OmitDeadline
      <4>1. at = 1 /\ rpc' = "take" /\ warm
        BY <3>1 DEF OmitDeadline, ReporterAt, Inv, WalkInv
      <4>2. ~(s < 1)
        BY DEF Streams
      <4> QED
        BY <2>1, <4>1, <4>2 DEF Baselined
    <3>2. CASE ~OmitDeadline
      <4>1. rpc' \notin {"take", "snapshot", "refill", "cross"}
        BY <1>7, <3>2 DEF Tick, TickDone, LateFinish, LateTimeout, Finish,
                          ReporterDies, ReporterAt
      <4> QED
        BY <2>1, <4>1 DEF Baselined
    <3> QED
      BY <3>1, <3>2
  <2> QED
    BY <1>2, <2>1, <2>2
<1>8. CASE Refill \/ Cross
  <2>1. UNCHANGED <<task, bytes, interval, omitted, row, reported>>
    BY <1>8 DEF Refill, Cross
  <2>2. Baselined(s)
    BY <1>8 DEF Refill, Cross, ReporterAt, Baselined
  <2> QED
    BY <1>2, <2>1, <2>2
<1>9. CASE DriverStep \/ Ends \/ Dropped \/ UNCHANGED vars
  <2>1. UNCHANGED <<task, bytes, interval, omitted, row, reported, rpc, at, warm>>
    BY <1>9 DEF DriverStep, Gate, LimitReached, SignalFinish, Join, Ends,
                Dropped, vars
  <2>2. Baselined(s)' => Baselined(s)
    BY <2>1 DEF Baselined
  <2> QED
    BY <1>2, <2>1, <2>2
<1> QED
  BY <1>3, <1>4, <1>5, <1>6, <1>7, <1>8, <1>9, <1>10
  DEF Next, ReporterStep, BoundaryStep

\* The invariant holds in every state of every behaviour.
LEMMA Invariance == Spec => []Inv
<1>1. Inv /\ [Next]_vars => Inv'
  BY StepType, StepWalk, StepAccount DEF Inv
<1> QED
  BY InitInv, <1>1, PTL DEF Spec

\* Every variable keeps its type.
THEOREM TypeCorrect == Spec => []TypeOK
BY Invariance, PTL DEF Inv

\* Past the warm-up the intervals and what is on its way into them account for
\* every net byte of every stream, however the boundary block of
\* spawn_interval_reporter interleaves with record_sent and record_received.
THEOREM EveryByteAccounted == Spec => []NoByteUnaccounted
<1>1. Inv => NoByteUnaccounted
  <2> SUFFICES ASSUME Inv, NEW s \in Streams, ~warm
               PROVE  reported[s] + row[s] + interval[s] + Pending(s) >= Net(s)
    BY DEF NoByteUnaccounted
  <2>1. bytes[s] - omitted[s] <= reported[s] + row[s] + interval[s] + Pending(s)
    BY DEF Inv, AccountInv, Baselined
  <2>2. /\ bytes[s] \in Nat /\ omitted[s] \in Nat /\ omitted[s] <= bytes[s]
        /\ reported[s] \in Nat /\ row[s] \in Nat /\ interval[s] \in Nat
        /\ Pending(s) \in Nat
    BY ConstantsAssumption DEF Inv, AccountInv, TypeOK, Pending
  <2> QED
    BY <2>1, <2>2 DEF Net
<1> QED
  BY <1>1, Invariance, PTL

-----------------------------------------------------------------------------
(* Sums over a finite set.  The induction is on subsets, by the least         *)
(* counterexample of a well-founded order.                                    *)

\* The element a fold takes next, and the recursion of the fold.
Pick(s) == CHOOSE x \in s : TRUE

IsSum(f, g) ==
  g = [s \in SUBSET DOMAIN f |-> IF s = {} THEN 0 ELSE f[Pick(s)] + g[s \ {Pick(s)}]]

LEMMA SumUnfold ==
  ASSUME NEW f
  PROVE  SumOver(f) = (CHOOSE g : IsSum(f, g))[DOMAIN f]
BY DEF SumOver, FoldFunction, FoldFunctionOnSet, MapThenFoldSet, IsSum, Pick

\* Induction on the subsets of a finite set, B being those of which it is known.
LEMMA SubsetInduction ==
  ASSUME NEW D, IsFiniteSet(D), NEW B,
         \A T \in SUBSET D : (\A U \in SUBSET T : U # T => U \in B) => T \in B
  PROVE  \A T \in SUBSET D : T \in B
<1> SUFFICES ASSUME NEW X \in SUBSET D, X \notin B PROVE FALSE
  OBVIOUS
<1> DEFINE Bad == {T \in SUBSET D : T \notin B}
<1>1. IsWellFoundedOn(StrictSubsetOrdering(D), FiniteSubsetsOf(D))
  BY FS_StrictSubsetOrderingWellFounded
<1>2. Bad \subseteq FiniteSubsetsOf(D) /\ Bad # {}
  BY FS_Subset DEF FiniteSubsetsOf
<1>3. \E T \in Bad : \A U \in Bad : ~(<<U, T>> \in StrictSubsetOrdering(D))
  <2> HIDE DEF Bad
  <2> QED BY <1>1, <1>2, WFMin
<1>4. PICK T \in Bad : \A U \in Bad : ~(<<U, T>> \in StrictSubsetOrdering(D))
  BY <1>3
<1>5. ASSUME NEW U \in SUBSET T, U # T PROVE U \in B
  <2>1. U \in SUBSET D /\ T \in SUBSET D BY <1>4, <1>5
  <2>2. <<U, T>> \in StrictSubsetOrdering(D)
    BY <1>5, <2>1 DEF StrictSubsetOrdering
  <2> QED BY <1>4, <2>1, <2>2
<1> QED BY <1>4, <1>5

LEMMA PickIn ==
  ASSUME NEW s, s # {}
  PROVE  Pick(s) \in s
BY DEF Pick

\* g is the partial sum of f over every subset of T.
Sums(f, T, g) ==
  /\ g \in [SUBSET T -> Int]
  /\ \A s \in SUBSET T : g[s] = IF s = {} THEN 0 ELSE f[Pick(s)] + g[s \ {Pick(s)}]

\* Two such functions agree where both are defined.
LEMMA SumsAgree ==
  ASSUME NEW S, IsFiniteSet(S), NEW f, NEW T \in SUBSET S,
         NEW g, NEW h, Sums(f, S, g), Sums(f, T, h)
  PROVE  \A s \in SUBSET T : g[s] = h[s]
<1> DEFINE B == {s \in SUBSET T : g[s] = h[s]}
<1>1. IsFiniteSet(T) BY FS_Subset
<1>2. ASSUME NEW s \in SUBSET T, \A u \in SUBSET s : u # s => u \in B PROVE s \in B
  <2>1. CASE s = {} BY <2>1 DEF Sums
  <2>2. CASE s # {}
    <3>1. Pick(s) \in s BY <2>2, PickIn
    <3>2. s \ {Pick(s)} \in SUBSET s /\ s \ {Pick(s)} # s BY <3>1
    <3>3. g[s \ {Pick(s)}] = h[s \ {Pick(s)}] BY <1>2, <3>2
    <3>4. g[s] = f[Pick(s)] + g[s \ {Pick(s)}] BY <2>2 DEF Sums
    <3>5. h[s] = f[Pick(s)] + h[s \ {Pick(s)}] BY <2>2 DEF Sums
    <3> QED BY <3>3, <3>4, <3>5
  <2> QED BY <2>1, <2>2
<1>3. \A s \in SUBSET T : s \in B
  <2> HIDE DEF B
  <2> QED BY <1>1, <1>2, SubsetInduction
<1> QED BY <1>3

\* There is one on every finite set.
LEMMA SumsExist ==
  ASSUME NEW D, IsFiniteSet(D), NEW f \in [D -> Int]
  PROVE  \A T \in SUBSET D : \E g : Sums(f, T, g)
<1> DEFINE B == {T \in SUBSET D : \E g : Sums(f, T, g)}
           G(T) == CHOOSE g : Sums(f, T, g)
<1>1. ASSUME NEW T \in SUBSET D, \A U \in SUBSET T : U # T => U \in B
      PROVE  T \in B
  <2>1. \A U \in SUBSET T : U # T => Sums(f, U, G(U)) BY <1>1
  <2>2. CASE T = {}
    <3> DEFINE g == [s \in SUBSET T |-> 0]
    <3>1. Sums(f, T, g) BY <2>2 DEF Sums
    <3> HIDE DEF g
    <3> QED BY <3>1
  <2>3. CASE T # {}
    <3> DEFINE p == Pick(T)
               rest == T \ {p}
               g == [s \in SUBSET T |-> IF s = T THEN f[p] + G(rest)[rest] ELSE G(s)[s]]
    <3>1. p \in T /\ rest \in SUBSET T /\ rest # T /\ f[p] \in Int
      <4>1. p \in T BY <2>3, PickIn
      <4>2. p \in D BY <4>1
      <4> HIDE DEF p
      <4> QED BY <4>1, <4>2
    <3>2. ASSUME NEW s \in SUBSET T, s # T, NEW u \in SUBSET s
          PROVE  /\ G(s)[s] \in Int /\ G(s)[u] = G(u)[u]
      <4>1. Sums(f, s, G(s)) /\ Sums(f, u, G(u)) BY <2>1, <3>2
      <4> HIDE DEF G
      <4>2. IsFiniteSet(s) /\ u \in SUBSET s BY <3>2, FS_Subset
      <4> HIDE DEF g, rest, p
      <4>3. ASSUME NEW x, NEW y, x = G(s), y = G(u)
            PROVE  \A v \in SUBSET u : x[v] = y[v]
        BY <4>1, <4>2, <4>3, SumsAgree
      <4>4. \A v \in SUBSET u : G(s)[v] = G(u)[v] BY <4>3
      <4> QED BY <4>1, <4>4 DEF Sums
    <3> HIDE DEF G
    <3>3. g \in [SUBSET T -> Int]
      <4>1. G(rest)[rest] \in Int BY <3>1, <3>2
      <4>2. f[p] + G(rest)[rest] \in Int BY <3>1, <4>1
      <4> QED BY <3>2, <4>2
    <3>4. ASSUME NEW s \in SUBSET T
          PROVE  g[s] = IF s = {} THEN 0 ELSE f[Pick(s)] + g[s \ {Pick(s)}]
      <4>1. CASE s = T
        <5>1. g[rest] = G(rest)[rest] /\ g[s] = f[p] + G(rest)[rest] BY <3>1, <4>1
        <5> QED BY <2>3, <4>1, <5>1
      <4>2. CASE s # T
        <5>1. g[s] = G(s)[s] BY <4>2
        <5>2. Sums(f, s, G(s)) BY <2>1, <4>2 DEF G
        <5>3. CASE s = {} BY <5>1, <5>2, <5>3 DEF Sums
        <5>4. CASE s # {}
          <6> DEFINE u == s \ {Pick(s)}
          <6>1. u \in SUBSET s /\ u # T /\ u \in SUBSET T /\ Pick(s) \in s
            BY <4>2, <5>4, PickIn
          <6>2. g[u] = G(u)[u] BY <6>1
          <6>3. G(s)[u] = G(u)[u] BY <3>2, <4>2, <6>1
          <6>4. G(s)[s] = f[Pick(s)] + G(s)[u] BY <5>2, <5>4 DEF Sums
          <6> QED BY <5>1, <5>4, <6>2, <6>3, <6>4
        <5> QED BY <5>3, <5>4
      <4> QED BY <4>1, <4>2
    <3>5. Sums(f, T, g)
      <4> HIDE DEF g
      <4> QED BY <3>3, <3>4 DEF Sums
    <3> HIDE DEF g
    <3> QED BY <3>5
  <2> QED BY <2>2, <2>3
<1>2. \A T \in SUBSET D : T \in B
  <2> HIDE DEF B
  <2> QED BY <1>1, SubsetInduction
<1> QED BY <1>2

\* The fold is such a function's value at the whole domain.
LEMMA SumIsFold ==
  ASSUME NEW D, IsFiniteSet(D), NEW f \in [D -> Int]
  PROVE  \E g : Sums(f, D, g) /\ SumOver(f) = g[D]
<1>1. \A g : IsSum(f, g) => g = [s \in SUBSET D |-> g[s]] BY DEF IsSum
<1>2. PICK h : Sums(f, D, h) BY SumsExist
<1>3. IsSum(f, h)
  <2>1. DOMAIN f = D OBVIOUS
  <2> QED BY <1>2, <2>1 DEF Sums, IsSum
<1> DEFINE g == CHOOSE g : IsSum(f, g)
<1>4. IsSum(f, g) BY <1>3
<1> HIDE DEF g
<1>5. \A s \in SUBSET D : g[s] = IF s = {} THEN 0 ELSE f[Pick(s)] + g[s \ {Pick(s)}]
  BY <1>4 DEF IsSum
<1>6. \A s \in SUBSET D : g[s] \in Int
  <2> DEFINE B == {s \in SUBSET D : g[s] \in Int}
  <2>1. ASSUME NEW s \in SUBSET D, \A u \in SUBSET s : u # s => u \in B PROVE s \in B
    <3>1. CASE s = {}
      <4>1. g[s] = 0 BY <1>5, <3>1
      <4> QED BY <4>1
    <3>2. CASE s # {}
      <4>1. Pick(s) \in s /\ f[Pick(s)] \in Int
        <5>1. Pick(s) \in s BY <3>2, PickIn
        <5>2. Pick(s) \in D BY <5>1
        <5> QED BY <5>1, <5>2
      <4>2. s \ {Pick(s)} \in SUBSET s /\ s \ {Pick(s)} # s BY <4>1
      <4>3. g[s \ {Pick(s)}] \in Int BY <2>1, <4>2
      <4>4. g[s] = f[Pick(s)] + g[s \ {Pick(s)}] BY <1>5, <3>2
      <4>5. g[s] \in Int BY <4>1, <4>3, <4>4
      <4> QED BY <4>5
    <3> QED BY <3>1, <3>2
  <2>2. \A s \in SUBSET D : s \in B
    <3> HIDE DEF B
    <3> QED BY <2>1, SubsetInduction
  <2> QED BY <2>2
<1>7. Sums(f, D, g)
  <2>1. g = [s \in SUBSET D |-> g[s]] BY <1>1, <1>4
  <2>2. g \in [SUBSET D -> Int] BY <1>6, <2>1
  <2> QED BY <1>5, <2>2 DEF Sums
<1>8. SumOver(f) = g[D] BY SumUnfold DEF g
<1> QED BY <1>7, <1>8

\* A sum grows with its terms.
LEMMA SumMonotone ==
  ASSUME NEW D, IsFiniteSet(D), NEW f \in [D -> Int], NEW h \in [D -> Int],
         \A x \in D : f[x] <= h[x]
  PROVE  /\ SumOver(f) \in Int /\ SumOver(h) \in Int
         /\ SumOver(f) <= SumOver(h)
<1>1. PICK a : Sums(f, D, a) /\ SumOver(f) = a[D] BY SumIsFold
<1>2. PICK b : Sums(h, D, b) /\ SumOver(h) = b[D] BY SumIsFold
<1> DEFINE B == {s \in SUBSET D : a[s] <= b[s]}
<1>3. ASSUME NEW s \in SUBSET D, \A u \in SUBSET s : u # s => u \in B PROVE s \in B
  <2>0. a[s] \in Int /\ b[s] \in Int BY <1>1, <1>2 DEF Sums
  <2>1. CASE s = {}
    <3>1. a[s] = 0 /\ b[s] = 0 BY <1>1, <1>2, <2>1 DEF Sums
    <3> QED BY <3>1
  <2>2. CASE s # {}
    <3> DEFINE p == Pick(s)
               u == s \ {p}
    <3>1. p \in s /\ f[p] \in Int /\ h[p] \in Int /\ f[p] <= h[p]
      <4>1. p \in s BY <2>2, PickIn
      <4>2. p \in D BY <4>1
      <4> HIDE DEF p
      <4> QED BY <4>1, <4>2
    <3>2. u \in SUBSET s /\ u # s /\ u \in SUBSET D BY <3>1
    <3>3. a[u] <= b[u] /\ a[u] \in Int /\ b[u] \in Int BY <1>1, <1>2, <1>3, <3>2 DEF Sums
    <3>4. a[s] = f[p] + a[u] /\ b[s] = h[p] + b[u] BY <1>1, <1>2, <2>2 DEF Sums
    <3> HIDE DEF p, u
    <3> QED BY <3>1, <3>3, <3>4
  <2> QED BY <2>1, <2>2
<1>4. \A s \in SUBSET D : s \in B
  <2> HIDE DEF B
  <2> QED BY <1>3, SubsetInduction
<1>5. a[D] \in Int /\ b[D] \in Int BY <1>1, <1>2 DEF Sums
<1> QED BY <1>1, <1>2, <1>4, <1>5

-----------------------------------------------------------------------------
(* The limit that ended the test. *)

LEMMA StreamsFinite == IsFiniteSet(Streams)
<1>1. 1 \in Int /\ K \in Int BY ConstantsAssumption
<1> QED BY <1>1, FS_Interval DEF Streams

\* What is counted after the test, with the baselines in place, only adds to the
\* reported total.
LEMMA TransferredGrows ==
    ASSUME Inv, Inv', mode' = mode, omitted' = omitted,
           \A s \in Streams : bytes[s] <= bytes'[s]
    PROVE  /\ Transferred \in Int /\ Transferred' \in Int
           /\ Transferred <= Transferred'
<1> DEFINE f == [s \in Streams |-> Net(s)]
           h == [s \in Streams |-> Net(s)']
<1>0. /\ bytes \in [Streams -> Nat] /\ bytes' \in [Streams -> Nat]
      /\ omitted \in [Streams -> Nat]
  BY DEF Inv, TypeOK
<1>1. ASSUME NEW s \in Streams
      PROVE  Net(s) \in Int /\ Net(s)' \in Int /\ Net(s) <= Net(s)'
  <2>1. /\ bytes[s] \in Nat /\ bytes'[s] \in Nat /\ omitted[s] \in Nat
        /\ bytes[s] <= bytes'[s] /\ omitted'[s] = omitted[s]
    BY <1>0
  <2> QED BY <2>1 DEF Net
<1>2. /\ f \in [Streams -> Int] /\ h \in [Streams -> Int]
      /\ \A s \in Streams : f[s] <= h[s]
  BY <1>1
<1>3. /\ SumOver(f) \in Int /\ SumOver(h) \in Int /\ SumOver(f) <= SumOver(h)
  <2> HIDE DEF f, h
  <2> QED BY <1>2, StreamsFinite, SumMonotone
<1>4. /\ bytes \in [Streams -> Int] /\ bytes' \in [Streams -> Int]
  BY <1>0
<1>5. /\ SumOver(bytes) \in Int /\ SumOver(bytes') \in Int
      /\ SumOver(bytes) <= SumOver(bytes')
  BY <1>4, StreamsFinite, SumMonotone
<1>6. Transferred = IF mode.sender THEN SumOver(f) ELSE SumOver(bytes)
  BY DEF Transferred
<1>7. Transferred' = IF mode.sender THEN SumOver(h) ELSE SumOver(bytes')
  BY DEF Transferred
<1> QED BY <1>3, <1>5, <1>6, <1>7

LEMMA InitLimit == Init => LimitInv
BY InitInv DEF Init, LimitInv, GateInv, LimitMeansTarget, Modes

\* The gate and the boundary.
LEMMA StepGate ==
    ASSUME LimitInv, [Next]_vars
    PROVE  GateInv'
<1> USE DEF LimitInv, Inv, WalkInv, GateInv, taskVars, lineVars, reporterVars, driverVars
<1>1. ASSUME NEW s \in Streams, TaskStep(s) \/ TaskFails(s) PROVE GateInv'
  BY <1>1 DEF TaskStep, TaskFails, Claim, CountTotal, CountInterval, TaskStops
<1>2. CASE Emit \/ Flush \/ BoundarySnapshot
  BY <1>2 DEF Emit, Flush, BoundarySnapshot, Walk
<1>3. CASE \/ Tick \/ OmitDeadline \/ TickDone \/ LateFinish \/ LateTimeout
           \/ Finish \/ ReporterDies \/ PrintRows \/ BoundaryTake \/ Refill \/ Cross
  BY <1>3 DEF Tick, OmitDeadline, TickDone, LateFinish, LateTimeout, Finish, ReporterDies,
              PrintRows, BoundaryTake, Refill, Cross, ReporterAt
<1>4. CASE DriverStep \/ Ends \/ Dropped
  BY <1>4 DEF DriverStep, Gate, LimitReached, SignalFinish, Join, Ends, Dropped, DriverAt
<1>5. CASE UNCHANGED vars
  BY <1>5 DEF vars
<1> QED BY <1>1, <1>2, <1>3, <1>4, <1>5 DEF Next, ReporterStep, BoundaryStep

\* The limit, once seen, stays reached.
LEMMA StepLimit ==
    ASSUME LimitInv, [Next]_vars, Inv'
    PROVE  LimitMeansTarget'
<1> USE DEF taskVars, lineVars, reporterVars, driverVars
<1>0. Inv /\ GateInv /\ LimitMeansTarget BY DEF LimitInv
<1>t. Target \in Int BY ConstantsAssumption
<1>1. ASSUME why' = "limit" PROVE mode' = mode /\ omitted' = omitted
  <2>1. CASE BoundarySnapshot
    <3>1. warm /\ rpc = "snapshot" /\ why = "limit"
      BY <1>0, <1>1, <2>1 DEF BoundarySnapshot, Inv, WalkInv
    <3> QED BY <1>0, <3>1 DEF GateInv
  <2>2. CASE ~BoundarySnapshot
    <3>1. ASSUME NEW s \in Streams, TaskStep(s) \/ TaskFails(s)
          PROVE  mode' = mode /\ omitted' = omitted
      BY <3>1 DEF TaskStep, TaskFails, Claim, CountTotal, CountInterval, TaskStops
    <3>2. ASSUME \/ Tick \/ OmitDeadline \/ ReporterStep \/ ReporterDies
                 \/ BoundaryTake \/ Refill \/ Cross
          PROVE  mode' = mode /\ omitted' = omitted
      BY <3>2 DEF Tick, OmitDeadline, ReporterStep, Emit, PrintRows, TickDone, LateFinish, LateTimeout,
                  Finish, Flush, ReporterDies, BoundaryTake, Refill, Cross
    <3>3. ASSUME DriverStep \/ Ends \/ Dropped \/ UNCHANGED vars
          PROVE  mode' = mode /\ omitted' = omitted
      BY <3>3 DEF DriverStep, Gate, LimitReached, SignalFinish, Join, Ends, Dropped, vars
    <3> QED BY <2>2, <3>1, <3>2, <3>3 DEF Next, BoundaryStep
  <2> QED BY <2>1, <2>2
<1>2. \A s \in Streams : bytes[s] <= bytes'[s]
  <2>0. bytes \in [Streams -> Nat] /\ Block \in Nat
    BY <1>0, ConstantsAssumption DEF Inv, TypeOK
  <2>1. bytes' = bytes \/ \E t \in Streams : bytes' = [bytes EXCEPT ![t] = @ + Block]
    BY DEF Next, TaskStep, TaskFails, Claim, CountTotal, CountInterval, TaskStops, Tick,
           OmitDeadline, ReporterStep, Emit, PrintRows, TickDone, LateFinish, LateTimeout, Finish, Flush,
           ReporterDies, BoundaryStep, BoundaryTake, BoundarySnapshot, Refill, Cross,
           DriverStep, Gate, LimitReached, SignalFinish, Join, Ends, Dropped, vars
  <2> QED BY <2>0, <2>1
<1>3. CASE why = "limit"
  <2> SUFFICES ASSUME why' = "limit" PROVE Transferred' >= Target
    BY DEF LimitMeansTarget
  <2>1. Transferred >= Target BY <1>0, <1>3 DEF LimitMeansTarget
  <2>2. Transferred \in Int /\ Transferred' \in Int /\ Transferred <= Transferred'
    BY <1>0, <1>1, <1>2, TransferredGrows
  <2> QED BY <1>t, <2>1, <2>2
<1>4. CASE why # "limit"
  <2>1. CASE LimitReached
    <3>1. Transferred >= Target /\ UNCHANGED <<mode, bytes, omitted>> BY <2>1 DEF LimitReached
    <3>2. Transferred' = Transferred BY <3>1 DEF Transferred, Net
    <3> QED BY <3>1, <3>2 DEF LimitMeansTarget
  <2>2. CASE ~LimitReached
    <3>1. why' # "limit"
      BY <1>4, <2>2 DEF Next, TaskStep, TaskFails, Claim, CountTotal, CountInterval, TaskStops,
           Tick, OmitDeadline, ReporterStep, Emit, PrintRows, TickDone, LateFinish, LateTimeout, Finish,
           Flush, ReporterDies, BoundaryStep, BoundaryTake, BoundarySnapshot, Refill, Cross,
           DriverStep, Gate, SignalFinish, Join, Ends, Dropped, vars
    <3> QED BY <3>1 DEF LimitMeansTarget
  <2> QED BY <2>1, <2>2
<1> QED BY <1>3, <1>4

\* A test that wait_byte_limit ended has moved its target: the total of the end
\* report is never below it, for any number of streams and block size, although
\* the omit boundary moves the baselines the total is net of.
THEOREM LimitTruly == Spec => []LimitMeansTarget
<1>1. LimitInv /\ [Next]_vars => LimitInv'
  <2>1. Inv /\ [Next]_vars => Inv'
    BY StepType, StepWalk, StepAccount DEF Inv
  <2> QED BY <2>1, StepGate, StepLimit DEF LimitInv
<1>2. LimitInv => LimitMeansTarget BY DEF LimitInv
<1> QED BY InitLimit, <1>1, <1>2, PTL DEF Spec
=============================================================================
