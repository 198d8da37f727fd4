--------------------------- MODULE Results_proofs ---------------------------
(***************************************************************************)
(* Proofs about Results: what the documents say of every stream and in     *)
(* every sum, for any set of tests, any number of streams and blocks, and  *)
(* any hosts that can count retransmits.                                   *)
(***************************************************************************)
EXTENDS Results, FiniteSetTheorems, TLAPS

-----------------------------------------------------------------------------
(* Options. *)

IsOption(o) == o = None \/ \E x : o = {x}

LEMMA UnwrapSome == \A x, d : UnwrapOr({x}, d) = x /\ IsSome({x})
BY DEF UnwrapOr, IsSome, None

LEMMA UnwrapNone == \A d : UnwrapOr(None, d) = d /\ ~IsSome(None)
BY DEF UnwrapOr, IsSome, None

\* The number of an option that holds one above zero, else the default.
LEMMA UnwrapPositive ==
    ASSUME NEW n, NEW d
    PROVE  /\ n > 0 => {p \in {n} : p > 0} = {n}
           /\ ~(n > 0) => {p \in {n} : p > 0} = None
BY DEF None

LEMMA FunctionIn ==
    ASSUME NEW S, NEW T, NEW f, f = [x \in S |-> f[x]], \A x \in S : f[x] \in T
    PROVE  f \in [S -> T]
OBVIOUS

-----------------------------------------------------------------------------
(* Sums over finite sets: a fold is the value, at the whole set, of the       *)
(* function of partial sums; induction is by the least set it would fail on.  *)

\* The element a fold takes next, and the recursion of the fold.
Pick(s) == CHOOSE x \in s : TRUE
IsSum(f, g) ==
  g = [s \in SUBSET DOMAIN f |-> IF s = {} THEN 0 ELSE f[Pick(s)] + g[s \ {Pick(s)}]]

LEMMA SumUnfold == ASSUME NEW f PROVE SumFunction(f) = (CHOOSE g : IsSum(f, g))[DOMAIN f]
BY DEF SumFunction, SumFunctionOnSet, FoldFunctionOnSet, MapThenFoldSet, IsSum, Pick

\* Induction on the subsets of a finite set, B being those of which it is known.
LEMMA SubsetInduction ==
  ASSUME NEW D, IsFiniteSet(D), NEW B,
         \A T \in SUBSET D : (\A U \in SUBSET T : U # T => U \in B) => T \in B
  PROVE  \A T \in SUBSET D : T \in B
<1> SUFFICES ASSUME NEW X \in SUBSET D, X \notin B PROVE FALSE
  OBVIOUS
<1> DEFINE Bad == {T \in SUBSET D : T \notin B}
<1>1. IsWellFoundedOn(StrictSubsetOrdering(D), FiniteSubsetsOf(D))
  BY FS_StrictSubsetOrderingWellFounded
<1>2. Bad \subseteq FiniteSubsetsOf(D) /\ Bad # {}
  BY FS_Subset DEF FiniteSubsetsOf
<1>3. \E T \in Bad : \A U \in Bad : ~(<<U, T>> \in StrictSubsetOrdering(D))
  <2> HIDE DEF Bad
  <2> QED BY <1>1, <1>2, WFMin
<1>4. PICK T \in Bad : \A U \in Bad : ~(<<U, T>> \in StrictSubsetOrdering(D))
  BY <1>3
<1>5. ASSUME NEW U \in SUBSET T, U # T PROVE U \in B
  <2>1. U \in SUBSET D /\ T \in SUBSET D
    BY <1>4, <1>5
  <2>2. <<U, T>> \in StrictSubsetOrdering(D)
    BY <1>5, <2>1 DEF StrictSubsetOrdering
  <2> QED BY <1>4, <2>1, <2>2
<1> QED BY <1>4, <1>5

\* What an element is picked from.
LEMMA PickIn == ASSUME NEW s, s # {} PROVE Pick(s) \in s
BY DEF Pick

\* g is the partial sum of f over every subset of T.
PartialSums(f, T, g) ==
  /\ g \in [SUBSET T -> Int]
  /\ \A s \in SUBSET T : g[s] = IF s = {} THEN 0 ELSE f[Pick(s)] + g[s \ {Pick(s)}]

\* Two such functions agree where both are defined.
LEMMA SumsAgree ==
  ASSUME NEW S, IsFiniteSet(S), NEW f, NEW T \in SUBSET S,
         NEW g, NEW h, PartialSums(f, S, g), PartialSums(f, T, h)
  PROVE  \A s \in SUBSET T : g[s] = h[s]
<1> DEFINE B == {s \in SUBSET T : g[s] = h[s]}
<1>1. IsFiniteSet(T)
  BY FS_Subset
<1>2. ASSUME NEW s \in SUBSET T, \A u \in SUBSET s : u # s => u \in B PROVE s \in B
  <2>1. CASE s = {}
    BY <2>1 DEF PartialSums
  <2>2. CASE s # {}
    <3>1. Pick(s) \in s
      BY <2>2, PickIn
    <3>2. s \ {Pick(s)} \in SUBSET s /\ s \ {Pick(s)} # s
      BY <3>1
    <3>3. g[s \ {Pick(s)}] = h[s \ {Pick(s)}]
      BY <1>2, <3>2
    <3>4. g[s] = f[Pick(s)] + g[s \ {Pick(s)}]
      BY <2>2 DEF PartialSums
    <3>5. h[s] = f[Pick(s)] + h[s \ {Pick(s)}]
      BY <2>2 DEF PartialSums
    <3> QED BY <3>3, <3>4, <3>5
  <2> QED BY <2>1, <2>2
<1>3. \A s \in SUBSET T : s \in B
  <2> HIDE DEF B
  <2> QED BY <1>1, <1>2, SubsetInduction
<1> QED BY <1>3

\* There is one on every finite set.
LEMMA SumsExist ==
  ASSUME NEW D, IsFiniteSet(D), NEW f \in [D -> Int]
  PROVE  \A T \in SUBSET D : \E g : PartialSums(f, T, g)
<1> DEFINE B == {T \in SUBSET D : \E g : PartialSums(f, T, g)}
           G(T) == CHOOSE g : PartialSums(f, T, g)
<1>1. ASSUME NEW T \in SUBSET D, \A U \in SUBSET T : U # T => U \in B
      PROVE  T \in B
  <2>1. \A U \in SUBSET T : U # T => PartialSums(f, U, G(U))
    BY <1>1
  <2>2. CASE T = {}
    <3> DEFINE g == [s \in SUBSET T |-> 0]
    <3>1. PartialSums(f, T, g)
      BY <2>2 DEF PartialSums
    <3> HIDE DEF g
    <3> QED BY <3>1
  <2>3. CASE T # {}
    <3> DEFINE p == Pick(T)
               rest == T \ {p}
               g == [s \in SUBSET T |-> IF s = T THEN f[p] + G(rest)[rest] ELSE G(s)[s]]
    <3>1. p \in T /\ rest \in SUBSET T /\ rest # T /\ f[p] \in Int
      <4>1. p \in T
        BY <2>3, PickIn
      <4>2. p \in D
        BY <4>1
      <4> HIDE DEF p
      <4> QED BY <4>1, <4>2
    <3>2. ASSUME NEW s \in SUBSET T, s # T, NEW u \in SUBSET s
          PROVE  /\ G(s)[s] \in Int /\ G(s)[u] = G(u)[u]
      <4>1. PartialSums(f, s, G(s)) /\ PartialSums(f, u, G(u))
        BY <2>1, <3>2
      <4> HIDE DEF G
      <4>2. IsFiniteSet(s) /\ u \in SUBSET s
        BY <3>2, FS_Subset
      <4> HIDE DEF g, rest, p
      <4>3. ASSUME NEW x, NEW y, x = G(s), y = G(u)
            PROVE  \A v \in SUBSET u : x[v] = y[v]
        BY <4>1, <4>2, <4>3, SumsAgree
      <4>4. \A v \in SUBSET u : G(s)[v] = G(u)[v]
        BY <4>3
      <4> QED BY <4>1, <4>4 DEF PartialSums
    <3> HIDE DEF G
    <3>3. g \in [SUBSET T -> Int]
      <4>1. G(rest)[rest] \in Int
        BY <3>1, <3>2
      <4>2. f[p] + G(rest)[rest] \in Int
        BY <3>1, <4>1
      <4> QED BY <3>2, <4>2
    <3>4. ASSUME NEW s \in SUBSET T
          PROVE  g[s] = IF s = {} THEN 0 ELSE f[Pick(s)] + g[s \ {Pick(s)}]
      <4>1. CASE s = T
        <5>1. g[rest] = G(rest)[rest] /\ g[s] = f[p] + G(rest)[rest]
          BY <3>1, <4>1
        <5> QED BY <2>3, <4>1, <5>1
      <4>2. CASE s # T
        <5>1. g[s] = G(s)[s]
          BY <4>2
        <5>2. PartialSums(f, s, G(s))
          BY <2>1, <4>2 DEF G
        <5>3. CASE s = {}
          BY <5>1, <5>2, <5>3 DEF PartialSums
        <5>4. CASE s # {}
          <6> DEFINE u == s \ {Pick(s)}
          <6>1. u \in SUBSET s /\ u # T /\ u \in SUBSET T /\ Pick(s) \in s
            BY <4>2, <5>4, PickIn
          <6>2. g[u] = G(u)[u]
            BY <6>1
          <6>3. G(s)[u] = G(u)[u]
            BY <3>2, <4>2, <6>1
          <6>4. G(s)[s] = f[Pick(s)] + G(s)[u]
            BY <5>2, <5>4 DEF PartialSums
          <6> QED BY <5>1, <5>4, <6>2, <6>3, <6>4
        <5> QED BY <5>3, <5>4
      <4> QED BY <4>1, <4>2
    <3>5. PartialSums(f, T, g)
      <4> HIDE DEF g
      <4> QED BY <3>3, <3>4 DEF PartialSums
    <3> HIDE DEF g
    <3> QED BY <3>5
  <2> QED BY <2>2, <2>3
<1>2. \A T \in SUBSET D : T \in B
  <2> HIDE DEF B
  <2> QED BY <1>1, SubsetInduction
<1> QED BY <1>2

\* The fold is such a function's value at the whole domain.
LEMMA SumIsFold ==
  ASSUME NEW D, IsFiniteSet(D), NEW f \in [D -> Int]
  PROVE  \E g : PartialSums(f, D, g) /\ SumFunction(f) = g[D]
<1>1. \A g : IsSum(f, g) => g = [s \in SUBSET D |-> g[s]]
  BY DEF IsSum
<1>2. PICK h : PartialSums(f, D, h)
  BY SumsExist
<1>3. IsSum(f, h)
  <2>1. DOMAIN f = D
    OBVIOUS
  <2> QED BY <1>2, <2>1 DEF PartialSums, IsSum
<1> DEFINE g == CHOOSE g : IsSum(f, g)
<1>4. IsSum(f, g)
  BY <1>3
<1> HIDE DEF g
<1>5. \A s \in SUBSET D : g[s] = IF s = {} THEN 0 ELSE f[Pick(s)] + g[s \ {Pick(s)}]
  BY <1>4 DEF IsSum
<1>6. \A s \in SUBSET D : g[s] \in Int
  <2> DEFINE B == {s \in SUBSET D : g[s] \in Int}
  <2>1. ASSUME NEW s \in SUBSET D, \A u \in SUBSET s : u # s => u \in B PROVE s \in B
    <3>1. CASE s = {}
      <4>1. g[s] = 0
        BY <1>5, <3>1
      <4> QED BY <4>1
    <3>2. CASE s # {}
      <4>1. Pick(s) \in s /\ f[Pick(s)] \in Int
        <5>1. Pick(s) \in s
          BY <3>2, PickIn
        <5>2. Pick(s) \in D
          BY <5>1
        <5> QED BY <5>1, <5>2
      <4>2. s \ {Pick(s)} \in SUBSET s /\ s \ {Pick(s)} # s
        BY <4>1
      <4>3. g[s \ {Pick(s)}] \in Int
        BY <2>1, <4>2
      <4>4. g[s] = f[Pick(s)] + g[s \ {Pick(s)}]
        BY <1>5, <3>2
      <4>5. g[s] \in Int
        BY <4>1, <4>3, <4>4
      <4> QED BY <4>5
    <3> QED BY <3>1, <3>2
  <2>2. \A s \in SUBSET D : s \in B
    <3> HIDE DEF B
    <3> QED BY <2>1, SubsetInduction
  <2> QED BY <2>2
<1>7. PartialSums(f, D, g)
  <2>1. g = [s \in SUBSET D |-> g[s]]
    BY <1>1, <1>4
  <2>2. g \in [SUBSET D -> Int]
    BY <1>6, <2>1
  <2> QED BY <1>5, <2>2 DEF PartialSums
<1>8. SumFunction(f) = g[D]
  BY SumUnfold DEF g
<1> QED BY <1>7, <1>8

\* A sum grows with its terms.
LEMMA SumMonotone ==
  ASSUME NEW D, IsFiniteSet(D), NEW f \in [D -> Int], NEW h \in [D -> Int],
         \A x \in D : f[x] <= h[x]
  PROVE  /\ SumFunction(f) \in Int /\ SumFunction(h) \in Int
         /\ SumFunction(f) <= SumFunction(h)
<1>1. PICK a : PartialSums(f, D, a) /\ SumFunction(f) = a[D]
  BY SumIsFold
<1>2. PICK b : PartialSums(h, D, b) /\ SumFunction(h) = b[D]
  BY SumIsFold
<1> DEFINE B == {s \in SUBSET D : a[s] <= b[s]}
<1>3. ASSUME NEW s \in SUBSET D, \A u \in SUBSET s : u # s => u \in B PROVE s \in B
  <2>0. a[s] \in Int /\ b[s] \in Int
    BY <1>1, <1>2 DEF PartialSums
  <2>1. CASE s = {}
    <3>1. a[s] = 0 /\ b[s] = 0
      BY <1>1, <1>2, <2>1 DEF PartialSums
    <3> QED BY <3>1
  <2>2. CASE s # {}
    <3> DEFINE p == Pick(s)
               u == s \ {p}
    <3>1. p \in s /\ f[p] \in Int /\ h[p] \in Int /\ f[p] <= h[p]
      <4>1. p \in s
        BY <2>2, PickIn
      <4>2. p \in D
        BY <4>1
      <4> HIDE DEF p
      <4> QED BY <4>1, <4>2
    <3>2. u \in SUBSET s /\ u # s /\ u \in SUBSET D
      BY <3>1
    <3>3. a[u] <= b[u] /\ a[u] \in Int /\ b[u] \in Int
      BY <1>1, <1>2, <1>3, <3>2 DEF PartialSums
    <3>4. a[s] = f[p] + a[u] /\ b[s] = h[p] + b[u]
      BY <1>1, <1>2, <2>2 DEF PartialSums
    <3> HIDE DEF p, u
    <3> QED BY <3>1, <3>3, <3>4
  <2> QED BY <2>1, <2>2
<1>4. \A s \in SUBSET D : s \in B
  <2> HIDE DEF B
  <2> QED BY <1>3, SubsetInduction
<1>5. a[D] \in Int /\ b[D] \in Int
  BY <1>1, <1>2 DEF PartialSums
<1> QED BY <1>1, <1>2, <1>4, <1>5

LEMMA OneMoreTime ==
  ASSUME NEW n \in Nat, NEW c \in Nat
  PROVE  n * c \in Nat /\ (n - 1) * c \in Int /\ n * c = (n - 1) * c + c
OBVIOUS

\* A sum exceeds another over the same set by no more than its terms do.
LEMMA SumWithin ==
  ASSUME NEW D, IsFiniteSet(D), NEW f \in [D -> Int], NEW h \in [D -> Int],
         NEW c \in Nat, \A x \in D : f[x] <= h[x] + c
  PROVE  SumFunction(f) <= SumFunction(h) + Cardinality(D) * c
<1>1. PICK a : PartialSums(f, D, a) /\ SumFunction(f) = a[D]
  BY SumIsFold
<1>2. PICK b : PartialSums(h, D, b) /\ SumFunction(h) = b[D]
  BY SumIsFold
<1> DEFINE B == {s \in SUBSET D : a[s] <= b[s] + Cardinality(s) * c}
<1>3. ASSUME NEW s \in SUBSET D, \A u \in SUBSET s : u # s => u \in B PROVE s \in B
  <2>0. a[s] \in Int /\ b[s] \in Int
    BY <1>1, <1>2 DEF PartialSums
  <2>1. CASE s = {}
    <3>1. a[s] = 0 /\ b[s] = 0 /\ Cardinality(s) = 0
      BY <1>1, <1>2, <2>1, FS_EmptySet DEF PartialSums
    <3> QED BY <3>1
  <2>2. CASE s # {}
    <3> DEFINE p == Pick(s)
               u == s \ {p}
    <3>1. p \in s /\ f[p] \in Int /\ h[p] \in Int /\ f[p] <= h[p] + c
      <4>1. p \in s
        BY <2>2, PickIn
      <4>2. p \in D
        BY <4>1
      <4> HIDE DEF p
      <4> QED BY <4>1, <4>2
    <3>2. u \in SUBSET s /\ u # s /\ u \in SUBSET D
      BY <3>1
    <3>3. /\ a[u] <= b[u] + Cardinality(u) * c
          /\ a[u] \in Int /\ b[u] \in Int
      BY <1>1, <1>2, <1>3, <3>2 DEF PartialSums
    <3>4. a[s] = f[p] + a[u] /\ b[s] = h[p] + b[u]
      BY <1>1, <1>2, <2>2 DEF PartialSums
    <3>5. Cardinality(s) \in Nat /\ Cardinality(u) = Cardinality(s) - 1
      BY <3>1, FS_Subset, FS_CardinalityType, FS_RemoveElement
    <3>6. PICK k, j : /\ k = Cardinality(s) * c /\ j = Cardinality(u) * c
                      /\ k \in Int /\ j \in Int /\ k = j + c
      <4>1. PICK n \in Nat : n = Cardinality(s)
        BY <3>5
      <4>2. Cardinality(u) * c = (n - 1) * c
        BY <3>5, <4>1
      <4>3. n * c \in Int /\ (n - 1) * c \in Int /\ n * c = (n - 1) * c + c
        BY OneMoreTime
      <4> QED BY <4>1, <4>2, <4>3
    <3> HIDE DEF p, u, B
    <3>7. a[s] <= b[s] + k
      BY <3>1, <3>3, <3>4, <3>6
    <3> QED BY <3>6, <3>7 DEF B
  <2> QED BY <2>1, <2>2
<1>4. \A s \in SUBSET D : s \in B
  <2> HIDE DEF B
  <2> QED BY <1>3, SubsetInduction
<1> QED BY <1>1, <1>2, <1>4

\* A sum of zeros, the empty one included, is zero.
LEMMA SumOfZeros ==
  ASSUME NEW D, IsFiniteSet(D), NEW f \in [D -> Int], \A x \in D : f[x] = 0
  PROVE  SumFunction(f) = 0
<1>1. PICK a : PartialSums(f, D, a) /\ SumFunction(f) = a[D]
  BY SumIsFold
<1> DEFINE B == {s \in SUBSET D : a[s] = 0}
<1>2. ASSUME NEW s \in SUBSET D, \A u \in SUBSET s : u # s => u \in B
      PROVE  s \in B
  <2>1. CASE s = {}
    BY <1>1, <2>1 DEF PartialSums
  <2>2. CASE s # {}
    <3>1. Pick(s) \in s
      BY <2>2, PickIn
    <3>2. s \ {Pick(s)} \in SUBSET s /\ s \ {Pick(s)} # s /\ f[Pick(s)] = 0
      BY <3>1
    <3>3. a[s \ {Pick(s)}] = 0
      BY <1>2, <3>2
    <3>4. a[s] = f[Pick(s)] + a[s \ {Pick(s)}]
      BY <1>1, <2>2 DEF PartialSums
    <3> QED BY <3>2, <3>3, <3>4
  <2> QED BY <2>1, <2>2
<1>3. \A s \in SUBSET D : s \in B
  <2> HIDE DEF B
  <2> QED BY <1>2, SubsetInduction
<1> QED BY <1>1, <1>3

\* A sum without negative terms is not negative.
LEMMA SumOfNaturals ==
  ASSUME NEW D, IsFiniteSet(D), NEW f \in [D -> Nat]
  PROVE  SumFunction(f) \in Nat
<1> DEFINE zero == [x \in D |-> 0]
<1>1. f \in [D -> Int] /\ zero \in [D -> Int] /\ \A x \in D : zero[x] <= f[x]
  OBVIOUS
<1>2. SumFunction(zero) = 0
  <2>1. \A x \in D : zero[x] = 0
    OBVIOUS
  <2> HIDE DEF zero
  <2> QED BY <1>1, <2>1, SumOfZeros
<1>3. SumFunction(f) \in Int /\ SumFunction(zero) <= SumFunction(f)
  <2> HIDE DEF zero
  <2> QED BY <1>1, SumMonotone
<1> QED BY <1>2, <1>3

-----------------------------------------------------------------------------
(* The documents, one stream at a time. *)

\* What Build makes of its input, but for the sums.
LEMMA BuildShape ==
    ASSUME NEW in
    PROVE  /\ Build(in).input = in /\ Build(in).error = in.error
           /\ Build(in).streams =
                 [i \in DOMAIN in.streams |->
                    IF in.udp THEN UdpEndStream(in, in.streams[i])
                    ELSE TcpEndStream(in, in.streams[i])]
           /\ \A e : /\ [Build(in) EXCEPT !.error = e].streams = Build(in).streams
                     /\ [Build(in) EXCEPT !.error = e].input = in
                     /\ [Build(in) EXCEPT !.error = e].error = e
                     /\ [Build(in) EXCEPT !.error = e].sums = Build(in).sums
           /\ [Build(in) EXCEPT !.error = in.error] = Build(in)
BY DEF Build

\* The entry of a stream in a document whose input is in.
LEMMA EntryOf ==
    ASSUME NEW remote, NEW bare, NEW error, NEW s \in Streams
    PROVE  LET in == ClientInput(remote, bare, error)
           IN  Build(in).streams[s] =
                 IF test.udp THEN UdpEndStream(in, ClientStream(s, remote))
                 ELSE TcpEndStream(in, ClientStream(s, remote))
<1> DEFINE in == ClientInput(remote, bare, error)
<1>1. /\ in.udp = test.udp /\ in.streams = [t \in Streams |-> ClientStream(t, remote)]
  BY DEF ClientInput
<1>2. Build(in).streams = [i \in DOMAIN in.streams |->
                              IF in.udp THEN UdpEndStream(in, in.streams[i])
                              ELSE TcpEndStream(in, in.streams[i])]
  BY BuildShape
<1> HIDE DEF in
<1>3. DOMAIN in.streams = Streams /\ in.streams[s] = ClientStream(s, remote)
  BY <1>1
<1>4. Build(in).streams[s] = IF in.udp THEN UdpEndStream(in, in.streams[s])
                             ELSE TcpEndStream(in, in.streams[s])
  BY <1>2, <1>3
<1> QED BY <1>1, <1>3, <1>4 DEF in

\* The client's view of one stream: what it counted itself,
LEMMA ClientStreamShape ==
    ASSUME NEW s, NEW remote
    PROVE  LET c == ClientStream(s, remote)
           IN  /\ c.is_sender = IsSender("client", s)
               /\ c.local_bytes = LocalBytesOf("client", s)
               /\ c.datagrams_sent = Then(test.udp /\ c.is_sender, DatagramsNet(s))
               /\ test.udp /\ ~c.is_sender => c.udp = Some(MeasuredUdp(s))
BY DEF ClientStream

\* what it lacks without the server's results,
LEMMA ClientStreamUntold ==
    ASSUME NEW s, NEW remote, remote = None
    PROVE  LET c == ClientStream(s, remote)
           IN  /\ c.remote_bytes = None /\ c.remote_packets = None
               /\ test.udp /\ IsSender("client", s) => c.udp = None
BY DEF ClientStream, None

\* and what they add.
LEMMA ClientStreamTold ==
    ASSUME NEW s, NEW remote, NEW r, remote = {r}
    PROVE  LET c == ClientStream(s, remote)
               x == r.streams[s]
               o == PeerOmitted(x, LocalOmitted("client", s))
           IN  /\ c.remote_bytes = {x.bytes}
               /\ c.remote_packets = {x.packets - o.packets}
               /\ test.udp /\ IsSender("client", s) =>
                     c.udp = {[lost |-> x.errors - o.errors,
                               packets |-> x.packets - o.packets]}
BY DEF ClientStream

\* A UDP stream the client sends: its own count of bytes and datagrams, the
\* loss the server's results tell, in the document and in the text.
LEMMA SentEntry ==
    ASSUME NEW remote, NEW bare, NEW error, NEW s \in Streams,
           test.udp, IsSender("client", s), IsOption(remote)
    PROVE  LET e == Build(ClientInput(remote, bare, error)).streams[s]
               t == TextPair(s, remote)
           IN  /\ e.bytes = LocalBytesOf("client", s)
               /\ t.sender.bytes = LocalBytesOf("client", s)
               /\ e.percent_of = DatagramsNet(s)
               /\ e.lost = UnwrapOr(ClientStream(s, remote).udp, NoStats).lost
               /\ t.receiver.lost = UnwrapOr(ClientStream(s, remote).udp, NoStats).lost
<1> DEFINE c == ClientStream(s, remote)
           in == ClientInput(remote, bare, error)
           e == Build(in).streams[s]
           t == TextPair(s, remote)
<1>1. e = UdpEndStream(in, c)
  BY EntryOf
<1>2. /\ c.is_sender /\ c.local_bytes = LocalBytesOf("client", s)
      /\ c.datagrams_sent = {DatagramsNet(s)}
  BY ClientStreamShape DEF Then
<1>3. /\ e.bytes = c.local_bytes /\ e.percent_of = SentDatagrams(c)
      /\ e.lost = UnwrapOr(c.udp, NoStats).lost
  <2> HIDE DEF c, in
  <2> QED BY <1>1, <1>2 DEF UdpEndStream
<1>4. SentDatagrams(c) = DatagramsNet(s)
  BY <1>2, UnwrapSome DEF SentDatagrams
<1>5. t.sender.bytes = LocalBytesOf("client", s)
  BY DEF TextPair
<1>6. CASE remote = None
  <2>1. UnwrapOr(c.udp, NoStats) = NoStats
    BY <1>6, ClientStreamUntold, UnwrapNone
  <2>2. t.receiver = ZeroHalf
    BY <1>6, UnwrapNone DEF TextPair, None
  <2> QED BY <1>2, <1>3, <1>4, <1>5, <2>1, <2>2 DEF NoStats, ZeroHalf
<1>7. CASE \E r : remote = {r}
  <2> PICK r : remote = {r}
    BY <1>7
  <2> DEFINE x == r.streams[s]
             o == PeerOmitted(x, LocalOmitted("client", s))
  <2>1. c.udp = {[lost |-> x.errors - o.errors, packets |-> x.packets - o.packets]}
    BY ClientStreamTold
  <2>2. UnwrapOr(c.udp, NoStats)
            = [lost |-> x.errors - o.errors, packets |-> x.packets - o.packets]
    BY <2>1, UnwrapSome
  <2>3. t.receiver = PeerHalf(x, FALSE, LocalOmitted("client", s))
    <3> DEFINE h == PeerHalf(x, ~IsSender("client", s), LocalOmitted("client", s))
    <3>1. {PeerHalf(q.streams[s], ~IsSender("client", s), LocalOmitted("client", s)) :
              q \in remote} = {h}
      OBVIOUS
    <3>2. t.receiver = h
      BY <3>1, UnwrapSome DEF TextPair
    <3>3. h = PeerHalf(x, FALSE, LocalOmitted("client", s))
      BY DEF PeerHalf
    <3> QED BY <3>2, <3>3
  <2>4. t.receiver.lost = UnwrapOr(c.udp, NoStats).lost
    BY <2>2, <2>3 DEF PeerHalf
  <2> QED BY <1>2, <1>3, <1>4, <1>5, <2>4
<1> QED BY <1>6, <1>7 DEF IsOption

\* A UDP stream the client receives: the loss it measured; the bytes and the
\* percentage only from the server's results, and only without an error.
LEMMA ReceivedEntry ==
    ASSUME NEW remote, NEW bare, NEW error, NEW s \in Streams,
           test.udp, ~IsSender("client", s)
    PROVE  LET e == Build(ClientInput(remote, bare, error)).streams[s]
               t == TextPair(s, remote)
           IN  /\ e.lost = MeasuredUdp(s).lost /\ t.receiver.lost = MeasuredUdp(s).lost
               /\ error # None => e.bytes = 0 /\ e.percent_of = 0
               /\ remote = None => t.sender.bytes = 0
<1> DEFINE c == ClientStream(s, remote)
           in == ClientInput(remote, bare, error)
           e == Build(in).streams[s]
           t == TextPair(s, remote)
<1>1. e = UdpEndStream(in, c) /\ in.error = error /\ in.is_server = FALSE
  BY EntryOf DEF ClientInput
<1>2. ~c.is_sender /\ c.udp = {MeasuredUdp(s)}
  BY ClientStreamShape DEF Some
<1>3. e.lost = UnwrapOr(c.udp, NoStats).lost
  <2> HIDE DEF c, in
  <2> QED BY <1>1, <1>2 DEF UdpEndStream
<1>4. e.lost = MeasuredUdp(s).lost /\ t.receiver.lost = MeasuredUdp(s).lost
  BY <1>2, <1>3, UnwrapSome DEF TextPair
<1>5. ASSUME error # None PROVE e.bytes = 0 /\ e.percent_of = 0
  <2> HIDE DEF c, in
  <2> QED BY <1>1, <1>2, <1>5 DEF UdpEndStream, IsSome
<1>6. ASSUME remote = None PROVE t.sender.bytes = 0
  <2>1. t.sender = ZeroHalf
    BY <1>6, UnwrapNone DEF TextPair, None
  <2> QED BY <2>1 DEF ZeroHalf
<1> QED BY <1>4, <1>5, <1>6

\* The datagrams the results r claim were sent on stream s.
Claimed(r, s) ==
    r.streams[s].packets
      - PeerOmitted(r.streams[s], LocalOmitted("client", s)).packets

LEMMA ReceivedEntryTold ==
    ASSUME NEW remote, NEW bare, NEW error, NEW s \in Streams,
           test.udp, ~IsSender("client", s), NEW r, remote = {r}
    PROVE  LET e == Build(ClientInput(remote, bare, error)).streams[s]
           IN  /\ TextPair(s, remote).sender.bytes = r.streams[s].bytes
               /\ error = None => e.bytes = r.streams[s].bytes
               /\ error = None =>
                    e.percent_of = IF Claimed(r, s) > 0 THEN Claimed(r, s)
                                   ELSE IF r.streams[s].bytes > 0
                                   THEN r.streams[s].bytes ELSE 0
<1> DEFINE c == ClientStream(s, remote)
           in == ClientInput(remote, bare, error)
           e == Build(in).streams[s]
           x == r.streams[s]
           n == Claimed(r, s)
<1>1. e = UdpEndStream(in, c) /\ in.error = error /\ in.is_server = FALSE
  BY EntryOf DEF ClientInput
<1>2. ~c.is_sender /\ c.udp = {MeasuredUdp(s)}
  BY ClientStreamShape DEF Some
<1>3. c.remote_bytes = {x.bytes} /\ c.remote_packets = {n}
  BY ClientStreamTold DEF Claimed
<1>4. TextPair(s, remote).sender = PeerHalf(x, TRUE, LocalOmitted("client", s))
  <2> DEFINE h == PeerHalf(x, ~IsSender("client", s), LocalOmitted("client", s))
  <2>1. {PeerHalf(q.streams[s], ~IsSender("client", s), LocalOmitted("client", s)) :
            q \in remote} = {h}
    OBVIOUS
  <2>2. TextPair(s, remote).sender = h
    BY <2>1, UnwrapSome DEF TextPair
  <2>3. h = PeerHalf(x, TRUE, LocalOmitted("client", s))
    BY DEF PeerHalf
  <2> QED BY <2>2, <2>3
<1>5. TextPair(s, remote).sender.bytes = x.bytes
  BY <1>4 DEF PeerHalf
<1>6. UnwrapOr(c.remote_bytes, c.local_bytes) = x.bytes
  BY <1>3, UnwrapSome
<1>7. ASSUME error = None, n > 0 PROVE e.bytes = x.bytes /\ e.percent_of = n
  <2> HIDE DEF c, in, n
  <2>1. {p \in c.remote_packets : p > 0} = {n}
    BY <1>3, <1>7, UnwrapPositive
  <2>2. UnwrapOr({p \in c.remote_packets : p > 0}, 0) = n
        /\ IsSome({p \in c.remote_packets : p > 0}) /\ ~IsSome(in.error)
    BY <1>1, <1>7, <2>1, UnwrapSome, UnwrapNone
  <2> QED BY <1>1, <1>2, <1>6, <2>2 DEF UdpEndStream
<1>8. ASSUME error = None, ~(n > 0)
      PROVE  e.bytes = x.bytes
             /\ e.percent_of = IF x.bytes > 0 THEN x.bytes ELSE 0
  <2> HIDE DEF c, in, n
  <2>1. {p \in c.remote_packets : p > 0} = None
    BY <1>3, <1>8, UnwrapPositive
  <2>2. ~IsSome({p \in c.remote_packets : p > 0}) /\ ~IsSome(in.error)
    BY <1>1, <1>8, <2>1, UnwrapNone
  <2> QED BY <1>1, <1>2, <1>6, <2>2 DEF UdpEndStream
<1> QED BY <1>5, <1>7, <1>8

\* A TCP stream of the client: its own half, and the server's or zero.
LEMMA TcpEntry ==
    ASSUME NEW remote, NEW bare, NEW error, NEW s \in Streams, ~test.udp
    PROVE  LET e == Build(ClientInput(remote, bare, error)).streams[s]
               t == TextPair(s, remote)
               own == LocalBytesOf("client", s)
               sends == IsSender("client", s)
           IN  /\ (IF sends THEN e.sender ELSE e.receiver) = own
               /\ (IF sends THEN t.sender.bytes ELSE t.receiver.bytes) = own
               /\ remote = None /\ error # None =>
                    (IF sends THEN e.receiver ELSE e.sender) = 0
               /\ remote = None =>
                    (IF sends THEN t.receiver.bytes ELSE t.sender.bytes) = 0
               /\ \A r : remote = {r} =>
                    /\ (IF sends THEN e.receiver ELSE e.sender) = r.streams[s].bytes
                    /\ (IF sends THEN t.receiver.bytes ELSE t.sender.bytes)
                          = r.streams[s].bytes
<1> DEFINE c == ClientStream(s, remote)
           in == ClientInput(remote, bare, error)
           e == Build(in).streams[s]
           t == TextPair(s, remote)
           own == LocalBytesOf("client", s)
           sends == IsSender("client", s)
           peer == Graft(in, c.remote_bytes, own)
           half(q) == PeerHalf(q.streams[s], ~sends, LocalOmitted("client", s))
<1>1. e = TcpEndStream(in, c) /\ in.error = error /\ in.is_server = FALSE
  BY EntryOf DEF ClientInput
<1>2. c.is_sender = sends /\ c.local_bytes = own
  BY ClientStreamShape
<1>3. /\ (IF sends THEN e.sender ELSE e.receiver) = own
      /\ (IF sends THEN e.receiver ELSE e.sender) = peer
  <2> HIDE DEF c, in, own, sends
  <2> QED BY <1>1, <1>2 DEF TcpEndStream
<1>4. (IF sends THEN t.sender.bytes ELSE t.receiver.bytes) = own
  BY DEF TextPair
<1>5. remote = None /\ error # None => peer = 0
  <2>1. remote = None => c.remote_bytes = None
    BY ClientStreamUntold
  <2> HIDE DEF c, in
  <2> QED BY <1>1, <2>1, UnwrapNone DEF Graft, IsSome
<1>6. remote = None => (IF sends THEN t.receiver.bytes ELSE t.sender.bytes) = 0
  BY UnwrapNone DEF TextPair, None, ZeroHalf
<1>7. ASSUME NEW r, remote = {r}
      PROVE  /\ peer = r.streams[s].bytes
             /\ (IF sends THEN t.receiver.bytes ELSE t.sender.bytes)
                    = r.streams[s].bytes
  <2>1. c.remote_bytes = {r.streams[s].bytes}
    BY <1>7, ClientStreamTold
  <2>2. peer = r.streams[s].bytes
    BY <2>1, UnwrapSome DEF Graft
  <2>3. {half(q) : q \in remote} = {half(r)}
    BY <1>7
  <2>4. (IF sends THEN t.receiver ELSE t.sender) = half(r)
    BY <2>3, UnwrapSome DEF TextPair
  <2>5. half(r).bytes = r.streams[s].bytes
    BY DEF PeerHalf
  <2> QED BY <2>2, <2>4, <2>5
<1> QED BY <1>3, <1>4, <1>5, <1>6, <1>7

-----------------------------------------------------------------------------
(* The client's document. *)

\* The client's own figures, and the server's as a report with the results in
\* remote knows them.
Own == [s \in Streams |-> LocalBytesOf("client", s)]
Told(remote) ==
    [s \in Streams |-> UnwrapOr({r.streams[s].bytes : r \in remote}, 0)]

LEMMA ToldShape ==
    ASSUME NEW remote, NEW s \in Streams
    PROVE  /\ remote = None => Told(remote)[s] = 0
           /\ \A r : remote = {r} => Told(remote)[s] = r.streams[s].bytes
<1>1. remote = None => {r.streams[s].bytes : r \in remote} = None
  BY DEF None
<1>2. \A r : remote = {r} => {q.streams[s].bytes : q \in remote} = {r.streams[s].bytes}
  OBVIOUS
<1> QED BY <1>1, <1>2, UnwrapSome, UnwrapNone DEF Told

\* What the documents of the three output modes say of each other, when the
\* client renders them with the server's results or, on an error, without.
LEMMA RenderedAgrees ==
    ASSUME NEW remote, NEW bare, NEW error \in {None, Some("error")},
           IsOption(remote), error = None => remote # None
    PROVE  LET d == Rendered(remote, bare, error)
           IN  /\ HadResults(d.json) <=> remote # None
               /\ TextAgrees(d)
               /\ ShowsStreams(d.json, OwnFigures(d.json), Told(remote))
               /\ error = None => d.stream = d.json
               /\ OwnFigures(d.json) = Own
               /\ d.json.bare = bare
<1> DEFINE in == ClientInput(remote, bare, error)
           d == Rendered(remote, bare, error)
           own(s) == LocalBytesOf("client", s)
<1>1. /\ d.json = Build(in) /\ d.text = [s \in Streams |-> TextPair(s, remote)]
      /\ d.stream = [Build(ClientInput(remote, bare, None)) EXCEPT !.error = error]
  BY DEF Rendered
<1>2. d.json.error = error /\ d.json.input = in
  <2>1. in.error = error
    BY DEF ClientInput
  <2> HIDE DEF in
  <2> QED BY <1>1, <2>1, BuildShape
<1>0. ASSUME NEW s \in Streams
      PROVE  /\ d.json.streams[s] = Build(in).streams[s]
             /\ d.text[s] = TextPair(s, remote)
  BY <1>1
<1>3. HadResults(d.json) <=> remote # None
  BY <1>2 DEF HadResults, ClientInput, IsSome, None
<1>4. ASSUME NEW s \in Streams PROVE OwnFigures(d.json)[s] = own(s)
  <2>1. in.streams[s] = ClientStream(s, remote)
    BY DEF ClientInput
  <2> QED BY <1>2, <2>1, ClientStreamShape DEF OwnFigures
<1>5. ASSUME NEW s \in Streams, test.udp, IsSender("client", s)
      PROVE  /\ d.json.streams[s].bytes = own(s) /\ d.text[s].sender.bytes = own(s)
             /\ d.json.streams[s].lost = d.text[s].receiver.lost
  <2> DEFINE e == Build(in).streams[s]
             t == TextPair(s, remote)
  <2>1. e.bytes = own(s) /\ t.sender.bytes = own(s) /\ t.receiver.lost = e.lost
    BY <1>5, SentEntry
  <2> HIDE DEF d, e, t, in
  <2> QED BY <2>1, <1>0 DEF e, t
<1>6. ASSUME NEW s \in Streams, test.udp, ~IsSender("client", s)
      PROVE  /\ d.json.streams[s].lost = d.text[s].receiver.lost
             /\ error # None => d.json.streams[s].bytes = 0
             /\ error = None => d.json.streams[s].bytes = Told(remote)[s]
             /\ \/ remote # None /\ error # None
                \/ d.json.streams[s].bytes = d.text[s].sender.bytes
  <2> DEFINE e == Build(in).streams[s]
             t == TextPair(s, remote)
  <2>1. e.lost = t.receiver.lost /\ (error # None => e.bytes = 0)
    BY <1>6, ReceivedEntry
  <2>2. CASE remote = None
    <3>1. t.sender.bytes = 0
      BY <1>6, <2>2, ReceivedEntry
    <3> HIDE DEF d, e, t, in
    <3> QED BY <2>1, <2>2, <3>1, <1>0 DEF e, t
  <2>3. ASSUME NEW r, remote = {r}
        PROVE  /\ t.sender.bytes = r.streams[s].bytes
               /\ error = None => e.bytes = r.streams[s].bytes
    BY <1>6, <2>3, ReceivedEntryTold
  <2>4. CASE \E r : remote = {r}
    <3>1. PICK r : remote = {r}
      BY <2>4
    <3>2. Told(remote)[s] = r.streams[s].bytes /\ remote # None
      BY <3>1, ToldShape DEF None
    <3>3. /\ t.sender.bytes = r.streams[s].bytes
          /\ error = None => e.bytes = r.streams[s].bytes
      BY <2>3, <3>1
    <3> HIDE DEF d, e, t, in
    <3> QED BY <2>1, <3>2, <3>3, <1>0 DEF e, t
  <2> QED BY <2>2, <2>4 DEF IsOption
<1>7. ASSUME NEW s \in Streams, ~test.udp
      PROVE  LET e == d.json.streams[s]
                 sends == IsSender("client", s)
             IN  /\ e.sender = IF sends THEN own(s) ELSE Told(remote)[s]
                 /\ e.receiver = IF sends THEN Told(remote)[s] ELSE own(s)
                 /\ e.sender = d.text[s].sender.bytes
                 /\ e.receiver = d.text[s].receiver.bytes
  <2> DEFINE e == Build(in).streams[s]
             t == TextPair(s, remote)
             sends == IsSender("client", s)
  <2>1. /\ (IF sends THEN e.sender ELSE e.receiver) = own(s)
        /\ (IF sends THEN t.sender.bytes ELSE t.receiver.bytes) = own(s)
    BY <1>7, TcpEntry
  <2>2. CASE remote = None
    <3>1. /\ (IF sends THEN e.receiver ELSE e.sender) = 0
          /\ (IF sends THEN t.receiver.bytes ELSE t.sender.bytes) = 0
      BY <1>7, <2>2, TcpEntry
    <3>2. Told(remote)[s] = 0
      BY <2>2, ToldShape
    <3> HIDE DEF d, e, t, in
    <3> QED BY <2>1, <3>1, <3>2, <1>0 DEF e, t
  <2>3. ASSUME NEW r, remote = {r}
        PROVE  /\ (IF sends THEN e.receiver ELSE e.sender) = r.streams[s].bytes
               /\ (IF sends THEN t.receiver.bytes ELSE t.sender.bytes)
                     = r.streams[s].bytes
    BY <1>7, <2>3, TcpEntry
  <2>4. CASE \E r : remote = {r}
    <3>1. PICK r : remote = {r}
      BY <2>4
    <3>2. Told(remote)[s] = r.streams[s].bytes
      BY <3>1, ToldShape
    <3>3. /\ (IF sends THEN e.receiver ELSE e.sender) = r.streams[s].bytes
          /\ (IF sends THEN t.receiver.bytes ELSE t.sender.bytes)
                = r.streams[s].bytes
      BY <2>3, <3>1
    <3> HIDE DEF d, e, t, in
    <3> QED BY <2>1, <3>2, <3>3, <1>0 DEF e, t
  <2> QED BY <2>2, <2>4 DEF IsOption
<1>8. TextAgrees(d)
  BY <1>2, <1>3, <1>5, <1>6, <1>7 DEF TextAgrees, Unclaimed, IsSome
<1>9. ShowsStreams(d.json, OwnFigures(d.json), Told(remote))
  BY <1>2, <1>4, <1>5, <1>6, <1>7
     DEF ShowsStreams, SenderFigure, ReceiverFigure, Unclaimed, IsSome
<1>10. ASSUME error = None PROVE d.stream = d.json
  <2>1. in.error = error /\ in = ClientInput(remote, bare, None)
    BY <1>10 DEF ClientInput
  <2>2. d.stream = [Build(in) EXCEPT !.error = in.error] /\ d.json = Build(in)
    BY <1>1, <2>1
  <2> HIDE DEF in, d
  <2> QED BY <2>2, BuildShape
<1>12. OwnFigures(d.json) = Own
  BY <1>4 DEF OwnFigures, Own
<1>11. d.json.bare = bare
  BY <1>1 DEF Build, ClientInput
<1> QED BY <1>3, <1>8, <1>9, <1>10, <1>11, <1>12

-----------------------------------------------------------------------------
(* The sums of the client's document. *)

\* The streams of each direction, and a figure summed over some of them.
Forward == {s \in Streams : IsSender("client", s)}
Reverse == {s \in Streams : ~IsSender("client", s)}
Over(S, f) == SumFunction([s \in S |-> f[s]])

LEMMA Directions ==
    ASSUME TypeOK
    PROVE  /\ IsFiniteSet(Streams) /\ Streams # {}
           /\ IsFiniteSet(Forward) /\ IsFiniteSet(Reverse)
           /\ test.bidir => /\ Forward = 1..test.parallel
                            /\ Reverse = Streams \ (1..test.parallel)
                            /\ Forward # {} /\ Reverse # {}
           /\ ~test.bidir /\ ~test.reverse => Forward = Streams /\ Reverse = {}
           /\ ~test.bidir /\ test.reverse => Forward = {} /\ Reverse = Streams
<1>1. /\ test.parallel \in Nat /\ test.parallel > 0
  BY ConstantsAssumption DEF TypeOK, TestParams
<1>2. /\ test.bidir => Streams = 1..(2 * test.parallel)
      /\ ~test.bidir => Streams = 1..test.parallel
  BY DEF Streams
<1>3. IsFiniteSet(Streams)
  <2>1. 2 * test.parallel \in Int /\ test.parallel \in Int /\ 1 \in Int
    BY <1>1
  <2> QED BY <1>2, <2>1, FS_Interval
<1>4. IsFiniteSet(Forward) /\ IsFiniteSet(Reverse)
  <2>1. Forward \subseteq Streams /\ Reverse \subseteq Streams
    BY DEF Forward, Reverse
  <2> QED BY <1>3, <2>1, FS_Subset
<1>5. Streams # {}
  <2>1. 1 \in Streams
    BY <1>1, <1>2
  <2> QED BY <2>1
<1>6. \A s \in Streams :
         IsSender("client", s) <=> IF test.bidir THEN s <= test.parallel ELSE ~test.reverse
  BY DEF IsSender, SenderOf
<1>7. ASSUME test.bidir
      PROVE  /\ Forward = 1..test.parallel /\ Reverse = Streams \ (1..test.parallel)
             /\ Forward # {} /\ Reverse # {}
  <2>1. Forward = 1..test.parallel /\ Reverse = Streams \ (1..test.parallel)
    BY <1>1, <1>2, <1>6, <1>7 DEF Forward, Reverse
  <2>2. 1 \in Forward /\ 2 * test.parallel \in Reverse
    BY <1>1, <1>2, <1>7, <2>1
  <2> QED BY <2>1, <2>2
<1>8. ASSUME ~test.bidir
      PROVE  /\ ~test.reverse => Forward = Streams /\ Reverse = {}
             /\ test.reverse => Forward = {} /\ Reverse = Streams
  BY <1>6, <1>8 DEF Forward, Reverse
<1> QED BY <1>3, <1>4, <1>5, <1>7, <1>8

LEMMA ClientInputShape ==
    ASSUME NEW remote, NEW bare, NEW error, NEW in, in = ClientInput(remote, bare, error)
    PROVE  /\ in.udp = test.udp /\ in.reverse = test.reverse
           /\ in.bidir = test.bidir /\ ~in.is_server
           /\ in.error = error /\ in.bare_end = bare
           /\ DOMAIN in.streams = Streams
           /\ \A s \in Streams : in.streams[s] = ClientStream(s, remote)
<1>1. /\ in.udp = test.udp /\ in.reverse = test.reverse
      /\ in.bidir = test.bidir /\ ~in.is_server
      /\ in.error = error /\ in.bare_end = bare
      /\ in.streams = [s \in Streams |-> ClientStream(s, remote)]
  BY DEF ClientInput
<1> QED BY <1>1

LEMMA ClientDirections ==
    ASSUME NEW remote, NEW bare, NEW error, NEW in, in = ClientInput(remote, bare, error)
    PROVE  Dir(in, TRUE) = Forward /\ Dir(in, FALSE) = Reverse
<1>1. DOMAIN in.streams = Streams
      /\ \A s \in Streams : in.streams[s] = ClientStream(s, remote)
  BY ClientInputShape
<1>2. \A s \in Streams : in.streams[s].is_sender = IsSender("client", s)
  BY <1>1, ClientStreamShape
<1>3. \A s \in Streams : IsSender("client", s) \in BOOLEAN
  BY DEF IsSender
<1>4. Dir(in, TRUE) = {s \in Streams : in.streams[s].is_sender = TRUE}
      /\ Dir(in, FALSE) = {s \in Streams : in.streams[s].is_sender = FALSE}
  BY <1>1 DEF Dir
<1>5. ASSUME NEW s \in Streams
      PROVE  /\ in.streams[s].is_sender = TRUE <=> s \in Forward
             /\ in.streams[s].is_sender = FALSE <=> s \in Reverse
  BY <1>2, <1>3 DEF Forward, Reverse
<1> QED BY <1>4, <1>5 DEF Forward, Reverse

\* Bytes of one direction: what the client counted itself,
LEMMA LocalSums ==
    ASSUME NEW remote, NEW bare, NEW error, NEW in, in = ClientInput(remote, bare, error)
    PROVE  /\ LocalBytes(in, TRUE) = Over(Forward, Own)
           /\ LocalBytes(in, FALSE) = Over(Reverse, Own)
<1>0. Dir(in, TRUE) = Forward /\ Dir(in, FALSE) = Reverse
  BY ClientDirections
<1>1. \A s \in Streams : in.streams[s] = ClientStream(s, remote)
  BY ClientInputShape
<1>2. \A s \in Streams : in.streams[s].local_bytes = Own[s]
  BY <1>1, ClientStreamShape DEF Own
<1>3. ASSUME NEW S \in SUBSET Streams
      PROVE  [i \in S |-> in.streams[i].local_bytes] = [s \in S |-> Own[s]]
  BY <1>2
<1>4. Forward \in SUBSET Streams /\ Reverse \in SUBSET Streams
  BY DEF Forward, Reverse
<1>5. /\ LocalBytes(in, TRUE) = SumFunction([i \in Forward |-> in.streams[i].local_bytes])
      /\ LocalBytes(in, FALSE) = SumFunction([i \in Reverse |-> in.streams[i].local_bytes])
  BY <1>0 DEF LocalBytes, SumOf
<1> QED BY <1>3, <1>4, <1>5 DEF Over

LEMMA OverNothing ==
    ASSUME NEW S, IsFiniteSet(S), NEW f, \A s \in S : f[s] = 0
    PROVE  Over(S, f) = 0
<1> DEFINE g == [s \in S |-> f[s]]
<1>1. g \in [S -> Int] /\ \A s \in S : g[s] = 0
  OBVIOUS
<1> HIDE DEF g
<1>2. SumFunction(g) = 0
  BY <1>1, SumOfZeros
<1> QED BY <1>2 DEF g, Over

\* and what the server told of it, if it did.
LEMMA PeerSums ==
    ASSUME TypeOK, NEW remote, NEW bare, NEW error, IsOption(remote),
           NEW in, in = ClientInput(remote, bare, error),
           NEW want \in BOOLEAN, NEW S, S = Dir(in, want)
    PROVE  /\ S \in SUBSET Streams /\ IsFiniteSet(S)
           /\ PeerBytes(in, want) =
                 IF remote = None \/ S = {} THEN None ELSE {Over(S, Told(remote))}
<1> DEFINE V == {i \in S : IsSome(in.streams[i].remote_bytes)}
<1>1. /\ S \in SUBSET Streams /\ IsFiniteSet(S)
      /\ \A s \in Streams : in.streams[s] = ClientStream(s, remote)
  <2>1. S = Forward \/ S = Reverse
    BY ClientDirections
  <2> QED BY <2>1, ClientInputShape, Directions DEF Forward, Reverse
<1>2. PeerBytes(in, want)
        = Then(V # {}, SumFunction([i \in V |-> UnwrapOr(in.streams[i].remote_bytes, 0)]))
  BY DEF PeerBytes, SumOf
<1>3. CASE remote = None
  <2>1. \A s \in Streams : in.streams[s].remote_bytes = None
    BY <1>1, <1>3, ClientStreamUntold
  <2>2. V = {}
    BY <1>1, <2>1 DEF IsSome
  <2> QED BY <1>1, <1>2, <1>3, <2>2 DEF Then, None
<1>4. CASE \E r : remote = {r}
  <2> PICK r : remote = {r}
    BY <1>4
  <2>1. ASSUME NEW s \in S
        PROVE  /\ IsSome(in.streams[s].remote_bytes)
               /\ UnwrapOr(in.streams[s].remote_bytes, 0) = Told(remote)[s]
    <3>1. s \in Streams /\ in.streams[s] = ClientStream(s, remote)
      BY <1>1
    <3>2. ClientStream(s, remote).remote_bytes = {r.streams[s].bytes}
      BY ClientStreamTold
    <3>3. Told(remote)[s] = r.streams[s].bytes
      BY <3>1, ToldShape
    <3>4. in.streams[s].remote_bytes = {r.streams[s].bytes}
      BY <3>1, <3>2
    <3>5. \A x : UnwrapOr({x}, 0) = x /\ IsSome({x})
      BY UnwrapSome
    <3> HIDE DEF V
    <3> QED BY <3>3, <3>4, <3>5
  <2>2. V = S
    BY <2>1
  <2>3. [i \in S |-> UnwrapOr(in.streams[i].remote_bytes, 0)]
          = [s \in S |-> Told(remote)[s]]
    BY <2>1
  <2> HIDE DEF V
  <2>4. remote # None
    BY DEF None
  <2> QED BY <1>1, <1>2, <2>2, <2>3, <2>4 DEF Over, Then, None
<1> QED BY <1>3, <1>4 DEF IsOption

\* The peer's half of a sum is what it told, or zero on an error.
LEMMA PeerHalves ==
    ASSUME TypeOK, NEW remote, NEW bare, NEW error, IsOption(remote),
           NEW in, in = ClientInput(remote, bare, error),
           NEW want \in BOOLEAN, NEW S, S = Dir(in, want)
    PROVE  /\ UnwrapOr(PeerBytes(in, want), 0) = Over(S, Told(remote))
           /\ \A own : (error = None => remote # None) /\ (S = {} => own = 0)
                          => Graft(in, PeerBytes(in, want), own) = Over(S, Told(remote))
<1>1. /\ S \in SUBSET Streams /\ IsFiniteSet(S)
      /\ PeerBytes(in, want) =
            IF remote = None \/ S = {} THEN None ELSE {Over(S, Told(remote))}
  BY PeerSums
<1>2. in.error = error
  BY ClientInputShape
<1>3. remote = None \/ S = {} => Over(S, Told(remote)) = 0
  <2>1. remote = None \/ S = {} => \A s \in S : Told(remote)[s] = 0
    BY <1>1, ToldShape
  <2> QED BY <1>1, <2>1, OverNothing
<1>4. UnwrapOr(PeerBytes(in, want), 0) = Over(S, Told(remote))
  BY <1>1, <1>3, UnwrapSome, UnwrapNone
<1>5. ASSUME NEW own, error = None => remote # None, S = {} => own = 0
      PROVE  Graft(in, PeerBytes(in, want), own) = Over(S, Told(remote))
  <2> DEFINE default == IF IsSome(in.error) THEN 0 ELSE own
  <2>1. Graft(in, PeerBytes(in, want), own) = UnwrapOr(PeerBytes(in, want), default)
    BY DEF Graft
  <2>2. remote = None \/ S = {} => default = 0
    BY <1>2, <1>5 DEF IsSome
  <2> HIDE DEF default
  <2> QED BY <1>1, <1>3, <2>1, <2>2, UnwrapSome, UnwrapNone
<1> QED BY <1>4, <1>5

\* The byte figures of the client's sums, in every mode of a test: where a sum is
\* one of UDP or of TCP with n bytes.
UdpSide(x, n) == \E f, p, l, of : x = UdpSum(n, f, p, l, of)
TcpSide(x, n) == \E f, r : x = TcpSum(n, f, r)

LEMMA SideBytes ==
    ASSUME NEW x, NEW n, UdpSide(x, n) \/ TcpSide(x, n)
    PROVE  x.bytes = n
BY DEF UdpSide, TcpSide, UdpSum, TcpSum

LEMMA BidirSums ==
    ASSUME NEW in, ~in.is_server, in.bidir
    PROVE  /\ BuildSums(in).sum_sent.bytes = LocalBytes(in, TRUE)
           /\ BuildSums(in).sum_received.bytes
                 = Graft(in, PeerBytes(in, TRUE), LocalBytes(in, TRUE))
           /\ \A x \in BuildSums(in).sum_sent_bidir_reverse :
                 x.bytes = Graft(in, PeerBytes(in, FALSE), LocalBytes(in, FALSE))
           /\ \A x \in BuildSums(in).sum_received_bidir_reverse :
                 x.bytes = LocalBytes(in, FALSE)
<1>b. PICK b : b = BuildSums(in)
  OBVIOUS
<1>0. PICK own_sent, own_recv, told_recv, told_sent :
         /\ own_sent = LocalBytes(in, TRUE) /\ own_recv = LocalBytes(in, FALSE)
         /\ told_recv = Graft(in, PeerBytes(in, TRUE), own_sent)
         /\ told_sent = Graft(in, PeerBytes(in, FALSE), own_recv)
  OBVIOUS
<1>1. CASE in.udp
  <2>1. b = ClientUdpBidirSums(in)
    BY <1>b, <1>1 DEF BuildSums
  <2>2. UdpSide(b.sum_sent, own_sent)
    BY <1>0, <2>1 DEF ClientUdpBidirSums, Sums, UdpSide
  <2>3. UdpSide(b.sum_received, told_recv)
    BY <1>0, <2>1 DEF ClientUdpBidirSums, Sums, UdpSide
  <2>4. \E x : UdpSide(x, told_sent) /\ b.sum_sent_bidir_reverse = {x}
    BY <1>0, <2>1 DEF ClientUdpBidirSums, Sums, Some, UdpSide
  <2>5. \E x : UdpSide(x, own_recv) /\ b.sum_received_bidir_reverse = {x}
    BY <1>0, <2>1 DEF ClientUdpBidirSums, Sums, Some, UdpSide
  <2> QED BY <1>b, <1>0, <2>2, <2>3, <2>4, <2>5, SideBytes
<1>2. CASE ~in.udp
  <2>1. b = ClientTcpBidirSums(in)
    BY <1>b, <1>2 DEF BuildSums
  <2>2. TcpSide(b.sum_sent, own_sent)
    BY <1>0, <2>1 DEF ClientTcpBidirSums, Sums, TcpSide
  <2>3. TcpSide(b.sum_received, told_recv)
    BY <1>0, <2>1 DEF ClientTcpBidirSums, Sums, TcpSide
  <2>4. \E x : TcpSide(x, told_sent) /\ b.sum_sent_bidir_reverse = {x}
    BY <1>0, <2>1 DEF ClientTcpBidirSums, Sums, Some, TcpSide
  <2>5. \E x : TcpSide(x, own_recv) /\ b.sum_received_bidir_reverse = {x}
    BY <1>0, <2>1 DEF ClientTcpBidirSums, Sums, Some, TcpSide
  <2> QED BY <1>b, <1>0, <2>2, <2>3, <2>4, <2>5, SideBytes
<1> QED BY <1>1, <1>2

\* One direction's sums, a figure at a time.
LEMMA OneWayUdp ==
    ASSUME NEW in, NEW b, b = ClientUdpSums(in), NEW x, NEW y,
           x = Positive(LocalBytes(in, TRUE), UnwrapOr(PeerBytes(in, FALSE), 0)),
           y = Positive(LocalBytes(in, FALSE), UnwrapOr(PeerBytes(in, TRUE), 0))
    PROVE  /\ UdpSide(b.sum_sent, x) /\ UdpSide(b.sum_received, y)
           /\ b.sum_sent_bidir_reverse = None /\ b.sum_received_bidir_reverse = None
<1>1. UdpSide(b.sum_sent, x)
  BY Zenon DEF ClientUdpSums, Sums, UdpSide
<1>2. UdpSide(b.sum_received, y)
  BY Zenon DEF ClientUdpSums, Sums, UdpSide
<1>3. b.sum_sent_bidir_reverse = None /\ b.sum_received_bidir_reverse = None
  BY DEF ClientUdpSums, Sums
<1> QED BY <1>1, <1>2, <1>3

LEMMA OneWayTcp ==
    ASSUME NEW in, NEW b, b = ClientTcpSums(in), NEW x, NEW y,
           x = OwnOrPeer(in, LocalBytes(in, TRUE), PeerBytes(in, FALSE),
                         LocalBytes(in, FALSE)),
           y = OwnOrPeer(in, LocalBytes(in, FALSE), PeerBytes(in, TRUE),
                         LocalBytes(in, TRUE))
    PROVE  /\ TcpSide(b.sum_sent, x) /\ TcpSide(b.sum_received, y)
           /\ b.sum_sent_bidir_reverse = None /\ b.sum_received_bidir_reverse = None
<1>1. TcpSide(b.sum_sent, x)
  BY Zenon DEF ClientTcpSums, Sums, TcpSide
<1>2. TcpSide(b.sum_received, y)
  BY Zenon DEF ClientTcpSums, Sums, TcpSide
<1>3. b.sum_sent_bidir_reverse = None /\ b.sum_received_bidir_reverse = None
  BY DEF ClientTcpSums, Sums
<1> QED BY <1>1, <1>2, <1>3

LEMMA OneWaySums ==
    ASSUME NEW in, ~in.is_server, ~in.bidir
    PROVE  /\ BuildSums(in).sum_sent_bidir_reverse = None
           /\ BuildSums(in).sum_received_bidir_reverse = None
           /\ in.udp =>
                /\ BuildSums(in).sum_sent.bytes
                     = Positive(LocalBytes(in, TRUE), UnwrapOr(PeerBytes(in, FALSE), 0))
                /\ BuildSums(in).sum_received.bytes
                     = Positive(LocalBytes(in, FALSE), UnwrapOr(PeerBytes(in, TRUE), 0))
           /\ ~in.udp =>
                /\ BuildSums(in).sum_sent.bytes
                     = OwnOrPeer(in, LocalBytes(in, TRUE), PeerBytes(in, FALSE),
                                 LocalBytes(in, FALSE))
                /\ BuildSums(in).sum_received.bytes
                     = OwnOrPeer(in, LocalBytes(in, FALSE), PeerBytes(in, TRUE),
                                 LocalBytes(in, TRUE))
<1>1. CASE in.udp
  <2>1. BuildSums(in) = ClientUdpSums(in)
    BY <1>1 DEF BuildSums
  <2>2. PICK b, x, y :
           /\ b = ClientUdpSums(in)
           /\ x = Positive(LocalBytes(in, TRUE), UnwrapOr(PeerBytes(in, FALSE), 0))
           /\ y = Positive(LocalBytes(in, FALSE), UnwrapOr(PeerBytes(in, TRUE), 0))
    OBVIOUS
  <2>3. /\ UdpSide(b.sum_sent, x) /\ UdpSide(b.sum_received, y)
        /\ b.sum_sent_bidir_reverse = None /\ b.sum_received_bidir_reverse = None
    BY <2>2, OneWayUdp
  <2>4. b.sum_sent.bytes = x /\ b.sum_received.bytes = y
    BY <2>3, SideBytes
  <2> QED BY <1>1, <2>1, <2>2, <2>3, <2>4
<1>2. CASE ~in.udp
  <2>1. BuildSums(in) = ClientTcpSums(in)
    BY <1>2 DEF BuildSums
  <2>2. PICK b, x, y :
           /\ b = ClientTcpSums(in)
           /\ x = OwnOrPeer(in, LocalBytes(in, TRUE), PeerBytes(in, FALSE),
                            LocalBytes(in, FALSE))
           /\ y = OwnOrPeer(in, LocalBytes(in, FALSE), PeerBytes(in, TRUE),
                            LocalBytes(in, TRUE))
    OBVIOUS
  <2>3. /\ TcpSide(b.sum_sent, x) /\ TcpSide(b.sum_received, y)
        /\ b.sum_sent_bidir_reverse = None /\ b.sum_received_bidir_reverse = None
    BY <2>2, OneWayTcp
  <2>4. b.sum_sent.bytes = x /\ b.sum_received.bytes = y
    BY <2>3, SideBytes
  <2> QED BY <1>2, <2>1, <2>2, <2>3, <2>4
<1> QED BY <1>1, <1>2

\* The figures ShowsSums asks for.
LEMMA FigureSums ==
    ASSUME NEW own, NEW theirs
    PROVE  /\ SumFunction([s \in Forward |-> SenderFigure(s, own, theirs)]) = Over(Forward, own)
           /\ SumFunction([s \in Forward |-> ReceiverFigure(s, own, theirs)]) = Over(Forward, theirs)
           /\ SumFunction([s \in Reverse |-> SenderFigure(s, own, theirs)]) = Over(Reverse, theirs)
           /\ SumFunction([s \in Reverse |-> ReceiverFigure(s, own, theirs)]) = Over(Reverse, own)
<1>1. /\ [s \in Forward |-> SenderFigure(s, own, theirs)] = [s \in Forward |-> own[s]]
      /\ [s \in Forward |-> ReceiverFigure(s, own, theirs)] = [s \in Forward |-> theirs[s]]
  BY DEF SenderFigure, ReceiverFigure, Forward
<1>2. /\ [s \in Reverse |-> SenderFigure(s, own, theirs)] = [s \in Reverse |-> theirs[s]]
      /\ [s \in Reverse |-> ReceiverFigure(s, own, theirs)] = [s \in Reverse |-> own[s]]
  BY DEF SenderFigure, ReceiverFigure, Reverse
<1> QED BY <1>1, <1>2 DEF Over

\* No baseline is above the count it was copied from.
LEMMA OwnNatural ==
    ASSUME Inv, NEW S \in SUBSET Streams
    PROVE  Over(S, Own) \in Nat
<1>1. ASSUME NEW s \in Streams PROVE Own[s] \in Nat
  <2>1. /\ sent[s].n \in Nat /\ sent[s].omit \in Nat /\ sent[s].omit <= sent[s].n
        /\ rcvd[s].n \in Nat /\ rcvd[s].omit \in Nat /\ rcvd[s].omit <= rcvd[s].n
    BY DEF Inv, TypeOK, Counts, RecvCounts, CountInv
  <2> QED BY <2>1 DEF Own, LocalBytesOf, SentNet, RcvdNet
<1>2. IsFiniteSet(S)
  BY Directions, FS_Subset DEF Inv
<1> DEFINE f == [s \in S |-> Own[s]]
<1>3. f \in [S -> Nat]
  BY <1>1
<1>4. SumFunction(f) \in Nat
  <2> HIDE DEF f
  <2> QED BY <1>2, <1>3, SumOfNaturals
<1> QED BY <1>4 DEF Over

\* The sums of the client's document show its own counts and what it was told.
LEMMA RenderedSums ==
    ASSUME Inv, NEW remote, NEW bare, NEW error, IsOption(remote),
           error = None => remote # None, ~bare,
           NEW d, d = Build(ClientInput(remote, bare, error))
    PROVE  ShowsSums(d, Own, Told(remote))
<1> DEFINE told == Told(remote)
<1>1. PICK in : in = ClientInput(remote, bare, error)
  OBVIOUS
<1>2. /\ in.udp = test.udp /\ in.bidir = test.bidir /\ ~in.is_server /\ ~in.bare_end
  BY <1>1, ClientInputShape
<1>3. /\ LocalBytes(in, TRUE) = Over(Forward, Own)
      /\ LocalBytes(in, FALSE) = Over(Reverse, Own)
  BY <1>1, LocalSums
<1>4. /\ UnwrapOr(PeerBytes(in, TRUE), 0) = Over(Forward, told)
      /\ UnwrapOr(PeerBytes(in, FALSE), 0) = Over(Reverse, told)
      /\ \A x : (Forward = {} => x = 0)
                  => Graft(in, PeerBytes(in, TRUE), x) = Over(Forward, told)
      /\ \A x : (Reverse = {} => x = 0)
                  => Graft(in, PeerBytes(in, FALSE), x) = Over(Reverse, told)
  <2>1. Dir(in, TRUE) = Forward /\ Dir(in, FALSE) = Reverse
    BY <1>1, ClientDirections
  <2>2. TypeOK
    BY DEF Inv
  <2>3. ASSUME NEW want \in BOOLEAN, NEW S, S = Dir(in, want)
        PROVE  /\ UnwrapOr(PeerBytes(in, want), 0) = Over(S, told)
               /\ \A x : (S = {} => x = 0)
                           => Graft(in, PeerBytes(in, want), x) = Over(S, told)
    BY <1>1, <2>2, <2>3, PeerHalves
  <2> QED BY <2>1, <2>3
<1>5. Over(Forward, Own) \in Nat /\ Over(Reverse, Own) \in Nat
  BY OwnNatural DEF Forward, Reverse
<1>6. Forward = {} => Over(Forward, Own) = 0 /\ Over(Forward, told) = 0
  BY OverNothing, Directions DEF Inv
<1>7. Reverse = {} => Over(Reverse, Own) = 0 /\ Over(Reverse, told) = 0
  BY OverNothing, Directions DEF Inv
<1>8. UnwrapOr(d.sums, None) = BuildSums(in)
  <2>1. d.sums = {BuildSums(in)}
    BY <1>1, <1>2 DEF Build, Then
  <2> QED BY <2>1, UnwrapSome
<1> DEFINE b == BuildSums(in)
<1>9. CASE test.bidir
  <2>1. /\ b.sum_sent.bytes = Over(Forward, Own)
        /\ b.sum_received.bytes = Over(Forward, told)
        /\ \A x \in b.sum_sent_bidir_reverse : x.bytes = Over(Reverse, told)
        /\ \A x \in b.sum_received_bidir_reverse : x.bytes = Over(Reverse, Own)
    <3>1. Forward # {} /\ Reverse # {}
      BY <1>9, Directions DEF Inv
    <3>2. /\ Over(Forward, told) = Graft(in, PeerBytes(in, TRUE), Over(Forward, Own))
          /\ Over(Reverse, told) = Graft(in, PeerBytes(in, FALSE), Over(Reverse, Own))
      BY <1>4, <3>1
    <3>3. ~in.is_server /\ in.bidir
      BY <1>2, <1>9
    <3> HIDE DEF told, b
    <3> QED BY <1>3, <3>2, <3>3, BidirSums DEF b
  <2>2. Forward = 1..test.parallel /\ Reverse = Streams \ (1..test.parallel)
    BY <1>9, Directions DEF Inv
  <2> HIDE DEF told, b
  <2> QED BY <1>8, <1>9, <2>1, <2>2, FigureSums DEF ShowsSums, told, b
<1>10. CASE ~test.bidir
  <2>1. /\ b.sum_sent_bidir_reverse = None /\ b.sum_received_bidir_reverse = None
    BY <1>2, <1>10, OneWaySums
  <2>2. \/ Forward = Streams /\ Reverse = {}
        \/ Forward = {} /\ Reverse = Streams
    BY <1>10, Directions DEF Inv
  <2>3. /\ b.sum_sent.bytes = IF Reverse = {} THEN Over(Forward, Own)
                              ELSE Over(Reverse, told)
        /\ b.sum_received.bytes = IF Reverse = {} THEN Over(Forward, told)
                                  ELSE Over(Reverse, Own)
    <3>0. Streams # {}
      BY Directions DEF Inv
    <3> HIDE DEF told, b
    <3>1. CASE test.udp
      <4>1. /\ b.sum_sent.bytes
                 = Positive(Over(Forward, Own), Over(Reverse, told))
            /\ b.sum_received.bytes
                 = Positive(Over(Reverse, Own), Over(Forward, told))
        <5>1. /\ b.sum_sent.bytes = Positive(Over(Forward, Own),
                                             UnwrapOr(PeerBytes(in, FALSE), 0))
              /\ b.sum_received.bytes = Positive(Over(Reverse, Own),
                                                 UnwrapOr(PeerBytes(in, TRUE), 0))
          BY <1>2, <1>3, <1>10, <3>1, OneWaySums DEF b
        <5> QED BY <1>4, <5>1
      <4> QED BY <1>5, <1>6, <1>7, <2>2, <3>0, <4>1 DEF Positive
    <3>2. CASE ~test.udp
      <4>1. /\ b.sum_sent.bytes = OwnOrPeer(in, Over(Forward, Own),
                                    PeerBytes(in, FALSE), Over(Reverse, Own))
            /\ b.sum_received.bytes = OwnOrPeer(in, Over(Reverse, Own),
                                        PeerBytes(in, TRUE), Over(Forward, Own))
        BY <1>2, <1>3, <1>10, <3>2, OneWaySums DEF b
      <4> QED BY <1>4, <1>6, <1>7, <2>2, <3>0, <4>1 DEF OwnOrPeer
    <3> QED BY <3>1, <3>2
  <2> HIDE DEF told, b
  <2>4. Streams \ Streams = {}
    OBVIOUS
  <2>5. CASE Forward = Streams /\ Reverse = {}
    BY <1>8, <1>10, <2>1, <2>3, <2>4, <2>5, FigureSums DEF ShowsSums, None, told, b
  <2>6. CASE Forward = {} /\ Reverse = Streams
    <3>1. Reverse # {}
      BY <2>6, Directions DEF Inv
    <3> QED BY <1>8, <1>10, <2>1, <2>3, <2>4, <2>6, <3>1, FigureSums
              DEF ShowsSums, None, told, b
  <2> QED BY <2>2, <2>5, <2>6
<1> QED BY <1>9, <1>10

-----------------------------------------------------------------------------
(* The loss shown of one stream. *)

\* One of the hosts sends on a stream.
LEMMA OneSender ==
    ASSUME NEW s
    PROVE  /\ IsSender("client", s) <=> ~IsSender("server", s)
           /\ ReceiverOf(s) = "server" <=> IsSender("client", s)
           /\ SenderOf(s) \in Hosts /\ ReceiverOf(s) \in Hosts
BY DEF IsSender, SenderOf, ReceiverOf, Hosts

\* What a sender may be ahead of its counters by.
LEMMA SlackNatural ==
    ASSUME Inv
    PROVE  /\ StreamSlack \in Nat /\ SumSlack \in Nat
           /\ test.batch = StreamSlack + 1
           /\ SumSlack = test.parallel * StreamSlack
<1>1. test.batch \in Nat /\ test.batch >= 1 /\ test.parallel \in Nat
  BY ConstantsAssumption DEF Inv, TypeOK, TestParams
<1>2. StreamSlack \in Nat /\ test.batch = StreamSlack + 1
  BY <1>1 DEF StreamSlack
<1>3. SumSlack \in Nat
  BY <1>1, <1>2, OneMoreTime DEF SumSlack
<1> QED BY <1>2, <1>3 DEF SumSlack

\* What was charged as lost is below what the sender wrote, and above what it
\* counted by less than a batch.
LEMMA LossBelowWritten ==
    ASSUME Inv, test.udp, NEW s \in Streams
    PROVE  /\ rcvd[s].errors \in Nat /\ sent[s].datagrams \in Nat
           /\ sent[s].n \in Nat /\ sent[s].datagrams <= sent[s].n
           /\ rcvd[s].errors <= sent[s].datagrams + StreamSlack
           /\ rcvd[s].errors > 0 => rcvd[s].errors + 1 <= wire[s]
<1>1. /\ sent[s].n \in Nat /\ rcvd[s].n \in Nat /\ rcvd[s].errors \in Nat
      /\ sent[s].datagrams \in Nat
      /\ rcvd[s].packets \in Nat /\ taken[s] \in Nat /\ wire[s] \in Nat
  BY DEF Inv, TypeOK, Counts, RecvCounts
<1>2. /\ rcvd[s].packets <= taken[s] /\ taken[s] <= wire[s]
      /\ wire[s] <= sent[s].datagrams + test.batch
      /\ sent[s].datagrams <= sent[s].n
      /\ rcvd[s].n + rcvd[s].errors = rcvd[s].packets
      /\ rcvd[s].packets > 0 => rcvd[s].n > 0
  BY DEF Inv, CountInv, SenderInv
<1>3. StreamSlack \in Nat /\ test.batch = StreamSlack + 1
  BY SlackNatural
<1>4. rcvd[s].errors > 0 => rcvd[s].errors + 1 <= wire[s]
  BY <1>1, <1>2
<1> QED BY <1>1, <1>2, <1>3, <1>4

\* Without an omitted period the counters are net.
LEMMA NoOmitNet ==
    ASSUME Inv, ~test.omit, NEW s \in Streams
    PROVE  /\ SentNet(s) = sent[s].n /\ RcvdNet(s) = rcvd[s].n
           /\ DatagramsNet(s) = sent[s].datagrams
           /\ MeasuredUdp(s).lost = rcvd[s].errors
           /\ MeasuredUdp(s).packets = rcvd[s].packets
           /\ rcvd[s].packets \in Nat /\ rcvd[s].errors <= rcvd[s].packets
<1>1. /\ sent[s].n \in Nat /\ rcvd[s].n \in Nat /\ rcvd[s].errors \in Nat
      /\ sent[s].datagrams \in Nat /\ rcvd[s].packets \in Nat
  BY DEF Inv, TypeOK, Counts, RecvCounts
<1>2. /\ sent[s].omit = 0 /\ rcvd[s].omit = 0 /\ rcvd[s].errors_omit = 0
      /\ sent[s].datagrams_omit = 0
      /\ rcvd[s].packets_omit = 0 /\ rcvd[s].n + rcvd[s].errors = rcvd[s].packets
  BY DEF Inv, CountInv
<1> QED BY <1>1, <1>2 DEF SentNet, RcvdNet, DatagramsNet, MeasuredUdp

\* The server shows a percentage only of what it sent, where it knows no loss.
LEMMA ServerLossWithinBatch ==
    ASSUME Inv, ~test.omit, test.udp, NEW bare, NEW error
    PROVE  StreamLossWithinBatch(ServerReport(bare, error))
<1> DEFINE in == [udp |-> test.udp, reverse |-> test.reverse, bidir |-> test.bidir,
                  is_server |-> TRUE, bare_end |-> bare, error |-> error,
                  local_has_retransmit_info |-> "server" \in Capable,
                  peer_sender_has_retransmits |-> None, peer_congestion |-> None,
                  server_output |-> None,
                  streams |-> [s \in Streams |-> ServerStream(s)]]
           d == ServerReport(bare, error)
<1>1. d = Build(in)
  BY DEF ServerReport
<1>2. ASSUME NEW s \in Streams, d.streams[s].percent_of > 0
      PROVE  d.streams[s].lost <= d.streams[s].percent_of + StreamSlack
  <2>1. d.streams[s] = UdpEndStream(in, ServerStream(s))
    <3>1. /\ in.udp /\ DOMAIN in.streams = Streams
          /\ in.streams[s] = ServerStream(s)
      OBVIOUS
    <3>2. Build(in).streams = [i \in DOMAIN in.streams |->
                                 IF in.udp THEN UdpEndStream(in, in.streams[i])
                                 ELSE TcpEndStream(in, in.streams[i])]
      BY BuildShape
    <3> HIDE DEF in
    <3> QED BY <1>1, <3>1, <3>2
  <2>2. CASE IsSender("server", s)
    <3>1. ServerStream(s).is_sender /\ ServerStream(s).udp = None
      BY <2>2 DEF ServerStream, Then, None
    <3>2. UnwrapOr(ServerStream(s).udp, NoStats).lost = 0
      BY <3>1, UnwrapNone DEF NoStats
    <3>3. d.streams[s].lost = 0
      <4> HIDE DEF d, in
      <4> QED BY <2>1, <3>1, <3>2 DEF UdpEndStream
    <3>4. ServerStream(s).datagrams_sent = {DatagramsNet(s)}
      BY <2>2 DEF ServerStream, Then
    <3>5. SentDatagrams(ServerStream(s)) = DatagramsNet(s)
      BY <3>4, UnwrapSome DEF SentDatagrams
    <3>6. d.streams[s].percent_of = DatagramsNet(s)
      <4> HIDE DEF d, in
      <4> QED BY <2>1, <3>1, <3>5 DEF UdpEndStream
    <3>7. DatagramsNet(s) \in Nat /\ StreamSlack \in Nat
      BY NoOmitNet, LossBelowWritten, SlackNatural
    <3> HIDE DEF d
    <3> QED BY <3>3, <3>6, <3>7
  <2>3. CASE ~IsSender("server", s)
    <3>1. ~ServerStream(s).is_sender
      BY <2>3 DEF ServerStream
    <3>2. d.streams[s].percent_of = 0
      <4>1. in.is_server
        OBVIOUS
      <4> HIDE DEF d, in
      <4> QED BY <2>1, <3>1, <4>1 DEF UdpEndStream
    <3> QED BY <1>2, <3>2
  <2> QED BY <2>2, <2>3
<1> QED BY <1>2 DEF StreamLossWithinBatch

\* In the client's document, whenever it is rendered, the loss it was told and
\* the loss it measured are within a batch of the count they are shown over.
LEMMA ClientLossWithinBatch ==
    ASSUME Inv, ~test.omit, test.udp, NEW bare, NEW remote \in {None, reply},
           NEW error \in {None, Some("error")}, error = None => remote # None
    PROVE  StreamLossWithinBatch(Rendered(remote, bare, error).json)
<1> DEFINE d == Build(ClientInput(remote, bare, error))
<1>0. remote = None \/ \E r : remote = {r} /\ r \in server_results
  <2>1. reply \in {None, server_results}
    BY DEF Inv, ServerResultsInv
  <2>2. server_results = None \/ \E r \in server_results : server_results = {r}
    BY DEF Inv, ServerResultsInv
  <2> QED BY <2>1, <2>2
<1>a. IsOption(remote)
  BY <1>0 DEF IsOption
<1>b. StreamSlack \in Nat /\ test.batch = StreamSlack + 1
  BY SlackNatural
<1>1. ASSUME NEW s \in Streams, d.streams[s].percent_of > 0
      PROVE  d.streams[s].lost <= d.streams[s].percent_of + StreamSlack
  <2> DEFINE lost == UnwrapOr(ClientStream(s, remote).udp, NoStats).lost
  <2>1. ASSUME NEW r, remote = {r}, r \in server_results
        PROVE  /\ TakenInv(r.streams[s], s)
               /\ PeerOmitted(r.streams[s], LocalOmitted("client", s))
                    = [errors |-> 0, packets |-> 0]
    <3>1. TakenInv(r.streams[s], s)
      BY <2>1 DEF Inv, ServerResultsInv
    <3>2. r.streams[s].omitted = {[errors |-> 0, packets |-> 0]}
      BY <3>1 DEF TakenInv, Some
    <3> QED BY <3>1, <3>2, UnwrapSome DEF PeerOmitted
  <2>2. CASE IsSender("client", s)
    <3>1. d.streams[s].percent_of = DatagramsNet(s) /\ d.streams[s].lost = lost
      BY <1>a, <2>2, SentEntry
    <3>2. /\ DatagramsNet(s) \in Nat /\ rcvd[s].errors \in Nat
          /\ rcvd[s].errors <= DatagramsNet(s) + StreamSlack
      BY NoOmitNet, LossBelowWritten
    <3>3. CASE remote = None
      <4>1. lost = 0
        BY <2>2, <3>3, ClientStreamUntold, UnwrapNone DEF NoStats
      <4> HIDE DEF d, lost
      <4> QED BY <1>b, <3>1, <3>2, <4>1
    <3>4. CASE \E r : remote = {r} /\ r \in server_results
      <4> PICK r : remote = {r} /\ r \in server_results
        BY <3>4
      <4> DEFINE x == r.streams[s]
                 o == PeerOmitted(x, LocalOmitted("client", s))
      <4>0. o = [errors |-> 0, packets |-> 0] /\ TakenInv(x, s)
        BY <2>1
      <4>1. x.errors \in Nat /\ x.errors <= rcvd[s].errors /\ o.errors = 0
        <5>1. ~IsSender("server", s)
          BY <2>2, OneSender
        <5>2. o.errors = 0
          BY <4>0
        <5> HIDE DEF x, o
        <5> QED BY <4>0, <5>1, <5>2 DEF TakenInv
      <4>2. ClientStream(s, remote).udp
              = {[lost |-> x.errors - o.errors, packets |-> x.packets - o.packets]}
        BY <2>2, ClientStreamTold
      <4>3. lost = x.errors - o.errors
        <5>1. UnwrapOr(ClientStream(s, remote).udp, NoStats)
                = [lost |-> x.errors - o.errors, packets |-> x.packets - o.packets]
          BY <4>2, UnwrapSome
        <5> QED BY <5>1
      <4> HIDE DEF d, lost, x, o
      <4> QED BY <1>b, <3>1, <3>2, <4>1, <4>3
    <3> QED BY <1>0, <3>3, <3>4
  <2>3. CASE ~IsSender("client", s)
    <3>1. d.streams[s].lost = rcvd[s].errors
      BY <2>3, ReceivedEntry, NoOmitNet
    <3>2. error = None
      BY <1>1, <2>3, ReceivedEntry
    <3> PICK r : remote = {r} /\ r \in server_results
      BY <1>0, <3>2
    <3> DEFINE x == r.streams[s]
    <3>3. /\ x.packets \in Nat /\ x.bytes \in Int /\ x.packets <= x.bytes
          /\ wire[s] <= x.packets + test.batch
      <4>1. TakenInv(x, s)
        BY <2>1
      <4>2. IsSender("server", s)
        BY <2>3, OneSender
      <4> HIDE DEF x
      <4> QED BY <4>1, <4>2 DEF TakenInv
    <3>4. Claimed(r, s) = x.packets
      <4>1. PeerOmitted(x, LocalOmitted("client", s)) = [errors |-> 0, packets |-> 0]
        BY <2>1
      <4> QED BY <3>3, <4>1 DEF Claimed
    <3>5. d.streams[s].percent_of = IF Claimed(r, s) > 0 THEN Claimed(r, s)
                                    ELSE IF x.bytes > 0 THEN x.bytes ELSE 0
      BY <2>3, <3>2, ReceivedEntryTold
    <3>6. wire[s] \in Nat
      BY DEF Inv, TypeOK
    <3> HIDE DEF d, x
    <3>7. /\ d.streams[s].percent_of \in Int
          /\ d.streams[s].percent_of >= x.packets
      BY <3>3, <3>4, <3>5
    <3>8. /\ rcvd[s].errors \in Nat
          /\ rcvd[s].errors > 0 => rcvd[s].errors + 1 <= wire[s]
      BY LossBelowWritten
    <3> QED BY <1>b, <3>1, <3>3, <3>6, <3>7, <3>8
  <2> QED BY <2>2, <2>3
<1>2. Rendered(remote, bare, error).json = d
  BY DEF Rendered
<1> QED BY <1>1, <1>2 DEF StreamLossWithinBatch

-----------------------------------------------------------------------------
(* The losses of the sums. *)

\* The datagram statistics a sum adds up, and a sum that shows l lost of n.
Stat(in, i) == UnwrapOr(in.streams[i].udp, NoStats)
LossSide(x, l, n) == \E b, f, p : x = UdpSum(b, f, p, l, n)

LEMMA LossSideWithin ==
    ASSUME NEW x, NEW k, NEW l, NEW n, LossSide(x, l, n), n > 0 => l <= n + k
    PROVE  \A a \in x.lost, p \in x.percent_of : p > 0 => a <= p + k
BY DEF LossSide, UdpSum, Some

\* Sums over the same streams compare as their terms do.
LEMMA OverMonotone ==
    ASSUME NEW S, IsFiniteSet(S), NEW f, NEW h,
           \A s \in S : f[s] \in Int /\ h[s] \in Int /\ f[s] <= h[s]
    PROVE  Over(S, f) \in Int /\ Over(S, h) \in Int /\ Over(S, f) <= Over(S, h)
<1> DEFINE a == [s \in S |-> f[s]]
           b == [s \in S |-> h[s]]
<1>1. a \in [S -> Int] /\ b \in [S -> Int] /\ \A s \in S : a[s] <= b[s]
  OBVIOUS
<1>2. /\ SumFunction(a) \in Int /\ SumFunction(b) \in Int
      /\ SumFunction(a) <= SumFunction(b)
  <2> HIDE DEF a, b
  <2> QED BY <1>1, SumMonotone
<1> QED BY <1>2 DEF Over

LEMMA OverWithin ==
    ASSUME NEW S, IsFiniteSet(S), NEW f, NEW h, NEW c \in Nat,
           \A s \in S : f[s] \in Int /\ h[s] \in Int /\ f[s] <= h[s] + c
    PROVE  Over(S, f) <= Over(S, h) + Cardinality(S) * c
<1> DEFINE a == [s \in S |-> f[s]]
           b == [s \in S |-> h[s]]
<1>1. a \in [S -> Int] /\ b \in [S -> Int] /\ \A s \in S : a[s] <= b[s] + c
  OBVIOUS
<1>2. SumFunction(a) <= SumFunction(b) + Cardinality(S) * c
  <2> HIDE DEF a, b
  <2> QED BY <1>1, SumWithin
<1> QED BY <1>2 DEF Over

LEMMA StatSums ==
    ASSUME NEW in, NEW S, IsFiniteSet(S),
           \A i \in S : Stat(in, i).lost \in Int /\ Stat(in, i).packets \in Int
    PROVE  /\ UdpLost(in, S) \in Int /\ UdpPackets(in, S) \in Int
           /\ (\A i \in S : Stat(in, i).lost <= Stat(in, i).packets)
                => UdpLost(in, S) <= UdpPackets(in, S)
           /\ (\A i \in S : Stat(in, i).lost = 0) => UdpLost(in, S) = 0
<1> DEFINE lost == [i \in S |-> Stat(in, i).lost]
           packets == [i \in S |-> Stat(in, i).packets]
<1>1. UdpLost(in, S) = SumFunction(lost) /\ UdpPackets(in, S) = SumFunction(packets)
  BY DEF UdpLost, UdpPackets, SumOf, Stat
<1>2. /\ lost \in [S -> Int] /\ packets \in [S -> Int]
      /\ \A i \in S : lost[i] = Stat(in, i).lost /\ packets[i] = Stat(in, i).packets
  OBVIOUS
<1>3. lost = [s \in S |-> lost[s]] /\ packets = [s \in S |-> packets[s]]
  OBVIOUS
<1> HIDE DEF lost, packets
<1>4. UdpLost(in, S) = Over(S, lost) /\ UdpPackets(in, S) = Over(S, packets)
  BY <1>1, <1>3 DEF Over
<1>5. UdpLost(in, S) \in Int /\ UdpPackets(in, S) \in Int
  <2>1. \A s \in S : lost[s] <= lost[s] /\ packets[s] <= packets[s]
    BY <1>2
  <2> QED BY <1>2, <1>4, <2>1, OverMonotone
<1>6. ASSUME \A i \in S : Stat(in, i).lost <= Stat(in, i).packets
      PROVE  UdpLost(in, S) <= UdpPackets(in, S)
  BY <1>2, <1>4, <1>6, OverMonotone
<1>7. ASSUME \A i \in S : Stat(in, i).lost = 0 PROVE UdpLost(in, S) = 0
  BY <1>2, <1>4, <1>7, OverNothing
<1> QED BY <1>5, <1>6, <1>7

\* Losses that are within a slack of a count stay within it when both are added
\* up, once for each stream.
LEMMA StatWithin ==
    ASSUME NEW in, NEW S, IsFiniteSet(S), NEW f, NEW c \in Nat,
           \A i \in S : Stat(in, i).lost \in Int,
           \A i \in S : f[i] \in Int,
           \A i \in S : Stat(in, i).lost <= f[i] + c
    PROVE  UdpLost(in, S) <= Over(S, f) + Cardinality(S) * c
<1> DEFINE lost == [i \in S |-> Stat(in, i).lost]
<1>1. UdpLost(in, S) = SumFunction(lost)
  BY DEF UdpLost, SumOf, Stat
<1>2. \A i \in S : lost[i] = Stat(in, i).lost
  OBVIOUS
<1>3. lost = [s \in S |-> lost[s]]
  OBVIOUS
<1> HIDE DEF lost
<1>4. UdpLost(in, S) = Over(S, lost)
  BY <1>1, <1>3 DEF Over
<1> QED BY <1>2, <1>4, OverWithin

\* What the sums of the server show: the loss of what it received, over what
\* it received, or over what it sent, of which it knows no loss.
LEMMA ServerLossSides ==
    ASSUME NEW in, in.udp, NEW b, b = ServerSums(in), NEW pkts, pkts = LocalSentPackets(in),
           NEW recv, recv = Dir(in, FALSE), NEW all, all = DOMAIN in.streams,
           NEW of, of = IF in.reverse THEN pkts ELSE UdpPackets(in, all),
           NEW lost, lost = IF in.reverse THEN 0 ELSE UdpLost(in, all)
    PROVE  /\ in.bidir =>
                /\ LossSide(b.sum_sent, 0, 0)
                /\ LossSide(b.sum_received, UdpLost(in, recv), UdpPackets(in, recv))
                /\ \E x : /\ LossSide(x, UdpLost(in, recv), UdpPackets(in, recv))
                          /\ b.sum = {x}
           /\ ~in.bidir =>
                /\ LossSide(b.sum_sent, 0, pkts)
                /\ LossSide(b.sum_received, UdpLost(in, all), of)
                /\ \E x : LossSide(x, lost, of) /\ b.sum = {x}
<1>1. ASSUME in.bidir
      PROVE  /\ LossSide(b.sum_sent, 0, 0)
             /\ LossSide(b.sum_received, UdpLost(in, recv), UdpPackets(in, recv))
             /\ \E x : /\ LossSide(x, UdpLost(in, recv), UdpPackets(in, recv))
                       /\ b.sum = {x}
  <2>1. LossSide(b.sum_sent, 0, 0)
    BY <1>1 DEF ServerSums, Sums, ZeroUdpSum, LossSide
  <2>2. LossSide(b.sum_received, UdpLost(in, recv), UdpPackets(in, recv))
    BY <1>1 DEF ServerSums, Sums, LossSide
  <2>3. \E x : LossSide(x, UdpLost(in, recv), UdpPackets(in, recv)) /\ b.sum = {x}
    <3> DEFINE mine == UdpSum(LocalBytes(in, FALSE), FALSE, UdpPackets(in, recv),
                              UdpLost(in, recv), UdpPackets(in, recv))
    <3>1. b.sum = {[mine EXCEPT !.bytes = 0]}
      BY <1>1 DEF ServerSums, Sums, Some
    <3>2. PICK n, f, p, l, x : /\ x = UdpSum(n, f, p, l, p) /\ x = mine
                               /\ l = UdpLost(in, recv) /\ p = UdpPackets(in, recv)
      OBVIOUS
    <3>3. [x EXCEPT !.bytes = 0] = UdpSum(0, f, p, l, p)
      <4>1. x = UdpSum(n, f, p, l, p)
        BY <3>2
      <4> QED BY <4>1 DEF UdpSum
    <3> HIDE DEF mine
    <3> QED BY <3>1, <3>2, <3>3 DEF LossSide
  <2> QED BY <2>1, <2>2, <2>3
<1>2. ASSUME ~in.bidir
      PROVE  /\ LossSide(b.sum_sent, 0, pkts)
             /\ LossSide(b.sum_received, UdpLost(in, all), of)
             /\ \E x : LossSide(x, lost, of) /\ b.sum = {x}
  <2>1. LossSide(b.sum_sent, 0, pkts)
    BY <1>2 DEF ServerSums, Sums, LossSide
  <2>2. LossSide(b.sum_received, UdpLost(in, all), of)
    <3> DEFINE mine == UdpSum(LocalBytes(in, FALSE), FALSE, UdpPackets(in, all),
                              UdpLost(in, all), UdpPackets(in, all))
    <3>1. b.sum_received = [mine EXCEPT !.percent_of = Some(of)]
      BY <1>2 DEF ServerSums, Sums
    <3>2. PICK n, f, p, l, x : /\ x = UdpSum(n, f, p, l, p) /\ x = mine
                               /\ l = UdpLost(in, all)
      OBVIOUS
    <3> HIDE DEF mine
    <3>4. [x EXCEPT !.percent_of = Some(of)] = UdpSum(n, f, p, l, of)
      <4>1. x = UdpSum(n, f, p, l, p)
        BY <3>2
      <4> QED BY <4>1 DEF UdpSum
    <3> QED BY <3>1, <3>2, <3>4 DEF LossSide
  <2>3. \E x : LossSide(x, lost, of) /\ b.sum = {x}
    BY <1>2 DEF ServerSums, Sums, LossSide, Some
  <2> QED BY <2>1, <2>2, <2>3
<1> QED BY <1>1, <1>2

\* The datagrams counted as sent, and any sum of them, are natural numbers.
LEMMA SentSums ==
    ASSUME NEW in, NEW S, S = Dir(in, TRUE), IsFiniteSet(S), NEW f,
           \A i \in S : SentDatagrams(in.streams[i]) = f[i] /\ f[i] \in Nat
    PROVE  LocalSentPackets(in) = Over(S, f) /\ Over(S, f) \in Nat
<1> DEFINE g == [i \in S |-> f[i]]
<1>1. LocalSentPackets(in) = SumFunction([i \in S |-> SentDatagrams(in.streams[i])])
  BY DEF LocalSentPackets, SumOf
<1>2. [i \in S |-> SentDatagrams(in.streams[i])] = g
  OBVIOUS
<1>3. g \in [S -> Nat]
  OBVIOUS
<1>4. SumFunction(g) \in Nat
  <2> HIDE DEF g
  <2> QED BY <1>3, SumOfNaturals
<1> QED BY <1>1, <1>2, <1>4 DEF Over

\* The input of a report of the server.
ServerInput(bare, error) ==
    [udp |-> test.udp, reverse |-> test.reverse, bidir |-> test.bidir,
     is_server |-> TRUE, bare_end |-> bare, error |-> error,
     local_has_retransmit_info |-> "server" \in Capable,
     peer_sender_has_retransmits |-> None, peer_congestion |-> None,
     server_output |-> None,
     streams |-> [s \in Streams |-> ServerStream(s)]]

LEMMA ServerInputShape ==
    ASSUME NEW bare, NEW error, NEW in, in = ServerInput(bare, error)
    PROVE  /\ in.udp = test.udp /\ in.bidir = test.bidir
           /\ in.reverse = test.reverse /\ in.is_server
           /\ DOMAIN in.streams = Streams
           /\ \A s \in Streams : in.streams[s] = ServerStream(s)
<1>1. /\ in.udp = test.udp /\ in.bidir = test.bidir
      /\ in.reverse = test.reverse /\ in.is_server
      /\ in.streams = [s \in Streams |-> ServerStream(s)]
  BY DEF ServerInput
<1> QED BY <1>1

LEMMA ServerSumLoss ==
    ASSUME Inv, ~test.omit, test.udp, NEW bare, NEW error
    PROVE  SumLossWithinBatch(ServerReport(bare, error))
<1>0. PICK in : in = ServerInput(bare, error)
  OBVIOUS
<1>1. /\ in.udp = test.udp /\ in.bidir = test.bidir
      /\ in.reverse = test.reverse /\ in.is_server
      /\ DOMAIN in.streams = Streams
      /\ \A s \in Streams : in.streams[s] = ServerStream(s)
  BY <1>0, ServerInputShape
<1>a. ServerReport(bare, error) = Build(in)
  BY <1>0 DEF ServerReport, ServerInput
<1>2. PICK b : b = ServerSums(in) /\ Build(in).sums \subseteq {b}
  <2>1. BuildSums(in) = ServerSums(in)
    BY <1>1 DEF BuildSums
  <2> QED BY <2>1 DEF Build, Then
<1>3. IsFiniteSet(Streams) /\ \A S \in SUBSET Streams : IsFiniteSet(S)
  BY Directions, FS_Subset DEF Inv
<1>4. ASSUME NEW s \in Streams
      PROVE  /\ Stat(in, s).lost \in Int /\ Stat(in, s).packets \in Int
             /\ Stat(in, s).lost <= Stat(in, s).packets
             /\ IsSender("server", s) => Stat(in, s).lost = 0
  <2>1. Stat(in, s) = UnwrapOr(ServerStream(s).udp, NoStats)
    BY <1>1 DEF Stat
  <2>2. CASE IsSender("server", s)
    <3>1. ServerStream(s).udp = None
      BY <2>2 DEF ServerStream, Then, None
    <3> QED BY <2>1, <3>1, UnwrapNone DEF NoStats
  <2>3. CASE ~IsSender("server", s)
    <3>1. ServerStream(s).udp = {MeasuredUdp(s)}
      BY <2>3 DEF ServerStream, Then
    <3>2. Stat(in, s) = MeasuredUdp(s)
      BY <2>1, <3>1, UnwrapSome
    <3> QED BY <2>3, <3>2, NoOmitNet, LossBelowWritten
  <2> QED BY <2>2, <2>3
<1>5. ASSUME NEW S \in SUBSET Streams
      PROVE  /\ UdpLost(in, S) \in Int /\ UdpPackets(in, S) \in Int
             /\ UdpLost(in, S) <= UdpPackets(in, S)
  BY <1>3, <1>4, StatSums
<1>6. LocalSentPackets(in) \in Nat
  <2> DEFINE S == Dir(in, TRUE)
             f == [s \in Streams |-> DatagramsNet(s)]
  <2>1. ASSUME NEW s \in S
        PROVE  SentDatagrams(in.streams[s]) = f[s] /\ f[s] \in Nat
    <3>1. s \in Streams /\ in.streams[s] = ServerStream(s) /\ in.streams[s].is_sender = TRUE
      BY <1>1 DEF Dir
    <3>2. IsSender("server", s)
      BY <3>1 DEF ServerStream
    <3>3. ServerStream(s).datagrams_sent = {DatagramsNet(s)}
      BY <3>2 DEF ServerStream, Then
    <3>4. DatagramsNet(s) \in Nat
      BY <3>1, NoOmitNet, LossBelowWritten
    <3>5. SentDatagrams(ServerStream(s)) = DatagramsNet(s)
      BY <3>3, UnwrapSome DEF SentDatagrams
    <3>6. f[s] = DatagramsNet(s)
      BY <3>1
    <3> HIDE DEF f
    <3> QED BY <3>1, <3>4, <3>5, <3>6
  <2>2. IsFiniteSet(S)
    BY <1>1, <1>3 DEF Dir
  <2> HIDE DEF f
  <2> QED BY <2>1, <2>2, SentSums
<1>7. Dir(in, FALSE) \in SUBSET Streams
  BY <1>1 DEF Dir
<1>8. ~in.bidir /\ in.reverse => UdpLost(in, Streams) = 0
  <2>1. ~in.bidir /\ in.reverse => \A s \in Streams : IsSender("server", s)
    BY <1>1, OneSender, Directions DEF Inv, Reverse
  <2> QED BY <1>3, <1>4, <2>1, StatSums
<1>b. SumSlack \in Nat
  BY SlackNatural
<1>9. ASSUME NEW x \in {b.sum_sent, b.sum_received} \cup b.sum
      PROVE  \E l, n : LossSide(x, l, n) /\ (n > 0 => l <= n + SumSlack)
  <2>1. CASE in.bidir
    <3>1. PICK l, n : l = UdpLost(in, Dir(in, FALSE)) /\ n = UdpPackets(in, Dir(in, FALSE))
      OBVIOUS
    <3>2. /\ LossSide(b.sum_sent, 0, 0) /\ LossSide(b.sum_received, l, n)
          /\ \E y : LossSide(y, l, n) /\ b.sum = {y}
      BY <1>1, <1>2, <2>1, <3>1, ServerLossSides
    <3>3. l <= n + SumSlack /\ 0 <= 0 + SumSlack
      <4>1. l <= n /\ l \in Int /\ n \in Int
        BY <1>5, <1>7, <3>1
      <4> QED BY <1>b, <4>1
    <3> QED BY <1>9, <3>2, <3>3
  <2>2. CASE ~in.bidir
    <3>1. PICK all, pkts, of, lost :
             /\ all = DOMAIN in.streams /\ pkts = LocalSentPackets(in)
             /\ of = IF in.reverse THEN pkts ELSE UdpPackets(in, all)
             /\ lost = IF in.reverse THEN 0 ELSE UdpLost(in, all)
      OBVIOUS
    <3>2. /\ LossSide(b.sum_sent, 0, pkts)
          /\ LossSide(b.sum_received, UdpLost(in, all), of)
          /\ \E y : LossSide(y, lost, of) /\ b.sum = {y}
      <4>1. in.udp /\ b = ServerSums(in) /\ ~in.bidir
        BY <1>1, <1>2, <2>2
      <4>2. PICK recv : recv = Dir(in, FALSE)
        OBVIOUS
      <4> QED BY <3>1, <4>1, <4>2, ServerLossSides, Zenon
    <3>3. /\ UdpLost(in, all) <= of + SumSlack /\ lost <= of + SumSlack
          /\ 0 <= pkts + SumSlack
      BY <1>b, <1>1, <1>5, <1>6, <1>8, <2>2, <3>1
    <3> QED BY <1>9, <3>2, <3>3
  <2> QED BY <2>1, <2>2
<1>10. \A x \in {b.sum_sent, b.sum_received} \cup b.sum :
          \A a \in x.lost, p \in x.percent_of : p > 0 => a <= p + SumSlack
  BY <1>9, LossSideWithin
<1> QED BY <1>a, <1>2, <1>10 DEF SumLossWithinBatch

\* What the sums of the client show: the loss of the streams it sends on a test
\* in both directions, else of all, over the count of the sender or, when that
\* is zero, over what was received.
LEMMA ClientBidirLossSides ==
    ASSUME NEW in, in.udp, ~in.is_server, in.bidir, NEW b, b = BuildSums(in),
           NEW l, l = UdpLost(in, Dir(in, TRUE)), NEW pkts, pkts = LocalSentPackets(in),
           NEW n, n = Positive(pkts, UdpPackets(in, Dir(in, TRUE)))
    PROVE  /\ LossSide(b.sum_sent, 0, pkts) /\ LossSide(b.sum_received, l, n)
           /\ \E x : LossSide(x, l, n) /\ b.sum = {x}
<1>1. b = ClientUdpBidirSums(in)
  BY DEF BuildSums
<1>2. LossSide(b.sum_sent, 0, pkts)
  BY <1>1, Zenon DEF ClientUdpBidirSums, Sums, LossSide
<1>3. LossSide(b.sum_received, l, n)
  BY <1>1, Zenon DEF ClientUdpBidirSums, Sums, LossSide
<1>4. \E x : LossSide(x, l, n) /\ b.sum = {x}
  BY <1>1, Zenon DEF ClientUdpBidirSums, Sums, LossSide, Some
<1> QED BY <1>2, <1>3, <1>4

\* The datagrams a client's one-way sums name: its own count, the server's, or
\* the blocks in the bytes.
OneWayPackets(in) ==
    IF ~in.reverse /\ LocalBytes(in, TRUE) > 0 THEN LocalSentPackets(in)
    ELSE UnwrapOr(Gated(ExchangedSentPackets(in, FALSE), ~(~in.reverse)),
                  Positive(LocalBytes(in, TRUE), UnwrapOr(PeerBytes(in, FALSE), 0)))

LEMMA ClientOneWayLossSides ==
    ASSUME NEW in, in.udp, ~in.is_server, ~in.bidir, NEW b, b = BuildSums(in),
           NEW l, l = UdpLost(in, DOMAIN in.streams), NEW pkts, pkts = OneWayPackets(in),
           NEW n, n = Positive(pkts, UdpPackets(in, DOMAIN in.streams))
    PROVE  /\ LossSide(b.sum_sent, 0, pkts) /\ LossSide(b.sum_received, l, n)
           /\ \E x : LossSide(x, l, n) /\ b.sum = {x}
<1> DEFINE own_sent == Positive(LocalBytes(in, TRUE), UnwrapOr(PeerBytes(in, FALSE), 0))
           own_recv == Positive(LocalBytes(in, FALSE), UnwrapOr(PeerBytes(in, TRUE), 0))
<1>1. b = ClientUdpSums(in)
  BY DEF BuildSums
<1>2. b.sum_sent = UdpSum(own_sent, TRUE, pkts, 0, pkts)
  BY <1>1, Zenon DEF ClientUdpSums, Sums, OneWayPackets
<1>3. b.sum_received = UdpSum(own_recv, FALSE, UdpPackets(in, DOMAIN in.streams), l, n)
  BY <1>1, Zenon DEF ClientUdpSums, Sums, OneWayPackets
<1>4. LossSide(b.sum_sent, 0, pkts)
  BY <1>2 DEF LossSide
<1>5. LossSide(b.sum_received, l, n)
  BY <1>3 DEF LossSide
<1>6. \E x : LossSide(x, l, n) /\ b.sum = {x}
  BY <1>1, Zenon DEF ClientUdpSums, Sums, LossSide, Some, OneWayPackets
<1> QED BY <1>4, <1>5, <1>6

\* What is known of the results the client holds.
LEMMA RemoteTaken ==
    ASSUME Inv, ~test.omit, test.udp, NEW remote \in {None, reply}
    PROVE  /\ IsOption(remote)
           /\ \A r : remote = {r} =>
                \A s \in Streams : /\ TakenInv(r.streams[s], s)
                                   /\ PeerOmitted(r.streams[s], LocalOmitted("client", s))
                                         = [errors |-> 0, packets |-> 0]
<1>1. remote = None \/ \E r : remote = {r} /\ r \in server_results
  <2>1. reply \in {None, server_results}
    BY DEF Inv, ServerResultsInv
  <2>2. server_results = None \/ \E r \in server_results : server_results = {r}
    BY DEF Inv, ServerResultsInv
  <2> QED BY <2>1, <2>2
<1>2. ASSUME NEW r, remote = {r}, NEW s \in Streams
      PROVE  /\ TakenInv(r.streams[s], s)
             /\ PeerOmitted(r.streams[s], LocalOmitted("client", s))
                   = [errors |-> 0, packets |-> 0]
  <2>1. r \in server_results
    BY <1>1, <1>2 DEF None
  <2>2. TakenInv(r.streams[s], s)
    BY <2>1 DEF Inv, ServerResultsInv
  <2>3. r.streams[s].omitted = {[errors |-> 0, packets |-> 0]}
    BY <2>2 DEF TakenInv, Some
  <2> QED BY <2>2, <2>3, UnwrapSome DEF PeerOmitted
<1> QED BY <1>1, <1>2 DEF IsOption

\* The datagrams the client counted on its streams, and those the server's
\* results tell.
Grams == [s \in Streams |-> DatagramsNet(s)]
ToldGrams(remote) ==
    [s \in Streams |-> UnwrapOr({r.streams[s].packets : r \in remote}, 0)]

LEMMA ToldGramsShape ==
    ASSUME NEW remote, NEW s \in Streams
    PROVE  \A r : remote = {r} => ToldGrams(remote)[s] = r.streams[s].packets
<1>1. \A r : remote = {r} => {q.streams[s].packets : q \in remote} = {r.streams[s].packets}
  OBVIOUS
<1> QED BY <1>1, UnwrapSome DEF ToldGrams

\* The datagram statistics of a stream in the client's input: within a batch of
\* its own count on a stream it sends, below what it and within a batch of what
\* the server counted on one it receives.
LEMMA ClientStats ==
    ASSUME Inv, ~test.omit, test.udp, NEW remote \in {None, reply},
           NEW s \in Streams, NEW u, u = UnwrapOr(ClientStream(s, remote).udp, NoStats)
    PROVE  /\ u.lost \in Int /\ u.packets \in Int
           /\ IsSender("client", s) =>
                 /\ Grams[s] = DatagramsNet(s) /\ Grams[s] \in Nat
                 /\ Own[s] \in Nat /\ Grams[s] <= Own[s]
                 /\ u.lost <= Grams[s] + StreamSlack
           /\ ~IsSender("client", s) => u.lost <= u.packets
           /\ \A r : ~IsSender("client", s) /\ remote = {r} =>
                 /\ Claimed(r, s) = r.streams[s].packets
                 /\ r.streams[s].packets \in Nat /\ r.streams[s].bytes \in Int
                 /\ r.streams[s].packets <= r.streams[s].bytes
                 /\ u.lost <= r.streams[s].packets + StreamSlack
<1>0. /\ IsOption(remote)
      /\ \A r : remote = {r} =>
           /\ TakenInv(r.streams[s], s)
           /\ PeerOmitted(r.streams[s], LocalOmitted("client", s))
                 = [errors |-> 0, packets |-> 0]
  BY RemoteTaken
<1>a. StreamSlack \in Nat /\ test.batch = StreamSlack + 1
  BY SlackNatural
<1>1. CASE IsSender("client", s)
  <2>1. /\ Own[s] = sent[s].n
        /\ Grams[s] = DatagramsNet(s) /\ Grams[s] = sent[s].datagrams
    BY <1>1, NoOmitNet DEF Own, Grams, LocalBytesOf
  <2>2. /\ sent[s].n \in Nat /\ sent[s].datagrams \in Nat
        /\ sent[s].datagrams <= sent[s].n /\ rcvd[s].errors \in Nat
        /\ rcvd[s].errors <= sent[s].datagrams + StreamSlack
    BY LossBelowWritten
  <2>3. ASSUME remote = None
        PROVE  u.lost \in Int /\ u.packets \in Int /\ u.lost <= Grams[s] + StreamSlack
    <3>1. u = NoStats
      BY <1>1, <2>3, ClientStreamUntold, UnwrapNone
    <3>2. u.lost = 0 /\ u.packets = 0
      BY <3>1 DEF NoStats
    <3> QED BY <1>a, <2>1, <2>2, <3>2
  <2>4. ASSUME NEW r, remote = {r}
        PROVE  u.lost \in Int /\ u.packets \in Int /\ u.lost <= rcvd[s].errors
    <3> DEFINE x == r.streams[s]
               o == PeerOmitted(x, LocalOmitted("client", s))
    <3>1. o.errors = 0 /\ o.packets = 0 /\ TakenInv(x, s)
      BY <1>0, <2>4
    <3>2. ~IsSender("server", s)
      BY <1>1, OneSender
    <3>3. x.errors \in Nat /\ x.packets \in Nat /\ x.errors <= rcvd[s].errors
      <4> HIDE DEF x, o
      <4> QED BY <3>1, <3>2 DEF TakenInv
    <3>4. ClientStream(s, remote).udp
            = {[lost |-> x.errors - o.errors, packets |-> x.packets - o.packets]}
      BY <1>1, <2>4, ClientStreamTold
    <3>5. u = [lost |-> x.errors - o.errors, packets |-> x.packets - o.packets]
      BY <3>4, UnwrapSome
    <3> HIDE DEF x, o
    <3> QED BY <3>1, <3>3, <3>5
  <2>5. u.lost \in Int /\ u.packets \in Int /\ u.lost <= Grams[s] + StreamSlack
    <3>1. CASE \E r : remote = {r}
      <4>1. PICK r : remote = {r}
        BY <3>1
      <4>2. u.lost \in Int /\ u.packets \in Int /\ u.lost <= rcvd[s].errors
        BY <2>4, <4>1
      <4> QED BY <1>a, <2>1, <2>2, <4>2
    <3> QED BY <1>0, <2>3, <3>1 DEF IsOption
  <2>6. Grams[s] \in Nat /\ Own[s] \in Nat /\ Grams[s] <= Own[s]
    BY <2>1, <2>2
  <2> QED BY <1>1, <2>1, <2>5, <2>6
<1>2. CASE ~IsSender("client", s)
  <2>1. u = MeasuredUdp(s)
    <3>1. ClientStream(s, remote).udp = {MeasuredUdp(s)}
      BY <1>2, ClientStreamShape DEF Some
    <3> QED BY <3>1, UnwrapSome
  <2>2. /\ u.lost = rcvd[s].errors /\ u.packets = rcvd[s].packets
        /\ rcvd[s].errors \in Nat /\ rcvd[s].packets \in Nat
        /\ rcvd[s].errors <= rcvd[s].packets
    BY <2>1, NoOmitNet, LossBelowWritten
  <2>3. ASSUME NEW r, remote = {r}
        PROVE  /\ Claimed(r, s) = r.streams[s].packets
               /\ r.streams[s].packets \in Nat /\ r.streams[s].bytes \in Int
               /\ r.streams[s].packets <= r.streams[s].bytes
               /\ u.lost <= r.streams[s].packets + StreamSlack
    <3> DEFINE x == r.streams[s]
    <3>1. TakenInv(x, s) /\ IsSender("server", s)
      BY <1>0, <1>2, <2>3, OneSender
    <3>2. PeerOmitted(x, LocalOmitted("client", s)).packets = 0
      BY <1>0, <2>3
    <3>3. /\ x.packets \in Nat /\ x.bytes \in Int /\ x.packets <= x.bytes
          /\ wire[s] <= x.packets + test.batch
      <4> HIDE DEF x
      <4> QED BY <3>1 DEF TakenInv
    <3>4. Claimed(r, s) = x.packets
      BY <3>2, <3>3 DEF Claimed
    <3>5. wire[s] \in Nat
      BY DEF Inv, TypeOK
    <3>7. rcvd[s].errors > 0 => rcvd[s].errors + 1 <= wire[s]
      BY LossBelowWritten
    <3>6. rcvd[s].errors <= x.packets + StreamSlack
      <4> HIDE DEF x
      <4> QED BY <1>a, <2>2, <3>3, <3>5, <3>7
    <3> QED BY <2>2, <3>3, <3>4, <3>6
  <2> QED BY <1>2, <2>2, <2>3
<1> QED BY <1>1, <1>2

\* A UDP test without an omitted period.
UdpWhole == ~test.omit /\ test.udp

\* The datagrams the server says it sent, where the client only receives: absent
\* without its results, else what they tell, or absent where one stream sent none.
LEMMA ExchangedTold ==
    ASSUME Inv, UdpWhole, NEW remote \in {None, reply},
           NEW bare, NEW error, NEW in, in = ClientInput(remote, bare, error),
           Reverse # {}
    PROVE  \/ ExchangedSentPackets(in, FALSE) = None
           \/ /\ remote # None
              /\ ExchangedSentPackets(in, FALSE) = {Over(Reverse, ToldGrams(remote))}
<1> DEFINE count(i) == {p \in in.streams[i].remote_packets : p > 0}
           all == \A i \in Reverse : IsSome(count(i))
           total == SumFunction([i \in Reverse |-> UnwrapOr(count(i), 0)])
<1>1. Dir(in, FALSE) = Reverse
  BY ClientDirections
<1>2. ExchangedSentPackets(in, FALSE) = Then(Reverse # {} /\ all, total)
  BY <1>1 DEF ExchangedSentPackets, SumOf
<1>3. ASSUME NEW s \in Reverse
      PROVE  s \in Streams /\ ~IsSender("client", s)
             /\ in.streams[s] = ClientStream(s, remote)
  <2>1. \A i \in Streams : in.streams[i] = ClientStream(i, remote)
    BY ClientInputShape
  <2> QED BY <2>1 DEF Reverse
<1>4. CASE remote = None
  <2>1. ASSUME NEW s \in Reverse PROVE count(s) = None
    <3>1. in.streams[s].remote_packets = None
      BY <1>3, <1>4, ClientStreamUntold
    <3> QED BY <3>1 DEF None
  <2>2. ~all
    BY <2>1 DEF IsSome
  <2> HIDE DEF all, total
  <2> QED BY <1>2, <2>2 DEF Then, None
<1>5. ASSUME NEW r, remote = {r}, all
      PROVE  total = Over(Reverse, ToldGrams(remote))
  <2>1. ASSUME NEW s \in Reverse PROVE UnwrapOr(count(s), 0) = ToldGrams(remote)[s]
    <3>1. in.streams[s].remote_packets = {Claimed(r, s)}
      BY <1>3, <1>5, ClientStreamTold DEF Claimed
    <3>2. ToldGrams(remote)[s] = r.streams[s].packets
      BY <1>3, <1>5, ToldGramsShape
    <3>3. Claimed(r, s) = r.streams[s].packets
      BY <1>3, <1>5, ClientStats DEF UdpWhole
    <3>4. IsSome(count(s))
      BY <1>5
    <3>5. count(s) = {Claimed(r, s)}
      <4> HIDE DEF all, total
      <4> QED BY <3>1, <3>4, UnwrapPositive DEF IsSome
    <3> HIDE DEF count
    <3> QED BY <3>2, <3>3, <3>5, UnwrapSome
  <2>2. [i \in Reverse |-> UnwrapOr(count(i), 0)] = [s \in Reverse |-> ToldGrams(remote)[s]]
    BY <2>1
  <2> QED BY <2>2 DEF Over
<1>6. IsOption(remote)
  BY RemoteTaken DEF UdpWhole
<1> HIDE DEF all, total
<1>7. CASE \E r : remote = {r}
  <2>1. PICK r : remote = {r}
    BY <1>7
  <2>2. remote # None
    BY <2>1 DEF None
  <2> QED BY <1>2, <1>5, <2>1, <2>2 DEF Then, None
<1> QED BY <1>4, <1>6, <1>7 DEF IsOption

\* A client that sends on a one-way test names its own count, or zero before any
\* byte is counted; one that receives the server's or, without it, the blocks in
\* the server's bytes.
LEMMA OneWayForward ==
    ASSUME NEW in, ~in.reverse, PeerBytes(in, FALSE) = None,
           NEW k \in Nat, k = LocalBytes(in, TRUE),
           NEW m \in Nat, m = LocalSentPackets(in), m <= k
    PROVE  OneWayPackets(in) = m
<1>1. UnwrapOr(PeerBytes(in, FALSE), 0) = 0
  BY UnwrapNone
<1>2. Gated(ExchangedSentPackets(in, FALSE), ~(~in.reverse)) = None
  BY DEF Gated
<1>3. UnwrapOr(None, Positive(k, 0)) = Positive(k, 0)
  BY UnwrapNone
<1>4. Positive(k, 0) = k
  <2>1. \A n \in Nat : Positive(n, 0) = n
    BY DEF Positive
  <2> QED BY <2>1
<1>5. CASE k > 0
  BY <1>5 DEF OneWayPackets
<1>6. CASE ~(k > 0)
  <2>1. m = 0 /\ k = 0
    <3>1. \A x, y \in Nat : y <= x /\ ~(x > 0) => y = 0 /\ x = 0
      OBVIOUS
    <3> QED BY <1>6, <3>1
  <2>2. OneWayPackets(in) = k
    BY <1>1, <1>2, <1>3, <1>4, <1>6 DEF OneWayPackets
  <2> QED BY <2>1, <2>2
<1> QED BY <1>5, <1>6

LEMMA OneWayReverse ==
    ASSUME NEW in, in.reverse, LocalBytes(in, TRUE) = 0
    PROVE  OneWayPackets(in) = UnwrapOr(ExchangedSentPackets(in, FALSE),
                                        UnwrapOr(PeerBytes(in, FALSE), 0))
<1>1. Gated(ExchangedSentPackets(in, FALSE), ~(~in.reverse))
        = ExchangedSentPackets(in, FALSE)
  BY DEF Gated
<1>2. \A x : Positive(0, x) = x
  BY DEF Positive
<1> QED BY <1>1, <1>2 DEF OneWayPackets

\* A direction has as many streams as the test asks for.
LEMMA DirectionSizes ==
    ASSUME Inv
    PROVE  /\ Forward # {} => Cardinality(Forward) = test.parallel
           /\ ~test.bidir => Cardinality(Streams) = test.parallel
<1>1. test.parallel \in Int /\ test.parallel >= 1 /\ 1 \in Int
  BY ConstantsAssumption DEF Inv, TypeOK, TestParams
<1>2. Cardinality(1..test.parallel) = test.parallel
  <2>1. Cardinality(1..test.parallel) = test.parallel - 1 + 1
    BY <1>1, FS_Interval
  <2> QED BY <1>1, <2>1
<1>3. ~test.bidir => Streams = 1..test.parallel
  BY DEF Streams
<1>4. Forward # {} => Forward = 1..test.parallel
  BY <1>3, Directions DEF Inv
<1> QED BY <1>2, <1>3, <1>4

LEMMA ClientSumLoss ==
    ASSUME Inv, UdpWhole, NEW bare, NEW remote \in {None, reply},
           NEW error
    PROVE  SumLossWithinBatch(Rendered(remote, bare, error).json)
<1>0. PICK in : in = ClientInput(remote, bare, error)
  OBVIOUS
<1>1. /\ in.udp /\ in.bidir = test.bidir /\ in.reverse = test.reverse
      /\ ~in.is_server /\ DOMAIN in.streams = Streams
      /\ \A s \in Streams : in.streams[s] = ClientStream(s, remote)
  <2>1. in.udp = test.udp /\ in.reverse = test.reverse
        /\ in.bidir = test.bidir /\ ~in.is_server
    BY <1>0, ClientInputShape
  <2>2. DOMAIN in.streams = Streams
        /\ \A s \in Streams : in.streams[s] = ClientStream(s, remote)
    BY <1>0, ClientInputShape
  <2> QED BY <2>1, <2>2 DEF UdpWhole
<1>2. PICK b : b = BuildSums(in) /\ Build(in).sums \subseteq {b}
  BY DEF Build, Then
<1>a. Rendered(remote, bare, error).json = Build(in)
  BY <1>0 DEF Rendered
<1>3. IsFiniteSet(Streams) /\ \A S \in SUBSET Streams : IsFiniteSet(S)
  BY Directions, FS_Subset DEF Inv
<1>4. Dir(in, TRUE) = Forward /\ Dir(in, FALSE) = Reverse
      /\ Forward \in SUBSET Streams /\ Reverse \in SUBSET Streams
  BY <1>0, ClientDirections DEF Forward, Reverse
<1>5. ASSUME NEW s \in Streams
      PROVE  /\ Stat(in, s).lost \in Int /\ Stat(in, s).packets \in Int
             /\ s \in Forward => /\ Grams[s] \in Nat /\ Own[s] \in Nat
                                 /\ Grams[s] <= Own[s]
                                 /\ Stat(in, s).lost <= Grams[s] + StreamSlack
             /\ s \notin Forward => Stat(in, s).lost <= Stat(in, s).packets
             /\ \A r : s \notin Forward /\ remote = {r} =>
                  /\ r.streams[s].packets \in Nat /\ r.streams[s].bytes \in Int
                  /\ r.streams[s].packets <= r.streams[s].bytes
                  /\ Stat(in, s).lost <= r.streams[s].packets + StreamSlack
  <2>1. Stat(in, s) = UnwrapOr(ClientStream(s, remote).udp, NoStats)
    BY <1>1 DEF Stat
  <2> QED BY <2>1, ClientStats DEF Forward, UdpWhole
<1>6. ASSUME NEW S \in SUBSET Streams
      PROVE  UdpLost(in, S) \in Int /\ UdpPackets(in, S) \in Int
  BY <1>3, <1>5, StatSums
<1>c. StreamSlack \in Nat /\ SumSlack \in Nat /\ SumSlack = test.parallel * StreamSlack
  BY SlackNatural
<1>d. /\ Forward # {} => Cardinality(Forward) = test.parallel
      /\ ~test.bidir => Cardinality(Streams) = test.parallel
  BY DirectionSizes
<1>7. Forward # {} => UdpLost(in, Forward) <= Over(Forward, Grams) + SumSlack
  <2>1. UdpLost(in, Forward)
          <= Over(Forward, Grams) + Cardinality(Forward) * StreamSlack
    <3>1. \A s \in Forward : Stat(in, s).lost \in Int /\ Grams[s] \in Int
      BY <1>4, <1>5
    <3>2. \A s \in Forward : Stat(in, s).lost <= Grams[s] + StreamSlack
      BY <1>4, <1>5
    <3> QED BY <1>c, <1>3, <1>4, <3>1, <3>2, StatWithin
  <2> QED BY <1>c, <1>d, <2>1
<1>8. LocalSentPackets(in) = Over(Forward, Grams) /\ Over(Forward, Grams) \in Nat
  <2>1. ASSUME NEW s \in Forward
        PROVE  SentDatagrams(in.streams[s]) = Grams[s] /\ Grams[s] \in Nat
    <3>1. s \in Streams /\ IsSender("client", s) /\ in.streams[s] = ClientStream(s, remote)
      BY <1>1 DEF Forward
    <3>2. Grams[s] = DatagramsNet(s) /\ Grams[s] \in Nat
      BY <3>1, ClientStats DEF UdpWhole
    <3>3. ClientStream(s, remote).datagrams_sent = {DatagramsNet(s)}
      BY <3>1, ClientStreamShape DEF Then, UdpWhole
    <3>4. SentDatagrams(ClientStream(s, remote)) = DatagramsNet(s)
      BY <3>3, UnwrapSome DEF SentDatagrams
    <3> QED BY <3>1, <3>2, <3>4
  <2> QED BY <1>3, <1>4, <2>1, SentSums
<1>9. LocalBytes(in, TRUE) = Over(Forward, Own)
  BY <1>0, LocalSums
<1>e. Over(Forward, Own) \in Nat /\ Over(Forward, Grams) <= Over(Forward, Own)
  <2>1. Over(Forward, Own) \in Nat
    BY <1>4, OwnNatural
  <2>2. Over(Forward, Grams) <= Over(Forward, Own)
    BY <1>3, <1>4, <1>5, OverMonotone
  <2> QED BY <2>1, <2>2
<1>b. PeerBytes(in, FALSE) = IF remote = None \/ Reverse = {} THEN None
                             ELSE {Over(Reverse, Told(remote))}
  <2>1. TypeOK /\ IsOption(remote)
    BY RemoteTaken DEF Inv, UdpWhole
  <2>2. ASSUME NEW want \in BOOLEAN, NEW S, S = Dir(in, want)
        PROVE  PeerBytes(in, want) = IF remote = None \/ S = {} THEN None
                                     ELSE {Over(S, Told(remote))}
    BY <1>0, <2>1, <2>2, PeerSums
  <2> QED BY <1>4, <2>2
<1>10. ASSUME NEW x \in {b.sum_sent, b.sum_received} \cup b.sum
       PROVE  \E l, n : LossSide(x, l, n) /\ (n > 0 => l <= n + SumSlack)
  <2>1. CASE in.bidir
    <3>1. PICK l, pkts, n :
             /\ l = UdpLost(in, Dir(in, TRUE)) /\ pkts = LocalSentPackets(in)
             /\ n = Positive(pkts, UdpPackets(in, Dir(in, TRUE)))
      OBVIOUS
    <3>2. /\ LossSide(b.sum_sent, 0, pkts) /\ LossSide(b.sum_received, l, n)
          /\ \E y : LossSide(y, l, n) /\ b.sum = {y}
      <4>1. in.udp /\ ~in.is_server /\ b = BuildSums(in)
        BY <1>1, <1>2
      <4> QED BY <2>1, <3>1, <4>1, ClientBidirLossSides, Zenon
    <3>3. l = UdpLost(in, Forward) /\ pkts = Over(Forward, Grams)
          /\ n = Positive(pkts, UdpPackets(in, Forward))
      BY <1>4, <1>8, <3>1
    <3>4. Forward # {}
      BY <1>1, <2>1, Directions DEF Inv
    <3>5. n > 0 => l <= n + SumSlack
      BY <1>c, <1>4, <1>6, <1>7, <1>8, <3>3, <3>4 DEF Positive
    <3>6. 0 <= pkts + SumSlack
      BY <1>c, <1>8, <3>3
    <3> QED BY <1>10, <3>2, <3>5, <3>6
  <2>2. CASE ~in.bidir
    <3>1. PICK l, pkts, n :
             /\ l = UdpLost(in, DOMAIN in.streams) /\ pkts = OneWayPackets(in)
             /\ n = Positive(pkts, UdpPackets(in, DOMAIN in.streams))
      OBVIOUS
    <3>2. /\ LossSide(b.sum_sent, 0, pkts) /\ LossSide(b.sum_received, l, n)
          /\ \E y : LossSide(y, l, n) /\ b.sum = {y}
      <4>1. in.udp /\ ~in.is_server /\ b = BuildSums(in)
        BY <1>1, <1>2
      <4> QED BY <2>2, <3>1, <4>1, ClientOneWayLossSides, Zenon
    <3>3. l = UdpLost(in, Streams) /\ n = Positive(pkts, UdpPackets(in, Streams))
      BY <1>1, <3>1
    <3>4. pkts \in Nat /\ (n > 0 => l <= n + SumSlack)
      <4>1. CASE ~in.reverse
        <5>1. Forward = Streams /\ Reverse = {}
          BY <1>1, <2>2, <4>1, Directions DEF Inv
        <5>2. PeerBytes(in, FALSE) = None
          BY <1>b, <5>1
        <5>3. pkts = Over(Forward, Grams)
          BY <1>8, <1>9, <1>e, <3>1, <4>1, <5>2, OneWayForward
        <5>4. Forward # {}
          BY <5>1, Directions DEF Inv
        <5> QED BY <1>c, <1>6, <1>7, <1>8, <3>3, <5>1, <5>3, <5>4 DEF Positive
      <4>2. CASE in.reverse
        <5>1. Forward = {} /\ Reverse = Streams /\ Reverse # {}
          BY <1>1, <2>2, <4>2, Directions DEF Inv
        <5>2. LocalBytes(in, TRUE) = 0
          BY <1>3, <1>4, <1>9, <5>1, OverNothing
        <5>3. UdpLost(in, Streams) <= UdpPackets(in, Streams)
          BY <1>3, <1>5, <5>1, StatSums
        <5>4. pkts = UnwrapOr(ExchangedSentPackets(in, FALSE),
                              UnwrapOr(PeerBytes(in, FALSE), 0))
          BY <3>1, <4>2, <5>2, OneWayReverse
        <5>5. \/ ExchangedSentPackets(in, FALSE) = None
              \/ /\ remote # None
                 /\ ExchangedSentPackets(in, FALSE) = {Over(Reverse, ToldGrams(remote))}
          BY <1>0, <5>1, ExchangedTold
        <5>6. CASE remote = None
          <6>1. pkts = 0
            BY <1>b, <5>4, <5>5, <5>6, UnwrapNone
          <6> QED BY <1>c, <1>6, <3>3, <5>3, <6>1 DEF Positive
        <5>7. CASE \E r : remote = {r}
          <6>1. PICK r : remote = {r}
            BY <5>7
          <6>2. remote # None
            BY <6>1 DEF None
          <6>3. \/ pkts = Over(Streams, Told(remote))
                \/ pkts = Over(Streams, ToldGrams(remote))
            BY <1>b, <5>1, <5>4, <5>5, <6>2, UnwrapSome, UnwrapNone
          <6>4. ASSUME NEW s \in Streams
                PROVE  /\ Told(remote)[s] \in Int /\ ToldGrams(remote)[s] \in Nat
                       /\ ToldGrams(remote)[s] <= Told(remote)[s]
                       /\ Stat(in, s).lost <= ToldGrams(remote)[s] + StreamSlack
            <7>1. Told(remote)[s] = r.streams[s].bytes
              BY <6>1, ToldShape
            <7>2. ToldGrams(remote)[s] = r.streams[s].packets
              BY <6>1, ToldGramsShape
            <7> QED BY <1>5, <5>1, <6>1, <7>1, <7>2
          <6>5. Over(Streams, ToldGrams(remote)) \in Nat
            <7> DEFINE f == [s \in Streams |-> ToldGrams(remote)[s]]
            <7>1. f \in [Streams -> Nat]
              BY <6>4
            <7>2. SumFunction(f) \in Nat
              <8> HIDE DEF f
              <8> QED BY <1>3, <7>1, SumOfNaturals
            <7> QED BY <7>2 DEF Over
          <6>6. UdpLost(in, Streams) <= Over(Streams, ToldGrams(remote)) + SumSlack
            <7>1. UdpLost(in, Streams) <= Over(Streams, ToldGrams(remote))
                                            + Cardinality(Streams) * StreamSlack
              <8>1. \A s \in Streams : /\ Stat(in, s).lost \in Int
                                       /\ ToldGrams(remote)[s] \in Int
                BY <1>5, <6>4
              <8>2. \A s \in Streams :
                       Stat(in, s).lost <= ToldGrams(remote)[s] + StreamSlack
                BY <6>4
              <8> QED BY <1>c, <1>3, <8>1, <8>2, StatWithin
            <7>2. Cardinality(Streams) = test.parallel
              BY <1>d, <1>1, <2>2
            <7> QED BY <1>c, <7>1, <7>2
          <6>7. /\ Over(Streams, Told(remote)) \in Int
                /\ Over(Streams, ToldGrams(remote)) <= Over(Streams, Told(remote))
            BY <1>3, <6>4, OverMonotone
          <6>8. pkts \in Nat /\ l <= pkts + SumSlack
            BY <1>c, <1>6, <3>3, <6>3, <6>5, <6>6, <6>7
          <6> QED BY <1>c, <1>6, <3>3, <5>3, <6>8 DEF Positive
        <5>8. IsOption(remote)
          BY RemoteTaken DEF UdpWhole
        <5> QED BY <5>6, <5>7, <5>8 DEF IsOption
      <4> QED BY <4>1, <4>2
    <3>5. 0 <= pkts + SumSlack
      BY <1>c, <3>4
    <3> QED BY <1>10, <3>2, <3>4, <3>5
  <2> QED BY <2>1, <2>2
<1>11. \A x \in {b.sum_sent, b.sum_received} \cup b.sum :
          \A l \in x.lost, p \in x.percent_of : p > 0 => l <= p + SumSlack
  BY <1>10, LossSideWithin
<1> QED BY <1>a, <1>2, <1>11 DEF SumLossWithinBatch

-----------------------------------------------------------------------------
(* The steps of the stream tasks and of the reporters. *)

\* They leave the control sides and the documents alone.
TaskFrame == UNCHANGED <<test, done, cl, sv, docVars>>

\* What a document says does not depend on the counters.
LEMMA DocSays ==
    ASSUME NEW d, test' = test
    PROVE  /\ Streams' = Streams
           /\ \A own, theirs : ShowsStreams(d, own, theirs)' <=> ShowsStreams(d, own, theirs)
           /\ \A own, theirs : ShowsSums(d, own, theirs)' <=> ShowsSums(d, own, theirs)
           /\ TextAgrees(d)' <=> TextAgrees(d)
           /\ OwnFigures(d)' = OwnFigures(d)
           /\ reply' = reply => /\ PeerFigures' = PeerFigures
                               /\ KnownPeerFigures(d)' = KnownPeerFigures(d)
<1>1. Streams' = Streams
  BY DEF Streams
<1>2. ASSUME NEW s PROVE IsSender("client", s)' <=> IsSender("client", s)
  BY DEF IsSender, SenderOf
<1>3. ASSUME NEW s, NEW x PROVE Unclaimed(x, s)' <=> Unclaimed(x, s)
  BY <1>2 DEF Unclaimed
<1>4. ASSUME NEW own, NEW theirs
      PROVE  ShowsStreams(d, own, theirs)' <=> ShowsStreams(d, own, theirs)
  BY <1>1, <1>2, <1>3 DEF ShowsStreams, SenderFigure, ReceiverFigure
<1>8. ASSUME NEW own, NEW theirs
      PROVE  ShowsSums(d, own, theirs)' <=> ShowsSums(d, own, theirs)
  BY <1>1 DEF ShowsSums, SenderFigure, ReceiverFigure, IsSender, SenderOf
<1>5. TextAgrees(d)' <=> TextAgrees(d)
  BY <1>1, <1>3 DEF TextAgrees
<1>6. OwnFigures(d)' = OwnFigures(d)
  BY <1>1 DEF OwnFigures
<1>7. ASSUME reply' = reply
      PROVE  PeerFigures' = PeerFigures /\ KnownPeerFigures(d)' = KnownPeerFigures(d)
  BY <1>1, <1>7 DEF PeerFigures, KnownPeerFigures
<1> QED BY <1>1, <1>4, <1>5, <1>6, <1>7, <1>8

LEMMA LossesStay ==
    ASSUME test' = test
    PROVE  \A d : LossesWithinBatch(d)' <=> LossesWithinBatch(d)
BY DEF LossesWithinBatch, StreamLossWithinBatch, SumLossWithinBatch, Streams,
       StreamSlack, SumSlack

LEMMA LocalBytesInt ==
    ASSUME Inv, NEW h, NEW s \in Streams
    PROVE  LocalBytesOf(h, s) \in Int
BY DEF Inv, TypeOK, Counts, RecvCounts, LocalBytesOf, SentNet, RcvdNet

\* What is needed of a step for a result the server took to stay true.
LEMMA TakenStays ==
    ASSUME NEW x, NEW s, test' = test, TakenInv(x, s),
           x.bytes <= LocalBytesOf("server", s)',
           ~test.omit /\ test.udp =>
              IF IsSender("server", s)
              THEN /\ wire'[s] <= x.packets + test.batch
                   /\ tx'[s] # "end" => sent'[s].datagrams = x.packets
              ELSE x.errors <= rcvd'[s].errors
    PROVE  TakenInv(x, s)'
<1>1. IsSender("server", s)' <=> IsSender("server", s)
  BY DEF IsSender, SenderOf
<1> QED BY <1>1 DEF TakenInv

LEMMA TaskFrameKeepsDocs ==
    ASSUME Inv, TaskFrame, TypeOK', \A s \in Streams : CountInv(s)',
           \A r \in server_results, s \in Streams : TakenInv(r.streams[s], s)'
    PROVE  Inv'
<1>1. test' = test /\ Streams' = Streams
  BY DEF TaskFrame, Streams
<1>5. \A d : LossesWithinBatch(d)' <=> LossesWithinBatch(d)
  BY <1>1, LossesStay
<1>2. ServerResultsInv'
  BY <1>1, <1>5 DEF Inv, ServerResultsInv, TaskFrame, docVars
<1>3. ASSUME NEW d \in sdoc' PROVE ServerDocInv(d)'
  BY <1>1, <1>3, <1>5 DEF Inv, ServerDocInv, TaskFrame, docVars
<1>4. ASSUME NEW d \in cdoc' PROVE ClientDocInv(d)'
  <2>1. ClientDocInv(d) /\ cl' = cl /\ reply' = reply /\ test' = test
    BY <1>4 DEF Inv, TaskFrame, docVars
  <2>2. /\ OwnFigures(d.json)' = OwnFigures(d.json) /\ PeerFigures' = PeerFigures
        /\ KnownPeerFigures(d.json)' = KnownPeerFigures(d.json)
    BY <2>1, DocSays
  <2>3. TextAgrees(d)' /\ ShowsStreams(d.json, OwnFigures(d.json), KnownPeerFigures(d.json))'
    BY <2>1, <2>2, DocSays DEF ClientDocInv
  <2>4. d.json.bare \/ ShowsSums(d.json, OwnFigures(d.json), KnownPeerFigures(d.json))'
    BY <2>1, <2>2, DocSays DEF ClientDocInv
  <2> QED BY <1>1, <1>5, <2>1, <2>3, <2>4 DEF ClientDocInv, HadResults
<1> QED BY <1>1, <1>2, <1>3, <1>4 DEF Inv

LEMMA WriteKeepsInv ==
    ASSUME Inv, NEW s \in Streams, WriteBlock(s)
    PROVE  Inv'
<1>1. TaskFrame /\ Streams' = Streams
  BY DEF WriteBlock, TaskFrame, Streams
<1>2. /\ wire' = [wire EXCEPT ![s] = wire[s] + 1]
      /\ tx[s] = "writing" /\ wire[s] - sent[s].n < test.batch
      /\ UNCHANGED <<test, tx, rx, taken, sent, rcvd, crossed, done, cl, sv>>
  BY DEF WriteBlock
<1>3. wire \in [Streams -> Nat] /\ test.batch \in Nat
  BY SlackNatural DEF Inv, TypeOK
<1>4. TypeOK'
  <2>1. wire' \in [Streams -> Nat]
    BY <1>2, <1>3
  <2> QED BY <1>1, <1>2, <2>1 DEF Inv, TypeOK
<1>a. ASSUME NEW q \in Streams
      PROVE  /\ taken[q] \in Nat /\ wire[q] \in Nat
             /\ sent[q].n \in Nat /\ sent[q].datagrams \in Nat
             /\ wire'[q] = IF q = s THEN wire[q] + 1 ELSE wire[q]
  BY <1>2, <1>3 DEF Inv, TypeOK, Counts
<1>5. ASSUME NEW q \in Streams PROVE CountInv(q)'
  <2>1. /\ taken[q] \in Nat /\ wire[q] \in Nat
        /\ sent[q].n \in Nat /\ sent[q].datagrams \in Nat
        /\ wire'[q] = IF q = s THEN wire[q] + 1 ELSE wire[q]
    BY <1>a
  <2>2. CountInv(q)
    BY DEF Inv
  <2>3. ASSUME test.udp PROVE SenderInv(q)'
    <3>1. SenderInv(q)
      BY <2>2, <2>3 DEF CountInv
    <3>2. CASE q = s
      BY <1>2, <1>3, <2>1, <3>1, <3>2 DEF SenderInv
    <3>3. CASE q # s
      BY <1>2, <2>1, <3>1, <3>3 DEF SenderInv
    <3> QED BY <3>2, <3>3
  <2>4. /\ taken[q] <= wire'[q] /\ sent[q].n <= wire'[q]
    BY <2>1, <2>2 DEF CountInv
  <2> QED BY <1>2, <2>2, <2>3, <2>4 DEF CountInv
<1>6. ASSUME NEW r \in server_results, NEW q \in Streams
      PROVE  TakenInv(r.streams[q], q)'
  <2> DEFINE x == r.streams[q]
  <2>1. TakenInv(x, q)
    BY DEF Inv, ServerResultsInv
  <2>2. LocalBytesOf("server", q)' = LocalBytesOf("server", q)
    BY <1>2 DEF LocalBytesOf, SentNet, RcvdNet, IsSender, SenderOf
  <2>3. ASSUME ~test.omit, test.udp, IsSender("server", q)
        PROVE  /\ wire'[q] <= x.packets + test.batch
               /\ tx'[q] # "end" => sent'[q].datagrams = x.packets
    <3>1. /\ wire[q] <= x.packets + test.batch /\ x.packets \in Nat
          /\ tx[q] # "end" => sent[q].datagrams = x.packets
      BY <2>1, <2>3 DEF TakenInv
    <3>2. CASE q = s
      <4>1. sent[s].datagrams = sent[s].n
        BY <1>2, <2>3 DEF Inv, CountInv, SenderInv
      <4>2. sent[s].n = x.packets
        BY <1>2, <3>1, <3>2, <4>1
      <4>3. wire'[s] <= x.packets + test.batch
        BY <1>2, <1>3, <1>a, <3>1, <4>2
      <4> QED BY <1>2, <3>1, <3>2, <4>3
    <3>3. CASE q # s
      BY <1>2, <1>a, <3>1, <3>3
    <3> QED BY <3>2, <3>3
  <2>5. ~test.omit /\ test.udp /\ ~IsSender("server", q) => x.errors <= rcvd'[q].errors
    BY <1>2, <2>1 DEF TakenInv
  <2>6. x.bytes <= LocalBytesOf("server", q)'
    BY <2>1, <2>2 DEF TakenInv
  <2> HIDE DEF x
  <2>4. TakenInv(x, q)'
    BY <1>2, <2>1, <2>3, <2>5, <2>6, TakenStays
  <2> QED BY <2>4 DEF x
<1> QED BY <1>1, <1>4, <1>5, <1>6, TaskFrameKeepsDocs

\* A sender's counters move towards what it wrote, one of them at a time, and
\* the second lets it look at done.
Counted(s) ==
    /\ TaskFrame /\ UNCHANGED <<rx, wire, taken, rcvd, crossed>>
    /\ sent' \in [Streams -> Counts]
    /\ tx' \in [Streams -> {"writing", "counted", "end"}]
    /\ \A q \in Streams : q # s => sent'[q] = sent[q] /\ tx'[q] = tx[q]
    /\ sent'[s].omit = sent[s].omit
    /\ sent'[s].datagrams_omit = sent[s].datagrams_omit
    /\ sent[s].n <= sent'[s].n /\ sent'[s].n <= wire[s]
    /\ test.udp => SenderInv(s)'
    /\ test.udp /\ tx'[s] # "end" /\ done[SenderOf(s)]
         => tx[s] # "end" /\ sent'[s].datagrams = sent[s].datagrams

LEMMA CountedKeepsInv ==
    ASSUME Inv, NEW s \in Streams, Counted(s)
    PROVE  Inv'
<1>1. TaskFrame /\ Streams' = Streams
  BY DEF Counted, TaskFrame, Streams
<1>2. /\ UNCHANGED <<test, rx, wire, taken, rcvd, crossed, done, cl, sv>>
      /\ sent' \in [Streams -> Counts]
      /\ tx' \in [Streams -> {"writing", "counted", "end"}]
      /\ \A q \in Streams : q # s => sent'[q] = sent[q] /\ tx'[q] = tx[q]
  BY DEF Counted, TaskFrame
<1>3. /\ sent'[s].omit = sent[s].omit
      /\ sent'[s].datagrams_omit = sent[s].datagrams_omit
      /\ sent[s].n <= sent'[s].n /\ sent'[s].n <= wire[s]
  BY DEF Counted
<1>4. /\ sent[s].n \in Nat /\ sent[s].omit \in Nat /\ sent'[s].n \in Nat
      /\ wire[s] \in Nat /\ sent[s].omit <= sent[s].n
  BY <1>2 DEF Inv, TypeOK, Counts, CountInv
<1>5. TypeOK'
  BY <1>1, <1>2 DEF Inv, TypeOK
<1>6. ASSUME NEW q \in Streams PROVE CountInv(q)'
  <2>1. CASE q = s
    <3>1. CountInv(s)
      BY DEF Inv
    <3>2. sent'[s].omit <= sent'[s].n
      BY <1>3, <1>4
    <3>3. test.udp => SenderInv(s)'
      BY DEF Counted
    <3> QED BY <1>2, <1>3, <2>1, <3>1, <3>2, <3>3 DEF CountInv
  <2>2. CASE q # s
    BY <1>2, <2>2 DEF Inv, CountInv, SenderInv
  <2> QED BY <2>1, <2>2
<1>7. ASSUME NEW r \in server_results, NEW q \in Streams
      PROVE  TakenInv(r.streams[q], q)'
  <2> DEFINE x == r.streams[q]
  <2>1. TakenInv(x, q)
    BY DEF Inv, ServerResultsInv
  <2>2. IsSender("server", q)' <=> IsSender("server", q)
    BY <1>2 DEF IsSender, SenderOf
  <2>3. LocalBytesOf("server", q) <= LocalBytesOf("server", q)'
    <3>1. CASE ~IsSender("server", q)
      <4>1. LocalBytesOf("server", q)' = LocalBytesOf("server", q)
        BY <1>2, <2>2, <3>1 DEF LocalBytesOf, RcvdNet
      <4> QED BY <4>1, LocalBytesInt
    <3>2. CASE IsSender("server", q) /\ q # s
      <4>1. LocalBytesOf("server", q)' = LocalBytesOf("server", q)
        BY <1>2, <2>2, <3>2 DEF LocalBytesOf, SentNet
      <4> QED BY <4>1, LocalBytesInt
    <3>3. CASE IsSender("server", q) /\ q = s
      <4>1. /\ LocalBytesOf("server", s)' = sent'[s].n - sent'[s].omit
            /\ LocalBytesOf("server", s) = sent[s].n - sent[s].omit
        BY <2>2, <3>3 DEF LocalBytesOf, SentNet
      <4> QED BY <1>3, <1>4, <3>3, <4>1
    <3> QED BY <3>1, <3>2, <3>3
  <2>4. ASSUME ~test.omit, test.udp, IsSender("server", q)
        PROVE  /\ wire'[q] <= x.packets + test.batch
               /\ tx'[q] # "end" => sent'[q].datagrams = x.packets
    <3>1. /\ wire[q] <= x.packets + test.batch
          /\ tx[q] # "end" => sent[q].datagrams = x.packets
      BY <2>1, <2>4 DEF TakenInv
    <3>2. CASE q = s
      <4>1. done[SenderOf(s)]
        BY <2>4, <3>2 DEF Inv, ServerResultsInv, IsSome, None, IsSender
      <4>2. tx'[s] # "end" => tx[s] # "end" /\ sent'[s].datagrams = sent[s].datagrams
        BY <2>4, <4>1 DEF Counted
      <4> QED BY <1>2, <3>1, <3>2, <4>2
    <3>3. CASE q # s
      BY <1>2, <3>1, <3>3
    <3> QED BY <3>2, <3>3
  <2>5. x.bytes <= LocalBytesOf("server", q)'
    <3>1. x.bytes \in Int /\ x.bytes <= LocalBytesOf("server", q)
      BY <2>1 DEF TakenInv
    <3>2. LocalBytesOf("server", q) \in Int /\ LocalBytesOf("server", q)' \in Int
      <4>1. LocalBytesOf("server", q)' \in Int
        BY <1>5, <1>1 DEF TypeOK, Counts, RecvCounts, LocalBytesOf, SentNet, RcvdNet
      <4> QED BY <4>1, LocalBytesInt
    <3> HIDE DEF x
    <3> QED BY <2>3, <3>1, <3>2
  <2>6. ~test.omit /\ test.udp /\ ~IsSender("server", q) => x.errors <= rcvd'[q].errors
    BY <1>2, <2>1 DEF TakenInv
  <2> HIDE DEF x
  <2>7. TakenInv(x, q)'
    BY <1>2, <2>1, <2>4, <2>5, <2>6, TakenStays
  <2> QED BY <2>7 DEF x
<1> QED BY <1>1, <1>5, <1>6, <1>7, TaskFrameKeepsDocs

LEMMA RecordKeepsInv ==
    ASSUME Inv, NEW s \in Streams, RecordSent(s)
    PROVE  Inv'
<1>0. PICK next \in {"writing", "counted", "end"} :
         next = IF test.udp THEN "counted" ELSE NextPoint(s)
  BY DEF NextPoint
<1>1. TaskFrame /\ UNCHANGED <<test, done, rx, wire, taken, rcvd, crossed>>
  BY DEF RecordSent, TaskFrame
<1>2. /\ sent' = [sent EXCEPT ![s].n = wire[s]] /\ tx' = [tx EXCEPT ![s] = next]
      /\ tx[s] = "writing" /\ sent[s].n < wire[s]
  BY <1>0 DEF RecordSent
<1>3. /\ sent \in [Streams -> Counts] /\ tx \in [Streams -> {"writing", "counted", "end"}]
      /\ sent[s] \in Counts /\ sent[s].n \in Nat /\ wire[s] \in Nat
      /\ sent[s].datagrams \in Nat /\ test.batch \in Nat
  BY SlackNatural DEF Inv, TypeOK, Counts
<1> DEFINE v == [sent[s] EXCEPT !.n = wire[s]]
<1>4. /\ v \in Counts /\ v.n = wire[s] /\ v.omit = sent[s].omit
      /\ v.datagrams = sent[s].datagrams /\ v.datagrams_omit = sent[s].datagrams_omit
  BY <1>3 DEF Counts
<1>5. sent' = [sent EXCEPT ![s] = v]
  BY <1>2
<1> HIDE DEF v
<1>6. /\ sent' \in [Streams -> Counts] /\ sent'[s] = v /\ tx'[s] = next
      /\ tx' \in [Streams -> {"writing", "counted", "end"}]
      /\ \A q \in Streams : q # s => sent'[q] = sent[q] /\ tx'[q] = tx[q]
  BY <1>2, <1>3, <1>4, <1>5
<1>7. ASSUME test.udp PROVE SenderInv(s)'
  <2>1. SenderInv(s) /\ next = "counted"
    BY <1>0, <1>7 DEF Inv, CountInv
  <2>2. /\ wire'[s] = wire[s] /\ tx'[s] = "counted" /\ test' = test
        /\ sent'[s].n = wire[s] /\ sent'[s].datagrams = sent[s].datagrams
    BY <1>1, <1>4, <1>6, <2>1
  <2> QED BY <1>3, <1>7, <2>1, <2>2 DEF SenderInv
<1>8. Counted(s)
  BY <1>1, <1>2, <1>3, <1>4, <1>6, <1>7 DEF Counted
<1> QED BY <1>8, CountedKeepsInv

LEMMA RecordDatagramsKeepsInv ==
    ASSUME Inv, NEW s \in Streams, RecordDatagrams(s)
    PROVE  Inv'
<1>0. PICK next \in {"writing", "end"} :
         /\ next = NextPoint(s) /\ (done[SenderOf(s)] => next = "end")
  BY DEF NextPoint
<1>1. TaskFrame /\ UNCHANGED <<test, done, rx, wire, taken, rcvd, crossed>>
  BY DEF RecordDatagrams, TaskFrame
<1>2. /\ sent' = [sent EXCEPT ![s].datagrams = sent[s].n]
      /\ tx' = [tx EXCEPT ![s] = next] /\ tx[s] = "counted"
  BY <1>0 DEF RecordDatagrams
<1>3. /\ sent \in [Streams -> Counts] /\ tx \in [Streams -> {"writing", "counted", "end"}]
      /\ sent[s] \in Counts /\ sent[s].n \in Nat /\ wire[s] \in Nat
      /\ sent[s].n <= wire[s]
      /\ sent[s].datagrams \in Nat /\ test.batch \in Nat
  BY SlackNatural DEF Inv, TypeOK, Counts, CountInv
<1> DEFINE v == [sent[s] EXCEPT !.datagrams = sent[s].n]
<1>4. /\ v \in Counts /\ v.n = sent[s].n /\ v.omit = sent[s].omit
      /\ v.datagrams = sent[s].n /\ v.datagrams_omit = sent[s].datagrams_omit
  BY <1>3 DEF Counts
<1>5. sent' = [sent EXCEPT ![s] = v]
  BY <1>2
<1> HIDE DEF v
<1>6. /\ sent' \in [Streams -> Counts] /\ sent'[s] = v /\ tx'[s] = next
      /\ tx' \in [Streams -> {"writing", "counted", "end"}]
      /\ \A q \in Streams : q # s => sent'[q] = sent[q] /\ tx'[q] = tx[q]
  BY <1>2, <1>3, <1>4, <1>5
<1>7. ASSUME test.udp PROVE SenderInv(s)'
  <2>1. SenderInv(s) /\ wire[s] = sent[s].n
    BY <1>2, <1>7 DEF Inv, CountInv, SenderInv
  <2>2. /\ wire'[s] = wire[s] /\ tx'[s] = next /\ test' = test
        /\ sent'[s].n = sent[s].n /\ sent'[s].datagrams = sent[s].n
    BY <1>1, <1>4, <1>6
  <2>3. tx'[s] # "counted"
    BY <2>2
  <2> QED BY <1>3, <1>7, <2>1, <2>2, <2>3 DEF SenderInv
<1>8. Counted(s)
  BY <1>0, <1>1, <1>2, <1>3, <1>4, <1>6, <1>7 DEF Counted
<1> QED BY <1>8, CountedKeepsInv

LEMMA ReadKeepsInv ==
    ASSUME Inv, NEW s \in Streams, ReadBlock(s) \/ LoseBlock(s)
    PROVE  Inv'
<1>1. TaskFrame /\ Streams' = Streams
  BY DEF ReadBlock, LoseBlock, TaskFrame, Streams
<1>2. /\ taken' = [taken EXCEPT ![s] = taken[s] + 1] /\ taken[s] < wire[s]
      /\ rx' = rx \/ rx' = [rx EXCEPT ![s] = IF done[ReceiverOf(s)] THEN "end" ELSE @]
      /\ UNCHANGED <<test, tx, wire, sent, crossed, done, cl, sv>>
  BY DEF ReadBlock, LoseBlock
<1> DEFINE new == [n |-> rcvd[s].n + 1, omit |-> rcvd[s].omit,
                   packets |-> taken[s] + 1, packets_omit |-> rcvd[s].packets_omit,
                   errors |-> rcvd[s].errors + (taken[s] - rcvd[s].packets),
                   errors_omit |-> rcvd[s].errors_omit]
<1>3. /\ taken \in [Streams -> Nat] /\ rcvd \in [Streams -> RecvCounts]
      /\ taken[s] \in Nat /\ wire[s] \in Nat
      /\ rx \in [Streams -> {"reading", "end"}]
  BY DEF Inv, TypeOK
<1>4. /\ rcvd[s] \in RecvCounts
      /\ rcvd[s].n \in Nat /\ rcvd[s].omit \in Nat /\ rcvd[s].packets \in Nat
      /\ rcvd[s].packets_omit \in Nat /\ rcvd[s].errors \in Nat
      /\ rcvd[s].errors_omit \in Nat
  BY <1>3 DEF RecvCounts
<1>5. CountInv(s) /\ rcvd[s].packets <= taken[s]
  BY DEF Inv, CountInv
<1>6. rcvd' = rcvd \/ rcvd' = [rcvd EXCEPT ![s] = new]
  <2>1. CASE LoseBlock(s)
    BY <2>1 DEF LoseBlock
  <2>2. CASE ReadBlock(s)
    <3>1. rcvd' = [rcvd EXCEPT ![s].n = rcvd[s].n + 1, ![s].packets = taken'[s],
                     ![s].errors = rcvd[s].errors + Missed(taken'[s], rcvd[s].packets)]
      BY <2>2 DEF ReadBlock
    <3>2. taken'[s] = taken[s] + 1
      BY <1>2, <1>3
    <3>3. Missed(taken'[s], rcvd[s].packets) = taken[s] - rcvd[s].packets
      BY <1>3, <1>4, <3>2 DEF Missed
    <3> QED BY <1>3, <1>4, <3>1, <3>2, <3>3 DEF RecvCounts
  <2> QED BY <2>1, <2>2
<1>7. new \in RecvCounts
  BY <1>3, <1>4, <1>5 DEF RecvCounts
<1>8. TypeOK'
  <2>1. taken' \in [Streams -> Nat] /\ rx' \in [Streams -> {"reading", "end"}]
    BY <1>2, <1>3
  <2> HIDE DEF new
  <2>2. rcvd' \in [Streams -> RecvCounts]
    BY <1>3, <1>6, <1>7
  <2> QED BY <1>1, <1>2, <2>1, <2>2 DEF Inv, TypeOK
<1>9. rcvd'[s] = rcvd[s] \/ rcvd'[s] = new
  <2> HIDE DEF new
  <2> QED BY <1>3, <1>6
<1>10. \A q \in Streams : q # s => rcvd'[q] = rcvd[q] /\ taken'[q] = taken[q]
  <2> HIDE DEF new
  <2> QED BY <1>2, <1>3, <1>6
<1>11. ASSUME NEW q \in Streams PROVE CountInv(q)'
  <2>0. test.udp' => SenderInv(q)'
    BY <1>2 DEF Inv, CountInv, SenderInv
  <2>1. CASE q = s
    <3>1. taken'[s] = taken[s] + 1
      BY <1>2, <1>3
    <3>2. CASE rcvd'[s] = rcvd[s]
      BY <1>2, <1>3, <1>4, <1>5, <2>0, <2>1, <3>1, <3>2 DEF CountInv
    <3>3. CASE rcvd'[s] = new
      BY <1>2, <1>3, <1>4, <1>5, <2>0, <2>1, <3>1, <3>3 DEF CountInv
    <3> QED BY <1>9, <3>2, <3>3
  <2>2. CASE q # s
    BY <1>2, <1>10, <2>0, <2>2 DEF Inv, CountInv
  <2> QED BY <2>1, <2>2
<1>12. ASSUME NEW r \in server_results, NEW q \in Streams
       PROVE  TakenInv(r.streams[q], q)'
  <2> DEFINE x == r.streams[q]
  <2>1. TakenInv(x, q)
    BY DEF Inv, ServerResultsInv
  <2>2. RcvdNet(q)' = RcvdNet(q) \/ RcvdNet(q)' = RcvdNet(q) + 1
    <3>1. CASE q = s
      BY <1>4, <1>9, <3>1 DEF RcvdNet
    <3>2. CASE q # s
      BY <1>10, <3>2 DEF RcvdNet
    <3> QED BY <3>1, <3>2
  <2>3. LocalBytesOf("server", q)' = LocalBytesOf("server", q)
        \/ LocalBytesOf("server", q)' = LocalBytesOf("server", q) + 1
    BY <1>2, <2>2 DEF LocalBytesOf, SentNet, IsSender, SenderOf
  <2>4. x.bytes <= LocalBytesOf("server", q)'
    BY <2>1, <2>3, LocalBytesInt DEF TakenInv
  <2>5. x.errors \in Nat /\ x.errors <= rcvd[q].errors => x.errors <= rcvd'[q].errors
    <3>1. CASE q = s
      BY <1>3, <1>4, <1>5, <1>9, <3>1
    <3>2. CASE q # s
      BY <1>10, <3>2
    <3> QED BY <3>1, <3>2
  <2> HIDE DEF x
  <2>6. TakenInv(x, q)'
    BY <1>2, <2>1, <2>4, <2>5, TakenStays DEF TakenInv
  <2> QED BY <2>6 DEF x
<1> QED BY <1>1, <1>8, <1>11, <1>12, TaskFrameKeepsDocs

\* Baselining one stream leaves its counts alone, and the other streams.
Rebased(f, k) == [f EXCEPT ![k].omit = f[k].n, ![k].packets_omit = f[k].packets,
                           ![k].errors_omit = f[k].errors]

LEMMA RebasedCounts ==
    ASSUME NEW S, NEW f \in [S -> RecvCounts], NEW k
    PROVE  /\ Rebased(f, k) \in [S -> RecvCounts]
           /\ \A q \in S : /\ Rebased(f, k)[q].n = f[q].n
                           /\ Rebased(f, k)[q].packets = f[q].packets
                           /\ Rebased(f, k)[q].errors = f[q].errors
                           /\ \/ Rebased(f, k)[q].omit = f[q].omit
                              \/ Rebased(f, k)[q].omit = f[q].n
                           /\ q # k => Rebased(f, k)[q] = f[q]
<1> DEFINE v == [f[k] EXCEPT !.omit = f[k].n, !.packets_omit = f[k].packets,
                             !.errors_omit = f[k].errors]
           g == [f EXCEPT ![k] = v]
<1>1. \A j \in S : f[j] \in RecvCounts
  OBVIOUS
<1>2. CASE k \in S
  <2>1. v \in RecvCounts /\ v.n = f[k].n /\ v.packets = f[k].packets
        /\ v.errors = f[k].errors /\ v.omit = f[k].n
    BY <1>1, <1>2 DEF RecvCounts
  <2>2. Rebased(f, k) = g
    BY <1>1, <1>2 DEF RecvCounts, Rebased
  <2> HIDE DEF v
  <2>3. /\ g \in [S -> RecvCounts]
        /\ \A q \in S : /\ g[q].n = f[q].n /\ g[q].packets = f[q].packets
                        /\ g[q].errors = f[q].errors
                        /\ g[q].omit = f[q].omit \/ g[q].omit = f[q].n
                        /\ q # k => g[q] = f[q]
    BY <1>2, <2>1
  <2> QED BY <2>2, <2>3
<1>3. CASE k \notin S
  <2>1. Rebased(f, k) = f
    BY <1>3 DEF Rebased
  <2> QED BY <2>1
<1> QED BY <1>2, <1>3

RebasedSent(f, k) == [f EXCEPT ![k].omit = f[k].n,
                               ![k].datagrams_omit = f[k].datagrams]

LEMMA RebasedSentCounts ==
    ASSUME NEW S, NEW f \in [S -> Counts], NEW k
    PROVE  /\ RebasedSent(f, k) \in [S -> Counts]
           /\ \A q \in S : /\ RebasedSent(f, k)[q].n = f[q].n
                           /\ RebasedSent(f, k)[q].datagrams = f[q].datagrams
                           /\ \/ RebasedSent(f, k)[q].omit = f[q].omit
                              \/ RebasedSent(f, k)[q].omit = f[q].n
                           /\ q # k => RebasedSent(f, k)[q] = f[q]
<1> DEFINE v == [f[k] EXCEPT !.omit = f[k].n, !.datagrams_omit = f[k].datagrams]
           g == [f EXCEPT ![k] = v]
<1>1. \A j \in S : f[j] \in Counts
  OBVIOUS
<1>2. CASE k \in S
  <2>1. v \in Counts /\ v.n = f[k].n /\ v.datagrams = f[k].datagrams /\ v.omit = f[k].n
    BY <1>1, <1>2 DEF Counts
  <2>2. RebasedSent(f, k) = g
    BY <1>1, <1>2 DEF Counts, RebasedSent
  <2> HIDE DEF v
  <2>3. /\ g \in [S -> Counts]
        /\ \A q \in S : /\ g[q].n = f[q].n /\ g[q].datagrams = f[q].datagrams
                        /\ g[q].omit = f[q].omit \/ g[q].omit = f[q].n
                        /\ q # k => g[q] = f[q]
    BY <1>2, <2>1
  <2> QED BY <2>2, <2>3
<1>3. CASE k \notin S
  <2>1. RebasedSent(f, k) = f
    BY <1>3 DEF RebasedSent
  <2> QED BY <2>1
<1> QED BY <1>2, <1>3

\* A baseline is the reporter's copy of a counter, on a test with an omitted
\* period only; the server's reporter is gone when the results are taken.
LEMMA BoundaryKeepsInv ==
    ASSUME Inv, NEW h \in Hosts, OmitBoundary(h)
    PROVE  Inv'
<1> DEFINE k == crossed[h] + 1
<1>1. TaskFrame /\ Streams' = Streams /\ test.omit
  BY DEF OmitBoundary, TaskFrame, Streams
<1>2. /\ UNCHANGED <<test, tx, rx, wire, taken, done, cl, sv>>
      /\ crossed' = [crossed EXCEPT ![h] = crossed[h] + 1] /\ Baseline(h, k)
      /\ (IF h = "client" THEN cl ELSE sv) \in {"run", "stopping"}
  BY DEF OmitBoundary
<1>3. /\ sent \in [Streams -> Counts] /\ rcvd \in [Streams -> RecvCounts]
      /\ crossed \in [Hosts -> Nat]
  BY DEF Inv, TypeOK
<1>4. /\ sent' \in [Streams -> Counts]
      /\ \A q \in Streams : /\ sent'[q].n = sent[q].n
                            /\ sent'[q].datagrams = sent[q].datagrams
                            /\ \/ sent'[q].omit = sent[q].omit
                               \/ sent'[q].omit = sent[q].n
      /\ \A q \in Streams : ~IsSender(h, q) => sent'[q] = sent[q]
  <2>1. CASE IsSender(h, k)
    <3>1. sent' = RebasedSent(sent, k)
      BY <1>2, <2>1 DEF Baseline, RebasedSent
    <3> HIDE DEF k
    <3>2. sent' \in [Streams -> Counts]
      BY <1>3, <3>1, RebasedSentCounts
    <3>3. \A q \in Streams : /\ sent'[q].n = sent[q].n
                             /\ sent'[q].datagrams = sent[q].datagrams
                             /\ \/ sent'[q].omit = sent[q].omit
                                \/ sent'[q].omit = sent[q].n
                             /\ q # k => sent'[q] = sent[q]
      BY <1>3, <3>1, RebasedSentCounts
    <3>4. ASSUME NEW q \in Streams, ~IsSender(h, q) PROVE sent'[q] = sent[q]
      <4>1. q # k
        BY <2>1, <3>4
      <4> QED BY <3>3, <4>1
    <3> QED BY <3>2, <3>3, <3>4
  <2>2. CASE ~IsSender(h, k)
    BY <1>2, <1>3, <2>2 DEF Baseline, Counts
  <2> QED BY <2>1, <2>2
<1>5. /\ rcvd' \in [Streams -> RecvCounts]
      /\ \A q \in Streams : /\ rcvd'[q].n = rcvd[q].n
                            /\ rcvd'[q].packets = rcvd[q].packets
                            /\ rcvd'[q].errors = rcvd[q].errors
                            /\ \/ rcvd'[q].omit = rcvd[q].omit
                               \/ rcvd'[q].omit = rcvd[q].n
                            /\ IsSender(h, q) => rcvd'[q] = rcvd[q]
  <2>1. CASE ~IsSender(h, k)
    <3>1. rcvd' = Rebased(rcvd, k)
      BY <1>2, <2>1 DEF Baseline, Rebased
    <3> HIDE DEF k
    <3>2. rcvd' \in [Streams -> RecvCounts]
      BY <1>3, <3>1, RebasedCounts
    <3>3. \A q \in Streams : /\ rcvd'[q].n = rcvd[q].n
                             /\ rcvd'[q].packets = rcvd[q].packets
                             /\ rcvd'[q].errors = rcvd[q].errors
                             /\ \/ rcvd'[q].omit = rcvd[q].omit
                                \/ rcvd'[q].omit = rcvd[q].n
                             /\ q # k => rcvd'[q] = rcvd[q]
      BY <1>3, <3>1, RebasedCounts
    <3>4. ASSUME NEW q \in Streams, IsSender(h, q) PROVE rcvd'[q] = rcvd[q]
      <4>1. q # k
        BY <2>1, <3>4
      <4> QED BY <3>3, <4>1
    <3> QED BY <3>2, <3>3, <3>4
  <2>2. CASE IsSender(h, k)
    BY <1>2, <1>3, <2>2 DEF Baseline, RecvCounts
  <2> QED BY <2>1, <2>2
<1>6. TypeOK'
  BY <1>1, <1>2, <1>3, <1>4, <1>5 DEF Inv, TypeOK
<1>7. ASSUME NEW q \in Streams PROVE CountInv(q)'
  <2>1. CountInv(q) /\ sent[q].n \in Nat /\ rcvd[q].n \in Nat
    BY DEF Inv, TypeOK, Counts, RecvCounts
  <2>2. sent'[q].omit <= sent'[q].n /\ rcvd'[q].omit <= rcvd'[q].n
    BY <1>4, <1>5, <2>1 DEF CountInv
  <2>3. test.udp => SenderInv(q)'
    BY <1>2, <1>4, <2>1 DEF CountInv, SenderInv
  <2> QED BY <1>1, <1>2, <1>4, <1>5, <2>1, <2>2, <2>3 DEF CountInv
<1>8. ASSUME NEW r \in server_results, NEW q \in Streams
      PROVE  TakenInv(r.streams[q], q)'
  <2>1. TakenInv(r.streams[q], q) /\ sv \notin {"run", "stopping"}
    BY DEF Inv, ServerResultsInv, IsSome, None
  <2>2. h = "client"
    BY <1>2, <2>1 DEF Hosts
  <2>3. LocalBytesOf("server", q)' = LocalBytesOf("server", q)
    <3>1. IsSender("server", q)' <=> IsSender("server", q)
      BY <1>2 DEF IsSender, SenderOf
    <3>2. CASE IsSender("server", q)
      BY <1>4, <2>2, <3>1, <3>2, OneSender DEF LocalBytesOf, SentNet
    <3>3. CASE ~IsSender("server", q)
      BY <1>5, <2>2, <3>1, <3>3, OneSender DEF LocalBytesOf, RcvdNet
    <3> QED BY <3>2, <3>3
  <2> QED BY <1>1, <1>2, <2>1, <2>3, TakenStays DEF TakenInv
<1> QED BY <1>1, <1>6, <1>7, <1>8, TaskFrameKeepsDocs

-----------------------------------------------------------------------------
(* The steps of the control sides. *)

\* They leave the counters and the reporters alone.
ControlFrame == UNCHANGED <<test, taskVars, crossed>>

ClientPoints == {"run", "stopping", "test_end", "results", "received",
                 "completed", "failed"}
ServerPoints == {"run", "stopping", "exchange", "display", "completed", "failed"}

LEMMA ControlTaken ==
    ASSUME NEW x, NEW s, ControlFrame
    PROVE  TakenInv(x, s)' <=> TakenInv(x, s)
BY DEF ControlFrame, taskVars, TakenInv, LocalBytesOf, SentNet, RcvdNet,
       IsSender, SenderOf

LEMMA ControlStep ==
    ASSUME Inv, ControlFrame, done' \in [Hosts -> BOOLEAN],
           cl' \in ClientPoints, sv' \in ServerPoints, ServerResultsInv',
           \A d \in sdoc' : ServerDocInv(d)', \A d \in cdoc' : ClientDocInv(d)'
    PROVE  Inv'
<1>1. Streams' = Streams
  BY DEF ControlFrame, Streams
<1>2. TypeOK'
  BY <1>1 DEF Inv, TypeOK, ControlFrame, taskVars, ClientPoints, ServerPoints
<1>3. ASSUME NEW s \in Streams PROVE CountInv(s)'
  BY DEF Inv, CountInv, SenderInv, ControlFrame, taskVars
<1> QED BY <1>1, <1>2, <1>3 DEF Inv

\* A step of the client alone.
LEMMA ServerSideKept ==
    ASSUME Inv, ControlFrame, UNCHANGED <<sv, server_results, reply, built, sdoc>>,
           done'["server"] = done["server"], cl' = "received" => IsSome(reply)
    PROVE  ServerResultsInv' /\ \A d \in sdoc' : ServerDocInv(d)'
<1>1. Streams' = Streams /\ test' = test
  BY DEF ControlFrame, Streams
<1>2. \A d : LossesWithinBatch(d)' <=> LossesWithinBatch(d)
  BY <1>1, LossesStay
<1>3. ASSUME NEW r \in server_results, NEW s \in Streams
      PROVE  TakenInv(r.streams[s], s)'
  BY ControlTaken DEF Inv, ServerResultsInv
<1>4. ServerResultsInv'
  BY <1>1, <1>2, <1>3 DEF Inv, ServerResultsInv
<1>5. ASSUME NEW d \in sdoc' PROVE ServerDocInv(d)'
  BY <1>1, <1>2, <1>5 DEF Inv, ServerDocInv
<1> QED BY <1>4, <1>5

\* A step that leaves the client's document alone; it may be out before the
\* server sends its results, which it then does not show.
LEMMA ClientSideKept ==
    ASSUME Inv, ControlFrame, cdoc' = cdoc,
           cl' = cl \/ cl \notin {"completed", "failed"},
           reply' = reply \/ reply = None
    PROVE  \A d \in cdoc' : ClientDocInv(d)'
<1> SUFFICES ASSUME NEW d \in cdoc PROVE ClientDocInv(d)'
  OBVIOUS
<1>1. ClientDocInv(d) /\ test' = test /\ cl' = cl
  BY DEF Inv, ClientDocInv, ControlFrame
<1>2. OwnFigures(d.json)' = OwnFigures(d.json) /\ Streams' = Streams
      /\ (LossesWithinBatch(d.json)' <=> LossesWithinBatch(d.json))
  BY <1>1, DocSays, LossesStay
<1>3. HadResults(d.json)' <=> HadResults(d.json)
  BY DEF HadResults
<1>4. HadResults(d.json) => IsSome(reply) /\ reply' = reply
  BY <1>1 DEF ClientDocInv, IsSome
<1>5. KnownPeerFigures(d.json)' = KnownPeerFigures(d.json)
  <2>1. CASE HadResults(d.json)
    BY <1>1, <1>4, <2>1, DocSays
  <2>2. CASE ~HadResults(d.json)
    BY <1>2, <1>3, <2>2 DEF KnownPeerFigures
  <2> QED BY <2>1, <2>2
<1>6. TextAgrees(d)' /\ ShowsStreams(d.json, OwnFigures(d.json), KnownPeerFigures(d.json))'
  BY <1>1, <1>2, <1>5, DocSays DEF ClientDocInv
<1>7. d.json.bare \/ ShowsSums(d.json, OwnFigures(d.json), KnownPeerFigures(d.json))'
  BY <1>1, <1>2, <1>5, DocSays DEF ClientDocInv
<1>8. IsSome(reply) => IsSome(reply)'
  BY DEF IsSome
<1> QED BY <1>1, <1>2, <1>3, <1>4, <1>6, <1>7, <1>8 DEF ClientDocInv

\* The end of the data phase and the waits.
LEMMA WaitsKeepInv ==
    ASSUME Inv,
           \/ ClientStopsData \/ ClientSendsTestEnd \/ ClientSendsResults
           \/ ClientReceivesResults
    PROVE  Inv'
<1>1. /\ ControlFrame /\ UNCHANGED <<sv, server_results, reply, built, sdoc, cdoc>>
      /\ cl \notin {"completed", "failed"} /\ cl' \in ClientPoints
      /\ cl' = "received" => IsSome(reply)
      /\ done' = done \/ done' = [done EXCEPT !["client"] = TRUE]
  BY DEF ClientStopsData, ClientSendsTestEnd, ClientSendsResults,
         ClientReceivesResults, ControlFrame, docVars, ClientPoints, SetDone
<1>2. done \in [Hosts -> BOOLEAN] /\ sv \in ServerPoints
  BY DEF Inv, TypeOK, ServerPoints
<1>3. done' \in [Hosts -> BOOLEAN] /\ done'["server"] = done["server"]
  BY <1>1, <1>2 DEF Hosts
<1> QED BY <1>1, <1>2, <1>3, ServerSideKept, ClientSideKept, ControlStep

LEMMA ServerStopsKeepsInv ==
    ASSUME Inv, ServerStopsData
    PROVE  Inv'
<1>1. /\ ControlFrame /\ UNCHANGED <<cl, docVars>> /\ sv = "run" /\ sv' = "stopping"
      /\ done' = [done EXCEPT !["server"] = TRUE]
  BY DEF ServerStopsData, ControlFrame, SetDone
<1>2. /\ done \in [Hosts -> BOOLEAN] /\ cl \in ClientPoints
      /\ \A d \in sdoc : FALSE
  BY <1>1 DEF Inv, TypeOK, ClientPoints, ServerDocInv
<1>3. done' \in [Hosts -> BOOLEAN] /\ done'["server"]
  BY <1>1, <1>2 DEF Hosts
<1>4. Streams' = Streams /\ test' = test
  BY <1>1 DEF ControlFrame, Streams
<1>5. server_results = None
  BY <1>1 DEF Inv, ServerResultsInv, IsSome
<1>6. built = None
  BY <1>5 DEF Inv, ServerResultsInv, None
<1>7. ServerResultsInv'
  BY <1>1, <1>3, <1>5, <1>6 DEF Inv, ServerResultsInv, docVars, IsSome, None
<1> QED BY <1>1, <1>2, <1>3, <1>7, ClientSideKept, ControlStep DEF docVars, ServerPoints

LEMMA ServerSendsKeepsInv ==
    ASSUME Inv, ServerSendsResults
    PROVE  Inv'
<1>1. /\ ControlFrame
      /\ UNCHANGED <<done, cl, client_results, server_results, built, cdoc, sdoc>>
      /\ sv = "exchange" /\ sv' = "display" /\ reply' = server_results
  BY DEF ServerSendsResults, ControlFrame
<1>2. /\ done \in [Hosts -> BOOLEAN] /\ cl \in ClientPoints
      /\ \A d \in sdoc : FALSE
  BY <1>1 DEF Inv, TypeOK, ClientPoints, ServerDocInv
<1>3. Streams' = Streams /\ test' = test
  BY <1>1 DEF ControlFrame, Streams
<1>4. reply' = reply \/ reply = None
  BY <1>1 DEF Inv, ServerResultsInv
<1>5. \A d : LossesWithinBatch(d)' <=> LossesWithinBatch(d)
  BY <1>3, LossesStay
<1>6. ASSUME NEW r \in server_results, NEW s \in Streams
      PROVE  TakenInv(r.streams[s], s)'
  BY <1>1, ControlTaken DEF Inv, ServerResultsInv
<1>7. cl = "received" => IsSome(reply')
  BY <1>1, <1>4 DEF Inv, ServerResultsInv, IsSome
<1>8. ServerResultsInv'
  <2>1. /\ sv' # "run" => done["server"]
        /\ IsSome(server_results) => sv' \notin {"run", "stopping"}
        /\ reply' \in {None, server_results}
    BY <1>1 DEF Inv, ServerResultsInv
  <2>2. IsSome(reply') <=> IsSome(reply)'
    BY DEF IsSome
  <2> QED BY <1>1, <1>3, <1>5, <1>6, <1>7, <2>1, <2>2 DEF Inv, ServerResultsInv, IsSome
<1> QED BY <1>1, <1>2, <1>4, <1>8, ClientSideKept, ControlStep DEF ServerPoints

\* What the server takes is what its counters stand at; the report that
\* travels with it says the same.
LEMMA ServerReportShape ==
    ASSUME NEW bare, NEW error
    PROVE  LET d == ServerReport(bare, error)
           IN  /\ \A s \in Streams :
                     d.input.streams[s].local_bytes = LocalBytesOf("server", s)
               /\ d.bare = bare /\ d.error = error
<1> DEFINE in == [udp |-> test.udp, reverse |-> test.reverse, bidir |-> test.bidir,
                  is_server |-> TRUE, bare_end |-> bare, error |-> error,
                  local_has_retransmit_info |-> "server" \in Capable,
                  peer_sender_has_retransmits |-> None, peer_congestion |-> None,
                  server_output |-> None,
                  streams |-> [s \in Streams |-> ServerStream(s)]]
<1>1. ServerReport(bare, error) = Build(in)
  BY DEF ServerReport
<1>2. Build(in).input = in /\ Build(in).error = error
  <2>1. in.error = error
    OBVIOUS
  <2> HIDE DEF in
  <2> QED BY <2>1, BuildShape
<1>3. Build(in).bare = bare
  <2>1. in.bare_end = bare
    OBVIOUS
  <2> HIDE DEF in
  <2> QED BY <2>1 DEF Build
<1>4. ASSUME NEW s \in Streams
      PROVE  in.streams[s].local_bytes = LocalBytesOf("server", s)
  BY DEF ServerStream
<1> HIDE DEF in
<1> QED BY <1>1, <1>2, <1>3, <1>4

\* A result as it is taken meets what is claimed of it later.
LEMMA TakenNow ==
    ASSUME Inv, done["server"], NEW output, NEW s \in Streams
    PROVE  LET x == ResultsOf("server", output).streams[s]
           IN  TakenInv(x, s) /\ x.bytes = LocalBytesOf("server", s)
<1> DEFINE x == StreamResult("server", s)
<1>1. ResultsOf("server", output).streams[s] = x
  BY DEF ResultsOf
<1>2. x.bytes = LocalBytesOf("server", s)
  BY DEF StreamResult
<1>3. LocalBytesOf("server", s) \in Int
  BY LocalBytesInt
<1>4. ASSUME ~test.omit, test.udp
      PROVE  /\ x.omitted = Some([errors |-> 0, packets |-> 0])
             /\ IF IsSender("server", s)
                THEN x.packets = sent[s].datagrams /\ x.errors = 0
                ELSE x.packets = rcvd[s].packets /\ x.errors = rcvd[s].errors
  <2>1. ~test.old_peer
    BY <1>4 DEF Inv, TypeOK, TestParams
  <2>2. /\ sent[s].datagrams_omit = 0 /\ rcvd[s].packets_omit = 0
        /\ rcvd[s].errors_omit = 0
    BY <1>4 DEF Inv, CountInv
  <2> QED BY <1>4, <2>1, <2>2 DEF StreamResult, LocalOmitted, Then, Some
<1>5. /\ sent[s].datagrams \in Nat /\ rcvd[s].errors \in Nat
      /\ rcvd[s].packets \in Nat
      /\ test.udp => /\ wire[s] <= sent[s].datagrams + test.batch
                     /\ sent[s].datagrams <= sent[s].n
  BY DEF Inv, TypeOK, CountInv, SenderInv, Counts, RecvCounts
<1>6. ~test.omit /\ IsSender("server", s) => x.bytes = sent[s].n
  BY <1>2, NoOmitNet DEF LocalBytesOf
<1> HIDE DEF x
<1>7. TakenInv(x, s)
  BY <1>2, <1>3, <1>4, <1>5, <1>6 DEF TakenInv
<1> QED BY <1>1, <1>2, <1>7

LEMMA ServerTakesKeepsInv ==
    ASSUME Inv, ServerTakesResults
    PROVE  Inv'
<1>1. /\ ControlFrame /\ UNCHANGED <<done, cl, client_results, reply, cdoc, sdoc>>
      /\ sv = "stopping" /\ sv' = "exchange"
      /\ server_results' = {ResultsOf("server", built')}
      /\ built' = None \/ built' = {ServerReport(FALSE, None)}
  BY DEF ServerTakesResults, ControlFrame, Then, Some, None
<1>2. /\ done \in [Hosts -> BOOLEAN] /\ cl \in ClientPoints /\ done["server"]
      /\ \A d \in sdoc : FALSE
  BY <1>1 DEF Inv, TypeOK, ClientPoints, ServerDocInv, ServerResultsInv
<1>3. Streams' = Streams /\ test' = test
  BY <1>1 DEF ControlFrame, Streams
<1>4. server_results = None /\ reply = None
  BY <1>1 DEF Inv, ServerResultsInv, IsSome
<1>5. PICK r : /\ server_results' = {r} /\ r.server_output = built'
               /\ \A s \in Streams : TakenInv(r.streams[s], s) /\
                     r.streams[s].bytes = LocalBytesOf("server", s)
  <2> DEFINE r == ResultsOf("server", built')
  <2>1. r.server_output = built'
    BY DEF ResultsOf
  <2>2. ASSUME NEW s \in Streams
        PROVE  TakenInv(r.streams[s], s) /\ r.streams[s].bytes = LocalBytesOf("server", s)
    BY <1>2, TakenNow
  <2>3. server_results' = {r}
    BY <1>1
  <2> HIDE DEF r
  <2> QED BY <2>1, <2>2, <2>3
<1>6. ASSUME NEW s \in Streams PROVE TakenInv(r.streams[s], s)'
  BY <1>1, <1>5, ControlTaken
<1>7. PICK b : /\ built' = None \/ built' = {b}
               /\ \A s \in Streams : b.input.streams[s].local_bytes
                                        = LocalBytesOf("server", s)
               /\ ~test.omit /\ test.udp => LossesWithinBatch(b)
  <2> DEFINE b == ServerReport(FALSE, None)
  <2>1. ASSUME NEW s \in Streams
        PROVE  b.input.streams[s].local_bytes = LocalBytesOf("server", s)
    <3>1. \A bare, error : ServerReport(bare, error).input.streams[s].local_bytes
                             = LocalBytesOf("server", s)
      BY ServerReportShape
    <3> QED BY <3>1
  <2>2. ~test.omit /\ test.udp => LossesWithinBatch(b)
    BY ServerLossWithinBatch, ServerSumLoss DEF LossesWithinBatch
  <2>3. built' = None \/ built' = {b}
    BY <1>1
  <2> HIDE DEF b
  <2> QED BY <2>1, <2>2, <2>3
<1>8. \A d : LossesWithinBatch(d)' <=> LossesWithinBatch(d)
  BY <1>3, LossesStay
<1>9. ServerResultsInv'
  <2>1. /\ sv' # "run" => done'["server"]
        /\ IsSome(server_results)' => sv' \notin {"run", "stopping"}
        /\ reply' \in {None, server_results'}
        /\ cl' = "received" => IsSome(reply)'
    BY <1>1, <1>2, <1>4 DEF Inv, ServerResultsInv, IsSome
  <2>2. \E q \in server_results' : server_results' = {q} /\ q.server_output = built'
    BY <1>5
  <2>3. ASSUME NEW q \in server_results', NEW s \in Streams'
        PROVE  TakenInv(q.streams[s], s)'
    BY <1>3, <1>5, <1>6, <2>3
  <2>4. built' = None \/ \E c \in built' : built' = {c}
    BY <1>7
  <2>5. ASSUME NEW c \in built'
        PROVE  /\ \A q \in server_results', s \in Streams' :
                     c.input.streams[s].local_bytes = q.streams[s].bytes
               /\ ~test.omit' /\ test.udp' => LossesWithinBatch(c)'
    BY <1>3, <1>5, <1>7, <1>8, <2>5 DEF None
  <2> QED BY <2>1, <2>2, <2>3, <2>4, <2>5 DEF ServerResultsInv
<1> QED BY <1>1, <1>2, <1>9, ClientSideKept, ControlStep DEF ServerPoints

\* The server's document: the report that was built, or one made now.
LEMMA FinalReportInv ==
    ASSUME Inv, NEW bare, NEW error
    PROVE  LET d == FinalReport(bare, error)
           IN  /\ \A r \in server_results :
                     /\ \A s \in Streams : d.input.streams[s].local_bytes
                                             >= r.streams[s].bytes
                     /\ \A o \in r.server_output : o.streams = d.streams
                                                  /\ o.sums = d.sums
               /\ ~test.omit /\ test.udp => LossesWithinBatch(d)
<1> DEFINE d == FinalReport(bare, error)
<1>1. ASSUME NEW r \in server_results, NEW s \in Streams
      PROVE  /\ TakenInv(r.streams[s], s) /\ r.server_output = built
             /\ r.streams[s].bytes \in Int
             /\ r.streams[s].bytes <= LocalBytesOf("server", s)
  BY DEF Inv, ServerResultsInv, None, TakenInv
<1>2. CASE built = None
  <2>1. d = ServerReport(bare, error)
    <3>1. {[b EXCEPT !.error = IF IsSome(@) THEN @ ELSE error] : b \in built} = None
      BY <1>2 DEF None
    <3> QED BY <3>1, UnwrapNone DEF FinalReport
  <2> HIDE DEF d
  <2>2. ASSUME NEW s \in Streams
        PROVE  d.input.streams[s].local_bytes = LocalBytesOf("server", s)
    BY <2>1, ServerReportShape
  <2>3. ASSUME NEW r \in server_results, NEW s \in Streams
        PROVE  d.input.streams[s].local_bytes >= r.streams[s].bytes
    BY <1>1, <2>2, LocalBytesInt
  <2>4. \A r \in server_results : r.server_output = None
    BY <1>2 DEF Inv, ServerResultsInv, None
  <2>5. ~test.omit /\ test.udp => LossesWithinBatch(d)
    BY <2>1, ServerLossWithinBatch, ServerSumLoss DEF LossesWithinBatch
  <2> QED BY <2>3, <2>4, <2>5 DEF None, d
<1>3. ASSUME NEW b \in built, built = {b}
      PROVE  /\ \A r \in server_results :
                  /\ \A s \in Streams : d.input.streams[s].local_bytes
                                          >= r.streams[s].bytes
                  /\ \A o \in r.server_output : o.streams = d.streams
                                               /\ o.sums = d.sums
             /\ ~test.omit /\ test.udp => LossesWithinBatch(d)
  <2> DEFINE e == IF IsSome(b.error) THEN b.error ELSE error
  <2>1. d = [b EXCEPT !.error = e]
    <3>1. {[c EXCEPT !.error = IF IsSome(@) THEN @ ELSE error] : c \in built}
            = {[b EXCEPT !.error = e]}
      BY <1>3
    <3> QED BY <3>1, UnwrapSome DEF FinalReport
  <2> HIDE DEF d, e
  <2>2. d.input = b.input /\ d.streams = b.streams /\ d.sums = b.sums
    BY <2>1
  <2>3. ASSUME NEW r \in server_results, NEW s \in Streams
        PROVE  d.input.streams[s].local_bytes >= r.streams[s].bytes
    <3>1. b.input.streams[s].local_bytes = r.streams[s].bytes
      BY <1>3 DEF Inv, ServerResultsInv
    <3> QED BY <1>1, <2>2, <3>1
  <2>4. \A r \in server_results : r.server_output = {b}
    BY <1>3 DEF Inv, ServerResultsInv, None
  <2>5. ~test.omit /\ test.udp => LossesWithinBatch(b)
    BY <1>3 DEF Inv, ServerResultsInv
  <2>6. LossesWithinBatch(d) <=> LossesWithinBatch(b)
    BY <2>2 DEF LossesWithinBatch, StreamLossWithinBatch,
         SumLossWithinBatch
  <2> QED BY <2>2, <2>3, <2>4, <2>5, <2>6
<1>4. built = None \/ \E b \in built : built = {b}
  BY DEF Inv, ServerResultsInv
<1> QED BY <1>2, <1>3, <1>4

LEMMA ServerDocWritten ==
    ASSUME Inv, ControlFrame, NEW bare, NEW error,
           sdoc' = {FinalReport(bare, error)}, sv # "run",
           IsSome(server_results) => sv \notin {"run", "stopping"},
           sv' \in {"completed", "failed"},
           UNCHANGED <<done, cl, client_results, server_results, reply, built, cdoc>>
    PROVE  Inv'
<1>1. Streams' = Streams /\ test' = test
  BY DEF ControlFrame, Streams
<1>2. \A d : LossesWithinBatch(d)' <=> LossesWithinBatch(d)
  BY <1>1, LossesStay
<1>3. PICK d : /\ sdoc' = {d}
               /\ \A r \in server_results :
                     /\ \A s \in Streams : d.input.streams[s].local_bytes
                                             >= r.streams[s].bytes
                     /\ \A o \in r.server_output : o.streams = d.streams
                                                  /\ o.sums = d.sums
               /\ ~test.omit /\ test.udp => LossesWithinBatch(d)
  <2> DEFINE d == FinalReport(bare, error)
  <2>1. sdoc' = {d}
    OBVIOUS
  <2>2. ASSUME NEW r \in server_results
        PROVE  /\ \A s \in Streams : d.input.streams[s].local_bytes
                                       >= r.streams[s].bytes
               /\ \A o \in r.server_output : o.streams = d.streams
                                            /\ o.sums = d.sums
    BY FinalReportInv
  <2>3. ~test.omit /\ test.udp => LossesWithinBatch(d)
    BY FinalReportInv
  <2> HIDE DEF d
  <2> QED BY <2>1, <2>2, <2>3
<1>4. ServerDocInv(d)'
  BY <1>1, <1>2, <1>3 DEF ServerDocInv
<1>5. ASSUME NEW r \in server_results, NEW s \in Streams
      PROVE  TakenInv(r.streams[s], s)'
  BY ControlTaken DEF Inv, ServerResultsInv
<1>6. ServerResultsInv'
  BY <1>1, <1>2, <1>5 DEF Inv, ServerResultsInv, IsSome
<1>7. done' \in [Hosts -> BOOLEAN] /\ cl' \in ClientPoints /\ sv' \in ServerPoints
  BY DEF Inv, TypeOK, ClientPoints, ServerPoints
<1> QED BY <1>3, <1>4, <1>6, <1>7, ClientSideKept, ControlStep

LEMMA ServerEndsKeepsInv ==
    ASSUME Inv, ServerDisplays \/ \E bare \in BOOLEAN : ServerFails(bare)
    PROVE  Inv'
<1>1. CASE ServerDisplays
  BY <1>1, ServerDocWritten DEF ServerDisplays, ControlFrame, Some
<1>2. ASSUME NEW bare \in BOOLEAN, ServerFails(bare) PROVE Inv'
  <2>1. IsSome(server_results) => sv \notin {"run", "stopping"}
    BY DEF Inv, ServerResultsInv
  <2> QED BY <1>2, <2>1, ServerDocWritten DEF ServerFails, ControlFrame, Some
<1> QED BY <1>1, <1>2

LEMMA ClientDocWritten ==
    ASSUME Inv, ControlFrame, NEW bare, NEW remote \in {None, reply},
           NEW error \in {None, Some("error")},
           error = None => remote # None /\ ~bare,
           cdoc' = {Rendered(remote, bare, error)},
           cl' = IF error = None THEN "completed" ELSE "failed",
           UNCHANGED <<done, sv, client_results, server_results, reply, built, sdoc>>
    PROVE  Inv'
<1>1. Streams' = Streams /\ test' = test
  BY DEF ControlFrame, Streams
<1>2. IsOption(remote)
  <2>1. reply \in {None, server_results}
    BY DEF Inv, ServerResultsInv
  <2>2. server_results = None \/ \E r \in server_results : server_results = {r}
    BY DEF Inv, ServerResultsInv
  <2> QED BY <2>1, <2>2 DEF IsOption
<1>3. PICK d : /\ cdoc' = {d}
               /\ HadResults(d.json) <=> remote # None
               /\ TextAgrees(d) /\ d.json.bare = bare
               /\ ShowsStreams(d.json, OwnFigures(d.json), Told(remote))
               /\ bare \/ ShowsSums(d.json, OwnFigures(d.json), Told(remote))
               /\ error = None => d.stream = d.json
               /\ ~test.omit /\ test.udp => LossesWithinBatch(d.json)
  <2> DEFINE d == Rendered(remote, bare, error)
  <2>1. /\ HadResults(d.json) <=> remote # None
        /\ TextAgrees(d) /\ d.json.bare = bare
        /\ ShowsStreams(d.json, OwnFigures(d.json), Told(remote))
        /\ OwnFigures(d.json) = Own
        /\ error = None => d.stream = d.json
    BY <1>2, RenderedAgrees
  <2>2. ~test.omit /\ test.udp => LossesWithinBatch(d.json)
    BY ClientLossWithinBatch, ClientSumLoss DEF LossesWithinBatch, UdpWhole
  <2>3. cdoc' = {d}
    OBVIOUS
  <2>4. ~bare => ShowsSums(d.json, Own, Told(remote))
    <3>1. d.json = Build(ClientInput(remote, bare, error))
      BY DEF Rendered
    <3> HIDE DEF d
    <3> QED BY <1>2, <3>1, RenderedSums
  <2> HIDE DEF d
  <2> QED BY <2>1, <2>2, <2>3, <2>4
<1>4. PeerFigures' = PeerFigures /\ KnownPeerFigures(d.json)' = KnownPeerFigures(d.json)
      /\ OwnFigures(d.json)' = OwnFigures(d.json)
  BY <1>1, DocSays
<1>5. Told(remote) = KnownPeerFigures(d.json)
  <2>1. CASE remote = None
    <3>1. \A s \in Streams : Told(remote)[s] = 0
      BY <2>1, ToldShape
    <3> QED BY <1>3, <2>1, <3>1 DEF KnownPeerFigures, Told
  <2>2. CASE remote # None
    <3>1. Told(remote) = PeerFigures
      BY <2>2 DEF Told, PeerFigures, None
    <3> QED BY <1>3, <2>2, <3>1 DEF KnownPeerFigures
  <2> QED BY <2>1, <2>2
<1>6. remote # None => IsSome(reply)'
  BY DEF IsSome
<1>7. ClientDocInv(d)'
  <2>1. /\ ShowsStreams(d.json, OwnFigures(d.json), KnownPeerFigures(d.json))'
        /\ TextAgrees(d)'
    BY <1>1, <1>3, <1>4, <1>5, DocSays
  <2>2. bare \/ ShowsSums(d.json, OwnFigures(d.json), KnownPeerFigures(d.json))'
    BY <1>1, <1>3, <1>4, <1>5, DocSays
  <2>3. (HadResults(d.json)' <=> HadResults(d.json))
        /\ (LossesWithinBatch(d.json)' <=> LossesWithinBatch(d.json))
    BY <1>1, LossesStay DEF HadResults
  <2> QED BY <1>1, <1>3, <1>6, <2>1, <2>2, <2>3 DEF ClientDocInv
<1>8. done' \in [Hosts -> BOOLEAN] /\ cl' \in ClientPoints /\ sv' \in ServerPoints
  BY DEF Inv, TypeOK, ClientPoints, ServerPoints
<1> QED BY <1>3, <1>7, <1>8, ServerSideKept, ControlStep

LEMMA ClientEndsKeepsInv ==
    ASSUME Inv, ClientDisplays \/ \E bare \in BOOLEAN : ClientFails(bare)
    PROVE  Inv'
<1>0. Some("error") # None /\ None = None
  BY DEF Some, None
<1>1. CASE ClientDisplays
  <2>1. reply # None
    BY <1>1 DEF ClientDisplays, Inv, ServerResultsInv, IsSome
  <2>2. /\ ControlFrame /\ cl' = "completed" /\ cdoc' = {Rendered(reply, FALSE, None)}
        /\ UNCHANGED <<done, sv, client_results, server_results, reply, built, sdoc>>
    BY <1>1 DEF ClientDisplays, ControlFrame, Some
  <2> QED BY <2>1, <2>2, ClientDocWritten
<1>2. ASSUME NEW bare \in BOOLEAN, ClientFails(bare) PROVE Inv'
  <2>1. /\ ControlFrame /\ cl' = "failed"
        /\ UNCHANGED <<done, sv, client_results, server_results, reply, built, sdoc>>
    BY <1>2 DEF ClientFails, ControlFrame
  <2>2. PICK remote \in {None, reply} : cdoc' = {Rendered(remote, bare, Some("error"))}
    BY <1>2 DEF ClientFails, Some
  <2> QED BY <1>0, <2>1, <2>2, ClientDocWritten
<1> QED BY <1>1, <1>2

-----------------------------------------------------------------------------
(* The theorems. *)

LEMMA InitInv == Init => Inv
<1> SUFFICES ASSUME Init PROVE Inv
  OBVIOUS
<1>1. /\ test \in TestParams
      /\ tx = [s \in Streams |-> "writing"] /\ rx = [s \in Streams |-> "reading"]
      /\ wire = [s \in Streams |-> 0] /\ taken = [s \in Streams |-> 0]
      /\ sent = [s \in Streams |-> NewSent]
      /\ rcvd = [s \in Streams |-> NewReceived]
      /\ done = [h \in Hosts |-> FALSE] /\ crossed = [h \in Hosts |-> 0]
      /\ cl = "run" /\ sv = "run"
      /\ server_results = {} /\ reply = {} /\ built = {} /\ cdoc = {} /\ sdoc = {}
  BY ConstantsAssumption DEF Init, None
<1>2. TypeOK
  BY <1>1 DEF TypeOK, Counts, RecvCounts, NewReceived, NewSent
<1>3. \A s \in Streams : CountInv(s)
  <2>1. test.batch \in Nat
    BY <1>1, ConstantsAssumption DEF TestParams
  <2> QED BY <1>1, <2>1 DEF CountInv, SenderInv, NewReceived, NewSent
<1>4. ServerResultsInv
  BY <1>1 DEF ServerResultsInv, IsSome, None
<1> QED BY <1>1, <1>2, <1>3, <1>4 DEF Inv

LEMMA NextInv == Inv /\ [Next]_vars => Inv'
<1> SUFFICES ASSUME Inv, [Next]_vars PROVE Inv'
  OBVIOUS
<1>1. ASSUME NEW s \in Streams,
             \/ WriteBlock(s) \/ RecordSent(s) \/ RecordDatagrams(s)
             \/ ReadBlock(s) \/ LoseBlock(s)
      PROVE  Inv'
  BY <1>1, WriteKeepsInv, RecordKeepsInv, RecordDatagramsKeepsInv, ReadKeepsInv
<1>2. ASSUME NEW h \in Hosts, OmitBoundary(h) PROVE Inv'
  BY <1>2, BoundaryKeepsInv
<1>3. CASE \/ ClientStopsData \/ ClientSendsTestEnd \/ ClientSendsResults
           \/ ClientReceivesResults
  BY <1>3, WaitsKeepInv
<1>4. CASE ServerStopsData
  BY <1>4, ServerStopsKeepsInv
<1>5. CASE ServerTakesResults
  BY <1>5, ServerTakesKeepsInv
<1>6. CASE ServerSendsResults
  BY <1>6, ServerSendsKeepsInv
<1>7. CASE ClientDisplays \/ \E bare \in BOOLEAN : ClientFails(bare)
  BY <1>7, ClientEndsKeepsInv
<1>8. CASE ServerDisplays \/ \E bare \in BOOLEAN : ServerFails(bare)
  BY <1>8, ServerEndsKeepsInv
<1>9. CASE UNCHANGED vars
  <2>1. TaskFrame /\ Streams' = Streams /\ UNCHANGED <<taskVars, crossed>>
    BY <1>9 DEF vars, TaskFrame, Streams
  <2>2. ControlFrame
    BY <1>9 DEF vars, ControlFrame
  <2>3. TypeOK' /\ \A s \in Streams : CountInv(s)'
    BY <1>9, <2>1 DEF vars, taskVars, Inv, TypeOK, CountInv, SenderInv
  <2>4. ASSUME NEW r \in server_results, NEW s \in Streams
        PROVE  TakenInv(r.streams[s], s)'
    BY <2>2, ControlTaken DEF Inv, ServerResultsInv
  <2> QED BY <2>1, <2>3, <2>4, TaskFrameKeepsDocs
<1> QED BY <1>1, <1>2, <1>3, <1>4, <1>5, <1>6, <1>7, <1>8, <1>9 DEF Next

\* The counters, what the server took of them and what the documents say stay
\* in step, for any tests, streams and blocks, whichever tasks still count
\* after the test was told to stop (stream.rs, StreamCounters; server.rs and
\* client.rs, the exchange and the reports).
THEOREM Invariance == Spec => []Inv
BY InitInv, NextInv, PTL DEF Spec

\* However the run ended, the text summary (reporter.rs, print_results_text)
\* and the document (json_report.rs, build) tell the same bytes and the same
\* loss of every stream.
THEOREM TextAndDocumentAgree == Spec => []TextAgreesWithDocument
<1>1. Inv => TextAgreesWithDocument
  BY DEF Inv, ClientDocInv, TextAgreesWithDocument
<1> QED BY <1>1, Invariance, PTL

\* What the server prints (server.rs, ReportSource) never shows less of a
\* stream than it told the client, and is the report that went out with the
\* results when one did.
THEOREM ServerKeepsItsWord == Spec => []ServerDocumentKeepsItsWord
<1>1. Inv => ServerDocumentKeepsItsWord
  <2> SUFFICES ASSUME Inv, NEW d \in sdoc, NEW r \in reply
               PROVE  /\ \A s \in Streams : d.bare \/ d.input.streams[s].local_bytes
                                                        >= r.streams[s].bytes
                      /\ \A o \in r.server_output : o.streams = d.streams
                                                   /\ o.sums = d.sums
    BY DEF ServerDocumentKeepsItsWord
  <2>1. r \in server_results
    BY DEF Inv, ServerResultsInv, None
  <2> QED BY <2>1 DEF Inv, ServerDocInv
<1> QED BY <1>1, Invariance, PTL

\* The documents of a completed run (client.rs, on_display_results; in
\* json_report.rs, build) show, for every stream and in every sum, what the host
\* on that side counted: own counts as they stood, the server's as it sent them.
THEOREM CompletedShowsWhatWasMeasured == Spec => []CompletedFiguresMeasured
<1>1. Inv => CompletedFiguresMeasured
  <2> SUFFICES ASSUME Inv, cl = "completed", NEW d \in cdoc
               PROVE  /\ ShowsFigures(d.json, OwnFigures(d.json), PeerFigures)
                      /\ ShowsFigures(d.stream, OwnFigures(d.stream), PeerFigures)
    BY DEF CompletedFiguresMeasured
  <2>1. ClientDocInv(d)
    BY DEF Inv
  <2>2. d.stream = d.json /\ KnownPeerFigures(d.json) = PeerFigures
    BY <2>1 DEF ClientDocInv, KnownPeerFigures
  <2>3. ShowsFigures(d.json, OwnFigures(d.json), PeerFigures)
    BY <2>1, <2>2 DEF ClientDocInv, ShowsFigures
  <2> QED BY <2>2, <2>3
<1> QED BY <1>1, Invariance, PTL

\* The document of a run that failed (client.rs, the error ends; json_report.rs,
\* Graft) shows its own counts and, for the halves its peer measured, what the
\* peer sent or zero, for every stream and in every sum.
THEOREM FailedShowsNothingElse == Spec => []TerminatedShowsOwn
<1>1. Inv => TerminatedShowsOwn
  BY DEF Inv, ClientDocInv, TerminatedShowsOwn, ShowsFigures
<1> QED BY <1>1, Invariance, PTL

\* Without an omitted period an entry or a sum of either host's document
\* (json_report.rs, end_stream and the udp sums) shows at most the loss of the
\* one batch per stream a sender had under way (stream.rs, the sendmmsg and
\* burst loops) beyond the datagrams it is a percentage of, though one host
\* measured the loss and the other the datagrams, at different times: at most
\* 100% when the senders count every datagram by itself.
THEOREM LossNeverABatchAboveSent == Spec => []LossWithinBatch
<1>1. Inv => LossWithinBatch
  BY DEF Inv, ClientDocInv, ServerDocInv, LossWithinBatch
<1> QED BY <1>1, Invariance, PTL
=============================================================================
