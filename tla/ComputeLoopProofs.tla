-------------------------- MODULE ComputeLoopProofs --------------------------
(***************************************************************************)
(* The compute thread's loop in rpBenchmark2, for every number of          *)
(* processes and of requests: no request goes to its own rank and the      *)
(* loads of any two other ranks differ by at most one, a response of two   *)
(* bytes or more passes its checksum test, and the running statistics are  *)
(* those of the definition.                                                *)
(*                                                                         *)
(* Two of these are about sums of any length. A sum of natural numbers is  *)
(* as many as its units, a set that is counted by the theorems about       *)
(* finite sets; that counting agrees with the fold of the definition for   *)
(* every set of arguments follows from a least set for which it would not. *)
(***************************************************************************)
EXTENDS ComputeLoop, FiniteSetTheorems, SequenceTheorems, WellFoundedInduction, TLAPS

(* How many other ranks there are. *)
Others == NProc - 1

(* The place of q in the round of p, which begins after p. *)
Place(p, q) == IF q > p THEN q - p - 1 ELSE q - p - 1 + NProc

(* How many requests have been made. *)
Made == IF answer = {} THEN i ELSE i + 1

(* Full rounds have reached every other rank, and the round under way      *)
(* those whose place has passed.                                           *)
Rounds(r) ==
  \A q \in Ranks \ {rank} : asked[q] = IF Place(rank, q) < Made % Others THEN r + 1 ELSE r

RoundInv ==
  /\ rank \in Ranks /\ i \in Nat
  /\ asked \in [Ranks -> Nat] /\ asked[rank] = 0
  /\ \E r \in Nat : Rounds(r)

(* Numbers of ranks. *)
LEMMA Sizes == NProc \in Nat /\ NProc >= 2 /\ Others \in Nat /\ Others >= 1 /\ NProc = Others + 1
BY ComputeLoopAssumption DEF Others

(* A number is its remainder and a multiple of the divisor. *)
LEMMA Remainder ==
  ASSUME NEW k \in Nat, k >= 1, NEW e \in Nat, NEW j \in 0 .. k - 1
  PROVE  (k * e + j) % k = j
<1>1. PICK x \in Nat : x = k * e + j
  OBVIOUS
<1>2. PICK d \in Int, m \in 0 .. k - 1 : m = x % k /\ x = k * d + m
  OBVIOUS
<1>3. ASSUME NEW z \in Int, d = e + z
      PROVE  k * z = j - m
  <2>1. k * (e + z) = k * e + k * z
    OBVIOUS
  <2> QED
    BY <1>1, <1>2, <1>3, <2>1
<1>4. ~(d - e >= 1)
  <2> SUFFICES ASSUME NEW z \in Int, d = e + z, z >= 1
      PROVE  FALSE
    BY <1>2
  <2>1. k * z >= k
    OBVIOUS
  <2> QED
    BY <1>3, <2>1
<1>5. ~(e - d >= 1)
  <2> SUFFICES ASSUME NEW z \in Int, d = e + z, z <= -1
      PROVE  FALSE
    BY <1>2
  <2>1. k * z <= -k
    OBVIOUS
  <2> QED
    BY <1>3, <2>1
<1>6. d = e
  BY <1>2, <1>4, <1>5
<1> QED
  BY <1>1, <1>2, <1>3, <1>6

(* The next request is for the next place of the round. *)
LEMMA NextPlace ==
  ASSUME NEW n \in Nat
  PROVE  /\ n % Others \in 0 .. Others - 1
         /\ (n + 1) % Others = IF n % Others = Others - 1 THEN 0 ELSE (n % Others) + 1
<1>1. PICK k \in Nat : k = Others /\ k >= 1
  BY Sizes
<1>2. PICK d \in Nat, j \in 0 .. k - 1 : j = n % k /\ n = k * d + j
  BY <1>1
<1>3. CASE j = k - 1
  <2>1. n + 1 = k * (d + 1)
    BY <1>1, <1>2, <1>3
  <2>2. (n + 1) % k = 0
    <3>1. (k * (d + 1) + 0) % k = 0
      BY <1>1, Remainder
    <3> QED
      BY <1>1, <2>1, <3>1
  <2> QED
    BY <1>1, <1>2, <1>3, <2>2
<1>4. CASE j # k - 1
  <2>1. n + 1 = k * d + (j + 1) /\ j + 1 \in 0 .. k - 1
    BY <1>1, <1>2, <1>4
  <2>2. (n + 1) % k = j + 1
    <3>1. (k * d + (j + 1)) % k = j + 1
      BY <1>1, <2>1, Remainder
    <3> QED
      BY <2>1, <3>1
  <2> QED
    BY <1>1, <1>2, <1>4, <2>2
<1> QED
  BY <1>3, <1>4

(* No request starts a round half-way. *)
LEMMA FirstPlace == 0 % Others = 0
BY Sizes

(* A request goes to the rank at its place, which is never the sender. *)
LEMMA TargetPlace ==
  ASSUME NEW p \in Ranks, NEW n \in Nat
  PROVE  /\ Target(p, n) \in Ranks \ {p}
         /\ \A q \in Ranks \ {p} : /\ Place(p, q) \in 0 .. Others - 1
                                   /\ Target(p, n) = q <=> Place(p, q) = n % Others
<1>1. PICK j \in 0 .. Others - 1 : j = n % Others /\ j = n % (NProc - 1)
  BY NextPlace DEF Others
<1>2. PICK x \in Nat : x = p + 1 + j
  BY Sizes, <1>1 DEF Ranks
<1>3. p \in 0 .. NProc - 1 /\ x < 2 * NProc /\ x # p /\ x # p + NProc
  BY Sizes, <1>1, <1>2 DEF Ranks
<1>4. x % NProc = IF x < NProc THEN x ELSE x - NProc
  BY Sizes, <1>3
<1>5. Target(p, n) = IF x < NProc THEN x ELSE x - NProc
  BY <1>1, <1>2, <1>4 DEF Target
<1>6. Target(p, n) \in Ranks \ {p}
  BY Sizes, <1>2, <1>3, <1>5 DEF Ranks
<1>7. ASSUME NEW q \in Ranks \ {p}
      PROVE  /\ Place(p, q) \in 0 .. Others - 1
             /\ Target(p, n) = q <=> Place(p, q) = j
  <2>1. q \in 0 .. NProc - 1 /\ q # p
    BY DEF Ranks
  <2>2. CASE q > p
    BY Sizes, <1>1, <1>2, <1>3, <1>5, <2>1, <2>2 DEF Place
  <2>3. CASE q < p
    <3>1. Place(p, q) = q - p - 1 + NProc
      BY <1>3, <2>1, <2>3, Sizes DEF Place
    <3>2. CASE x < NProc
      BY Sizes, <1>1, <1>2, <1>3, <1>5, <2>1, <2>3, <3>1, <3>2
    <3>3. CASE ~(x < NProc)
      BY Sizes, <1>1, <1>2, <1>3, <1>5, <2>1, <2>3, <3>1, <3>3
    <3> QED
      BY <3>2, <3>3
  <2> QED
    BY <1>3, <2>1, <2>2, <2>3
<1> QED
  BY <1>1, <1>6, <1>7

(* Before the first request nobody has been asked. *)
LEMMA RoundInit == Init => RoundInv
<1> SUFFICES ASSUME Init
    PROVE  RoundInv
  OBVIOUS
<1>1. rank \in Ranks /\ i = 0 /\ answer = {} /\ asked = [q \in Ranks |-> 0]
  BY DEF Init
<1>2. Made % Others = 0
  BY <1>1, FirstPlace DEF Made
<1>3. \A q \in Ranks \ {rank} : Place(rank, q) \in 0 .. Others - 1
  BY <1>1, TargetPlace
<1>4. Rounds(0)
  BY <1>1, <1>2, <1>3, Sizes DEF Rounds
<1> QED
  BY <1>1, <1>4 DEF RoundInv

(* A request moves the round on by one place, and an answer does not. *)
LEMMA RoundStep == RoundInv /\ [Next]_vars => RoundInv'
<1> SUFFICES ASSUME RoundInv, [Next]_vars
    PROVE  RoundInv'
  OBVIOUS
<1>1. PICK r \in Nat : Rounds(r)
  BY DEF RoundInv
<1>2. CASE Ask
  <2>1. PICK n \in Nat : n = i /\ n = Made /\ n + 1 = Made'
    BY <1>2 DEF Ask, RoundInv, Made
  <2>2. PICK t \in Ranks \ {rank} : t = Target(rank, n)
    BY <2>1, TargetPlace DEF RoundInv
  <2>3. /\ UNCHANGED <<rank, i>>
        /\ \A q \in Ranks : asked'[q] = IF q = t THEN asked[q] + 1 ELSE asked[q]
        /\ asked' \in [Ranks -> Nat]
    BY <1>2, <2>1, <2>2 DEF Ask, RoundInv
  <2>4. /\ n % Others \in 0 .. Others - 1
        /\ (n + 1) % Others = IF n % Others = Others - 1 THEN 0 ELSE (n % Others) + 1
    BY NextPlace
  <2>5. \A q \in Ranks \ {rank} : /\ Place(rank, q) \in 0 .. Others - 1
                                  /\ q = t <=> Place(rank, q) = n % Others
    BY <2>2, TargetPlace DEF RoundInv
  <2>6. \A q \in Ranks \ {rank} :
          asked[q] = IF Place(rank, q) < n % Others THEN r + 1 ELSE r
    BY <1>1, <2>1 DEF Rounds
  <2>7. CASE n % Others = Others - 1
    <3>1. \A q \in Ranks \ {rank} : asked'[q] = r + 1
      BY <2>3, <2>4, <2>5, <2>6, <2>7, Sizes
    <3>2. Made' % Others = 0
      BY <2>1, <2>4, <2>7
    <3>3. Rounds(r + 1)'
      BY <2>3, <2>5, <3>1, <3>2, Sizes DEF Rounds, Place
    <3> QED
      BY <2>2, <2>3, <3>3 DEF RoundInv
  <2>8. CASE n % Others # Others - 1
    <3>1. \A q \in Ranks \ {rank} :
            asked'[q] = IF Place(rank, q) < (n % Others) + 1 THEN r + 1 ELSE r
      BY <2>3, <2>4, <2>5, <2>6, Sizes
    <3>2. Made' % Others = (n % Others) + 1
      BY <2>1, <2>4, <2>8
    <3>3. Rounds(r)'
      BY <2>3, <3>1, <3>2 DEF Rounds, Place
    <3> QED
      BY <2>2, <2>3, <3>3 DEF RoundInv
  <2> QED
    BY <2>7, <2>8
<1>3. CASE TakeAnswer
  <2>1. UNCHANGED <<rank, asked>> /\ i' = i + 1 /\ Made' = Made
    BY <1>3 DEF TakeAnswer, Made
  <2>2. Rounds(r)'
    BY <1>1, <2>1 DEF Rounds, Place
  <2> QED
    BY <2>1, <2>2 DEF RoundInv
<1>4. CASE UNCHANGED vars
  <2>1. UNCHANGED <<rank, asked, i>> /\ Made' = Made
    BY <1>4 DEF vars, Made
  <2>2. Rounds(r)'
    BY <1>1, <2>1 DEF Rounds, Place
  <2> QED
    BY <2>1, <2>2 DEF RoundInv
<1> QED
  BY <1>2, <1>3, <1>4 DEF Next

(* "Never send database request to self", and round-robin: at any moment   *)
(* the requests that two other ranks have got differ by at most one (the   *)
(* choice of the target in compute_thread_main, rpBenchmark2/main.c:577).  *)
THEOREM LoadIsBalanced == Spec => []RoundRobin
<1>1. RoundInv => RoundRobin
  <2> SUFFICES ASSUME RoundInv
      PROVE  RoundRobin
    OBVIOUS
  <2>1. PICK r \in Nat : Rounds(r)
    BY DEF RoundInv
  <2>2. \A q \in Ranks \ {rank} : asked[q] \in r .. r + 1
    BY <2>1 DEF Rounds
  <2>3. \A p, q \in Ranks \ {rank} : asked[p] - asked[q] \in -1 .. 1
    BY <2>2
  <2> QED
    BY <2>3 DEF RoundInv, RoundRobin
<1> QED
  BY <1>1, RoundInit, RoundStep, PTL DEF Spec
-----------------------------------------------------------------------------
(* The sum of the values of a function. *)
SumOf(f) == MapThenSumSet(LAMBDA k : f[k], DOMAIN f)

(* g is the fold that the sum is taken from. *)
IsFold(g, f) ==
  g = [s \in SUBSET DOMAIN f |->
         IF s = {} THEN 0
         ELSE f[CHOOSE x \in s : TRUE] + g[s \ {CHOOSE x \in s : TRUE}]]

(* The values as so many units, each under the argument it is of. *)
Units(f, s) == {u \in s \X Nat : u[2] < f[u[1]]}

(* The sum is taken from the fold over the subsets of the arguments. *)
LEMMA SumIsFold == \A f : SumOf(f) = (CHOOSE g : IsFold(g, f))[DOMAIN f]
BY DEF SumOf, MapThenSumSet, MapThenFoldSet, IsFold

(* One argument more has as many units more as its value. *)
LEMMA UnitsAdded ==
  ASSUME NEW D, NEW f \in [D -> Nat], NEW x \in D, NEW s \in SUBSET D, x \notin s,
         IsFiniteSet(Units(f, s))
  PROVE  /\ IsFiniteSet(Units(f, s \cup {x}))
         /\ Cardinality(Units(f, s \cup {x})) = f[x] + Cardinality(Units(f, s))
<1> PICK n \in Nat : n = f[x]
  OBVIOUS
<1>1. IsFiniteSet(0 .. n - 1) /\ Cardinality(0 .. n - 1) = n
  <2>1. 0 \in Int /\ n - 1 \in Int
    OBVIOUS
  <2>2. IsFiniteSet(0 .. n - 1) /\ Cardinality(0 .. n - 1) = IF 0 > n - 1 THEN 0 ELSE n - 1 - 0 + 1
    BY <2>1, FS_Interval
  <2> QED
    BY <2>2
<1>2. IsFiniteSet({x}) /\ Cardinality({x}) = 1
  BY FS_Singleton
<1>3. IsFiniteSet({x} \X (0 .. n - 1)) /\ Cardinality({x} \X (0 .. n - 1)) = n
  <2>1. /\ IsFiniteSet({x} \X (0 .. n - 1))
        /\ Cardinality({x} \X (0 .. n - 1)) = Cardinality({x}) * Cardinality(0 .. n - 1)
    BY <1>1, <1>2, FS_Product
  <2> QED
    BY <1>1, <1>2, <2>1
<1>4. Units(f, s \cup {x}) = Units(f, s) \cup ({x} \X (0 .. n - 1))
  <2>1. ASSUME NEW u \in Units(f, s \cup {x}), u \notin Units(f, s)  PROVE u \in {x} \X (0 .. n - 1)
    BY <2>1 DEF Units
  <2>2. Units(f, s) \subseteq Units(f, s \cup {x})
    BY DEF Units
  <2>3. ASSUME NEW u \in {x} \X (0 .. n - 1)  PROVE u \in Units(f, s \cup {x})
    BY <2>3 DEF Units
  <2> QED
    BY <2>1, <2>2, <2>3
<1>5. Units(f, s) \cap ({x} \X (0 .. n - 1)) = {}
  BY DEF Units
<1>6. /\ IsFiniteSet(Units(f, s) \cup ({x} \X (0 .. n - 1)))
      /\ Cardinality(Units(f, s) \cup ({x} \X (0 .. n - 1))) =
           Cardinality(Units(f, s)) + Cardinality({x} \X (0 .. n - 1))
             - Cardinality(Units(f, s) \cap ({x} \X (0 .. n - 1)))
  BY <1>3, FS_Union
<1>7. Cardinality(Units(f, s)) \in Nat
  BY FS_CardinalityType
<1>8. Cardinality({}) = 0
  BY FS_EmptySet
<1>9. /\ IsFiniteSet(Units(f, s \cup {x}))
      /\ Cardinality(Units(f, s \cup {x})) = Cardinality(Units(f, s)) + n - 0
  BY <1>3, <1>4, <1>5, <1>6, <1>8
<1> QED
  BY <1>7, <1>9

(* No units under no arguments. *)
LEMMA UnitsNone ==
  ASSUME NEW f
  PROVE  Units(f, {}) = {} /\ IsFiniteSet(Units(f, {})) /\ Cardinality(Units(f, {})) = 0
<1>1. Units(f, {}) = {}
  BY DEF Units
<1> QED
  BY <1>1, FS_EmptySet

(* The units under finitely many arguments can be counted. *)
LEMMA UnitsFinite ==
  ASSUME NEW D, IsFiniteSet(D), NEW f \in [D -> Nat], NEW s \in SUBSET D
  PROVE  IsFiniteSet(Units(f, s))
<1> DEFINE T == {t \in FiniteSubsetsOf(D) : ~IsFiniteSet(Units(f, t))}
<1>1. SUFFICES ASSUME T # {}  PROVE FALSE
  <2>1. s \in FiniteSubsetsOf(D)
    BY FS_Subset DEF FiniteSubsetsOf
  <2> QED
    BY <2>1
<1>2. PICK t \in T : \A r \in T : <<r, t>> \notin StrictSubsetOrdering(D)
  <2>1. IsWellFoundedOn(StrictSubsetOrdering(D), FiniteSubsetsOf(D))
    BY FS_StrictSubsetOrderingWellFounded
  <2>2. T \subseteq FiniteSubsetsOf(D)
    OBVIOUS
  <2> HIDE DEF T
  <2> QED
    BY <1>1, <2>1, <2>2, WFMin
<1>3. t \in SUBSET D /\ IsFiniteSet(t) /\ ~IsFiniteSet(Units(f, t))
  BY DEF FiniteSubsetsOf
<1>4. t # {}
  BY <1>3, UnitsNone
<1>5. PICK x \in t : TRUE
  BY <1>4
<1>6. t \ {x} \in SUBSET D /\ IsFiniteSet(t \ {x}) /\ t \ {x} # t /\ t = (t \ {x}) \cup {x} /\ x \in D
  BY <1>3, <1>5, FS_RemoveElement
<1>7. <<t \ {x}, t>> \in StrictSubsetOrdering(D)
  BY <1>3, <1>6 DEF StrictSubsetOrdering
<1>8. IsFiniteSet(Units(f, t \ {x}))
  BY <1>2, <1>6, <1>7 DEF FiniteSubsetsOf
<1> QED
  BY <1>3, <1>6, <1>8, UnitsAdded

(* Counting them is a fold, *)
LEMMA UnitsFold ==
  ASSUME NEW D, IsFiniteSet(D), NEW f \in [D -> Nat]
  PROVE  IsFold([s \in SUBSET D |-> Cardinality(Units(f, s))], f)
<1> DEFINE g == [s \in SUBSET D |-> Cardinality(Units(f, s))]
<1>1. DOMAIN f = D
  OBVIOUS
<1>2. ASSUME NEW s \in SUBSET D, s = {}  PROVE g[s] = 0
  BY <1>2, UnitsNone
<1>3. ASSUME NEW s \in SUBSET D, s # {}, NEW x, x = CHOOSE y \in s : TRUE
      PROVE  g[s] = f[x] + g[s \ {x}]
  <2>1. x \in s
    BY <1>3
  <2>2. /\ x \in D /\ s \ {x} \in SUBSET D /\ x \notin s \ {x} /\ (s \ {x}) \cup {x} = s
    BY <2>1
  <2>3. IsFiniteSet(Units(f, s \ {x}))
    BY <2>2, UnitsFinite
  <2>4. Cardinality(Units(f, (s \ {x}) \cup {x})) = f[x] + Cardinality(Units(f, s \ {x}))
    BY <2>2, <2>3, UnitsAdded
  <2> QED
    BY <2>2, <2>4
<1> HIDE DEF g
<1>4. g = [s \in SUBSET D |->
             IF s = {} THEN 0
             ELSE f[CHOOSE x \in s : TRUE] + g[s \ {CHOOSE x \in s : TRUE}]]
  <2>1. \A s \in SUBSET D :
          g[s] = IF s = {} THEN 0
                 ELSE f[CHOOSE x \in s : TRUE] + g[s \ {CHOOSE x \in s : TRUE}]
    BY <1>2, <1>3
  <2>2. g = [s \in SUBSET D |-> g[s]]
    BY DEF g
  <2> QED
    BY <2>1, <2>2
<1>5. IsFold(g, f)
  BY <1>1, <1>4 DEF IsFold
<1> QED
  BY <1>5 DEF g

(* and the only one. *)
LEMMA OneFold ==
  ASSUME NEW D, IsFiniteSet(D), NEW f, DOMAIN f = D, NEW g, NEW h, IsFold(g, f), IsFold(h, f)
  PROVE  g[D] = h[D]
<1> DEFINE T == {t \in FiniteSubsetsOf(D) : g[t] # h[t]}
<1>1. SUFFICES ASSUME T # {}  PROVE FALSE
  <2>1. D \in FiniteSubsetsOf(D)
    BY DEF FiniteSubsetsOf
  <2> QED
    BY <2>1
<1>2. PICK t \in T : \A r \in T : <<r, t>> \notin StrictSubsetOrdering(D)
  <2>1. IsWellFoundedOn(StrictSubsetOrdering(D), FiniteSubsetsOf(D))
    BY FS_StrictSubsetOrderingWellFounded
  <2>2. T \subseteq FiniteSubsetsOf(D)
    OBVIOUS
  <2> HIDE DEF T
  <2> QED
    BY <1>1, <2>1, <2>2, WFMin
<1>3. t \in SUBSET D /\ IsFiniteSet(t) /\ g[t] # h[t]
  BY DEF FiniteSubsetsOf
<1>4. PICK x : x = CHOOSE y \in t : TRUE
  OBVIOUS
<1>5. /\ g[t] = IF t = {} THEN 0 ELSE f[x] + g[t \ {x}]
      /\ h[t] = IF t = {} THEN 0 ELSE f[x] + h[t \ {x}]
  BY SMTT(40), <1>3, <1>4 DEF IsFold
<1>6. t # {}
  BY <1>3, <1>5
<1>7. x \in t
  BY <1>4, <1>6
<1>8. t \ {x} \in SUBSET D /\ IsFiniteSet(t \ {x}) /\ t \ {x} # t
  BY <1>3, <1>7, FS_RemoveElement
<1>9. <<t \ {x}, t>> \in StrictSubsetOrdering(D)
  BY <1>3, <1>8 DEF StrictSubsetOrdering
<1>10. g[t \ {x}] = h[t \ {x}]
  BY <1>2, <1>8, <1>9 DEF FiniteSubsetsOf
<1> QED
  BY <1>3, <1>5, <1>6, <1>10

(* So a sum of natural numbers is the number of their units. *)
LEMMA SumIsCount ==
  ASSUME NEW D, IsFiniteSet(D), NEW f \in [D -> Nat]
  PROVE  SumOf(f) = Cardinality(Units(f, D)) /\ SumOf(f) \in Nat
<1> DEFINE g == [s \in SUBSET D |-> Cardinality(Units(f, s))]
           h == CHOOSE k : IsFold(k, f)
<1>1. IsFold(g, f)
  BY UnitsFold
<1>2. g[D] = Cardinality(Units(f, D))
  OBVIOUS
<1>3. DOMAIN f = D
  OBVIOUS
<1> HIDE DEF g
<1>4. IsFold(h, f)
  BY <1>1
<1>5. SumOf(f) = h[D]
  BY <1>3, SumIsFold
<1> HIDE DEF h
<1>6. g[D] = h[D]
  BY <1>1, <1>3, <1>4, OneFold
<1>7. IsFiniteSet(Units(f, D))
  BY UnitsFinite
<1>8. Cardinality(Units(f, D)) \in Nat
  BY <1>7, FS_CardinalityType
<1> QED
  BY <1>2, <1>5, <1>6, <1>8

(* A sum with a positive value is positive. *)
LEMMA SumPositive ==
  ASSUME NEW D, IsFiniteSet(D), NEW f \in [D -> Nat], NEW x \in D, f[x] > 0
  PROVE  SumOf(f) > 0
<1>1. <<x, 0>> \in Units(f, D)
  BY DEF Units
<1>2. IsFiniteSet(Units(f, D)) /\ Units(f, D) # {}
  BY <1>1, UnitsFinite
<1>3. Cardinality(Units(f, D)) # 0
  BY <1>2, FS_EmptySet
<1> QED
  BY <1>3, SumIsCount

(* The sum of no values is 0. *)
LEMMA SumNone == \A f : DOMAIN f = {} => SumOf(f) = 0
<1> SUFFICES ASSUME NEW f, DOMAIN f = {}  PROVE SumOf(f) = 0
  OBVIOUS
<1>1. PICK D : D = {}
  OBVIOUS
<1>2. IsFiniteSet(D)
  BY <1>1, FS_EmptySet
<1> DEFINE g == [s \in SUBSET DOMAIN f |-> 0]
           h == CHOOSE k : IsFold(k, f)
<1>3. IsFold(g, f)
  BY DEF IsFold
<1> HIDE DEF g
<1>4. IsFold(h, f)
  BY <1>3
<1>5. SumOf(f) = h[DOMAIN f]
  BY SumIsFold
<1> HIDE DEF h
<1> QED
  BY <1>4, <1>5 DEF IsFold

(* One value more. *)
LEMMA SumAppended ==
  ASSUME NEW n \in Nat, NEW f \in [1 .. n -> Nat], NEW g \in [1 .. n + 1 -> Nat],
         \A k \in 1 .. n : g[k] = f[k]
  PROVE  SumOf(g) = SumOf(f) + g[n + 1]
<1>1. IsFiniteSet(1 .. n) /\ IsFiniteSet(1 .. n + 1)
  BY FS_Interval
<1>2. SumOf(f) = Cardinality(Units(f, 1 .. n)) /\ SumOf(f) \in Nat
  BY <1>1, SumIsCount
<1>3. SumOf(g) = Cardinality(Units(g, 1 .. n + 1))
  BY <1>1, SumIsCount
<1>4. Units(g, 1 .. n) = Units(f, 1 .. n)
  BY DEF Units
<1>5. /\ n + 1 \in 1 .. n + 1 /\ 1 .. n \in SUBSET (1 .. n + 1) /\ n + 1 \notin 1 .. n
      /\ (1 .. n) \cup {n + 1} = 1 .. n + 1
  OBVIOUS
<1>6. IsFiniteSet(Units(g, 1 .. n))
  BY <1>1, <1>5, UnitsFinite
<1>7. Cardinality(Units(g, (1 .. n) \cup {n + 1})) = g[n + 1] + Cardinality(Units(g, 1 .. n))
  BY SMTT(40), <1>5, <1>6, UnitsAdded
<1>8. g[n + 1] \in Nat
  BY <1>5
<1>9. SumOf(g) = g[n + 1] + SumOf(f)
  <2>1. SumOf(g) = Cardinality(Units(g, (1 .. n) \cup {n + 1}))
    BY <1>3, <1>5
  <2> QED
    BY <1>2, <1>4, <1>7, <2>1
<1> QED
  BY <1>2, <1>8, <1>9

(* A response of two bytes or more has a byte that is not zero. *)
LEMMA ResponseAccepted ==
  ASSUME NEW q \in Nat, NEW id \in Nat, NEW key \in Nat, NEW size \in Nat, size > 1
  PROVE  ChecksumValid(size, FillResponse(q, id, key, size))
<1> DEFINE D == 0 .. size - 1
           f == FillResponse(q, id, key, size)
<1>1. f \in [D -> Nat]
  BY DEF FillResponse, Byte
<1>2. IsFiniteSet(D)
  BY FS_Interval
<1>3. PICK b \in Nat : b = q + id + key
  OBVIOUS
<1>4. 0 \in D /\ 1 \in D /\ f[0] = b % 256 /\ f[1] = (b + 1) % 256
  BY <1>3 DEF FillResponse, Byte
<1>5. b % 256 > 0 \/ (b + 1) % 256 > 0
  OBVIOUS
<1>6. SumOf(f) = ChecksumPayload(f)
  BY DEF SumOf, ChecksumPayload
<1> HIDE DEF D, f
<1>7. SumOf(f) > 0 /\ SumOf(f) \in Nat
  BY <1>1, <1>2, <1>4, <1>5, SumPositive, SumIsCount
<1>8. ChecksumValid(size, f)
  BY <1>6, <1>7 DEF ChecksumValid
<1> QED
  BY <1>8 DEF f

-----------------------------------------------------------------------------
(* The statistics. *)

(* The sums of the definition, over the samples. *)
SumOfSamples == Sum(LAMBDA x : x)
SumOfSquares == Sum(LAMBDA x : (Scale * x - latency_stats.mean) * (Scale * x - latency_stats.mean))

(* Squared samples, and squared deviations from m. *)
Powers(s)     == [k \in DOMAIN s |-> s[k] * s[k]]
Squares(s, m) == [k \in DOMAIN s |-> (Scale * s[k] - m) * (Scale * s[k] - m)]

(* The sum of the definition is the sum of the samples. *)
LEMMA SumSamples == SumOfSamples = SumOf(samples)
BY DEF SumOf, SumOfSamples, Sum

(* The sum of squared deviations of the definition is the sum of a         *)
(* function of natural numbers that has those values.                      *)
LEMMA SumSquares ==
  ASSUME NEW D, DOMAIN samples = D, IsFiniteSet(D), NEW m, m = latency_stats.mean,
         NEW f \in [D -> Nat], \A k \in D : f[k] = (Scale * samples[k] - m) * (Scale * samples[k] - m)
  PROVE  SumOfSquares = SumOf(f)
<1> DEFINE F(g) == g = [s \in SUBSET D |->
         IF s = {} THEN 0
         ELSE (Scale * samples[CHOOSE x \in s : TRUE] - m) * (Scale * samples[CHOOSE x \in s : TRUE] - m)
              + g[s \ {CHOOSE x \in s : TRUE}]]
           h == CHOOSE g : F(g)
<1>2. SumOfSquares = h[D]
  BY DEF SumOfSquares, Sum, MapThenSumSet, MapThenFoldSet
<1>3. DOMAIN f = D
  OBVIOUS
<1>4. ASSUME NEW s \in SUBSET D, s # {}
      PROVE  f[CHOOSE x \in s : TRUE] =
               (Scale * samples[CHOOSE x \in s : TRUE] - m) * (Scale * samples[CHOOSE x \in s : TRUE] - m)
  <2>1. (CHOOSE x \in s : TRUE) \in s
    BY <1>4
  <2> QED
    BY <1>4, <2>1
<1>5. ASSUME NEW g  PROVE F(g) <=> IsFold(g, f)
  BY <1>3, <1>4 DEF IsFold
<1> HIDE DEF F
<1>6. PICK g : IsFold(g, f)
  BY UnitsFold
<1>7. IsFold(h, f)
  <2>1. F(h)
    BY <1>5, <1>6
  <2> QED
    BY <1>5, <2>1
<1>8. PICK e : e = CHOOSE k : IsFold(k, f)
  OBVIOUS
<1>9. IsFold(e, f) /\ SumOf(f) = e[D]
  BY <1>3, <1>6, <1>8, SumIsFold
<1> HIDE DEF h
<1>10. h[D] = e[D]
  BY <1>3, <1>7, <1>9, OneFold
<1> QED
  BY <1>2, <1>9, <1>10

(* A square is never negative. *)
LEMMA SquareIsNat == \A z \in Int : z * z \in Nat
OBVIOUS

(* A multiple of the divisor is divided exactly. *)
LEMMA ExactDivision ==
  ASSUME NEW k \in Nat, k >= 1, NEW z \in Int
  PROVE  (k * z) \div k = z
OBVIOUS

(* The two deviations of welford_update add to M2 what one sample more     *)
(* adds to the sum of squared deviations.                                  *)
LEMMA UpdateIdentity ==
  ASSUME NEW n \in Int, NEW c \in Int, NEW e \in Int, NEW S \in Int, NEW Q \in Int, NEW x \in Int,
         NEW A \in Int, A = n * c, A = (n + 1) * e
  PROVE  A * c * (n * Q - S * S) + (A * x - c * S) * (A * x - e * (S + x)) =
           A * e * ((n + 1) * (Q + x * x) - (S + x) * (S + x))
OBVIOUS

(* The squared deviations from the mean, summed in one pass. *)
LEMMA PassIdentity ==
  ASSUME NEW n \in Int, NEW c \in Int, NEW S \in Int, NEW Q \in Int, NEW A \in Int, A = n * c
  PROVE  A * A * Q - 2 * A * (c * S) * S + n * (c * S) * (c * S) = A * c * (n * Q - S * S)
OBVIOUS

(* Scale is a multiple of every number of samples. *)
LEMMA Factors ==
  ASSUME NEW n \in 1 .. Requests
  PROVE  \E c \in Nat : Scale = n * c
<1>1. PICK k \in Nat : k = n /\ k >= 1
  BY ComputeLoopAssumption
<1>2. PICK A \in Nat : A = Scale
  BY ComputeLoopAssumption
<1>3. PICK d \in Int, j \in 0 .. k - 1 : j = A % k /\ A = k * d + j
  BY <1>1
<1>4. A % k = 0
  BY <1>1, <1>2, ComputeLoopAssumption
<1>5. A = k * d
  BY <1>1, <1>3, <1>4
<1>6. d \in Nat
  <2>1. ASSUME d < 0  PROVE FALSE
    BY <1>1, <1>5, <2>1, <1>2, ComputeLoopAssumption
  <2> QED
    BY <2>1
<1> QED
  BY <1>1, <1>2, <1>5, <1>6
-----------------------------------------------------------------------------
(* The answer is the response of some rank to the request that was made. *)
AnswerInv ==
  /\ rank \in Ranks /\ i \in Nat /\ response_size \in ResponseSizes
  /\ \A m \in answer : \E q \in Ranks : m = Response(q, Request(rank, i, response_size))

(* There is no answer before the first request. *)
LEMMA AnswerInit == Init => AnswerInv
BY DEF Init, AnswerInv

(* Every answer is the one its target made. *)
LEMMA AnswerStep == AnswerInv /\ [Next]_vars => AnswerInv'
<1> SUFFICES ASSUME AnswerInv, [Next]_vars  PROVE AnswerInv'
  OBVIOUS
<1>1. CASE Ask
  <2>1. Target(rank, i) \in Ranks
    BY TargetPlace DEF AnswerInv
  <2>2. /\ answer' = {Response(Target(rank, i), Request(rank, i, response_size))}
        /\ UNCHANGED <<rank, response_size, i>>
    BY <1>1 DEF Ask
  <2> QED
    BY <2>1, <2>2 DEF AnswerInv
<1>2. CASE TakeAnswer
  BY <1>2 DEF TakeAnswer, AnswerInv
<1>3. CASE UNCHANGED vars
  BY <1>3 DEF vars, AnswerInv
<1> QED
  BY <1>1, <1>2, <1>3 DEF Next

(* The receiver accepts every response that arrives as its target made it, *)
(* unless it is of one byte (fill_response_payload and checksum_payload,   *)
(* rpBenchmark2/main.c:163-201, and the test of the sum at line 744): of   *)
(* two bytes in succession one is not zero.                                *)
THEOREM IntactIsAccepted ==
  ASSUME 1 \notin ResponseSizes
  PROVE  Spec => []IntactAccepted
<1>1. AnswerInv => IntactAccepted
  <2> SUFFICES ASSUME AnswerInv, NEW m \in answer
               PROVE  ChecksumValid(m.response_size, m.bytes)
    BY DEF IntactAccepted
  <2>1. PICK q \in Ranks : m = Response(q, Request(rank, i, response_size))
    BY DEF AnswerInv
  <2>2. PICK size \in Nat : size = response_size /\ size > 1
    BY ComputeLoopAssumption DEF AnswerInv
  <2>3. PICK key \in Nat : key = Key(rank, i)
    BY Sizes DEF AnswerInv, Key, Ranks
  <2>4. m.response_size = size /\ m.bytes = FillResponse(q, i, key, size)
    BY <2>1, <2>2, <2>3 DEF Response, Request, Header
  <2>5. q \in Nat /\ i \in Nat
    BY Sizes DEF AnswerInv, Ranks
  <2> QED
    BY <2>2, <2>4, <2>5, ResponseAccepted
<1> QED
  BY <1>1, AnswerInit, AnswerStep, PTL DEF Spec
-----------------------------------------------------------------------------
(* What Welford's recurrence maintains: with n samples whose sum is S and  *)
(* whose squares sum to Q, and Scale / n written c, the mean is c * S and  *)
(* M2 is the sum of the squared deviations from it.                        *)
Exact(n, S, Q, mean, M2) ==
  /\ n = 0 => S = 0 /\ Q = 0 /\ mean = 0 /\ M2 = 0
  /\ n > 0 => \E c \in Nat : /\ Scale = n * c
                             /\ mean = c * S
                             /\ M2 = Scale * c * (n * Q - S * S)

(* The mean of one sample more. *)
LEMMA NextMean ==
  ASSUME NEW n \in Nat, NEW A \in Nat, NEW S \in Nat, NEW x \in Nat, NEW c \in Nat, NEW e \in Nat,
         A = n * c, A = (n + 1) * e
  PROVE  c * S + ((A * x - c * S) \div (n + 1)) = e * (S + x)
<1>1. PICK d \in Int : d = c - e
  OBVIOUS
<1>2. c = (n + 1) * d
  BY <1>1
<1>3. A * x - c * S = (n + 1) * (e * x - d * S)
  <2>1. A * x = (n + 1) * (e * x)
    OBVIOUS
  <2>2. c * S = (n + 1) * (d * S)
    BY <1>2
  <2>3. PICK u \in Int, v \in Int : u = e * x /\ v = d * S
    OBVIOUS
  <2>4. (n + 1) * u - (n + 1) * v = (n + 1) * (u - v)
    OBVIOUS
  <2> QED
    BY <2>1, <2>2, <2>3, <2>4
<1>4. PICK z \in Int : z = e * x - d * S
  OBVIOUS
<1>5. ((n + 1) * z) \div (n + 1) = z
  <2>1. n + 1 \in Nat /\ n + 1 >= 1
    OBVIOUS
  <2> QED
    BY <2>1, ExactDivision
<1>6. c * S + (e * x - d * S) = e * (S + x)
  BY <1>1
<1> QED
  BY <1>3, <1>4, <1>5, <1>6

(* welford_update keeps the statistics exact. *)
LEMMA ExactStep ==
  ASSUME NEW n \in Nat, n + 1 \in 1 .. Requests, NEW S \in Nat, NEW Q \in Nat, NEW x \in Nat,
         NEW mean, NEW M2, Exact(n, S, Q, mean, M2),
         NEW mean2, mean2 = mean + (Scale * x - mean) \div (n + 1)
  PROVE  Exact(n + 1, S + x, Q + x * x, mean2, M2 + (Scale * x - mean) * (Scale * x - mean2))
<1> PICK A \in Nat : A = Scale /\ A > 0
  BY ComputeLoopAssumption
<1>1. PICK e \in Nat : A = (n + 1) * e
  BY Factors
<1>2. SUFFICES /\ mean2 = e * (S + x)
               /\ M2 + (A * x - mean) * (A * x - mean2) =
                    A * e * ((n + 1) * (Q + x * x) - (S + x) * (S + x))
  BY <1>1 DEF Exact
<1>3. CASE n = 0
  <2>1. S = 0 /\ Q = 0 /\ mean = 0 /\ M2 = 0 /\ A = e
    BY <1>1, <1>3 DEF Exact
  <2>2. PICK y \in Nat : y = A * x
    OBVIOUS
  <2>3. (1 * y) \div 1 = y
    BY ExactDivision
  <2>4. mean2 = y
    BY <1>3, <2>1, <2>2, <2>3
  <2>5. A * e * ((n + 1) * (Q + x * x) - (S + x) * (S + x)) = 0
    BY <1>3, <2>1
  <2>6. M2 + (A * x - mean) * (A * x - mean2) = 0
    <3>1. A * x - mean2 = 0 /\ A * x - mean = y
      BY <2>1, <2>2, <2>4
    <3> QED
      BY <2>1, <3>1
  <2> QED
    BY <1>3, <2>1, <2>2, <2>4, <2>5, <2>6
<1>4. CASE n > 0
  <2>1. PICK c \in Nat : A = n * c /\ mean = c * S /\ M2 = A * c * (n * Q - S * S)
    BY <1>4 DEF Exact
  <2>2. mean2 = e * (S + x)
    BY <1>1, <2>1, NextMean
  <2>3. A * c * (n * Q - S * S) + (A * x - c * S) * (A * x - e * (S + x)) =
          A * e * ((n + 1) * (Q + x * x) - (S + x) * (S + x))
    BY <1>1, <2>1, UpdateIdentity
  <2> QED
    BY <2>1, <2>2, <2>3
<1> QED
  BY <1>3, <1>4

(* The statistics of exact sums: the mean and the variance. *)
LEMMA ExactVariance ==
  ASSUME NEW n \in Nat, n <= Requests, NEW S \in Nat, NEW Q \in Nat,
         NEW mean, NEW M2, Exact(n, S, Q, mean, M2)
  PROVE  /\ mean \in Int /\ n * mean = Scale * S
         /\ n >= 2 => (n - 1) * (M2 \div (n - 1)) =
                        Scale * Scale * Q - 2 * Scale * mean * S + n * mean * mean
<1> PICK A \in Nat : A = Scale /\ A > 0
  BY ComputeLoopAssumption
<1>1. CASE n = 0
  <2>1. S = 0 /\ mean = 0
    BY <1>1 DEF Exact
  <2> QED
    BY <1>1, <2>1
<1>2. CASE n > 0
  <2>1. PICK c \in Nat : A = n * c /\ mean = c * S /\ M2 = A * c * (n * Q - S * S)
    BY <1>2 DEF Exact
  <2>2. mean \in Int /\ n * mean = A * S
    BY <2>1
  <2>3. ASSUME n >= 2
        PROVE  (n - 1) * (M2 \div (n - 1)) = A * A * Q - 2 * A * mean * S + n * mean * mean
    <3>1. PICK k \in Nat : k = n - 1 /\ k >= 1 /\ k \in 1 .. Requests
      BY <2>3, ComputeLoopAssumption
    <3>2. PICK e \in Nat : A = k * e
      BY <3>1, Factors
    <3>3. PICK z \in Int : z = c * (n * Q - S * S)
      OBVIOUS
    <3>4. M2 = k * (e * z)
      <4>1. M2 = A * z
        BY <2>1, <3>3
      <4> QED
        BY <3>2, <4>1
    <3>5. e * z \in Int /\ (k * (e * z)) \div k = e * z
      <4>1. PICK y \in Int : y = e * z
        OBVIOUS
      <4>2. (k * y) \div k = y
        BY <3>1, ExactDivision
      <4> QED
        BY <4>1, <4>2
    <3>6. A * A * Q - 2 * A * mean * S + n * mean * mean = A * c * (n * Q - S * S)
      BY <2>1, PassIdentity
    <3> QED
      BY <2>1, <3>1, <3>4, <3>5, <3>6
  <2> QED
    BY <2>2, <2>3
<1> QED
  BY <1>1, <1>2

(* The statistics are exact, and the sum of squared deviations from any m  *)
(* can be taken from the sums of the samples and of their squares.         *)
StatsInv ==
  /\ i \in 0 .. Requests /\ (answer # {} => i < Requests)
  /\ samples \in [1 .. i -> Nat] /\ Len(samples) = i
  /\ latency_stats = [n |-> i, mean |-> latency_stats.mean, M2 |-> latency_stats.M2]
  /\ Exact(i, SumOf(samples), SumOf(Powers(samples)), latency_stats.mean, latency_stats.M2)
  /\ \A m \in Int :
       SumOf(Squares(samples, m)) =
         Scale * Scale * SumOf(Powers(samples)) - 2 * Scale * m * SumOf(samples) + i * m * m

(* No samples, no deviation. *)
LEMMA StatsInit == Init => StatsInv
<1> SUFFICES ASSUME Init  PROVE StatsInv
  OBVIOUS
<1>1. i = 0 /\ answer = {} /\ latency_stats = NoStats /\ samples = <<>>
  BY DEF Init
<1>2. SumOf(samples) = 0 /\ SumOf(Powers(samples)) = 0
  BY <1>1, SumNone DEF Powers
<1>3. ASSUME NEW m \in Int  PROVE SumOf(Squares(samples, m)) = 0
  BY <1>1, SumNone DEF Squares
<1>4. Scale \in Nat \ {0} /\ Requests \in Nat
  BY ComputeLoopAssumption
<1>5. samples \in [1 .. i -> Nat] /\ Len(samples) = i
  BY <1>1
<1>6. Exact(i, SumOf(samples), SumOf(Powers(samples)), latency_stats.mean, latency_stats.M2)
  BY <1>1, <1>2 DEF Exact, NoStats
<1> QED
  BY <1>1, <1>2, <1>3, <1>4, <1>5, <1>6 DEF StatsInv, NoStats

(* t is s and x after it. *)
OneMore(n, s, x, t) ==
  /\ n \in Nat /\ x \in Nat /\ s \in [1 .. n -> Nat] /\ t \in [1 .. n + 1 -> Nat]
  /\ \A k \in 1 .. n : t[k] = s[k]
  /\ t[n + 1] = x

(* What a sample more adds to the sums of the samples and of their squares. *)
LEMMA SampleAdded ==
  ASSUME NEW n, NEW s, NEW x, NEW t, OneMore(n, s, x, t)
  PROVE  /\ SumOf(s) \in Nat /\ SumOf(Powers(s)) \in Nat
         /\ SumOf(t) = SumOf(s) + x /\ SumOf(Powers(t)) = SumOf(Powers(s)) + x * x
         /\ \A m \in Int :
              SumOf(Squares(t, m)) = SumOf(Squares(s, m)) + (Scale * x - m) * (Scale * x - m)
<1> n \in Nat /\ x \in Nat /\ s \in [1 .. n -> Nat] /\ t \in [1 .. n + 1 -> Nat]
  BY DEF OneMore
<1> (\A k \in 1 .. n : t[k] = s[k]) /\ t[n + 1] = x
  BY DEF OneMore
<1>1. IsFiniteSet(1 .. n)
  BY FS_Interval
<1>2. /\ Powers(s) \in [1 .. n -> Nat] /\ Powers(t) \in [1 .. n + 1 -> Nat]
      /\ \A k \in 1 .. n : Powers(t)[k] = Powers(s)[k]
      /\ Powers(t)[n + 1] = x * x
  BY SMTT(40), SquareIsNat DEF Powers
<1>3. SumOf(s) \in Nat /\ SumOf(Powers(s)) \in Nat
  BY <1>1, <1>2, SumIsCount
<1>4. SumOf(t) = SumOf(s) + x
  BY SumAppended
<1>5. SumOf(Powers(t)) = SumOf(Powers(s)) + x * x
  BY <1>2, SumAppended
<1>6. ASSUME NEW m \in Int
      PROVE  SumOf(Squares(t, m)) = SumOf(Squares(s, m)) + (Scale * x - m) * (Scale * x - m)
  <2>1. \A z \in Nat : Scale * z - m \in Int
    BY ComputeLoopAssumption
  <2>2. /\ Squares(s, m) \in [1 .. n -> Nat] /\ Squares(t, m) \in [1 .. n + 1 -> Nat]
        /\ \A k \in 1 .. n : Squares(t, m)[k] = Squares(s, m)[k]
        /\ Squares(t, m)[n + 1] = (Scale * x - m) * (Scale * x - m)
    <3>1. \A z \in Nat : (Scale * z - m) * (Scale * z - m) \in Nat
      BY <2>1, SquareIsNat
    <3>2. /\ \A k \in 1 .. n : s[k] \in Nat
          /\ \A k \in 1 .. n + 1 : t[k] \in Nat
          /\ 1 .. n = DOMAIN s /\ 1 .. n + 1 = DOMAIN t /\ n + 1 \in 1 .. n + 1
          /\ \A k \in 1 .. n : k \in 1 .. n + 1
      OBVIOUS
    <3>3. Squares(s, m) \in [1 .. n -> Nat]
      BY <3>1, <3>2 DEF Squares
    <3>4. Squares(t, m) \in [1 .. n + 1 -> Nat]
      BY <3>1, <3>2 DEF Squares
    <3> QED
      BY <3>2, <3>3, <3>4 DEF Squares
  <2> QED
    BY <2>2, SumAppended
<1> QED
  BY <1>3, <1>4, <1>5, <1>6

(* Only a new answer moves the statistics, and it keeps them exact. *)
LEMMA StatsStep == StatsInv /\ [Next]_vars => StatsInv'
<1> SUFFICES ASSUME StatsInv, [Next]_vars  PROVE StatsInv'
  OBVIOUS
<1>1. CASE Ask
  <2>1. i < Requests /\ UNCHANGED <<i, latency_stats, samples>>
    BY <1>1 DEF Ask
  <2> QED
    BY <2>1 DEF StatsInv
<1>2. CASE UNCHANGED vars
  BY <1>2 DEF vars, StatsInv
<1>3. CASE TakeAnswer
  <2>1. PICK x \in Latencies : /\ latency_stats' = WelfordUpdate(latency_stats, x)
                               /\ samples' = Append(samples, x)
    BY <1>3 DEF TakeAnswer
  <2>2. i' = i + 1 /\ answer # {} /\ answer' = {}
    BY <1>3 DEF TakeAnswer
  <2>3. x \in Nat
    BY ComputeLoopAssumption
  <2> PICK R \in Nat : R = Requests
    BY ComputeLoopAssumption
  <2>i. i \in 0 .. R /\ i < R
    BY <2>2 DEF StatsInv
  <2>4. PICK n \in Nat : n = i /\ i' = n + 1 /\ n + 1 \in 1 .. Requests /\ n + 1 \in 0 .. Requests
    BY <2>2, <2>i
  <2>5. /\ samples \in [1 .. n -> Nat] /\ samples' \in [1 .. n + 1 -> Nat] /\ Len(samples') = n + 1
        /\ \A k \in 1 .. n : samples'[k] = samples[k]
        /\ samples'[n + 1] = x
    <3>1. samples \in [1 .. n -> Nat] /\ Len(samples) = n
      BY <2>4 DEF StatsInv
    <3>2. samples \in Seq(Nat)
      BY <3>1, IsASeq
    <3>3. /\ Append(samples, x) \in Seq(Nat) /\ Len(Append(samples, x)) = n + 1
          /\ \A k \in 1 .. n : Append(samples, x)[k] = samples[k]
          /\ Append(samples, x)[n + 1] = x
      BY <2>3, <3>1, <3>2, AppendProperties
    <3> QED
      BY <2>1, <3>1, <3>3, LenProperties
  <2>s. OneMore(n, samples, x, samples')
    BY <2>3, <2>5 DEF OneMore
  <2> PICK S \in Nat, Q \in Nat : S = SumOf(samples) /\ Q = SumOf(Powers(samples))
    BY <2>s, SampleAdded
  <2>6. /\ SumOf(samples') = S + x /\ SumOf(Powers(samples')) = Q + x * x
        /\ \A m \in Int :
             SumOf(Squares(samples', m)) = SumOf(Squares(samples, m)) + (Scale * x - m) * (Scale * x - m)
    BY <2>s, SampleAdded
  <2>7. latency_stats.n = n /\ Exact(n, S, Q, latency_stats.mean, latency_stats.M2)
    BY <2>4 DEF StatsInv
  <2> DEFINE mean2 == latency_stats.mean + (Scale * x - latency_stats.mean) \div (n + 1)
             M22   == latency_stats.M2 + (Scale * x - latency_stats.mean) * (Scale * x - mean2)
  <2>8. latency_stats' = [n |-> n + 1, mean |-> mean2, M2 |-> M22]
    BY <2>1, <2>7 DEF WelfordUpdate
  <2>9. Exact(n + 1, S + x, Q + x * x, mean2, M22)
    BY <2>3, <2>4, <2>7, ExactStep
  <2>10. ASSUME NEW m \in Int
         PROVE  SumOf(Squares(samples', m)) =
                  Scale * Scale * (Q + x * x) - 2 * Scale * m * (S + x) + (n + 1) * m * m
    <3> PICK A \in Nat : A = Scale
      BY ComputeLoopAssumption
    <3>1. SumOf(Squares(samples, m)) = A * A * Q - 2 * A * m * S + n * m * m
      BY <2>4 DEF StatsInv
    <3>2. A * A * Q - 2 * A * m * S + n * m * m + (A * x - m) * (A * x - m) =
            A * A * (Q + x * x) - 2 * A * m * (S + x) + (n + 1) * m * m
      BY <2>3
    <3> QED
      BY <2>6, <3>1, <3>2
  <2> HIDE DEF mean2, M22
  <2>11. /\ (i \in 0 .. Requests /\ (answer # {} => i < Requests))'
         /\ (samples \in [1 .. i -> Nat] /\ Len(samples) = i)'
    BY <2>2, <2>4, <2>5
  <2>12. latency_stats' = [n |-> i', mean |-> latency_stats'.mean, M2 |-> latency_stats'.M2]
    BY <2>4, <2>8
  <2>13. Exact(i, SumOf(samples), SumOf(Powers(samples)), latency_stats.mean, latency_stats.M2)'
    <3>1. latency_stats'.mean = mean2 /\ latency_stats'.M2 = M22
      BY <2>8
    <3>2. Exact(i', SumOf(samples'), SumOf(Powers(samples')), latency_stats'.mean, latency_stats'.M2)
      BY <2>4, <2>6, <2>9, <3>1
    <3> QED
      BY <3>2 DEF Exact
  <2>14. (\A m \in Int :
            SumOf(Squares(samples, m)) =
              Scale * Scale * SumOf(Powers(samples)) - 2 * Scale * m * SumOf(samples) + i * m * m)'
    BY <2>4, <2>6, <2>10
  <2> QED
    BY <2>11, <2>12, <2>13, <2>14 DEF StatsInv
<1> QED
  BY <1>1, <1>2, <1>3 DEF Next

(* In exact arithmetic, the statistics of welford_update are those of the  *)
(* definition for every number and every sequence of latencies             *)
(* (welford_update and welford_sample_variance, rpBenchmark2/main.c:137-   *)
(* 156): the running mean is the mean, and the running M2 the sum of       *)
(* squared deviations from it.                                             *)
THEOREM StatisticsAreTwoPass == Spec => []WelfordIsTwoPass
<1>1. StatsInv => WelfordIsTwoPass
  <2> SUFFICES ASSUME StatsInv  PROVE WelfordIsTwoPass
    OBVIOUS
  <2> PICK R \in Nat : R = Requests
    BY ComputeLoopAssumption
  <2>i. i \in 0 .. R
    BY DEF StatsInv
  <2> PICK n \in Nat : n = i /\ n <= R
    BY <2>i
  <2>1. samples \in [1 .. n -> Nat] /\ Len(samples) = n /\ IsFiniteSet(1 .. n)
    <3>1. IsFiniteSet(1 .. n)
      BY FS_Interval
    <3> QED
      BY <3>1 DEF StatsInv
  <2>2. Powers(samples) \in [1 .. n -> Nat]
    BY <2>1, SquareIsNat DEF Powers
  <2> PICK S \in Nat, Q \in Nat : S = SumOf(samples) /\ Q = SumOf(Powers(samples))
    BY <2>1, <2>2, SumIsCount
  <2> DEFINE mean == latency_stats.mean
             M2 == latency_stats.M2
  <2>3. latency_stats.n = n /\ Exact(n, S, Q, mean, M2)
    BY DEF StatsInv
  <2> HIDE DEF mean, M2
  <2>4. /\ mean \in Int /\ n * mean = Scale * S
        /\ n >= 2 => (n - 1) * (M2 \div (n - 1)) =
                       Scale * Scale * Q - 2 * Scale * mean * S + n * mean * mean
    BY <2>3, ExactVariance
  <2>5. SumOfSquares = Scale * Scale * Q - 2 * Scale * mean * S + n * mean * mean
    <3>1. DOMAIN samples = 1 .. n
      BY <2>1
    <3>2. \A k \in 1 .. n : (Scale * samples[k] - mean) * (Scale * samples[k] - mean) \in Nat
      <4> SUFFICES ASSUME NEW k \in 1 .. n
                   PROVE  (Scale * samples[k] - mean) * (Scale * samples[k] - mean) \in Nat
        OBVIOUS
      <4>1. samples[k] \in Nat /\ Scale \in Nat
        BY <2>1, ComputeLoopAssumption
      <4>2. Scale * samples[k] - mean \in Int
        BY <2>4, <4>1
      <4> QED
        BY <4>2, SquareIsNat
    <3>3. /\ Squares(samples, mean) \in [1 .. n -> Nat]
          /\ \A k \in 1 .. n : Squares(samples, mean)[k] =
                                 (Scale * samples[k] - mean) * (Scale * samples[k] - mean)
      BY <3>1, <3>2 DEF Squares
    <3>4. SumOfSquares = SumOf(Squares(samples, mean))
      BY <2>1, <3>1, <3>3, SumSquares DEF mean
    <3> QED
      BY <2>4, <3>4 DEF StatsInv
  <2>6. SumOfSamples = S
    BY SumSamples
  <2>7. (n - 1) * SampleVariance(latency_stats) = IF n < 2 THEN 0 ELSE SumOfSquares
    <3>1. CASE n < 2
      <4>1. SampleVariance(latency_stats) = 0
        BY <2>3, <3>1 DEF SampleVariance
      <4> QED
        BY <3>1, <4>1
    <3>2. CASE n >= 2
      <4>1. SampleVariance(latency_stats) = M2 \div (n - 1)
        BY <2>3, <3>2 DEF SampleVariance, M2
      <4> QED
        BY <2>4, <2>5, <3>2, <4>1
    <3> QED
      BY <3>1, <3>2
  <2>8. /\ latency_stats.n = Len(samples)
        /\ Len(samples) * latency_stats.mean = Scale * SumOfSamples
        /\ (Len(samples) - 1) * SampleVariance(latency_stats) =
             IF Len(samples) < 2 THEN 0 ELSE SumOfSquares
    BY <2>1, <2>3, <2>4, <2>6, <2>7 DEF mean
  <2> QED
    BY <2>8 DEF WelfordIsTwoPass, SumOfSamples, SumOfSquares, Sum, MapThenSumSet, MapThenFoldSet
<1> QED
  BY <1>1, StatsInit, StatsStep, PTL DEF Spec
=============================================================================
