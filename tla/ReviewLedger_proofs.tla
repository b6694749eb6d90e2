-------------------------- MODULE ReviewLedger_proofs --------------------------
(***************************************************************************)
(* Theorems about ReviewLedger, for any documents, reviewers and bounds:   *)
(* every property its run checks.  ReviewInv is the inductive invariant of *)
(* the types, the lines of the open session, the reviews and the records   *)
(* that reviewers hold; GrowthInv says where the edges came from, TimesInv *)
(* that what a command changed is in a log line or a history since then.   *)
(***************************************************************************)
EXTENDS ReviewLedger, Integers, FiniteSetTheorems, SequenceTheorems, TLAPS

-----------------------------------------------------------------------------
(* Sums over finite sets, of any size.  MapThenSumSet adds up an operator  *)
(* by a recursive choice of members; Total is that sum for a function.     *)
(* Each lemma is proved on a smallest subset for which it would fail, that *)
(* there is since the strict subsets of a finite set are well-founded.     *)

Pick(s) == CHOOSE x \in s : TRUE

\* g sums w over the finite subsets of S in the way MapThenSumSet does.
Summed(g, w, s) == IF s = {} THEN 0 ELSE w[Pick(s)] + g[s \ {Pick(s)}]
Sums(g, w, S) == g = [s \in SUBSET S |-> Summed(g, w, s)]

Total(w, S) == LET g == CHOOSE g : Sums(g, w, S) IN g[S]

LEMMA SmallestSubset ==
  ASSUME NEW S, IsFiniteSet(S), NEW Bad \in SUBSET SUBSET S, Bad # {}
  PROVE  \E T \in Bad : \A U \in Bad : U \subseteq T => U = T
<1>1. IsWellFoundedOn(StrictSubsetOrdering(S), SUBSET S)
  BY FS_StrictSubsetOrderingWellFounded, FS_FiniteSubsetsOfFinite
<1>2. \E T \in Bad : \A U \in Bad : ~(<<U, T>> \in StrictSubsetOrdering(S))
  BY <1>1, WFMin
<1> QED BY <1>2 DEF StrictSubsetOrdering

\* The recursion of the sum can be followed up to any size of the subsets.
LEMMA SumsExist ==
  ASSUME NEW S, IsFiniteSet(S), NEW w
  PROVE  \E g : Sums(g, w, S)
<1> DEFINE Upto(g, T) == \A s \in SUBSET S :
                           Cardinality(s) <= Cardinality(T) => g[s] = Summed(g, w, s)
           Bad == {T \in SUBSET S : ~ \E g : Upto(g, T)}
<1>1. \A s \in SUBSET S : IsFiniteSet(s) /\ Cardinality(s) \in Nat
  BY FS_Subset, FS_CardinalityType
<1>2. \A s \in SUBSET S : s # {} =>
        /\ Pick(s) \in s /\ s \ {Pick(s)} \in SUBSET S
        /\ Cardinality(s \ {Pick(s)}) = Cardinality(s) - 1
  BY <1>1, FS_RemoveElement DEF Pick
<1>3. \E g : Upto(g, {})
  <2>1. \A s \in SUBSET S : Cardinality(s) <= Cardinality({}) => s = {}
    BY <1>1, FS_EmptySet
  <2>2. Upto([s \in SUBSET S |-> 0], {})
    BY <2>1 DEF Summed
  <2> QED BY <2>2
<1>4. ASSUME NEW T \in SUBSET S, NEW x \in T, NEW g, Upto(g, T \ {x})
      PROVE  \E h : Upto(h, T)
  <2> DEFINE h == [s \in SUBSET S |-> Summed(g, w, s)]
  <2>1. Cardinality(T \ {x}) = Cardinality(T) - 1
    BY <1>1, FS_RemoveElement
  <2>2. ASSUME NEW s \in SUBSET S, Cardinality(s) <= Cardinality(T)
        PROVE  h[s] = Summed(h, w, s)
    <3>1. CASE s = {}
      BY <3>1 DEF Summed
    <3>2. CASE s # {}
      <4> DEFINE t == s \ {Pick(s)}
      <4>1. t \in SUBSET S /\ Cardinality(t) <= Cardinality(T \ {x})
        BY <1>1, <1>2, <2>1, <2>2, <3>2
      <4>2. g[t] = Summed(g, w, t) /\ h[t] = Summed(g, w, t)
        BY <1>4, <4>1
      <4>3. h[s] = Summed(g, w, s)
        OBVIOUS
      <4> HIDE DEF h
      <4> QED BY <3>2, <4>2, <4>3 DEF Summed
    <3> QED BY <3>1, <3>2
  <2>3. Upto(h, T)
    BY <2>2
  <2> HIDE DEF h
  <2> QED BY <2>3
<1>5. Bad = {}
  <2> SUFFICES ASSUME Bad # {} PROVE FALSE
    OBVIOUS
  <2>1. PICK T \in Bad : \A U \in Bad : U \subseteq T => U = T
    <3>1. Bad \in SUBSET SUBSET S
      OBVIOUS
    <3> HIDE DEF Bad
    <3> QED BY <3>1, SmallestSubset
  <2>2. PICK x \in T : TRUE
    BY <1>3, <2>1
  <2>3. T \ {x} \notin Bad
    BY <2>1, <2>2
  <2>4. PICK g : Upto(g, T \ {x})
    BY <2>3
  <2> QED BY <1>4, <2>1, <2>2, <2>4
<1>6. PICK g : Upto(g, S)
  BY <1>5
<1>7. \A s \in SUBSET S : Cardinality(s) <= Cardinality(S)
  BY FS_Subset
<1> DEFINE h == [s \in SUBSET S |-> g[s]]
<1>8. \A s \in SUBSET S : h[s] = Summed(h, w, s)
  BY <1>6, <1>7 DEF Summed
<1>9. Sums(h, w, S)
  BY <1>8 DEF Sums
<1> HIDE DEF h
<1> QED BY <1>9

LEMMA OneSum ==
  ASSUME NEW S, NEW U, NEW v, NEW w, NEW g, NEW h, Sums(g, v, S), Sums(h, w, U),
         NEW T \in SUBSET (S \cap U), IsFiniteSet(T), \A x \in T : v[x] = w[x]
  PROVE  g[T] = h[T]
<1> DEFINE Bad == {t \in SUBSET T : g[t] # h[t]}
<1>1. \A s \in SUBSET T : g[s] = Summed(g, v, s) /\ h[s] = Summed(h, w, s)
  BY DEF Sums
<1>2. \A s \in SUBSET T : s # {} =>
        Pick(s) \in s /\ s \ {Pick(s)} \in SUBSET T /\ s \ {Pick(s)} # s
  BY DEF Pick
<1> SUFFICES ASSUME Bad # {} PROVE FALSE
  OBVIOUS
<1>3. PICK t \in Bad : \A s \in Bad : s \subseteq t => s = t
  <2>1. Bad \in SUBSET SUBSET T
    OBVIOUS
  <2> HIDE DEF Bad
  <2> QED BY <2>1, SmallestSubset
<1>4. t # {}
  BY <1>1 DEF Summed
<1> DEFINE x == Pick(t)
<1>5. x \in t /\ t \ {x} \in SUBSET T /\ t \ {x} # t /\ t \in SUBSET T
  BY <1>2, <1>4
<1> HIDE DEF x
<1>6. g[t \ {x}] = h[t \ {x}]
  BY <1>3, <1>5
<1>7. g[t] = v[x] + g[t \ {x}] /\ h[t] = w[x] + h[t \ {x}]
  BY <1>1, <1>4, <1>5 DEF Summed, x
<1> QED BY <1>3, <1>5, <1>6, <1>7

\* Any function that follows the recursion of a sum over S has it as value.
LEMMA TotalOf ==
  ASSUME NEW S, NEW w, NEW g, Sums(g, w, S), NEW T \in SUBSET S, IsFiniteSet(T)
  PROVE  g[T] = Total(w, T)
<1>1. \E h : Sums(h, w, T)
  BY SumsExist
<1> DEFINE h == CHOOSE h : Sums(h, w, T)
<1>2. Sums(h, w, T)
  BY <1>1
<1>3. T \in SUBSET (S \cap T)
  OBVIOUS
<1> HIDE DEF h
<1>4. g[T] = h[T]
  BY <1>2, <1>3, OneSum
<1> QED BY <1>4 DEF Total, h

LEMMA TotalEmpty == ASSUME NEW w PROVE Total(w, {}) = 0
<1>1. IsFiniteSet({})
  BY FS_EmptySet
<1>2. PICK g : Sums(g, w, {})
  BY <1>1, SumsExist
<1>3. g[{}] = 0
  BY <1>2 DEF Sums, Summed
<1> QED BY <1>1, <1>2, <1>3, TotalOf

LEMMA TotalPick ==
  ASSUME NEW S, IsFiniteSet(S), S # {}, NEW w
  PROVE  Pick(S) \in S /\ Total(w, S) = w[Pick(S)] + Total(w, S \ {Pick(S)})
<1>1. PICK g : Sums(g, w, S)
  BY SumsExist
<1>2. Pick(S) \in S
  BY DEF Pick
<1> DEFINE x == Pick(S)
<1>3. g[S] = w[x] + g[S \ {x}]
  BY <1>1 DEF Sums, Summed
<1> HIDE DEF x
<1>4. S \in SUBSET S /\ S \ {x} \in SUBSET S /\ IsFiniteSet(S \ {x})
  BY FS_Subset
<1>5. g[S] = Total(w, S) /\ g[S \ {x}] = Total(w, S \ {x})
  BY <1>1, <1>4, TotalOf
<1> QED BY <1>2, <1>3, <1>5 DEF x

\* Only the weights of the members count.
LEMMA TotalSame ==
  ASSUME NEW S, IsFiniteSet(S), NEW v, NEW w, \A x \in S : v[x] = w[x]
  PROVE  Total(v, S) = Total(w, S)
<1>1. PICK g : Sums(g, v, S)
  BY SumsExist
<1>2. PICK h : Sums(h, w, S)
  BY SumsExist
<1>3. S \in SUBSET S /\ S \in SUBSET (S \cap S)
  OBVIOUS
<1>4. g[S] = Total(v, S) /\ h[S] = Total(w, S)
  BY <1>1, <1>2, <1>3, TotalOf
<1>5. g[S] = h[S]
  BY <1>1, <1>2, <1>3, OneSum
<1> QED BY <1>4, <1>5

LEMMA TotalType ==
  ASSUME NEW S, IsFiniteSet(S), NEW w, \A x \in S : w[x] \in Nat
  PROVE  Total(w, S) \in Nat
<1> DEFINE Bad == {T \in SUBSET S : Total(w, T) \notin Nat}
<1> SUFFICES ASSUME Bad # {} PROVE FALSE
  OBVIOUS
<1>1. PICK T \in Bad : \A U \in Bad : U \subseteq T => U = T
  <2>1. Bad \in SUBSET SUBSET S
    OBVIOUS
  <2> HIDE DEF Bad
  <2> QED BY <2>1, SmallestSubset
<1>2. T \in SUBSET S /\ IsFiniteSet(T) /\ T # {}
  <2>1. Total(w, {}) = 0
    BY TotalEmpty
  <2>2. T \in SUBSET S /\ Total(w, T) \notin Nat
    BY <1>1
  <2>3. T = {} => Total(w, T) = 0
    BY <2>1, Zenon
  <2>4. T # {}
    BY <2>2, <2>3
  <2> QED BY <2>2, <2>4, FS_Subset
<1> DEFINE x == Pick(T)
<1>3. x \in T /\ Total(w, T) = w[x] + Total(w, T \ {x})
  BY <1>2, TotalPick
<1> HIDE DEF x
<1>4. Total(w, T \ {x}) \in Nat
  BY <1>1, <1>2, <1>3
<1> QED BY <1>1, <1>2, <1>3, <1>4

\* Any member may be taken out of a sum first.
LEMMA TotalRemove ==
  ASSUME NEW S, IsFiniteSet(S), NEW w, \A x \in S : w[x] \in Nat, NEW a \in S
  PROVE  Total(w, S) = w[a] + Total(w, S \ {a})
<1> DEFINE Good(T) == \A y \in T : Total(w, T) = w[y] + Total(w, T \ {y})
           Bad == {T \in SUBSET S : ~Good(T)}
<1> SUFFICES ASSUME Bad # {} PROVE FALSE
  OBVIOUS
<1>1. PICK T \in Bad : \A U \in Bad : U \subseteq T => U = T
  <2>1. Bad \in SUBSET SUBSET S
    OBVIOUS
  <2> HIDE DEF Bad
  <2> QED BY <2>1, SmallestSubset
<1>2. PICK y \in T : Total(w, T) # w[y] + Total(w, T \ {y})
  BY <1>1
<1> DEFINE x == Pick(T)
<1>3. T \in SUBSET S /\ IsFiniteSet(T) /\ T # {}
  BY <1>1, <1>2, FS_Subset
<1>4. x \in T /\ Total(w, T) = w[x] + Total(w, T \ {x})
  BY <1>3, TotalPick
<1> HIDE DEF x
<1>5. x # y
  BY <1>2, <1>4
<1>6. Good(T \ {x}) /\ Good(T \ {y})
  BY <1>1, <1>2, <1>3, <1>4
<1>7. /\ Total(w, T \ {x}) = w[y] + Total(w, (T \ {x}) \ {y})
      /\ Total(w, T \ {y}) = w[x] + Total(w, (T \ {y}) \ {x})
  BY <1>4, <1>5, <1>6
<1>8. (T \ {x}) \ {y} = (T \ {y}) \ {x}
  OBVIOUS
<1> DEFINE rest == Total(w, (T \ {x}) \ {y})
<1>9. rest \in Nat /\ w[x] \in Nat /\ w[y] \in Nat
  <2>1. (T \ {x}) \ {y} \in SUBSET S
    BY <1>3
  <2>2. IsFiniteSet((T \ {x}) \ {y})
    BY <2>1, FS_Subset
  <2>3. \A z \in (T \ {x}) \ {y} : w[z] \in Nat
    BY <2>1
  <2> HIDE DEF rest
  <2> QED BY <1>3, <1>4, <2>2, <2>3, TotalType DEF rest
<1>10. /\ Total(w, T) = w[x] + (w[y] + rest)
       /\ Total(w, T \ {y}) = w[x] + rest
  BY <1>4, <1>7, <1>8
<1> HIDE DEF rest
<1> QED BY <1>2, <1>9, <1>10

LEMMA TotalAdd ==
  ASSUME NEW S, IsFiniteSet(S), NEW w, NEW a, a \notin S,
         \A x \in S \cup {a} : w[x] \in Nat
  PROVE  Total(w, S \cup {a}) = Total(w, S) + w[a]
<1>1. IsFiniteSet(S \cup {a}) /\ a \in S \cup {a} /\ (S \cup {a}) \ {a} = S
  BY FS_AddElement
<1>2. Total(w, S \cup {a}) = w[a] + Total(w, (S \cup {a}) \ {a})
  BY <1>1, TotalRemove
<1>3. w[a] \in Nat /\ Total(w, S) \in Nat
  BY TotalType
<1> QED BY <1>1, <1>2, <1>3

\* A sum of sums, member by member.
LEMMA TotalPlus ==
  ASSUME NEW S, IsFiniteSet(S), NEW u, NEW v, NEW w,
         \A x \in S : v[x] \in Nat /\ w[x] \in Nat /\ u[x] = v[x] + w[x]
  PROVE  Total(u, S) = Total(v, S) + Total(w, S)
<1> DEFINE Bad == {T \in SUBSET S : Total(u, T) # Total(v, T) + Total(w, T)}
<1> SUFFICES ASSUME Bad # {} PROVE FALSE
  OBVIOUS
<1>1. PICK T \in Bad : \A U \in Bad : U \subseteq T => U = T
  <2>1. Bad \in SUBSET SUBSET S
    OBVIOUS
  <2> HIDE DEF Bad
  <2> QED BY <2>1, SmallestSubset
<1>2. T \in SUBSET S /\ IsFiniteSet(T) /\ T # {}
  <2>1. Total(u, {}) = 0 /\ Total(v, {}) = 0 /\ Total(w, {}) = 0
    BY TotalEmpty
  <2>2. T \in SUBSET S /\ Total(u, T) # Total(v, T) + Total(w, T)
    BY <1>1
  <2>3. T = {} => Total(u, T) = 0 /\ Total(v, T) = 0 /\ Total(w, T) = 0
    BY <2>1, Zenon
  <2>4. T # {}
    BY <2>2, <2>3
  <2> QED BY <2>2, <2>4, FS_Subset
<1> DEFINE x == Pick(T)
           R == T \ {x}
<1>3. /\ x \in T /\ Total(u, T) = u[x] + Total(u, R)
      /\ Total(v, T) = v[x] + Total(v, R) /\ Total(w, T) = w[x] + Total(w, R)
  BY <1>2, TotalPick
<1> HIDE DEF x
<1>4. R \in SUBSET S /\ IsFiniteSet(R)
  BY <1>2, FS_Subset
<1>5. Total(u, R) = Total(v, R) + Total(w, R)
  BY <1>1, <1>3, <1>4
<1>6. Total(v, R) \in Nat /\ Total(w, R) \in Nat
  BY <1>4, TotalType
<1>7. x \in S
  BY <1>2, <1>3
<1> HIDE DEF R
<1> QED BY <1>1, <1>3, <1>5, <1>6, <1>7

LEMMA TotalChange ==
  ASSUME NEW S, IsFiniteSet(S), NEW v, NEW w, NEW a \in S,
         \A x \in S : v[x] \in Nat /\ w[x] \in Nat,
         \A x \in S : x # a => v[x] = w[x]
  PROVE  Total(w, S) = Total(v, S) + (w[a] - v[a])
<1>1. IsFiniteSet(S \ {a})
  BY FS_Subset
<1>2. Total(w, S) = w[a] + Total(w, S \ {a}) /\ Total(v, S) = v[a] + Total(v, S \ {a})
  BY TotalRemove
<1>3. Total(v, S \ {a}) = Total(w, S \ {a})
  BY <1>1, TotalSame
<1>4. Total(v, S \ {a}) \in Nat
  BY <1>1, TotalType
<1> QED BY <1>2, <1>3, <1>4

\* The largest member of a finite set of numbers.
LEMMA MaxIn ==
  ASSUME NEW S, S \subseteq Nat, IsFiniteSet(S), S # {}
  PROVE  Max(S) \in S /\ \A n \in S : n <= Max(S)
<1> DEFINE Bad == {T \in SUBSET S : T # {} /\ ~ \E m \in T : \A n \in T : m >= n}
<1>1. Bad = {}
  <2> SUFFICES ASSUME Bad # {} PROVE FALSE
    OBVIOUS
  <2>1. PICK T \in Bad : \A U \in Bad : U \subseteq T => U = T
    <3>1. Bad \in SUBSET SUBSET S
      OBVIOUS
    <3> HIDE DEF Bad
    <3> QED BY ONLY <3>1, IsFiniteSet(S), Bad # {}, SmallestSubset
  <2>2. PICK x \in T : TRUE
    BY <2>1
  <2>3. T \ {x} \notin Bad
    BY <2>1, <2>2
  <2>4. x \in Nat /\ T \subseteq Nat
    BY <2>1, <2>2
  <2>5. CASE T \ {x} = {}
    BY <2>1, <2>2, <2>4, <2>5
  <2>6. CASE T \ {x} # {}
    <3>1. PICK m \in T \ {x} : \A n \in T \ {x} : m >= n
      BY <2>1, <2>3, <2>6
    <3>2. CASE m >= x
      BY <2>1, <2>4, <3>1, <3>2
    <3>3. CASE x >= m
      BY <2>1, <2>2, <2>4, <3>1, <3>3
    <3> QED BY <2>4, <3>1, <3>2, <3>3
  <2> QED BY <2>5, <2>6
<1>2. \E m \in S : \A n \in S : m >= n
  BY <1>1
<1> QED BY <1>2 DEF Max

-----------------------------------------------------------------------------
(* The parts of a review *)

LEMMA Ranks ==
  /\ RankOf("deletion") = 1 /\ RankOf("addition") = 2 /\ RankOf("revision") = 3
  /\ RankOf("restructure") = 4 /\ RankOf("organizational") = 5
<1>1. /\ Precedence[1] = "deletion" /\ Precedence[2] = "addition" /\ Precedence[3] = "revision"
      /\ Precedence[4] = "restructure" /\ Precedence[5] = "organizational"
  BY DEF Precedence
<1>2. \A i \in 1..5 : i = 1 \/ i = 2 \/ i = 3 \/ i = 4 \/ i = 5
  OBVIOUS
<1>3. 1 \in 1..5 /\ 2 \in 1..5 /\ 3 \in 1..5 /\ 4 \in 1..5 /\ 5 \in 1..5
  OBVIOUS
<1> QED BY <1>1, <1>2, <1>3 DEF RankOf

LEMMA DominantIn ==
  ASSUME NEW types \in SUBSET ChangeTypes, types # {}
  PROVE  Dominant(types) \in types
<1>1. \A t \in types : RankOf(t) \in {1, 2, 3, 4, 5}
  BY Ranks DEF ChangeTypes
<1>2. \E t \in types : \A u \in types : RankOf(t) <= RankOf(u)
  <2> DEFINE Occurring == {RankOf(t) : t \in types}
  <2>1. \A i \in Occurring : i \in {1, 2, 3, 4, 5}
    BY <1>1
  <2>2. \E i \in Occurring : TRUE
    OBVIOUS
  <2>3. \E i \in Occurring : \A j \in Occurring : i <= j
    <3> HIDE DEF Occurring
    <3> QED BY <2>1, <2>2
  <2> QED BY <2>3
<1> QED BY <1>2 DEF Dominant

\* Only a deletion comes before an addition.
LEMMA AdditionFirst ==
  ASSUME NEW types \in SUBSET ChangeTypes, "addition" \in types, "deletion" \notin types
  PROVE  Dominant(types) = "addition"
<1>1. \A t \in types : t # "addition" => RankOf(t) > RankOf("addition")
  BY Ranks DEF ChangeTypes
<1>2. \A t \in types : RankOf(t) \in 1..5
  BY Ranks DEF ChangeTypes
<1>3. \A u \in types : RankOf("addition") <= RankOf(u)
  BY <1>1, <1>2
<1>4. \A t \in types : (\A u \in types : RankOf(t) <= RankOf(u)) => t = "addition"
  BY <1>1, <1>2
<1> QED BY <1>3, <1>4 DEF Dominant

\* The documents under their sections, by a function that gives each its own.
Filing(section) == [s \in Sections |-> {d \in DOMAIN section : section[d] = s}]

\* A function that gives each document a section files each document once.
LEMMA FilingOnce ==
  ASSUME NEW D \in SUBSET DocIds, NEW f \in [D -> Sections], NEW d \in DocIds
  PROVE  /\ Filing(f) \in [Sections -> SUBSET DocIds]
         /\ {s \in Sections : d \in Filing(f)[s]} = IF d \in D THEN {f[d]} ELSE {}
BY DEF Filing

LEMMA OneOrNone ==
  ASSUME NEW x
  PROVE  Cardinality({x}) = 1 /\ Cardinality({}) = 0
BY FS_Singleton, FS_EmptySet

-----------------------------------------------------------------------------
(* The sums, as totals of functions *)

\* How many links each document has.
Degree(D) == [d \in DocIds |-> Cardinality(D[d].links)]

LEMMA EdgesTotal ==
  ASSUME NEW D
  PROVE  MapThenSumSet(LAMBDA d : Cardinality(D[d].links), DocIds) = Total(Degree(D), DocIds)
<1> DEFINE w == Degree(D)
           Goes(g) == g = [s \in SUBSET DocIds |->
             IF s = {} THEN 0
             ELSE Cardinality(D[CHOOSE x \in s : TRUE].links)
                    + g[s \ {CHOOSE x \in s : TRUE}]]
           f == CHOOSE g : Goes(g)
<1>1. \A s \in SUBSET DocIds : s # {} => (CHOOSE x \in s : TRUE) \in DocIds
  OBVIOUS
<1>2. \A g : Sums(g, w, DocIds) <=> Goes(g)
  BY <1>1 DEF Sums, Summed, Pick, Degree
<1>3. \E g : Sums(g, w, DocIds)
  BY DocIdsFinite, SumsExist
<1>4. Sums(f, w, DocIds)
  <2> HIDE DEF Goes
  <2> QED BY <1>2, <1>3
<1>5. f[DocIds] = Total(w, DocIds)
  <2>1. DocIds \in SUBSET DocIds
    OBVIOUS
  <2> HIDE DEF f, w
  <2> QED BY <1>4, <2>1, DocIdsFinite, TotalOf
<1> QED BY <1>5 DEF MapThenSumSet, MapThenFoldSet

\* How many edges each line says were added.
Added(L) == [l \in L |-> l.added]

LEMMA LinesTotal ==
  ASSUME NEW L, IsFiniteSet(L)
  PROVE  MapThenSumSet(LAMBDA l : l.added, L) = Total(Added(L), L)
<1> DEFINE w == Added(L)
           Goes(g) == g = [s \in SUBSET L |->
             IF s = {} THEN 0
             ELSE (CHOOSE x \in s : TRUE).added
                    + g[s \ {CHOOSE x \in s : TRUE}]]
           f == CHOOSE g : Goes(g)
<1>1. \A s \in SUBSET L : s # {} => (CHOOSE x \in s : TRUE) \in L
  OBVIOUS
<1>2. \A g : Sums(g, w, L) <=> Goes(g)
  BY <1>1 DEF Sums, Summed, Pick, Added
<1>3. \E g : Sums(g, w, L)
  BY SumsExist
<1>4. Sums(f, w, L)
  <2> HIDE DEF Goes
  <2> QED BY <1>2, <1>3
<1>5. f[L] = Total(w, L)
  <2>1. L \in SUBSET L
    OBVIOUS
  <2> HIDE DEF f, w
  <2> QED BY <1>4, <2>1, TotalOf
<1> QED BY <1>5 DEF MapThenSumSet, MapThenFoldSet

\* How many links each has to new documents.
Among(D, new, F) == [d \in F |-> Cardinality(
                   {t \in D[d].links : t \in new /\ ~(D[t].status = "reference")})]

LEMMA AmongTotal ==
  ASSUME NEW D, NEW new, NEW F, IsFiniteSet(F)
  PROVE  MapThenSumSet(LAMBDA d : Cardinality(
           {t \in D[d].links : t \in new /\ ~(D[t].status = "reference")}), F) = Total(Among(D, new, F), F)
<1> DEFINE w == Among(D, new, F)
           Goes(g) == g = [s \in SUBSET F |->
             IF s = {} THEN 0
             ELSE Cardinality(
                   {t \in D[CHOOSE x \in s : TRUE].links : t \in new /\ ~(D[t].status = "reference")})
                    + g[s \ {CHOOSE x \in s : TRUE}]]
           f == CHOOSE g : Goes(g)
<1>1. \A s \in SUBSET F : s # {} => (CHOOSE x \in s : TRUE) \in F
  OBVIOUS
<1>2. \A g : Sums(g, w, F) <=> Goes(g)
  BY <1>1 DEF Sums, Summed, Pick, Among
<1>3. \E g : Sums(g, w, F)
  BY SumsExist
<1>4. Sums(f, w, F)
  <2> HIDE DEF Goes
  <2> QED BY <1>2, <1>3
<1>5. f[F] = Total(w, F)
  <2>1. F \in SUBSET F
    OBVIOUS
  <2> HIDE DEF f, w
  <2> QED BY <1>4, <2>1, TotalOf
<1> QED BY <1>5 DEF MapThenSumSet, MapThenFoldSet

\* How many links each has to other documents.
Beyond(D, new, F) == [d \in F |-> Cardinality(
                   {t \in D[d].links \ new : D[t].status = "living"})]

LEMMA BeyondTotal ==
  ASSUME NEW D, NEW new, NEW F, IsFiniteSet(F)
  PROVE  MapThenSumSet(LAMBDA d : Cardinality(
           {t \in D[d].links \ new : D[t].status = "living"}), F) = Total(Beyond(D, new, F), F)
<1> DEFINE w == Beyond(D, new, F)
           Goes(g) == g = [s \in SUBSET F |->
             IF s = {} THEN 0
             ELSE Cardinality(
                   {t \in D[CHOOSE x \in s : TRUE].links \ new : D[t].status = "living"})
                    + g[s \ {CHOOSE x \in s : TRUE}]]
           f == CHOOSE g : Goes(g)
<1>1. \A s \in SUBSET F : s # {} => (CHOOSE x \in s : TRUE) \in F
  OBVIOUS
<1>2. \A g : Sums(g, w, F) <=> Goes(g)
  BY <1>1 DEF Sums, Summed, Pick, Beyond
<1>3. \E g : Sums(g, w, F)
  BY SumsExist
<1>4. Sums(f, w, F)
  <2> HIDE DEF Goes
  <2> QED BY <1>2, <1>3
<1>5. f[F] = Total(w, F)
  <2>1. F \in SUBSET F
    OBVIOUS
  <2> HIDE DEF f, w
  <2> QED BY <1>4, <2>1, TotalOf
<1> QED BY <1>5 DEF MapThenSumSet, MapThenFoldSet

\* The numbers of a review are numbers.
LEMMA StatsType ==
  ASSUME NEW new \in SUBSET DocIds, NEW log, IsFiniteSet(log),
         \A l \in log : l.added \in Nat, \A d \in DocIds : docs[d].links \in SUBSET DocIds
  PROVE  Stats(new, log) \in Integrations
<1> DEFINE from == {d \in new : ~Archived(d)}
           lines == {l \in log : l.ref \notin new /\ ~Archived(l.ref)}
<1>1. IsFiniteSet(from) /\ IsFiniteSet(lines)
  BY DocIdsFinite, FS_Subset
<1>2. ASSUME NEW d \in from, NEW T, T \subseteq docs[d].links PROVE Cardinality(T) \in Nat
  <2>1. T \in SUBSET DocIds
    BY <1>2
  <2> QED BY <2>1, DocIdsFinite, FS_Subset, FS_CardinalityType
<1>3. \A d \in from : Among(docs, new, from)[d] \in Nat
  BY <1>2 DEF Among
<1>4. \A d \in from : Beyond(docs, new, from)[d] \in Nat
  BY <1>2 DEF Beyond
<1>5. \A l \in lines : Added(lines)[l] \in Nat
  BY DEF Added
<1> HIDE DEF from, lines
<1>6. /\ Total(Among(docs, new, from), from) \in Nat
      /\ Total(Beyond(docs, new, from), from) \in Nat
      /\ Total(Added(lines), lines) \in Nat
  BY <1>1, <1>3, <1>4, <1>5, TotalType
<1>7. /\ Stats(new, log).newToNew = Total(Among(docs, new, from), from)
      /\ Stats(new, log).newToExisting = Total(Beyond(docs, new, from), from)
      /\ Stats(new, log).toExisting = Total(Added(lines), lines)
  BY <1>1, AmongTotal, BeyondTotal, LinesTotal DEF Stats, Archived, from, lines
<1>8. Stats(new, log) = [newToNew |-> Stats(new, log).newToNew,
                         newToExisting |-> Stats(new, log).newToExisting,
                         toExisting |-> Stats(new, log).toExisting]
  BY DEF Stats
<1> QED BY <1>6, <1>7, <1>8 DEF Integrations

-----------------------------------------------------------------------------
(* The inductive invariant *)

\* Documents, and the entries of closed sessions in their histories.
DocsInv ==
  /\ docs \in [DocIds -> Doc \cup {NoDoc, GoneDoc}]
  /\ \A d \in Docs : docs[d].links \subseteq Docs
  /\ \A d \in DocIds : \A h \in docs[d].history : h.sess < session

\* What every line of the open session says is still true of its document.
Logged(l) ==
  /\ l \in WalLine /\ l.n \in 1..now
  /\ docs[l.ref].status # "none"
  /\ l.op = "rm" => docs[l.ref].status = "gone"
  /\ \E t \in ChangeTypes : l.types = {t}

WalInv == IsFiniteSet(wal) /\ \A l \in wal : Logged(l)

\* A review as it was minted: filed document by document, of documents that
\* had been created, and of a session only when that was closed.
Minted(x) ==
  /\ x \in Review
  /\ x.route # "summary" => \E f \in [x.touched -> Sections] : x.filed = Filing(f)
  /\ \A d \in x.touched : docs[d].status # "none"
  /\ x.route = "wal" => x.of < session

\* Two versions of a record differ in nothing but the sign-offs.
SameBody(x, y) == x = [y EXCEPT !.signoffs = x.signoffs]

ReviewsInv ==
  /\ reviews \in Seq(Review)
  /\ \A r \in DOMAIN reviews : Minted(reviews[r])

SigningInv ==
  /\ signing \in [Signers -> [r : Nat, rec : Seq(Review)]]
  /\ \A p \in Signers : signing[p] # Unsigned =>
       \E x \in Review : /\ signing[p].rec = <<x>>
                         /\ signing[p].r \in DOMAIN reviews
                         /\ SameBody(x, reviews[signing[p].r])

CountsInv == session \in Nat /\ now \in Nat /\ signed \in Nat

ReviewInv == DocsInv /\ WalInv /\ ReviewsInv /\ SigningInv /\ CountsInv

LEMMA DocKinds ==
  ASSUME DocsInv, NEW d \in DocIds
  PROVE  /\ d \in Docs => docs[d] \in Doc
         /\ d \notin Docs => docs[d] \in {NoDoc, GoneDoc} /\ docs[d].history = {}
                             /\ docs[d].links = {}
         /\ docs[d].links \in SUBSET DocIds /\ docs[d].history \in SUBSET Entry
         /\ docs[d].status # "none" /\ docs[d].status # "gone" => d \in Docs
  BY DEF DocsInv, Docs, Doc, NoDoc, GoneDoc, Statuses

LEMMA ReviewInit == Init => ReviewInv
<1> SUFFICES ASSUME Init PROVE ReviewInv
  OBVIOUS
<1> USE DEF Init
<1>1. DocsInv
  BY DEF DocsInv, Docs, NoDoc, Statuses
<1>2. WalInv
  BY FS_EmptySet DEF WalInv
<1>3. ReviewsInv
  BY DEF ReviewsInv
<1>4. SigningInv
  BY DEF SigningInv, Unsigned
<1>5. CountsInv
  BY DEF CountsInv
<1> QED BY <1>1, <1>2, <1>3, <1>4, <1>5 DEF ReviewInv

-----------------------------------------------------------------------------
(* The commands that change documents *)

\* What all of them do: no document is unborn again or restored, a document
\* which stays keeps its history, and a snapshot stays one.
Evolves ==
  /\ docs' \in [DocIds -> Doc \cup {NoDoc, GoneDoc}]
  /\ \A d \in DocIds : d \in Docs' => docs'[d].links \subseteq Docs'
  /\ \A d \in DocIds :
       /\ docs[d].status # "none" => docs'[d].status # "none"
       /\ docs[d].status = "gone" => docs'[d].status = "gone"
       /\ d \in Docs' => \/ docs[d].status = "none" /\ docs'[d].history = {}
                         \/ d \in Docs /\ docs'[d].history = docs[d].history
       /\ Archived(d) /\ d \in Docs' => Archived(d)'
       /\ docs'[d].history \subseteq docs[d].history

Command(d) ==
  \/ \E s \in {"living", "reference"}, links \in SUBSET DocIds : Create(d, s, links)
  \/ \E t \in {"revision", "organizational"} : Revise(d, t)
  \/ \E s \in {"living", "deprecated"} : SetStatus(d, s)
  \/ \E t \in DocIds : Link(d, t)
  \/ \E t \in DocIds : Unlink(d, t)
  \/ Rm(d)

LEMMA CreateEvolves ==
  ASSUME DocsInv, NEW d \in DocIds, NEW s \in {"living", "reference"},
         NEW links \in SUBSET DocIds, Create(d, s, links)
  PROVE  Evolves /\ docs'[d].status # "none" /\ Docs' \subseteq Docs \cup {d}
<1> DEFINE new == [status |-> s, links |-> links, history |-> {}]
<1>1. docs' = [docs EXCEPT ![d] = new] /\ docs[d] = NoDoc /\ links \subseteq Docs
  BY DEF Create
<1>2. new \in Doc /\ new.status = s /\ new.links = links /\ new.history = {} /\ s \in Statuses
  BY DEF Doc, Statuses
<1> HIDE DEF new
<1>3. docs' \in [DocIds -> Doc \cup {NoDoc, GoneDoc}]
  BY <1>1, <1>2 DEF DocsInv
<1>4. docs'[d] = new /\ \A e \in DocIds \ {d} : docs'[e] = docs[e]
  BY <1>1 DEF DocsInv
<1>5. Docs' = Docs \cup {d}
  BY <1>2, <1>4 DEF Docs
<1>6. d \notin Docs /\ docs[d].status = "none" /\ docs[d].history = {}
  BY <1>1 DEF Docs, NoDoc, Statuses
<1>7. s # "none"
  OBVIOUS
<1>8. \A e \in DocIds : e \in Docs' => docs'[e].links \subseteq Docs'
  BY <1>1, <1>2, <1>4, <1>5 DEF DocsInv
<1> QED BY <1>2, <1>3, <1>4, <1>5, <1>6, <1>7, <1>8 DEF Evolves, Archived

LEMMA FieldEvolves ==
  ASSUME DocsInv, NEW d \in Docs, NEW new \in Doc, ~Archived(d),
         docs' = [docs EXCEPT ![d] = new], new.history = docs[d].history,
         new.links \subseteq Docs
  PROVE  Evolves /\ docs'[d].status # "none" /\ Docs' = Docs
<1>1. d \in DocIds /\ d \in Docs
  BY DEF Docs
<1>2. docs' \in [DocIds -> Doc \cup {NoDoc, GoneDoc}]
  BY DEF DocsInv
<1>3. docs'[d] = new /\ \A e \in DocIds \ {d} : docs'[e] = docs[e]
  BY <1>1 DEF DocsInv
<1>4. new.status \in Statuses /\ docs[d].status \in Statuses
  BY DEF Doc, Docs
<1>5. Docs' = Docs
  BY <1>1, <1>3, <1>4 DEF Docs
<1>6. \A x \in Statuses : x # "none" /\ x # "gone"
  BY DEF Statuses
<1>7. \A e \in DocIds : e \in Docs' => docs'[e].links \subseteq Docs'
  BY <1>3, <1>5 DEF DocsInv
<1>8. \A e \in DocIds : e \in Docs' => docs'[e].history = docs[e].history
  BY <1>3
<1> QED BY <1>1, <1>2, <1>3, <1>4, <1>5, <1>6, <1>7, <1>8 DEF Evolves, Archived

LEMMA RmEvolves ==
  ASSUME DocsInv, NEW d \in DocIds, Rm(d)
  PROVE  Evolves /\ docs'[d].status = "gone" /\ Docs' \subseteq Docs
<1>1. /\ d \in Docs
      /\ docs' = [e \in DocIds |->
           IF e = d THEN GoneDoc ELSE [docs[e] EXCEPT !.links = @ \ {d}]]
  BY DEF Rm
<1>2. docs'[d] = GoneDoc
  BY <1>1
<1>3. GoneDoc.status = "gone" /\ GoneDoc.history = {} /\ GoneDoc.links = {}
  BY DEF GoneDoc, NoDoc
<1>4. ASSUME NEW e \in DocIds, e # d
      PROVE  /\ docs'[e].status = docs[e].status /\ docs'[e].history = docs[e].history
             /\ docs'[e].links = docs[e].links \ {d}
             /\ docs'[e] \in Doc \cup {NoDoc, GoneDoc}
  <2>1. docs'[e] = [docs[e] EXCEPT !.links = @ \ {d}]
    BY <1>1, <1>4
  <2>2. docs[e] \in Doc \/ docs[e] \in {NoDoc, GoneDoc}
    BY DEF DocsInv
  <2>3. CASE docs[e] \in Doc
    BY <2>1, <2>3 DEF Doc
  <2>4. CASE docs[e] \in {NoDoc, GoneDoc}
    BY <2>1, <2>4 DEF NoDoc, GoneDoc
  <2> QED BY <2>2, <2>3, <2>4
<1>5. docs' \in [DocIds -> Doc \cup {NoDoc, GoneDoc}]
  <2>1. \A e \in DocIds : docs'[e] \in Doc \cup {NoDoc, GoneDoc}
    BY <1>2, <1>4
  <2>2. docs' = [e \in DocIds |-> docs'[e]]
    BY <1>1
  <2> QED BY <2>1, <2>2
<1>6. Docs' = Docs \ {d}
  BY <1>2, <1>3, <1>4 DEF Docs, Statuses
<1>7. \A e \in DocIds : e \in Docs' => docs'[e].links \subseteq Docs'
  BY <1>4, <1>6 DEF DocsInv
<1> QED BY <1>2, <1>3, <1>4, <1>5, <1>6, <1>7 DEF Evolves, Archived

\* Every command logs one line of its document, in a time of its own.
OneLine(d) ==
  \E l \in WalLine :
    /\ wal' = wal \cup {l} /\ l.n = now' /\ now' = now + 1 /\ l.ref = d
    /\ \E t \in ChangeTypes : l.types = {t}
    /\ l.op = "rm" => docs'[d].status = "gone"
    /\ l.op = "new" => l.types = {"addition"} /\ docs[d].status = "none"
    /\ l.op # "new" => d \in Docs
    /\ Docs' \subseteq Docs \cup {d}
    /\ changed' = [changed EXCEPT ![d] = now']
    /\ born' = IF l.op = "new" THEN [born EXCEPT ![d] = now'] ELSE born
    /\ UNCHANGED <<session, reviews, signing, signed, opening>>

LEMMA EditLogs ==
  ASSUME now \in Nat, NEW d \in DocIds, NEW op \in Ops, NEW type \in ChangeTypes,
         NEW added \in Nat, NEW removed \in Nat, Edit(d, op, type, added, removed),
         op = "rm" => docs'[d].status = "gone",
         op = "new" => type = "addition" /\ docs[d].status = "none",
         op # "new" => d \in Docs, Docs' \subseteq Docs \cup {d}
  PROVE  OneLine(d)
<1> DEFINE l == [n |-> now', op |-> op, ref |-> d, types |-> {type},
                 author |-> TRUE, added |-> added, removed |-> removed]
<1>1. /\ l.n = now' /\ l.op = op /\ l.ref = d /\ l.types = {type} /\ l.added = added
      /\ l.author = TRUE /\ l.removed = removed
  OBVIOUS
<1>2. /\ wal' = wal \cup {l} /\ now' = now + 1
      /\ changed' = [changed EXCEPT ![d] = now']
      /\ born' = IF l.op = "new" THEN [born EXCEPT ![d] = now'] ELSE born
      /\ UNCHANGED <<session, reviews, signing, signed, opening>>
  BY DEF Edit
<1>3. l \in WalLine
  BY <1>2 DEF WalLine
<1> HIDE DEF l
<1> QED BY <1>1, <1>2, <1>3 DEF OneLine

LEMMA CommandFacts ==
  ASSUME ReviewInv, NEW d \in DocIds, Command(d)
  PROVE  Evolves /\ OneLine(d) /\ docs'[d].status # "none"
<1>1. now \in Nat /\ DocsInv
  BY DEF ReviewInv, CountsInv
<1>2. ASSUME NEW s \in {"living", "reference"}, NEW links \in SUBSET DocIds, Create(d, s, links)
      PROVE  Evolves /\ OneLine(d) /\ docs'[d].status # "none"
  <2>1. Edit(d, "new", "addition", 0, 0) /\ docs[d].status = "none"
    BY <1>2 DEF Create, NoDoc
  <2> QED BY <1>1, <1>2, <2>1, CreateEvolves, EditLogs DEF Ops, ChangeTypes
<1>3. ASSUME NEW t \in {"revision", "organizational"}, Revise(d, t)
      PROVE  Evolves /\ OneLine(d) /\ docs'[d].status # "none"
  <2>1. Edit(d, "change", t, 0, 0) /\ d \in Docs /\ ~Archived(d) /\ docs' = docs
    BY <1>3 DEF Revise
  <2>2. docs' = [docs EXCEPT ![d] = docs[d]]
    BY <1>1, <2>1 DEF DocsInv
  <2>3. docs[d] \in Doc /\ docs[d].links \subseteq Docs
    BY <1>1, <2>1, DocKinds DEF DocsInv
  <2>4. Evolves /\ docs'[d].status # "none" /\ Docs' = Docs
    BY <1>1, <2>1, <2>2, <2>3, FieldEvolves
  <2> QED BY <1>1, <2>1, <2>4, EditLogs DEF Ops, ChangeTypes
<1>4. ASSUME NEW s \in {"living", "deprecated"}, SetStatus(d, s)
      PROVE  Evolves /\ OneLine(d) /\ docs'[d].status # "none"
  <2>1. /\ Edit(d, "change", "restructure", 0, 0) /\ d \in Docs /\ ~Archived(d)
        /\ docs' = [docs EXCEPT ![d].status = s]
    BY <1>4 DEF SetStatus
  <2>2. docs[d] \in Doc /\ docs[d].links \subseteq Docs
    BY <1>1, <2>1, DocKinds DEF DocsInv
  <2> DEFINE new == [docs[d] EXCEPT !.status = s]
  <2>3. new \in Doc /\ new.history = docs[d].history /\ new.links = docs[d].links
    BY <2>2 DEF Doc, Statuses
  <2>4. docs' = [docs EXCEPT ![d] = new]
    BY <2>1
  <2> HIDE DEF new
  <2>5. Evolves /\ docs'[d].status # "none" /\ Docs' = Docs
    BY <1>1, <2>1, <2>2, <2>3, <2>4, FieldEvolves
  <2> QED BY <1>1, <2>1, <2>5, EditLogs DEF Ops, ChangeTypes
<1>5. ASSUME NEW t \in DocIds, Link(d, t)
      PROVE  Evolves /\ OneLine(d) /\ docs'[d].status # "none"
  <2>1. /\ Edit(d, "change", "restructure", 1, 0) /\ d \in Docs /\ ~Archived(d) /\ t \in Docs
        /\ docs' = [docs EXCEPT ![d].links = @ \cup {t}]
    BY <1>5 DEF Link
  <2>2. docs[d] \in Doc /\ docs[d].links \subseteq Docs
    BY <1>1, <2>1, DocKinds DEF DocsInv
  <2> DEFINE new == [docs[d] EXCEPT !.links = @ \cup {t}]
  <2>3. new \in Doc /\ new.history = docs[d].history /\ new.links = docs[d].links \cup {t}
    BY <2>2 DEF Doc
  <2>4. docs' = [docs EXCEPT ![d] = new]
    BY <2>1
  <2>5. new.links \subseteq Docs
    BY <2>1, <2>2, <2>3
  <2> HIDE DEF new
  <2>6. Evolves /\ docs'[d].status # "none" /\ Docs' = Docs
    BY <1>1, <2>1, <2>3, <2>4, <2>5, FieldEvolves
  <2> QED BY <1>1, <2>1, <2>6, EditLogs DEF Ops, ChangeTypes
<1>6. CASE Rm(d)
  <2>1. Edit(d, "rm", "deletion", 0, 0)
    BY <1>6 DEF Rm
  <2>2. Evolves /\ docs'[d].status = "gone" /\ Docs' \subseteq Docs /\ d \in Docs
    BY <1>1, <1>6, RmEvolves DEF Rm
  <2> QED BY <1>1, <2>1, <2>2, EditLogs DEF Ops, ChangeTypes
<1>7. ASSUME NEW t \in DocIds, Unlink(d, t)
      PROVE  Evolves /\ OneLine(d) /\ docs'[d].status # "none"
  <2>1. /\ Edit(d, "change", "restructure", 0, 1) /\ d \in Docs /\ ~Archived(d)
        /\ docs' = [docs EXCEPT ![d].links = @ \ {t}]
    BY <1>7 DEF Unlink
  <2>2. docs[d] \in Doc /\ docs[d].links \subseteq Docs
    BY <1>1, <2>1, DocKinds DEF DocsInv
  <2> DEFINE new == [docs[d] EXCEPT !.links = @ \ {t}]
  <2>3. new \in Doc /\ new.history = docs[d].history /\ new.links = docs[d].links \ {t}
    BY <2>2 DEF Doc
  <2>4. docs' = [docs EXCEPT ![d] = new]
    BY <2>1
  <2>5. new.links \subseteq Docs
    BY <2>2, <2>3
  <2> HIDE DEF new
  <2>6. Evolves /\ docs'[d].status # "none" /\ Docs' = Docs
    BY <1>1, <2>1, <2>3, <2>4, <2>5, FieldEvolves
  <2> QED BY <1>1, <2>1, <2>6, EditLogs DEF Ops, ChangeTypes
<1> QED BY <1>2, <1>3, <1>4, <1>5, <1>6, <1>7 DEF Command

BecomesSnapshot(d) ==
  /\ Evolves /\ docs'[d].status # "none" /\ docs'[d].status = "reference"
  /\ Docs' = Docs
  /\ \A e \in DocIds : docs'[e].links = docs[e].links /\ docs'[e].history = docs[e].history
  /\ \A e \in DocIds \ {d} : docs'[e] = docs[e]

LEMMA ArchiveEvolves ==
  ASSUME DocsInv, NEW d \in DocIds, Archive(d)
  PROVE  BecomesSnapshot(d)
<1>1. d \in Docs /\ ~Archived(d) /\ docs' = [docs EXCEPT ![d].status = "reference"]
  BY DEF Archive
<1>2. docs[d] \in Doc /\ docs[d].links \subseteq Docs
  BY <1>1, DocKinds DEF DocsInv
<1> DEFINE new == [docs[d] EXCEPT !.status = "reference"]
<1>3. /\ new \in Doc /\ new.history = docs[d].history /\ new.links = docs[d].links
      /\ new.status = "reference"
  BY <1>2 DEF Doc, Statuses
<1>4. docs' = [docs EXCEPT ![d] = new]
  BY <1>1
<1> HIDE DEF new
<1>5. Evolves /\ docs'[d].status # "none"
  BY <1>1, <1>2, <1>3, <1>4, FieldEvolves
<1>6. docs'[d] = new /\ \A e \in DocIds \ {d} : docs'[e] = docs[e]
  BY <1>4 DEF DocsInv
<1>7. Docs' = Docs
  BY <1>1, <1>3, <1>6 DEF Docs, Statuses
<1> QED BY <1>3, <1>5, <1>6, <1>7 DEF BecomesSnapshot

\* A review stays what it was minted as while the documents evolve, sessions
\* pass and reviewers sign.
LEMMA MintedStays ==
  ASSUME NEW x, NEW y, Minted(x), y \in Review, SameBody(y, x),
         session \in Nat, session' \in Nat, session' >= session,
         \A d \in DocIds : docs[d].status # "none" => docs'[d].status # "none"
  PROVE  Minted(y)'
<1>1. /\ y.touched = x.touched /\ y.filed = x.filed /\ y.route = x.route /\ y.of = x.of
      /\ x.of \in Nat /\ x.touched \subseteq DocIds
  BY DEF Minted, SameBody, Review
<1>2. y.route # "summary" => \E f \in [y.touched -> Sections] : y.filed = Filing(f)
  BY <1>1 DEF Minted
<1>3. \A d \in y.touched : docs'[d].status # "none"
  BY <1>1 DEF Minted
<1>4. y.route = "wal" => y.of < session'
  BY <1>1 DEF Minted
<1> QED BY <1>2, <1>3, <1>4 DEF Minted

LEMMA SameItself == ASSUME NEW x \in Review PROVE SameBody(x, x)
  BY DEF SameBody, Review

LEMMA CommandKeeps ==
  ASSUME ReviewInv, NEW d \in DocIds, Command(d)
  PROVE  ReviewInv'
<1>1. Evolves /\ OneLine(d) /\ docs'[d].status # "none"
  BY CommandFacts
<1>2. PICK l \in WalLine :
        /\ wal' = wal \cup {l} /\ l.n = now' /\ now' = now + 1 /\ l.ref = d
        /\ \E t \in ChangeTypes : l.types = {t}
        /\ l.op = "rm" => docs'[d].status = "gone"
        /\ l.op = "new" => l.types = {"addition"} /\ docs[d].status = "none"
        /\ l.op # "new" => d \in Docs
        /\ Docs' \subseteq Docs \cup {d}
        /\ changed' = [changed EXCEPT ![d] = now']
        /\ born' = IF l.op = "new" THEN [born EXCEPT ![d] = now'] ELSE born
        /\ UNCHANGED <<session, reviews, signing, signed, opening>>
  BY <1>1 DEF OneLine
<1>3. DocsInv'
  <2>1. \A e \in DocIds : \A h \in docs'[e].history : h.sess < session'
    BY <1>1, <1>2 DEF Evolves, DocsInv, ReviewInv
  <2>2. \A e \in Docs' : e \in DocIds
    BY DEF Docs
  <2> QED BY <1>1, <2>1, <2>2 DEF Evolves, DocsInv
<1>4. WalInv'
  <2>1. IsFiniteSet(wal')
    BY <1>2, FS_AddElement DEF ReviewInv, WalInv
  <2>2. now \in Nat /\ now' = now + 1
    BY <1>2 DEF ReviewInv, CountsInv
  <2>3. ASSUME NEW m \in wal PROVE Logged(m)'
    <3>1. Logged(m) /\ m.ref \in DocIds
      BY DEF ReviewInv, WalInv, Logged, WalLine
    <3> QED BY <1>1, <2>2, <3>1 DEF Logged, Evolves
  <2>4. Logged(l)'
    BY <1>1, <1>2, <2>2 DEF Logged
  <2> QED BY <1>2, <2>1, <2>3, <2>4 DEF WalInv
<1>5. ReviewsInv'
  <2>1. reviews' = reviews /\ session' = session /\ session \in Nat
    BY <1>2 DEF ReviewInv, CountsInv
  <2>2. ASSUME NEW r \in DOMAIN reviews PROVE Minted(reviews[r])'
    <3>1. Minted(reviews[r]) /\ reviews[r] \in Review
      BY DEF ReviewInv, ReviewsInv, Minted
    <3>2. \A e \in DocIds : docs[e].status # "none" => docs'[e].status # "none"
      BY <1>1 DEF Evolves
    <3>3. Minted(reviews[r])'
      <4> DEFINE x == reviews[r]
      <4>1. Minted(x)' 
        <5>1. SameBody(x, x) /\ session' >= session
          BY <2>1, <3>1, SameItself
        <5>2. x' = x
          BY <2>1
        <5> HIDE DEF x
        <5> QED BY <2>1, <3>1, <3>2, <5>1, <5>2, MintedStays DEF x
      <4> QED BY <4>1
    <3> QED BY <3>3
  <2> QED BY <2>1, <2>2 DEF ReviewsInv, ReviewInv
<1>6. SigningInv'
  BY <1>2 DEF SigningInv, ReviewInv, SameBody
<1>7. CountsInv'
  BY <1>2 DEF CountsInv, ReviewInv
<1> QED BY <1>3, <1>4, <1>5, <1>6, <1>7 DEF ReviewInv

LEMMA ArchiveKeeps ==
  ASSUME ReviewInv, NEW d \in DocIds, Archive(d)
  PROVE  ReviewInv'
<1>1. /\ now' = now + 1 /\ now \in Nat /\ session \in Nat
      /\ UNCHANGED <<wal, session, reviews, signing, signed, opening>>
  BY DEF Archive, ReviewInv, CountsInv
<1>2. Evolves
  BY ArchiveEvolves DEF ReviewInv, BecomesSnapshot
<1>3. DocsInv'
  <2>1. \A e \in DocIds : \A h \in docs'[e].history : h.sess < session'
    BY <1>1, <1>2 DEF Evolves, DocsInv, ReviewInv
  <2>2. \A e \in Docs' : e \in DocIds
    BY DEF Docs
  <2> QED BY <1>2, <2>1, <2>2 DEF Evolves, DocsInv
<1>4. WalInv'
  <2>1. ASSUME NEW m \in wal PROVE Logged(m)'
    <3>1. Logged(m) /\ m.ref \in DocIds
      BY DEF ReviewInv, WalInv, Logged, WalLine
    <3> QED BY <1>1, <1>2, <3>1 DEF Logged, Evolves
  <2> QED BY <1>1, <2>1 DEF WalInv, ReviewInv
<1>5. ReviewsInv'
  <2>1. ASSUME NEW r \in DOMAIN reviews PROVE Minted(reviews[r])'
    <3> DEFINE x == reviews[r]
    <3>1. Minted(x) /\ x \in Review
      BY DEF ReviewInv, ReviewsInv, Minted
    <3>2. \A e \in DocIds : docs[e].status # "none" => docs'[e].status # "none"
      BY <1>2 DEF Evolves
    <3>3. SameBody(x, x) /\ session' >= session /\ session' \in Nat
      BY <1>1, <3>1, SameItself
    <3>4. x' = x
      BY <1>1
    <3> HIDE DEF x
    <3>5. Minted(x)'
      BY <1>1, <3>1, <3>2, <3>3, <3>4, MintedStays
    <3> QED BY <3>5 DEF x
  <2> QED BY <1>1, <2>1 DEF ReviewsInv, ReviewInv
<1>6. SigningInv'
  BY <1>1 DEF SigningInv, ReviewInv, SameBody
<1>7. CountsInv'
  BY <1>1 DEF CountsInv, ReviewInv
<1> QED BY <1>3, <1>4, <1>5, <1>6, <1>7 DEF ReviewInv

-----------------------------------------------------------------------------
(* Minting *)

\* A review added at the end leaves those there are.
Adds(x) ==
  /\ reviews' \in Seq(Review) /\ Len(reviews') = Len(reviews) + 1
  /\ DOMAIN reviews' = DOMAIN reviews \cup {Len(reviews) + 1}
  /\ Len(reviews) + 1 \notin DOMAIN reviews
  /\ reviews'[Len(reviews) + 1] = x
  /\ \A r \in DOMAIN reviews : reviews'[r] = reviews[r]

LEMMA MintAdds ==
  ASSUME ReviewsInv, CountsInv,
         NEW route \in {"wal", "since", "session", "touched", "summary"}, NEW of \in Nat,
         NEW touched \in SUBSET DocIds, NEW filed \in [Sections -> SUBSET DocIds],
         NEW integration \in Integrations, Mint(route, of, touched, filed, integration)
  PROVE  \E x \in Review :
           /\ Adds(x) /\ x.route = route /\ x.of = of /\ x.touched = touched
           /\ x.filed = filed /\ x.integration = integration
<1> DEFINE x == [route |-> route, of |-> of, filed |-> filed, touched |-> touched,
                 integration |-> integration, at |-> now, signoffs |-> {}]
<1>1. x \in Review /\ x.route = route /\ x.of = of /\ x.touched = touched
      /\ x.filed = filed /\ x.integration = integration
  BY DEF Review, CountsInv
<1>2. reviews' = Append(reviews, x)
  BY DEF Mint
<1> HIDE DEF x
<1>3. reviews \in Seq(Review)
  BY DEF ReviewsInv
<1>4. Adds(x)
  BY <1>1, <1>2, <1>3 DEF Adds
<1> QED BY <1>1, <1>4

\* What a minted review needs so that the invariants still hold.
LEMMA AddsKeeps ==
  ASSUME ReviewInv, NEW x \in Review, Adds(x), Minted(x)',
         \A d \in DocIds : docs[d].status # "none" => docs'[d].status # "none",
         session' \in {session, session + 1}, signing' = signing
  PROVE  ReviewsInv' /\ SigningInv'
<1>0. session \in Nat /\ session' \in Nat /\ session' >= session
  BY DEF ReviewInv, CountsInv
<1>1. ASSUME NEW r \in DOMAIN reviews PROVE Minted(reviews[r])'
  <2> DEFINE y == reviews[r]
  <2>1. Minted(y) /\ y \in Review
    BY DEF ReviewInv, ReviewsInv, Minted
  <2>2. y = reviews'[r]
    BY DEF Adds
  <2> DEFINE z == reviews'[r]
  <2>3. SameBody(z, y) /\ z \in Review
    BY <2>1, <2>2, SameItself
  <2>4. /\ z.route # "summary" => \E f \in [z.touched -> Sections] : z.filed = Filing(f)
        /\ \A d \in z.touched : docs'[d].status # "none"
        /\ z.route = "wal" => z.of < session'
    <3>1. y.touched \subseteq DocIds /\ y.of \in Nat
      BY <2>1 DEF Review
    <3>2. z = y
      BY <2>2
    <3> HIDE DEF y, z
    <3> QED BY <1>0, <2>1, <3>1, <3>2 DEF Minted
  <2>5. z \in Review
    BY <2>3
  <2> QED BY <2>4, <2>5 DEF Minted
<1>2. ReviewsInv'
  <2>1. ASSUME NEW r \in DOMAIN reviews' PROVE Minted(reviews[r])'
    <3>1. CASE r \in DOMAIN reviews
      BY <1>1, <3>1
    <3>2. CASE r = Len(reviews) + 1
      <4>1. reviews'[r] = x
        BY <3>2 DEF Adds
      <4> QED BY <4>1 DEF Minted
    <3> QED BY <3>1, <3>2 DEF Adds
  <2>2. reviews' \in Seq(Review)
    BY DEF Adds
  <2> QED BY <2>1, <2>2 DEF ReviewsInv
<1>3. SigningInv'
  BY DEF ReviewInv, SigningInv, Adds
<1> QED BY <1>2, <1>3

LEMMA FilingFits ==
  ASSUME NEW D \in SUBSET DocIds, NEW f \in [D -> Sections]
  PROVE  Filing(f) \in [Sections -> SUBSET DocIds]
BY DEF Filing

LEMMA StatsOfType ==
  ASSUME DocsInv, NEW filed \in [Sections -> SUBSET DocIds], NEW listed \in SUBSET DocIds
  PROVE  StatsOf(filed, listed) \in Integrations
<1>1. {d \in filed["addition"] \cup listed : ~Archived(d)} \in SUBSET DocIds
  BY DEF Sections
<1>2. \A d \in DocIds : docs[d].links \in SUBSET DocIds
  BY DocKinds
<1> QED BY <1>1, <1>2, FS_EmptySet, StatsType DEF StatsOf

\* The four ways to mint a review without closing a session.
Minting ==
  \/ \E t \in 1..now : NewSince(t)
  \/ \E s \in 1..session : NewBySession(s)
  \/ \E ds \in SUBSET DocIds : NewTouched(ds)
  \/ \E ds \in SUBSET DocIds : NewSummary(ds)

\* What a step that mints does: each body but the user's own files each
\* touched document in one section.
Mints(route, of, touched) ==
  \E x \in Review :
    /\ Adds(x) /\ x.route = route /\ x.of = of /\ x.touched = touched
    /\ route = "since" => x.filed = BodySince(of)
    /\ route # "summary" => \E f \in [touched -> Sections] : x.filed = Filing(f)

LEMMA SectionNames ==
  /\ Unfiled \in [Sections -> SUBSET DocIds]
  /\ {"addition", "reference", "revision"} \subseteq Sections
  /\ \A s \in Sections : Unfiled[s] = {}
BY DEF Unfiled, Sections

\* The body files each of the documents once.
Files(body, ds) ==
  /\ body \in [Sections -> SUBSET DocIds]
  /\ \E f \in [ds -> Sections] : body = Filing(f)

\* A body of three sections.
Three(A, B, C) ==
  [s \in Sections |-> IF s = "addition" THEN A ELSE IF s = "reference" THEN B
                      ELSE IF s = "revision" THEN C ELSE {}]

\* When they share no document, it files every document that is in one of them.
LEMMA ThreeSections ==
  ASSUME NEW A \in SUBSET DocIds, NEW B \in SUBSET DocIds, NEW C \in SUBSET DocIds,
         A \cap B = {}, A \cap C = {}, B \cap C = {}
  PROVE  Files(Three(A, B, C), A \cup B \cup C)
<1> DEFINE body == Three(A, B, C)
<1> DEFINE f == [d \in A \cup B \cup C |->
                  IF d \in A THEN "addition" ELSE IF d \in B THEN "reference" ELSE "revision"]
<1>1. f \in [A \cup B \cup C -> Sections]
  BY SectionNames
<1>2. ASSUME NEW s \in Sections PROVE body[s] = {d \in DOMAIN f : f[d] = s}
  <2>1. CASE s = "addition"
    BY <2>1 DEF Three
  <2>2. CASE s = "reference"
    BY <2>2 DEF Three
  <2>3. CASE s = "revision"
    BY <2>3 DEF Three
  <2>4. CASE s \notin {"addition", "reference", "revision"}
    BY <2>4 DEF Three
  <2> QED BY <2>1, <2>2, <2>3, <2>4
<1>3. body = Filing(f)
  BY <1>2 DEF Filing, Three
<1>4. body \in [Sections -> SUBSET DocIds]
  BY DEF Three
<1> HIDE DEF f
<1> QED BY <1>1, <1>3, <1>4 DEF Files

LEMMA BodySinceFiles ==
  ASSUME NEW t \in Nat, DocsInv
  PROVE  Files(BodySince(t), TouchedSince(t))
<1> DEFINE A == {d \in Docs : CreatedAt(d) >= t /\ ~Archived(d)}
           B == {d \in Docs : CreatedAt(d) >= t /\ Archived(d)}
           C == {d \in Docs : CreatedAt(d) < t /\ \E h \in docs[d].history : h.at >= t}
           body == BodySince(t)
<1>1. A \in SUBSET DocIds /\ B \in SUBSET DocIds /\ C \in SUBSET DocIds
  BY DEF Docs
<1>2. \A d \in Docs : CreatedAt(d) \in Nat
  <2> SUFFICES ASSUME NEW d \in Docs PROVE CreatedAt(d) \in Nat
    OBVIOUS
  <2> DEFINE first == {h \in docs[d].history : \A g \in docs[d].history : h.sess <= g.sess}
  <2>1. \A h \in first : h.at \in Nat
    <3>1. docs[d].history \in SUBSET Entry
      BY DocKinds DEF Docs
    <3> QED BY <3>1 DEF Entry
  <2>2. (\E h \in first : h.type = "addition") => (CHOOSE h \in first : TRUE) \in first
    OBVIOUS
  <2>3. CreatedAt(d) = IF \E h \in first : h.type = "addition"
                       THEN (CHOOSE h \in first : TRUE).at ELSE 0
    BY DEF CreatedAt
  <2> HIDE DEF first
  <2> QED BY <2>1, <2>2, <2>3
<1>3. A \cap B = {} /\ A \cap C = {} /\ B \cap C = {}
  BY <1>2
<1>4. A \cup B \cup C = TouchedSince(t)
  BY <1>2 DEF TouchedSince
<1>5. body = Three(A, B, C)
  <2> HIDE DEF A, B, C, body
  <2>1. body = [Unfiled EXCEPT !["addition"] = A, !["reference"] = B, !["revision"] = C]
    BY DEF body, BodySince, A, B, C
  <2> QED BY <2>1 DEF Unfiled, Sections, Three
<1> HIDE DEF A, B, C, body
<1>6. Files(Three(A, B, C), A \cup B \cup C)
  BY ONLY <1>1, <1>3, ThreeSections
<1> QED BY <1>4, <1>5, <1>6 DEF body

LEMMA BodyFromTouchedFiles ==
  ASSUME NEW ds \in SUBSET DocIds
  PROVE  Files(BodyFromTouched(ds), ds)
<1> DEFINE A == {d \in ds : ~Archived(d)}
           B == {d \in ds : Archived(d)}
           body == BodyFromTouched(ds)
<1>1. A \in SUBSET DocIds /\ B \in SUBSET DocIds /\ {} \in SUBSET DocIds
  OBVIOUS
<1>2. A \cap B = {} /\ A \cap {} = {} /\ B \cap {} = {} /\ A \cup B \cup {} = ds
  OBVIOUS
<1>3. body = Three(A, B, {})
  <2> HIDE DEF A, B, body
  <2>1. body = [Unfiled EXCEPT !["addition"] = A, !["reference"] = B]
    BY DEF body, BodyFromTouched, A, B
  <2> QED BY <2>1 DEF Unfiled, Sections, Three
<1> HIDE DEF A, B, body
<1>4. Files(Three(A, B, {}), A \cup B \cup {})
  BY ONLY <1>1, <1>2, ThreeSections
<1> QED BY <1>2, <1>3, <1>4 DEF body

LEMMA BodyBySessionFiles ==
  ASSUME NEW s
  PROVE  Files(BodyBySession(s), TouchedBy(s))
<1> DEFINE C == {d \in Docs : \E h \in docs[d].history : h.sess = s}
           body == BodyBySession(s)
<1>1. C \in SUBSET DocIds /\ {} \in SUBSET DocIds
  BY DEF Docs
<1>2. {} \cap {} = {} /\ {} \cap C = {} /\ {} \cup {} \cup C = C
  OBVIOUS
<1>3. body = Three({}, {}, C)
  <2> HIDE DEF C, body
  <2>1. body = [Unfiled EXCEPT !["revision"] = C]
    BY DEF body, BodyBySession, C
  <2> QED BY <2>1 DEF Unfiled, Sections, Three
<1>4. C = TouchedBy(s)
  BY DEF TouchedBy
<1> HIDE DEF C, body
<1>5. Files(Three({}, {}, C), {} \cup {} \cup C)
  BY ONLY <1>1, <1>2, ThreeSections
<1> QED BY <1>2, <1>3, <1>4, <1>5 DEF body

LEMMA NewSinceMints ==
  ASSUME ReviewInv, NEW t \in 1..now, NewSince(t)
  PROVE  TouchedSince(t) \in SUBSET Docs /\ Mints("since", t, TouchedSince(t))
<1> DEFINE D == TouchedSince(t)
           g == BodySince(t)
<1>1. D \in SUBSET Docs /\ Docs \in SUBSET DocIds
  BY DEF TouchedSince, Docs
<1>2. PICK listed \in Listings(g) : Mint("since", t, D, g, StatsOf(g, listed))
  BY DEF NewSince
<1>3. t \in Nat /\ listed \in SUBSET DocIds
  BY <1>1 DEF ReviewInv, CountsInv, Listings
<1>4. g \in [Sections -> SUBSET DocIds] /\ \E f \in [D -> Sections] : g = Filing(f)
  <2>1. Files(g, D)
    BY <1>3, BodySinceFiles DEF ReviewInv
  <2> QED BY <2>1 DEF Files
<1> DEFINE i == StatsOf(g, listed)
<1> HIDE DEF g, D
<1>5. i \in Integrations /\ Mint("since", t, D, g, i)
  BY <1>2, <1>3, <1>4, StatsOfType DEF ReviewInv
<1> HIDE DEF i
<1>6. PICK x \in Review : Adds(x) /\ x.route = "since" /\ x.of = t /\ x.touched = D /\ x.filed = g
  BY <1>1, <1>3, <1>4, <1>5, MintAdds DEF ReviewInv
<1>7. Mints("since", t, D)
  BY <1>4, <1>6 DEF Mints, g
<1> QED BY <1>1, <1>7 DEF D

LEMMA NewTouchedMints ==
  ASSUME ReviewInv, NEW ds \in SUBSET DocIds, NewTouched(ds)
  PROVE  Mints("touched", 0, ds \cap Docs)
<1> DEFINE D == ds \cap Docs
           g == BodyFromTouched(D)
<1>1. D \in SUBSET DocIds /\ Docs \in SUBSET DocIds
  BY DEF Docs
<1>2. PICK listed \in Listings(g) : Mint("touched", 0, D, g, StatsOf(g, listed))
  BY DEF NewTouched
<1>3. listed \in SUBSET DocIds
  BY <1>1 DEF Listings
<1> HIDE DEF D
<1>4. g \in [Sections -> SUBSET DocIds] /\ \E f \in [D -> Sections] : g = Filing(f)
  <2>1. Files(g, D)
    BY <1>1, BodyFromTouchedFiles
  <2> QED BY <2>1 DEF Files
<1> DEFINE i == StatsOf(g, listed)
<1> HIDE DEF g
<1>5. i \in Integrations /\ Mint("touched", 0, D, g, i)
  BY <1>2, <1>3, <1>4, StatsOfType DEF ReviewInv
<1> HIDE DEF i
<1>6. PICK x \in Review : Adds(x) /\ x.route = "touched" /\ x.of = 0 /\ x.touched = D /\ x.filed = g
  BY <1>1, <1>4, <1>5, MintAdds DEF ReviewInv
<1>7. Mints("touched", 0, D)
  BY <1>4, <1>6 DEF Mints
<1> QED BY <1>7 DEF D

LEMMA NewBySessionMints ==
  ASSUME ReviewInv, NEW s \in 1..session, NewBySession(s)
  PROVE  TouchedBy(s) \in SUBSET Docs /\ Mints("session", s, TouchedBy(s))
<1> DEFINE D == TouchedBy(s)
           g == BodyBySession(s)
<1>1. D \in SUBSET Docs /\ Docs \in SUBSET DocIds
  BY DEF TouchedBy, Docs
<1>2. Mint("session", s, D, g, NoIntegration) /\ s \in Nat
  BY DEF NewBySession, ReviewInv, CountsInv
<1>3. NoIntegration \in Integrations
  BY DEF NoIntegration, Integrations
<1>4. g \in [Sections -> SUBSET DocIds] /\ \E f \in [D -> Sections] : g = Filing(f)
  <2>1. Files(g, D)
    BY BodyBySessionFiles
  <2> QED BY <2>1 DEF Files
<1> HIDE DEF g, D
<1>6. PICK x \in Review : Adds(x) /\ x.route = "session" /\ x.of = s /\ x.touched = D /\ x.filed = g
  BY <1>1, <1>2, <1>3, <1>4, MintAdds DEF ReviewInv
<1>7. Mints("session", s, D)
  BY <1>4, <1>6 DEF Mints
<1> QED BY <1>1, <1>7 DEF D

LEMMA NewSummaryMints ==
  ASSUME ReviewInv, NEW ds \in SUBSET DocIds, NewSummary(ds)
  PROVE  Mints("summary", 0, ds \cap Docs)
<1> DEFINE D == ds \cap Docs
<1>1. D \in SUBSET DocIds
  OBVIOUS
<1>2. Mint("summary", 0, D, Unfiled, NoIntegration)
  BY DEF NewSummary
<1>3. NoIntegration \in Integrations /\ Unfiled \in [Sections -> SUBSET DocIds]
  BY SectionNames DEF NoIntegration, Integrations
<1> HIDE DEF D
<1>4. PICK x \in Review : Adds(x) /\ x.route = "summary" /\ x.of = 0 /\ x.touched = D
  BY <1>1, <1>2, <1>3, MintAdds DEF ReviewInv
<1>5. Mints("summary", 0, D)
  BY <1>4 DEF Mints
<1> QED BY <1>5 DEF D

\* Whichever way, a review is added of documents there are, and nothing else
\* changes.
LEMMA MintingMints ==
  ASSUME ReviewInv, Minting
  PROVE  /\ UNCHANGED <<docs, wal, session, signing, now, signed, opening, changed, born>>
         /\ \E route \in {"since", "session", "touched", "summary"}, of \in Nat, touched \in SUBSET Docs :
              Mints(route, of, touched) /\ (route = "since" => of \in 1..now
                                                               /\ touched = TouchedSince(of))
<1> DEFINE Same == UNCHANGED <<docs, wal, session, signing, now, signed, opening, changed, born>>
           Some == \E route \in {"since", "session", "touched", "summary"}, of \in Nat, touched \in SUBSET Docs :
              Mints(route, of, touched) /\ (route = "since" => of \in 1..now
                                                               /\ touched = TouchedSince(of))
<1>1. ASSUME NEW t \in 1..now, NewSince(t) PROVE Same /\ Some
  <2>1. TouchedSince(t) \in SUBSET Docs /\ Mints("since", t, TouchedSince(t))
    BY <1>1, NewSinceMints
  <2>2. Same /\ t \in Nat
    BY <1>1 DEF NewSince, ReviewInv, CountsInv
  <2>3. Some
    BY <2>1, <2>2
  <2> QED BY <2>2, <2>3
<1>2. ASSUME NEW s \in 1..session, NewBySession(s) PROVE Same /\ Some
  <2>1. TouchedBy(s) \in SUBSET Docs /\ Mints("session", s, TouchedBy(s))
    BY <1>2, NewBySessionMints
  <2>2. Same /\ s \in Nat
    BY <1>2 DEF NewBySession, ReviewInv, CountsInv
  <2> QED BY <2>1, <2>2
<1>3. ASSUME NEW ds \in SUBSET DocIds, NewTouched(ds) PROVE Same /\ Some
  <2>1. Mints("touched", 0, ds \cap Docs) /\ ds \cap Docs \in SUBSET Docs
    BY <1>3, NewTouchedMints
  <2>2. Same
    BY <1>3 DEF NewTouched
  <2> QED BY <2>1, <2>2
<1>4. ASSUME NEW ds \in SUBSET DocIds, NewSummary(ds) PROVE Same /\ Some
  <2>1. Mints("summary", 0, ds \cap Docs) /\ ds \cap Docs \in SUBSET Docs
    BY <1>4, NewSummaryMints
  <2>2. Same
    BY <1>4 DEF NewSummary
  <2> QED BY <2>1, <2>2
<1> QED BY <1>1, <1>2, <1>3, <1>4 DEF Minting

LEMMA MintingKeeps ==
  ASSUME ReviewInv, Minting
  PROVE  ReviewInv'
<1>1. UNCHANGED <<docs, wal, session, signing, now, signed>>
  BY MintingMints
<1>2. PICK route \in {"since", "session", "touched", "summary"}, of \in Nat, touched \in SUBSET Docs :
        Mints(route, of, touched)
  BY MintingMints
<1>3. PICK x \in Review :
        /\ Adds(x) /\ x.route = route /\ x.of = of /\ x.touched = touched
        /\ route = "since" => x.filed = BodySince(of)
        /\ route # "summary" => \E f \in [touched -> Sections] : x.filed = Filing(f)
  BY <1>2 DEF Mints
<1>4. \A d \in Docs : docs[d].status # "none"
  BY DEF Docs, Statuses
<1>5. route # "wal"
  OBVIOUS
<1>6. Minted(x)'
  BY <1>1, <1>3, <1>4, <1>5 DEF Minted
<1>7. ReviewsInv' /\ SigningInv'
  BY <1>1, <1>3, <1>6, AddsKeeps
<1>8. DocsInv' /\ WalInv' /\ CountsInv'
  BY <1>1 DEF ReviewInv, DocsInv, WalInv, CountsInv, Docs, Logged
<1> QED BY <1>7, <1>8 DEF ReviewInv

-----------------------------------------------------------------------------
(* Closing the session *)

LEMMA LogTypes ==
  ASSUME WalInv, NEW d \in Refs(wal)
  PROVE  /\ TypesOf(wal, d) \in SUBSET ChangeTypes /\ TypesOf(wal, d) # {}
         /\ Dominant(TypesOf(wal, d)) \in TypesOf(wal, d)
         /\ Dominant(TypesOf(wal, d)) \in ChangeTypes
         /\ Dominant(TypesOf(wal, d)) # "none"
         /\ Section(wal, d) \in Sections
<1>1. TypesOf(wal, d) \in SUBSET ChangeTypes /\ TypesOf(wal, d) # {}
  BY DEF WalInv, Logged, Refs, TypesOf, LinesOf
<1>2. Dominant(TypesOf(wal, d)) \in TypesOf(wal, d)
  BY <1>1, DominantIn
<1> QED BY <1>1, <1>2 DEF ChangeTypes, Section, Sections

LEMMA EntryType ==
  ASSUME ReviewInv, NEW d \in DocIds
  PROVE  HistoryFrom(wal, d) \in SUBSET {h \in Entry : h.sess = session}
<1>1. CASE d \in ToMaterialize(wal) /\ d \in Docs /\ ~Archived(d)
  <2>1. d \in Refs(wal)
    BY <1>1 DEF ToMaterialize
  <2> DEFINE N == {l.n : l \in LinesOf(wal, d)}
             h == [sess |-> session, type |-> Dominant(TypesOf(wal, d)), at |-> Max(N)]
  <2>2. N \subseteq Nat /\ N # {}
    BY <2>1 DEF ReviewInv, WalInv, Logged, Refs, LinesOf, WalLine
  <2>3. IsFiniteSet(N)
    <3>1. IsFiniteSet(LinesOf(wal, d))
      BY FS_Subset DEF ReviewInv, WalInv, LinesOf
    <3> DEFINE f == [l \in LinesOf(wal, d) |-> l.n]
    <3>2. f \in Surjection(LinesOf(wal, d), N)
      BY DEF Surjection
    <3> HIDE DEF f, N
    <3> QED BY <3>1, <3>2, FS_Surjection
  <2>4. Max(N) \in Nat
    <3> HIDE DEF N
    <3> QED BY <2>2, <2>3, MaxIn
  <2>5. Dominant(TypesOf(wal, d)) \in ChangeTypes /\ session \in Nat
    BY <2>1, LogTypes DEF ReviewInv, CountsInv
  <2> HIDE DEF N
  <2>6. h \in Entry /\ h.sess = session
    BY <2>4, <2>5 DEF Entry
  <2>7. HistoryFrom(wal, d) = {h}
    BY <1>1 DEF HistoryFrom, N
  <2> HIDE DEF h
  <2> QED BY <2>6, <2>7
<1>2. CASE ~(d \in ToMaterialize(wal) /\ d \in Docs /\ ~Archived(d))
  BY <1>2 DEF HistoryFrom
<1> QED BY <1>1, <1>2

\* What a close does to the documents: it adds to histories.
LEMMA CloseDocs ==
  ASSUME ReviewInv, Close, NEW d \in DocIds
  PROVE  /\ docs'[d].status = docs[d].status /\ docs'[d].links = docs[d].links
         /\ docs'[d].history = docs[d].history \cup HistoryFrom(wal, d)
         /\ docs'[d] \in Doc \cup {NoDoc, GoneDoc}
         /\ d \notin Docs => docs'[d] = docs[d]
<1> DEFINE H == HistoryFrom(wal, d)
<1>1. docs'[d] = [docs[d] EXCEPT !.history = @ \cup H]
  BY DEF Close
<1>2. H \in SUBSET Entry /\ (d \notin Docs => H = {})
  BY EntryType DEF HistoryFrom
<1> HIDE DEF H
<1>3. CASE d \in Docs
  <2>1. docs[d] \in Doc
    BY <1>3, DocKinds DEF ReviewInv
  <2> QED BY <1>1, <1>2, <1>3, <2>1 DEF Doc, H
<1>4. CASE d \notin Docs
  <2>1. docs[d] \in {NoDoc, GoneDoc}
    BY <1>4, DocKinds DEF ReviewInv
  <2> QED BY <1>1, <1>2, <1>4, <2>1 DEF NoDoc, GoneDoc, H
<1> QED BY <1>3, <1>4

LEMMA CloseMints ==
  ASSUME ReviewInv, Close
  PROVE  /\ Refs(wal) \in SUBSET DocIds
         /\ \E x \in Review :
              /\ Adds(x) /\ x.route = "wal" /\ x.of = session /\ x.touched = Refs(wal)
              /\ x.filed = FiledFromWal(wal) /\ x.integration = Stats(NewInWal(wal), wal)
<1> DEFINE g == FiledFromWal(wal)
           i == Stats(NewInWal(wal), wal)
           D == Refs(wal)
           f == [d \in D |-> Section(wal, d)]
<1>1. D \in SUBSET DocIds /\ IsFiniteSet(wal) /\ \A l \in wal : l.added \in Nat
  BY DEF Refs, ReviewInv, WalInv, Logged, WalLine
<1>2. f \in [D -> Sections]
  BY LogTypes DEF ReviewInv
<1>3. g \in [Sections -> SUBSET DocIds]
  BY <1>1 DEF FiledFromWal
<1>4. NewInWal(wal) \in SUBSET DocIds
  BY <1>1 DEF NewInWal, Docs
<1>5. i \in Integrations
  <2>1. \A d \in DocIds : docs[d].links \in SUBSET DocIds
    BY DocKinds DEF ReviewInv
  <2> QED BY <1>1, <1>4, <2>1, StatsType
<1>6. Mint("wal", session, D, g, i)
  BY DEF Close
<1> HIDE DEF g, i, f, D
<1>7. session \in Nat /\ CountsInv /\ ReviewsInv
  BY DEF ReviewInv, CountsInv
<1>8. \E x \in Review :
        /\ Adds(x) /\ x.route = "wal" /\ x.of = session /\ x.touched = D
        /\ x.filed = g /\ x.integration = i
  BY <1>1, <1>3, <1>5, <1>6, <1>7, MintAdds
<1> QED BY <1>1, <1>8 DEF g, i, D

LEMMA CloseKeeps == ASSUME ReviewInv, Close PROVE ReviewInv'
<1>1. PICK x \in Review :
        /\ Adds(x) /\ x.route = "wal" /\ x.of = session /\ x.touched = Refs(wal)
        /\ x.filed = FiledFromWal(wal)
  BY CloseMints
<1>2. session' = session + 1 /\ session \in Nat /\ wal' = {}
      /\ UNCHANGED <<signing, now, signed>>
  BY DEF Close, ReviewInv, CountsInv
<1>3. Docs' = Docs
  BY CloseDocs DEF Docs
<1>4. DocsInv'
  <2>1. docs' \in [DocIds -> Doc \cup {NoDoc, GoneDoc}]
    <3>1. docs' = [d \in DocIds |-> docs'[d]]
      BY DEF Close
    <3>2. \A d \in DocIds : docs'[d] \in Doc \cup {NoDoc, GoneDoc}
      BY CloseDocs
    <3> QED BY <3>1, <3>2
  <2>2. \A d \in Docs' : docs'[d].links \subseteq Docs'
    BY <1>3, CloseDocs DEF Docs, ReviewInv, DocsInv
  <2>3. ASSUME NEW d \in DocIds, NEW h \in docs'[d].history PROVE h.sess < session'
    <3>1. h \in docs[d].history \/ h \in HistoryFrom(wal, d)
      BY CloseDocs
    <3>2. CASE h \in docs[d].history
      <4>1. h \in Entry /\ h.sess < session
        BY <3>2, DocKinds DEF ReviewInv, DocsInv
      <4> QED BY <1>2, <4>1 DEF Entry
    <3>3. CASE h \in HistoryFrom(wal, d)
      BY <1>2, <3>3, EntryType
    <3> QED BY <3>1, <3>2, <3>3
  <2> QED BY <2>1, <2>2, <2>3 DEF DocsInv
<1>5. WalInv'
  BY <1>2, FS_EmptySet DEF WalInv
<1>6. Minted(x)'
  <2>1. \A d \in Refs(wal) : docs'[d].status # "none"
    <3>1. \A d \in Refs(wal) : d \in DocIds /\ docs[d].status # "none"
      BY DEF ReviewInv, WalInv, Logged, Refs, WalLine
    <3> QED BY <3>1, CloseDocs
  <2>2. \E f \in [Refs(wal) -> Sections] : x.filed = Filing(f)
    <3> DEFINE f == [d \in Refs(wal) |-> Section(wal, d)]
    <3>1. f \in [Refs(wal) -> Sections]
      BY LogTypes DEF ReviewInv
    <3>2. x.filed = Filing(f)
      BY <1>1 DEF FiledFromWal, Filing
    <3> HIDE DEF f
    <3> QED BY <3>1, <3>2
  <2>3. x.of < session'
    BY <1>1, <1>2
  <2> QED BY <1>1, <2>1, <2>2, <2>3 DEF Minted
<1>7. ReviewsInv' /\ SigningInv'
  <2>1. \A d \in DocIds : docs'[d].status = docs[d].status
    BY CloseDocs
  <2> QED BY <1>1, <1>2, <1>6, <2>1, AddsKeeps
<1>8. CountsInv'
  BY <1>2 DEF ReviewInv, CountsInv
<1> QED BY <1>4, <1>5, <1>7, <1>8 DEF ReviewInv

-----------------------------------------------------------------------------
(* Signing *)

LEMMA SignReadKeeps ==
  ASSUME ReviewInv, NEW p \in Signers, NEW r \in DOMAIN reviews, SignRead(p, r)
  PROVE  ReviewInv'
<1> DEFINE x == reviews[r]
           s == [r |-> r, rec |-> <<x>>]
<1>1. x \in Review /\ r \in Nat
  BY DEF ReviewInv, ReviewsInv
<1>2. s \in [r : Nat, rec : Seq(Review)] /\ s.rec = <<x>> /\ s.r = r
  BY <1>1
<1>3. SameBody(x, x)
  BY <1>1, SameItself
<1>4. signing' = [signing EXCEPT ![p] = s] /\ signed' = signed + 1
      /\ UNCHANGED <<docs, wal, session, reviews, now, opening>>
  BY DEF SignRead
<1>5. SigningInv'
  <2> HIDE DEF s
  <2>1. signing' \in [Signers -> [r : Nat, rec : Seq(Review)]]
    BY <1>2, <1>4 DEF ReviewInv, SigningInv
  <2>2. ASSUME NEW q \in Signers, signing'[q] # Unsigned
        PROVE  \E y \in Review : /\ signing'[q].rec = <<y>> /\ signing'[q].r \in DOMAIN reviews'
                                 /\ SameBody(y, reviews'[signing'[q].r])
    <3>1. CASE q = p
      <4>1. signing'[q] = s
        BY <1>4, <3>1 DEF ReviewInv, SigningInv
      <4> QED BY <1>1, <1>2, <1>3, <1>4, <4>1
    <3>2. CASE q # p
      <4>1. signing'[q] = signing[q]
        BY <1>4, <3>2 DEF ReviewInv, SigningInv
      <4> QED BY <1>4, <2>2, <4>1 DEF ReviewInv, SigningInv
    <3> QED BY <3>1, <3>2
  <2> QED BY <2>1, <2>2 DEF SigningInv, Unsigned
<1>6. DocsInv' /\ WalInv' /\ ReviewsInv' /\ CountsInv'
  BY <1>4 DEF ReviewInv, DocsInv, WalInv, Logged, Docs, ReviewsInv, Minted, CountsInv
<1> QED BY <1>5, <1>6 DEF ReviewInv

\* The record written back: the one read, with one sign-off more.
LEMMA SignWriteChanges ==
  ASSUME ReviewInv, NEW p \in Signers, SignWrite(p)
  PROVE  /\ signing[p].r \in DOMAIN reviews /\ DOMAIN reviews' = DOMAIN reviews
         /\ reviews' \in Seq(Review)
         /\ \A r \in DOMAIN reviews : r # signing[p].r => reviews'[r] = reviews[r]
         /\ \A r \in DOMAIN reviews : SameBody(reviews'[r], reviews[r])
         /\ \E x \in Review : /\ signing[p].rec = <<x>>
                              /\ x.signoffs \subseteq reviews'[signing[p].r].signoffs
         /\ signing' = [signing EXCEPT ![p] = Unsigned]
         /\ signing[p] # Unsigned
<1>1. /\ signing[p] # Unsigned
      /\ reviews' = [reviews EXCEPT ![signing[p].r] =
           [signing[p].rec[1] EXCEPT !.signoffs = @ \cup {<<p, signed>>}]]
      /\ signing' = [signing EXCEPT ![p] = Unsigned]
  BY DEF SignWrite
<1>2. PICK x \in Review : /\ signing[p].rec = <<x>> /\ signing[p].r \in DOMAIN reviews
                          /\ SameBody(x, reviews[signing[p].r])
  BY <1>1 DEF ReviewInv, SigningInv
<1> DEFINE y == [x EXCEPT !.signoffs = @ \cup {<<p, signed>>}]
           r == signing[p].r
<1>3. signed \in Nat /\ reviews \in Seq(Review)
  BY DEF ReviewInv, CountsInv, ReviewsInv
<1>4. y \in Review /\ x.signoffs \subseteq y.signoffs /\ SameBody(y, reviews[r])
  <2> DEFINE more == x.signoffs \cup {<<p, signed>>}
             z == reviews[r]
  <2>1. z \in Review /\ SameBody(x, z)
    BY <1>2, <1>3
  <2>2. more \in SUBSET (Signers \X Nat) /\ x.signoffs \subseteq more
    BY <1>3 DEF Review
  <2>3. y = [x EXCEPT !.signoffs = more]
    OBVIOUS
  <2> HIDE DEF r, y, more, z
  <2>4. y \in Review /\ y.signoffs = more
    BY <2>2, <2>3 DEF Review
  <2>5. SameBody(y, z)
    BY <2>1, <2>3, <2>4 DEF Review, SameBody
  <2> QED BY <2>2, <2>4, <2>5 DEF z
<1>5. reviews' = [reviews EXCEPT ![r] = y]
  BY <1>1, <1>2
<1> HIDE DEF y, r
<1>6. /\ DOMAIN reviews' = DOMAIN reviews /\ reviews' \in Seq(Review)
      /\ reviews'[r] = y /\ \A q \in DOMAIN reviews : q # r => reviews'[q] = reviews[q]
  BY <1>2, <1>3, <1>4, <1>5 DEF r
<1>7. \A q \in DOMAIN reviews : SameBody(reviews'[q], reviews[q])
  BY <1>3, <1>4, <1>6, SameItself
<1> QED BY <1>1, <1>2, <1>4, <1>6, <1>7 DEF r

LEMMA SignWriteKeeps ==
  ASSUME ReviewInv, NEW p \in Signers, SignWrite(p)
  PROVE  ReviewInv'
<1>1. UNCHANGED <<docs, wal, session, now, signed, opening>>
  BY DEF SignWrite
<1>2. ReviewsInv'
  <2>1. ASSUME NEW r \in DOMAIN reviews' PROVE Minted(reviews[r])'
    <3>1. r \in DOMAIN reviews /\ reviews'[r] \in Review /\ SameBody(reviews'[r], reviews[r])
      BY SignWriteChanges
    <3>2. Minted(reviews[r])
      BY <3>1 DEF ReviewInv, ReviewsInv
    <3> DEFINE x == reviews[r]
               y == reviews'[r]
    <3>3. /\ y.touched = x.touched /\ y.filed = x.filed /\ y.route = x.route /\ y.of = x.of
          /\ x \in Review
      BY <3>1, <3>2 DEF SameBody, Minted, Review
    <3>4. /\ y.route # "summary" => \E f \in [y.touched -> Sections] : y.filed = Filing(f)
          /\ \A d \in y.touched : docs'[d].status # "none"
          /\ y.route = "wal" => y.of < session'
          /\ y \in Review
      <4>1. Minted(x) /\ y \in Review
        BY <3>1, <3>2
      <4> HIDE DEF x, y
      <4> QED BY <1>1, <3>3, <4>1 DEF Minted
    <3> QED BY <3>4 DEF Minted
  <2>2. reviews' \in Seq(Review)
    BY SignWriteChanges
  <2> QED BY <2>1, <2>2 DEF ReviewsInv
<1>3. SigningInv'
  <2>1. signing' \in [Signers -> [r : Nat, rec : Seq(Review)]]
    <3>1. Unsigned \in [r : Nat, rec : Seq(Review)]
      BY DEF Unsigned
    <3> QED BY <3>1, SignWriteChanges DEF ReviewInv, SigningInv
  <2>2. ASSUME NEW q \in Signers, signing'[q] # Unsigned
        PROVE  \E y \in Review : /\ signing'[q].rec = <<y>> /\ signing'[q].r \in DOMAIN reviews'
                                 /\ SameBody(y, reviews'[signing'[q].r])
    <3>1. q # p /\ signing'[q] = signing[q]
      BY <2>2, SignWriteChanges DEF ReviewInv, SigningInv
    <3>2. PICK y \in Review : /\ signing[q].rec = <<y>> /\ signing[q].r \in DOMAIN reviews
                              /\ SameBody(y, reviews[signing[q].r])
      BY <2>2, <3>1 DEF ReviewInv, SigningInv
    <3> DEFINE x == reviews[signing[q].r]
               z == reviews'[signing[q].r]
    <3>3. x \in Review /\ z \in Review /\ SameBody(z, x) /\ SameBody(y, x)
      BY <3>2, SignWriteChanges DEF ReviewInv, ReviewsInv
    <3>4. SameBody(y, z)
      <4> HIDE DEF x, z
      <4> QED BY <3>3 DEF SameBody, Review
    <3> QED BY <3>1, <3>2, <3>4, SignWriteChanges
  <2> QED BY <2>1, <2>2 DEF SigningInv, Unsigned
<1>4. DocsInv' /\ WalInv' /\ CountsInv'
  BY <1>1 DEF ReviewInv, DocsInv, WalInv, Logged, Docs, CountsInv
<1> QED BY <1>2, <1>3, <1>4 DEF ReviewInv

-----------------------------------------------------------------------------
(* The invariant holds *)

LEMMA NextSteps ==
  ASSUME [Next]_vars
  PROVE  \/ \E d \in DocIds : Command(d)
         \/ \E d \in DocIds : Archive(d)
         \/ Close
         \/ Minting
         \/ \E p \in Signers : SignWrite(p)
         \/ \E p \in Signers : \E r \in DOMAIN reviews : SignRead(p, r)
         \/ UNCHANGED vars
BY DEF Next, Command, Minting

LEMMA ReviewStep == ReviewInv /\ [Next]_vars => ReviewInv'
<1> SUFFICES ASSUME ReviewInv, [Next]_vars PROVE ReviewInv'
  OBVIOUS
<1>1. ASSUME NEW d \in DocIds, Command(d) PROVE ReviewInv'
  BY <1>1, CommandKeeps
<1>2. CASE Close
  BY <1>2, CloseKeeps
<1>3. CASE Minting
  BY <1>3, MintingKeeps
<1>4. ASSUME NEW p \in Signers, SignWrite(p) PROVE ReviewInv'
  BY <1>4, SignWriteKeeps
<1>5. ASSUME NEW p \in Signers, NEW r \in DOMAIN reviews, SignRead(p, r) PROVE ReviewInv'
  BY <1>5, SignReadKeeps
<1>6. CASE UNCHANGED vars
  BY <1>6 DEF vars, ReviewInv, DocsInv, WalInv, Logged, Docs, ReviewsInv, Minted,
              SigningInv, CountsInv
<1>7. ASSUME NEW d \in DocIds, Archive(d) PROVE ReviewInv'
  BY <1>7, ArchiveKeeps
<1> QED BY <1>1, <1>2, <1>3, <1>4, <1>5, <1>6, <1>7, NextSteps

LEMMA InvariantTypes == ReviewInv => TypeOK
<1> SUFFICES ASSUME ReviewInv PROVE TypeOK
  OBVIOUS
<1>1. docs \in [DocIds -> Doc \cup {NoDoc, GoneDoc}] /\ \A d \in Docs : docs[d].links \subseteq Docs
  BY DEF ReviewInv, DocsInv
<1>2. \A l \in wal : l \in WalLine
  BY DEF ReviewInv, WalInv, Logged
<1>3. \A r \in DOMAIN reviews : reviews[r] \in Review
  BY DEF ReviewInv, ReviewsInv
<1>4. \A p \in Signers : signing[p] = Unsigned \/ signing[p].r \in DOMAIN reviews
  BY DEF ReviewInv, SigningInv
<1> QED BY <1>1, <1>2, <1>3, <1>4 DEF TypeOK

\* The documents, the log, the reviews and what the reviewers hold keep their
\* types, and links lead to documents there are, whatever commands, closes,
\* scans and signings do.
THEOREM ReviewTypesHold == Spec => []TypeOK
BY ReviewInit, ReviewStep, InvariantTypes, PTL DEF Spec

LEMMA InvariantFiles == ReviewInv => FiledOnce
<1> SUFFICES ASSUME ReviewInv, NEW r \in DOMAIN reviews, NEW d \in DocIds,
                    reviews[r].route # "summary"
             PROVE  Cardinality(Holding(r, d)) = IF d \in reviews[r].touched THEN 1 ELSE 0
  BY DEF FiledOnce
<1>1. PICK f \in [reviews[r].touched -> Sections] : reviews[r].filed = Filing(f)
  BY DEF ReviewInv, ReviewsInv, Minted
<1>2. reviews[r].touched \in SUBSET DocIds
  BY DEF ReviewInv, ReviewsInv, Minted, Review
<1>3. Holding(r, d) = IF d \in reviews[r].touched THEN {f[d]} ELSE {}
  BY <1>1, <1>2, FilingOnce DEF Holding
<1> QED BY <1>3, OneOrNone

\* Every review, minted by a close, a scan, a session's tag or a list, lists
\* each document it touched in exactly one section and lists no others: the
\* sections a scan makes are disjoint, and their union is what another scan
\* takes for touched.
THEOREM FiledOnceHolds == Spec => []FiledOnce
BY ReviewInit, ReviewStep, InvariantFiles, PTL DEF Spec

-----------------------------------------------------------------------------
(* Histories and reviews *)

\* What is not a signing or a close leaves the reviews there are, but may add.
SameReview(r) ==
  /\ r \in DOMAIN reviews' /\ reviews'[r].route = reviews[r].route
  /\ reviews'[r].of = reviews[r].of /\ reviews'[r].touched = reviews[r].touched
  /\ reviews'[r].filed = reviews[r].filed

\* Steps other than a close.  Reviews they mint are not of the log.
Quiet ==
  /\ \A r \in DOMAIN reviews : SameReview(r)
  /\ \A r \in DOMAIN reviews' \ DOMAIN reviews : reviews'[r].route # "wal"
  /\ Evolves

LEMMA StillEvolves == ASSUME DocsInv, docs' = docs PROVE Evolves
  BY DEF Evolves, DocsInv, Docs, Archived, Doc, NoDoc, GoneDoc, Statuses

LEMMA QuietSteps ==
  ASSUME ReviewInv, [Next]_vars, ~Close
  PROVE  Quiet
<1>1. ASSUME NEW d \in DocIds, Command(d) PROVE Quiet
  <2>1. Evolves /\ reviews' = reviews
    BY <1>1, CommandFacts DEF OneLine
  <2> QED BY <2>1 DEF Quiet, SameReview
<1>2. ASSUME docs' = docs PROVE Evolves
  BY <1>2, StillEvolves DEF ReviewInv
<1>3. ASSUME NEW route \in {"since", "session", "touched", "summary"}, NEW of, NEW touched,
             Mints(route, of, touched), docs' = docs
      PROVE  Quiet
  <2>1. PICK x \in Review : Adds(x) /\ x.route = route
    BY <1>3 DEF Mints
  <2>2. \A r \in DOMAIN reviews : SameReview(r)
    BY <2>1 DEF Adds, SameReview
  <2>3. \A r \in DOMAIN reviews' \ DOMAIN reviews : reviews'[r].route # "wal"
    BY <2>1 DEF Adds
  <2> QED BY <1>2, <1>3, <2>2, <2>3 DEF Quiet
<1>4. CASE Minting
  BY <1>3, <1>4, MintingMints
<1>5. ASSUME NEW d \in DocIds, Archive(d) PROVE Quiet
  <2>1. Evolves /\ reviews' = reviews
    BY <1>5, ArchiveEvolves DEF Archive, ReviewInv, BecomesSnapshot
  <2> QED BY <2>1 DEF Quiet, SameReview
<1>7. ASSUME NEW p \in Signers, SignWrite(p) PROVE Quiet
  <2>1. docs' = docs
    BY <1>7 DEF SignWrite
  <2>2. ASSUME NEW r \in DOMAIN reviews PROVE SameReview(r)
    <3>1. SameBody(reviews'[r], reviews[r]) /\ r \in DOMAIN reviews' /\ reviews[r] \in Review
          /\ reviews'[r] \in Review
      BY <1>7, SignWriteChanges DEF ReviewInv, ReviewsInv
    <3> DEFINE x == reviews[r]
               y == reviews'[r]
    <3>2. y.route = x.route /\ y.of = x.of /\ y.touched = x.touched /\ y.filed = x.filed
      <4>1. SameBody(y, x) /\ x \in Review
        BY <3>1
      <4> HIDE DEF x, y
      <4> QED BY <4>1 DEF SameBody, Review
    <3> QED BY <3>1, <3>2 DEF SameReview
  <2>3. DOMAIN reviews' \ DOMAIN reviews = {}
    BY <1>7, SignWriteChanges
  <2> QED BY <1>2, <2>1, <2>2, <2>3 DEF Quiet
<1>8. ASSUME NEW p \in Signers, NEW r \in DOMAIN reviews, SignRead(p, r) PROVE Quiet
  <2>1. docs' = docs /\ reviews' = reviews
    BY <1>8 DEF SignRead
  <2> QED BY <1>2, <2>1 DEF Quiet, SameReview
<1>9. CASE UNCHANGED vars
  BY <1>2, <1>9 DEF vars, Quiet, SameReview
<1> QED BY <1>1, <1>4, <1>5, <1>7, <1>8, <1>9, NextSteps

LEMMA QuietAgrees ==
  ASSUME ReviewInv, HistoryAgrees, Quiet
  PROVE  HistoryAgrees'
<1> SUFFICES ASSUME NEW r \in DOMAIN reviews', reviews'[r].route = "wal", NEW d \in Docs'
             PROVE  LET entries == {h \in docs'[d].history : h.sess = reviews'[r].of} IN
                      /\ {h.type : h \in entries} \subseteq Holding(r, d)'
                      /\ entries = {} /\ d \in reviews'[r].touched => Archived(d)'
  BY DEF HistoryAgrees
<1>1. r \in DOMAIN reviews /\ SameReview(r)
  BY DEF Quiet
<1>2. d \in DocIds /\ Holding(r, d)' = Holding(r, d)
  BY <1>1 DEF Docs, SameReview, Holding
<1>3. CASE docs[d].status = "none" /\ docs'[d].history = {}
  <2>1. d \notin reviews[r].touched
    BY <1>1, <1>3 DEF ReviewInv, ReviewsInv, Minted
  <2> QED BY <1>1, <1>3, <2>1 DEF SameReview
<1>4. CASE d \in Docs /\ docs'[d].history = docs[d].history
  <2>1. Archived(d) => Archived(d)'
    BY <1>2 DEF Quiet, Evolves
  <2> QED BY <1>1, <1>2, <1>4, <2>1 DEF SameReview, HistoryAgrees
<1> QED BY <1>2, <1>3, <1>4 DEF Quiet, Evolves

LEMMA CloseAgrees ==
  ASSUME ReviewInv, HistoryAgrees, Close
  PROVE  HistoryAgrees'
<1>1. PICK x \in Review :
        /\ Adds(x) /\ x.route = "wal" /\ x.of = session /\ x.touched = Refs(wal)
        /\ x.filed = FiledFromWal(wal)
  BY CloseMints
<1>2. Docs' = Docs /\ \A d \in Docs : Archived(d)' = Archived(d)
  BY CloseDocs DEF Docs, Archived
<1> SUFFICES ASSUME NEW r \in DOMAIN reviews', reviews'[r].route = "wal", NEW d \in Docs
             PROVE  LET entries == {h \in docs'[d].history : h.sess = reviews'[r].of} IN
                      /\ {h.type : h \in entries} \subseteq Holding(r, d)'
                      /\ entries = {} /\ d \in reviews'[r].touched => Archived(d)
  BY <1>2 DEF HistoryAgrees
<1>3. /\ d \in DocIds /\ docs'[d].history = docs[d].history \cup HistoryFrom(wal, d)
      /\ \A h \in docs[d].history : h.sess < session /\ h.sess \in Nat
      /\ \A h \in HistoryFrom(wal, d) : h.sess = session
      /\ session \in Nat
  <2>1. d \in DocIds
    BY DEF Docs
  <2> QED BY <2>1, CloseDocs, EntryType, DocKinds DEF ReviewInv, DocsInv, Entry, CountsInv
<1>4. CASE r \in DOMAIN reviews
  <2>1. reviews'[r] = reviews[r]
    BY <1>1, <1>4 DEF Adds
  <2>2. reviews[r].of < session /\ reviews[r].of \in Nat
    BY <1>4, <2>1 DEF ReviewInv, ReviewsInv, Minted, Review
  <2>3. {h \in docs'[d].history : h.sess = reviews[r].of}
          = {h \in docs[d].history : h.sess = reviews[r].of}
    BY <1>3, <2>2
  <2>4. Holding(r, d)' = Holding(r, d)
    BY <2>1 DEF Holding
  <2> QED BY <1>4, <2>1, <2>3, <2>4 DEF HistoryAgrees
<1>5. CASE r = Len(reviews) + 1
  <2>1. reviews'[r] = x
    BY <1>1, <1>5 DEF Adds
  <2>2. {h \in docs'[d].history : h.sess = session} = HistoryFrom(wal, d)
    BY <1>3
  <2>3. d \in Refs(wal) => d \in ToMaterialize(wal)
    <3> SUFFICES ASSUME d \in Refs(wal) PROVE ~Deleted(wal, d)
      BY LogTypes DEF ToMaterialize, ReviewInv
    <3>1. docs[d].status # "gone"
      BY DEF Docs, Statuses
    <3> QED BY <3>1 DEF Deleted, LinesOf, ReviewInv, WalInv, Logged
  <2>4. ASSUME NEW h \in HistoryFrom(wal, d) PROVE h.type \in Holding(r, d)'
    <3>1. d \in Refs(wal) /\ ~Archived(d) /\ h.type = Dominant(TypesOf(wal, d))
      BY <2>4 DEF HistoryFrom, ToMaterialize
    <3>2. Section(wal, d) = h.type /\ h.type \in Sections
      BY <3>1, LogTypes DEF Section, ReviewInv
    <3>3. d \in FiledFromWal(wal)[h.type]
      BY <3>1, <3>2 DEF FiledFromWal, Filing
    <3> QED BY <1>1, <2>1, <3>2, <3>3 DEF Holding
  <2>5. HistoryFrom(wal, d) = {} /\ d \in Refs(wal) => Archived(d)
    BY <2>3 DEF HistoryFrom
  <2> QED BY <1>1, <2>1, <2>2, <2>4, <2>5
<1> QED BY <1>1, <1>4, <1>5 DEF Adds

LEMMA AgreesInit == Init => HistoryAgrees
  BY DEF Init, HistoryAgrees

\* What a session's review says of a document and what the document's history
\* says of the session never diverge, whatever is created, snapshotted or
\* removed, or minted and signed, before and after the close.
THEOREM HistoryAgreesHolds == Spec => []HistoryAgrees
<1>1. ReviewInv /\ HistoryAgrees /\ [Next]_vars => (ReviewInv /\ HistoryAgrees)'
  BY ReviewStep, QuietSteps, QuietAgrees, CloseAgrees
<1> QED BY <1>1, ReviewInit, AgreesInit, PTL DEF Spec

-----------------------------------------------------------------------------
(* Sign-offs *)

\* What a step does to a review there is.
SignStep ==
  \A r \in DOMAIN reviews :
    /\ reviews'[r] = [reviews[r] EXCEPT !.signoffs = reviews'[r].signoffs]
    /\ \/ reviews[r].signoffs \subseteq reviews'[r].signoffs
       \/ \E p \in Signers : /\ signing'[p] # signing[p]
                             /\ signing[p].rec # <<reviews[r]>>

LEMMA SignsOff ==
  ASSUME ReviewInv, [Next]_vars
  PROVE  SignStep
<1>0. ASSUME NEW r \in DOMAIN reviews, reviews'[r] = reviews[r]
      PROVE  /\ reviews'[r] = [reviews[r] EXCEPT !.signoffs = reviews'[r].signoffs]
             /\ reviews[r].signoffs \subseteq reviews'[r].signoffs
  <2> DEFINE x == reviews[r]
  <2>1. x \in Review
    BY DEF ReviewInv, ReviewsInv
  <2> HIDE DEF x
  <2>2. x = [x EXCEPT !.signoffs = x.signoffs]
    BY <2>1 DEF Review
  <2> QED BY <1>0, <2>2 DEF x
<1>1. ASSUME reviews' = reviews PROVE SignStep
  BY <1>0, <1>1 DEF SignStep
<1>2. ASSUME NEW x, Adds(x) PROVE SignStep
  BY <1>0, <1>2 DEF SignStep, Adds
<1>3. ASSUME NEW d \in DocIds, Command(d) PROVE SignStep
  BY <1>1, <1>3, CommandFacts DEF OneLine
<1>4. CASE Close
  BY <1>2, <1>4, CloseMints
<1>5. CASE Minting
  BY <1>2, <1>5, MintingMints DEF Mints
<1>6. ASSUME NEW p \in Signers, SignWrite(p) PROVE SignStep
  <2> SUFFICES ASSUME NEW r \in DOMAIN reviews
               PROVE  /\ reviews'[r] = [reviews[r] EXCEPT !.signoffs = reviews'[r].signoffs]
                      /\ \/ reviews[r].signoffs \subseteq reviews'[r].signoffs
                         \/ \E q \in Signers : /\ signing'[q] # signing[q]
                                               /\ signing[q].rec # <<reviews[r]>>
    BY DEF SignStep
  <2>1. CASE r # signing[p].r
    BY <1>0, <1>6, <2>1, SignWriteChanges
  <2>2. CASE r = signing[p].r
    <3>1. PICK x \in Review : /\ signing[p].rec = <<x>>
                              /\ x.signoffs \subseteq reviews'[r].signoffs
      BY <1>6, <2>2, SignWriteChanges
    <3>2. signing'[p] # signing[p]
      BY <1>6, SignWriteChanges DEF ReviewInv, SigningInv
    <3>3. reviews'[r] = [reviews[r] EXCEPT !.signoffs = reviews'[r].signoffs]
      BY <1>6, SignWriteChanges DEF SameBody
    <3>4. signing[p].rec = <<reviews[r]>> => x = reviews[r]
      BY <3>1
    <3> QED BY <3>1, <3>2, <3>3, <3>4
  <2> QED BY <2>1, <2>2
<1>7. ASSUME NEW p \in Signers, NEW r \in DOMAIN reviews, SignRead(p, r) PROVE SignStep
  BY <1>1, <1>7 DEF SignRead
<1>8. CASE UNCHANGED vars
  BY <1>1, <1>8 DEF vars
<1>9. ASSUME NEW d \in DocIds, Archive(d) PROVE SignStep
  BY <1>1, <1>9 DEF Archive
<1> QED BY <1>3, <1>4, <1>5, <1>6, <1>7, <1>8, <1>9, NextSteps

\* Signing, and everything else, changes nothing of a review there is but its
\* sign-offs, and one is only lost when the reviewer who writes had read the
\* record before it was added.
THEOREM SignoffsStandHolds == Spec => SignoffsStand
<1>1. ReviewInv /\ [Next]_vars => [SignStep]_vars
  BY SignsOff
<1> QED BY <1>1, ReviewInit, ReviewStep, PTL DEF Spec, SignoffsStand, SignStep

-----------------------------------------------------------------------------
(* What the open session added to the graph *)

LEMMA AddedLine ==
  ASSUME NEW L, IsFiniteSet(L), NEW l, l \notin L, \A m \in L \cup {l} : m.added \in Nat
  PROVE  Total(Added(L \cup {l}), L \cup {l}) = Total(Added(L), L) + l.added
<1> DEFINE w == Added(L \cup {l})
<1>1. \A m \in L \cup {l} : w[m] = m.added /\ w[m] \in Nat
  BY DEF Added
<1>2. \A m \in L : w[m] = Added(L)[m]
  BY DEF Added
<1> HIDE DEF w
<1>3. Total(w, L \cup {l}) = Total(w, L) + w[l]
  <2>1. \A m \in L \cup {l} : w[m] \in Nat
    BY <1>1
  <2> QED BY ONLY <2>1, IsFiniteSet(L), l \notin L, TotalAdd
<1>4. Total(w, L) = Total(Added(L), L)
  BY <1>2, TotalSame
<1> QED BY <1>1, <1>3, <1>4 DEF w

\* The documents the log created, and its lines about the others.
NewRefs(log) == {l.ref : l \in {m \in log : m.op = "new"}}
OldLines(log) == {l \in log : l.ref \notin NewRefs(log)}

LinesInv ==
  \A l \in wal :
    /\ l.op = "new" <=> l.types = {"addition"}
    /\ l.op = "rm" <=> l.types = {"deletion"}
    /\ docs[l.ref].status = "gone" => \E m \in wal : m.op = "rm"

\* When the session removed nothing, the edges are those it began with, those
\* of the documents it created, and those it logged of the others.
Grown ==
  Total(Degree(docs), DocIds)
    = opening + (Total(Degree(docs), NewRefs(wal)) + Total(Added(OldLines(wal)), OldLines(wal)))

GrowthInv ==
  /\ opening \in Nat /\ LinesInv
  /\ AddsOnly(wal) => Grown

LEMMA DegreeType ==
  ASSUME NEW D \in [DocIds -> Doc \cup {NoDoc, GoneDoc}], NEW d \in DocIds
  PROVE  Degree(D)[d] \in Nat
<1>1. D[d].links \in SUBSET DocIds
  BY DEF Doc, NoDoc, GoneDoc
<1>2. Cardinality(D[d].links) \in Nat
  BY <1>1, DocIdsFinite, FS_Subset, FS_CardinalityType
<1> QED BY <1>2 DEF Degree

LEMMA SumTypes ==
  ASSUME ReviewInv
  PROVE  /\ NewRefs(wal) \in SUBSET DocIds /\ IsFiniteSet(NewRefs(wal))
         /\ IsFiniteSet(OldLines(wal)) /\ \A l \in OldLines(wal) : l.added \in Nat
         /\ Total(Degree(docs), DocIds) \in Nat /\ Total(Degree(docs), NewRefs(wal)) \in Nat
         /\ Total(Added(OldLines(wal)), OldLines(wal)) \in Nat
<1>1. \A l \in wal : l.ref \in DocIds /\ l.added \in Nat
  BY DEF ReviewInv, WalInv, Logged, WalLine
<1>2. NewRefs(wal) \in SUBSET DocIds
  BY <1>1 DEF NewRefs
<1>3. IsFiniteSet(NewRefs(wal)) /\ IsFiniteSet(OldLines(wal))
  BY <1>2, DocIdsFinite, FS_Subset DEF OldLines, ReviewInv, WalInv
<1>4. \A l \in OldLines(wal) : l.added \in Nat /\ Added(OldLines(wal))[l] \in Nat
  BY <1>1 DEF OldLines, Added
<1>5. \A d \in DocIds : Degree(docs)[d] \in Nat
  BY DegreeType DEF ReviewInv, DocsInv
<1>6. Total(Degree(docs), DocIds) \in Nat /\ Total(Degree(docs), NewRefs(wal)) \in Nat
  BY <1>2, <1>3, <1>5, DocIdsFinite, TotalType
<1>7. Total(Added(OldLines(wal)), OldLines(wal)) \in Nat
  BY <1>3, <1>4, TotalType
<1> QED BY <1>2, <1>3, <1>4, <1>6, <1>7

LEMMA LinesGrow ==
  ASSUME ReviewInv, GrowthInv, NEW d \in DocIds, NEW op \in Ops, NEW type \in ChangeTypes,
         NEW added \in Nat, NEW removed \in Nat, Edit(d, op, type, added, removed),
         op = "new" <=> type = "addition", op = "rm" <=> type = "deletion",
         \A e \in DocIds : e # d => docs'[e].status = docs[e].status,
         docs'[d].status = "gone" => op = "rm",
         op = "new" => docs[d].status = "none"
  PROVE  /\ LinesInv' /\ opening' = opening
         /\ AddsOnly(wal') => op # "rm" /\ removed = 0 /\ AddsOnly(wal)
         /\ op = "new" => /\ NewRefs(wal') = NewRefs(wal) \cup {d} /\ d \notin NewRefs(wal)
                          /\ OldLines(wal') = OldLines(wal)
         /\ op # "new" => NewRefs(wal') = NewRefs(wal)
         /\ op # "new" /\ d \in NewRefs(wal) => OldLines(wal') = OldLines(wal)
         /\ op # "new" /\ d \notin NewRefs(wal) =>
              Total(Added(OldLines(wal')), OldLines(wal'))
                = Total(Added(OldLines(wal)), OldLines(wal)) + added
<1> DEFINE l == [n |-> now', op |-> op, ref |-> d, types |-> {type},
                 author |-> TRUE, added |-> added, removed |-> removed]
<1>1. /\ l.n = now' /\ l.op = op /\ l.ref = d /\ l.types = {type} /\ l.added = added
      /\ l.removed = removed
      /\ wal' = wal \cup {l} /\ now' = now + 1 /\ opening' = opening
  BY DEF Edit
<1> HIDE DEF l
<1>2. now \in Nat /\ \A m \in wal : m.n <= now /\ m.ref \in DocIds /\ docs[m.ref].status # "none"
                                    /\ m.n \in Nat
  BY DEF ReviewInv, WalInv, CountsInv, Logged, WalLine
<1>3. l \notin wal
  BY <1>1, <1>2
<1>4. LinesInv'
  <2>1. ASSUME NEW m \in wal'
        PROVE  /\ m.op = "new" <=> m.types = {"addition"}
               /\ m.op = "rm" <=> m.types = {"deletion"}
               /\ docs'[m.ref].status = "gone" => \E k \in wal' : k.op = "rm"
    <3>1. CASE m = l
      <4>1. {type} = {"addition"} <=> type = "addition"
        OBVIOUS
      <4>2. {type} = {"deletion"} <=> type = "deletion"
        OBVIOUS
      <4> QED BY <1>1, <3>1, <4>1, <4>2
    <3>2. CASE m \in wal
      <4>1. docs'[m.ref].status = "gone" => docs[m.ref].status = "gone" \/ op = "rm"
        BY <1>2, <3>2
      <4> QED BY <1>1, <3>2, <4>1 DEF GrowthInv, LinesInv
    <3> QED BY <1>1, <3>1, <3>2
  <2> QED BY <2>1 DEF LinesInv
<1>5. AddsOnly(wal') => op # "rm" /\ removed = 0 /\ AddsOnly(wal)
  BY <1>1 DEF AddsOnly
<1>6. NewRefs(wal') = IF op = "new" THEN NewRefs(wal) \cup {d} ELSE NewRefs(wal)
  BY <1>1 DEF NewRefs
<1>7. ASSUME op = "new"
      PROVE  d \notin NewRefs(wal) /\ OldLines(wal') = OldLines(wal)
  <2>1. \A m \in wal : m.ref # d
    BY <1>2, <1>7
  <2> QED BY <1>1, <1>6, <1>7, <2>1 DEF NewRefs, OldLines
<1>8. ASSUME op # "new", d \in NewRefs(wal) PROVE OldLines(wal') = OldLines(wal)
  BY <1>1, <1>6, <1>8 DEF OldLines
<1>9. ASSUME op # "new", d \notin NewRefs(wal)
      PROVE  Total(Added(OldLines(wal')), OldLines(wal'))
                = Total(Added(OldLines(wal)), OldLines(wal)) + added
  <2>1. OldLines(wal') = OldLines(wal) \cup {l}
    BY <1>1, <1>6, <1>9 DEF OldLines
  <2>2. l \notin OldLines(wal)
    BY <1>3 DEF OldLines
  <2>3. IsFiniteSet(OldLines(wal)) /\ \A m \in OldLines(wal) \cup {l} : m.added \in Nat
    BY <1>1, SumTypes
  <2> DEFINE L == OldLines(wal)
  <2>4. Total(Added(L \cup {l}), L \cup {l}) = Total(Added(L), L) + l.added
    <3> HIDE DEF L
    <3> QED BY <2>2, <2>3, AddedLine DEF L
  <2> QED BY <1>1, <2>1, <2>4
<1> QED BY <1>1, <1>4, <1>5, <1>6, <1>7, <1>8, <1>9

\* A command that adds as many edges to one document as its line says.
LEMMA ChangeGrows ==
  ASSUME ReviewInv, ReviewInv', GrowthInv, NEW d \in DocIds, NEW type \in ChangeTypes,
         type # "addition", type # "deletion",
         NEW added \in Nat, Edit(d, "change", type, added, 0),
         \A e \in DocIds : e # d => docs'[e].status = docs[e].status /\ docs'[e].links = docs[e].links,
         docs'[d].status # "gone", Degree(docs')[d] = Degree(docs)[d] + added
  PROVE  GrowthInv'
<1>1. /\ LinesInv' /\ opening' = opening
      /\ AddsOnly(wal') => AddsOnly(wal)
      /\ NewRefs(wal') = NewRefs(wal)
      /\ d \in NewRefs(wal) => OldLines(wal') = OldLines(wal)
      /\ d \notin NewRefs(wal) =>
           Total(Added(OldLines(wal')), OldLines(wal'))
             = Total(Added(OldLines(wal)), OldLines(wal)) + added
  <2>1. "change" \in Ops /\ "change" # "new" /\ "change" # "rm" /\ 0 \in Nat
    BY DEF Ops
  <2> QED BY <2>1, LinesGrow
<1> SUFFICES ASSUME AddsOnly(wal) PROVE Grown'
  BY <1>1 DEF GrowthInv
<1>2. Grown
  BY DEF GrowthInv
<1> DEFINE v == Degree(docs)
           w == Degree(docs')
           N == NewRefs(wal)
<1>3. \A e \in DocIds : v[e] \in Nat /\ w[e] \in Nat /\ (e # d => v[e] = w[e])
  <2>1. \A e \in DocIds : v[e] \in Nat
    BY DegreeType DEF ReviewInv, DocsInv
  <2>2. \A e \in DocIds : w[e] \in Nat
    BY DegreeType DEF ReviewInv, DocsInv
  <2> QED BY <2>1, <2>2 DEF Degree
<1>4. w[d] = v[d] + added
  OBVIOUS
<1>5. N \in SUBSET DocIds /\ IsFiniteSet(N)
  BY SumTypes
<1> DEFINE A == Total(Added(OldLines(wal)), OldLines(wal))
           B == Total(Added(OldLines(wal')), OldLines(wal'))
<1>6. Total(v, DocIds) \in Nat /\ Total(v, N) \in Nat /\ A \in Nat /\ opening \in Nat
  BY SumTypes DEF GrowthInv
<1>7. Total(v, DocIds) = opening + (Total(v, N) + A)
  BY <1>2 DEF Grown
<1>8. (d \in N => B = A) /\ (d \notin N => B = A + added)
  BY <1>1
<1> SUFFICES Total(w, DocIds) = opening + (Total(w, N) + B)
  BY <1>1 DEF Grown, Degree
<1> HIDE DEF v, w, N, A, B
<1>9. Total(w, DocIds) = Total(v, DocIds) + (w[d] - v[d])
  BY <1>3, DocIdsFinite, TotalChange
<1>10. CASE d \in N
  <2>1. Total(w, N) = Total(v, N) + (w[d] - v[d])
    <3>1. \A e \in N : v[e] \in Nat /\ w[e] \in Nat
      BY <1>3, <1>5
    <3>2. \A e \in N : e # d => v[e] = w[e]
      BY <1>3, <1>5
    <3>3. d \in N /\ IsFiniteSet(N)
      BY <1>5, <1>10
    <3>4. \A e \in N \ {d} : v[e] = w[e]
      BY <3>2
    <3>5. IsFiniteSet(N \ {d})
      BY <3>3, FS_Subset
    <3>6. Total(v, N) = v[d] + Total(v, N \ {d}) /\ Total(w, N) = w[d] + Total(w, N \ {d})
      BY <3>1, <3>3, TotalRemove
    <3>7. Total(v, N \ {d}) = Total(w, N \ {d}) /\ Total(v, N \ {d}) \in Nat
      BY <3>1, <3>4, <3>5, TotalSame, TotalType
    <3> QED BY <3>1, <3>3, <3>6, <3>7
  <2> QED BY <1>3, <1>4, <1>6, <1>7, <1>8, <1>9, <1>10, <2>1
<1>11. CASE d \notin N
  <2>1. \A e \in N : v[e] = w[e]
    BY <1>3, <1>5, <1>11
  <2>2. Total(v, N) = Total(w, N)
    BY <1>5, <2>1, TotalSame
  <2> QED BY <1>3, <1>4, <1>6, <1>7, <1>8, <1>9, <1>11, <2>2
<1> QED BY <1>10, <1>11

LEMMA CreateGrows ==
  ASSUME ReviewInv, ReviewInv', GrowthInv, NEW d \in DocIds, NEW s \in {"living", "reference"},
         NEW links \in SUBSET DocIds, Create(d, s, links)
  PROVE  GrowthInv'
<1> DEFINE new == [status |-> s, links |-> links, history |-> {}]
<1>1. /\ docs' = [docs EXCEPT ![d] = new] /\ docs[d] = NoDoc
      /\ Edit(d, "new", "addition", 0, 0)
      /\ new.status = s /\ s # "gone"
  BY DEF Create
<1> HIDE DEF new
<1>2. docs'[d] = new /\ \A e \in DocIds : e # d => docs'[e] = docs[e]
  BY <1>1 DEF ReviewInv, DocsInv
<1>3. docs[d].status = "none" /\ docs[d].links = {}
  BY <1>1 DEF NoDoc
<1>4. /\ LinesInv' /\ opening' = opening
      /\ AddsOnly(wal') => AddsOnly(wal)
      /\ NewRefs(wal') = NewRefs(wal) \cup {d} /\ d \notin NewRefs(wal)
      /\ OldLines(wal') = OldLines(wal)
  <2>1. "new" \in Ops /\ "addition" \in ChangeTypes /\ "new" # "rm" /\ "addition" # "deletion"
        /\ 0 \in Nat
    BY DEF Ops, ChangeTypes
  <2>2. \A e \in DocIds : e # d => docs'[e].status = docs[e].status
    BY <1>2
  <2>3. docs'[d].status # "gone"
    BY <1>1, <1>2
  <2> QED BY <1>1, <1>3, <2>1, <2>2, <2>3, LinesGrow
<1> SUFFICES ASSUME AddsOnly(wal) PROVE Grown'
  BY <1>4 DEF GrowthInv
<1> DEFINE v == Degree(docs)
           w == Degree(docs')
           N == NewRefs(wal)
           A == Total(Added(OldLines(wal)), OldLines(wal))
<1>5. \A e \in DocIds : v[e] \in Nat /\ w[e] \in Nat /\ (e # d => v[e] = w[e])
  <2>1. \A e \in DocIds : v[e] \in Nat
    BY DegreeType DEF ReviewInv, DocsInv
  <2>2. \A e \in DocIds : w[e] \in Nat
    BY DegreeType DEF ReviewInv, DocsInv
  <2> QED BY <1>2, <2>1, <2>2 DEF Degree
<1>6. v[d] = 0
  BY <1>3, FS_EmptySet DEF Degree
<1>7. N \in SUBSET DocIds /\ IsFiniteSet(N) /\ d \notin N
  BY <1>4, SumTypes
<1>8. Total(v, DocIds) \in Nat /\ Total(v, N) \in Nat /\ A \in Nat /\ opening \in Nat
  BY SumTypes DEF GrowthInv
<1>9. Total(v, DocIds) = opening + (Total(v, N) + A)
  BY DEF GrowthInv, Grown
<1> SUFFICES Total(w, DocIds) = opening + (Total(w, N \cup {d}) + A)
  BY <1>4 DEF Grown, Degree
<1> HIDE DEF v, w, N, A
<1>10. Total(w, DocIds) = Total(v, DocIds) + (w[d] - v[d])
  BY ONLY <1>5, d \in DocIds, DocIdsFinite, TotalChange
<1>11. Total(w, N \cup {d}) = Total(w, N) + w[d]
  <2>1. \A e \in N \cup {d} : w[e] \in Nat
    BY <1>5, <1>7
  <2> QED BY ONLY <1>7, <2>1, TotalAdd
<1>12. Total(v, N) = Total(w, N)
  <2>1. \A e \in N : v[e] = w[e]
    BY <1>5, <1>7
  <2> QED BY <1>7, <2>1, TotalSame
<1> QED BY <1>5, <1>6, <1>8, <1>9, <1>10, <1>11, <1>12

LEMMA GrowthInit == Init => GrowthInv
<1> SUFFICES ASSUME Init PROVE GrowthInv
  OBVIOUS
<1>1. opening = 0 /\ LinesInv /\ wal = {}
  BY DEF Init, LinesInv
<1>2. NewRefs(wal) = {} /\ OldLines(wal) = {}
  BY <1>1 DEF NewRefs, OldLines
<1> DEFINE v == Degree(docs)
<1>3. \A d \in DocIds : v[d] = 0
  BY FS_EmptySet DEF Init, NoDoc, Degree
<1> DEFINE z == [d \in DocIds |-> 0]
<1>4. Total(v, DocIds) = 0
  <2> DEFINE Bad == {T \in SUBSET DocIds : Total(v, T) # 0}
  <2> SUFFICES ASSUME Bad # {} PROVE FALSE
    OBVIOUS
  <2> HIDE DEF v
  <2>1. PICK T \in Bad : \A U \in Bad : U \subseteq T => U = T
    <3>1. Bad \in SUBSET SUBSET DocIds
      OBVIOUS
    <3> HIDE DEF Bad
    <3> QED BY <3>1, DocIdsFinite, SmallestSubset
  <2>2. T \in SUBSET DocIds /\ Total(v, T) # 0
    BY <2>1
  <2>3. T = {} => Total(v, T) = 0
    BY TotalEmpty, Zenon
  <2>4. T # {} /\ IsFiniteSet(T)
    BY <2>2, <2>3, DocIdsFinite, FS_Subset
  <2>5. Pick(T) \in T /\ Total(v, T) = v[Pick(T)] + Total(v, T \ {Pick(T)})
    BY <2>4, TotalPick
  <2>6. Total(v, T \ {Pick(T)}) = 0
    BY <2>1, <2>2, <2>5
  <2> QED BY <1>3, <2>2, <2>5, <2>6
<1>5. Total(v, {}) = 0 /\ Total(Added({}), {}) = 0
  BY TotalEmpty
<1>6. Grown
  <2> HIDE DEF v
  <2>1. Total(v, NewRefs(wal)) = 0
    BY <1>2, <1>5, Zenon
  <2>2. Total(Added(OldLines(wal)), OldLines(wal)) = 0
    BY <1>2, <1>5, Zenon
  <2>3. Total(v, DocIds) = opening + (Total(v, NewRefs(wal))
                             + Total(Added(OldLines(wal)), OldLines(wal)))
    BY <1>1, <1>4, <2>1, <2>2
  <2> QED BY <2>3 DEF Grown, v
<1> QED BY <1>1, <1>6 DEF GrowthInv

LEMMA CommandGrows ==
  ASSUME ReviewInv, ReviewInv', GrowthInv, NEW d \in DocIds, Command(d)
  PROVE  GrowthInv'
<1>0. /\ \A t \in {"revision", "organizational", "restructure"} :
           t \in ChangeTypes /\ t # "addition" /\ t # "deletion"
      /\ \A t \in {"revision", "organizational"} :
           t \in ChangeTypes /\ t # "addition" /\ t # "deletion"
      /\ 0 \in Nat /\ 1 \in Nat
      /\ Degree(docs)[d] \in Nat
  BY DegreeType DEF ChangeTypes, ReviewInv, DocsInv
<1>1. ASSUME NEW s \in {"living", "reference"}, NEW links \in SUBSET DocIds, Create(d, s, links)
      PROVE  GrowthInv'
  BY <1>1, CreateGrows
<1>2. ASSUME NEW t \in {"revision", "organizational"}, Revise(d, t) PROVE GrowthInv'
  <2>1. d \in Docs /\ docs' = docs /\ Edit(d, "change", t, 0, 0)
    BY <1>2 DEF Revise
  <2>2. /\ \A e \in DocIds : e # d => docs'[e].status = docs[e].status
                                      /\ docs'[e].links = docs[e].links
        /\ docs'[d].status # "gone" /\ Degree(docs')[d] = Degree(docs)[d] + 0
    BY <1>0, <2>1 DEF Docs, Statuses
  <2>3. t \in ChangeTypes /\ t # "addition" /\ t # "deletion"
    BY <1>0
  <2> QED BY ONLY ReviewInv, ReviewInv', GrowthInv, d \in DocIds, <1>0, <2>1, <2>2, <2>3,
                  ChangeGrows
<1>3. ASSUME NEW s \in {"living", "deprecated"}, SetStatus(d, s) PROVE GrowthInv'
  <2>1. d \in Docs /\ docs' = [docs EXCEPT ![d].status = s]
        /\ Edit(d, "change", "restructure", 0, 0)
    BY <1>3 DEF SetStatus
  <2>2. docs[d] \in Doc
    BY <2>1, DocKinds DEF ReviewInv
  <2>3. docs'[d].status = s /\ docs'[d].links = docs[d].links /\ s # "gone"
    BY <2>1, <2>2 DEF ReviewInv, DocsInv, Doc, Statuses
  <2>4. /\ \A e \in DocIds : e # d => docs'[e].status = docs[e].status
                                      /\ docs'[e].links = docs[e].links
        /\ docs'[d].status # "gone" /\ Degree(docs')[d] = Degree(docs)[d] + 0
    BY <1>0, <2>1, <2>3 DEF ReviewInv, DocsInv, Degree
  <2>5. "restructure" \in ChangeTypes /\ "restructure" # "addition" /\ "restructure" # "deletion"
    BY <1>0
  <2> QED BY ONLY ReviewInv, ReviewInv', GrowthInv, d \in DocIds, <1>0, <2>1, <2>4, <2>5,
                  ChangeGrows
<1>4. ASSUME NEW t \in DocIds, Link(d, t) PROVE GrowthInv'
  <2>1. /\ d \in Docs /\ t \in Docs \ ({d} \cup docs[d].links)
        /\ docs' = [docs EXCEPT ![d].links = @ \cup {t}]
        /\ Edit(d, "change", "restructure", 1, 0)
    BY <1>4 DEF Link
  <2>2. docs[d] \in Doc /\ docs[d].links \in SUBSET DocIds
    BY <2>1, DocKinds DEF ReviewInv
  <2>3. docs'[d].links = docs[d].links \cup {t} /\ docs'[d].status = docs[d].status
        /\ docs[d].status # "gone"
    BY <2>1, <2>2 DEF ReviewInv, DocsInv, Doc, Docs, Statuses
  <2>4. Cardinality(docs'[d].links) = Cardinality(docs[d].links) + 1
    BY <2>1, <2>2, <2>3, DocIdsFinite, FS_Subset, FS_AddElement
  <2>5. /\ \A e \in DocIds : e # d => docs'[e].status = docs[e].status
                                      /\ docs'[e].links = docs[e].links
        /\ docs'[d].status # "gone" /\ Degree(docs')[d] = Degree(docs)[d] + 1
    BY <2>1, <2>3, <2>4 DEF ReviewInv, DocsInv, Degree
  <2>6. "restructure" \in ChangeTypes /\ "restructure" # "addition" /\ "restructure" # "deletion"
    BY <1>0
  <2> QED BY ONLY ReviewInv, ReviewInv', GrowthInv, d \in DocIds, <1>0, <2>1, <2>5, <2>6,
                  ChangeGrows
<1>5. CASE Rm(d)
  <2>1. /\ docs' = [e \in DocIds |-> IF e = d THEN GoneDoc ELSE [docs[e] EXCEPT !.links = @ \ {d}]]
        /\ Edit(d, "rm", "deletion", 0, 0)
    BY <1>5 DEF Rm
  <2>2. ASSUME NEW e \in DocIds, e # d PROVE docs'[e].status = docs[e].status
    <3>1. docs'[e] = [docs[e] EXCEPT !.links = @ \ {d}]
      BY <2>1, <2>2
    <3>2. docs[e] \in Doc \/ docs[e] \in {NoDoc, GoneDoc}
      BY DEF ReviewInv, DocsInv
    <3> QED BY <3>1, <3>2 DEF Doc, NoDoc, GoneDoc
  <2>3. "rm" \in Ops /\ "deletion" \in ChangeTypes /\ "rm" # "new" /\ "deletion" # "addition"
    BY DEF Ops, ChangeTypes
  <2>4. LinesInv' /\ opening' = opening /\ ~AddsOnly(wal')
    BY <1>0, <2>1, <2>2, <2>3, LinesGrow
  <2> QED BY <2>4 DEF GrowthInv
<1>6. ASSUME NEW t \in DocIds, Unlink(d, t) PROVE GrowthInv'
  <2>1. /\ d \in Docs /\ docs' = [docs EXCEPT ![d].links = @ \ {t}]
        /\ Edit(d, "change", "restructure", 0, 1)
    BY <1>6 DEF Unlink
  <2>2. /\ \A e \in DocIds : e # d => docs'[e].status = docs[e].status
        /\ docs'[d].status # "gone"
    <3>1. docs[d] \in Doc
      BY <2>1, DocKinds DEF ReviewInv
    <3> QED BY <2>1, <3>1 DEF ReviewInv, DocsInv, Doc, Docs, Statuses
  <2>3. "change" \in Ops /\ "restructure" \in ChangeTypes /\ "change" # "new" /\ "change" # "rm"
        /\ "restructure" # "addition" /\ "restructure" # "deletion"
    BY DEF Ops, ChangeTypes
  <2>4. LinesInv' /\ opening' = opening /\ (AddsOnly(wal') => 1 = 0)
    BY ONLY ReviewInv, GrowthInv, d \in DocIds, 0 \in Nat, 1 \in Nat, <2>1, <2>2, <2>3, LinesGrow
  <2> QED BY <2>4 DEF GrowthInv
<1> QED BY <1>1, <1>2, <1>3, <1>4, <1>5, <1>6 DEF Command

LEMMA ArchiveGrows ==
  ASSUME ReviewInv, GrowthInv, NEW d \in DocIds, Archive(d)
  PROVE  GrowthInv'
<1>1. wal' = wal /\ opening' = opening
  BY DEF Archive
<1>2. docs'[d].status = "reference" /\ \A e \in DocIds :
        docs'[e].links = docs[e].links /\ (e # d => docs'[e] = docs[e])
  <2>1. DocsInv
    BY DEF ReviewInv
  <2>2. BecomesSnapshot(d)
    BY <2>1, ArchiveEvolves
  <2> QED BY <2>2 DEF BecomesSnapshot
<1>3. Degree(docs') = Degree(docs)
  BY <1>2 DEF Degree
<1>4. \A l \in wal : docs'[l.ref].status = "gone" => docs[l.ref].status = "gone"
  BY <1>2 DEF ReviewInv, WalInv, Logged, WalLine
<1>5. LinesInv'
  BY <1>1, <1>4 DEF GrowthInv, LinesInv
<1>6. Grown => Grown'
  BY <1>1, <1>3 DEF Grown
<1> QED BY <1>1, <1>5, <1>6 DEF GrowthInv

LEMMA CloseGrows ==
  ASSUME ReviewInv, GrowthInv, Close
  PROVE  GrowthInv'
<1>1. wal' = {} /\ opening' = Edges
  BY DEF Close
<1>2. Edges = Total(Degree(docs), DocIds) /\ Total(Degree(docs), DocIds) \in Nat
  BY EdgesTotal, SumTypes DEF Edges
<1> DEFINE v == Degree(docs)
           w == Degree(docs')
<1>3. \A d \in DocIds : v[d] = w[d]
  BY CloseDocs DEF Degree
<1>4. Total(v, DocIds) = Total(w, DocIds)
  <2> HIDE DEF v, w
  <2> QED BY <1>3, DocIdsFinite, TotalSame
<1>5. NewRefs({}) = {} /\ OldLines({}) = {}
  BY DEF NewRefs, OldLines
<1>6. Total(w, {}) = 0 /\ Total(Added({}), {}) = 0
  BY TotalEmpty
<1>7. Grown'
  <2>1. Total(w, DocIds) = opening' + (Total(w, NewRefs(wal')) + Total(Added(OldLines(wal')), OldLines(wal')))
    <3> HIDE DEF v, w
    <3> QED BY <1>1, <1>2, <1>4, <1>5, <1>6 DEF v
  <2> QED BY <2>1 DEF Grown, Degree
<1>8. LinesInv'
  BY <1>1 DEF LinesInv
<1> QED BY <1>1, <1>2, <1>7, <1>8 DEF GrowthInv

LEMMA GrowthStep ==
  ASSUME ReviewInv, ReviewInv', GrowthInv, [Next]_vars
  PROVE  GrowthInv'
<1>1. ASSUME NEW d \in DocIds, Command(d) PROVE GrowthInv'
  BY <1>1, CommandGrows
<1>2. CASE Close
  BY <1>2, CloseGrows
<1>3. ASSUME UNCHANGED <<docs, wal, opening>> PROVE GrowthInv'
  BY <1>3 DEF GrowthInv, LinesInv, Grown, NewRefs, OldLines, Degree
<1>4. CASE Minting
  BY <1>3, <1>4, MintingMints
<1>5. ASSUME NEW p \in Signers, SignWrite(p) PROVE GrowthInv'
  BY <1>3, <1>5 DEF SignWrite
<1>6. ASSUME NEW p \in Signers, NEW r \in DOMAIN reviews, SignRead(p, r) PROVE GrowthInv'
  BY <1>3, <1>6 DEF SignRead
<1>7. CASE UNCHANGED vars
  BY <1>3, <1>7 DEF vars
<1>8. ASSUME NEW d \in DocIds, Archive(d) PROVE GrowthInv'
  BY <1>8, ArchiveGrows
<1> QED BY <1>1, <1>2, <1>4, <1>5, <1>6, <1>7, <1>8, NextSteps

\* When no document was removed and all live, the new documents of the log are
\* the additions of the review.
LEMMA NewAreAdditions ==
  ASSUME ReviewInv, LinesInv, \A d \in Docs : docs[d].status = "living",
         AddsOnly(wal)
  PROVE  /\ \A l \in wal : l.ref \in Docs /\ ~Archived(l.ref)
         /\ NewInWal(wal) = NewRefs(wal)
<1>1. ASSUME NEW l \in wal PROVE l.ref \in Docs /\ ~Archived(l.ref)
  <2>1. docs[l.ref].status # "none" /\ docs[l.ref].status # "gone" /\ l.ref \in DocIds
    BY DEF ReviewInv, WalInv, Logged, LinesInv, WalLine, AddsOnly
  <2>2. l.ref \in Docs
    BY <2>1, DocKinds DEF ReviewInv
  <2> QED BY <2>2 DEF Archived
<1>2. \A d \in Refs(wal) : d \in Docs /\ ~Archived(d)
  BY <1>1 DEF Refs
<1>3. \A d \in Refs(wal) : Dominant(TypesOf(wal, d)) = "addition" <=> "addition" \in TypesOf(wal, d)
  <2> SUFFICES ASSUME NEW d \in Refs(wal)
               PROVE  Dominant(TypesOf(wal, d)) = "addition" <=> "addition" \in TypesOf(wal, d)
    OBVIOUS
  <2> DEFINE T == TypesOf(wal, d)
  <2>1. T \in SUBSET ChangeTypes /\ Dominant(T) \in T
    BY LogTypes DEF ReviewInv
  <2>2. "deletion" \notin T
    BY DEF LinesInv, TypesOf, LinesOf, ReviewInv, WalInv, Logged, AddsOnly
  <2>3. "addition" \in T => Dominant(T) = "addition"
    <3> HIDE DEF T
    <3> QED BY <2>1, <2>2, AdditionFirst
  <2> QED BY <2>1, <2>3
<1>4. \A d : d \in NewRefs(wal) <=> d \in Refs(wal) /\ "addition" \in TypesOf(wal, d)
  <2>1. \A l \in wal : "addition" \in l.types <=> l.types = {"addition"}
    BY DEF ReviewInv, WalInv, Logged
  <2> QED BY <2>1 DEF LinesInv, NewRefs, Refs, TypesOf, LinesOf
<1> QED BY <1>1, <1>2, <1>3, <1>4 DEF NewInWal

LEMMA Accounts ==
  ASSUME ReviewInv, GrowthInv, [Next]_vars, session' # session,
         \A d \in Docs : docs[d].status = "living", AddsOnly(wal)
  PROVE  LET i == reviews'[Len(reviews')].integration IN
         i.newToNew + i.newToExisting + i.toExisting = Edges - opening
<1>1. Close
  <2>1. ASSUME NEW d \in DocIds, Command(d) PROVE session' = session
    BY <2>1, CommandFacts DEF OneLine
  <2>2. ~ \E d \in DocIds : Command(d)
    BY <2>1
  <2>3. ~Minting
    BY MintingMints
  <2>4. ~ \E p \in Signers : SignWrite(p) \/ \E r \in DOMAIN reviews : SignRead(p, r)
    BY DEF SignWrite, SignRead
  <2>5. ~ \E d \in DocIds : Archive(d)
    BY DEF Archive
  <2> QED BY <2>2, <2>3, <2>4, <2>5, NextSteps DEF vars
<1> DEFINE new == NewRefs(wal)
           lines == OldLines(wal)
<1>2. PICK x \in Review : Adds(x) /\ x.integration = Stats(NewInWal(wal), wal)
  BY <1>1, CloseMints
<1>3. reviews'[Len(reviews')].integration = Stats(new, wal)
  <2>1. NewInWal(wal) = new
    BY NewAreAdditions DEF GrowthInv
  <2> QED BY <1>2, <2>1 DEF Adds
<1>4. new \in SUBSET Docs /\ IsFiniteSet(new) /\ IsFiniteSet(lines)
  <2>1. \A l \in wal : l.ref \in Docs
    BY NewAreAdditions DEF GrowthInv
  <2> QED BY <2>1, SumTypes DEF NewRefs
<1>5. {d \in new : ~Archived(d)} = new
  BY <1>4 DEF Archived
<1>6. {l \in wal : l.ref \notin new /\ ~Archived(l.ref)} = lines
  <2>1. \A l \in wal : ~Archived(l.ref)
    BY NewAreAdditions DEF GrowthInv
  <2> QED BY <2>1 DEF OldLines
<1>7. /\ Stats(new, wal).newToNew = Total(Among(docs, new, new), new)
      /\ Stats(new, wal).newToExisting = Total(Beyond(docs, new, new), new)
      /\ Stats(new, wal).toExisting = Total(Added(lines), lines)
  <2> DEFINE from == {d \in new : ~Archived(d)}
             old == {l \in wal : l.ref \notin new /\ ~Archived(l.ref)}
  <2> HIDE DEF new, lines
  <2>1. from = new /\ old = lines
    BY <1>5, <1>6
  <2>2. IsFiniteSet(from) /\ IsFiniteSet(old)
    BY <1>4, <2>1
  <2>3. /\ Stats(new, wal).newToNew = Total(Among(docs, new, from), from)
        /\ Stats(new, wal).newToExisting = Total(Beyond(docs, new, from), from)
        /\ Stats(new, wal).toExisting = Total(Added(old), old)
    <3> HIDE DEF from, old
    <3> QED BY <2>2, AmongTotal, BeyondTotal, LinesTotal DEF Stats, Archived, from, old
  <2> HIDE DEF from, old
  <2> QED BY <2>1, <2>3, Zenon
<1>8. ASSUME NEW d \in new
      PROVE  /\ Among(docs, new, new)[d] \in Nat /\ Beyond(docs, new, new)[d] \in Nat
             /\ Degree(docs)[d] = Among(docs, new, new)[d] + Beyond(docs, new, new)[d]
  <2> DEFINE T == docs[d].links
             A == {t \in T : t \in new /\ ~(docs[t].status = "reference")}
             B == {t \in T \ new : docs[t].status = "living"}
  <2>1. d \in DocIds /\ T \subseteq Docs /\ Docs \subseteq DocIds
    BY <1>4 DEF ReviewInv, DocsInv, Docs
  <2>2. T = A \cup B /\ A \cap B = {}
    BY <2>1
  <2>3. IsFiniteSet(A) /\ IsFiniteSet(B)
    BY <2>1, DocIdsFinite, FS_Subset
  <2>4. Among(docs, new, new)[d] = Cardinality(A) /\ Beyond(docs, new, new)[d] = Cardinality(B)
        /\ Degree(docs)[d] = Cardinality(T)
    BY <2>1 DEF Among, Beyond, Degree
  <2> HIDE DEF T, A, B, new
  <2>5. Cardinality(A) \in Nat /\ Cardinality(B) \in Nat
    BY <2>3, FS_CardinalityType
  <2>6. Cardinality(A \cup B) = Cardinality(A) + Cardinality(B) - Cardinality(A \cap B)
    BY <2>3, FS_Union
  <2>7. Cardinality(A \cap B) = 0
    BY <2>2, FS_EmptySet
  <2> QED BY <2>2, <2>4, <2>5, <2>6, <2>7
<1>9. Total(Degree(docs), new) = Total(Among(docs, new, new), new) + Total(Beyond(docs, new, new), new)
  <2> HIDE DEF new
  <2> QED BY <1>4, <1>8, TotalPlus
<1>10. Edges = opening + (Total(Degree(docs), new) + Total(Added(lines), lines))
  BY EdgesTotal DEF Edges, GrowthInv, Grown
<1>11. /\ opening \in Nat /\ Total(Added(lines), lines) \in Nat
       /\ Total(Degree(docs), new) \in Nat
  BY SumTypes DEF GrowthInv
<1> HIDE DEF new, lines
<1> QED BY <1>3, <1>7, <1>9, <1>10, <1>11

\* The three integration numbers of a session's review account for every edge
\* the store gained in the session, each once, when the session removed nothing
\* and all documents live: for any graph, however many commands built it.
THEOREM IntegrationAccountsHolds == Spec => IntegrationAccounts
<1> DEFINE A == session' # session
                /\ (\A d \in Docs : docs[d].status = "living") /\ AddsOnly(wal)
                => LET i == reviews'[Len(reviews')].integration IN
                   i.newToNew + i.newToExisting + i.toExisting = Edges - opening
<1>1. ReviewInv /\ GrowthInv /\ [Next]_vars => [A]_vars
  BY Accounts
<1>2. ReviewInv /\ GrowthInv /\ [Next]_vars => (ReviewInv /\ GrowthInv)'
  BY ReviewStep, GrowthStep
<1> QED BY <1>1, <1>2, ReviewInit, GrowthInit, PTL DEF Spec, IntegrationAccounts, A

-----------------------------------------------------------------------------
(* Reviews by time *)

\* The last change a command logged of d waits in the open session, or is in its
\* history at that time or later.
ChangeKept(d) ==
  \/ changed[d] = 0
  \/ \E l \in LinesOf(wal, d) : l.n >= changed[d]
  \/ \E h \in docs[d].history : h.at >= changed[d]

\* So is its creation, which no entry of its history comes before.
BirthKept(d) ==
  \/ /\ docs[d].history = {}
     /\ \E l \in LinesOf(wal, d) : l.types = {"addition"} /\ l.n >= born[d]
  \/ \E h \in docs[d].history :
       /\ h.type = "addition" /\ h.at >= born[d]
       /\ \A g \in docs[d].history : g = h \/ h.sess < g.sess

TimesInv ==
  /\ changed \in [DocIds -> Nat] /\ born \in [DocIds -> Nat]
  /\ \A d \in Docs : ~Archived(d) => ChangeKept(d) /\ BirthKept(d)

LEMMA TimesInit == Init => TimesInv
BY DEF Init, TimesInv, Docs, NoDoc, Statuses

LEMMA CommandTimes ==
  ASSUME ReviewInv, TimesInv, NEW d \in DocIds, Command(d)
  PROVE  TimesInv'
<1>1. Evolves /\ OneLine(d)
  BY CommandFacts
<1>2. PICK l \in WalLine :
        /\ wal' = wal \cup {l} /\ l.n = now' /\ now' = now + 1 /\ l.ref = d
        /\ \E t \in ChangeTypes : l.types = {t}
        /\ l.op = "rm" => docs'[d].status = "gone"
        /\ l.op = "new" => l.types = {"addition"} /\ docs[d].status = "none"
        /\ l.op # "new" => d \in Docs
        /\ Docs' \subseteq Docs \cup {d}
        /\ changed' = [changed EXCEPT ![d] = now']
        /\ born' = IF l.op = "new" THEN [born EXCEPT ![d] = now'] ELSE born
        /\ UNCHANGED <<session, reviews, signing, signed, opening>>
  BY <1>1 DEF OneLine
<1>3. now' \in Nat
  BY <1>2 DEF ReviewInv, CountsInv
<1>4. /\ changed' \in [DocIds -> Nat] /\ born' \in [DocIds -> Nat]
      /\ changed'[d] = now' /\ \A e \in DocIds \ {d} : changed'[e] = changed[e]
      /\ l.op = "new" => born'[d] = now'
      /\ \A e \in DocIds \ {d} : born'[e] = born[e]
      /\ l.op # "new" => born'[d] = born[d]
  BY <1>2, <1>3 DEF TimesInv
<1>5. \A e \in DocIds : LinesOf(wal, e) \subseteq LinesOf(wal', e)
  BY <1>2 DEF LinesOf
<1>6. l \in LinesOf(wal', d)
  BY <1>2 DEF LinesOf
<1>7. ASSUME NEW e \in Docs', ~Archived(e)' PROVE ChangeKept(e)' /\ BirthKept(e)'
  <2>0. e \in DocIds
    BY DEF Docs
  <2>1. ASSUME e \in Docs
        PROVE  /\ docs'[e].history = docs[e].history /\ ChangeKept(e) /\ BirthKept(e)
    <3>1. docs[e].status # "none" /\ ~Archived(e)
      BY <1>1, <1>7, <2>0, <2>1 DEF Evolves, Docs, Statuses
    <3> QED BY <1>1, <1>7, <2>0, <2>1, <3>1 DEF Evolves, TimesInv
  <2>2. CASE e # d
    <3>1. e \in Docs
      BY <1>2, <2>2
    <3>2. ChangeKept(e)'
      BY <1>4, <1>5, <2>0, <2>1, <2>2, <3>1 DEF ChangeKept
    <3>3. BirthKept(e)'
      BY <1>4, <1>5, <2>0, <2>1, <2>2, <3>1 DEF BirthKept
    <3> QED BY <3>2, <3>3
  <2>3. CASE e = d
    <3>1. l.n >= changed'[d]
      BY <1>2, <1>3, <1>4
    <3>2. ChangeKept(e)'
      BY <1>6, <2>3, <3>1 DEF ChangeKept
    <3>3. CASE l.op = "new"
      <4>1. docs'[d].history = {}
        BY <1>1, <1>2, <1>7, <2>3, <3>3 DEF Evolves, Docs, Statuses
      <4>2. l.types = {"addition"} /\ l.n >= born'[d]
        BY <1>2, <1>3, <1>4, <3>3
      <4>3. BirthKept(e)'
        BY <1>6, <2>3, <4>1, <4>2 DEF BirthKept
      <4> QED BY <3>2, <4>3
    <3>4. CASE l.op # "new"
      <4>1. d \in Docs
        BY <1>2, <3>4
      <4>2. BirthKept(e)'
        BY <1>4, <1>5, <2>0, <2>1, <2>3, <3>4, <4>1 DEF BirthKept
      <4> QED BY <3>2, <4>2
    <3> QED BY <3>3, <3>4
  <2> QED BY <2>2, <2>3
<1> QED BY <1>4, <1>7 DEF TimesInv

\* What a close writes into the history of a document it has lines of.
LEMMA EntryWritten ==
  ASSUME ReviewInv, NEW d \in Docs, ~Archived(d), NEW l \in LinesOf(wal, d)
  PROVE  \E h : /\ HistoryFrom(wal, d) = {h}
                /\ h.type = Dominant(TypesOf(wal, d)) /\ h.at >= l.n
<1> DEFINE N == {m.n : m \in LinesOf(wal, d)}
           h == [sess |-> session, type |-> Dominant(TypesOf(wal, d)), at |-> Max(N)]
<1>1. d \in Refs(wal)
  BY DEF Refs, LinesOf
<1>2. ~Deleted(wal, d)
  <2>1. docs[d].status # "gone"
    BY DEF Docs, Statuses
  <2> QED BY <2>1 DEF Deleted, LinesOf, ReviewInv, WalInv, Logged
<1>3. d \in ToMaterialize(wal)
  BY <1>1, <1>2, LogTypes DEF ToMaterialize, ReviewInv
<1>4. HistoryFrom(wal, d) = {h}
  BY <1>3 DEF HistoryFrom
<1>5. N \subseteq Nat /\ N # {} /\ l.n \in N
  BY DEF ReviewInv, WalInv, Logged, LinesOf, WalLine
<1>6. IsFiniteSet(N)
  <2>1. IsFiniteSet(LinesOf(wal, d))
    BY FS_Subset DEF ReviewInv, WalInv, LinesOf
  <2> DEFINE f == [m \in LinesOf(wal, d) |-> m.n]
  <2>2. f \in Surjection(LinesOf(wal, d), N)
    BY DEF Surjection
  <2> HIDE DEF f, N
  <2> QED BY <2>1, <2>2, FS_Surjection
<1>7. h.type = Dominant(TypesOf(wal, d)) /\ h.at = Max(N)
  OBVIOUS
<1> HIDE DEF h, N
<1>8. l.n <= Max(N) /\ l.n \in Nat /\ Max(N) \in Nat
  BY <1>5, <1>6, MaxIn
<1>9. h.at >= l.n
  BY <1>7, <1>8
<1> QED BY <1>4, <1>7, <1>9

LEMMA CloseTimes ==
  ASSUME ReviewInv, LinesInv, TimesInv, Close
  PROVE  TimesInv'
<1>1. Docs' = Docs /\ (\A d \in Docs : Archived(d)' = Archived(d)) /\ Docs \subseteq DocIds
  BY CloseDocs DEF Docs, Archived
<1>2. changed' = changed /\ born' = born
  BY DEF Close
<1>3. ASSUME NEW d \in Docs, ~Archived(d) PROVE ChangeKept(d)' /\ BirthKept(d)'
  <2>1. /\ docs'[d].history = docs[d].history \cup HistoryFrom(wal, d)
        /\ ChangeKept(d) /\ BirthKept(d)
    BY <1>1, <1>3, CloseDocs DEF TimesInv
  <2>2. ChangeKept(d)'
    <3>1. CASE \E l \in LinesOf(wal, d) : l.n >= changed[d]
      <4>1. PICK l \in LinesOf(wal, d) : l.n >= changed[d]
        BY <3>1
      <4>2. PICK h : HistoryFrom(wal, d) = {h} /\ h.at >= l.n
        BY <1>3, EntryWritten
      <4>3. h.at \in Nat /\ l.n \in Nat /\ changed[d] \in Nat
        <5>1. h \in Entry
          BY <1>1, <4>2, EntryType
        <5> QED BY <1>1, <5>1 DEF Entry, TimesInv, LinesOf, ReviewInv, WalInv, Logged, WalLine
      <4>4. h.at >= changed[d]
        BY <4>1, <4>2, <4>3
      <4> QED BY <1>2, <2>1, <4>2, <4>4 DEF ChangeKept
    <3>2. CASE changed[d] = 0 \/ \E h \in docs[d].history : h.at >= changed[d]
      BY <1>2, <2>1, <3>2 DEF ChangeKept
    <3> QED BY <2>1, <3>1, <3>2 DEF ChangeKept
  <2>3. BirthKept(d)'
    <3>1. ASSUME docs[d].history = {}, NEW l \in LinesOf(wal, d),
                 l.types = {"addition"}, l.n >= born[d]
          PROVE  BirthKept(d)'
      <4>1. PICK h : /\ HistoryFrom(wal, d) = {h}
                     /\ h.type = Dominant(TypesOf(wal, d)) /\ h.at >= l.n
        BY <1>3, EntryWritten
      <4>2. Dominant(TypesOf(wal, d)) = "addition"
        <5>1. d \in Refs(wal) /\ "addition" \in TypesOf(wal, d)
          BY <3>1 DEF Refs, LinesOf, TypesOf
        <5>2. TypesOf(wal, d) \in SUBSET ChangeTypes
          BY <5>1, LogTypes DEF ReviewInv
        <5>3. docs[d].status # "gone"
          BY DEF Docs, Statuses
        <5>4. \A m \in LinesOf(wal, d) : "deletion" \notin m.types
          <6>1. \A m \in LinesOf(wal, d) : Logged(m) /\ m \in wal /\ m.ref = d
            BY DEF LinesOf, ReviewInv, WalInv
          <6>2. \A m \in LinesOf(wal, d) : m.types # {"deletion"}
            BY <5>3, <6>1 DEF LinesInv, Logged
          <6> QED BY <6>1, <6>2 DEF Logged
        <5>5. "deletion" \notin TypesOf(wal, d)
          BY <5>4 DEF TypesOf
        <5> QED BY <5>1, <5>2, <5>5, AdditionFirst
      <4>3. h.at \in Nat /\ l.n \in Nat /\ born[d] \in Nat
        <5>1. h \in Entry
          BY <1>1, <4>1, EntryType
        <5> QED BY <1>1, <5>1 DEF Entry, TimesInv, LinesOf, ReviewInv, WalInv, Logged, WalLine
      <4>4. h.at >= born[d]
        BY <3>1, <4>1, <4>3
      <4>5. docs'[d].history = {h}
        BY <2>1, <3>1, <4>1
      <4> QED BY <1>2, <4>1, <4>2, <4>4, <4>5 DEF BirthKept
    <3>2. ASSUME NEW h \in docs[d].history, h.type = "addition", h.at >= born[d],
                 \A g \in docs[d].history : g = h \/ h.sess < g.sess
          PROVE  BirthKept(d)'
      <4>1. h.sess < session
        BY <1>1 DEF ReviewInv, DocsInv
      <4>2. \A g \in HistoryFrom(wal, d) : h.sess < g.sess
        BY <1>1, <4>1, EntryType
      <4> QED BY <1>2, <2>1, <3>2, <4>2 DEF BirthKept
    <3> QED BY <2>1, <3>1, <3>2 DEF BirthKept
  <2> QED BY <2>2, <2>3
<1>4. changed' \in [DocIds -> Nat] /\ born' \in [DocIds -> Nat]
  BY <1>2 DEF TimesInv
<1>5. \A d \in Docs' : ~Archived(d)' => ChangeKept(d)' /\ BirthKept(d)'
  BY <1>1, <1>3
<1> QED BY <1>4, <1>5 DEF TimesInv

LEMMA ArchiveTimes ==
  ASSUME ReviewInv, TimesInv, NEW d \in DocIds, Archive(d)
  PROVE  TimesInv'
<1>1. changed' = changed /\ born' = born /\ wal' = wal
  BY DEF Archive
<1>0. DocsInv
  BY DEF ReviewInv
<1>2. /\ Docs' = Docs /\ docs'[d].status = "reference"
      /\ \A e \in DocIds : e # d => docs'[e] = docs[e]
  <2>1. BecomesSnapshot(d)
    BY <1>0, ArchiveEvolves
  <2> QED BY <2>1 DEF BecomesSnapshot
<1>3. ASSUME NEW e \in Docs', ~Archived(e)' PROVE ChangeKept(e)' /\ BirthKept(e)'
  <2>1. e # d /\ e \in DocIds /\ e \in Docs
    BY <1>2, <1>3 DEF Archived, Docs
  <2>2. docs'[e] = docs[e] /\ ~Archived(e)
    BY <1>2, <1>3, <2>1 DEF Archived
  <2> QED BY <1>1, <2>1, <2>2 DEF TimesInv, ChangeKept, BirthKept
<1>4. changed' \in [DocIds -> Nat] /\ born' \in [DocIds -> Nat]
  BY <1>1 DEF TimesInv
<1> QED BY <1>3, <1>4 DEF TimesInv

LEMMA TimesStep ==
  ASSUME ReviewInv, LinesInv, TimesInv, [Next]_vars
  PROVE  TimesInv'
<1>1. ASSUME NEW d \in DocIds, Command(d) PROVE TimesInv'
  BY <1>1, CommandTimes
<1>2. ASSUME NEW d \in DocIds, Archive(d) PROVE TimesInv'
  BY <1>2, ArchiveTimes
<1>3. CASE Close
  BY <1>3, CloseTimes
<1>4. ASSUME UNCHANGED <<docs, wal, changed, born>> PROVE TimesInv'
  BY <1>4 DEF TimesInv, ChangeKept, BirthKept, Docs, Archived
<1>5. CASE Minting
  BY <1>4, <1>5, MintingMints
<1>6. ASSUME NEW p \in Signers, SignWrite(p) PROVE TimesInv'
  BY <1>4, <1>6 DEF SignWrite
<1>7. ASSUME NEW p \in Signers, NEW r \in DOMAIN reviews, SignRead(p, r) PROVE TimesInv'
  BY <1>4, <1>7 DEF SignRead
<1>8. CASE UNCHANGED vars
  BY <1>4, <1>8 DEF vars
<1> QED BY <1>1, <1>2, <1>3, <1>5, <1>6, <1>7, <1>8, NextSteps

\* The creation time a scan finds is that of the one entry which comes first.
LEMMA CreatedThen ==
  ASSUME NEW d \in Docs, NEW h \in docs[d].history, h.type = "addition",
         docs[d].history \in SUBSET Entry,
         \A g \in docs[d].history : g = h \/ h.sess < g.sess
  PROVE  CreatedAt(d) = h.at
<1> DEFINE first == {e \in docs[d].history : \A g \in docs[d].history : e.sess <= g.sess}
<1>1. \A g \in docs[d].history : g.sess \in Nat
  BY DEF Entry
<1>2. first = {h}
  BY <1>1
<1>3. CreatedAt(d) = IF \E e \in first : e.type = "addition"
                     THEN (CHOOSE e \in first : TRUE).at ELSE 0
  BY DEF CreatedAt
<1> HIDE DEF first
<1>4. (CHOOSE e \in first : TRUE) = h
  BY <1>2
<1> QED BY <1>2, <1>3, <1>4

\* What a step that mints by time covers.
CoverStep ==
  \A r \in DOMAIN reviews' \ DOMAIN reviews : reviews'[r].route = "since" =>
    \A d \in Docs : ~Archived(d) /\ LinesOf(wal, d) = {} =>
      /\ changed[d] >= reviews'[r].of => d \in reviews'[r].touched
      /\ born[d] >= reviews'[r].of => d \in reviews'[r].filed["addition"]

LEMMA SinceScans ==
  ASSUME ReviewInv, TimesInv, NEW t \in 1..now, NEW d \in Docs, ~Archived(d),
         LinesOf(wal, d) = {}
  PROVE  /\ changed[d] >= t => d \in TouchedSince(t)
         /\ born[d] >= t => d \in BodySince(t)["addition"]
<1>1. ChangeKept(d) /\ BirthKept(d) /\ d \in DocIds
  BY DEF TimesInv, Docs
<1>2. /\ changed[d] \in Nat /\ born[d] \in Nat /\ t \in Nat /\ t >= 1
      /\ docs[d].history \in SUBSET Entry
  BY <1>1, DocKinds DEF TimesInv, ReviewInv, CountsInv
<1>3. ASSUME changed[d] >= t PROVE d \in TouchedSince(t)
  <2>1. PICK h \in docs[d].history : h.at >= changed[d]
    BY <1>1, <1>2, <1>3 DEF ChangeKept
  <2>2. h.at \in Nat
    BY <1>2 DEF Entry
  <2>3. h.at >= t
    BY <1>2, <1>3, <2>1, <2>2
  <2> QED BY <2>3 DEF TouchedSince
<1>4. ASSUME born[d] >= t PROVE d \in BodySince(t)["addition"]
  <2>1. PICK h \in docs[d].history :
          /\ h.type = "addition" /\ h.at >= born[d]
          /\ \A g \in docs[d].history : g = h \/ h.sess < g.sess
    BY <1>1 DEF BirthKept
  <2>2. h.at \in Nat
    BY <1>2 DEF Entry
  <2>3. CreatedAt(d) = h.at
    BY <1>2, <2>1, CreatedThen
  <2>4. CreatedAt(d) >= t
    BY <1>2, <1>4, <2>1, <2>2, <2>3
  <2>5. BodySince(t)["addition"] = {e \in Docs : CreatedAt(e) >= t /\ ~Archived(e)}
    BY DEF BodySince, Unfiled, Sections
  <2> QED BY <2>4, <2>5
<1> QED BY <1>3, <1>4

LEMMA Covers ==
  ASSUME ReviewInv, TimesInv, [Next]_vars
  PROVE  CoverStep
<1>1. ASSUME reviews' = reviews PROVE CoverStep
  BY <1>1 DEF CoverStep
<1>2. ASSUME NEW d \in DocIds, Command(d) PROVE CoverStep
  BY <1>1, <1>2, CommandFacts DEF OneLine
<1>3. ASSUME NEW d \in DocIds, Archive(d) PROVE CoverStep
  BY <1>1, <1>3 DEF Archive
<1>4. CASE Close
  <2>1. PICK x \in Review : Adds(x) /\ x.route = "wal"
    BY <1>4, CloseMints
  <2>2. \A r \in DOMAIN reviews' \ DOMAIN reviews : reviews'[r].route = "wal"
    BY <2>1 DEF Adds
  <2> QED BY <2>2 DEF CoverStep
<1>5. CASE Minting
  <2>1. PICK route \in {"since", "session", "touched", "summary"}, of \in Nat, touched \in SUBSET Docs :
          Mints(route, of, touched) /\ (route = "since" => of \in 1..now
                                                           /\ touched = TouchedSince(of))
    BY <1>5, MintingMints
  <2>2. PICK x \in Review :
          /\ Adds(x) /\ x.route = route /\ x.of = of /\ x.touched = touched
          /\ route = "since" => x.filed = BodySince(of)
          /\ route # "summary" => \E f \in [touched -> Sections] : x.filed = Filing(f)
    BY <2>1 DEF Mints
  <2>3. \A r \in DOMAIN reviews' \ DOMAIN reviews : reviews'[r] = x
    BY <2>2 DEF Adds
  <2>4. CASE route # "since"
    BY <2>2, <2>3, <2>4 DEF CoverStep
  <2>5. CASE route = "since"
    <3>1. /\ of \in 1..now /\ x.of = of /\ x.touched = TouchedSince(of)
          /\ x.filed = BodySince(of)
      BY <2>1, <2>2, <2>5
    <3>2. \A d \in Docs : ~Archived(d) /\ LinesOf(wal, d) = {} =>
            /\ changed[d] >= of => d \in TouchedSince(of)
            /\ born[d] >= of => d \in BodySince(of)["addition"]
      BY <3>1, SinceScans
    <3> QED BY <2>3, <3>1, <3>2 DEF CoverStep
  <2> QED BY <2>4, <2>5
<1>6. ASSUME NEW p \in Signers, SignWrite(p) PROVE CoverStep
  BY <1>6, SignWriteChanges DEF CoverStep
<1>7. ASSUME NEW p \in Signers, NEW r \in DOMAIN reviews, SignRead(p, r) PROVE CoverStep
  BY <1>1, <1>7 DEF SignRead
<1>8. CASE UNCHANGED vars
  BY <1>1, <1>8 DEF vars
<1> QED BY <1>2, <1>3, <1>4, <1>5, <1>6, <1>7, <1>8, NextSteps

\* A review by time touches every document that a command had changed and logged
\* in that time, whichever session it was in and whatever came between, and has
\* every document created then among its additions, unless it waits in the open
\* session or is a snapshot.
THEOREM SinceCoversHolds == Spec => SinceCovers
<1>1. ReviewInv /\ TimesInv /\ [Next]_vars => [CoverStep]_vars
  BY Covers
<1>2. ReviewInv /\ GrowthInv /\ TimesInv /\ [Next]_vars => (ReviewInv /\ GrowthInv /\ TimesInv)'
  BY ReviewStep, GrowthStep, TimesStep DEF GrowthInv
<1> QED BY <1>1, <1>2, ReviewInit, GrowthInit, TimesInit, PTL DEF Spec, SinceCovers, CoverStep
==============================================================================
