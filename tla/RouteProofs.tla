---------------------------- MODULE RouteProofs ----------------------------
(***************************************************************************)
(* The safety of predict_route for every snapshot, every fleet and every   *)
(* alighting fraction: types, capacities and the skipping of stops; that   *)
(* every vehicle and every stop is accounted for; that nobody is lost      *)
(* between a queue and the buses; and that the alert reports those who are *)
(* left behind.  And the safety of the snapshots it starts from, for every *)
(* timetable and feed: no vehicle goes back, and the routes that compete   *)
(* for a stop split its queue.                                             *)
(***************************************************************************)
EXTENDS RouteAlert, TripFeed, FiniteSetTheorems, TLAPS

(* Sums and maxima over finite sets.  What a fold computes is proved by    *)
(* taking a minimal counterexample: the subsets of a finite set are well   *)
(* founded.                                                                *)

(* Every non-empty family of subsets of a finite set has a minimal member. *)
LEMMA MinimalSubset ==
    ASSUME NEW S, IsFiniteSet(S), NEW C \in SUBSET SUBSET S, C # {}
    PROVE  \E M \in C : \A U \in C : U \subseteq M => U = M
<1>1. IsWellFoundedOn(StrictSubsetOrdering(S), SUBSET S)
  BY FS_FiniteSubsetsOfFinite, FS_StrictSubsetOrderingWellFounded
<1>2. \E M \in C : \A U \in C : ~ (<<U, M>> \in StrictSubsetOrdering(S))
  BY <1>1, WFMin
<1> QED BY <1>2 DEF StrictSubsetOrdering

(* Every non-empty set of natural numbers has a least element.             *)
LEMMA LeastNatural ==
    ASSUME NEW C \in SUBSET Nat, C # {}
    PROVE  \E m \in C : \A n \in C : m <= n
<1> DEFINE less == OpToRel(<, Nat)
<1>1. IsWellFoundedOn(less, Nat)
  BY NatLessThanWellFounded
<1>2. \A n, m \in Nat : n < m => <<n, m>> \in less
  BY Zenon DEF OpToRel
<1> HIDE DEF less
<1>3. PICK m \in C : \A n \in C : ~ (<<n, m>> \in less)
  BY <1>1, WFMin
<1>4. \A n \in C : ~ (n < m)
  BY <1>2, <1>3
<1> QED BY <1>4

(* The element a fold takes out of a set.                                  *)
Pick(s) == CHOOSE x \in s : TRUE

(* The two folds of the models.                                            *)
Combine(op, x, y) == IF op = "sum" THEN x + y ELSE x * y
Base(op) == IF op = "sum" THEN 0 ELSE 1

(* g is the fold of fun over the sets of D.                                *)
Unfolds(op, g, fun, D) ==
    g = [s \in D |-> IF s = {} THEN Base(op)
                     ELSE Combine(op, fun[Pick(s)], g[s \ {Pick(s)}])]

ProductOnSet(fun, S) == FoldFunctionOnSet(LAMBDA x, y : x * y, 1, fun, S)

FoldOnSet(op, fun, S) ==
    IF op = "sum" THEN SumFunctionOnSet(fun, S) ELSE ProductOnSet(fun, S)

(* They are defined by such a function, if there is one.                   *)
LEMMA FoldIsChosen ==
    ASSUME NEW op \in {"sum", "product"}, NEW fun, NEW S
    PROVE  FoldOnSet(op, fun, S) = (CHOOSE g : Unfolds(op, g, fun, SUBSET S))[S]
<1>1. CASE op = "sum"
  BY <1>1 DEF FoldOnSet, SumFunctionOnSet, FoldFunctionOnSet, MapThenFoldSet, Unfolds, Pick,
              Combine, Base
<1>2. CASE op = "product"
  BY <1>2 DEF FoldOnSet, ProductOnSet, FoldFunctionOnSet, MapThenFoldSet, Unfolds, Pick,
              Combine, Base
<1> QED BY <1>1, <1>2

UpTo(S, n) == {T \in SUBSET S : Cardinality(T) <= n}

(* Taking the element out makes the set smaller by one.                    *)
LEMMA PickFacts ==
    ASSUME NEW S, IsFiniteSet(S), NEW T \in SUBSET S, T # {}
    PROVE  /\ Pick(T) \in T
           /\ IsFiniteSet(T) /\ Cardinality(T) \in Nat \ {0}
           /\ T \ {Pick(T)} \in SUBSET S
           /\ Cardinality(T \ {Pick(T)}) = Cardinality(T) - 1
<1>1. Pick(T) \in T
  BY DEF Pick
<1>2. IsFiniteSet(T)
  BY FS_Subset
<1>3. Cardinality(T) \in Nat /\ Cardinality(T) # 0
  BY <1>2, FS_CardinalityType, FS_EmptySet
<1> QED BY <1>1, <1>2, <1>3, FS_RemoveElement

(* The fold exists: it does over the subsets of at most n elements, for    *)
(* every n.                                                                *)
LEMMA FoldExists ==
    ASSUME NEW op \in {"sum", "product"}, NEW fun, NEW S, IsFiniteSet(S)
    PROVE  \E g : Unfolds(op, g, fun, SUBSET S)
<1> DEFINE bad == {n \in Nat : ~ \E g : Unfolds(op, g, fun, UpTo(S, n))}
<1>1. bad = {}
  <2> SUFFICES ASSUME bad # {} PROVE FALSE
    OBVIOUS
  <2>1. PICK m \in bad : \A n \in bad : m <= n
    <3>1. bad \in SUBSET Nat
      OBVIOUS
    <3> HIDE DEF bad
    <3> QED BY <3>1, LeastNatural
  <2>2. CASE m = 0
    <3>1. \A T \in UpTo(S, 0) : T = {}
      BY FS_Subset, FS_EmptySet, FS_CardinalityType DEF UpTo
    <3> DEFINE g == [s \in UpTo(S, 0) |-> Base(op)]
    <3>2. Unfolds(op, g, fun, UpTo(S, 0))
      BY <3>1 DEF Unfolds
    <3> QED BY <2>2, <3>2
  <2>3. CASE m # 0
    <3>1. m \in Nat /\ m - 1 \in Nat /\ m - 1 \notin bad
      BY <2>1, <2>3
    <3>2. PICK g : Unfolds(op, g, fun, UpTo(S, m - 1))
      BY <3>1
    <3> DEFINE h == [s \in UpTo(S, m) |->
                        IF s = {} THEN Base(op)
                        ELSE Combine(op, fun[Pick(s)], g[s \ {Pick(s)}])]
    <3>3. \A T \in UpTo(S, m - 1) :
              g[T] = IF T = {} THEN Base(op) ELSE Combine(op, fun[Pick(T)], g[T \ {Pick(T)}])
      BY <3>2 DEF Unfolds
    <3>5. \A T \in UpTo(S, m) : T # {} => T \ {Pick(T)} \in UpTo(S, m - 1)
      BY PickFacts, <3>1 DEF UpTo
    <3>4. \A T \in UpTo(S, m - 1) : T \in UpTo(S, m) /\ h[T] = g[T]
      <4> SUFFICES ASSUME NEW T \in UpTo(S, m - 1)
                   PROVE  T \in UpTo(S, m) /\ h[T] = g[T]
        OBVIOUS
      <4>1. Cardinality(T) \in Nat
        BY FS_Subset, FS_CardinalityType DEF UpTo
      <4>2. T \in UpTo(S, m)
        BY <3>1, <4>1 DEF UpTo
      <4> QED BY <3>3, <4>2
    <3>6. Unfolds(op, h, fun, UpTo(S, m))
      BY <3>4, <3>5 DEF Unfolds
    <3> QED BY <2>1, <3>6
  <2> QED BY <2>2, <2>3
<1>2. Cardinality(S) \in Nat /\ UpTo(S, Cardinality(S)) = SUBSET S
  BY FS_CardinalityType, FS_Subset DEF UpTo
<1>3. PICK n \in Nat : n = Cardinality(S)
  BY <1>2
<1>4. \E g : Unfolds(op, g, fun, UpTo(S, n))
  BY <1>1
<1> QED BY <1>2, <1>3, <1>4

(* Hence the fold over S is the value of a fold over the subsets of S.     *)
LEMMA FoldFacts ==
    ASSUME NEW op \in {"sum", "product"}, NEW fun, NEW S, IsFiniteSet(S)
    PROVE  \E g : /\ Unfolds(op, g, fun, SUBSET S)
                  /\ FoldOnSet(op, fun, S) = g[S]
<1>1. PICK g : g = CHOOSE h : Unfolds(op, h, fun, SUBSET S)
  OBVIOUS
<1>2. \E h : Unfolds(op, h, fun, SUBSET S)
  BY FoldExists
<1>3. Unfolds(op, g, fun, SUBSET S)
  BY <1>1, <1>2, Zenon
<1>4. FoldOnSet(op, fun, S) = (CHOOSE h : Unfolds(op, h, fun, SUBSET S))[S]
  BY FoldIsChosen
<1>5. FoldOnSet(op, fun, S) = g[S]
  BY <1>1, <1>4, Zenon
<1> QED BY <1>3, <1>5

FoldOf(op, g, f, S) == Unfolds(op, g, f, SUBSET S)

Agree(e, f, T) == \A x \in T : e[x] = f[x]

(* The fold does not look beyond the set.                                  *)
LEMMA FoldAgrees ==
    ASSUME NEW op, NEW S, NEW T, NEW e, NEW f, NEW g, NEW h, NEW A,
           FoldOf(op, g, e, S), FoldOf(op, h, f, T), Agree(e, f, T),
           IsFiniteSet(S), T \in SUBSET S, A \in SUBSET T
    PROVE  g[A] = h[A]
<1> DEFINE bad == {U \in SUBSET T : g[U] # h[U]}
<1> SUFFICES ASSUME bad # {} PROVE FALSE
  OBVIOUS
<1>0. IsFiniteSet(T)
  BY FS_Subset
<1>1. PICK M \in bad : \A U \in bad : U \subseteq M => U = M
  <2>1. bad \in SUBSET SUBSET T
    OBVIOUS
  <2> HIDE DEF bad
  <2> QED BY <1>0, <2>1, MinimalSubset
<1>2. M \in SUBSET T /\ M \in SUBSET S /\ g[M] # h[M]
  OBVIOUS
<1>3. CASE M = {}
  BY <1>2, <1>3 DEF FoldOf, Unfolds
<1>4. CASE M # {}
  <2>1. Pick(M) \in M /\ M \ {Pick(M)} \in SUBSET T
    BY <1>0, <1>2, <1>4, PickFacts
  <2>2. g[M \ {Pick(M)}] = h[M \ {Pick(M)}]
    BY <1>1, <2>1
  <2>3. /\ g[M] = Combine(op, e[Pick(M)], g[M \ {Pick(M)}])
        /\ h[M] = Combine(op, f[Pick(M)], h[M \ {Pick(M)}])
    BY <1>2, <1>4 DEF FoldOf, Unfolds
  <2> QED BY <1>2, <2>1, <2>2, <2>3 DEF Agree
<1> QED BY <1>3, <1>4

Terms(f, S, V) == \A x \in S : f[x] \in V
Closed(op, V) == Base(op) \in V /\ \A a, b \in V : Combine(op, a, b) \in V

(* A fold stays in a set that its operation does not leave.                *)
LEMMA FoldType ==
    ASSUME NEW op, NEW V, NEW S, NEW f, NEW g,
           FoldOf(op, g, f, S), Terms(f, S, V), IsFiniteSet(S), Closed(op, V)
    PROVE  \A U \in SUBSET S : g[U] \in V
<1> DEFINE bad == {U \in SUBSET S : g[U] \notin V}
<1> SUFFICES ASSUME bad # {} PROVE FALSE
  OBVIOUS
<1>1. PICK M \in bad : \A U \in bad : U \subseteq M => U = M
  <2>1. bad \in SUBSET SUBSET S
    OBVIOUS
  <2> HIDE DEF bad
  <2> QED BY <2>1, MinimalSubset
<1>2. M \in SUBSET S /\ g[M] \notin V
  OBVIOUS
<1>3. CASE M = {}
  BY <1>2, <1>3 DEF FoldOf, Unfolds, Closed
<1>4. CASE M # {}
  <2>1. Pick(M) \in M /\ M \ {Pick(M)} \in SUBSET S
    BY <1>2, <1>4, PickFacts
  <2>2. g[M \ {Pick(M)}] \in V
    BY <1>1, <2>1
  <2>3. g[M] = Combine(op, f[Pick(M)], g[M \ {Pick(M)}])
    BY <1>2, <1>4 DEF FoldOf, Unfolds
  <2> QED BY <1>2, <2>1, <2>2, <2>3 DEF Closed, Terms
<1> QED BY <1>3, <1>4

FoldData(op, g, f, S, V) ==
    /\ FoldOf(op, g, f, S) /\ Terms(f, S, V) /\ IsFiniteSet(S)
    /\ V \subseteq Int /\ Closed(op, V)

Within(a, A, S) == A \in SUBSET S /\ a \in A

Removes(op, g, f, A, a) == g[A] = Combine(op, f[a], g[A \ {a}])

(* The order of the fold does not matter: any element can go first.        *)
LEMMA FoldRemoves ==
    ASSUME NEW op, NEW V, NEW S, NEW f, NEW g, NEW A, NEW a,
           FoldData(op, g, f, S, V), Within(a, A, S)
    PROVE  Removes(op, g, f, A, a)
<1>0. /\ FoldOf(op, g, f, S) /\ Terms(f, S, V) /\ IsFiniteSet(S)
      /\ V \subseteq Int /\ Closed(op, V) /\ A \in SUBSET S /\ a \in A
  BY DEF FoldData, Within
<1> DEFINE bad == {U \in SUBSET S : \E z \in U : g[U] # Combine(op, f[z], g[U \ {z}])}
<1> SUFFICES ASSUME bad # {} PROVE FALSE
  BY <1>0 DEF Removes
<1>1. PICK M \in bad : \A U \in bad : U \subseteq M => U = M
  <2>1. bad \in SUBSET SUBSET S
    OBVIOUS
  <2> HIDE DEF bad
  <2> QED BY <1>0, <2>1, MinimalSubset
<1>2. M \in SUBSET S
  OBVIOUS
<1>3. PICK z \in M : g[M] # Combine(op, f[z], g[M \ {z}])
  OBVIOUS
<1>6. PICK y \in M : y = Pick(M)
  BY <1>0, <1>2, <1>3, PickFacts
<1>4. g[M] = Combine(op, f[y], g[M \ {y}])
  BY <1>0, <1>2, <1>3, <1>6 DEF FoldOf, Unfolds
<1>5. y # z
  BY <1>3, <1>4
<1>7. g[M \ {y}] = Combine(op, f[z], g[(M \ {y}) \ {z}])
  <2>1. M \ {y} \in SUBSET S /\ M \ {y} \subseteq M /\ M \ {y} # M /\ z \in M \ {y}
    BY <1>2, <1>5, <1>3
  <2> QED BY <1>1, <2>1
<1>8. g[M \ {z}] = Combine(op, f[y], g[(M \ {z}) \ {y}])
  <2>1. M \ {z} \in SUBSET S /\ M \ {z} \subseteq M /\ M \ {z} # M /\ y \in M \ {z}
    BY <1>2, <1>5, <1>3
  <2> QED BY <1>1, <2>1
<1>9. (M \ {z}) \ {y} = (M \ {y}) \ {z}
  OBVIOUS
<1>10. PICK r \in V : r = g[(M \ {y}) \ {z}]
  <2>1. (M \ {y}) \ {z} \in SUBSET S
    BY <1>2
  <2> QED BY <1>0, <2>1, FoldType
<1>11. PICK m \in V, n \in V : m = f[y] /\ n = f[z]
  BY <1>0, <1>2 DEF Terms
<1>12. g[M] = Combine(op, m, Combine(op, n, r)) /\ g[M \ {z}] = Combine(op, m, r)
  BY <1>4, <1>7, <1>8, <1>9, <1>10, <1>11
<1>13. Combine(op, m, Combine(op, n, r)) = Combine(op, n, Combine(op, m, r))
  <2>1. m \in Int /\ n \in Int /\ r \in Int
    BY <1>0, <1>10, <1>11
  <2>2. m + (n + r) = n + (m + r)
    BY <2>1
  <2>3. m * (n * r) = n * (m * r)
    BY <2>1
  <2> QED BY <2>2, <2>3 DEF Combine
<1> QED BY <1>3, <1>11, <1>12, <1>13

FoldLaws(op, V, S, f) ==
    /\ FoldOnSet(op, f, S) \in V
    /\ S = {} => FoldOnSet(op, f, S) = Base(op)
    /\ \A z \in S : FoldOnSet(op, f, S) = Combine(op, f[z], FoldOnSet(op, f, S \ {z}))

(* Any element can be taken out of a fold.                                 *)
LEMMA FoldOnSetFacts ==
    ASSUME NEW op, NEW V, NEW S, NEW f,
           Terms(f, S, V), IsFiniteSet(S),
           op \in {"sum", "product"}, V \subseteq Int, Closed(op, V)
    PROVE  FoldLaws(op, V, S, f)
<1>1. PICK g : FoldOf(op, g, f, S) /\ FoldOnSet(op, f, S) = g[S]
  BY FoldFacts DEF FoldOf
<1>2. FoldOnSet(op, f, S) \in V
  BY <1>1, FoldType
<1>3. S = {} => FoldOnSet(op, f, S) = Base(op)
  BY <1>1 DEF FoldOf, Unfolds
<1>4. ASSUME NEW z \in S
      PROVE  FoldOnSet(op, f, S) = Combine(op, f[z], FoldOnSet(op, f, S \ {z}))
  <2>1. IsFiniteSet(S \ {z}) /\ S \ {z} \in SUBSET S
    BY FS_RemoveElement
  <2>2. PICK h : FoldOf(op, h, f, (S \ {z})) /\ FoldOnSet(op, f, S \ {z}) = h[S \ {z}]
    BY <2>1, FoldFacts DEF FoldOf
  <2>3. g[S \ {z}] = h[S \ {z}]
    <3>1. PICK A \in SUBSET (S \ {z}) : A = S \ {z}
      OBVIOUS
    <3>2. FoldOf(op, h, f, A) /\ A \in SUBSET S /\ Agree(f, f, A)
      BY <2>1, <2>2, <3>1 DEF Agree
    <3>4. PICK B \in SUBSET A : B = A
      OBVIOUS
    <3>5. FoldOf(op, g, f, S) /\ IsFiniteSet(S)
      BY <1>1
    <3>3. g[B] = h[B]
      BY <3>2, <3>4, <3>5, FoldAgrees
    <3> QED BY <3>1, <3>3, <3>4
  <2>4. g[S] = Combine(op, f[z], g[S \ {z}])
    <3>1. PICK A \in SUBSET S : A = S
      OBVIOUS
    <3>2. PICK a \in A : a = z
      BY <3>1
    <3>4. FoldData(op, g, f, S, V)
      BY <1>1 DEF FoldData
    <3>5. Within(a, A, S)
      BY <3>2 DEF Within
    <3>3. Removes(op, g, f, A, a)
      BY <3>4, <3>5, FoldRemoves
    <3> QED BY <3>1, <3>2, <3>3 DEF Removes
  <2> QED BY <1>1, <2>2, <2>3, <2>4
<1> QED BY <1>2, <1>3, <1>4 DEF FoldLaws

(* What a sum over a finite set is: an integer, 0 over the empty set, and  *)
(* any term can be taken out.                                              *)
LEMMA SumFacts ==
    ASSUME NEW S, IsFiniteSet(S), NEW f, \A x \in S : f[x] \in Int
    PROVE  /\ SumFunctionOnSet(f, S) \in Int
           /\ (\A x \in S : f[x] \in Nat) => SumFunctionOnSet(f, S) \in Nat
           /\ S = {} => SumFunctionOnSet(f, S) = 0
           /\ \A z \in S : SumFunctionOnSet(f, S) = f[z] + SumFunctionOnSet(f, S \ {z})
<1>1. PICK op \in {"sum", "product"} : op = "sum"
  OBVIOUS
<1>2. PICK V, W : V = Int /\ W = Nat
  OBVIOUS
<1>3. V \subseteq Int /\ W \subseteq Int /\ Closed(op, V) /\ Closed(op, W)
  BY <1>1, <1>2 DEF Closed, Combine, Base
<1>4. \A A : FoldOnSet(op, f, A) = SumFunctionOnSet(f, A)
  BY <1>1 DEF FoldOnSet
<1>5. \A a, b : Combine(op, a, b) = a + b
  BY <1>1 DEF Combine
<1>6. Base(op) = 0
  BY <1>1 DEF Base
<1>7. FoldLaws(op, V, S, f)
  <2>1. Terms(f, S, V)
    BY <1>2 DEF Terms
  <2> QED BY <1>3, <2>1, FoldOnSetFacts
<1>8. ASSUME \A x \in S : f[x] \in W PROVE FoldLaws(op, W, S, f)
  <2>1. Terms(f, S, W)
    BY <1>8 DEF Terms
  <2> QED BY <1>3, <2>1, FoldOnSetFacts
<1> QED BY <1>2, <1>4, <1>5, <1>6, <1>7, <1>8 DEF FoldLaws

(* The product of positive numbers is positive, and any factor can be      *)
(* taken out.                                                              *)
LEMMA ProductFacts ==
    ASSUME NEW S, IsFiniteSet(S), NEW f, \A x \in S : f[x] \in Nat \ {0}
    PROVE  /\ ProductOnSet(f, S) \in Nat \ {0}
           /\ \A z \in S : ProductOnSet(f, S) = f[z] * ProductOnSet(f, S \ {z})
<1>1. PICK op \in {"sum", "product"} : op = "product"
  OBVIOUS
<1>2. PICK V : V = Nat \ {0}
  OBVIOUS
<1>3. V \subseteq Int /\ Closed(op, V)
  <2>1. \A a, b \in Nat \ {0} : a * b \in Nat \ {0}
    OBVIOUS
  <2> QED BY <1>1, <1>2, <2>1 DEF Closed, Combine, Base
<1>4. \A A : FoldOnSet(op, f, A) = ProductOnSet(f, A)
  BY <1>1 DEF FoldOnSet
<1>5. \A a, b : Combine(op, a, b) = a * b
  BY <1>1 DEF Combine
<1>6. FoldLaws(op, V, S, f)
  <2>1. Terms(f, S, V)
    BY <1>2 DEF Terms
  <2> QED BY <1>3, <2>1, FoldOnSetFacts
<1> QED BY <1>2, <1>4, <1>5, <1>6 DEF FoldLaws

(* Sums of the same terms are equal.                                       *)
LEMMA SumAgrees ==
    ASSUME NEW S, IsFiniteSet(S), NEW e, NEW f, Agree(e, f, S)
    PROVE  SumFunctionOnSet(e, S) = SumFunctionOnSet(f, S)
<1>0. PICK op \in {"sum", "product"} : op = "sum"
  OBVIOUS
<1>1. PICK g : FoldOf(op, g, e, S) /\ FoldOnSet(op, e, S) = g[S]
  BY FoldFacts DEF FoldOf
<1>2. PICK h : FoldOf(op, h, f, S) /\ FoldOnSet(op, f, S) = h[S]
  BY FoldFacts DEF FoldOf
<1>3. PICK A \in SUBSET S, B \in SUBSET S : A = S /\ B = S
  OBVIOUS
<1>4. g[B] = h[B]
  <2>1. FoldOf(op, h, f, A) /\ B \in SUBSET A /\ Agree(e, f, A)
    BY <1>2, <1>3
  <2>2. FoldOf(op, g, e, S) /\ IsFiniteSet(S) /\ A \in SUBSET S
    BY <1>1
  <2> QED BY <2>1, <2>2, FoldAgrees
<1>5. FoldOnSet(op, e, S) = FoldOnSet(op, f, S)
  BY <1>1, <1>2, <1>3, <1>4
<1> QED BY <1>0, <1>5 DEF FoldOnSet

(* A sum over a set and one element more.                                  *)
LEMMA SumAdds ==
    ASSUME NEW S, IsFiniteSet(S), NEW z, z \notin S,
           NEW f, \A x \in S \cup {z} : f[x] \in Int
    PROVE  SumFunctionOnSet(f, S \cup {z}) = f[z] + SumFunctionOnSet(f, S)
<1>1. IsFiniteSet(S \cup {z}) /\ (S \cup {z}) \ {z} = S
  BY FS_AddElement
<1> QED BY <1>1, SumFacts

Orders(R, S) ==
    /\ \A x, y \in S : x = y \/ <<x, y>> \in R \/ <<y, x>> \in R
    /\ \A x, y, z \in S : <<x, y>> \in R /\ <<y, z>> \in R => <<x, z>> \in R

(* A finite set with a total order has a first element.                    *)
LEMMA FirstExists ==
    ASSUME NEW S, IsFiniteSet(S), S # {}, NEW R, Orders(R, S)
    PROVE  \E x \in S : \A y \in S : y # x => <<x, y>> \in R
<1> DEFINE bad == {U \in SUBSET S : /\ U # {}
                                    /\ ~ \E x \in U : \A y \in U : y # x => <<x, y>> \in R}
<1> SUFFICES ASSUME bad # {} PROVE FALSE
  OBVIOUS
<1>1. PICK M \in bad : \A U \in bad : U \subseteq M => U = M
  <2>1. bad \in SUBSET SUBSET S
    OBVIOUS
  <2> HIDE DEF bad
  <2> QED BY <2>1, MinimalSubset
<1>2. /\ M \in SUBSET S /\ M # {}
      /\ ~ \E x \in M : \A y \in M : y # x => <<x, y>> \in R
  OBVIOUS
<1>3. PICK a \in M : TRUE
  BY <1>2
<1>4. M \ {a} # {}
  BY <1>2
<1>5. PICK x \in M \ {a} : \A y \in M \ {a} : y # x => <<x, y>> \in R
  <2>1. M \ {a} \in SUBSET S /\ M \ {a} \subseteq M /\ M \ {a} # M
    BY <1>2
  <2>2. M \ {a} \notin bad
    BY <1>1, <2>1
  <2> QED BY <1>4, <2>1, <2>2
<1>6. CASE <<a, x>> \in R
  <2>1. \A y \in M : y # a => <<a, y>> \in R
    BY <1>2, <1>5, <1>6 DEF Orders
  <2> QED BY <1>2, <2>1
<1>7. CASE <<x, a>> \in R
  <2>1. \A y \in M : y # x => <<x, y>> \in R
    BY <1>5, <1>7
  <2> QED BY <1>2, <2>1
<1> QED BY <1>2, <1>5, <1>6, <1>7 DEF Orders

(* The maximum of a finite non-empty set of integers.                      *)
LEMMA MaxFacts ==
    ASSUME NEW S \in SUBSET Int, IsFiniteSet(S), S # {}
    PROVE  Max(S) \in S /\ \A y \in S : y <= Max(S)
<1> DEFINE R == {p \in S \X S : p[1] > p[2]}
<1>1. \A x, y \in S : <<x, y>> \in R <=> x > y
  OBVIOUS
<1>2. Orders(R, S)
  BY <1>1 DEF Orders
<1> HIDE DEF R
<1>3. PICK x \in S : \A y \in S : y # x => <<x, y>> \in R
  BY <1>2, FirstExists
<1>4. \A y \in S : y = x \/ x > y
  BY <1>1, <1>3
<1>5. \A y \in S : x >= y
  BY <1>4
<1> QED BY <1>5 DEF Max

-----------------------------------------------------------------------------
(* What the arithmetic of one stop guarantees.                             *)

(* Python's round() of a non-negative quotient is a natural number.        *)
LEMMA RoundType ==
    ASSUME NEW n \in Nat, NEW d \in Nat \ {0}
    PROVE  Round(n, d) \in Nat
<1>1. n \div d \in Nat /\ n % d \in Nat
  OBVIOUS
<1> QED BY <1>1 DEF Round

(* The clamp min(alight, load): no more passengers alight than are aboard. *)
LEMMA AlightBounds ==
    ASSUME NEW onboard \in Nat
    PROVE  Alight(onboard) \in 0 .. onboard
<1>1. onboard * AlightNum \in Nat
  BY FractionAssumption
<1>2. Round(onboard * AlightNum, AlightDen) \in Nat
  BY <1>1, RoundType, FractionAssumption
<1> QED BY <1>2 DEF Alight, Least

(* Boarding takes no more than the queue, and leaves either an empty queue *)
(* or a vehicle that is full.                                              *)
LEMMA BoardBounds ==
    ASSUME NEW left \in Nat, NEW capacity \in Int, NEW onboard \in Nat
    PROVE  /\ Board(left, capacity, onboard) \in 0 .. left
           /\ onboard + Board(left, capacity, onboard) <= Greatest(capacity, onboard)
           /\ left - Board(left, capacity, onboard) > 0
                => onboard + Board(left, capacity, onboard) >= capacity
BY DEF Board, Least, Greatest

-----------------------------------------------------------------------------
(* The inductive invariant.  LoadBound needs the load of the vehicle under *)
(* way to be bounded as well; FrontFirst needs NoStrandedWithRoom and that *)
(* vehicles are simulated in the order of the sort: whoever has boarded    *)
(* sorts before the vehicle under way, and both before every pending one.  *)

(* No stop sequence is None once the vehicles have been sorted.            *)
Sorted == phase \in {"vehicle", "stop"} =>
              \A v \in Vehicles : snapshot.vehicles[v].seq \in Int

Untouched == phase = "start" => stopPreds = {}

CurLoadBound ==
    phase = "stop" => load <= Greatest(Capacity(cur),
                                       snapshot.vehicles[cur].passengers)

InOrder ==
    /\ phase \in {"vehicle", "stop"} =>
          \A p \in stopPreds, w \in pending : SortsBefore(p.vehicle, w)
    /\ phase = "stop" =>
          /\ \A w \in pending : SortsBefore(cur, w)
          /\ \A p \in stopPreds : p.vehicle = cur \/ SortsBefore(p.vehicle, cur)

IInv ==
    /\ TypeOK
    /\ Sorted
    /\ Untouched
    /\ CurLoadBound
    /\ LoadBound
    /\ NoStrandedWithRoom
    /\ InOrder
    /\ FrontFirst

(* A call starts with nothing predicted.                                   *)
LEMMA InitIInv == Init => IInv
BY DEF Init, IInv, TypeOK, Sorted, Untouched, CurLoadBound, LoadBound,
       NoStrandedWithRoom, InOrder, FrontFirst

(* What the assumption on the snapshots says of the one being simulated.   *)
LEMMA SnapshotFacts ==
    ASSUME snapshot \in Snapshots
    PROVE  /\ N \in Nat
           /\ \A k \in Stops : Waiting(k) \in Nat
           /\ Vehicles \subseteq Nat
           /\ \A v \in Vehicles :
                 /\ snapshot.vehicles[v] \in VehicleSnapshot
                 /\ Capacity(v) \in Int
                 /\ snapshot.vehicles[v].passengers \in Nat
                 /\ snapshot.vehicles[v].seq \in Int \cup {None}
<1>1. RouteSnapshot(snapshot)
  BY SnapshotsAssumption
<1>2. N \in Nat /\ \A k \in Stops : snapshot.stops[k] \in StopState
  BY <1>1 DEF RouteSnapshot, N, Stops
<1>3. \A k \in Stops : Waiting(k) \in Nat
  BY <1>2 DEF Waiting, StopState
<1>4. Vehicles \subseteq Nat
      /\ \A v \in Vehicles : snapshot.vehicles[v] \in VehicleSnapshot
  BY <1>1 DEF RouteSnapshot, Vehicles
<1> QED BY <1>2, <1>3, <1>4 DEF VehicleSnapshot, Capacity

(* Every step of predict_route preserves the invariant.                    *)
LEMMA StepIInv == IInv /\ [Next]_vars => IInv'
<1> SUFFICES ASSUME IInv, [Next]_vars PROVE IInv'
  OBVIOUS
<1> USE DEF IInv
<1>0. /\ N \in Nat
      /\ \A k \in Stops : Waiting(k) \in Nat
      /\ Vehicles \subseteq Nat
      /\ \A v \in Vehicles :
            /\ Capacity(v) \in Int
            /\ snapshot.vehicles[v].passengers \in Nat
            /\ snapshot.vehicles[v].seq \in Int \cup {None}
  BY SnapshotFacts DEF TypeOK
<1>s. snapshot' = snapshot
  BY DEF Next, vars, ReturnEmpty, RaiseTypeError, BuildIndexAndSort, SkipVehicle,
         StartVehicle, VisitStop, FinishVehicle, CollectStranded, Returned
<1>d. /\ N' = N /\ Stops' = Stops /\ Vehicles' = Vehicles
      /\ EndIdx' = EndIdx /\ StopPrediction' = StopPrediction
      /\ \A v : Capacity(v)' = Capacity(v)
      /\ \A v, w : SortsBefore(v, w)' = SortsBefore(v, w)
  BY <1>s DEF N, Stops, Vehicles, EndIdx, StopPrediction, Capacity, SortsBefore
<1>1. CASE ReturnEmpty
  BY <1>1, <1>s, <1>d DEF ReturnEmpty, TypeOK, Sorted, Untouched, CurLoadBound,
     LoadBound, NoStrandedWithRoom, InOrder, FrontFirst
<1>2. CASE RaiseTypeError
  BY <1>2, <1>s, <1>d DEF RaiseTypeError, TypeOK, Sorted, Untouched, CurLoadBound,
     LoadBound, NoStrandedWithRoom, InOrder, FrontFirst
<1>3. CASE BuildIndexAndSort
  BY <1>0, <1>3, <1>s, <1>d DEF BuildIndexAndSort, TypeOK, Sorted, Untouched,
     CurLoadBound, LoadBound, NoStrandedWithRoom, InOrder, FrontFirst
<1>4. ASSUME NEW v \in pending, SkipVehicle(v) PROVE IInv'
  BY <1>4, <1>s, <1>d DEF SkipVehicle, TypeOK, Sorted, Untouched, CurLoadBound,
     LoadBound, NoStrandedWithRoom, InOrder, FrontFirst
<1>5. ASSUME NEW v \in pending, StartVehicle(v) PROVE IInv'
  <2>1. TypeOK'
    BY <1>0, <1>5, <1>s, <1>d DEF StartVehicle, TypeOK
  <2>2. InOrder'
    BY <1>5, <1>s, <1>d DEF StartVehicle, IsNext, InOrder
  <2>3. CurLoadBound'
    <3>1. v \in Vehicles /\ cur' = v /\ load' = snapshot.vehicles[v].passengers
      BY <1>5 DEF StartVehicle, TypeOK
    <3>2. Capacity(v) \in Int /\ snapshot.vehicles[v].passengers \in Nat
      BY <1>0, <3>1
    <3>3. \A a \in Int, b \in Nat : b <= Greatest(a, b)
      BY DEF Greatest
    <3>4. Capacity(cur)' = Capacity(v)
      BY <1>s, <3>1 DEF Capacity
    <3> QED BY <1>s, <3>1, <3>2, <3>3, <3>4 DEF CurLoadBound
  <2> QED
    BY <1>5, <1>s, <1>d, <2>1, <2>2, <2>3 DEF StartVehicle, Sorted, Untouched,
       LoadBound, NoStrandedWithRoom, FrontFirst
<1>6. CASE VisitStop
  <2> DEFINE alighted == Alight(load)
             boarded  == Board(remaining[i], Capacity(cur), load - alighted)
             after    == load - alighted + boarded
             new      == [vehicle |-> cur, stop |-> i, passengers |-> after,
                          boarded |-> boarded, alighted |-> alighted]
  <2>1. /\ phase = "stop" /\ phase' = "stop"
        /\ i < EndIdx /\ i' = i + 1
        /\ load' = after
        /\ remaining' = [remaining EXCEPT ![i] = LeftBehind(@, boarded)]
        /\ stopPreds' = stopPreds \cup {new}
        /\ pending' = pending /\ cur' = cur
    BY <1>6 DEF VisitStop
  <2>2. /\ load \in Nat /\ i \in Stops /\ cur \in Vehicles
        /\ remaining \in [Stops -> Nat] /\ remaining[i] \in Nat
        /\ Capacity(cur) \in Int /\ snapshot.vehicles[cur].passengers \in Nat
    BY <1>0, <2>1 DEF TypeOK
  <2>3. alighted \in 0 .. load
    BY <2>2, AlightBounds
  <2>4. /\ boarded \in 0 .. remaining[i]
        /\ after <= Greatest(Capacity(cur), load - alighted)
        /\ remaining[i] - boarded > 0 => after >= Capacity(cur)
    <3>1. load - alighted \in Nat
      BY <2>2, <2>3
    <3> HIDE DEF alighted
    <3> QED BY <2>2, <3>1, BoardBounds
  <2> HIDE DEF alighted, boarded
  <2>5. /\ remaining'[i] = remaining[i] - boarded
        /\ \A k \in Stops : remaining'[k] \in Nat /\ remaining'[k] <= remaining[k]
        /\ remaining' \in [Stops -> Nat]
    BY <2>1, <2>2, <2>4 DEF LeftBehind
  <2>6. \A p \in stopPreds : /\ p.stop \in Stops /\ p.vehicle \in Vehicles
                             /\ p.passengers \in Nat /\ p.boarded \in Nat
    BY DEF TypeOK, StopPrediction
  <2>7. after \in Nat /\ new \in StopPrediction
    BY <2>2, <2>3, <2>4 DEF StopPrediction
  <2>8. TypeOK'
    <3>1. i + 1 \in Stops
      BY <1>0, <2>1, <2>2 DEF Stops, EndIdx
    <3> QED BY <1>s, <1>d, <2>1, <2>2, <2>5, <2>7, <3>1 DEF TypeOK
  <2>9. after <= Greatest(Capacity(cur), snapshot.vehicles[cur].passengers)
    BY <2>1, <2>2, <2>3, <2>4, <2>7 DEF CurLoadBound, Greatest
  <2>10. CurLoadBound' /\ LoadBound'
    BY <1>s, <1>d, <2>1, <2>9 DEF CurLoadBound, LoadBound
  <2>11. NoStrandedWithRoom'
    <3> SUFFICES ASSUME NEW p \in stopPreds', remaining'[p.stop] > 0
                 PROVE  p.passengers >= Capacity(p.vehicle)
      BY <1>d DEF NoStrandedWithRoom
    <3>1. CASE p \in stopPreds
      BY <2>2, <2>5, <2>6, <3>1 DEF NoStrandedWithRoom
    <3>2. CASE p = new
      BY <2>4, <2>5, <3>2
    <3> QED BY <2>1, <3>1, <3>2
  <2>12. InOrder'
    BY <1>d, <2>1 DEF InOrder
  <2>13. FrontFirst'
    <3> SUFFICES ASSUME NEW p \in stopPreds', NEW q \in stopPreds',
                        p.stop = q.stop, q.boarded > 0,
                        snapshot.vehicles[p.vehicle].seq
                          > snapshot.vehicles[q.vehicle].seq
                 PROVE  p.passengers >= Capacity(p.vehicle)
      BY <1>s, <1>d DEF FrontFirst
    <3>0. /\ p \in stopPreds \/ p = new
          /\ q \in stopPreds \/ q = new
      BY <2>1
    <3>1. CASE p \in stopPreds /\ q \in stopPreds
      BY <3>1 DEF FrontFirst
    <3>2. CASE p \in stopPreds /\ q = new
      BY <2>2, <2>4, <3>2 DEF NoStrandedWithRoom
    <3>3. CASE p = new
      <4>1. \A v \in Vehicles : snapshot.vehicles[v].seq \in Int
        BY <2>1 DEF Sorted
      <4>2. q.vehicle = cur \/ SortsBefore(q.vehicle, cur)
        BY <2>1, <3>0 DEF InOrder
      <4>3. q.vehicle \in Vehicles
        BY <2>2, <2>6, <3>0
      <4> QED BY <2>2, <3>3, <4>1, <4>2, <4>3 DEF SortsBefore
    <3> QED BY <3>0, <3>1, <3>2, <3>3
  <2> QED
    BY <1>s, <1>d, <2>1, <2>8, <2>10, <2>11, <2>12, <2>13 DEF Sorted, Untouched
<1>7. CASE FinishVehicle
  BY <1>7, <1>s, <1>d DEF FinishVehicle, TypeOK, Sorted, Untouched, CurLoadBound,
     LoadBound, NoStrandedWithRoom, InOrder, FrontFirst
<1>8. CASE CollectStranded
  BY <1>8, <1>s, <1>d DEF CollectStranded, TypeOK, Sorted, Untouched, CurLoadBound,
     LoadBound, NoStrandedWithRoom, InOrder, FrontFirst
<1>9. CASE UNCHANGED vars
  BY <1>9, <1>s, <1>d DEF vars, TypeOK, Sorted, Untouched, CurLoadBound,
     LoadBound, NoStrandedWithRoom, InOrder, FrontFirst
<1> QED
  BY <1>1, <1>2, <1>3, <1>4, <1>5, <1>6, <1>7, <1>8, <1>9 DEF Next, Returned

(* The queue of a stop and the load of a vehicle never go negative, for    *)
(* every snapshot and every alighting fraction.                            *)
THEOREM TypeCorrect == Spec => []TypeOK
<1>1. IInv => TypeOK
  BY DEF IInv
<1> QED BY <1>1, InitIInv, StepIInv, PTL DEF Spec

(* No vehicle is predicted to carry more than its capacity, or than it     *)
(* already carried.                                                        *)
THEOREM LoadBounded == Spec => []LoadBound
<1>1. IInv => LoadBound
  BY DEF IInv
<1> QED BY <1>1, InitIInv, StepIInv, PTL DEF Spec

(* Passengers are predicted to be stranded at a stop only if every vehicle *)
(* that serves it leaves it full.                                          *)
THEOREM StrandedOnlyWhenFull == Spec => []NoStrandedWithRoom
<1>1. IInv => NoStrandedWithRoom
  BY DEF IInv
<1> QED BY <1>1, InitIInv, StepIInv, PTL DEF Spec

(* The queue of a stop is served front to back: the sort of step 2 and the *)
(* shared array together make explicit "vehicles ahead" lookups needless.  *)
THEOREM ServedFrontToBack == Spec => []FrontFirst
<1>1. IInv => FrontFirst
  BY DEF IInv
<1> QED BY <1>1, InitIInv, StepIInv, PTL DEF Spec

-----------------------------------------------------------------------------
(* The accounting of the simulation: which vehicles it has reached, which  *)
(* stops they have been predicted at and what has become of the queues.    *)

Busy == phase \in {"vehicle", "stop"} \/ Simulated

Blank == ~Busy => stopPreds = {} /\ vehiclePreds = {}

Queued == Busy => N > 1 /\ remaining \in [Stops -> Nat]

Counted == IsFiniteSet(stopPreds) /\ IsFiniteSet(vehiclePreds)

Distinct ==
    \A p, q \in stopPreds : p.vehicle = q.vehicle /\ p.stop = q.stop => p = q

(* The stops a vehicle is predicted at are first .. last.                  *)
Span(v, first, last) ==
    /\ \A p \in PredsOf(v) : p.stop \in first .. last
    /\ \A k \in first .. last : \E p \in PredsOf(v) : p.stop = k

NotYetReached ==
    Busy => \A v \in pending : /\ \A p \in stopPreds : p.vehicle # v
                               /\ \A vp \in vehiclePreds : vp.vehicle # v

UnderWay ==
    phase = "stop" =>
        /\ cur \notin pending
        /\ \A vp \in vehiclePreds : vp.vehicle # cur
        /\ Capacity(cur) > 0
        /\ \E k \in Stops : StartsAt(cur, k) /\ k <= i /\ Span(cur, k, i - 1)

(* What a VehiclePrediction says of the StopPredictions.                   *)
Summarises(vp) ==
    /\ vp.vehicle \in Vehicles /\ Capacity(vp.vehicle) > 0
    /\ vp.peak \in Nat
    /\ \A p \in PredsOf(vp.vehicle) : p.passengers <= vp.peak
    /\ \E p \in PredsOf(vp.vehicle) : p.passengers = vp.peak
    /\ \E k \in 1 .. N - 1 :
          /\ StartsAt(vp.vehicle, k)
          /\ Span(vp.vehicle, k, N - 1)
          /\ vp.total = N - k
          /\ vp.withData = Cardinality({j \in k .. N - 1 : HasData(j)})

Summaries == \A vp \in vehiclePreds : Summarises(vp)

OneEach == \A vp, wp \in vehiclePreds : vp.vehicle = wp.vehicle => vp = wp

NoneForgotten ==
    Busy => \A v \in Vehicles : \A k \in 1 .. N - 1 :
                Capacity(v) > 0 /\ StartsAt(v, k) =>
                    \/ v \in pending
                    \/ phase = "stop" /\ v = cur
                    \/ \E vp \in vehiclePreds : vp.vehicle = v

AllReached == Simulated => pending = {}

AInv ==
    /\ IInv
    /\ Blank
    /\ Queued
    /\ Counted
    /\ Distinct
    /\ NotYetReached
    /\ UnderWay
    /\ Summaries
    /\ OneEach
    /\ NoneForgotten
    /\ AllReached

(* The balance of every queue, of all of them, and of the result.          *)
Balance ==
    Busy => \A k \in Stops :
                Waiting(k) = remaining[k] + Boarded({p \in stopPreds : p.stop = k})

TotalBalance ==
    Busy => SumFunction([k \in Stops |-> Waiting(k)]) =
                SumFunctionOnSet(remaining, Stops) + Boarded(stopPreds)

StrandedBalance ==
    Simulated => /\ SumFunction(stranded) \in Nat
                 /\ Cardinality(StopIds) = N =>
                       SumFunction(stranded) = SumFunctionOnSet(remaining, Stops)

CInv == AInv /\ Balance /\ TotalBalance /\ StrandedBalance
(* The snapshot is only read.                                              *)
LEMMA SnapshotFixed ==
    ASSUME [Next]_vars
    PROVE  /\ snapshot' = snapshot
           /\ N' = N /\ Stops' = Stops /\ Vehicles' = Vehicles
           /\ EndIdx' = EndIdx /\ StopIds' = StopIds
           /\ \A v : Capacity(v)' = Capacity(v)
           /\ \A k : Waiting(k)' = Waiting(k)
           /\ \A k : HasData(k)' = HasData(k)
           /\ \A v, k : StartsAt(v, k)' = StartsAt(v, k)
<1>1. snapshot' = snapshot
  BY DEF Next, vars, ReturnEmpty, RaiseTypeError, BuildIndexAndSort, SkipVehicle,
         StartVehicle, VisitStop, FinishVehicle, CollectStranded, Returned
<1> QED
  BY <1>1 DEF N, Stops, Vehicles, EndIdx, StopIds, Capacity, Waiting, HasData, StartsAt

(* stop_sequence is unique in a route: a vehicle starts at one stop.       *)
LEMMA StartsOnce ==
    ASSUME snapshot \in Snapshots, NEW v, NEW j, NEW k,
           StartsAt(v, j), StartsAt(v, k)
    PROVE  j = k
<1>1. RouteSnapshot(snapshot)
  BY SnapshotsAssumption
<1>2. j \in Stops /\ k \in Stops /\ j \in Int /\ k \in Int
      /\ snapshot.stops[j].sequence = snapshot.stops[k].sequence
  BY <1>1 DEF RouteSnapshot, StartsAt, Stops, N
<1>3. snapshot.stops[j].sequence \in Int /\ snapshot.stops[k].sequence \in Int
  <2>1. \A m \in Stops : snapshot.stops[m] \in StopState
    BY <1>1 DEF RouteSnapshot, Stops, N
  <2> QED BY <1>2, <2>1 DEF StopState
<1>4. /\ j < k => snapshot.stops[j].sequence < snapshot.stops[k].sequence
      /\ k < j => snapshot.stops[k].sequence < snapshot.stops[j].sequence
  BY <1>1, <1>2 DEF RouteSnapshot, Stops, N
<1> QED BY <1>2, <1>3, <1>4

(* A step that predicts nothing leaves the facts about the predictions.    *)
LEMMA PredictionsKept ==
    ASSUME AInv, [Next]_vars, UNCHANGED <<stopPreds, vehiclePreds>>
    PROVE  /\ Counted' /\ Distinct' /\ Summaries' /\ OneEach'
           /\ \A v : PredsOf(v)' = PredsOf(v)
           /\ \A v, j, k : Span(v, j, k)' = Span(v, j, k)
<1>1. \A v : PredsOf(v)' = PredsOf(v)
  BY DEF PredsOf
<1>2. \A v, j, k : Span(v, j, k)' = Span(v, j, k)
  BY <1>1 DEF Span
<1>3. Counted' /\ Distinct' /\ OneEach'
  BY DEF AInv, Counted, Distinct, OneEach
<1>4. ASSUME NEW vp \in vehiclePreds PROVE Summarises(vp)'
  <2>1. Summarises(vp)
    BY DEF AInv, Summaries
  <2>2. PICK k \in 1 .. N - 1 : /\ StartsAt(vp.vehicle, k)
                                /\ Span(vp.vehicle, k, N - 1)
                                /\ vp.total = N - k
                                /\ vp.withData = Cardinality({j \in k .. N - 1 : HasData(j)})
    BY <2>1 DEF Summarises
  <2>3. {j \in k .. N - 1 : HasData(j)}' = {j \in k .. N - 1 : HasData(j)}
    BY SnapshotFixed
  <2> QED BY <1>1, <1>2, <2>1, <2>2, <2>3, SnapshotFixed DEF Summarises
<1> QED BY <1>1, <1>2, <1>3, <1>4 DEF Summaries

(* What a visit of a stop adds: one prediction, whose passengers leave the *)
(* queue.                                                                  *)
LEMMA VisitFacts ==
    ASSUME IInv, VisitStop
    PROVE  \E new : /\ stopPreds' = stopPreds \cup {new}
                    /\ new.vehicle = cur /\ new.stop = i
                    /\ new.boarded \in 0 .. remaining[i]
                    /\ remaining' = [remaining EXCEPT ![i] = remaining[i] - new.boarded]
<1> DEFINE alighted == Alight(load)
           boarded  == Board(remaining[i], Capacity(cur), load - alighted)
           new      == [vehicle |-> cur, stop |-> i, passengers |-> load - alighted + boarded,
                        boarded |-> boarded, alighted |-> alighted]
<1>1. /\ stopPreds' = stopPreds \cup {new}
      /\ remaining' = [remaining EXCEPT ![i] = remaining[i] - boarded]
  BY DEF VisitStop, LeftBehind
<1>2. /\ load \in Nat /\ remaining[i] \in Nat /\ Capacity(cur) \in Int
  BY SnapshotFacts DEF IInv, TypeOK, VisitStop
<1>3. boarded \in 0 .. remaining[i]
  <2>1. load - alighted \in Nat
    BY <1>2, AlightBounds
  <2> HIDE DEF alighted
  <2> QED BY <1>2, <2>1, BoardBounds
<1> HIDE DEF boarded, alighted
<1>4. new.vehicle = cur /\ new.stop = i /\ new.boarded = boarded
  OBVIOUS
<1> HIDE DEF new
<1> QED BY <1>1, <1>3, <1>4

(* Predictions at each stop of a set, one at each, are as many as stops.   *)
LEMMA OnePerStop ==
    ASSUME NEW P, IsFiniteSet(P), NEW D,
           \A p \in P : p.stop \in D,
           \A j \in D : \E p \in P : p.stop = j,
           \A p, q \in P : p.stop = q.stop => p = q
    PROVE  Cardinality(P) = Cardinality(D)
<1> DEFINE f == [p \in P |-> p.stop]
<1>1. f \in Bijection(P, D)
  BY DEF Bijection, Injection, Surjection, IsInjective
<1>2. ExistsBijection(P, D)
  BY <1>1 DEF ExistsBijection
<1> QED BY <1>2, FS_Bijection

(* Before the first stop nothing is simulated and nothing is reported.     *)
LEMMA InitAInv == Init => AInv
<1> SUFFICES ASSUME Init PROVE AInv
  OBVIOUS
<1>1. IInv
  BY InitIInv
<1>2. ~Busy /\ phase # "stop" /\ stopPreds = {} /\ vehiclePreds = {}
  BY DEF Init, Busy, Simulated
<1> QED
  BY <1>1, <1>2, FS_EmptySet DEF AInv, Blank, Queued, Counted, Distinct, NotYetReached,
     UnderWay, Summaries, OneEach, NoneForgotten, AllReached, Busy
(* Every step of predict_route keeps the accounts.                         *)
LEMMA StepAInv == AInv /\ [Next]_vars => AInv'
<1> SUFFICES ASSUME AInv, [Next]_vars PROVE AInv'
  OBVIOUS
<1>i. IInv /\ IInv'
  BY StepIInv DEF AInv
<1>0. /\ snapshot \in Snapshots /\ N \in Nat /\ Stops = 1 .. N
      /\ \A k \in Stops : Waiting(k) \in Nat
      /\ \A v \in Vehicles : Capacity(v) \in Int
  BY <1>i, SnapshotFacts DEF IInv, TypeOK, Stops
<1>d. /\ snapshot' = snapshot
      /\ N' = N /\ Stops' = Stops /\ Vehicles' = Vehicles /\ EndIdx' = EndIdx
      /\ \A v : Capacity(v)' = Capacity(v)
      /\ \A v, k : StartsAt(v, k)' = StartsAt(v, k)
  BY SnapshotFixed
<1>1. CASE ReturnEmpty \/ RaiseTypeError
  <2>1. /\ ~Busy /\ ~Busy' /\ phase' # "stop"
        /\ UNCHANGED <<stopPreds, vehiclePreds>>
    BY <1>1, <1>0, <1>d DEF ReturnEmpty, RaiseTypeError, Busy, Simulated
  <2> QED
    BY <1>i, <1>d, <2>1, PredictionsKept DEF AInv, Blank, Queued, NotYetReached,
       UnderWay, NoneForgotten, AllReached, Busy
<1>3. CASE BuildIndexAndSort
  <2>1. /\ ~Busy /\ Busy' /\ phase' = "vehicle" /\ N > 1
        /\ pending' = Vehicles
        /\ remaining' = [k \in Stops |-> Waiting(k)]
        /\ UNCHANGED <<stopPreds, vehiclePreds>>
    BY <1>3 DEF BuildIndexAndSort, Busy, Simulated
  <2>2. stopPreds = {} /\ vehiclePreds = {}
    BY <2>1 DEF AInv, Blank
  <2>3. remaining' \in [Stops -> Nat]
    BY <1>0, <2>1
  <2> QED
    BY <1>i, <1>d, <2>1, <2>2, <2>3, PredictionsKept DEF AInv, Blank, Queued,
       NotYetReached, UnderWay, NoneForgotten, AllReached, Simulated
<1>4. ASSUME NEW v \in pending, SkipVehicle(v) PROVE AInv'
  <2>1. /\ Busy /\ Busy' /\ phase = "vehicle" /\ phase' = "vehicle"
        /\ pending' = pending \ {v}
        /\ UNCHANGED <<stopPreds, vehiclePreds, remaining>>
        /\ Skipped(v)
    BY <1>4 DEF SkipVehicle, Busy
  <2>2. NoneForgotten'
    <3> SUFFICES ASSUME NEW w \in Vehicles, NEW k \in 1 .. N - 1,
                        Capacity(w) > 0, StartsAt(w, k)
                 PROVE  w \in pending' \/ \E vp \in vehiclePreds : vp.vehicle = w
      BY <1>d, <2>1 DEF NoneForgotten
    <3>1. w # v
      BY <1>0, <2>1 DEF Skipped, OnRoute
    <3> QED BY <2>1, <3>1 DEF AInv, NoneForgotten
  <2> QED
    BY <1>i, <1>d, <2>1, <2>2, PredictionsKept DEF AInv, Blank, Queued,
       NotYetReached, UnderWay, AllReached, Simulated
<1>5. ASSUME NEW v \in pending, StartVehicle(v) PROVE AInv'
  <2>1. /\ Busy /\ Busy' /\ phase = "vehicle" /\ phase' = "stop"
        /\ pending' = pending \ {v} /\ cur' = v
        /\ UNCHANGED <<stopPreds, vehiclePreds, remaining>>
        /\ ~Skipped(v)
    BY <1>5 DEF StartVehicle, Busy
  <2>2. PICK k \in Stops : StartsAt(v, k) /\ i' = k
    BY <1>5 DEF StartVehicle
  <2>3. v \in Vehicles /\ Capacity(v) > 0
    BY <1>0, <1>i, <2>1 DEF Skipped, IInv, TypeOK
  <2>4. PredsOf(v) = {}
    BY <2>1 DEF AInv, NotYetReached, PredsOf
  <2>5. k - 1 < k /\ k .. (k - 1) = {} /\ k <= k
    BY <1>0, <2>2
  <2>6. Span(v, k, k - 1)
    BY <2>4, <2>5 DEF Span
  <2>7. UnderWay'
    BY <1>d, <2>1, <2>2, <2>3, <2>5, <2>6, PredictionsKept DEF AInv, UnderWay, NotYetReached
  <2>8. NoneForgotten'
    BY <1>d, <2>1 DEF AInv, NoneForgotten
  <2>9. NotYetReached' /\ AllReached'
    BY <1>d, <2>1 DEF AInv, NotYetReached, AllReached, Simulated
  <2> QED
    BY <1>i, <1>d, <2>1, <2>7, <2>8, <2>9, PredictionsKept DEF AInv, Blank, Queued
<1>9. CASE UNCHANGED vars
  <2>1. UNCHANGED <<phase, pending, remaining, cur, i, stopPreds, vehiclePreds>>
    BY <1>9 DEF vars
  <2>2. Busy' = Busy /\ Simulated' = Simulated
    BY <1>d, <2>1 DEF Busy, Simulated
  <2> QED
    BY <1>i, <1>d, <2>1, <2>2, PredictionsKept DEF AInv, Blank, Queued,
       NotYetReached, UnderWay, NoneForgotten, AllReached
<1>8. CASE CollectStranded
  <2>1. /\ Busy /\ phase' = "done" /\ pending = {} /\ phase = "vehicle"
        /\ UNCHANGED <<pending, remaining, stopPreds, vehiclePreds>>
    BY <1>8 DEF CollectStranded, Busy
  <2>2. N > 1
    BY <2>1 DEF AInv, Queued
  <2>3. Busy' /\ Simulated'
    BY <1>d, <2>1, <2>2 DEF Busy, Simulated
  <2> QED
    BY <1>i, <1>d, <2>1, <2>2, <2>3, PredictionsKept DEF AInv, Blank, Queued,
       NotYetReached, UnderWay, NoneForgotten, AllReached
<1>6. CASE VisitStop
  <2>1. PICK new : /\ stopPreds' = stopPreds \cup {new}
                   /\ new.vehicle = cur /\ new.stop = i
    BY <1>i, <1>6, VisitFacts
  <2>2. /\ phase = "stop" /\ phase' = "stop" /\ i < N /\ i' = i + 1
        /\ UNCHANGED <<pending, cur, vehiclePreds>>
        /\ Busy /\ Busy'
    BY <1>6 DEF VisitStop, EndIdx, Busy
  <2>3. i \in 1 .. N /\ i \in Int /\ cur \in Vehicles /\ remaining' \in [Stops -> Nat] /\ N > 1
    BY <1>0, <1>d, <1>i, <2>2 DEF IInv, TypeOK, AInv, Queued
  <2>4. PICK k \in Stops : StartsAt(cur, k) /\ k <= i /\ Span(cur, k, i - 1)
    BY <2>2 DEF AInv, UnderWay
  <2>5. /\ PredsOf(cur)' = PredsOf(cur) \cup {new}
        /\ \A v : v # cur => PredsOf(v)' = PredsOf(v)
    BY <2>1, <2>2 DEF PredsOf
  <2>6. \A p \in PredsOf(cur) : p.stop # i
    BY <2>3, <2>4 DEF Span
  <2>7. Counted' /\ Distinct' /\ OneEach'
    <3>1. IsFiniteSet(stopPreds')
      BY <2>1, FS_AddElement DEF AInv, Counted
    <3>2. \A p \in stopPreds : p.vehicle = cur => p.stop # i
      BY <2>6 DEF PredsOf
    <3> QED BY <2>1, <2>2, <3>1, <3>2 DEF AInv, Counted, Distinct, OneEach
  <2>8. Summaries'
    <3> SUFFICES ASSUME NEW vp \in vehiclePreds PROVE Summarises(vp)'
      BY <2>2 DEF Summaries
    <3>1. vp.vehicle # cur /\ Summarises(vp)
      BY <2>2 DEF AInv, UnderWay, Summaries
    <3>2. PredsOf(vp.vehicle)' = PredsOf(vp.vehicle)
      BY <2>5, <3>1
    <3>3. \A j, m : Span(vp.vehicle, j, m)' = Span(vp.vehicle, j, m)
      BY <3>2 DEF Span
    <3>4. PICK j \in 1 .. N - 1 : /\ StartsAt(vp.vehicle, j)
                                  /\ Span(vp.vehicle, j, N - 1)
                                  /\ vp.total = N - j
                                  /\ vp.withData = Cardinality({m \in j .. N - 1 : HasData(m)})
      BY <3>1 DEF Summarises
    <3>5. {m \in j .. N - 1 : HasData(m)}' = {m \in j .. N - 1 : HasData(m)}
      BY SnapshotFixed
    <3> QED BY <1>d, <3>1, <3>2, <3>3, <3>4, <3>5 DEF Summarises
  <2>9. UnderWay'
    <3>0. PICK c \in Vehicles, m \in 1 .. N : c = cur /\ m = i
      BY <2>3
    <3>1. Span(c, k, m)'
      <4>1. \A j \in k .. m : j \in k .. (m - 1) \/ j = m
        BY <1>0, <2>4, <3>0
      <4>2. \A j \in k .. (m - 1) : j \in k .. m
        BY <1>0, <2>4, <3>0
      <4>3. m \in k .. m
        BY <1>0, <2>4, <3>0
      <4>6. PredsOf(c)' = PredsOf(c) \cup {new} /\ Span(c, k, m - 1)
        BY <2>1, <2>4, <3>0 DEF PredsOf
      <4>4. \A p \in PredsOf(c)' : p.stop \in k .. m
        BY <2>1, <3>0, <4>2, <4>3, <4>6 DEF Span
      <4>5. \A j \in k .. m : \E p \in PredsOf(c)' : p.stop = j
        BY <2>1, <3>0, <4>1, <4>6 DEF Span
      <4> QED BY <4>4, <4>5 DEF Span
    <3>2. cur' = c /\ i' - 1 = m /\ k <= i'
      BY <1>0, <2>2, <2>4, <3>0
    <3>3. StartsAt(c, k)' /\ k \in Stops'
      BY <1>d, <2>4, <3>0
    <3>4. \E j \in Stops' : StartsAt(c, j)' /\ j <= i' /\ Span(c, j, m)'
      BY <3>1, <3>2, <3>3
    <3> QED BY <1>d, <2>2, <3>2, <3>4 DEF AInv, UnderWay
  <2>10. NotYetReached' /\ NoneForgotten' /\ AllReached'
    BY <1>d, <2>1, <2>2 DEF AInv, NotYetReached, UnderWay, NoneForgotten, AllReached, Simulated
  <2> QED
    BY <1>i, <1>d, <2>2, <2>3, <2>7, <2>8, <2>9, <2>10 DEF AInv, Blank, Queued
<1>7. CASE FinishVehicle
  <2>1. /\ phase = "stop" /\ phase' = "vehicle" /\ i >= N
        /\ UNCHANGED <<pending, remaining, stopPreds>>
        /\ Busy /\ Busy' /\ ~Simulated'
    BY <1>7 DEF FinishVehicle, EndIdx, Busy, Simulated
  <2>2. PICK c \in Vehicles : c = cur /\ Capacity(c) > 0 /\ c \notin pending
                            /\ \A vp \in vehiclePreds : vp.vehicle # c
    BY <1>i, <2>1 DEF IInv, TypeOK, AInv, UnderWay
  <2>3. PICK k \in Stops : StartsAt(c, k) /\ Span(c, k, N - 1)
    <3>1. i = N
      BY <1>0, <1>i, <2>1 DEF IInv, TypeOK
    <3> QED BY <2>1, <2>2, <3>1 DEF AInv, UnderWay
  <2>4. \A v : PredsOf(v)' = PredsOf(v)
    BY <2>1 DEF PredsOf
  <2>5. \A v, j, m : Span(v, j, m)' = Span(v, j, m)
    BY <2>4 DEF Span
  <2>6. ASSUME NEW vp, Summarises(vp) PROVE Summarises(vp)'
    <3>1. PICK j \in 1 .. N - 1 : /\ StartsAt(vp.vehicle, j)
                                  /\ Span(vp.vehicle, j, N - 1)
                                  /\ vp.total = N - j
                                  /\ vp.withData = Cardinality({m \in j .. N - 1 : HasData(m)})
      BY <2>6 DEF Summarises
    <3>2. {m \in j .. N - 1 : HasData(m)}' = {m \in j .. N - 1 : HasData(m)}
      BY SnapshotFixed
    <3> QED BY <1>d, <2>4, <2>5, <2>6, <3>1, <3>2 DEF Summarises
  <2>7. Distinct' /\ Queued' /\ Blank' /\ UnderWay' /\ AllReached'
    BY <1>d, <2>1, <2>2 DEF AInv, Distinct, Queued, Blank, UnderWay, AllReached
  <2>8. CASE PredsOf(c) = {}
    <3>1. vehiclePreds' = vehiclePreds
      BY <1>7, <2>2, <2>8 DEF FinishVehicle
    <3>2. NoneForgotten'
      <4>1. k \notin 1 .. N - 1
        <5>1. \A j \in k .. N - 1 : FALSE
          BY <2>3, <2>8 DEF Span
        <5>2. k \in 1 .. N - 1 => k \in k .. N - 1
          BY <1>0
        <5> QED BY <5>1, <5>2
      <4>2. \A j \in 1 .. N - 1 : ~StartsAt(c, j)
        BY <1>0, <2>3, <4>1, StartsOnce
      <4> QED BY <1>d, <2>1, <2>2, <3>1, <4>2 DEF AInv, NoneForgotten
    <3>3. Counted' /\ Distinct' /\ Summaries' /\ OneEach'
      BY <2>1, <3>1, PredictionsKept
    <3>4. NotYetReached'
      BY <2>1, <3>1 DEF AInv, NotYetReached
    <3> QED BY <1>i, <2>7, <3>2, <3>3, <3>4 DEF AInv
  <2>9. CASE PredsOf(c) # {}
    <3> DEFINE P == PredsOf(c)
               loads == {p.passengers : p \in P}
               known == {p \in P : HasData(p.stop)}
    <3>1. PICK vp : /\ vehiclePreds' = vehiclePreds \cup {vp}
                    /\ vp.vehicle = c
                    /\ vp.peak = Max(loads)
                    /\ vp.withData = Cardinality(known)
                    /\ vp.total = Cardinality(P)
      <4> DEFINE new == [vehicle |-> c, peak |-> Max(loads),
                         withData |-> Cardinality(known), total |-> Cardinality(P)]
      <4>1. vehiclePreds' = vehiclePreds \cup {new}
        BY <1>7, <2>2, <2>9 DEF FinishVehicle
      <4>2. /\ new.vehicle = c /\ new.peak = Max(loads)
            /\ new.withData = Cardinality(known) /\ new.total = Cardinality(P)
        BY Zenon
      <4> HIDE DEF new
      <4> QED BY <4>1, <4>2
    <3>2. /\ IsFiniteSet(P) /\ known \in SUBSET P
          /\ \A p \in P : p.passengers \in Nat /\ p.stop \in k .. N - 1
          /\ \A p, q \in P : p.stop = q.stop => p = q
      <4>1. P \in SUBSET stopPreds /\ IsFiniteSet(stopPreds)
        BY DEF PredsOf, AInv, Counted
      <4>2. IsFiniteSet(P)
        BY <4>1, FS_Subset
      <4>3. \A p \in P : p.passengers \in Nat
        BY <1>i, <4>1 DEF IInv, TypeOK, StopPrediction
      <4>4. \A p, q \in P : p.stop = q.stop => p = q
        BY DEF PredsOf, AInv, Distinct
      <4> QED BY <2>3, <4>2, <4>3, <4>4 DEF Span
    <3>3. k \in 1 .. N - 1
      BY <1>0, <2>9, <3>2
    <3>4. vp.total = N - k
      <4>1. Cardinality(P) = Cardinality(k .. N - 1)
        <5>1. \A j \in k .. N - 1 : \E p \in P : p.stop = j
          BY <2>3 DEF Span
        <5> HIDE DEF P
        <5> QED BY <3>2, <5>1, OnePerStop
      <4>2. Cardinality(k .. N - 1) = N - k
        BY <1>0, <3>3, FS_Interval
      <4> QED BY <3>1, <4>1, <4>2
    <3>5. vp.withData = Cardinality({j \in k .. N - 1 : HasData(j)})
      <4> DEFINE there == {j \in k .. N - 1 : HasData(j)}
      <4>1. /\ IsFiniteSet(known)
            /\ \A p \in known : p.stop \in there
            /\ \A p, q \in known : p.stop = q.stop => p = q
        BY <3>2, FS_Subset
      <4>2. \A j \in there : \E p \in known : p.stop = j
        BY <2>3 DEF Span
      <4> HIDE DEF there, known
      <4> QED BY <3>1, <4>1, <4>2, OnePerStop DEF there
    <3>6. /\ vp.peak \in Nat
          /\ \A p \in P : p.passengers <= vp.peak
          /\ \E p \in P : p.passengers = vp.peak
      <4>1. IsFiniteSet(loads)
        <5> DEFINE f == [p \in P |-> p.passengers]
        <5>1. f \in Surjection(P, loads)
          BY DEF Surjection
        <5> HIDE DEF f
        <5> QED BY <3>2, <5>1, FS_Surjection
      <4>2. loads \in SUBSET Int /\ loads # {} /\ \A m \in loads : m \in Nat
        BY <2>9, <3>2
      <4>3. Max(loads) \in loads /\ \A m \in loads : m <= Max(loads)
        <5> HIDE DEF loads
        <5> QED BY <4>1, <4>2, MaxFacts
      <4> QED BY <3>1, <4>2, <4>3
    <3> HIDE DEF P, loads, known
    <3>7. Summarises(vp)
      BY <2>2, <2>3, <3>1, <3>3, <3>4, <3>5, <3>6 DEF Summarises, P
    <3>8. Summaries' /\ OneEach'
      BY <2>2, <2>6, <3>1, <3>7 DEF AInv, Summaries, OneEach
    <3>9. Counted'
      BY <2>1, <3>1, FS_AddElement DEF AInv, Counted
    <3>10. NotYetReached'
      BY <2>1, <2>2, <3>1 DEF AInv, NotYetReached
    <3>11. NoneForgotten'
      BY <1>d, <2>1, <2>2, <3>1 DEF AInv, NoneForgotten
    <3> QED BY <1>i, <2>7, <3>8, <3>9, <3>10, <3>11 DEF AInv
  <2> QED BY <2>8, <2>9
<1> QED
  BY <1>1, <1>3, <1>4, <1>5, <1>6, <1>7, <1>8, <1>9 DEF Next, Returned
(* Every vehicle with seats and stops left before the terminus gets one    *)
(* VehiclePrediction, over exactly those stops, and no other vehicle does. *)
THEOREM EveryVehicleAccounted == Spec => []VehiclesAccounted
<1>1. AInv => VehiclesAccounted
  <2> SUFFICES ASSUME AInv, Simulated PROVE VehiclesAccounted
    BY DEF VehiclesAccounted
  <2>0. Busy /\ pending = {} /\ phase # "stop"
    BY DEF AInv, AllReached, Busy, Simulated
  <2>1. ASSUME NEW vp \in vehiclePreds
        PROVE  /\ vp.vehicle \in Vehicles /\ Capacity(vp.vehicle) > 0
               /\ \E k \in 1 .. N - 1 :
                    /\ StartsAt(vp.vehicle, k)
                    /\ {p.stop : p \in PredsOf(vp.vehicle)} = k .. N - 1
                    /\ vp.total = N - k
                    /\ vp.withData = Cardinality({j \in k .. N - 1 : HasData(j)})
    <3>1. Summarises(vp)
      BY DEF AInv, Summaries
    <3>2. PICK k \in 1 .. N - 1 : /\ StartsAt(vp.vehicle, k)
                                  /\ Span(vp.vehicle, k, N - 1)
                                  /\ vp.total = N - k
                                  /\ vp.withData = Cardinality({j \in k .. N - 1 : HasData(j)})
      BY <3>1 DEF Summarises
    <3>3. {p.stop : p \in PredsOf(vp.vehicle)} = k .. N - 1
      BY <3>2 DEF Span
    <3> QED BY <3>1, <3>2, <3>3 DEF Summarises
  <2>2. \A v \in Vehicles : \A k \in 1 .. N - 1 :
            Capacity(v) > 0 /\ StartsAt(v, k) => \E vp \in vehiclePreds : vp.vehicle = v
    BY <2>0 DEF AInv, NoneForgotten
  <2>3. {vp.vehicle : vp \in vehiclePreds} =
              {v \in Vehicles : Capacity(v) > 0 /\ \E k \in 1 .. N - 1 : StartsAt(v, k)}
    BY <2>1, <2>2
  <2> QED BY <2>1, <2>3 DEF AInv, OneEach, VehiclesAccounted
<1> QED BY <1>1, InitAInv, StepAInv, PTL DEF Spec

-----------------------------------------------------------------------------
(* The balance of the queues.                                              *)

(* One prediction more: its passengers are added to those boarded.         *)
LEMMA BoardedFacts ==
    ASSUME NEW S, IsFiniteSet(S), \A p \in S : p.boarded \in Nat
    PROVE  /\ Boarded(S) \in Nat
           /\ S = {} => Boarded(S) = 0
           /\ \A new : new \notin S /\ new.boarded \in Nat =>
                 Boarded(S \cup {new}) = new.boarded + Boarded(S)
<1> DEFINE f(T) == [p \in T |-> p.boarded]
<1>1. Boarded(S) = SumFunctionOnSet(f(S), S)
  BY DEF Boarded, SumFunction
<1>2. \A x \in S : f(S)[x] \in Nat /\ f(S)[x] \in Int
  OBVIOUS
<1>3. Boarded(S) \in Nat /\ (S = {} => Boarded(S) = 0)
  <2> HIDE DEF f
  <2> QED BY <1>1, <1>2, SumFacts
<1>4. ASSUME NEW new, new \notin S, new.boarded \in Nat
      PROVE  Boarded(S \cup {new}) = new.boarded + Boarded(S)
  <2>1. Boarded(S \cup {new}) = SumFunctionOnSet(f(S \cup {new}), S \cup {new})
    BY DEF Boarded, SumFunction
  <2>2. /\ \A x \in S \cup {new} : f(S \cup {new})[x] \in Int
        /\ f(S \cup {new})[new] = new.boarded
        /\ Agree(f(S \cup {new}), f(S), S)
    BY <1>4 DEF Agree
  <2> HIDE DEF f
  <2>3. SumFunctionOnSet(f(S \cup {new}), S \cup {new})
          = new.boarded + SumFunctionOnSet(f(S \cup {new}), S)
    <3>1. PICK e : e = f(S \cup {new})
      OBVIOUS
    <3>2. \A x \in S \cup {new} : e[x] \in Int
      BY <2>2, <3>1
    <3>3. SumFunctionOnSet(e, S \cup {new}) = e[new] + SumFunctionOnSet(e, S)
      BY <1>4, <3>2, SumAdds
    <3> QED BY <2>2, <3>1, <3>3
  <2>4. SumFunctionOnSet(f(S \cup {new}), S) = SumFunctionOnSet(f(S), S)
    BY <2>2, SumAgrees
  <2> QED BY <1>1, <2>1, <2>3, <2>4
<1> QED BY <1>3, <1>4

(* One term less by n: the sum is less by n.                               *)
LessAt(g, f, a, n, S) ==
    \A x \in S : f[x] \in Int /\ g[x] = IF x = a THEN f[x] - n ELSE f[x]

(* A function that is smaller by n at one place has a sum smaller by n.    *)
LEMMA SumLess ==
    ASSUME NEW S, IsFiniteSet(S), NEW a \in S, NEW n \in Int,
           NEW f, NEW g, LessAt(g, f, a, n, S)
    PROVE  SumFunctionOnSet(g, S) = SumFunctionOnSet(f, S) - n
<1>0. \A x \in S : f[x] \in Int /\ g[x] = IF x = a THEN f[x] - n ELSE f[x]
  BY DEF LessAt
<1>1. IsFiniteSet(S \ {a}) /\ Agree(g, f, S \ {a})
  BY <1>0, FS_RemoveElement DEF Agree
<1>2. \A x \in S : g[x] \in Int
  BY <1>0
<1>3. PICK r \in Int : r = SumFunctionOnSet(f, S \ {a})
  BY <1>0, <1>1, SumFacts
<1>4. SumFunctionOnSet(g, S \ {a}) = r
  BY <1>1, <1>3, SumAgrees
<1>5. SumFunctionOnSet(f, S) = f[a] + r
  BY <1>0, <1>3, SumFacts
<1>6. SumFunctionOnSet(g, S) = g[a] + r
  BY <1>2, <1>4, SumFacts
<1>7. PICK m \in Int : m = f[a] /\ g[a] = m - n
  BY <1>0
<1>8. (m - n) + r = (m + r) - n
  OBVIOUS
<1> QED BY <1>5, <1>6, <1>7, <1>8

(* The positive terms of a sum, found under other names.                   *)
Renamed(b, f, U) == {b[x] : x \in {y \in U : f[y] > 0}}

(* The images of the places with a positive value are finitely many.       *)
LEMMA RenamedFinite ==
    ASSUME NEW b, NEW f, NEW U, IsFiniteSet(U)
    PROVE  IsFiniteSet(Renamed(b, f, U))
<1> DEFINE P == {y \in U : f[y] > 0}
           g == [x \in P |-> b[x]]
<1>1. IsFiniteSet(P)
  BY FS_Subset
<1>2. g \in Surjection(P, Renamed(b, f, U))
  BY DEF Surjection, Renamed
<1> HIDE DEF P, g
<1> QED BY <1>1, <1>2, FS_Surjection

(* A sum over places is the sum over their images, if no two places share  *)
(* one: the places with value 0 need none. It turns the sum over the       *)
(* predictions of a route into the sum over its stops.                     *)
LEMMA SumRenamed ==
    ASSUME NEW S, IsFiniteSet(S), NEW f, \A x \in S : f[x] \in Nat,
           NEW b, \A x, y \in S : b[x] = b[y] => x = y,
           NEW h, \A x \in S : f[x] > 0 => h[b[x]] = f[x]
    PROVE  SumFunctionOnSet(f, S) = SumFunctionOnSet(h, Renamed(b, f, S))
<1> DEFINE bad == {U \in SUBSET S : SumFunctionOnSet(f, U)
                                      # SumFunctionOnSet(h, Renamed(b, f, U))}
<1> SUFFICES ASSUME bad # {} PROVE FALSE
  OBVIOUS
<1>1. PICK M \in bad : \A U \in bad : U \subseteq M => U = M
  <2>1. bad \in SUBSET SUBSET S
    OBVIOUS
  <2> HIDE DEF bad
  <2> QED BY <2>1, MinimalSubset
<1>2. /\ M \in SUBSET S
      /\ SumFunctionOnSet(f, M) # SumFunctionOnSet(h, Renamed(b, f, M))
  OBVIOUS
<1>3. IsFiniteSet(M) /\ \A x \in M : f[x] \in Int
  BY <1>2, FS_Subset
<1>4. CASE M = {}
  <2>1. Renamed(b, f, M) = {}
    BY <1>4 DEF Renamed
  <2>2. SumFunctionOnSet(f, {}) = 0 /\ SumFunctionOnSet(h, {}) = 0
    BY FS_EmptySet, SumFacts
  <2> QED BY <1>2, <1>4, <2>1, <2>2
<1>5. CASE M # {}
  <2>1. PICK a \in M : TRUE
    BY <1>5
  <2>2. PICK U : U = M \ {a}
    OBVIOUS
  <2>3. SumFunctionOnSet(f, U) = SumFunctionOnSet(h, Renamed(b, f, U))
    <3>1. U \in SUBSET S /\ U \subseteq M /\ U # M
      BY <1>2, <2>2
    <3> QED BY <1>1, <3>1
  <2>4. SumFunctionOnSet(f, M) = f[a] + SumFunctionOnSet(f, U)
    BY <1>3, <2>2, SumFacts
  <2>5. IsFiniteSet(U) /\ IsFiniteSet(Renamed(b, f, U))
    BY <1>3, <2>2, FS_RemoveElement, RenamedFinite
  <2>6. SumFunctionOnSet(f, U) \in Int
    BY <1>3, <2>2, <2>5, SumFacts
  <2>7. CASE f[a] = 0
    <3>1. Renamed(b, f, M) = Renamed(b, f, U)
      BY <2>2, <2>7 DEF Renamed
    <3> QED BY <1>2, <2>3, <2>4, <2>6, <2>7, <3>1
  <2>8. CASE f[a] # 0
    <3>0. f[a] > 0 /\ h[b[a]] = f[a]
      BY <1>2, <2>8
    <3>1. Renamed(b, f, M) = Renamed(b, f, U) \cup {b[a]}
      BY <2>2, <3>0 DEF Renamed
    <3>2. b[a] \notin Renamed(b, f, U)
      BY <1>2, <2>2 DEF Renamed
    <3>3. \A x \in Renamed(b, f, U) \cup {b[a]} : h[x] \in Int
      BY <1>2, <2>2, <3>0 DEF Renamed
    <3>4. SumFunctionOnSet(h, Renamed(b, f, U) \cup {b[a]})
            = h[b[a]] + SumFunctionOnSet(h, Renamed(b, f, U))
      BY <2>5, <3>2, <3>3, SumAdds
    <3> QED BY <1>2, <2>3, <2>4, <3>0, <3>1, <3>4
  <2> QED BY <2>7, <2>8
<1> QED BY <1>4, <1>5
(* Before the first stop there is nothing to balance.                      *)
LEMMA InitCInv == Init => CInv
BY InitAInv DEF Init, CInv, Balance, TotalBalance, StrandedBalance, Busy, Simulated

(* A step that leaves the queues and the predictions leaves their balance. *)
LEMMA BalanceKept ==
    ASSUME CInv, [Next]_vars, Busy' => Busy, UNCHANGED <<remaining, stopPreds>>
    PROVE  Balance' /\ TotalBalance'
<1>1. /\ Stops' = Stops /\ \A k : Waiting(k)' = Waiting(k)
  BY SnapshotFixed
<1>2. \A k : Boarded({p \in stopPreds : p.stop = k})' = Boarded({p \in stopPreds : p.stop = k})
  BY DEF Boarded
<1>3. Balance'
  BY <1>1, <1>2 DEF CInv, Balance
<1>4. /\ [k \in Stops |-> Waiting(k)]' = [k \in Stops |-> Waiting(k)]
      /\ Boarded(stopPreds)' = Boarded(stopPreds)
      /\ SumFunctionOnSet(remaining, Stops)' = SumFunctionOnSet(remaining, Stops)
  BY <1>1 DEF Boarded
<1>5. SumFunction([k \in Stops |-> Waiting(k)])' = SumFunction([k \in Stops |-> Waiting(k)])
  BY <1>4
<1> QED BY <1>3, <1>4, <1>5 DEF CInv, TotalBalance

(* What the entries of stranded_at_stops add up to.                        *)
LEMMA CollectBalances ==
    ASSUME AInv, CollectStranded
    PROVE  /\ SumFunction(stranded') \in Nat
           /\ Cardinality(StopIds) = N =>
                 SumFunction(stranded') = SumFunctionOnSet(remaining, Stops)
<1> DEFINE left(d) == {k \in Stops : snapshot.stops[k].id = d /\ remaining[k] > 0}
           ids == {e \in StopIds : left(e) # {}}
           b == [k \in Stops |-> snapshot.stops[k].id]
<1>1. stranded' = [d \in ids |-> remaining[Max(left(d))]]
  BY DEF CollectStranded
<1>2. /\ N \in Nat /\ Stops = 1 .. N /\ IsFiniteSet(Stops) /\ Cardinality(Stops) = N
      /\ remaining \in [Stops -> Nat]
  <2>1. N \in Nat
    BY SnapshotFacts DEF AInv, IInv, TypeOK
  <2>2. Busy
    BY DEF CollectStranded, Busy
  <2>3. IsFiniteSet(1 .. N) /\ Cardinality(1 .. N) = N
    BY <2>1, FS_Interval
  <2> QED BY <2>1, <2>2, <2>3 DEF Stops, AInv, Queued
<1>3. ASSUME NEW d \in ids
      PROVE  /\ Max(left(d)) \in left(d) /\ Max(left(d)) \in Stops
             /\ stranded'[d] = remaining[Max(left(d))] /\ stranded'[d] \in Nat
  <2>1. left(d) # {} /\ left(d) \in SUBSET Stops /\ left(d) \in SUBSET Int
    BY <1>2
  <2>2. IsFiniteSet(left(d))
    BY <1>2, <2>1, FS_Subset
  <2>3. Max(left(d)) \in left(d)
    <3> HIDE DEF left
    <3> QED BY <2>1, <2>2, MaxFacts
  <2>4. stranded'[d] = remaining[Max(left(d))]
    <3> HIDE DEF left, ids
    <3> QED BY <1>1
  <2> HIDE DEF left
  <2> QED BY <1>2, <2>1, <2>3, <2>4
<1>4. b \in Surjection(Stops, StopIds)
  BY DEF Surjection, StopIds
<1>5. IsFiniteSet(StopIds)
  <2> HIDE DEF b
  <2> QED BY <1>2, <1>4, FS_Surjection
<1>6. IsFiniteSet(ids)
  BY <1>5, FS_Subset
<1>7. DOMAIN stranded' = ids
  BY <1>1
<1>8. SumFunction(stranded') = SumFunctionOnSet(stranded', ids)
  <2> HIDE DEF ids
  <2> QED BY <1>7 DEF SumFunction
<1>9. SumFunction(stranded') \in Nat
  <2> HIDE DEF ids, left
  <2>1. \A x \in ids : stranded'[x] \in Nat /\ stranded'[x] \in Int
    BY <1>3
  <2> QED BY <1>6, <1>8, <2>1, SumFacts
<1>10. ASSUME Cardinality(StopIds) = N
       PROVE  SumFunction(stranded') = SumFunctionOnSet(remaining, Stops)
  <2>1. \A x, y \in Stops : b[x] = b[y] => x = y
    <3>1. b \in Injection(Stops, StopIds)
      <4> HIDE DEF b
      <4> QED BY <1>2, <1>4, <1>10, FS_Surjection
    <3> QED BY <3>1 DEF Injection, IsInjective
  <2>2. ASSUME NEW k \in Stops, remaining[k] > 0
        PROVE  b[k] \in ids /\ stranded'[b[k]] = remaining[k]
    <3>1. b[k] = snapshot.stops[k].id /\ b[k] \in StopIds
      BY DEF StopIds
    <3>2. k \in left(b[k])
      BY <2>2, <3>1
    <3>3. \A j \in left(b[k]) : j = k
      BY <2>1, <3>1
    <3>4. b[k] \in ids
      BY <3>1, <3>2
    <3>5. Max(left(b[k])) = k
      BY <1>3, <3>3, <3>4
    <3> HIDE DEF b, ids, left
    <3> QED BY <1>3, <3>4, <3>5
  <2>3. ASSUME NEW d \in ids PROVE \E k \in Stops : remaining[k] > 0 /\ b[k] = d
    OBVIOUS
  <2>4. Renamed(b, remaining, Stops) = ids
    <3> HIDE DEF b, ids
    <3> QED BY <2>2, <2>3 DEF Renamed
  <2> HIDE DEF b, ids
  <2>5. SumFunctionOnSet(remaining, Stops)
          = SumFunctionOnSet(stranded', Renamed(b, remaining, Stops))
    <3>1. \A x \in Stops : remaining[x] \in Nat
      BY <1>2
    <3>2. \A x \in Stops : remaining[x] > 0 => stranded'[b[x]] = remaining[x]
      BY <2>2
    <3> QED BY <1>2, <2>1, <3>1, <3>2, SumRenamed
  <2> QED BY <1>8, <2>4, <2>5
<1> QED BY <1>9, <1>10

(* Every step of predict_route keeps the queues in balance.                *)
LEMMA StepCInv == CInv /\ [Next]_vars => CInv'
<1> SUFFICES ASSUME CInv, [Next]_vars PROVE CInv'
  OBVIOUS
<1>a. AInv /\ AInv' /\ IInv
  BY StepAInv DEF CInv, AInv
<1>0. /\ N \in Nat /\ Stops = 1 .. N /\ IsFiniteSet(Stops)
      /\ \A k \in Stops : Waiting(k) \in Nat
  <2>1. N \in Nat /\ \A k \in Stops : Waiting(k) \in Nat
    BY <1>a, SnapshotFacts DEF IInv, TypeOK
  <2> QED BY <2>1, FS_Interval DEF Stops
<1>d. /\ N' = N /\ Stops' = Stops /\ StopIds' = StopIds
      /\ \A k : Waiting(k)' = Waiting(k)
  BY SnapshotFixed
<1>1. CASE ReturnEmpty \/ RaiseTypeError
  <2>1. ~Busy' /\ ~Simulated'
    BY <1>1, <1>0, <1>d DEF ReturnEmpty, RaiseTypeError, Busy, Simulated
  <2> QED BY <1>a, <2>1 DEF CInv, Balance, TotalBalance, StrandedBalance
<1>3. CASE BuildIndexAndSort
  <2>1. /\ ~Busy /\ ~Simulated'
        /\ remaining' = [k \in Stops |-> Waiting(k)]
        /\ stopPreds' = stopPreds
    BY <1>3 DEF BuildIndexAndSort, Busy, Simulated
  <2>2. stopPreds = {}
    BY <1>a, <2>1 DEF AInv, Blank
  <2>3. Boarded({}) = 0
    BY FS_EmptySet, BoardedFacts
  <2>4. Balance'
    <3> SUFFICES ASSUME NEW k \in Stops
                 PROVE  Waiting(k) = remaining'[k] + Boarded({p \in stopPreds' : p.stop = k})
      BY <1>d DEF Balance, Boarded
    <3>1. {p \in stopPreds' : p.stop = k} = {}
      BY <2>1, <2>2
    <3>2. Boarded({p \in stopPreds' : p.stop = k}) = 0
      BY <2>3, <3>1
    <3>3. Waiting(k) \in Nat /\ remaining'[k] = Waiting(k)
      BY <1>0, <2>1
    <3> QED BY <3>2, <3>3
  <2>5. TotalBalance'
    <3>1. SumFunction([k \in Stops |-> Waiting(k)]) = SumFunctionOnSet(remaining', Stops)
      BY <2>1 DEF SumFunction
    <3>2. SumFunctionOnSet(remaining', Stops) \in Int
      <4>1. \A k \in Stops : remaining'[k] \in Int
        BY <1>0, <2>1
      <4> QED BY <1>0, <4>1, SumFacts
    <3>3. Boarded(stopPreds') = 0
      BY <2>1, <2>2, <2>3
    <3>4. [k \in Stops |-> Waiting(k)]' = [k \in Stops |-> Waiting(k)]
      BY <1>d
    <3> QED BY <1>d, <3>1, <3>2, <3>3, <3>4 DEF TotalBalance
  <2> QED BY <1>a, <2>1, <2>4, <2>5 DEF CInv, StrandedBalance
<1>4. ASSUME NEW v \in pending, SkipVehicle(v) \/ StartVehicle(v) PROVE CInv'
  <2>1. Busy /\ ~Simulated' /\ UNCHANGED <<remaining, stopPreds>>
    BY <1>4 DEF SkipVehicle, StartVehicle, Busy, Simulated
  <2> QED BY <1>a, <2>1, BalanceKept DEF CInv, StrandedBalance
<1>6. CASE VisitStop
  <2>1. PICK new : /\ stopPreds' = stopPreds \cup {new}
                   /\ new.vehicle = cur /\ new.stop = i
                   /\ new.boarded \in 0 .. remaining[i]
                   /\ remaining' = [remaining EXCEPT ![i] = remaining[i] - new.boarded]
    BY <1>a, <1>6, VisitFacts
  <2>2. /\ phase = "stop" /\ Busy /\ ~Simulated'
        /\ i \in Stops /\ i \in Int /\ remaining \in [Stops -> Nat]
    BY <1>a, <1>0, <1>6 DEF VisitStop, Busy, Simulated, IInv, TypeOK
  <2>3. new \notin stopPreds
    <3>1. PICK k \in Stops : Span(cur, k, i - 1)
      BY <1>a, <2>2 DEF AInv, UnderWay
    <3>2. \A p \in PredsOf(cur) : p.stop # i
      BY <1>0, <2>2, <3>1 DEF Span
    <3> QED BY <2>1, <3>2 DEF PredsOf
  <2>4. IsFiniteSet(stopPreds) /\ \A p \in stopPreds : p.boarded \in Nat
    BY <1>a DEF AInv, Counted, IInv, TypeOK, StopPrediction
  <2>5. PICK n \in Nat : n = new.boarded
    BY <2>1, <2>2
  <2>6. Balance'
    <3> SUFFICES ASSUME NEW k \in Stops
                 PROVE  Waiting(k) = remaining'[k] + Boarded({p \in stopPreds' : p.stop = k})
      BY <1>d DEF Balance, Boarded
    <3>1. PICK P : P = {p \in stopPreds : p.stop = k}
      OBVIOUS
    <3>2. Waiting(k) = remaining[k] + Boarded(P)
      BY <2>2, <3>1 DEF CInv, Balance
    <3>3. IsFiniteSet(P) /\ new \notin P /\ \A p \in P : p.boarded \in Nat
      BY <2>3, <2>4, <3>1, FS_Subset
    <3>4. CASE k # i
      <4>1. {p \in stopPreds' : p.stop = k} = P /\ remaining'[k] = remaining[k]
        BY <2>1, <2>2, <3>1, <3>4
      <4> QED BY <3>2, <4>1
    <3>5. CASE k = i
      <4>1. {p \in stopPreds' : p.stop = k} = P \cup {new}
        BY <2>1, <3>1, <3>5
      <4>2. Boarded(P \cup {new}) = n + Boarded(P) /\ Boarded(P) \in Nat
        BY <2>5, <3>3, BoardedFacts
      <4>3. remaining[k] \in Nat /\ remaining'[k] = remaining[k] - n
        BY <2>1, <2>2, <2>5, <3>5
      <4>4. PICK m \in Nat, r \in Nat : m = Boarded(P) /\ r = remaining[k]
        BY <4>2, <4>3
      <4>5. r + m = (r - n) + (n + m)
        OBVIOUS
      <4> QED BY <3>2, <4>1, <4>2, <4>3, <4>4, <4>5
    <3> QED BY <3>4, <3>5
  <2>7. TotalBalance'
    <3>1. Boarded(stopPreds') = n + Boarded(stopPreds) /\ Boarded(stopPreds) \in Nat
      BY <2>1, <2>3, <2>4, <2>5, BoardedFacts
    <3>2. SumFunctionOnSet(remaining', Stops) = SumFunctionOnSet(remaining, Stops) - n
      <4>1. LessAt(remaining', remaining, i, n, Stops)
        BY <2>1, <2>2, <2>5 DEF LessAt
      <4>2. n \in Int
        OBVIOUS
      <4>3. PICK S : S = Stops
        OBVIOUS
      <4>4. PICK a \in S : a = i
        BY <2>2, <4>3
      <4>5. IsFiniteSet(S) /\ LessAt(remaining', remaining, a, n, S)
        BY <1>0, <4>1, <4>3, <4>4
      <4>6. SumFunctionOnSet(remaining', S) = SumFunctionOnSet(remaining, S) - n
        BY <4>2, <4>5, SumLess
      <4> QED BY <4>3, <4>6
    <3>3. SumFunctionOnSet(remaining, Stops) \in Int
      <4>1. \A x \in Stops : remaining[x] \in Int
        BY <2>2
      <4> QED BY <1>0, <4>1, SumFacts
    <3>4. SumFunction([k \in Stops |-> Waiting(k)]) =
              SumFunctionOnSet(remaining, Stops) + Boarded(stopPreds)
      BY <2>2 DEF CInv, TotalBalance
    <3>5. [k \in Stops |-> Waiting(k)]' = [k \in Stops |-> Waiting(k)]
      BY <1>d
    <3>6. PICK m \in Nat, r \in Int : m = Boarded(stopPreds) /\ r = SumFunctionOnSet(remaining, Stops)
      BY <3>1, <3>3
    <3>7. r + m = (r - n) + (n + m)
      OBVIOUS
    <3>8. SumFunction([k \in Stops |-> Waiting(k)]) =
              SumFunctionOnSet(remaining', Stops) + Boarded(stopPreds')
      BY <3>1, <3>2, <3>4, <3>6, <3>7
    <3> QED BY <1>d, <3>5, <3>8 DEF TotalBalance
  <2> QED BY <1>a, <2>2, <2>6, <2>7 DEF CInv, StrandedBalance
<1>7. CASE FinishVehicle
  <2>1. Busy /\ ~Simulated' /\ UNCHANGED <<remaining, stopPreds>>
    BY <1>7 DEF FinishVehicle, Busy, Simulated
  <2> QED BY <1>a, <2>1, BalanceKept DEF CInv, StrandedBalance
<1>8. CASE CollectStranded
  <2>1. Busy /\ UNCHANGED <<remaining, stopPreds>>
    BY <1>8 DEF CollectStranded, Busy
  <2>2. StrandedBalance'
    BY <1>a, <1>d, <1>8, <2>1, CollectBalances DEF StrandedBalance
  <2> QED BY <1>a, <2>1, <2>2, BalanceKept DEF CInv
<1>9. CASE UNCHANGED vars
  <2>1. /\ UNCHANGED <<phase, remaining, stopPreds, stranded>>
        /\ Busy' = Busy /\ Simulated' = Simulated
    BY <1>9, <1>d DEF vars, Busy, Simulated
  <2>2. StrandedBalance'
    BY <1>d, <2>1 DEF CInv, StrandedBalance
  <2> QED BY <1>a, <2>1, <2>2, BalanceKept DEF CInv
<1> QED
  BY <1>1, <1>3, <1>4, <1>6, <1>7, <1>8, <1>9 DEF Next, Returned

(* No passenger is lost or boarded twice.                                  *)
THEOREM PassengersConserved == Spec => []Conservation
<1>1. CInv => Conservation
  <2> SUFFICES ASSUME CInv PROVE Conservation
    OBVIOUS
  <2>1. ASSUME phase \in {"vehicle", "stop"}, NEW k \in Stops
        PROVE  Waiting(k) = remaining[k] + Boarded({p \in stopPreds : p.stop = k})
    BY <2>1 DEF Busy, CInv, Balance
  <2>2. ASSUME Simulated, Cardinality(StopIds) = N
        PROVE  SumFunction([k \in Stops |-> Waiting(k)]) =
                   Boarded(stopPreds) + SumFunction(stranded)
    <3>1. Boarded(stopPreds) \in Nat
      <4>1. IsFiniteSet(stopPreds) /\ \A p \in stopPreds : p.boarded \in Nat
        BY DEF CInv, AInv, Counted, IInv, TypeOK, StopPrediction
      <4> QED BY <4>1, BoardedFacts
    <3>2. SumFunction(stranded) \in Nat /\ SumFunction(stranded) = SumFunctionOnSet(remaining, Stops)
      BY <2>2 DEF CInv, StrandedBalance
    <3>3. SumFunction([k \in Stops |-> Waiting(k)]) =
              SumFunctionOnSet(remaining, Stops) + Boarded(stopPreds)
      BY <2>2 DEF CInv, TotalBalance, Busy
    <3>4. PICK m \in Nat, r \in Nat : m = Boarded(stopPreds) /\ r = SumFunction(stranded)
      BY <3>1, <3>2
    <3>5. m + r = r + m
      OBVIOUS
    <3> QED BY <3>2, <3>3, <3>4, <3>5
  <2> QED BY <2>1, <2>2 DEF Conservation
<1> QED BY <1>1, InitCInv, StepCInv, PTL DEF Spec
-----------------------------------------------------------------------------
(* The evaluation of the result: the vehicle and the stop an alert names.  *)

(* Multiplying by a positive number keeps and reflects the order.          *)
LEMMA ScaledOrder ==
    ASSUME NEW x \in Int, NEW y \in Int, NEW k \in Int, k > 0
    PROVE  /\ x * k \in Int /\ y * k \in Int
           /\ x > y <=> x * k > y * k
<1>1. x > y => x * k > y * k
  OBVIOUS
<1>2. y > x => y * k > x * k
  OBVIOUS
<1> QED BY <1>1, <1>2

(* The order of fractions with positive denominators is transitive.        *)
Larger(p, a, q, b) == p * b > q * a

(* Comparing fractions by cross multiplication is transitive, and strict   *)
(* if one of the two comparisons is.                                       *)
LEMMA FractionOrder ==
    ASSUME NEW p \in Int, NEW q \in Int, NEW r \in Int,
           NEW a \in Int, NEW b \in Int, NEW c \in Int, a > 0, b > 0, c > 0,
           ~Larger(q, b, p, a), ~Larger(r, c, q, b)
    PROVE  /\ ~Larger(r, c, p, a)
           /\ Larger(p, a, q, b) \/ Larger(q, b, r, c) => Larger(p, a, r, c)
<1> DEFINE pb == p * b  qa == q * a  qc == q * c  rb == r * b  cp == p * c  ra == r * a
<1>0. pb \in Int /\ qa \in Int /\ qc \in Int /\ rb \in Int /\ cp \in Int /\ ra \in Int
  OBVIOUS
<1>1. pb * c = cp * b /\ qa * c = qc * a /\ rb * a = ra * b
  OBVIOUS
<1>2. pb >= qa /\ qc >= rb
  BY <1>0 DEF Larger
<1> HIDE DEF pb, qa, qc, rb, cp, ra
<1>3. /\ pb > qa <=> pb * c > qa * c
      /\ qa > pb <=> qa * c > pb * c
      /\ pb * c \in Int /\ qa * c \in Int
  BY <1>0, ScaledOrder
<1>4. /\ qc > rb <=> qc * a > rb * a
      /\ rb > qc <=> rb * a > qc * a
      /\ qc * a \in Int /\ rb * a \in Int
  BY <1>0, ScaledOrder
<1>5. /\ cp > ra <=> cp * b > ra * b
      /\ ra > cp <=> ra * b > cp * b
      /\ cp * b \in Int /\ ra * b \in Int
  BY <1>0, ScaledOrder
<1>6. ~ (ra > cp) /\ (pb > qa \/ qc > rb => cp > ra)
  BY <1>0, <1>1, <1>2, <1>3, <1>4, <1>5
<1> QED BY <1>6 DEF Larger, pb, qa, qc, rb, cp, ra

(* WorstStop names a stop where the vehicle is fullest.                    *)
LEMMA WorstStopFacts ==
    ASSUME AInv, NEW v, PredsOf(v) # {}
    PROVE  /\ WorstStop(v) \in PredsOf(v)
           /\ \A p \in PredsOf(v) : ~ (p.passengers > WorstStop(v).passengers)
<1> DEFINE P == PredsOf(v)
           Before(x, y) == \/ x.passengers > y.passengers
                           \/ ~ (y.passengers > x.passengers) /\ x.stop < y.stop
           R == {r \in P \X P : Before(r[1], r[2])}
<1>1. /\ IsFiniteSet(P)
      /\ \A p \in P : p.passengers \in Int /\ p.stop \in Int
      /\ \A p, q \in P : p.stop = q.stop => p = q
  <2>1. P \in SUBSET stopPreds /\ IsFiniteSet(stopPreds)
    BY DEF PredsOf, AInv, Counted
  <2>2. \A p \in P : p.passengers \in Nat /\ p.stop \in Stops
    BY <2>1 DEF AInv, IInv, TypeOK, StopPrediction
  <2>3. \A k \in Stops : k \in Int
    BY SnapshotFacts DEF AInv, IInv, TypeOK, Stops
  <2>4. \A p, q \in P : p.stop = q.stop => p = q
    BY DEF PredsOf, AInv, Distinct
  <2> QED BY <2>1, <2>2, <2>3, <2>4, FS_Subset
<1>2. \A x, y \in P : <<x, y>> \in R <=> Before(x, y)
  OBVIOUS
<1>3. Orders(R, P)
  <2>1. \A x, y \in P : x = y \/ Before(x, y) \/ Before(y, x)
    BY <1>1
  <2>2. \A x, y, z \in P : Before(x, y) /\ Before(y, z) => Before(x, z)
    BY <1>1
  <2> HIDE DEF P, R, Before
  <2> QED BY <1>2, <2>1, <2>2 DEF Orders
<1>4. PICK x \in P : \A y \in P : y # x => <<x, y>> \in R
  <2> HIDE DEF P, R
  <2> QED BY <1>1, <1>3, FirstExists DEF P
<1>5. \A y \in P : y # x => Before(x, y)
  BY <1>2, <1>4
<1>6. /\ \A y \in P : ~ (y.passengers > x.passengers)
      /\ \A y \in P : y # x /\ ~ (x.passengers > y.passengers) => x.stop < y.stop
  BY <1>1, <1>5
<1> QED BY <1>6 DEF WorstStop, FirstMax
(* WorstVehicle names a vehicle whose peak occupancy none exceeds.         *)
LEMMA WorstVehicleFacts ==
    ASSUME AInv, NEW S \in SUBSET vehiclePreds, S # {}
    PROVE  /\ WorstVehicle(S) \in S
           /\ \A y \in S : ~HigherOccupancy(y, WorstVehicle(S))
<1> DEFINE Before(x, y) == \/ HigherOccupancy(x, y)
                           \/ /\ ~HigherOccupancy(y, x)
                              /\ SortsBefore(x.vehicle, y.vehicle)
           R == {r \in S \X S : Before(r[1], r[2])}
<1>1. IsFiniteSet(S) /\ \A x, y \in S : x.vehicle = y.vehicle => x = y
  BY FS_Subset DEF AInv, Counted, OneEach
<1>2. ASSUME NEW x \in S
      PROVE  /\ x.peak \in Int /\ Capacity(x.vehicle) \in Int /\ Capacity(x.vehicle) > 0
             /\ x.vehicle \in Int /\ snapshot.vehicles[x.vehicle].seq \in Int
  <2>0. snapshot \in Snapshots
    BY DEF AInv, IInv, TypeOK
  <2>1. Summarises(x)
    BY DEF AInv, Summaries
  <2>2. x.vehicle \in Vehicles /\ x.peak \in Nat /\ Capacity(x.vehicle) > 0
    BY <2>1 DEF Summarises
  <2>3. x.vehicle \in Nat /\ Capacity(x.vehicle) \in Int
    BY <2>0, <2>2, SnapshotFacts
  <2>4. PICK k \in Stops : snapshot.stops[k].sequence = snapshot.vehicles[x.vehicle].seq
    BY <2>1 DEF Summarises, StartsAt
  <2>5. snapshot.stops[k] \in StopState
    BY <2>0, SnapshotsAssumption DEF RouteSnapshot, Stops, N
  <2>6. snapshot.stops[k].sequence \in Int
    BY <2>5 DEF StopState
  <2> QED BY <2>2, <2>3, <2>4, <2>6
<1>3. \A x, y \in S : <<x, y>> \in R <=> Before(x, y)
  OBVIOUS
<1>4. \A x, y \in S : x = y \/ Before(x, y) \/ Before(y, x)
  BY <1>1, <1>2 DEF SortsBefore
<1>5. ASSUME NEW x \in S, NEW y \in S, NEW z \in S, Before(x, y), Before(y, z)
      PROVE  Before(x, z)
  <2>1. /\ HigherOccupancy(x, y) => ~HigherOccupancy(y, x)
        /\ HigherOccupancy(y, z) => ~HigherOccupancy(z, y)
    BY <1>2 DEF HigherOccupancy
  <2>2. ~HigherOccupancy(y, x) /\ ~HigherOccupancy(z, y)
    BY <1>5, <2>1
  <2>3. /\ ~HigherOccupancy(z, x)
        /\ HigherOccupancy(x, y) \/ HigherOccupancy(y, z) => HigherOccupancy(x, z)
    <3>1. PICK p \in Int, q \in Int, r \in Int, a \in Int, b \in Int, c \in Int :
              /\ p = x.peak /\ q = y.peak /\ r = z.peak
              /\ a = Capacity(x.vehicle) /\ b = Capacity(y.vehicle) /\ c = Capacity(z.vehicle)
              /\ a > 0 /\ b > 0 /\ c > 0
      BY <1>2
    <3>2. ~Larger(q, b, p, a) /\ ~Larger(r, c, q, b)
      BY <2>2, <3>1 DEF HigherOccupancy, Larger
    <3>3. /\ ~Larger(r, c, p, a)
          /\ Larger(p, a, q, b) \/ Larger(q, b, r, c) => Larger(p, a, r, c)
      BY <3>1, <3>2, FractionOrder
    <3> QED BY <3>1, <3>3 DEF HigherOccupancy, Larger
  <2>4. CASE HigherOccupancy(x, y) \/ HigherOccupancy(y, z)
    BY <2>3, <2>4
  <2>5. CASE SortsBefore(x.vehicle, y.vehicle) /\ SortsBefore(y.vehicle, z.vehicle)
    <3>1. SortsBefore(x.vehicle, z.vehicle)
      BY <1>2, <2>5 DEF SortsBefore
    <3> QED BY <2>3, <3>1
  <2> QED BY <1>5, <2>4, <2>5
<1>6. Orders(R, S)
  <2> HIDE DEF R, Before
  <2> QED BY <1>3, <1>4, <1>5 DEF Orders
<1>7. PICK x \in S : \A y \in S : y # x => <<x, y>> \in R
  <2> HIDE DEF R
  <2> QED BY <1>1, <1>6, FirstExists
<1>8. \A y \in S : y # x => Before(x, y)
  BY <1>3, <1>7
<1>9. /\ \A y \in S : ~HigherOccupancy(y, x)
      /\ \A y \in S : y # x /\ ~HigherOccupancy(x, y) => SortsBefore(x.vehicle, y.vehicle)
  <2>1. ASSUME NEW y \in S PROVE ~HigherOccupancy(y, x)
    BY <1>2, <1>8 DEF HigherOccupancy
  <2> QED BY <1>8, <2>1
<1> QED BY <1>9 DEF WorstVehicle, FirstMax

(* When evaluate answers with an alert, it is one.                         *)
LEMMA AlertIsRaised ==
    ASSUME CInv, Simulated, vehiclePreds # {}, OccupancyTriggered \/ StrandedTriggered
    PROVE  /\ Evaluate # None
           /\ \E w \in IF OccupancyTriggered THEN Qualifying ELSE vehiclePreds :
                 /\ w = WorstVehicle(IF OccupancyTriggered THEN Qualifying ELSE vehiclePreds)
                 /\ Evaluate.vehicle = w.vehicle
                 /\ Evaluate.passengers = w.peak
<1> DEFINE S == IF OccupancyTriggered THEN Qualifying ELSE vehiclePreds
<1>0. AInv /\ snapshot \in Snapshots
  BY DEF CInv, AInv, IInv, TypeOK
<1>1. S \in SUBSET vehiclePreds /\ S # {}
  BY DEF Qualifying, OccupancyTriggered
<1> HIDE DEF S
<1>2. PICK w \in S : w = WorstVehicle(S)
  BY <1>0, <1>1, WorstVehicleFacts
<1>3. Summarises(w)
  BY <1>0, <1>1 DEF AInv, Summaries
<1>4. PICK p \in PredsOf(w.vehicle) : p = WorstStop(w.vehicle)
  <2>1. PredsOf(w.vehicle) # {}
    BY <1>3 DEF Summarises
  <2> QED BY <1>0, <2>1, WorstStopFacts
<1>5. p.passengers \in Nat /\ p.stop \in Nat
  <2>1. p.passengers \in Nat /\ p.stop \in Stops
    BY <1>0 DEF PredsOf, AInv, IInv, TypeOK, StopPrediction
  <2> QED BY <1>0, <2>1, SnapshotFacts DEF Stops
<1>6. p.passengers = w.peak
  <2>1. PICK q \in PredsOf(w.vehicle) : q.passengers = w.peak
    BY <1>3 DEF Summarises
  <2>2. p.passengers <= w.peak /\ w.peak \in Nat
    BY <1>3 DEF Summarises
  <2>3. ~ (q.passengers > p.passengers)
    BY <1>0, <1>4, WorstStopFacts
  <2> QED BY <1>5, <2>1, <2>2, <2>3
<1>7. w.vehicle \in Nat
  BY <1>0, <1>3, SnapshotFacts DEF Summarises
<1>8. TotalStranded \in Nat
  BY DEF CInv, StrandedBalance, TotalStranded
<1>9. Evaluate = [vehicle |-> w.vehicle, stop |-> p.stop,
                  passengers |-> p.passengers, stranded |-> TotalStranded]
  BY <1>2, <1>4 DEF Evaluate, S
<1>10. Evaluate \in Alert
  BY <1>5, <1>7, <1>8, <1>9 DEF Alert
<1>11. Evaluate.vehicle = w.vehicle /\ Evaluate.passengers = w.peak
  BY <1>6, <1>9
<1> QED BY <1>2, <1>10, <1>11, AlertAssumption DEF S

(* evaluate keeps quiet about no full vehicle that leaves passengers       *)
(* behind, and about no large number of stranded passengers.               *)
THEOREM StrandingReported == Spec => []StrandingIsReported
<1>1. CInv => StrandingIsReported
  <2> SUFFICES ASSUME CInv, phase = "done"
               PROVE  FullVehicleIsReported /\ ManyStrandedAreReported
    BY DEF StrandingIsReported
  <2>0. AInv /\ IInv /\ (vehiclePreds # {} => Simulated)
    BY DEF CInv, AInv, Blank, Busy
  <2>1. FullVehicleIsReported
    <3> SUFFICES ASSUME OccupancyNum <= OccupancyDen,
                        NEW vp \in Qualifying, NEW p \in PredsOf(vp.vehicle),
                        remaining[p.stop] > 0
                 PROVE  /\ Evaluate # None
                        /\ Evaluate.passengers >= Capacity(Evaluate.vehicle)
      BY DEF FullVehicleIsReported
    <3>1. /\ vp \in vehiclePreds /\ Qualifying \in SUBSET vehiclePreds /\ Qualifying # {}
          /\ Simulated
      BY <2>0 DEF Qualifying
    <3>2. PICK w \in Qualifying : w = WorstVehicle(Qualifying) /\ ~HigherOccupancy(vp, w)
      BY <2>0, <3>1, WorstVehicleFacts
    <3>3. \A x \in vehiclePreds : /\ x.peak \in Int /\ Capacity(x.vehicle) \in Int
                                  /\ Capacity(x.vehicle) > 0
      <4>1. \A x \in vehiclePreds : x.vehicle \in Vehicles /\ Capacity(x.vehicle) > 0 /\ x.peak \in Nat
        BY <2>0 DEF AInv, Summaries, Summarises
      <4> QED BY <2>0, <4>1, SnapshotFacts DEF IInv, TypeOK
    <3>4. vp.peak >= Capacity(vp.vehicle)
      <4>1. p.passengers >= Capacity(vp.vehicle) /\ p.passengers \in Nat
        BY <2>0 DEF IInv, NoStrandedWithRoom, PredsOf, TypeOK, StopPrediction
      <4>2. p.passengers <= vp.peak
        BY <2>0, <3>1 DEF AInv, Summaries, Summarises
      <4> QED BY <3>1, <3>3, <4>1, <4>2
    <3>5. PICK pv \in Int, pw \in Int, cv \in Int, cw \in Int :
              /\ pv = vp.peak /\ pw = w.peak
              /\ cv = Capacity(vp.vehicle) /\ cw = Capacity(w.vehicle)
              /\ cv > 0 /\ cw > 0 /\ pv >= cv /\ ~ (pv * cw > pw * cv)
      BY <3>1, <3>2, <3>3, <3>4 DEF HigherOccupancy
    <3>6. pw >= cw
      <4>1. pv * cw >= cv * cw
        BY <3>5, ScaledOrder
      <4>2. pw * cv >= cw * cv
        BY <3>5, <4>1
      <4> QED BY <3>5, <4>2, ScaledOrder
    <3>7. OverThreshold(w)
      <4>1. PICK num \in Nat, den \in Nat : num = OccupancyNum /\ den = OccupancyDen
                                         /\ den >= num /\ den > 0
        BY EvaluatorAssumption
      <4>2. pw * den >= cw * den
        BY <3>5, <3>6, <4>1, ScaledOrder
      <4>3. den * cw >= num * cw
        BY <3>5, <4>1, ScaledOrder
      <4>4. pw * den >= num * cw
        BY <4>2, <4>3
      <4> QED BY <3>5, <4>1, <4>4 DEF OverThreshold
    <3>8. OccupancyTriggered
      BY <3>1, <3>2, <3>7 DEF OccupancyTriggered
    <3>9. /\ Evaluate # None
          /\ Evaluate.vehicle = w.vehicle /\ Evaluate.passengers = w.peak
      BY <3>1, <3>2, <3>8, AlertIsRaised
    <3> QED BY <3>5, <3>6, <3>9
  <2>2. ManyStrandedAreReported
    <3> SUFFICES ASSUME vehiclePreds # {}, Cardinality(StopIds) = N,
                        SumFunctionOnSet(remaining, Stops) >= MinStranded
                 PROVE  Evaluate # None
      BY DEF ManyStrandedAreReported
    <3>1. StrandedTriggered
      BY <2>0 DEF CInv, StrandedBalance, StrandedTriggered, TotalStranded
    <3> QED BY <2>0, <3>1, AlertIsRaised
  <2> QED BY <2>1, <2>2
<1> QED BY <1>1, InitCInv, StepCInv, PTL DEF Spec

-----------------------------------------------------------------------------
(* The feed: what the table holds, and that vehicles do not go back.       *)

(* The rows that feeds up to time n can have.                              *)
FeedRow(n) ==
    {r \in [time : StartTime .. n, trip : Trip, stop : Stop] :
        Arrival[r.trip][r.stop] > r.time}

RowAt(time, t, s) == [time |-> time, trip |-> t, stop |-> s]

(* A trip that is in a feed is there with every stop it has not reached.   *)
Whole(rows, r) ==
    \A s \in Stop : Arrival[r.trip][s] > r.time => RowAt(r.time, r.trip, s) \in rows

FeedInv ==
    /\ now \in Nat /\ StartTime <= now
    /\ feeds \subseteq StartTime .. now
    /\ updates \subseteq FeedRow(now) /\ table \subseteq FeedRow(now)
    /\ \A r \in updates : Whole(updates, r)
    /\ \A r \in table : r.trip \notin holes => Whole(table, r)

(* What a row is made of.                                                  *)
LEMMA RowParts ==
    ASSUME NEW n \in Nat, NEW r \in FeedRow(n)
    PROVE  /\ r.time \in Int /\ StartTime <= r.time /\ r.time <= n
           /\ r.trip \in Trip /\ r.stop \in Stop /\ r.stop \in Nat
           /\ Arrival[r.trip][r.stop] > r.time
           /\ r = RowAt(r.time, r.trip, r.stop)
<1>1. /\ r \in [time : StartTime .. n, trip : Trip, stop : Stop]
      /\ Arrival[r.trip][r.stop] > r.time
  BY DEF FeedRow
<1>2. r.time \in StartTime .. n /\ r.trip \in Trip /\ r.stop \in Stop
  BY <1>1
<1>3. r = RowAt(r.time, r.trip, r.stop)
  BY <1>1 DEF RowAt
<1>s. StartTime \in Nat /\ Stop \subseteq Nat
  BY FeedAssumption
<1>4. r.time \in Int /\ StartTime <= r.time /\ r.time <= n
  BY <1>2, <1>s
<1>5. r.stop \in Nat
  BY <1>2, <1>s
<1> QED BY <1>1, <1>2, <1>3, <1>4, <1>5

(* And the other way round.                                                *)
LEMMA RowMade ==
    ASSUME NEW n \in Nat, NEW k \in StartTime .. n, NEW t \in Trip, NEW s \in Stop
    PROVE  /\ RowAt(k, t, s).time = k /\ RowAt(k, t, s).trip = t /\ RowAt(k, t, s).stop = s
           /\ Arrival[t][s] > k => RowAt(k, t, s) \in FeedRow(n)
BY FeedAssumption DEF FeedRow, RowAt

(* The rows of a feed stay possible.                                       *)
LEMMA RowsLater ==
    ASSUME NEW n \in Nat
    PROVE  FeedRow(n) \subseteq FeedRow(n + 1)
<1>1. StartTime .. n \subseteq StartTime .. n + 1
  BY FeedAssumption
<1> QED BY <1>1 DEF FeedRow

(* The system starts in the invariant.                                     *)
LEMMA FeedInitInv == FeedInit => FeedInv
<1> SUFFICES ASSUME FeedInit PROVE FeedInv
  OBVIOUS
<1>1. now \in Nat /\ StartTime <= now
  BY FeedAssumption DEF FeedInit
<1> QED BY <1>1 DEF FeedInit, FeedInv

(* Every step of the provider and of the fetcher keeps the invariant.      *)
LEMMA FeedStep == FeedInv /\ [FeedNext]_feedVars => FeedInv'
<1> SUFFICES ASSUME FeedInv, [FeedNext]_feedVars PROVE FeedInv'
  OBVIOUS
<1>i. /\ now \in Nat /\ StartTime <= now /\ StartTime \in Nat
      /\ feeds \subseteq StartTime .. now
      /\ updates \subseteq FeedRow(now) /\ table \subseteq FeedRow(now)
      /\ \A r \in updates : Whole(updates, r)
      /\ \A r \in table : r.trip \notin holes => Whole(table, r)
  BY FeedAssumption DEF FeedInv
<1>1. CASE Tick
  <2>1. now' = now + 1 /\ UNCHANGED <<feeds, updates, table, holes>>
    BY <1>1 DEF Tick, fetcher
  <2>2. now' \in Nat /\ StartTime <= now' /\ StartTime .. now \subseteq StartTime .. now'
    BY <1>i, <2>1
  <2>3. FeedRow(now) \subseteq FeedRow(now + 1)
    BY <1>i, RowsLater
  <2>4. updates' \subseteq FeedRow(now') /\ table' \subseteq FeedRow(now')
    BY <1>i, <2>1, <2>3
  <2> QED BY <1>i, <2>1, <2>2, <2>4 DEF FeedInv
<1>2. CASE Refresh
  <2>1. /\ feeds' = {now} \cup (IF feeds = {} THEN {} ELSE {Max(feeds)})
        /\ UNCHANGED <<now, updates, table, holes>>
    BY <1>2 DEF Refresh, fetcher
  <2>2. feeds # {} => Max(feeds) \in feeds
    <3>1. PICK S : S = feeds
      OBVIOUS
    <3>2. S \subseteq StartTime .. now /\ IsFiniteSet(StartTime .. now)
      BY <1>i, <3>1, FS_Interval
    <3>a. IsFiniteSet(S)
      BY <3>2, FS_Subset
    <3>b. StartTime .. now \subseteq Int
      BY <1>i
    <3>3. S \in SUBSET Int /\ IsFiniteSet(S)
      BY <3>2, <3>a, <3>b
    <3>4. S # {} => Max(S) \in S
      BY <3>3, MaxFacts
    <3> QED BY <3>1, <3>4
  <2>3. feeds' \subseteq StartTime .. now
    <3>1. now \in StartTime .. now
      BY <1>i
    <3>2. \A x \in feeds' : x = now \/ x \in feeds
      BY <2>1, <2>2
    <3> QED BY <1>i, <3>1, <3>2
  <2> QED BY <1>i, <2>1, <2>3 DEF FeedInv
<1>3. ASSUME NEW time \in feeds, Fetch(time) PROVE FeedInv'
  <2>1. /\ updates' = ParseTripUpdates(Feed(time))
        /\ UNCHANGED <<now, feeds, table, holes>>
    BY <1>3 DEF Fetch, world
  <2>2. time \in StartTime .. now
    BY <1>3, <1>i
  <2>3. ASSUME NEW r
        PROVE  r \in updates' <=>
                 /\ r \in FeedRow(now) /\ r.time = time /\ RouteOf[r.trip] \in filter
    BY <2>1, <2>2 DEF ParseTripUpdates, Feed, FeedRow
  <2>4. updates' \subseteq FeedRow(now')
    BY <2>1, <2>3
  <2>5. ASSUME NEW r \in updates', NEW s \in Stop, Arrival[r.trip][s] > r.time
        PROVE  RowAt(r.time, r.trip, s) \in updates'
    <3>1. r \in FeedRow(now) /\ r.time = time /\ RouteOf[r.trip] \in filter
      BY <2>3, <2>5
    <3>2. r.trip \in Trip
      BY <1>i, <3>1, RowParts
    <3>3. PICK t \in Trip : t = r.trip
      BY <3>2
    <3>4. /\ RowAt(time, t, s) \in FeedRow(now)
          /\ RowAt(time, t, s).time = time /\ RowAt(time, t, s).trip = t
      BY <1>i, <2>2, <2>5, <3>1, <3>3, RowMade
    <3> QED BY <2>3, <3>1, <3>3, <3>4
  <2>6. \A r \in updates' : Whole(updates', r)
    BY <2>5 DEF Whole
  <2> QED BY <1>i, <2>1, <2>4, <2>6 DEF FeedInv
<1>4. CASE WriteTripUpdates
  <2>1. updates' = {} /\ UNCHANGED <<now, feeds>>
    BY <1>4 DEF WriteTripUpdates, world
  <2>2. PICK failed \in SUBSET updates :
          /\ table' = table \cup (updates \ failed)
          /\ holes' = holes \cup {r.trip : r \in failed}
    <3>1. CASE table' = table \cup updates /\ holes' = holes
      <4>1. table' = table \cup (updates \ {}) /\ holes' = holes \cup {r.trip : r \in {}}
        BY <3>1
      <4> QED BY <4>1
    <3>2. CASE ~ (table' = table \cup updates /\ holes' = holes)
      BY <1>4, <3>2 DEF WriteTripUpdates
    <3> QED BY <3>1, <3>2
  <2>3. table' \subseteq FeedRow(now')
    BY <1>i, <2>1, <2>2
  <2>4. ASSUME NEW r \in table', r.trip \notin holes', NEW s \in Stop,
               Arrival[r.trip][s] > r.time
        PROVE  RowAt(r.time, r.trip, s) \in table'
    <3>1. CASE r \in table
      BY <1>i, <2>2, <2>4, <3>1 DEF Whole
    <3>2. CASE r \in updates
      <4>1. PICK x : x = RowAt(r.time, r.trip, s) /\ x \in updates
        BY <1>i, <2>4, <3>2 DEF Whole
      <4>2. x.trip = r.trip
        BY <4>1 DEF RowAt
      <4>3. x \notin failed
        BY <2>2, <2>4, <4>2
      <4> QED BY <2>2, <4>1, <4>3
    <3> QED BY <2>2, <2>4, <3>1, <3>2
  <2>5. \A r \in table' : r.trip \notin holes' => Whole(table', r)
    BY <2>4 DEF Whole
  <2> QED BY <1>i, <2>1, <2>3, <2>5 DEF FeedInv
<1>5. CASE Purge
  <2>1. /\ table' = Kept(table) \/ table' = table
        /\ UNCHANGED <<now, feeds, updates, holes>>
    BY <1>5 DEF Purge, world
  <2>2. CASE table' = table
    BY <1>i, <2>1, <2>2 DEF FeedInv
  <2>3. CASE table' = Kept(table)
    <3>1. ASSUME NEW r
          PROVE  r \in table' <=> r \in table /\ Cardinality(Newer(table, r.time)) < Retain
      BY <2>3 DEF Kept
    <3>2. ASSUME NEW r \in table', r.trip \notin holes', NEW s \in Stop,
                 Arrival[r.trip][s] > r.time
          PROVE  RowAt(r.time, r.trip, s) \in table'
      <4>1. PICK x : x = RowAt(r.time, r.trip, s)
        OBVIOUS
      <4>2. x.time = r.time
        BY <4>1 DEF RowAt
      <4>3. r \in table /\ Cardinality(Newer(table, r.time)) < Retain
        BY <3>1, <3>2
      <4>4. x \in table
        BY <1>i, <2>1, <3>2, <4>1, <4>3 DEF Whole
      <4>5. x \in table'
        BY <3>1, <4>2, <4>3, <4>4
      <4> QED BY <4>1, <4>5
    <3>3. \A r \in table' : r.trip \notin holes' => Whole(table', r)
      BY <3>2 DEF Whole
    <3>4. table' \subseteq FeedRow(now')
      BY <1>i, <2>1, <3>1
    <3> QED BY <1>i, <2>1, <3>3, <3>4 DEF FeedInv
  <2> QED BY <2>1, <2>2, <2>3
<1>6. CASE Restart
  <2>1. updates' = {} /\ UNCHANGED <<now, feeds, table, holes>>
    BY <1>6 DEF Restart, world
  <2> QED BY <1>i, <2>1 DEF FeedInv
<1>7. CASE FetchFails \/ UNCHANGED feedVars
  <2>1. UNCHANGED <<now, feeds, updates, table, holes>>
    BY <1>7 DEF FetchFails, feedVars, world, fetcher
  <2> QED BY <1>i, <2>1 DEF FeedInv
<1> QED BY <1>1, <1>2, <1>3, <1>4, <1>5, <1>6, <1>7 DEF FeedNext

(* The stops a trip has not reached at a time.                             *)
Ahead(t, k) == {s \in Stop : Arrival[t][s] > k}

LatestOf(rows, t, k) ==
    /\ \E r \in rows : r.trip = t /\ r.time = k
    /\ \A r \in rows : r.trip = t => r.time <= k

(* _query_vehicles: where a trip is, by its rows.                          *)
StopBy(rows, t) == Min({r.stop : r \in Newest({x \in rows : x.trip = t})})

(* The smallest of a set of numbers.                                       *)
LEMMA MinFacts ==
    ASSUME NEW S \in SUBSET Nat, S # {}
    PROVE  Min(S) \in S /\ \A y \in S : Min(S) <= y
<1>1. \E x \in S : \A y \in S : x <= y
  BY LeastNatural
<1> QED BY <1>1 DEF Min

(* A trip without holes is where its latest feed says.                     *)
LEMMA StopByLatest ==
    ASSUME NEW n \in Nat, NEW rows \in SUBSET FeedRow(n), NEW t \in Trip,
           \E r \in rows : r.trip = t,
           \A r \in rows : r.trip = t => Whole(rows, r)
    PROVE  \E k \in Int : /\ LatestOf(rows, t, k)
                          /\ StopBy(rows, t) = Min(Ahead(t, k)) /\ Ahead(t, k) # {}
<1>0. StartTime \in Nat /\ Stop \subseteq Nat
  BY FeedAssumption
<1> DEFINE times == {r.time : r \in {x \in rows : x.trip = t}}
<1>1. PICK k \in times : \A j \in times : j <= k
  <2>1. times \subseteq StartTime .. n
    BY <1>0, RowParts
  <2>2. IsFiniteSet(times)
    <3>1. IsFiniteSet(StartTime .. n)
      BY <1>0, FS_Interval
    <3> HIDE DEF times
    <3> QED BY <2>1, <3>1, FS_Subset
  <2>3. StartTime .. n \subseteq Int
    BY <1>0
  <2>4. times # {}
    OBVIOUS
  <2> HIDE DEF times
  <2>5. times \in SUBSET Int
    BY <2>1, <2>3
  <2> QED BY <2>2, <2>4, <2>5, MaxFacts
<1>2. LatestOf(rows, t, k)
  BY <1>1 DEF LatestOf
<1>3. PICK top \in rows : top.trip = t /\ top.time = k
  BY <1>2 DEF LatestOf
<1>4. k \in Int /\ \A r \in rows : r.trip = t => r.time \in Int /\ r.time <= k
  BY <1>2, <1>3, RowParts DEF LatestOf
<1>5. ASSUME NEW r
      PROVE  r \in Newest({x \in rows : x.trip = t}) <=>
                r \in rows /\ r.trip = t /\ r.time = k
  <2>1. r \in Newest({x \in rows : x.trip = t}) =>
           r \in rows /\ r.trip = t /\ k <= r.time
    BY <1>3 DEF Newest
  <2>2. r \in rows /\ r.trip = t /\ r.time = k =>
           r \in Newest({x \in rows : x.trip = t})
    BY <1>4 DEF Newest
  <2> QED BY <1>4, <2>1, <2>2
<1>6. {r.stop : r \in Newest({x \in rows : x.trip = t})} = Ahead(t, k)
  <2>1. ASSUME NEW r \in rows, r.trip = t, r.time = k PROVE r.stop \in Ahead(t, k)
    BY <2>1, RowParts DEF Ahead
  <2>2. ASSUME NEW s \in Ahead(t, k)
        PROVE  \E r \in rows : r.trip = t /\ r.time = k /\ r.stop = s
    <3>1. s \in Stop /\ Arrival[t][s] > k
      BY <2>2 DEF Ahead
    <3>2. RowAt(k, t, s) \in rows
      BY <1>3, <3>1 DEF Whole
    <3>3. RowAt(k, t, s).trip = t /\ RowAt(k, t, s).time = k /\ RowAt(k, t, s).stop = s
      BY DEF RowAt
    <3> QED BY <3>2, <3>3
  <2>3. PICK newest : newest = Newest({x \in rows : x.trip = t})
    OBVIOUS
  <2>4. \A r : r \in newest <=> r \in rows /\ r.trip = t /\ r.time = k
    BY <1>5, <2>3
  <2>5. {r.stop : r \in newest} = Ahead(t, k)
    BY <2>1, <2>2, <2>4
  <2> QED BY <2>3, <2>5
<1>7. Ahead(t, k) # {}
  BY <1>3, RowParts DEF Ahead
<1> QED BY <1>2, <1>4, <1>6, <1>7 DEF StopBy

(* purge_old_trip_updates keeps the latest rows of every trip it keeps.    *)
LEMMA PurgeKeepsLatest ==
    ASSUME NEW n \in Nat, NEW rows \in SUBSET FeedRow(n),
           NEW x \in Kept(rows), NEW y \in rows, x.time <= y.time
    PROVE  y \in Kept(rows)
<1>1. x \in rows /\ Cardinality(Newer(rows, x.time)) < Retain
  BY DEF Kept
<1>2. x.time \in Int /\ y.time \in Int /\ \A r \in rows : r.time \in StartTime .. n
  BY <1>1, RowParts, FeedAssumption
<1>3. PICK A, B : A = Newer(rows, x.time) /\ B = Newer(rows, y.time)
  OBVIOUS
<1>4. A \subseteq StartTime .. n /\ B \subseteq A
  <2>1. \A k : k \in A => k \in StartTime .. n
    BY <1>2, <1>3 DEF Newer, Times
  <2>2. \A k : k \in B => k \in StartTime .. n /\ k > y.time
    BY <1>2, <1>3 DEF Newer, Times
  <2>3. \A k \in StartTime .. n : k > y.time => k > x.time
    BY <1>2, FeedAssumption
  <2>4. \A k : k \in B => k \in A
    BY <1>3, <2>2, <2>3 DEF Newer
  <2> QED BY <2>1, <2>4
<1>5. IsFiniteSet(A)
  <2>1. IsFiniteSet(StartTime .. n)
    BY FeedAssumption, FS_Interval
  <2> QED BY <1>4, <2>1, FS_Subset
<1>6. Cardinality(B) <= Cardinality(A) /\ Cardinality(A) \in Nat /\ Cardinality(B) \in Nat
  BY <1>4, <1>5, FS_Subset, FS_CardinalityType
<1>7. Retain \in Nat
  BY FeedAssumption
<1>8. Cardinality(B) < Retain
  BY <1>1, <1>3, <1>6, <1>7
<1> QED BY <1>3, <1>8 DEF Kept

(* A vehicle of the snapshots never goes back on its route, whichever of   *)
(* the latest feeds the provider serves, whatever is purged, whenever the  *)
(* fetcher is restarted, unless rows of the trip could not be inserted     *)
(* (_query_vehicles, write_gtfs_trip_updates, purge_old_trip_updates).     *)
THEOREM VehiclesNeverGoBack == FeedSpec => VehiclesAdvance
<1>1. ASSUME FeedInv, FeedInv', FeedNext, NEW t \in Tracked, t \in Tracked', t \notin holes'
      PROVE  CurrentStop(t)' >= CurrentStop(t)
  <2>a. now \in Nat /\ now' \in Nat
    BY <1>1 DEF FeedInv
  <2>b. PICK n \in Nat, m \in Nat : n = now /\ m = now'
    BY <2>a
  <2>c. PICK rows, later : rows = table /\ later = table'
    OBVIOUS
  <2>1. rows = table /\ later = table' /\ n = now /\ m = now'
    BY <2>b, <2>c
  <2>2. /\ rows \in SUBSET FeedRow(n) /\ later \in SUBSET FeedRow(m)
        /\ \E r \in rows : r.trip = t
        /\ \E r \in later : r.trip = t
        /\ \A r \in later : r.trip = t => Whole(later, r)
    BY <1>1, <2>1 DEF FeedInv, Tracked
  <2>3. t \notin holes
    BY <1>1 DEF FeedNext, Tick, Refresh, Fetch, FetchFails, WriteTripUpdates, Purge, Restart
  <2>4. \A r \in rows : r.trip = t => Whole(rows, r)
    BY <1>1, <2>1, <2>3 DEF FeedInv
  <2>5. t \in Trip
    BY <2>2, RowParts
  <2>6. PICK k \in Int : /\ LatestOf(rows, t, k)
                         /\ StopBy(rows, t) = Min(Ahead(t, k)) /\ Ahead(t, k) # {}
    BY <2>2, <2>4, <2>5, StopByLatest
  <2>7. PICK j \in Int : /\ LatestOf(later, t, j)
                         /\ StopBy(later, t) = Min(Ahead(t, j)) /\ Ahead(t, j) # {}
    BY <2>2, <2>5, StopByLatest
  <2>8. k <= j
    <3>1. PICK top \in rows : top.trip = t /\ top.time = k
      BY <2>6 DEF LatestOf
    <3>2. CASE rows \subseteq later
      BY <2>7, <3>1, <3>2 DEF LatestOf
    <3>3. CASE later = Kept(rows)
      <4>1. PICK x \in later : x.trip = t
        BY <2>2
      <4>2. x \in rows
        BY <3>3, <4>1 DEF Kept
      <4>3. x.time <= top.time
        BY <2>6, <3>1, <4>1, <4>2 DEF LatestOf
      <4>4. top \in later
        BY <2>2, <3>3, <4>1, <4>3, PurgeKeepsLatest
      <4> QED BY <2>7, <3>1, <4>4 DEF LatestOf
    <3>4. table \subseteq table' \/ table' = Kept(table)
      BY <1>1 DEF FeedNext, Tick, Refresh, Fetch, FetchFails, WriteTripUpdates, Purge, Restart
    <3> QED BY <2>1, <3>2, <3>3, <3>4
  <2>9. StopBy(later, t) >= StopBy(rows, t)
    <3>1. Ahead(t, j) \subseteq Ahead(t, k)
      <4>1. \A s \in Stop : Arrival[t][s] \in Int
        BY <2>5, FeedAssumption
      <4> QED BY <2>8, <4>1 DEF Ahead
    <3>2. Ahead(t, k) \in SUBSET Nat /\ Ahead(t, j) \in SUBSET Nat
      BY FeedAssumption DEF Ahead
    <3>3. PICK A \in SUBSET Nat, B \in SUBSET Nat : A = Ahead(t, k) /\ B = Ahead(t, j)
      BY <3>2
    <3>4. /\ Min(A) \in A /\ \A y \in A : Min(A) <= y
          /\ Min(B) \in B
      BY <2>6, <2>7, <3>3, MinFacts
    <3> QED BY <2>6, <2>7, <3>1, <3>3, <3>4
  <2>10. StopBy(rows, t) = CurrentStop(t) /\ StopBy(later, t) = CurrentStop(t)'
    BY <2>1 DEF StopBy, CurrentStop, RowsOf
  <2> QED BY <2>9, <2>10
<1>2. FeedInv /\ FeedInv' /\ [FeedNext]_feedVars
        => [\A t \in Tracked :
               t \in Tracked' /\ t \notin holes' => CurrentStop(t)' >= CurrentStop(t)]_feedVars
  BY <1>1
<1> QED BY <1>2, FeedInitInv, FeedStep, PTL DEF FeedSpec, VehiclesAdvance

-----------------------------------------------------------------------------
(* The shares of a queue: quotients, rounding and sums of shares.          *)

(* What division leaves.                                                   *)
LEMMA Division ==
    ASSUME NEW n \in Nat, NEW d \in Nat \ {0}
    PROVE  /\ n \div d \in Nat /\ n % d \in Nat
           /\ n = d * (n \div d) + (n % d) /\ n % d < d
<1>1. n \div d \in Nat /\ n % d \in Nat
  OBVIOUS
<1>2. n % d < d
  OBVIOUS
<1>3. n = d * (n \div d) + (n % d)
  OBVIOUS
<1> QED BY <1>1, <1>2, <1>3

Near(d, a, c, b, k) ==
    2 * (d * a) <= 2 * (c * b) + d * k /\ 2 * (d * a) >= 2 * (c * b) - d * k

(* Rounding moves a quotient by at most a half.                            *)
LEMMA RoundNear ==
    ASSUME NEW c \in Nat, NEW b \in Nat, NEW d \in Nat \ {0}
    PROVE  Near(d, Round(c * b, d), c, b, 1)
<1>1. PICK n \in Nat : n = c * b
  OBVIOUS
<1>2. PICK q \in Nat, r \in Nat : q = n \div d /\ r = n % d
  BY Division
<1>3. n = d * q + r /\ r < d
  BY <1>2, Division
<1>4. PICK m \in Nat : m = d * q
  OBVIOUS
<1>5. d * (q + 1) = m + d
  BY <1>4
<1>6. Round(n, d) = IF 2 * r < d \/ (2 * r = d /\ q % 2 = 0) THEN q ELSE q + 1
  BY <1>2 DEF Round
<1>7. CASE Round(n, d) = q /\ 2 * r <= d
  BY <1>1, <1>3, <1>4, <1>7 DEF Near
<1>8. CASE Round(n, d) = q + 1 /\ 2 * r >= d
  BY <1>1, <1>3, <1>4, <1>5, <1>8 DEF Near
<1> QED BY <1>6, <1>7, <1>8

LEMMA RoundMonotone ==
    ASSUME NEW m \in Nat, NEW n \in Nat, m <= n, NEW d \in Nat \ {0}
    PROVE  Round(m, d) <= Round(n, d)
<1>1. PICK p \in Nat, r \in Nat : p = m \div d /\ r = m % d
  BY Division
<1>2. PICK q \in Nat, s \in Nat : q = n \div d /\ s = n % d
  BY Division
<1>3. m = d * p + r /\ r < d /\ n = d * q + s /\ s < d
  BY <1>1, <1>2, Division
<1>4. Round(m, d) = IF 2 * r < d \/ (2 * r = d /\ p % 2 = 0) THEN p ELSE p + 1
  BY <1>1 DEF Round
<1>5. Round(n, d) = IF 2 * s < d \/ (2 * s = d /\ q % 2 = 0) THEN q ELSE q + 1
  BY <1>2 DEF Round
<1>6. p <= q
  <2> SUFFICES ASSUME q + 1 <= p PROVE FALSE
    OBVIOUS
  <2>1. d * (q + 1) <= d * p
    OBVIOUS
  <2>2. d * (q + 1) = d * q + d
    OBVIOUS
  <2> QED BY <1>3, <2>1, <2>2
<1>7. CASE p < q
  BY <1>4, <1>5, <1>7
<1>8. CASE p = q
  <2>1. r <= s
    BY <1>3, <1>8
  <2> QED BY <1>4, <1>5, <1>8, <2>1
<1> QED BY <1>6, <1>7, <1>8

LEMMA NearAdds ==
    ASSUME NEW d \in Int, NEW c \in Int, NEW a \in Int, NEW b \in Int, NEW k \in Int,
           NEW x \in Int, NEW y \in Int, NEW j \in Int,
           Near(d, a, c, b, k), Near(d, x, c, y, j)
    PROVE  Near(d, a + x, c, b + y, k + j)
<1>1. d * (a + x) = d * a + d * x /\ c * (b + y) = c * b + c * y /\ d * (k + j) = d * k + d * j
  OBVIOUS
<1>2. PICK da \in Int, dx \in Int, cb \in Int, cy \in Int, dk \in Int, dj \in Int :
          /\ da = d * a /\ dx = d * x /\ cb = c * b /\ cy = c * y
          /\ dk = d * k /\ dj = d * j
  OBVIOUS
<1>3. /\ 2 * da <= 2 * cb + dk /\ 2 * da >= 2 * cb - dk
      /\ 2 * dx <= 2 * cy + dj /\ 2 * dx >= 2 * cy - dj
  BY <1>2 DEF Near
<1>4. /\ 2 * (da + dx) <= 2 * (cb + cy) + (dk + dj)
      /\ 2 * (da + dx) >= 2 * (cb + cy) - (dk + dj)
  BY <1>3
<1> QED BY <1>1, <1>2, <1>4 DEF Near

(* Shares that add up to the whole, or less.                               *)
LEMMA NearWhole ==
    ASSUME NEW d \in Nat \ {0}, NEW c \in Nat, NEW a \in Int, NEW b \in Int, NEW k \in Int,
           Near(d, a, c, b, k)
    PROVE  /\ b <= d => 2 * (a - c) <= k
           /\ b = d => 2 * (a - c) >= - k
<1>1. ASSUME b <= d PROVE 2 * (a - c) <= k
  <2>1. c * b <= c * d
    BY <1>1
  <2>2. c * d = d * c
    OBVIOUS
  <2>3. d * (2 * (a - c) - k) = 2 * (d * a) - 2 * (d * c) - d * k
    OBVIOUS
  <2>4. PICK e \in Int : e = 2 * (a - c) - k
    OBVIOUS
  <2>5. d * e <= 0
    BY <2>1, <2>2, <2>3, <2>4 DEF Near
  <2>6. e <= 0
    BY <2>5
  <2> QED BY <2>4, <2>6
<1>2. ASSUME b = d PROVE 2 * (a - c) >= - k
  <2>2. c * b = d * c
    BY <1>2
  <2>3. d * (2 * (a - c) + k) = 2 * (d * a) - 2 * (d * c) + d * k
    OBVIOUS
  <2>4. PICK e \in Int : e = 2 * (a - c) + k
    OBVIOUS
  <2>5. d * e >= 0
    BY <2>2, <2>3, <2>4 DEF Near
  <2>6. e >= 0
    BY <2>5
  <2> QED BY <2>4, <2>6
<1> QED BY <1>1, <1>2

LEMMA InverseOrder ==
    ASSUME NEW a \in Nat, NEW b \in Nat, NEW c \in Nat \ {0}, NEW d \in Nat \ {0},
           c * a = d * b, c <= d
    PROVE  b <= a
<1> SUFFICES ASSUME a + 1 <= b PROVE FALSE
  OBVIOUS
<1>1. c * (a + 1) <= c * b
  OBVIOUS
<1>2. c * b <= d * b
  OBVIOUS
<1>3. c * (a + 1) = c * a + c
  OBVIOUS
<1> QED BY <1>1, <1>2, <1>3

(* The terms of U add up to the rounded shares of their weights.           *)
NearOn(d, p, c, w, U) ==
    Near(d, SumFunctionOnSet(p, U), c, SumFunctionOnSet(w, U), Cardinality(U))

(* Rounded shares add up to the share of the sum, give or take a half for  *)
(* each of them.                                                           *)
LEMMA SharesAdd ==
    ASSUME NEW S, IsFiniteSet(S), NEW d \in Int, NEW c \in Int, NEW p, NEW w,
           \A x \in S : p[x] \in Int /\ w[x] \in Int /\ Near(d, p[x], c, w[x], 1)
    PROVE  \A U \in SUBSET S : NearOn(d, p, c, w, U)
<1> DEFINE bad == {U \in SUBSET S : ~ NearOn(d, p, c, w, U)}
<1> SUFFICES ASSUME bad # {} PROVE FALSE
  OBVIOUS
<1>1. PICK M \in bad : \A U \in bad : U \subseteq M => U = M
  <2>1. bad \in SUBSET SUBSET S
    OBVIOUS
  <2> HIDE DEF bad
  <2> QED BY <2>1, MinimalSubset
<1>2. M \in SUBSET S /\ IsFiniteSet(M) /\ ~ NearOn(d, p, c, w, M)
  BY FS_Subset
<1>3. CASE M = {}
  <2>1. SumFunctionOnSet(p, M) = 0 /\ SumFunctionOnSet(w, M) = 0 /\ Cardinality(M) = 0
    BY <1>2, <1>3, SumFacts, FS_EmptySet
  <2>2. Near(d, 0, c, 0, 0)
    BY DEF Near
  <2> QED BY <1>2, <2>1, <2>2 DEF NearOn
<1>4. CASE M # {}
  <2>1. PICK z \in M : TRUE
    BY <1>4
  <2>2. PICK L : L = M \ {z}
    OBVIOUS
  <2>3. L \in SUBSET S /\ L \subseteq M /\ L # M /\ IsFiniteSet(L)
    BY <1>2, <2>1, <2>2, FS_Subset
  <2>4. NearOn(d, p, c, w, L)
    BY <1>1, <2>3
  <2>5. /\ SumFunctionOnSet(p, M) = p[z] + SumFunctionOnSet(p, L)
        /\ SumFunctionOnSet(w, M) = w[z] + SumFunctionOnSet(w, L)
    BY <1>2, <2>1, <2>2, SumFacts
  <2>6. SumFunctionOnSet(p, L) \in Int /\ SumFunctionOnSet(w, L) \in Int
    BY <2>3, SumFacts
  <2>7. Cardinality(M) = 1 + Cardinality(L) /\ Cardinality(L) \in Int
    <3>1. Cardinality(L) = Cardinality(M) - 1 /\ Cardinality(L) \in Nat /\ Cardinality(M) \in Nat
      BY <1>2, <2>1, <2>2, <2>3, FS_RemoveElement, FS_CardinalityType
    <3> QED BY <3>1
  <2>8. PICK x \in Int, y \in Int, k \in Int : x = SumFunctionOnSet(p, L)
                      /\ y = SumFunctionOnSet(w, L) /\ k = Cardinality(L)
    BY <2>6, <2>7
  <2>9. PICK a \in Int, b \in Int, one \in Int : a = p[z] /\ b = w[z] /\ one = 1
    BY <1>2, <2>1
  <2>10. Near(d, a, c, b, one)
    BY <1>2, <2>1, <2>9
  <2>11. Near(d, x, c, y, k)
    BY <2>4, <2>8 DEF NearOn
  <2>12. Near(d, a + x, c, b + y, one + k)
    BY <2>10, <2>11, NearAdds
  <2> QED BY <1>2, <2>5, <2>7, <2>8, <2>9, <2>12 DEF NearOn
<1> QED BY <1>3, <1>4

(* Part of a sum of natural numbers is at most the sum.                    *)
LEMMA PartOfSum ==
    ASSUME NEW S, IsFiniteSet(S), NEW w, \A x \in S : w[x] \in Nat
    PROVE  \A U \in SUBSET S : SumFunctionOnSet(w, U) <= SumFunctionOnSet(w, S)
<1> DEFINE bad == {R \in SUBSET S : ~ SumFunctionOnSet(w, S \ R) <= SumFunctionOnSet(w, S)}
<1>0. bad = {}
  <2> SUFFICES ASSUME bad # {} PROVE FALSE
    OBVIOUS
  <2>1. PICK M \in bad : \A U \in bad : U \subseteq M => U = M
    <3>1. bad \in SUBSET SUBSET S
      OBVIOUS
    <3> HIDE DEF bad
    <3> QED BY <3>1, MinimalSubset
  <2>2. M \in SUBSET S /\ ~ SumFunctionOnSet(w, S \ M) <= SumFunctionOnSet(w, S)
    OBVIOUS
  <2>3. SumFunctionOnSet(w, S) \in Int
    BY SumFacts
  <2>4. CASE M = {}
    <3>1. S \ M = S
      BY <2>4
    <3> QED BY <2>2, <2>3, <3>1
  <2>5. CASE M # {}
    <3>1. PICK z \in M : TRUE
      BY <2>5
    <3>2. PICK L, A, B : L = M \ {z} /\ A = S \ M /\ B = S \ L
      OBVIOUS
    <3>3. L \in SUBSET S /\ L \subseteq M /\ L # M
      BY <2>2, <3>1, <3>2
    <3>4. SumFunctionOnSet(w, B) <= SumFunctionOnSet(w, S)
      BY <2>1, <3>2, <3>3
    <3>5. B \subseteq S /\ A \subseteq S /\ z \in B /\ A = B \ {z} /\ z \in S
      BY <2>2, <3>1, <3>2
    <3>6. IsFiniteSet(A) /\ IsFiniteSet(B)
      BY <3>5, FS_Subset
    <3>7. /\ SumFunctionOnSet(w, B) = w[z] + SumFunctionOnSet(w, A)
          /\ SumFunctionOnSet(w, A) \in Int /\ SumFunctionOnSet(w, B) \in Int
      BY <3>5, <3>6, SumFacts
    <3>8. w[z] \in Nat
      BY <3>5
    <3>9. SumFunctionOnSet(w, A) <= SumFunctionOnSet(w, S)
      BY <2>3, <3>4, <3>7, <3>8
    <3> QED BY <2>2, <3>2, <3>9
  <2> QED BY <2>4, <2>5
<1> SUFFICES ASSUME NEW U \in SUBSET S
             PROVE  SumFunctionOnSet(w, U) <= SumFunctionOnSet(w, S)
  OBVIOUS
<1>1. PICK R \in SUBSET S : R = S \ U
  OBVIOUS
<1>2. U = S \ R
  BY <1>1
<1> QED BY <1>0, <1>2

(* The inverse ETA of a route, over a common denominator.                  *)
Weights(etas) == [h \in DOMAIN etas |-> OtherEtas(etas, h)]
Handed(etas, routes, count) == [g \in routes |-> PeopleWaiting(etas, g, count)]

(* min_eta makes every ETA positive and keeps their order.                 *)
LEMMA ClampedFacts ==
    ASSUME NEW a \in Int
    PROVE  /\ Clamped(a) \in Nat \ {0}
           /\ \A b \in Int : a <= b => Clamped(a) <= Clamped(b)
<1>1. MinEta \in Nat \ {0}
  BY FeedAssumption
<1>2. ASSUME NEW e \in Int
      PROVE  Clamped(e) \in Int /\ Clamped(e) = IF e >= MinEta THEN e ELSE MinEta
  <2>4. MinEta \in Int
    BY <1>1
  <2>5. {e, MinEta} \in SUBSET Int
    BY <2>4
  <2>1. PICK S \in SUBSET Int : S = {e, MinEta}
    BY <2>5, Zenon
  <2>2. IsFiniteSet(S) /\ S # {}
    <3>1. IsFiniteSet({e}) /\ S = {e} \cup {MinEta}
      BY <2>1, FS_Singleton
    <3> QED BY <3>1, FS_AddElement
  <2>3. Max(S) \in S /\ \A y \in S : y <= Max(S)
    BY <2>2, MaxFacts
  <2> QED BY <1>1, <2>1, <2>3 DEF Clamped
<1> QED BY <1>1, <1>2

(* Weights are positive, their sum is the denominator of every share, and  *)
(* the nearer of two buses has the greater one.                            *)
LEMMA WeightFacts ==
    ASSUME NEW R, IsFiniteSet(R), NEW etas \in [R -> Int]
    PROVE  /\ \A g \in R : OtherEtas(etas, g) \in Nat \ {0}
           /\ \A g, h \in R : etas[g] <= etas[h] => OtherEtas(etas, h) <= OtherEtas(etas, g)
<1>1. PICK f : f = [h \in DOMAIN etas |-> Clamped(etas[h])]
  OBVIOUS
<1>2. \A h \in R : f[h] = Clamped(etas[h]) /\ f[h] \in Nat \ {0}
  <2>1. \A h \in R : f[h] = Clamped(etas[h]) /\ etas[h] \in Int
    BY <1>1
  <2> QED BY <2>1, ClampedFacts
<1>3. \A g \in R : OtherEtas(etas, g) = ProductOnSet(f, R \ {g})
  BY <1>1 DEF OtherEtas, ProductOnSet
<1>4. ASSUME NEW g \in R
      PROVE  /\ OtherEtas(etas, g) \in Nat \ {0}
             /\ ProductOnSet(f, R) = f[g] * OtherEtas(etas, g)
  <2>1. PICK L : L = R \ {g}
    OBVIOUS
  <2>2. IsFiniteSet(L) /\ \A x \in L : f[x] \in Nat \ {0}
    BY <1>2, <2>1, FS_RemoveElement
  <2>3. ProductOnSet(f, L) \in Nat \ {0}
    BY <2>2, ProductFacts
  <2>4. ProductOnSet(f, R) = f[g] * ProductOnSet(f, R \ {g})
    BY <1>2, ProductFacts
  <2> QED BY <1>3, <2>1, <2>3, <2>4
<1>5. ASSUME NEW g \in R, NEW h \in R, etas[g] <= etas[h]
      PROVE  OtherEtas(etas, h) <= OtherEtas(etas, g)
  <2>1. PICK a \in Nat, b \in Nat : a = OtherEtas(etas, g) /\ b = OtherEtas(etas, h)
    BY <1>4
  <2>2. PICK c \in Nat \ {0}, d \in Nat \ {0} : c = f[g] /\ d = f[h]
    BY <1>2
  <2>3. c * a = d * b
    BY <1>4, <2>1, <2>2
  <2>4. c <= d
    <3>1. etas[g] \in Int /\ etas[h] \in Int
      OBVIOUS
    <3>2. Clamped(etas[g]) <= Clamped(etas[h])
      BY <1>5, <3>1, ClampedFacts
    <3> QED BY <1>2, <2>2, <3>2
  <2> QED BY <2>1, <2>3, <2>4, InverseOrder
<1> QED BY <1>4, <1>5

(* The denominator of the shares.                                          *)
Denominator(etas) == SumFunction(Weights(etas))

LEMMA DenominatorFacts ==
    ASSUME NEW R, IsFiniteSet(R), R # {}, NEW etas \in [R -> Int]
    PROVE  /\ Denominator(etas) = SumFunctionOnSet(Weights(etas), R)
           /\ Denominator(etas) \in Nat \ {0}
           /\ \A g \in R : /\ Share(etas, g).num = OtherEtas(etas, g)
                           /\ Share(etas, g).den = Denominator(etas)
<1>1. DOMAIN Weights(etas) = R /\ \A g \in R : Weights(etas)[g] = OtherEtas(etas, g)
  BY DEF Weights
<1>2. Denominator(etas) = SumFunctionOnSet(Weights(etas), R)
  BY <1>1 DEF Denominator, SumFunction, SumFunctionOnSet, FoldFunction
<1>3. PICK w : w = Weights(etas)
  OBVIOUS
<1>4. \A x \in R : w[x] \in Nat \ {0}
  BY <1>1, <1>3, WeightFacts
<1>5. SumFunctionOnSet(w, R) \in Nat \ {0}
  <2>1. PICK z \in R : TRUE
    OBVIOUS
  <2>2. PICK L : L = R \ {z}
    OBVIOUS
  <2>3. IsFiniteSet(L) /\ \A x \in L : w[x] \in Nat
    BY <1>4, <2>2, FS_RemoveElement
  <2>4. SumFunctionOnSet(w, L) \in Nat
    BY <2>3, SumFacts
  <2>5. SumFunctionOnSet(w, R) = w[z] + SumFunctionOnSet(w, L)
    BY <1>4, <2>2, SumFacts
  <2> QED BY <1>4, <2>4, <2>5
<1>6. ASSUME NEW g \in R
      PROVE  Share(etas, g).num = OtherEtas(etas, g) /\ Share(etas, g).den = Denominator(etas)
  BY DEF Share, Denominator, Weights
<1> QED BY <1>2, <1>3, <1>5, <1>6

(* What is handed out to some of the routes that compete.                  *)
LEMMA TotalFacts ==
    ASSUME NEW R, IsFiniteSet(R), R # {}, NEW etas \in [R -> Int], NEW count \in Nat,
           NEW E \in SUBSET R
    PROVE  /\ Total(etas, E, count) \in Nat
           /\ Cardinality(E) \in Nat
           /\ 2 * (Total(etas, E, count) - count) <= Cardinality(E)
           /\ E = R => 2 * (Total(etas, E, count) - count) >= - Cardinality(E)
<1>1. PICK d \in Nat \ {0} : d = Denominator(etas)
  BY DenominatorFacts
<1>2. PICK w, p : w = Weights(etas) /\ p = Handed(etas, E, count)
  OBVIOUS
<1>3. IsFiniteSet(E) /\ Cardinality(E) \in Nat
  BY FS_Subset, FS_CardinalityType
<1>4. \A x \in R : w[x] = OtherEtas(etas, x) /\ w[x] \in Nat
  BY <1>2, WeightFacts DEF Weights
<1>5. ASSUME NEW x \in E
      PROVE  p[x] \in Nat /\ Near(d, p[x], count, w[x], 1)
  <2>1. PICK b \in Nat : b = w[x]
    BY <1>4
  <2>2. p[x] = Round(count * b, d)
    <3>1. p[x] = Round(count * Share(etas, x).num, Share(etas, x).den)
      BY <1>2 DEF Handed, PeopleWaiting
    <3>2. Share(etas, x).num = b /\ Share(etas, x).den = d
      BY <1>1, <1>4, <2>1, DenominatorFacts
    <3> QED BY <3>1, <3>2
  <2>3. PICK n \in Nat : n = count * b
    OBVIOUS
  <2>4. Round(n, d) \in Nat
    BY RoundType
  <2>5. Near(d, Round(count * b, d), count, b, 1)
    BY RoundNear
  <2> QED BY <2>1, <2>2, <2>3, <2>4, <2>5
<1>6. Total(etas, E, count) = SumFunctionOnSet(p, E)
  BY <1>2 DEF Total, Handed, SumFunction, SumFunctionOnSet, FoldFunction
<1>7. SumFunctionOnSet(p, E) \in Nat
  <2>1. \A x \in E : p[x] \in Nat
    BY <1>5
  <2> QED BY <1>3, <2>1, SumFacts
<1>8. NearOn(d, p, count, w, E)
  <2>1. \A x \in E : p[x] \in Int /\ w[x] \in Int /\ Near(d, p[x], count, w[x], 1)
    BY <1>4, <1>5
  <2>2. PICK U \in SUBSET E : U = E
    OBVIOUS
  <2>3. PICK e \in Int, c \in Int : e = d /\ c = count
    OBVIOUS
  <2>4. \A x \in E : p[x] \in Int /\ w[x] \in Int /\ Near(e, p[x], c, w[x], 1)
    BY <2>1, <2>3
  <2>5. NearOn(e, p, c, w, U)
    BY <1>3, <2>4, SharesAdd
  <2> QED BY <2>2, <2>3, <2>5
<1>9. PICK a \in Int, b \in Int, k \in Int : /\ a = SumFunctionOnSet(p, E)
                                             /\ b = SumFunctionOnSet(w, E) /\ k = Cardinality(E)
  <2>1. \A x \in E : w[x] \in Int
    BY <1>4
  <2>2. SumFunctionOnSet(w, E) \in Int
    BY <1>3, <2>1, SumFacts
  <2> QED BY <1>3, <1>7, <2>2
<1>10. Near(d, a, count, b, k)
  BY <1>8, <1>9 DEF NearOn
<1>11. /\ b <= d => 2 * (a - count) <= k
       /\ b = d => 2 * (a - count) >= - k
  BY <1>10, NearWhole
<1>12. b <= d /\ (E = R => b = d)
  <2>1. d = SumFunctionOnSet(w, R)
    BY <1>1, <1>2, DenominatorFacts
  <2>2. \A x \in R : w[x] \in Nat
    BY <1>4
  <2>3. SumFunctionOnSet(w, E) <= SumFunctionOnSet(w, R)
    BY <2>2, PartOfSum
  <2> QED BY <1>9, <2>1, <2>3
<1> QED BY <1>3, <1>6, <1>7, <1>9, <1>11, <1>12

(* A nearer bus gets as many or more.                                      *)
LEMMA NearerGetsMore ==
    ASSUME NEW R, IsFiniteSet(R), NEW etas \in [R -> Int], NEW count \in Nat,
           NEW g \in R, NEW h \in R, etas[g] <= etas[h]
    PROVE  PeopleWaiting(etas, g, count) >= PeopleWaiting(etas, h, count)
<1>0. R # {}
  OBVIOUS
<1>1. PICK d \in Nat \ {0} : d = Denominator(etas)
  BY <1>0, DenominatorFacts
<1>2. PICK a \in Nat, b \in Nat : a = OtherEtas(etas, g) /\ b = OtherEtas(etas, h)
  BY WeightFacts
<1>3. b <= a
  BY <1>2, WeightFacts
<1>4. PICK m \in Nat, n \in Nat : m = count * a /\ n = count * b
  OBVIOUS
<1>5. n <= m
  BY <1>3, <1>4
<1>6. Round(n, d) <= Round(m, d) /\ Round(n, d) \in Nat /\ Round(m, d) \in Nat
  BY <1>5, RoundMonotone, RoundType
<1>7. /\ PeopleWaiting(etas, g, count) = Round(m, d)
      /\ PeopleWaiting(etas, h, count) = Round(n, d)
  <2>1. /\ Share(etas, g).num = a /\ Share(etas, g).den = d
        /\ Share(etas, h).num = b /\ Share(etas, h).den = d
    BY <1>0, <1>1, <1>2, DenominatorFacts
  <2> QED BY <1>4, <2>1 DEF PeopleWaiting
<1> QED BY <1>6, <1>7

(* The routes of finitely many trips are finitely many.                    *)
LEMMA RoutesFinite ==
    ASSUME NEW T \in SUBSET Trip
    PROVE  IsFiniteSet({RouteOf[t] : t \in T})
<1>1. IsFiniteSet(T)
  BY FeedAssumption, FS_Subset
<1>2. PICK f : f = [t \in T |-> RouteOf[t]]
  OBVIOUS
<1>3. f \in Surjection(T, {RouteOf[t] : t \in T})
  BY <1>2 DEF Surjection
<1> QED BY <1>1, <1>3, FS_Surjection

TripsAt(s) == {r.trip : r \in LatestPerTrip(s)}

(* The soonest arrival of a route is that of one of its latest rows.       *)
LEMMA SoonestFacts ==
    ASSUME FeedInv, NEW s \in Stop
    PROVE  /\ DOMAIN SoonestPerRoute(s) = {RouteOf[t] : t \in TripsAt(s)}
           /\ TripsAt(s) \in SUBSET Trip
           /\ \A g \in DOMAIN SoonestPerRoute(s) :
                \E r \in LatestPerTrip(s) :
                   /\ RouteOf[r.trip] = g
                   /\ SoonestPerRoute(s)[g] = Arrival[r.trip][s] /\ Arrival[r.trip][s] \in Nat
<1>1. PICK n \in Nat : n = now
  BY DEF FeedInv
<1>2. table \in SUBSET FeedRow(n)
  BY <1>1 DEF FeedInv
<1>3. ASSUME NEW r \in LatestPerTrip(s)
      PROVE  r.trip \in Trip /\ Arrival[r.trip][s] \in Nat
  <2>1. r \in FeedRow(n) /\ r.stop = s
    BY <1>2 DEF LatestPerTrip
  <2>2. /\ r.time \in Int /\ StartTime <= r.time /\ r.trip \in Trip
        /\ Arrival[r.trip][s] > r.time
    BY <2>1, RowParts
  <2>3. Arrival[r.trip][s] \in Int
    BY <2>2, FeedAssumption
  <2>4. StartTime \in Nat
    BY FeedAssumption
  <2> QED BY <2>2, <2>3, <2>4
<1>4. DOMAIN SoonestPerRoute(s) = {RouteOf[t] : t \in TripsAt(s)}
  BY DEF SoonestPerRoute, TripsAt
<1>5. TripsAt(s) \in SUBSET Trip
  BY <1>3 DEF TripsAt
<1>6. ASSUME NEW g \in DOMAIN SoonestPerRoute(s)
      PROVE  \E r \in LatestPerTrip(s) :
                /\ RouteOf[r.trip] = g
                /\ SoonestPerRoute(s)[g] = Arrival[r.trip][s] /\ Arrival[r.trip][s] \in Nat
  <2>1. PICK A : A = {Arrival[t][s] : t \in {x \in TripsAt(s) : RouteOf[x] = g}}
    OBVIOUS
  <2>2. \A a \in A : \E r \in LatestPerTrip(s) :
                /\ RouteOf[r.trip] = g
                /\ a = Arrival[r.trip][s] /\ Arrival[r.trip][s] \in Nat
    BY <1>3, <2>1 DEF TripsAt
  <2>3. A \in SUBSET Nat /\ A # {}
    BY <1>4, <2>1, <2>2
  <2>4. Min(A) \in A
    BY <2>3, MinFacts
  <2>5. SoonestPerRoute(s)[g] = Min(A)
    BY <1>4, <2>1 DEF SoonestPerRoute, TripsAt
  <2> QED BY <2>2, <2>4, <2>5
<1> QED BY <1>4, <1>5, <1>6

(* The time until an arrival.  That of a bus due within half a day is not  *)
(* taken for one that has passed.                                          *)
LEMMA RelativeEtaFacts ==
    ASSUME now \in Nat, NEW a \in Nat
    PROVE  /\ RelativeEta(a) \in Int
           /\ a - now \in 1 .. DayLength \div 2 => RelativeEta(a) > 0
<1>1. PICK n \in Nat, d \in Nat \ {0} : n = now /\ d = DayLength
  BY FeedAssumption
<1>2. PICK q \in Nat, r \in Nat : q = n \div d /\ r = n % d
  BY Division
<1>3. n = d * q + r /\ r < d
  BY <1>2, Division
<1>4. PICK half \in Nat : half = d \div 2
  OBVIOUS
<1>5. half <= d
  BY <1>4
<1>6. RelativeEta(a) = IF a - r > half THEN a - r - d ELSE a - r
  BY <1>1, <1>2, <1>4 DEF RelativeEta
<1>7. RelativeEta(a) \in Int
  BY <1>6
<1>8. ASSUME a - n \in 1 .. half PROVE RelativeEta(a) > 0
  <2>1. CASE q = 0
    <3>1. n = r
      BY <1>3, <2>1
    <3> QED BY <1>6, <1>8, <3>1
  <2>2. CASE q >= 1
    <3>1. d * q >= d
      BY <2>2
    <3>2. PICK m \in Nat : m = d * q
      OBVIOUS
    <3> QED BY <1>3, <1>5, <1>6, <1>8, <3>1, <3>2
  <2> QED BY <2>1, <2>2
<1> QED BY <1>1, <1>4, <1>7, <1>8

(* The routes that compete for a stop are finitely many, and a route is    *)
(* one of them if its soonest bus has not been taken for one that passed.  *)
LEMMA CompetingFacts ==
    ASSUME FeedInv, NEW s \in Stop
    PROVE  /\ IsFiniteSet(DOMAIN Competing(s))
           /\ Competing(s) \in [DOMAIN Competing(s) -> Int]
           /\ \A g \in DOMAIN SoonestPerRoute(s) :
                 RelativeEta(SoonestPerRoute(s)[g]) > 0 => g \in DOMAIN Competing(s)
<1>1. PICK arrivals : arrivals = SoonestPerRoute(s)
  OBVIOUS
<1>2. PICK etas : etas = [g \in DOMAIN arrivals |-> RelativeEta(arrivals[g])]
  OBVIOUS
<1>3. Competing(s) = [g \in {h \in DOMAIN etas : etas[h] > 0} |-> etas[g]]
  BY <1>1, <1>2 DEF Competing
<1>4. DOMAIN Competing(s) = {h \in DOMAIN arrivals : RelativeEta(arrivals[h]) > 0}
  BY <1>2, <1>3
<1>5. \A g \in DOMAIN Competing(s) : Competing(s)[g] = RelativeEta(arrivals[g])
  BY <1>2, <1>3
<1>6. \A g \in DOMAIN arrivals : arrivals[g] \in Nat
  <2>1. \A g \in DOMAIN arrivals : \E r \in LatestPerTrip(s) :
            arrivals[g] = Arrival[r.trip][s] /\ Arrival[r.trip][s] \in Nat
    BY <1>1, SoonestFacts, Zenon
  <2> QED BY <2>1
<1>7. \A g \in DOMAIN Competing(s) : Competing(s)[g] \in Int
  <2>1. now \in Nat
    BY DEF FeedInv
  <2> QED BY <1>4, <1>5, <1>6, <2>1, RelativeEtaFacts
<1>8. IsFiniteSet(DOMAIN arrivals)
  BY <1>1, SoonestFacts, RoutesFinite
<1>9. IsFiniteSet(DOMAIN Competing(s))
  <2>1. DOMAIN Competing(s) \subseteq DOMAIN arrivals
    BY <1>4
  <2> QED BY <1>8, <2>1, FS_Subset
<1>10. Competing(s) \in [DOMAIN Competing(s) -> Int]
  BY <1>3, <1>7
<1> QED BY <1>1, <1>4, <1>9, <1>10

(* The routes that compete for a stop split its queue: whatever the feeds, *)
(* the clock and the counts, rounding makes or loses at most half a        *)
(* passenger for each, and a nearer bus gets as many or more               *)
(* (proportional_split, _apply_share).                                     *)
THEOREM QueueIsSplit == FeedSpec => []SplitConserves
<1>1. FeedInv => SplitConserves
  <2> SUFFICES ASSUME FeedInv, NEW s \in Stop, NEW etas, etas = Competing(s),
                      DOMAIN etas # {}, NEW count \in 0 .. MaxCount
               PROVE  /\ 2 * (Total(etas, DOMAIN etas, count) - count)
                            \in -Cardinality(DOMAIN etas) .. Cardinality(DOMAIN etas)
                      /\ \A g, h \in DOMAIN etas :
                            etas[g] <= etas[h] =>
                                PeopleWaiting(etas, g, count) >= PeopleWaiting(etas, h, count)
    BY DEF SplitConserves
  <2>1. count \in Nat
    BY FeedAssumption
  <2>2. PICK R : R = DOMAIN etas
    OBVIOUS
  <2>3. IsFiniteSet(R) /\ R # {} /\ etas \in [R -> Int]
    BY <2>2, CompetingFacts
  <2>4. PICK E \in SUBSET R : E = R
    OBVIOUS
  <2>5. /\ Total(etas, E, count) \in Nat
        /\ Cardinality(E) \in Nat
        /\ 2 * (Total(etas, E, count) - count) <= Cardinality(E)
        /\ 2 * (Total(etas, E, count) - count) >= - Cardinality(E)
    BY <2>1, <2>3, <2>4, TotalFacts
  <2>6. \A g, h \in R :
            etas[g] <= etas[h] =>
                PeopleWaiting(etas, g, count) >= PeopleWaiting(etas, h, count)
    BY <2>1, <2>3, NearerGetsMore
  <2> QED BY <2>1, <2>2, <2>4, <2>5, <2>6
<1> QED BY <1>1, FeedInitInv, FeedStep, PTL DEF FeedSpec

(* The routes that expect a bus at a stop share its queue, up to rounding, *)
(* unless a bus that has left still comes first, a bus is more than half a *)
(* day ahead, or the feed is older than the window (_ETA_QUERY,            *)
(* _compute_crowd_shares): there is no other way to hand out more          *)
(* passengers than wait.                                                   *)
THEOREM OverlapCaused == FeedSpec => []OverlapHasCause
<1>1. ASSUME FeedInv, NEW s \in Stop,
             ~ \E r \in LatestPerTrip(s) :
                 /\ RouteOf[r.trip] \in Expected(s)
                 /\ Arrival[r.trip][s] - now \notin 1 .. DayLength \div 2,
             ~ \A r \in table : r.time <= now - Window
      PROVE  Total(Competing(s), Expected(s), MaxCount) <= MaxCount + Cardinality(Expected(s))
  <2>1. PICK n \in Nat : n = now
    BY <1>1 DEF FeedInv
  <2>2. \A r \in table : r.time \in Int
    BY <1>1, <2>1, RowParts DEF FeedInv
  <2>3. Expected(s) \subseteq DOMAIN Competing(s)
    <3> SUFFICES ASSUME NEW g \in Expected(s) PROVE g \in DOMAIN Competing(s)
      OBVIOUS
    <3>1. PICK x \in Newest(table) : x.stop = s /\ RouteOf[x.trip] = g
      BY DEF Expected
    <3>2. x \in table /\ \A y \in table : y.time <= x.time
      BY <3>1 DEF Newest
    <3>3. x.time > now - Window
      <4>1. PICK y \in table : ~ y.time <= n - Window
        BY <1>1, <2>1
      <4>2. Window \in Int
        BY FeedAssumption
      <4> QED BY <2>1, <2>2, <3>2, <4>1, <4>2
    <3>4. x \in LatestPerTrip(s)
      BY <3>1, <3>2, <3>3 DEF LatestPerTrip
    <3>5. g \in DOMAIN SoonestPerRoute(s)
      <4>1. x.trip \in TripsAt(s)
        BY <3>4 DEF TripsAt
      <4>2. DOMAIN SoonestPerRoute(s) = {RouteOf[t] : t \in TripsAt(s)}
        BY <1>1, SoonestFacts
      <4> QED BY <3>1, <4>1, <4>2
    <3>6. PICK r \in LatestPerTrip(s) :
                   /\ RouteOf[r.trip] = g
                   /\ SoonestPerRoute(s)[g] = Arrival[r.trip][s] /\ Arrival[r.trip][s] \in Nat
      BY <1>1, <3>5, SoonestFacts
    <3>7. Arrival[r.trip][s] - now \in 1 .. DayLength \div 2
      BY <1>1, <3>6
    <3>8. PICK a \in Nat : a = Arrival[r.trip][s]
      BY <3>6
    <3>9. RelativeEta(a) > 0
      BY <2>1, <3>7, <3>8, RelativeEtaFacts
    <3> QED BY <1>1, <3>5, <3>6, <3>8, <3>9, CompetingFacts
  <2>4. CASE DOMAIN Competing(s) # {}
    <3>1. PICK etas, R : etas = Competing(s) /\ R = DOMAIN Competing(s)
      OBVIOUS
    <3>2. IsFiniteSet(R) /\ R # {} /\ etas \in [R -> Int]
      BY <1>1, <2>4, <3>1, CompetingFacts
    <3>3. PICK E \in SUBSET R : E = Expected(s)
      BY <2>3, <3>1
    <3>4. PICK count \in Nat : count = MaxCount
      BY FeedAssumption
    <3>5. /\ Total(etas, E, count) \in Nat
          /\ Cardinality(E) \in Nat
          /\ 2 * (Total(etas, E, count) - count) <= Cardinality(E)
      BY <3>2, TotalFacts
    <3>6. Total(etas, E, count) <= count + Cardinality(E)
      BY <3>5
    <3> QED BY <3>1, <3>3, <3>4, <3>6
  <2>5. CASE DOMAIN Competing(s) = {}
    <3>1. Expected(s) = {}
      BY <2>3, <2>5
    <3>2. PICK p : p = [g \in {} |-> PeopleWaiting(Competing(s), g, MaxCount)]
      OBVIOUS
    <3>3. Total(Competing(s), {}, MaxCount) = SumFunctionOnSet(p, {})
      BY <3>2 DEF Total, SumFunction, SumFunctionOnSet, FoldFunction
    <3>4. SumFunctionOnSet(p, {}) = 0 /\ Cardinality({}) = 0
      BY FS_EmptySet, SumFacts
    <3>5. MaxCount \in Nat
      BY FeedAssumption
    <3> QED BY <3>1, <3>3, <3>4, <3>5
  <2> QED BY <2>4, <2>5
<1>2. FeedInv => OverlapHasCause
  BY <1>1 DEF OverlapHasCause
<1> QED BY <1>2, FeedInitInv, FeedStep, PTL DEF FeedSpec
=============================================================================
