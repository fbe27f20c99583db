----------------------- MODULE ResourceSchedulerProofs -----------------------
(***************************************************************************)
(* Theorems of ResourceScheduler, for any teams, requests, measurements and *)
(* any number of plan versions.  They rest on the inductive invariant IInv. *)
(***************************************************************************)
EXTENDS ResourceScheduler, WellFoundedInduction, FiniteSetTheorems, TLAPS

-----------------------------------------------------------------------------
(***************************************************************************)
(* The laws of SumOver: a sum of naturals is a natural, the sum over nothing *)
(* is zero, and any element of the set may be taken out first.  Induction is *)
(* done by hand, as the search for a minimal counterexample: MinimalSubset   *)
(* and LeastNatural.                                                         *)
(***************************************************************************)
\* One unfolding of SumOver's equation.
Unfolded(f, g) ==
  [T \in SUBSET DOMAIN f |-> IF T = {} THEN 0 ELSE f[Pick(T)] + g[T \ {Pick(T)}]]

LEMMA MinimalSubset ==
  ASSUME NEW S, IsFiniteSet(S), NEW Bad, Bad \subseteq SUBSET S, Bad # {}
  PROVE  \E T \in Bad : \A U \in Bad : U \subseteq T => U = T
<1>1. IsWellFoundedOn(StrictSubsetOrdering(S), SUBSET S)
  BY FS_StrictSubsetOrderingWellFounded, FS_FiniteSubsetsOfFinite
<1>2. \E T \in Bad : \A U \in Bad : ~ (<<U, T>> \in StrictSubsetOrdering(S))
  BY <1>1, WFMin
<1> QED BY <1>2 DEF StrictSubsetOrdering

LEMMA LeastNatural ==
  ASSUME NEW S \in SUBSET Nat, S # {}
  PROVE  \E n \in S : \A m \in S : n <= m
<1>1. PICK top \in S : TRUE
  OBVIOUS
<1> DEFINE I == 0 .. top
           Bad == {0 .. k : k \in {j \in S : j <= top}}
<1>2. IsFiniteSet(I)
  BY FS_Interval
<1>3. Bad \subseteq SUBSET I /\ Bad # {}
  BY <1>1
<1>4. \E T \in Bad : \A U \in Bad : U \subseteq T => U = T
  <2> HIDE DEF Bad, I
  <2> QED BY <1>2, <1>3, MinimalSubset
<1>5. PICK n \in S : n <= top /\ \A U \in Bad : U \subseteq 0 .. n => U = 0 .. n
  BY <1>4
<1>6. ASSUME NEW m \in S, m < n
      PROVE  FALSE
  <2>1. 0 .. m \in Bad
    BY <1>5, <1>6, <1>1
  <2>2. 0 .. m \subseteq 0 .. n /\ 0 .. m # 0 .. n
    BY <1>6
  <2> QED BY <2>1, <2>2, <1>5
<1> QED BY <1>5, <1>6

LEMMA UnfoldedHasFixpoint ==
  ASSUME NEW f, IsFiniteSet(DOMAIN f), \A x \in DOMAIN f : f[x] \in Nat
  PROVE  \E g : g = Unfolded(f, g)
<1> DEFINE D == DOMAIN f
           Small(n) == {T \in SUBSET D : Cardinality(T) <= n}
           Step(g, T) == IF T = {} THEN 0 ELSE f[Pick(T)] + g[T \ {Pick(T)}]
           Good(n, g) == /\ g \in [Small(n) -> Nat]
                         /\ \A T \in Small(n) : g[T] = Step(g, T)
           Bad == {n \in Nat : ~ \E g : Good(n, g)}
<1>1. \A T \in SUBSET D : IsFiniteSet(T) /\ Cardinality(T) \in Nat
  BY FS_Subset, FS_CardinalityType
<1>2. \A T \in SUBSET D : T # {} =>
        /\ Pick(T) \in T
        /\ Cardinality(T \ {Pick(T)}) = Cardinality(T) - 1
  BY <1>1, FS_RemoveElement DEF Pick
<1>3. Bad = {}
  <2>1. SUFFICES ASSUME NEW n \in Bad, \A m \in Bad : n <= m
                 PROVE  FALSE
    <3>1. Bad \in SUBSET Nat
      OBVIOUS
    <3> HIDE DEF Bad
    <3> QED BY <3>1, LeastNatural
  <2>2. CASE n = 0
    <3> DEFINE g == [T \in Small(0) |-> 0]
    <3>1. \A T \in Small(0) : T = {}
      BY <1>1, FS_EmptySet
    <3>2. Good(0, g)
      BY <3>1
    <3> QED BY <3>2, <2>2
  <2>3. CASE n # 0
    <3>0. n \in Nat
      OBVIOUS
    <3>1. n - 1 \in Nat /\ n - 1 \notin Bad
      <4> HIDE DEF Bad
      <4> QED BY <2>1, <2>3, <3>0
    <3>2. PICK g : Good(n - 1, g)
      BY <3>1
    <3> DEFINE h == [T \in Small(n) |-> Step(g, T)]
    <3>3. \A T \in Small(n) : T # {} => T \ {Pick(T)} \in Small(n - 1)
      BY <1>1, <1>2
    <3>4. h \in [Small(n) -> Nat]
      BY <3>2, <3>3, <1>2
    <3>5. \A T \in Small(n - 1) : T \in Small(n) /\ h[T] = g[T]
      <4>1. \A T \in Small(n - 1) : T \in Small(n)
        BY <3>0, <1>1
      <4> QED BY <4>1, <3>2
    <3>6. \A T \in Small(n) : h[T] = Step(h, T)
      BY <3>3, <3>5
    <3> QED BY <3>4, <3>6
  <2> QED BY <2>2, <2>3
<1>4. PICK g : Good(Cardinality(D), g)
  BY <1>3, <1>1
<1>5. Small(Cardinality(D)) = SUBSET D
  BY FS_Subset, <1>1
<1>6. g = Unfolded(f, g)
  BY <1>4, <1>5 DEF Unfolded
<1> QED BY <1>6

LEMMA SumUnfolds ==
  ASSUME NEW f, IsFiniteSet(DOMAIN f), \A x \in DOMAIN f : f[x] \in Nat
  PROVE  SumOver(f) = Unfolded(f, SumOver(f))
BY UnfoldedHasFixpoint DEF SumOver, Unfolded

LEMMA SumEquation ==
  ASSUME NEW f, IsFiniteSet(DOMAIN f), \A x \in DOMAIN f : f[x] \in Nat
  PROVE  \A T \in SUBSET DOMAIN f :
           SumOver(f)[T] = IF T = {} THEN 0 ELSE f[Pick(T)] + SumOver(f)[T \ {Pick(T)}]
<1> DEFINE s == SumOver(f)
<1>1. s = Unfolded(f, s)
  BY SumUnfolds
<1> HIDE DEF s
<1>2. \A T \in SUBSET DOMAIN f : s[T] = IF T = {} THEN 0 ELSE f[Pick(T)] + s[T \ {Pick(T)}]
  BY <1>1 DEF Unfolded
<1> QED BY <1>2 DEF s

THEOREM SumOfNone ==
  ASSUME NEW f, IsFiniteSet(DOMAIN f), \A x \in DOMAIN f : f[x] \in Nat
  PROVE  SumOver(f)[{}] = 0
BY SumEquation

THEOREM SumType ==
  ASSUME NEW f, IsFiniteSet(DOMAIN f), \A x \in DOMAIN f : f[x] \in Nat
  PROVE  \A T \in SUBSET DOMAIN f : SumOver(f)[T] \in Nat
<1> DEFINE s == SumOver(f)
           Bad == {T \in SUBSET DOMAIN f : s[T] \notin Nat}
<1> DEFINE D == DOMAIN f
<1>a. IsFiniteSet(D) /\ Bad \subseteq SUBSET D
  OBVIOUS
<1>b. Bad # {} => \E T \in Bad : \A U \in Bad : U \subseteq T => U = T
  <2> HIDE DEF Bad, D, s
  <2> QED BY <1>a, MinimalSubset
<1>1. SUFFICES ASSUME NEW T \in Bad, \A U \in Bad : U \subseteq T => U = T
               PROVE  FALSE
  BY <1>b
<1>2. s[T] = IF T = {} THEN 0 ELSE f[Pick(T)] + s[T \ {Pick(T)}]
  BY SumEquation
<1>3. T # {} => Pick(T) \in T
  BY DEF Pick
<1>4. T # {} => s[T \ {Pick(T)}] \in Nat
  BY <1>1, <1>3
<1> HIDE DEF s
<1> QED BY <1>2, <1>3, <1>4

THEOREM SumOfOneMore ==
  ASSUME NEW f, IsFiniteSet(DOMAIN f), \A x \in DOMAIN f : f[x] \in Nat
  PROVE  \A T \in SUBSET DOMAIN f : \A y \in T :
           SumOver(f)[T] = f[y] + SumOver(f)[T \ {y}]
<1> DEFINE s == SumOver(f)
           Bad == {T \in SUBSET DOMAIN f : \E y \in T : s[T] # f[y] + s[T \ {y}]}
<1> DEFINE D == DOMAIN f
<1>a. IsFiniteSet(D) /\ Bad \subseteq SUBSET D
  OBVIOUS
<1>b. Bad # {} => \E T \in Bad : \A U \in Bad : U \subseteq T => U = T
  <2> HIDE DEF Bad, D, s
  <2> QED BY <1>a, MinimalSubset
<1>1. SUFFICES ASSUME NEW T \in Bad, \A U \in Bad : U \subseteq T => U = T
               PROVE  FALSE
  BY <1>b
<1>2. PICK y \in T : s[T] # f[y] + s[T \ {y}]
  OBVIOUS
<1> DEFINE x == Pick(T)
<1>3. x \in T
  BY DEF Pick
<1>4. s[T] = f[x] + s[T \ {x}]
  BY SumEquation
<1>5. x # y
  BY <1>2, <1>4
<1>6. \A U \in SUBSET T : U # T => \A z \in U : s[U] = f[z] + s[U \ {z}]
  BY <1>1
<1> DEFINE c == s[T \ {x, y}]
<1>7. s[T \ {x}] = f[y] + c
  <2>1. (T \ {x}) \ {y} = T \ {x, y}
    OBVIOUS
  <2> QED BY <1>3, <1>5, <1>6, <2>1
<1>8. s[T \ {y}] = f[x] + c
  <2>1. (T \ {y}) \ {x} = T \ {x, y}
    OBVIOUS
  <2> QED BY <1>3, <1>5, <1>6, <2>1
<1>9. f[x] \in Nat /\ f[y] \in Nat /\ c \in Nat
  BY SumType, <1>3
<1>10. s[T] # f[y] + s[T \ {y}]
  BY <1>2
<1> HIDE DEF s, x, c, Bad
<1> QED BY <1>4, <1>7, <1>8, <1>9, <1>10

\* The sum over two sets that have no element in common.
THEOREM SumOfDisjoint ==
  ASSUME NEW f, IsFiniteSet(DOMAIN f), \A x \in DOMAIN f : f[x] \in Nat,
         NEW S \in SUBSET DOMAIN f
  PROVE  \A T \in SUBSET DOMAIN f :
           S \cap T = {} => SumOver(f)[S \cup T] = SumOver(f)[S] + SumOver(f)[T]
<1> DEFINE s == SumOver(f)
           D == DOMAIN f
           Bad == {T \in SUBSET D : S \cap T = {} /\ s[S \cup T] # s[S] + s[T]}
<1>a. IsFiniteSet(D) /\ Bad \subseteq SUBSET D
  OBVIOUS
<1>b. Bad # {} => \E T \in Bad : \A U \in Bad : U \subseteq T => U = T
  <2> HIDE DEF Bad, D, s
  <2> QED BY <1>a, MinimalSubset
<1>c. /\ s[{}] = 0
      /\ \A T \in SUBSET D : s[T] \in Nat
      /\ \A T \in SUBSET D : \A y \in T : s[T] = f[y] + s[T \ {y}]
  BY SumOfNone, SumType, SumOfOneMore
<1>1. SUFFICES ASSUME NEW T \in Bad, \A U \in Bad : U \subseteq T => U = T
               PROVE  FALSE
  BY <1>b
<1> HIDE DEF s
<1>2. PICK y \in T : TRUE
  <2>1. T # {}
    <3>1. S \cup {} = S /\ s[S] \in Nat
      BY <1>c
    <3>2. s[S \cup {}] = s[S] + s[{}]
      BY <3>1, <1>c
    <3> QED BY <3>2
  <2> QED BY <2>1
<1>3. s[S \cup (T \ {y})] = s[S] + s[T \ {y}]
  BY <1>1, <1>2
<1>4. s[T] = f[y] + s[T \ {y}]
  BY <1>c, <1>2
<1>5. s[S \cup T] = f[y] + s[S \cup (T \ {y})]
  <2>1. (S \cup T) \ {y} = S \cup (T \ {y}) /\ y \in S \cup T /\ S \cup T \in SUBSET D
    BY <1>2
  <2> QED BY <2>1, <1>c
<1>6. f[y] \in Nat /\ s[S] \in Nat /\ s[T \ {y}] \in Nat
  BY <1>c, <1>2
<1>7. s[S \cup T] # s[S] + s[T]
  OBVIOUS
<1> HIDE DEF Bad, D
<1> QED BY <1>3, <1>4, <1>5, <1>6, <1>7

\* What is used of a sum over the parts of D.
IsSum(s, f, D) ==
  /\ s[{}] = 0
  /\ \A T \in SUBSET D : s[T] \in Nat
  /\ \A T \in SUBSET D : \A y \in T : s[T] = f[y] + s[T \ {y}]

LEMMA SumLaws ==
  ASSUME NEW D, IsFiniteSet(D), NEW f \in [D -> Nat]
  PROVE  IsSum(SumOver(f), f, D)
<1>1. DOMAIN f = D /\ \A x \in DOMAIN f : f[x] \in Nat
  OBVIOUS
<1> QED BY <1>1, SumOfNone, SumType, SumOfOneMore DEF IsSum

\* Sums of functions that lie below one another, that add up, or that are constant.
THEOREM SumIsMonotone ==
  ASSUME NEW D, IsFiniteSet(D), NEW f \in [D -> Nat], NEW g \in [D -> Nat]
  PROVE  \A T \in SUBSET D : (\A x \in T : f[x] <= g[x]) => SumOver(f)[T] <= SumOver(g)[T]
<1> DEFINE s == SumOver(f)
           t == SumOver(g)
           Bad == {T \in SUBSET D : (\A x \in T : f[x] <= g[x]) /\ ~(s[T] <= t[T])}
<1>a. Bad \subseteq SUBSET D
  OBVIOUS
<1>b. Bad # {} => \E T \in Bad : \A U \in Bad : U \subseteq T => U = T
  <2> HIDE DEF Bad, s, t
  <2> QED BY <1>a, MinimalSubset
<1>c. IsSum(s, f, D)
  BY SumLaws
<1>d. IsSum(t, g, D)
  BY SumLaws
<1>1. SUFFICES ASSUME NEW T \in Bad, \A U \in Bad : U \subseteq T => U = T
               PROVE  FALSE
  BY <1>b
<1> HIDE DEF s, t
<1>2. T # {}
  <2>1. ~(s[T] <= t[T])
    OBVIOUS
  <2>2. s[{}] <= t[{}]
    BY <1>c, <1>d DEF IsSum
  <2> HIDE DEF Bad
  <2> QED BY <2>1, <2>2
<1>3. PICK y \in T : TRUE
  BY <1>2
<1>4. T \ {y} \in SUBSET D /\ T \in SUBSET D /\ T \ {y} \notin Bad
  BY <1>1, <1>3
<1>5. s[T \ {y}] <= t[T \ {y}]
  BY <1>4
<1>6. f[y] \in Nat /\ g[y] \in Nat /\ f[y] <= g[y] /\ ~(s[T] <= t[T])
  BY <1>3
<1>7. s[T] = f[y] + s[T \ {y}] /\ t[T] = g[y] + t[T \ {y}]
  <2>1. s[T] = f[y] + s[T \ {y}]
    BY <1>3, <1>4, <1>c DEF IsSum
  <2>2. t[T] = g[y] + t[T \ {y}]
    BY <1>3, <1>4, <1>d DEF IsSum
  <2> QED BY <2>1, <2>2
<1>8. s[T \ {y}] \in Nat /\ t[T \ {y}] \in Nat
  BY <1>4, <1>c, <1>d DEF IsSum
<1> HIDE DEF Bad
<1> QED BY <1>5, <1>6, <1>7, <1>8

THEOREM SumAdds ==
  ASSUME NEW D, IsFiniteSet(D), NEW f \in [D -> Nat], NEW g \in [D -> Nat],
         NEW h \in [D -> Nat], \A x \in D : h[x] = f[x] + g[x]
  PROVE  \A T \in SUBSET D : SumOver(h)[T] = SumOver(f)[T] + SumOver(g)[T]
<1> DEFINE s == SumOver(f)
           t == SumOver(g)
           u == SumOver(h)
           Bad == {T \in SUBSET D : u[T] # s[T] + t[T]}
<1>a. Bad \subseteq SUBSET D
  OBVIOUS
<1>b. Bad # {} => \E T \in Bad : \A U \in Bad : U \subseteq T => U = T
  <2> HIDE DEF Bad, s, t, u
  <2> QED BY <1>a, MinimalSubset
<1>c. IsSum(s, f, D)
  BY SumLaws
<1>d. IsSum(t, g, D)
  BY SumLaws
<1>e. IsSum(u, h, D)
  BY SumLaws
<1>1. SUFFICES ASSUME NEW T \in Bad, \A U \in Bad : U \subseteq T => U = T
               PROVE  FALSE
  BY <1>b
<1> HIDE DEF s, t, u
<1>2. T # {}
  <2>1. u[T] # s[T] + t[T]
    OBVIOUS
  <2>2. u[{}] = s[{}] + t[{}]
    BY <1>c, <1>d, <1>e DEF IsSum
  <2> HIDE DEF Bad
  <2> QED BY <2>1, <2>2
<1>3. PICK y \in T : TRUE
  BY <1>2
<1>4. T \ {y} \in SUBSET D /\ T \in SUBSET D /\ T \ {y} \notin Bad
  BY <1>1, <1>3
<1>5. u[T \ {y}] = s[T \ {y}] + t[T \ {y}]
  BY <1>4
<1>6. f[y] \in Nat /\ g[y] \in Nat /\ h[y] = f[y] + g[y] /\ u[T] # s[T] + t[T]
  BY <1>3
<1>7. s[T] = f[y] + s[T \ {y}] /\ t[T] = g[y] + t[T \ {y}] /\ u[T] = h[y] + u[T \ {y}]
  <2>1. s[T] = f[y] + s[T \ {y}]
    BY <1>3, <1>4, <1>c DEF IsSum
  <2>2. t[T] = g[y] + t[T \ {y}]
    BY <1>3, <1>4, <1>d DEF IsSum
  <2>3. u[T] = h[y] + u[T \ {y}]
    BY <1>3, <1>4, <1>e DEF IsSum
  <2> QED BY <2>1, <2>2, <2>3
<1>8. s[T \ {y}] \in Nat /\ t[T \ {y}] \in Nat /\ u[T \ {y}] \in Nat
  BY <1>4, <1>c, <1>d, <1>e DEF IsSum
<1> HIDE DEF Bad
<1> QED BY <1>5, <1>6, <1>7, <1>8

THEOREM SumOfEqual ==
  ASSUME NEW D, IsFiniteSet(D), NEW f \in [D -> Nat], NEW k \in Nat
  PROVE  \A T \in SUBSET D : (\A x \in T : f[x] = k) => SumOver(f)[T] = Cardinality(T) * k
<1> DEFINE s == SumOver(f)
           Bad == {T \in SUBSET D : (\A x \in T : f[x] = k) /\ s[T] # Cardinality(T) * k}
<1>a. Bad \subseteq SUBSET D
  OBVIOUS
<1>b. Bad # {} => \E T \in Bad : \A U \in Bad : U \subseteq T => U = T
  <2> HIDE DEF Bad, s
  <2> QED BY <1>a, MinimalSubset
<1>c. IsSum(s, f, D)
  BY SumLaws
<1>1. SUFFICES ASSUME NEW T \in Bad, \A U \in Bad : U \subseteq T => U = T
               PROVE  FALSE
  BY <1>b
<1> HIDE DEF s
<1>2. T # {}
  <2>1. s[T] # Cardinality(T) * k
    OBVIOUS
  <2>2. s[{}] = Cardinality({}) * k
    BY <1>c, FS_EmptySet DEF IsSum
  <2> HIDE DEF Bad
  <2> QED BY <2>1, <2>2
<1>3. PICK y \in T : TRUE
  BY <1>2
<1>4. T \ {y} \in SUBSET D /\ T \in SUBSET D /\ T \ {y} \notin Bad
  BY <1>1, <1>3
<1>5. s[T \ {y}] = Cardinality(T \ {y}) * k
  BY <1>4
<1>6. IsFiniteSet(T) /\ Cardinality(T) \in Nat
  BY <1>4, FS_Subset, FS_CardinalityType
<1>7. Cardinality(T \ {y}) = Cardinality(T) - 1
  BY <1>3, <1>6, FS_RemoveElement
<1>8. s[T] = k + s[T \ {y}] /\ s[T] # Cardinality(T) * k
  <2>1. s[T] = f[y] + s[T \ {y}]
    BY <1>3, <1>4, <1>c DEF IsSum
  <2> QED BY <1>3, <2>1
<1> DEFINE n == Cardinality(T)
<1>9. s[T] = k + (n - 1) * k
  BY <1>5, <1>7, <1>8
<1>10. k + (n - 1) * k = n * k
  <2>1. n \in Nat
    BY <1>6
  <2> HIDE DEF n
  <2> QED BY <2>1
<1> QED BY <1>8, <1>9, <1>10

\* n shares of an amount, each rounded up, make up the amount.
LEMMA SharesCover ==
  ASSUME NEW v \in Nat, NEW n \in Nat \ {0}
  PROVE  (v + n - 1) \div n \in Nat /\ v <= n * ((v + n - 1) \div n)
<1> DEFINE a == v + n - 1
<1>1. a \in Nat
  OBVIOUS
<1>2. a = n * (a \div n) + (a % n) /\ a % n \in 0 .. n - 1
  <2> HIDE DEF a
  <2> QED BY <1>1
<1>3. a \div n \in Nat
  <2> HIDE DEF a
  <2> QED BY <1>1
<1> DEFINE w == n * (a \div n)
<1>4. w \in Nat
  <2> HIDE DEF a
  <2> QED BY <1>3
<1>5. a = w + (a % n) /\ a % n \in 0 .. n - 1
  BY <1>2
<1> HIDE DEF w
<1>6. v <= w
  BY <1>4, <1>5
<1> QED BY <1>3, <1>6 DEF w
-----------------------------------------------------------------------------
(***************************************************************************)
(* The data.                                                               *)
(***************************************************************************)
LEMMA IdsAreFinite == IsFiniteSet(PlanIds) /\ IsFiniteSet(LeaseIds)
<1>1. IsFiniteSet(Versions)
  BY FS_Interval, BoundsAssumption DEF Versions
<1>2. IsFiniteSet(PlanIds)
  BY <1>1, FS_Product, FiniteAssumption DEF PlanIds
<1>3. IsFiniteSet(PlanIds \X Workers)
  BY <1>2, FS_Product, FiniteAssumption
<1> DEFINE triple == [x \in PlanIds \X Workers |-> <<x[1][1], x[1][2], x[2]>>]
<1>4. triple \in Surjection(PlanIds \X Workers, LeaseIds)
  <2>1. triple \in [PlanIds \X Workers -> LeaseIds]
    BY DEF PlanIds, LeaseIds
  <2>2. ASSUME NEW l \in LeaseIds
        PROVE  \E x \in PlanIds \X Workers : triple[x] = l
    <3>1. <<<<l[1], l[2]>>, l[3]>> \in PlanIds \X Workers
      BY DEF PlanIds, LeaseIds
    <3>2. triple[<<<<l[1], l[2]>>, l[3]>>] = l
      BY <3>1 DEF LeaseIds
    <3> QED BY <3>1, <3>2
  <2> QED BY <2>1, <2>2 DEF Surjection
<1>5. IsFiniteSet(LeaseIds)
  <2> HIDE DEF triple
  <2> QED BY <1>3, <1>4, FS_Surjection
<1> QED BY <1>2, <1>5

\* A lease of a plan is an instance of the lease identities, and knows its plan.
LEMMA LeasesOfPlan ==
  ASSUME NEW p \in PlanIds
  PROVE  /\ LeasesOf(p) \subseteq LeaseIds
         /\ \A l \in LeasesOf(p) : PlanOf(l) = p
         /\ \A l \in LeaseIds : PlanOf(l) = p => l[1] = p[1] /\ l[2] = p[2]
BY RequestAssumption DEF LeasesOf, LeaseIds, PlanIds, RequestType, PlanOf

LEMMA PlanOfLease ==
  ASSUME NEW l \in LeaseIds
  PROVE  PlanOf(l) \in PlanIds /\ l[1] \in Teams /\ PlanOf(l)[1] = l[1]
BY DEF LeaseIds, PlanIds, PlanOf

LEMMA DemandType ==
  ASSUME NEW l \in LeaseIds, NEW r \in Resources
  PROVE  Demand(l, r) \in Nat
<1> DEFINE request == Request[l[1]]
           devices == Devices(l)
           vram    == Vram(l)
           n       == Cardinality(devices)
<1>1. l[1] \in Teams /\ l[3] \in Workers
  BY DEF LeaseIds
<1>2. request \in RequestType
  BY <1>1, RequestAssumption
<1>3. \A d \in Dimensions : request.reservation[l[3]][d] \in Nat
  BY <1>1, <1>2 DEF RequestType
<1>4. vram \in Nat
  BY <1>3 DEF Vram
<1>5. devices \in SUBSET Gpus
  BY <1>1, <1>2 DEF RequestType, Devices
<1>6. ASSUME r \in devices
      PROVE  (vram + n - 1) \div n \in Nat
  <2>1. IsFiniteSet(devices)
    BY <1>5, FS_Subset, FiniteAssumption
  <2>2. n \in Nat /\ n # 0
    BY <2>1, <1>6, FS_CardinalityType, FS_EmptySet
  <2> HIDE DEF n, vram
  <2> QED BY <2>2, <1>4
<1> QED BY <1>3, <1>6 DEF Demand, Resources

LEMMA LoadLaws ==
  ASSUME NEW r \in Resources
  PROVE  /\ Load({}, r) = 0
         /\ \A S \in SUBSET LeaseIds : Load(S, r) \in Nat
         /\ \A S \in SUBSET LeaseIds : \A l \in S : Load(S, r) = Demand(l, r) + Load(S \ {l}, r)
         /\ \A S, T \in SUBSET LeaseIds :
              S \cap T = {} => Load(S \cup T, r) = Load(S, r) + Load(T, r)
<1> DEFINE f == [l \in LeaseIds |-> Demand(l, r)]
<1>1. DOMAIN f = LeaseIds /\ IsFiniteSet(DOMAIN f) /\ \A x \in DOMAIN f : f[x] \in Nat
  BY IdsAreFinite, DemandType
<1>2. \A l \in LeaseIds : f[l] = Demand(l, r)
  OBVIOUS
<1>3. \A S : Load(S, r) = SumOver(f)[S]
  BY DEF Load
<1> HIDE DEF f
<1>4. SumOver(f)[{}] = 0
  BY <1>1, SumOfNone
<1>5. \A S \in SUBSET LeaseIds : SumOver(f)[S] \in Nat
  BY <1>1, SumType
<1>6. \A S \in SUBSET LeaseIds : \A l \in S : SumOver(f)[S] = f[l] + SumOver(f)[S \ {l}]
  BY <1>1, SumOfOneMore
<1>7. \A S, T \in SUBSET LeaseIds :
        S \cap T = {} => SumOver(f)[S \cup T] = SumOver(f)[S] + SumOver(f)[T]
  BY <1>1, SumOfDisjoint
<1>8. Load({}, r) = 0 /\ \A S \in SUBSET LeaseIds : Load(S, r) \in Nat
  BY <1>3, <1>4, <1>5
<1>9. \A S \in SUBSET LeaseIds : \A l \in S : Load(S, r) = Demand(l, r) + Load(S \ {l}, r)
  <2> TAKE S \in SUBSET LeaseIds
  <2> TAKE l \in S
  <2>1. SumOver(f)[S] = f[l] + SumOver(f)[S \ {l}]
    BY <1>6
  <2> QED BY <2>1, <1>2, <1>3
<1>10. ASSUME NEW S \in SUBSET LeaseIds, NEW T \in SUBSET LeaseIds, S \cap T = {}
       PROVE  Load(S \cup T, r) = Load(S, r) + Load(T, r)
  <2>1. SumOver(f)[S \cup T] = SumOver(f)[S] + SumOver(f)[T]
    BY <1>7, <1>10
  <2> QED BY <2>1, <1>3
<1> QED BY <1>8, <1>9, <1>10

LEMMA LoadOfOne ==
  ASSUME NEW r \in Resources, NEW l \in LeaseIds
  PROVE  Load({l}, r) = Demand(l, r)
<1>1. Load({l}, r) = Demand(l, r) + Load({l} \ {l}, r)
  BY LoadLaws
<1>2. {l} \ {l} = {}
  OBVIOUS
<1> QED BY <1>1, <1>2, LoadLaws, DemandType
-----------------------------------------------------------------------------
(***************************************************************************)
(* The inductive invariant.  Core relates what is committed, remembered and *)
(* counted; Around is about the queue and the call in progress.             *)
(***************************************************************************)

\* A team's plans are decided in the order of their versions.
PlansInOrder == \A p \in PlanIds : plan[p] = "none" <=> p[2] > latest[p[1]]

\* What a call has looked up before its first append still holds.
CallsKnowTheirPlans ==
  /\ call.op = "cancel" => latest[call.team] # 0
  /\ call.op = "drain" => /\ call.rest # {}
                          /\ \A p \in call.rest : plan[p] = "queued" /\ p[2] < MaxVersion

WaitingPlansAreQueued == \A p \in Waiting(queue) : plan[p] = "queued"

DecisionTypes ==
  /\ ledgerPlan \in [PlanIds -> Decisions \cup {"none"}]
  /\ ledgerLatest \in [Teams -> {0} \cup Versions]
  /\ ledgerLease \in [LeaseIds -> LeaseStatuses]
  /\ plan \in [PlanIds -> Decisions \cup {"none"}]
  /\ latest \in [Teams -> {0} \cup Versions]
  /\ lease \in [LeaseIds -> LeaseStatuses]
  /\ used \in [Resources -> Nat]

OtherTypes ==
  /\ ledgerCancelled \in SUBSET PlanIds
  /\ closed \in SUBSET Tasks
  /\ queue \in [PlanIds -> Nat]
  /\ rebuilt \in SUBSET PlanIds
  /\ call \in Calls
  /\ capacity \in Measurements
  /\ overdue \in SUBSET LeaseIds
  /\ dropped \in SUBSET PlanIds

Core ==
  /\ DecisionTypes
  /\ MemoryIsReplay
  /\ UsageIsHeld
  /\ SerialExclusive
  /\ LeasesFollowAdmission
  /\ PlansInOrder

Around ==
  /\ OtherTypes
  /\ WaitingPlansAreQueued
  /\ CallsKnowTheirPlans

IInv == Core /\ Around

decisions == <<ledgerPlan, ledgerLatest, ledgerLease, plan, latest, lease, used>>

LEMMA TypesOfIInv == TypeOK <=> DecisionTypes /\ OtherTypes
BY DEF TypeOK, DecisionTypes, OtherTypes

LEMMA StatusesApart ==
  /\ ActiveStatuses \cap TerminalStatuses = {}
  /\ "none" \notin ActiveStatuses \cup TerminalStatuses
  /\ "none" \notin Decisions
  /\ Admitted \subseteq Decisions /\ "queued" \notin Admitted
  /\ Concurrent \subseteq Admitted /\ "serial" \notin Concurrent
BY DEF ActiveStatuses, TerminalStatuses, Decisions, Admitted, Concurrent

LEMMA CoreInit == Init => Core
<1> SUFFICES ASSUME Init
             PROVE  Core
  OBVIOUS
<1>1. DecisionTypes
  BY DEF Init, DecisionTypes, LeaseStatuses, Nothing
<1>2. MemoryIsReplay
  BY DEF Init, MemoryIsReplay
<1>3. Active(lease) = {}
  BY StatusesApart DEF Init, Active
<1>4. UsageIsHeld
  BY <1>3, LoadLaws DEF Init, UsageIsHeld, Nothing
<1>5. SerialExclusive
  BY <1>3 DEF SerialExclusive
<1>6. LeasesFollowAdmission
  BY StatusesApart DEF Init, LeasesFollowAdmission, Concurrent
<1>7. PlansInOrder
  BY BoundsAssumption DEF Init, PlansInOrder, PlanIds, Versions
<1> QED BY <1>1, <1>2, <1>4, <1>5, <1>6, <1>7 DEF Core

LEMMA CoreStutters == Core /\ UNCHANGED decisions => Core'
BY DEF Core, decisions, DecisionTypes, MemoryIsReplay, UsageIsHeld, SerialExclusive,
       LeasesFollowAdmission, PlansInOrder, Active

\* The decision of a team's next plan.  None of its leases exists yet, so what a
\* team admitted at once is granted adds to what is held.
LEMMA CoreCommits ==
  ASSUME Core, NEW p \in PlanIds, NEW d \in Decisions,
         p[2] = latest[p[1]] + 1, Commit(p, d)
  PROVE  Core'
<1> DEFINE granted == IF d \in Concurrent THEN LeasesOf(p) ELSE {}
<1>1. p[1] \in Teams /\ p[2] \in Versions /\ Versions \subseteq Nat \ {0}
  BY BoundsAssumption DEF PlanIds, Versions
<1>2. granted \in SUBSET LeaseIds /\ \A l \in granted : PlanOf(l) = p /\ d \in Concurrent
  BY LeasesOfPlan
<1>3. plan[p] = "none"
  <2>1. latest[p[1]] \in Nat
    <3>1. latest[p[1]] \in {0} \cup Versions
      BY <1>1 DEF Core, DecisionTypes
    <3> QED BY <3>1, BoundsAssumption DEF Versions
  <2>2. p[2] > latest[p[1]]
    BY <2>1
  <2> QED BY <2>2 DEF Core, PlansInOrder
<1>4. \A l \in LeaseIds : PlanOf(l) = p => lease[l] = "none"
  BY <1>3, StatusesApart DEF Core, LeasesFollowAdmission
<1>5. /\ plan' = [plan EXCEPT ![p] = d] /\ ledgerPlan' = [ledgerPlan EXCEPT ![p] = d]
      /\ latest' = [latest EXCEPT ![p[1]] = p[2]]
      /\ ledgerLatest' = [ledgerLatest EXCEPT ![p[1]] = p[2]]
      /\ lease' = [l \in LeaseIds |-> IF l \in granted THEN "granted" ELSE lease[l]]
      /\ ledgerLease' = [l \in LeaseIds |-> IF l \in granted THEN "granted" ELSE ledgerLease[l]]
      /\ used' = [r \in Resources |-> used[r] + Load(granted, r)]
  BY DEF Commit
<1> HIDE DEF granted
<1>6. Active(lease') = Active(lease) \cup granted /\ Active(lease) \cap granted = {}
  BY <1>2, <1>4, <1>5, StatusesApart DEF Active, ActiveStatuses
<1>7. Active(lease) \in SUBSET LeaseIds
  BY DEF Active
<1>8. DecisionTypes'
  <2>1. used' \in [Resources -> Nat]
    BY <1>2, <1>5, LoadLaws DEF Core, DecisionTypes
  <2>2. lease' \in [LeaseIds -> LeaseStatuses] /\ ledgerLease' \in [LeaseIds -> LeaseStatuses]
    BY <1>5 DEF Core, DecisionTypes, LeaseStatuses, ActiveStatuses
  <2> QED BY <1>1, <1>5, <2>1, <2>2 DEF Core, DecisionTypes
<1>9. MemoryIsReplay'
  BY <1>5 DEF Core, MemoryIsReplay
<1>10. UsageIsHeld'
  <2>1. ASSUME NEW r \in Resources
        PROVE  used'[r] = Load(Active(lease'), r)
    BY <1>2, <1>5, <1>6, <1>7, LoadLaws DEF Core, UsageIsHeld
  <2> QED BY <2>1 DEF UsageIsHeld
<1>11. SerialExclusive'
  <2>1. SUFFICES ASSUME NEW l \in Active(lease'), NEW m \in Active(lease'),
                        PlanOf(l) = PlanOf(m), plan'[PlanOf(l)] = "serial"
                 PROVE  l = m
    BY DEF SerialExclusive
  <2>2. l \in LeaseIds /\ m \in LeaseIds /\ PlanOf(l) \in PlanIds
    BY PlanOfLease DEF Active
  <2>3. PlanOf(l) # p
    <3>1. SUFFICES ASSUME PlanOf(l) = p
                   PROVE  FALSE
      OBVIOUS
    <3>2. d = "serial"
      BY <1>5, <2>1, <3>1 DEF Core, DecisionTypes
    <3>3. l \notin granted /\ l \notin Active(lease)
      BY <3>1, <3>2, <1>2, <1>4, <2>2, StatusesApart DEF Active
    <3> QED BY <3>3, <1>6
  <2>4. l \in Active(lease) /\ m \in Active(lease) /\ plan[PlanOf(l)] = "serial"
    BY <1>2, <1>5, <1>6, <2>1, <2>2, <2>3 DEF Core, DecisionTypes
  <2> QED BY <2>1, <2>4 DEF Core, SerialExclusive
<1>12. LeasesFollowAdmission'
  <2>1. SUFFICES ASSUME NEW o \in PlanIds
        PROVE  /\ \A l \in LeaseIds : PlanOf(l) = o /\ lease'[l] # "none"
                    => plan'[o] \in Admitted /\ l \in LeasesOf(o)
               /\ plan'[o] \in Concurrent => \A l \in LeasesOf(o) : lease'[l] # "none"
    BY DEF LeasesFollowAdmission
  <2>2. LeasesOf(o) \subseteq LeaseIds /\ \A l \in LeasesOf(o) : PlanOf(l) = o
    BY LeasesOfPlan
  <2>3. CASE o = p
    <3>1. plan'[o] = d
      BY <1>5, <2>3 DEF Core, DecisionTypes
    <3>2. \A l \in LeaseIds : PlanOf(l) = o /\ lease'[l] # "none" => l \in granted
      BY <1>4, <1>5, <2>3
    <3>3. d \in Concurrent => granted = LeasesOf(o)
      BY <2>3 DEF granted
    <3>4. d \notin Concurrent => granted = {}
      BY DEF granted
    <3> QED BY <1>5, <2>2, <3>1, <3>2, <3>3, <3>4, StatusesApart
  <2>4. CASE o # p
    <3>1. plan'[o] = plan[o]
      BY <1>5, <2>4 DEF Core, DecisionTypes
    <3>2. \A l \in LeaseIds : PlanOf(l) = o => lease'[l] = lease[l]
      BY <1>2, <1>5, <2>4
    <3> QED BY <2>2, <3>1, <3>2 DEF Core, LeasesFollowAdmission
  <2> QED BY <2>3, <2>4
<1>13. PlansInOrder'
  <2>1. SUFFICES ASSUME NEW o \in PlanIds
                 PROVE  plan'[o] = "none" <=> o[2] > latest'[o[1]]
    BY DEF PlansInOrder
  <2>2. o[1] \in Teams /\ o[2] \in Versions /\ o = <<o[1], o[2]>> /\ p = <<p[1], p[2]>>
    BY DEF PlanIds
  <2>3. plan[o] = "none" <=> o[2] > latest[o[1]]
    BY DEF Core, PlansInOrder
  <2>4. latest[o[1]] \in Nat /\ o[2] \in Nat /\ p[2] \in Nat
    BY <1>1, <2>2 DEF Core, DecisionTypes
  <2>5. CASE o = p
    BY <1>1, <1>5, <2>4, <2>5, StatusesApart DEF Core, DecisionTypes
  <2>6. CASE o # p
    <3>1. plan'[o] = plan[o]
      BY <1>5, <2>6 DEF Core, DecisionTypes
    <3>2. CASE o[1] = p[1]
      <4>1. latest'[o[1]] = p[2] /\ o[2] # p[2] /\ p[2] = latest[o[1]] + 1
        BY <1>1, <1>5, <2>2, <2>6, <3>2 DEF Core, DecisionTypes
      <4> QED BY <2>3, <2>4, <3>1, <4>1
    <3>3. CASE o[1] # p[1]
      BY <1>5, <2>2, <2>3, <3>1, <3>3 DEF Core, DecisionTypes
    <3> QED BY <3>2, <3>3
  <2> QED BY <2>5, <2>6
<1> QED BY <1>8, <1>9, <1>10, <1>11, <1>12, <1>13 DEF Core

\* One lease event: an active lease of a task that is still open is activated or
\* reaches a terminal status.  The clamp at zero never takes effect.
LEMMA CoreSetsLease ==
  ASSUME Core, NEW l \in LeaseIds, NEW s \in {"active"} \cup TerminalStatuses,
         l \in Active(lease), SetLease(l, s)
  PROVE  Core'
<1>1. /\ lease' = [lease EXCEPT ![l] = s] /\ ledgerLease' = [ledgerLease EXCEPT ![l] = s]
      /\ used' = UsedAfter(l, s)
      /\ UNCHANGED <<ledgerPlan, ledgerLatest, plan, latest>>
  BY DEF SetLease
<1>2. s \in LeaseStatuses /\ s # "none"
  BY StatusesApart DEF LeaseStatuses, ActiveStatuses
<1>3. lease[l] # "none"
  BY StatusesApart DEF Active
<1>4. Active(lease') = IF s \in TerminalStatuses THEN Active(lease) \ {l} ELSE Active(lease)
  BY <1>1, StatusesApart DEF Active, ActiveStatuses, Core, DecisionTypes
<1>5. Active(lease) \in SUBSET LeaseIds
  BY DEF Active
<1>6. \A r \in Resources :
        /\ Demand(l, r) \in Nat
        /\ Load(Active(lease) \ {l}, r) \in Nat
        /\ used[r] = Demand(l, r) + Load(Active(lease) \ {l}, r)
  BY <1>5, LoadLaws, DemandType DEF Core, UsageIsHeld
<1>7. DecisionTypes'
  <2>1. used' \in [Resources -> Nat]
    BY <1>1, <1>6 DEF UsedAfter, Core, DecisionTypes
  <2> QED BY <1>1, <1>2, <2>1 DEF Core, DecisionTypes
<1>8. MemoryIsReplay'
  BY <1>1 DEF Core, MemoryIsReplay
<1>9. UsageIsHeld'
  <2>1. ASSUME NEW r \in Resources
        PROVE  used'[r] = Load(Active(lease'), r)
    <3>1. CASE s \in TerminalStatuses
      <4>1. used'[r] = IF used[r] >= Demand(l, r) THEN used[r] - Demand(l, r) ELSE 0
        BY <1>1, <3>1 DEF UsedAfter
      <4>2. used'[r] = Load(Active(lease) \ {l}, r)
        BY <1>6, <4>1
      <4> QED BY <1>4, <3>1, <4>2
    <3>2. CASE s \notin TerminalStatuses
      BY <1>1, <1>4, <3>2 DEF UsedAfter, Core, UsageIsHeld
    <3> QED BY <3>1, <3>2
  <2> QED BY <2>1 DEF UsageIsHeld
<1>10. SerialExclusive'
  BY <1>1, <1>4 DEF Core, SerialExclusive
<1>11. LeasesFollowAdmission'
  <2>1. \A m \in LeaseIds : lease'[m] = "none" <=> lease[m] = "none"
    BY <1>1, <1>2, <1>3 DEF Core, DecisionTypes
  <2>2. \A p \in PlanIds : LeasesOf(p) \subseteq LeaseIds
    BY LeasesOfPlan
  <2> QED BY <1>1, <2>1, <2>2 DEF Core, LeasesFollowAdmission
<1>12. PlansInOrder'
  BY <1>1 DEF Core, PlansInOrder
<1> QED BY <1>7, <1>8, <1>9, <1>10, <1>11, <1>12 DEF Core

\* The grant of one worker's lease, under the team's last plan.
LEMMA CoreGrants ==
  ASSUME Core, OtherTypes, GrantWorkerLease
  PROVE  Core' /\ Asked \in LeaseIds /\ lease[Asked] = "none"
               /\ \A r \in Resources : used'[r] > used[r] => used'[r] <= capacity[r]
<1> DEFINE t == call.team
           p == <<t, latest[t]>>
<1>1. /\ latest[t] # 0 /\ plan[p] \in Admitted /\ Asked \in LeasesOf(p)
      /\ lease[Asked] = "none" /\ Fits(used, {Asked})
      /\ plan[p] = "serial" => \A l \in Active(lease) : l[1] # t
      /\ lease' = [lease EXCEPT ![Asked] = "granted"]
      /\ ledgerLease' = [ledgerLease EXCEPT ![Asked] = "granted"]
      /\ used' = [r \in Resources |-> used[r] + Demand(Asked, r)]
      /\ UNCHANGED <<ledgerPlan, ledgerLatest, plan, latest>>
  BY DEF GrantWorkerLease, Grantable
<1>2. t \in Teams
  BY DEF GrantWorkerLease, OtherTypes, Calls, Idle
<1>3. p \in PlanIds
  BY <1>1, <1>2 DEF Core, DecisionTypes, PlanIds
<1>4. Asked \in LeaseIds /\ PlanOf(Asked) = p
  BY <1>1, <1>3, LeasesOfPlan
<1> HIDE DEF t, p
<1>5. Active(lease') = Active(lease) \cup {Asked} /\ Asked \notin Active(lease)
  BY <1>1, <1>4, StatusesApart DEF Active, ActiveStatuses, Core, DecisionTypes
<1>6. Active(lease) \in SUBSET LeaseIds /\ Active(lease') \in SUBSET LeaseIds
  BY DEF Active
<1>7. \A r \in Resources : Demand(Asked, r) \in Nat
  BY <1>4, DemandType
<1>8. DecisionTypes'
  <2>1. used' \in [Resources -> Nat]
    BY <1>1, <1>7 DEF Core, DecisionTypes
  <2> QED BY <1>1, <2>1 DEF Core, DecisionTypes, LeaseStatuses, ActiveStatuses
<1>9. MemoryIsReplay'
  BY <1>1 DEF Core, MemoryIsReplay
<1>10. UsageIsHeld'
  <2>1. ASSUME NEW r \in Resources
        PROVE  used'[r] = Load(Active(lease'), r)
    <3>1. Active(lease') \ {Asked} = Active(lease)
      BY <1>5
    <3>2. Load(Active(lease'), r) = Demand(Asked, r) + Load(Active(lease), r)
      BY <1>5, <1>6, <3>1, LoadLaws
    <3>3. Load(Active(lease), r) = used[r] /\ used[r] \in Nat
      BY DEF Core, UsageIsHeld, DecisionTypes
    <3> QED BY <1>1, <1>7, <3>2, <3>3
  <2> QED BY <2>1 DEF UsageIsHeld
<1>11. SerialExclusive'
  <2>1. SUFFICES ASSUME NEW l \in Active(lease'), NEW m \in Active(lease'),
                        PlanOf(l) = PlanOf(m), plan'[PlanOf(l)] = "serial"
                 PROVE  l = m
    BY DEF SerialExclusive
  <2>2. CASE PlanOf(l) = p
    <3>1. \A k \in Active(lease) : k[1] # t
      BY <1>1, <2>1, <2>2
    <3>2. l[1] = t /\ m[1] = t
      BY <2>1, <2>2, <1>6 DEF PlanOf, p
    <3> QED BY <1>5, <3>1, <3>2
  <2>3. CASE PlanOf(l) # p
    <3>1. l \in Active(lease) /\ m \in Active(lease)
      BY <1>4, <1>5, <2>1, <2>3
    <3> QED BY <1>1, <2>1, <3>1 DEF Core, SerialExclusive
  <2> QED BY <2>2, <2>3
<1>12. LeasesFollowAdmission'
  <2>1. \A m \in LeaseIds : lease'[m] # "none" <=> lease[m] # "none" \/ m = Asked
    BY <1>1, <1>4 DEF Core, DecisionTypes
  <2>2. \A o \in PlanIds : LeasesOf(o) \subseteq LeaseIds
    BY LeasesOfPlan
  <2> QED BY <1>1, <1>4, <2>1, <2>2 DEF Core, LeasesFollowAdmission
<1>13. PlansInOrder'
  BY <1>1 DEF Core, PlansInOrder
<1>14. ASSUME NEW r \in Resources, used'[r] > used[r]
       PROVE  used'[r] <= capacity[r]
  <2>1. used'[r] = used[r] + Load({Asked}, r) /\ Load({Asked}, r) \in Nat
    BY <1>1, <1>4, <1>7, LoadOfOne
  <2>2. used[r] \in Nat
    BY DEF Core, DecisionTypes
  <2>3. Load({Asked}, r) > 0
    BY <1>14, <2>1, <2>2
  <2> QED BY <1>1, <2>1, <2>3 DEF Fits
<1> QED BY <1>1, <1>4, <1>8, <1>9, <1>10, <1>11, <1>12, <1>13, <1>14 DEF Core

\* A restart rebuilds what the memory already held.
LEMMA CoreRestarts ==
  ASSUME Core, Restart
  PROVE  Core' /\ UNCHANGED decisions
<1>1. UNCHANGED <<ledgerPlan, ledgerLatest, ledgerLease, plan, latest, lease>>
  BY DEF Core, MemoryIsReplay, Restart, ledger
<1>2. used' = used
  <2>1. used' = [r \in Resources |-> Load(Active(lease), r)]
    BY DEF Restart, Core, MemoryIsReplay
  <2> QED BY <2>1 DEF Core, UsageIsHeld, DecisionTypes
<1> QED BY <1>1, <1>2, CoreStutters DEF decisions
-----------------------------------------------------------------------------
(***************************************************************************)
(* The queue.                                                              *)
(***************************************************************************)
QueueType == queue \in [PlanIds -> Nat]

LEMMA FirstComesFirst ==
  ASSUME QueueType, NEW plans \in SUBSET PlanIds, plans # {}
  PROVE  /\ First(plans) \in plans
         /\ \A o \in plans : \/ Rank(First(plans)) < Rank(o)
                             \/ Rank(First(plans)) = Rank(o) /\ queue[First(plans)] <= queue[o]
<1> DEFINE Ranks == {Rank(p) : p \in plans}
<1>1. \A p \in plans : Rank(p) \in Nat /\ queue[p] \in Nat
  BY RequestAssumption DEF Rank, RequestType, PlanIds, QueueType
<1>2. PICK best \in Ranks : \A k \in Ranks : best <= k
  <2>1. Ranks \in SUBSET Nat /\ Ranks # {}
    BY <1>1
  <2> HIDE DEF Ranks
  <2> QED BY <2>1, LeastNatural
<1> DEFINE Places == {queue[p] : p \in {o \in plans : Rank(o) = best}}
<1>3. PICK place \in Places : \A k \in Places : place <= k
  <2>1. Places \in SUBSET Nat /\ Places # {}
    BY <1>1, <1>2
  <2> HIDE DEF Places
  <2> QED BY <2>1, LeastNatural
<1>4. PICK p \in plans : Rank(p) = best /\ queue[p] = place
  BY <1>3
<1>5. ASSUME NEW o \in plans
      PROVE  Rank(p) < Rank(o) \/ (Rank(p) = Rank(o) /\ queue[p] <= queue[o])
  <2>1. best <= Rank(o) /\ best \in Nat /\ Rank(o) \in Nat
    BY <1>1, <1>2
  <2>2. Rank(o) = best => place <= queue[o]
    BY <1>3
  <2> QED BY <1>4, <2>1, <2>2
<1> QED BY <1>4, <1>5 DEF First

LEMMA ClosingUp ==
  ASSUME NEW q \in [PlanIds -> Nat]
  PROVE  /\ ClosedUp(q) \in [PlanIds -> Nat]
         /\ Waiting(ClosedUp(q)) \subseteq Waiting(q)
<1>1. \A p \in PlanIds : IsFiniteSet({o \in Waiting(q) : q[o] <= q[p]})
  BY IdsAreFinite, FS_Subset DEF Waiting
<1>2. ClosedUp(q) \in [PlanIds -> Nat]
  BY <1>1, FS_CardinalityType DEF ClosedUp
<1>3. ASSUME NEW p \in PlanIds, q[p] = 0
      PROVE  ClosedUp(q)[p] = 0
  <2>1. {o \in Waiting(q) : q[o] <= q[p]} = {}
    BY <1>3 DEF Waiting
  <2> QED BY <2>1, FS_EmptySet DEF ClosedUp
<1> QED BY <1>2, <1>3 DEF Waiting

LEMMA QueueOperators ==
  ASSUME QueueType, NEW p \in PlanIds, NEW t \in Teams
  PROVE  /\ Enqueue(queue, p) \in [PlanIds -> Nat]
         /\ Waiting(Enqueue(queue, p)) \subseteq Waiting(queue) \cup {p}
         /\ Dequeue(queue, p) \in [PlanIds -> Nat]
         /\ Waiting(Dequeue(queue, p)) \subseteq Waiting(queue)
         /\ WithoutTeam(queue, t) \in [PlanIds -> Nat]
         /\ Waiting(WithoutTeam(queue, t)) \subseteq Waiting(queue)
<1>1. Cardinality(Waiting(queue)) \in Nat
  <2>1. Waiting(queue) \in SUBSET PlanIds
    BY DEF Waiting
  <2> QED BY <2>1, IdsAreFinite, FS_Subset, FS_CardinalityType
<1>2. /\ Enqueue(queue, p) \in [PlanIds -> Nat]
      /\ Waiting(Enqueue(queue, p)) \subseteq Waiting(queue) \cup {p}
  BY <1>1 DEF Enqueue, Waiting, QueueType
<1>3. /\ Dequeue(queue, p) \in [PlanIds -> Nat]
      /\ Waiting(Dequeue(queue, p)) \subseteq Waiting(queue)
  <2> DEFINE q == [queue EXCEPT ![p] = 0]
  <2>1. q \in [PlanIds -> Nat] /\ Waiting(q) \subseteq Waiting(queue)
    BY DEF Waiting, QueueType
  <2> HIDE DEF q
  <2>2. ClosedUp(q) \in [PlanIds -> Nat] /\ Waiting(ClosedUp(q)) \subseteq Waiting(queue)
    BY <2>1, ClosingUp
  <2> QED BY <2>2 DEF Dequeue, q
<1>4. /\ WithoutTeam(queue, t) \in [PlanIds -> Nat]
      /\ Waiting(WithoutTeam(queue, t)) \subseteq Waiting(queue)
  <2> DEFINE q == [o \in PlanIds |-> IF o[1] = t THEN 0 ELSE queue[o]]
  <2>1. q \in [PlanIds -> Nat] /\ Waiting(q) \subseteq Waiting(queue)
    BY DEF Waiting, QueueType
  <2> HIDE DEF q
  <2>2. ClosedUp(q) \in [PlanIds -> Nat] /\ Waiting(ClosedUp(q)) \subseteq Waiting(queue)
    BY <2>1, ClosingUp
  <2> QED BY <2>2 DEF WithoutTeam, q
<1> QED BY <1>2, <1>3, <1>4

\* Around survives a step that changes no decided plan and lets no plan into the
\* queue, and leaves the call as it is or ends it.
LEMMA AroundKeepsCalls ==
  ASSUME Core, Around, UNCHANGED <<plan, latest>>,
         OtherTypes', Waiting(queue') \subseteq Waiting(queue),
         call' = call \/ call' = Idle
  PROVE  Around'
<1>1. WaitingPlansAreQueued'
  BY DEF Around, WaitingPlansAreQueued
<1>2. CallsKnowTheirPlans'
  BY DEF Around, CallsKnowTheirPlans, Idle
<1> QED BY <1>1, <1>2 DEF Around

LEMMA SetLeaseAround ==
  ASSUME Core, Around, NEW l \in LeaseIds, NEW s, SetLease(l, s), UNCHANGED call
  PROVE  Around'
BY AroundKeepsCalls DEF SetLease, Around, OtherTypes, Core
-----------------------------------------------------------------------------
(***************************************************************************)
(* Every step of the scheduler preserves the inductive invariant.           *)
(***************************************************************************)
LEMMA ModeSelected ==
  ASSUME NEW p \in PlanIds, NEW k \in BOOLEAN
  PROVE  /\ SelectMode(p, k) \in Decisions
         /\ SelectMode(p, k) \in Concurrent => Fits(used, LeasesOf(p))
BY DEF SelectMode, Decisions, Admitted, Concurrent

LEMMA NextVersionOf ==
  ASSUME Core, NEW p \in PlanIds, plan[p] = "queued", p[2] < MaxVersion
  PROVE  /\ NextVersion(p) \in PlanIds
         /\ NextVersion(p)[1] = p[1]
         /\ plan[NextVersion(p)] = "none" => NextVersion(p)[2] = latest[p[1]] + 1
<1>1. p[1] \in Teams /\ p[2] \in Versions
  BY DEF PlanIds
<1>2. p[2] \in Nat /\ p[2] # 0 /\ MaxVersion \in Nat
  BY <1>1, BoundsAssumption DEF Versions
<1>3. NextVersion(p) \in PlanIds
  BY <1>1, <1>2 DEF NextVersion, PlanIds, Versions
<1>4. NextVersion(p)[1] = p[1] /\ NextVersion(p)[2] = p[2] + 1
  BY DEF NextVersion
<1>5. latest[p[1]] \in Nat
  <2>1. latest[p[1]] \in {0} \cup Versions
    BY <1>1 DEF Core, DecisionTypes
  <2> QED BY <2>1, BoundsAssumption DEF Versions
<1>6. p[2] <= latest[p[1]]
  <2>1. plan[p] # "none"
    OBVIOUS
  <2>2. ~ (p[2] > latest[p[1]])
    BY <2>1 DEF Core, PlansInOrder
  <2> QED BY <1>2, <1>5, <2>2
<1>7. plan[NextVersion(p)] = "none" => NextVersion(p)[2] > latest[p[1]]
  BY <1>3, <1>4 DEF Core, PlansInOrder
<1> QED BY <1>2, <1>3, <1>4, <1>5, <1>6, <1>7

\* What was decided stays decided when one more plan is.
LEMMA CommitKeepsPlans ==
  ASSUME Core, NEW p \in PlanIds, NEW d, Commit(p, d), plan[p] = "none"
  PROVE  /\ \A o \in PlanIds : plan[o] # "none" => plan'[o] = plan[o]
         /\ plan'[p] = d
BY DEF Commit, Core, DecisionTypes

LEMMA AdmitKeepsIInv ==
  ASSUME IInv, NEW p \in PlanIds, Admit(p)
  PROVE  IInv'
<1> DEFINE d == SelectMode(p, TRUE)
<1>1. /\ p[2] = latest[p[1]] + 1 /\ Commit(p, d) /\ UNCHANGED <<rebuilt, call>> /\ call = Idle
      /\ queue' = IF d = "queued" THEN Enqueue(queue, p) ELSE queue
  BY DEF Admit
<1>2. d \in Decisions
  BY ModeSelected
<1> HIDE DEF d
<1>3. Core'
  BY <1>1, <1>2, CoreCommits DEF IInv
<1>4. p[1] \in Teams
  BY DEF PlanIds
<1>5. plan[p] = "none"
  <2>1. latest[p[1]] \in {0} \cup Versions
    BY <1>4 DEF IInv, Core, DecisionTypes
  <2>2. p[2] > latest[p[1]]
    BY <1>1, <2>1, BoundsAssumption DEF Versions
  <2> QED BY <2>2 DEF IInv, Core, PlansInOrder
<1>6. queue' \in [PlanIds -> Nat] /\ Waiting(queue') \subseteq Waiting(queue) \cup {p}
      /\ (d # "queued" => queue' = queue)
  BY <1>1, <1>4, QueueOperators DEF IInv, Around, OtherTypes, QueueType
<1>7. OtherTypes'
  BY <1>1, <1>6 DEF Commit, IInv, Around, OtherTypes
<1>8. WaitingPlansAreQueued'
  <2>1. \A o \in PlanIds : plan[o] # "none" => plan'[o] = plan[o]
    BY <1>1, <1>5, CommitKeepsPlans DEF IInv
  <2>2. plan'[p] = d
    BY <1>1, <1>5, CommitKeepsPlans DEF IInv
  <2>3. \A o \in Waiting(queue) : plan[o] = "queued" /\ o \in PlanIds
    BY DEF IInv, Around, WaitingPlansAreQueued, Waiting
  <2>4. ASSUME NEW o \in Waiting(queue')
        PROVE  plan'[o] = "queued"
    <3>1. CASE o \in Waiting(queue)
      BY <2>1, <2>3, <3>1
    <3>2. CASE o \notin Waiting(queue)
      BY <1>6, <2>2, <2>4, <3>2
    <3> QED BY <3>1, <3>2
  <2> QED BY <2>4 DEF WaitingPlansAreQueued
<1>9. CallsKnowTheirPlans'
  BY <1>1 DEF CallsKnowTheirPlans, Idle
<1> QED BY <1>3, <1>7, <1>8, <1>9 DEF IInv, Around

LEMMA LeaseEventsKeepIInv ==
  ASSUME IInv, NEW l \in LeaseIds, NEW s \in {"active"} \cup TerminalStatuses,
         l \in Active(lease), SetLease(l, s), UNCHANGED call
  PROVE  IInv'
BY CoreSetsLease, SetLeaseAround DEF IInv

LEMMA CallBeginsKeepsIInv ==
  ASSUME IInv, CallBegins
  PROVE  IInv'
<1>1. Core'
  BY CoreStutters DEF IInv, CallBegins, decisions, ledger
<1>2. call' \in Calls
  <2>1. Waiting(queue) \in SUBSET PlanIds
    BY DEF Waiting
  <2> QED BY <2>1, BoundsAssumption DEF CallBegins, Calls
<1>3. OtherTypes'
  BY <1>2 DEF CallBegins, ledger, IInv, Around, OtherTypes
<1>4. WaitingPlansAreQueued'
  BY DEF CallBegins, IInv, Around, WaitingPlansAreQueued
<1>5. CallsKnowTheirPlans'
  BY DEF CallBegins, CallsKnowTheirPlans, IInv, Around, WaitingPlansAreQueued
<1> QED BY <1>1, <1>3, <1>4, <1>5 DEF IInv, Around

\* A call that ends without a further append.
LEMMA ReturnsKeepIInv ==
  ASSUME IInv, UNCHANGED <<ledger, plan, latest, lease, used, rebuilt, capacity, overdue>>,
         queue' \in [PlanIds -> Nat], Waiting(queue') \subseteq Waiting(queue),
         call' = Idle, dropped' \in SUBSET PlanIds
  PROVE  IInv'
<1>1. Core'
  BY CoreStutters DEF IInv, decisions, ledger
<1>2. OtherTypes'
  BY DEF ledger, IInv, Around, OtherTypes, Calls
<1>3. Around'
  BY <1>2, AroundKeepsCalls DEF IInv
<1> QED BY <1>1, <1>3 DEF IInv

LEMMA GrantKeepsIInv ==
  ASSUME IInv, GrantWorkerLease
  PROVE  IInv'
<1>1. Core'
  BY CoreGrants DEF IInv, Around
<1>2. OtherTypes'
  BY DEF GrantWorkerLease, IInv, Around, OtherTypes, Calls
<1>3. Around'
  BY <1>2, AroundKeepsCalls DEF IInv, GrantWorkerLease
<1> QED BY <1>1, <1>3 DEF IInv

LEMMA CancelKeepsIInv ==
  ASSUME IInv, CancelCommits
  PROVE  IInv'
<1> DEFINE p == <<call.team, latest[call.team]>>
<1>1. /\ ledgerCancelled' = ledgerCancelled \cup {p}
      /\ queue' = WithoutTeam(queue, call.team) /\ call' = Idle
      /\ rebuilt' \subseteq rebuilt
      /\ UNCHANGED <<ledgerPlan, ledgerLatest, ledgerLease, closed, plan, latest, lease,
                     used, capacity, overdue, dropped>>
  BY DEF CancelCommits
<1>2. call.team \in Teams /\ latest[call.team] # 0
  BY DEF CancelCommits, IInv, Around, OtherTypes, Calls, Idle, CallsKnowTheirPlans
<1>3. p \in PlanIds
  BY <1>2 DEF PlanIds, IInv, Core, DecisionTypes
<1>4. queue' \in [PlanIds -> Nat] /\ Waiting(queue') \subseteq Waiting(queue)
  BY <1>1, <1>2, <1>3, QueueOperators DEF IInv, Around, OtherTypes, QueueType
<1>5. Core'
  BY <1>1, CoreStutters DEF IInv, decisions
<1>6. OtherTypes'
  BY <1>1, <1>3, <1>4 DEF IInv, Around, OtherTypes, Calls
<1>7. Around'
  BY <1>1, <1>4, <1>6, AroundKeepsCalls DEF IInv
<1> QED BY <1>5, <1>7 DEF IInv

\* The entry a drain is at, and the plan it admits for it.
LEMMA DrainsNext ==
  ASSUME IInv, call.op = "drain"
  PROVE  LET e == First(call.rest) IN
         /\ e \in call.rest /\ e \in PlanIds /\ e[1] \in Teams
         /\ plan[e] = "queued" /\ e[2] < MaxVersion
         /\ NextVersion(e) \in PlanIds
         /\ NextVersion(e)[1] = e[1]
         /\ plan[NextVersion(e)] = "none" => NextVersion(e)[2] = latest[e[1]] + 1
<1> DEFINE e == First(call.rest)
<1>1. call.rest \in SUBSET PlanIds /\ call.rest # {}
  BY DEF IInv, Around, OtherTypes, Calls, Idle, CallsKnowTheirPlans
<1>2. e \in call.rest
  BY <1>1, FirstComesFirst DEF IInv, Around, OtherTypes, QueueType
<1> HIDE DEF e
<1>3. e \in PlanIds /\ plan[e] = "queued" /\ e[2] < MaxVersion
  BY <1>1, <1>2 DEF IInv, Around, CallsKnowTheirPlans
<1>4. e[1] \in Teams
  BY <1>3 DEF PlanIds
<1>5. /\ NextVersion(e) \in PlanIds /\ NextVersion(e)[1] = e[1]
      /\ plan[NextVersion(e)] = "none" => NextVersion(e)[2] = latest[e[1]] + 1
  BY <1>3, NextVersionOf DEF IInv
<1> QED BY <1>2, <1>3, <1>4, <1>5 DEF e

LEMMA DrainKeepsIInv ==
  ASSUME IInv, DrainStep
  PROVE  IInv'
<1> DEFINE e     == First(call.rest)
           next  == NextVersion(e)
           known == plan[next] # "none"
           d     == IF known THEN plan[next] ELSE SelectMode(next, KeepsItsStages(e))
           left  == Dequeue(queue, e)
           rest  == call.rest \ {e}
<1>1. /\ call.op = "drain"
      /\ IF known THEN UNCHANGED <<ledger, plan, latest, lease, used, capacity, overdue, dropped>>
         ELSE Accepts(e[1]) /\ Commit(next, d)
      /\ queue' = IF d = "queued" /\ ~known THEN Enqueue(left, next) ELSE left
      /\ rebuilt' = (rebuilt \ {e}) \cup
                      IF d = "queued" /\ ~known /\ e \in rebuilt THEN {next} ELSE {}
      /\ call' = IF d = "queued" \/ rest = {} THEN Idle ELSE [op |-> "drain", rest |-> rest]
  BY DEF DrainStep
<1>2. /\ e \in call.rest /\ e \in PlanIds /\ e[1] \in Teams /\ plan[e] = "queued"
      /\ next \in PlanIds /\ next[1] = e[1]
      /\ ~known => next[2] = latest[next[1]] + 1
  BY <1>1, DrainsNext
<1>3. ~known => d \in Decisions
  BY <1>2, ModeSelected DEF KeepsItsStages
<1>4. left \in [PlanIds -> Nat] /\ Waiting(left) \subseteq Waiting(queue)
  BY <1>2, QueueOperators DEF IInv, Around, OtherTypes, QueueType
<1> HIDE DEF e, next, d, left
<1>5. Core'
  <2>1. CASE known
    BY <1>1, <2>1, CoreStutters DEF IInv, decisions, ledger
  <2>2. CASE ~known
    BY <1>1, <1>2, <1>3, <2>2, CoreCommits DEF IInv
  <2> QED BY <2>1, <2>2
<1>6. \A o \in PlanIds : plan[o] # "none" => plan'[o] = plan[o]
  <2>1. CASE known
    BY <1>1, <2>1
  <2>2. CASE ~known
    BY <1>1, <1>2, <2>2, CommitKeepsPlans DEF IInv
  <2> QED BY <2>1, <2>2
<1>7. d = "queued" /\ ~known => plan'[next] = "queued"
  BY <1>1, <1>2, CommitKeepsPlans DEF IInv
<1>8. /\ queue' \in [PlanIds -> Nat]
      /\ Waiting(queue') \subseteq Waiting(queue) \cup
           (IF d = "queued" /\ ~known THEN {next} ELSE {})
  <2>1. CASE d = "queued" /\ ~known
    <3>1. Cardinality(Waiting(left)) \in Nat
      <4>1. Waiting(left) \in SUBSET PlanIds
        BY DEF Waiting
      <4> QED BY <4>1, IdsAreFinite, FS_Subset, FS_CardinalityType
    <3>2. queue' = [left EXCEPT ![next] = Cardinality(Waiting(left)) + 1]
      BY <1>1, <2>1 DEF Enqueue
    <3> QED BY <1>2, <1>4, <2>1, <3>1, <3>2 DEF Waiting
  <2>2. CASE ~ (d = "queued" /\ ~known)
    BY <1>1, <1>4, <2>2
  <2> QED BY <2>1, <2>2
<1>9. call.rest \in SUBSET PlanIds
  BY <1>1 DEF IInv, Around, OtherTypes, Calls, Idle
<1>10. \/ call' = Idle
       \/ call' = [op |-> "drain", rest |-> rest] /\ rest # {}
  BY <1>1
<1>11. OtherTypes'
  <2>1. call' \in Calls
    BY <1>9, <1>10 DEF Calls
  <2>2. /\ ledgerCancelled' = ledgerCancelled /\ closed' = closed
        /\ capacity' = capacity /\ overdue' = overdue /\ dropped' = dropped
    BY <1>1 DEF Commit, ledger
  <2>3. rebuilt' \in SUBSET PlanIds
    BY <1>1, <1>2 DEF IInv, Around, OtherTypes
  <2> QED BY <1>8, <2>1, <2>2, <2>3 DEF IInv, Around, OtherTypes
<1>12. WaitingPlansAreQueued'
  <2>1. \A o \in Waiting(queue) : o \in PlanIds /\ plan[o] = "queued"
    BY DEF IInv, Around, WaitingPlansAreQueued, Waiting
  <2> QED BY <1>6, <1>7, <1>8, <2>1 DEF WaitingPlansAreQueued
<1>13. CallsKnowTheirPlans'
  <2>1. \A o \in call.rest : plan[o] = "queued" /\ o[2] < MaxVersion /\ plan'[o] = "queued"
    BY <1>1, <1>6, <1>9 DEF IInv, Around, CallsKnowTheirPlans
  <2> QED BY <1>10, <2>1 DEF CallsKnowTheirPlans, Idle
<1> QED BY <1>5, <1>11, <1>12, <1>13 DEF IInv, Around

LEMMA FailureKeepsIInv ==
  ASSUME IInv, CallFails
  PROVE  IInv'
<1>1. queue' \in [PlanIds -> Nat] /\ Waiting(queue') \subseteq Waiting(queue)
  <2>1. CASE UNCHANGED queue
    BY <2>1 DEF IInv, Around, OtherTypes
  <2>2. CASE call.op = "cancel" /\ queue' = WithoutTeam(queue, call.team)
    <3>1. call.team \in Teams /\ latest[call.team] # 0
      BY <2>2 DEF IInv, Around, OtherTypes, Calls, Idle, CallsKnowTheirPlans
    <3>2. <<call.team, latest[call.team]>> \in PlanIds
      BY <3>1 DEF PlanIds, IInv, Core, DecisionTypes
    <3> QED BY <2>2, <3>1, <3>2, QueueOperators DEF IInv, Around, OtherTypes, QueueType
  <2>3. CASE call.op = "drain" /\ queue' = Dequeue(queue, First(call.rest))
    <3>1. First(call.rest) \in PlanIds /\ First(call.rest)[1] \in Teams
      BY <2>3, DrainsNext
    <3> QED BY <2>3, <3>1, QueueOperators DEF IInv, Around, OtherTypes, QueueType
  <2> QED BY <2>1, <2>2, <2>3 DEF CallFails
<1>2. dropped' \in SUBSET PlanIds
  BY DEF CallFails, Waiting, IInv, Around, OtherTypes
<1> QED BY <1>1, <1>2, ReturnsKeepIInv DEF CallFails

LEMMA RestartKeepsIInv ==
  ASSUME IInv, Restart
  PROVE  IInv'
<1>1. Core' /\ UNCHANGED decisions
  BY CoreRestarts DEF IInv
<1>2. /\ queue' \in [PlanIds -> Nat]
      /\ \A p \in Waiting(queue') : ledgerPlan[p] = "queued"
  <2>1. PICK order \in Bijection(Requeued, 1 .. Cardinality(Requeued)) :
          queue' = [p \in PlanIds |-> IF p \in Requeued THEN order[p] ELSE 0]
    BY DEF Restart
  <2>2. \A p \in Requeued : order[p] \in Nat
    BY <2>1 DEF Bijection, Injection, Surjection
  <2> QED BY <2>1, <2>2 DEF Waiting, Requeued
<1>3. OtherTypes'
  BY <1>2 DEF Restart, Requeued, ledger, IInv, Around, OtherTypes, Calls
<1>4. WaitingPlansAreQueued'
  BY <1>1, <1>2 DEF WaitingPlansAreQueued, decisions, IInv, Core, MemoryIsReplay
<1>5. CallsKnowTheirPlans'
  BY DEF Restart, CallsKnowTheirPlans, Idle
<1> QED BY <1>1, <1>3, <1>4, <1>5 DEF IInv, Around

LEMMA WorldKeepsIInv ==
  ASSUME IInv, \/ \E l \in LeaseIds : DeadlinePasses(l)
               \/ \E k \in Tasks : CloseTask(k) \/ ReviewTask(k)
  PROVE  IInv'
<1>1. UNCHANGED <<ledgerPlan, ledgerLatest, ledgerCancelled, ledgerLease, memory, capacity,
                  dropped>>
  BY DEF DeadlinePasses, CloseTask, ReviewTask, ledger
<1>2. Core'
  BY <1>1, CoreStutters DEF IInv, decisions, memory
<1>3. overdue' \in SUBSET LeaseIds /\ closed' \in SUBSET Tasks
  BY DEF DeadlinePasses, CloseTask, ReviewTask, ledger, IInv, Around, OtherTypes
<1>4. OtherTypes'
  BY <1>1, <1>3 DEF IInv, Around, OtherTypes, memory
<1>5. Around'
  BY <1>1, <1>4, AroundKeepsCalls DEF IInv, memory
<1> QED BY <1>2, <1>5 DEF IInv

LEMMA IInvInit == Init => IInv
<1> SUFFICES ASSUME Init
             PROVE  IInv
  OBVIOUS
<1>1. OtherTypes
  BY DEF Init, OtherTypes, Calls
<1>2. WaitingPlansAreQueued /\ CallsKnowTheirPlans
  BY DEF Init, WaitingPlansAreQueued, CallsKnowTheirPlans, Waiting, Idle
<1> QED BY <1>1, <1>2, CoreInit DEF IInv, Around

LEMMA IInvStep == IInv /\ [Next]_vars => IInv'
<1> SUFFICES ASSUME IInv, [Next]_vars
             PROVE  IInv'
  OBVIOUS
<1>1. CASE \E p \in PlanIds : Admit(p)
  BY <1>1, AdmitKeepsIInv
<1>2. CASE \E l \in LeaseIds : ActivateLease(l)
  <2>1. PICK l \in LeaseIds : ActivateLease(l)
    BY <1>2
  <2>2. l \in Active(lease)
    BY <2>1 DEF ActivateLease, Active, ActiveStatuses
  <2> QED BY <2>1, <2>2, LeaseEventsKeepIInv DEF ActivateLease
<1>3. CASE \E l \in LeaseIds, s \in ReleaseStatuses : ReleaseLease(l, s)
  <2>1. PICK l \in LeaseIds, s \in ReleaseStatuses : ReleaseLease(l, s)
    BY <1>3
  <2>2. l \in Active(lease) /\ s \in TerminalStatuses
    BY <2>1, BoundsAssumption DEF ReleaseLease, Active
  <2> QED BY <2>1, <2>2, LeaseEventsKeepIInv DEF ReleaseLease
<1>4. CASE CallBegins
  BY <1>4, CallBeginsKeepsIInv
<1>5. CASE \E l \in LeaseIds : ExpireStep(l)
  <2>1. PICK l \in LeaseIds : ExpireStep(l)
    BY <1>5
  <2>2. l \in Active(lease) /\ "expired" \in TerminalStatuses
    BY <2>1 DEF ExpireStep, Overdue, TerminalStatuses
  <2> QED BY <2>1, <2>2, LeaseEventsKeepIInv DEF ExpireStep
<1>6. CASE ExpireReturns \/ GrantRefused
  <2>1. /\ UNCHANGED <<ledger, plan, latest, lease, used, queue, rebuilt, capacity, overdue, dropped>>
        /\ call' = Idle
    BY <1>6 DEF ExpireReturns, GrantRefused
  <2> QED BY <2>1, ReturnsKeepIInv DEF IInv, Around, OtherTypes
<1>7. CASE GrantWorkerLease
  BY <1>7, GrantKeepsIInv
<1>8. CASE \E l \in LeaseIds : CancelStep(l)
  <2>1. PICK l \in LeaseIds : CancelStep(l)
    BY <1>8
  <2>2. l \in Active(lease) /\ "cancelled" \in TerminalStatuses
    BY <2>1 DEF CancelStep, TeamsLeases, TerminalStatuses
  <2> QED BY <2>1, <2>2, LeaseEventsKeepIInv DEF CancelStep
<1>9. CASE CancelCommits
  BY <1>9, CancelKeepsIInv
<1>10. CASE DrainStep
  BY <1>10, DrainKeepsIInv
<1>11. CASE CallFails
  BY <1>11, FailureKeepsIInv
<1>12. CASE Restart
  BY <1>12, RestartKeepsIInv
<1>13. CASE (\E l \in LeaseIds : DeadlinePasses(l)) \/ (\E k \in Tasks : CloseTask(k) \/ ReviewTask(k))
  BY <1>13, WorldKeepsIInv
<1>14. CASE UNCHANGED vars
  <2>1. Core'
    BY <1>14, CoreStutters DEF IInv, vars, decisions, ledger, memory
  <2>2. OtherTypes'
    BY <1>14 DEF IInv, Around, OtherTypes, vars, ledger, memory
  <2>3. Around'
    BY <1>14, <2>2, AroundKeepsCalls DEF IInv, vars, memory
  <2> QED BY <2>1, <2>3 DEF IInv
<1> QED BY <1>1, <1>2, <1>3, <1>4, <1>5, <1>6, <1>7, <1>8, <1>9, <1>10, <1>11, <1>12,
           <1>13, <1>14 DEF Next
-----------------------------------------------------------------------------
(***************************************************************************)
(* The theorems.                                                           *)
(***************************************************************************)
THEOREM Inductive == Spec => []IInv
<1>1. Init => IInv
  BY IInvInit
<1>2. IInv /\ [Next]_vars => IInv'
  BY IInvStep
<1> QED BY <1>1, <1>2, PTL DEF Spec

\* Every variable keeps its type: in particular no counter of used resources ever
\* goes below zero.
THEOREM TypeCorrectness == Spec => []TypeOK
<1>1. IInv => TypeOK
  BY TypesOfIInv DEF IInv, Core, Around
<1> QED BY <1>1, Inductive, PTL

\* What the scheduler remembers is what the ledger replays to, after any part of
\* any call, whatever appends fail.
THEOREM Replayable == Spec => []MemoryIsReplay
<1>1. IInv => MemoryIsReplay
  BY DEF IInv, Core
<1> QED BY <1>1, Inductive, PTL

\* The counters are exactly what the active leases reserve, so the clamp at zero
\* in the release path never hides a double release.
THEOREM Accounting == Spec => []UsageIsHeld
<1>1. IInv => UsageIsHeld
  BY DEF IInv, Core
<1> QED BY <1>1, Inductive, PTL

\* A serial team has one active lease at most under each of its plans.
THEOREM Serial == Spec => []SerialExclusive
<1>1. IInv => SerialExclusive
  BY DEF IInv, Core
<1> QED BY <1>1, Inductive, PTL

\* Leases exist under admitted plans only, and for whole concurrent teams.
THEOREM Admission == Spec => []LeasesFollowAdmission
<1>1. IInv => LeasesFollowAdmission
  BY DEF IInv, Core
<1> QED BY <1>1, Inductive, PTL

LEMMA Ranks ==
  /\ StatusRank("none") = 0 /\ StatusRank("granted") = 1 /\ StatusRank("active") = 2
  /\ \A s \in TerminalStatuses : StatusRank(s) = 3
BY DEF StatusRank, TerminalStatuses

LEMMA LeaseEventMovesForward ==
  ASSUME Core, NEW l \in LeaseIds, NEW s \in TerminalStatuses,
         l \in Active(lease), SetLease(l, s), NEW m \in LeaseIds, lease'[m] # lease[m]
  PROVE  StatusRank(lease'[m]) > StatusRank(lease[m])
<1>1. lease' = [lease EXCEPT ![l] = s] /\ lease \in [LeaseIds -> LeaseStatuses]
  BY DEF SetLease, Core, DecisionTypes
<1>2. m = l /\ lease'[m] = s
  BY <1>1
<1>3. lease[m] \in {"granted", "active"}
  BY <1>2 DEF Active, ActiveStatuses
<1> QED BY <1>2, <1>3, Ranks

LEMMA ForwardStep ==
  ASSUME IInv, [Next]_vars, NEW m \in LeaseIds, lease'[m] # lease[m]
  PROVE  StatusRank(lease'[m]) > StatusRank(lease[m])
<1>1. ASSUME NEW p \in PlanIds, NEW d, Commit(p, d), plan[p] = "none"
      PROVE  StatusRank(lease'[m]) > StatusRank(lease[m])
  <2>1. lease'[m] = "granted" /\ m \in LeasesOf(p)
    BY <1>1 DEF Commit
  <2>2. PlanOf(m) = p
    BY <2>1, LeasesOfPlan
  <2>3. lease[m] = "none"
    BY <1>1, <2>2, StatusesApart DEF IInv, Core, LeasesFollowAdmission
  <2> QED BY <2>1, <2>3, Ranks
<1>2. CASE \E p \in PlanIds : Admit(p)
  <2>1. PICK p \in PlanIds : Admit(p)
    BY <1>2
  <2>2. plan[p] = "none"
    <3>1. p[1] \in Teams
      BY DEF PlanIds
    <3>2. latest[p[1]] \in {0} \cup Versions
      BY <3>1 DEF IInv, Core, DecisionTypes
    <3>3. p[2] > latest[p[1]]
      BY <2>1, <3>2, BoundsAssumption DEF Versions, Admit
    <3> QED BY <3>3 DEF IInv, Core, PlansInOrder
  <2> QED BY <1>1, <2>1, <2>2 DEF Admit
<1>3. CASE DrainStep
  BY <1>1, <1>3, DrainsNext DEF DrainStep
<1>4. CASE GrantWorkerLease
  <2>1. Asked \in LeaseIds /\ lease[Asked] = "none"
    BY <1>4, CoreGrants DEF IInv, Around
  <2>2. lease' = [lease EXCEPT ![Asked] = "granted"]
    BY <1>4 DEF GrantWorkerLease
  <2>3. m = Asked /\ lease'[m] = "granted"
    BY <2>1, <2>2 DEF IInv, Core, DecisionTypes
  <2> QED BY <2>1, <2>3, Ranks
<1>5. CASE \E l \in LeaseIds : ActivateLease(l)
  <2>1. PICK l \in LeaseIds : lease[l] = "granted" /\ lease' = [lease EXCEPT ![l] = "active"]
    BY <1>5 DEF ActivateLease, SetLease
  <2>2. m = l /\ lease'[m] = "active"
    BY <2>1 DEF IInv, Core, DecisionTypes
  <2> QED BY <2>1, <2>2, Ranks
<1>6. CASE \E l \in LeaseIds, s \in TerminalStatuses : l \in Active(lease) /\ SetLease(l, s)
  BY <1>6, LeaseEventMovesForward DEF IInv
<1>7. CASE \/ \E l \in LeaseIds, s \in ReleaseStatuses : ReleaseLease(l, s)
           \/ \E l \in LeaseIds : ExpireStep(l) \/ CancelStep(l)
  <2>1. "expired" \in TerminalStatuses /\ "cancelled" \in TerminalStatuses
    BY DEF TerminalStatuses
  <2>2. \E l \in LeaseIds, s \in TerminalStatuses : l \in Active(lease) /\ SetLease(l, s)
    BY <1>7, <2>1, BoundsAssumption
    DEF ReleaseLease, ExpireStep, CancelStep, Overdue, TeamsLeases, Active
  <2> QED BY <1>6, <2>2
<1>8. ASSUME \/ CallBegins \/ ExpireReturns \/ GrantRefused \/ CancelCommits \/ CallFails
             \/ Restart \/ \E l \in LeaseIds : DeadlinePasses(l)
             \/ \E k \in Tasks : CloseTask(k) \/ ReviewTask(k)
             \/ UNCHANGED vars
      PROVE  FALSE
  <2>1. CASE Restart
    BY <2>1, CoreRestarts DEF IInv, decisions
  <2> QED BY <1>8, <2>1
      DEF CallBegins, ExpireReturns, GrantRefused, CancelCommits, CallFails, DeadlinePasses,
          CloseTask, ReviewTask, vars, memory
<1> QED BY <1>2, <1>3, <1>4, <1>5, <1>7, <1>8 DEF Next

\* A lease only moves forward, through restarts and failed calls too.
THEOREM Forward == Spec => LeasesMoveForward
<1>1. IInv /\ [Next]_vars => [\A l \in LeaseIds :
        lease'[l] # lease[l] => StatusRank(lease'[l]) > StatusRank(lease[l])]_vars
  BY ForwardStep
<1> QED BY <1>1, Inductive, PTL DEF Spec, LeasesMoveForward

LEMMA WithinCapacity ==
  ASSUME IInv, [Next]_vars, NEW r \in Resources, used'[r] > used[r]
  PROVE  used'[r] <= capacity'[r]
<1>0. used[r] \in Nat
  BY DEF IInv, Core, DecisionTypes
<1>1. ASSUME NEW p \in PlanIds, NEW k \in BOOLEAN, Commit(p, SelectMode(p, k))
      PROVE  used'[r] <= capacity'[r]
  <2>1. CASE SelectMode(p, k) \in Concurrent
    <3>1. used'[r] = used[r] + Load(LeasesOf(p), r) /\ capacity' = capacity
      BY <1>1, <2>1 DEF Commit
    <3>2. Load(LeasesOf(p), r) > 0
      <4>1. LeasesOf(p) \in SUBSET LeaseIds
        BY LeasesOfPlan
      <4>2. Load(LeasesOf(p), r) \in Nat
        BY <4>1, LoadLaws
      <4> QED BY <1>0, <3>1, <4>2
    <3>3. used[r] + Load(LeasesOf(p), r) <= capacity[r]
      BY <2>1, <3>2, ModeSelected DEF Fits
    <3> QED BY <3>1, <3>3
  <2>2. CASE SelectMode(p, k) \notin Concurrent
    <3>1. used'[r] = used[r] + Load({}, r)
      BY <1>1, <2>2 DEF Commit
    <3>2. used'[r] = used[r]
      BY <1>0, <3>1, LoadLaws
    <3> QED BY <1>0, <3>2
  <2> QED BY <2>1, <2>2
<1>2. CASE \E p \in PlanIds : Admit(p)
  BY <1>1, <1>2 DEF Admit
<1>3. CASE DrainStep
  <2>1. \/ UNCHANGED used
        \/ \E k \in BOOLEAN :
             Commit(NextVersion(First(call.rest)), SelectMode(NextVersion(First(call.rest)), k))
    BY <1>3 DEF DrainStep, KeepsItsStages
  <2>2. NextVersion(First(call.rest)) \in PlanIds
    BY <1>3, DrainsNext DEF DrainStep
  <2> QED BY <1>0, <1>1, <2>1, <2>2
<1>4. CASE GrantWorkerLease
  <2>1. used'[r] > used[r] => used'[r] <= capacity[r]
    BY <1>4, CoreGrants DEF IInv, Around
  <2> QED BY <1>4, <2>1 DEF GrantWorkerLease
<1>5. ASSUME NEW l \in LeaseIds, NEW s, SetLease(l, s)
      PROVE  FALSE
  <2>1. Demand(l, r) \in Nat
    BY DemandType
  <2>2. used'[r] = used[r] \/ used'[r] = used[r] - Demand(l, r) \/ used'[r] = 0
    BY <1>5 DEF SetLease, UsedAfter
  <2> QED BY <1>0, <2>1, <2>2
<1>6. CASE \/ \E l \in LeaseIds : ActivateLease(l) \/ ExpireStep(l) \/ CancelStep(l)
           \/ \E l \in LeaseIds, s \in ReleaseStatuses : ReleaseLease(l, s)
  BY <1>5, <1>6 DEF ActivateLease, ExpireStep, CancelStep, ReleaseLease
<1>7. ASSUME \/ CallBegins \/ ExpireReturns \/ GrantRefused \/ CancelCommits \/ CallFails
             \/ Restart \/ \E l \in LeaseIds : DeadlinePasses(l)
             \/ \E k \in Tasks : CloseTask(k) \/ ReviewTask(k)
             \/ UNCHANGED vars
      PROVE  FALSE
  <2>1. CASE Restart
    BY <1>0, <2>1, CoreRestarts DEF IInv, decisions
  <2>2. CASE UNCHANGED used
    BY <1>0, <2>2
  <2> QED BY <1>7, <2>1, <2>2
      DEF CallBegins, ExpireReturns, GrantRefused, CancelCommits, CallFails, DeadlinePasses,
          CloseTask, ReviewTask, vars, memory
<1> QED BY <1>2, <1>3, <1>4, <1>6, <1>7 DEF Next

\* Nothing is granted beyond what the node has measured.
THEOREM NoOvercommit == Spec => NeverOvercommits
<1>1. IInv /\ [Next]_vars => [\A r \in Resources : used'[r] > used[r] => used'[r] <= capacity'[r]]_vars
  BY WithinCapacity
<1> QED BY <1>1, Inductive, PTL DEF Spec, NeverOvercommits
-----------------------------------------------------------------------------
(***************************************************************************)
(* The order of the queue, and what it holds.                              *)
(***************************************************************************)

\* The places of a queue's plans are distinct, and no greater than their number.
IsOrdered(q) ==
  /\ \A p \in Waiting(q) : q[p] <= Cardinality(Waiting(q))
  /\ \A p, o \in Waiting(q) : q[p] = q[o] => p = o

LEMMA WaitingIsFinite ==
  ASSUME NEW q
  PROVE  /\ Waiting(q) \in SUBSET PlanIds
         /\ IsFiniteSet(Waiting(q)) /\ Cardinality(Waiting(q)) \in Nat
<1>1. Waiting(q) \in SUBSET PlanIds
  BY DEF Waiting
<1> QED BY <1>1, IdsAreFinite, FS_Subset, FS_CardinalityType

\* Closing up keeps the plans of a queue, and gives each the place of its rank.
LEMMA ClosedUpIsOrdered ==
  ASSUME NEW q \in [PlanIds -> Nat], \A p, o \in Waiting(q) : q[p] = q[o] => p = o
  PROVE  Waiting(ClosedUp(q)) = Waiting(q) /\ IsOrdered(ClosedUp(q))
<1> DEFINE Upto(p) == {o \in Waiting(q) : q[o] <= q[p]}
<1>1. \A p \in PlanIds : ClosedUp(q)[p] = Cardinality(Upto(p))
  BY DEF ClosedUp
<1>2. \A p : /\ Upto(p) \in SUBSET Waiting(q) /\ IsFiniteSet(Upto(p))
             /\ Cardinality(Upto(p)) \in Nat /\ Cardinality(Upto(p)) <= Cardinality(Waiting(q))
  BY WaitingIsFinite, FS_Subset, FS_CardinalityType
<1>3. \A p \in Waiting(q) : p \in Upto(p) /\ p \in PlanIds
  BY WaitingIsFinite
<1>4. ASSUME NEW p \in Waiting(q), NEW o \in Waiting(q), p # o, q[p] <= q[o]
      PROVE  Cardinality(Upto(p)) # Cardinality(Upto(o))
  <2>1. q[p] \in Nat /\ q[o] \in Nat /\ q[p] # q[o]
    BY <1>3, <1>4
  <2>2. Upto(p) \in SUBSET Upto(o)
    BY <1>4, <2>1 DEF Waiting
  <2>3. o \in Upto(o) /\ o \notin Upto(p)
    BY <1>3, <1>4, <2>1
  <2> HIDE DEF Upto
  <2>4. Upto(o) # Upto(p)
    BY <2>3
  <2> QED BY <1>2, <2>2, <2>4, FS_Subset
<1>5. Waiting(ClosedUp(q)) = Waiting(q)
  <2>1. ASSUME NEW p \in Waiting(q)
        PROVE  ClosedUp(q)[p] # 0
    BY <1>1, <1>2, <1>3, FS_EmptySet
  <2>2. Waiting(ClosedUp(q)) \subseteq Waiting(q)
    BY ClosingUp
  <2> QED BY <1>3, <2>1, <2>2 DEF Waiting
<1>6. ASSUME NEW p \in Waiting(q)
      PROVE  ClosedUp(q)[p] <= Cardinality(Waiting(q))
  <2>1. ClosedUp(q)[p] = Cardinality(Upto(p))
    BY <1>1, <1>3
  <2> HIDE DEF Upto
  <2> QED BY <1>2, <2>1
<1>7. ASSUME NEW p \in Waiting(q), NEW o \in Waiting(q), ClosedUp(q)[p] = ClosedUp(q)[o]
      PROVE  p = o
  <2>1. q[p] \in Nat /\ q[o] \in Nat
    BY <1>3
  <2>2. Cardinality(Upto(p)) = Cardinality(Upto(o))
    BY <1>1, <1>3, <1>7
  <2> HIDE DEF Upto
  <2> QED BY <1>4, <2>1, <2>2
<1> QED BY <1>5, <1>6, <1>7 DEF IsOrdered

LEMMA QueueStaysOrdered ==
  ASSUME NEW q \in [PlanIds -> Nat], IsOrdered(q), NEW p \in PlanIds, NEW t
  PROVE  /\ IsOrdered(Dequeue(q, p)) /\ Waiting(Dequeue(q, p)) = Waiting(q) \ {p}
         /\ IsOrdered(WithoutTeam(q, t))
         /\ Waiting(WithoutTeam(q, t)) = {o \in Waiting(q) : o[1] # t}
         /\ p \notin Waiting(q) =>
              IsOrdered(Enqueue(q, p)) /\ Waiting(Enqueue(q, p)) = Waiting(q) \cup {p}
<1>1. ASSUME NEW r \in [PlanIds -> Nat], \A o \in PlanIds : r[o] = q[o] \/ r[o] = 0
      PROVE  \A o1, o2 \in Waiting(r) : r[o1] = r[o2] => o1 = o2
  BY <1>1 DEF Waiting, IsOrdered
<1>2. IsOrdered(Dequeue(q, p)) /\ Waiting(Dequeue(q, p)) = Waiting(q) \ {p}
  <2> DEFINE r == [q EXCEPT ![p] = 0]
  <2>1. r \in [PlanIds -> Nat] /\ \A o \in PlanIds : r[o] = q[o] \/ r[o] = 0
    OBVIOUS
  <2>2. Waiting(r) = Waiting(q) \ {p}
    BY DEF Waiting
  <2> HIDE DEF r
  <2>3. Waiting(ClosedUp(r)) = Waiting(r) /\ IsOrdered(ClosedUp(r))
    BY <1>1, <2>1, ClosedUpIsOrdered
  <2> QED BY <2>2, <2>3 DEF Dequeue, r
<1>3. IsOrdered(WithoutTeam(q, t)) /\ Waiting(WithoutTeam(q, t)) = {o \in Waiting(q) : o[1] # t}
  <2> DEFINE r == [o \in PlanIds |-> IF o[1] = t THEN 0 ELSE q[o]]
  <2>1. r \in [PlanIds -> Nat] /\ \A o \in PlanIds : r[o] = q[o] \/ r[o] = 0
    OBVIOUS
  <2>2. Waiting(r) = {o \in Waiting(q) : o[1] # t}
    BY DEF Waiting
  <2> HIDE DEF r
  <2>3. Waiting(ClosedUp(r)) = Waiting(r) /\ IsOrdered(ClosedUp(r))
    BY <1>1, <2>1, ClosedUpIsOrdered
  <2> QED BY <2>2, <2>3 DEF WithoutTeam, r
<1>4. ASSUME p \notin Waiting(q)
      PROVE  IsOrdered(Enqueue(q, p)) /\ Waiting(Enqueue(q, p)) = Waiting(q) \cup {p}
  <2> DEFINE n == Cardinality(Waiting(q))
             r == Enqueue(q, p)
  <2>1. n \in Nat /\ Waiting(q) \in SUBSET PlanIds
    BY WaitingIsFinite
  <2>2. r = [q EXCEPT ![p] = n + 1]
    BY DEF Enqueue
  <2>3. Waiting(r) = Waiting(q) \cup {p}
    BY <2>1, <2>2 DEF Waiting
  <2>4. Cardinality(Waiting(r)) = n + 1
    BY <1>4, <2>3, WaitingIsFinite, FS_AddElement
  <2>5. \A o \in Waiting(q) : r[o] = q[o] /\ q[o] \in Nat /\ q[o] <= n
    BY <1>4, <2>1, <2>2 DEF IsOrdered
  <2>6. r[p] = n + 1
    BY <2>2
  <2> HIDE DEF r, n
  <2>7. \A o \in Waiting(r) : r[o] <= n + 1
    BY <2>1, <2>3, <2>5, <2>6
  <2>8. ASSUME NEW o1 \in Waiting(r), NEW o2 \in Waiting(r), r[o1] = r[o2]
        PROVE  o1 = o2
    BY <2>1, <2>3, <2>5, <2>6, <2>8 DEF IsOrdered
  <2> QED BY <2>3, <2>4, <2>7, <2>8 DEF IsOrdered, r
<1> QED BY <1>2, <1>3, <1>4

\* Within a drain, what waits is what is left of its snapshot.
DrainsWhatWaits == call.op = "drain" => Waiting(queue) = call.rest

QInv == IsOrdered(queue) /\ DrainsWhatWaits

\* The steps that do not touch the queue, and end no drain but with the call.
LEMMA QuietSteps ==
  ASSUME IInv, QInv, UNCHANGED queue, call' = call \/ call'.op # "drain"
  PROVE  QInv'
BY DEF QInv, DrainsWhatWaits, IsOrdered, Waiting

\* What a drain's step takes off the queue, and what it puts there.
LEMMA DrainMovesQueue ==
  ASSUME IInv, QInv, DrainStep
  PROVE  LET e    == First(call.rest)
             next == NextVersion(e)
         IN /\ IsOrdered(queue')
            /\ \/ Waiting(queue') = Waiting(queue) \ {e}
               \/ /\ Waiting(queue') = (Waiting(queue) \ {e}) \cup {next}
                  /\ plan[next] = "none" /\ plan'[next] = "queued" /\ call' = Idle
            /\ plan[next] = "none" /\ plan'[next] = "queued" => next \in Waiting(queue')
            /\ call' # Idle => call' = [op |-> "drain", rest |-> call.rest \ {e}]
<1> DEFINE e     == First(call.rest)
           next  == NextVersion(e)
           known == plan[next] # "none"
           d     == IF known THEN plan[next] ELSE SelectMode(next, KeepsItsStages(e))
           left  == Dequeue(queue, e)
           rest  == call.rest \ {e}
<1>1. /\ call.op = "drain"
      /\ IF known THEN UNCHANGED <<ledger, plan, latest, lease, used, capacity, overdue, dropped>>
         ELSE Accepts(e[1]) /\ Commit(next, d)
      /\ queue' = IF d = "queued" /\ ~known THEN Enqueue(left, next) ELSE left
      /\ call' = IF d = "queued" \/ rest = {} THEN Idle ELSE [op |-> "drain", rest |-> rest]
  BY DEF DrainStep
<1>2. e \in PlanIds /\ e[1] \in Teams /\ next \in PlanIds
  BY <1>1, DrainsNext
<1>3. queue \in [PlanIds -> Nat] /\ IsOrdered(queue)
  BY DEF IInv, Around, OtherTypes, QInv
<1>4. left \in [PlanIds -> Nat] /\ IsOrdered(left) /\ Waiting(left) = Waiting(queue) \ {e}
  BY <1>2, <1>3, QueueStaysOrdered, QueueOperators DEF QueueType
<1> HIDE DEF e, next, d, left
<1>5. CASE d = "queued" /\ ~known
  <2>1. plan'[next] = d
    BY <1>1, <1>2, <1>5, CommitKeepsPlans DEF IInv
  <2>2. next \notin Waiting(left)
    BY <1>4, <1>5 DEF IInv, Around, WaitingPlansAreQueued
  <2>3. IsOrdered(Enqueue(left, next)) /\ Waiting(Enqueue(left, next)) = Waiting(left) \cup {next}
    BY <1>2, <1>4, <2>2, QueueStaysOrdered
  <2>4. call' = Idle /\ queue' = Enqueue(left, next)
    BY <1>1, <1>5
  <2>5. next \in Waiting(queue')
    BY <2>3, <2>4
  <2> QED BY <1>4, <1>5, <2>1, <2>3, <2>4, <2>5 DEF e, next
<1>6. CASE ~(d = "queued" /\ ~known)
  <2>1. queue' = left
    BY <1>1, <1>6
  <2>2. ~known => plan'[next] # "queued"
    BY <1>1, <1>2, <1>6, CommitKeepsPlans DEF IInv
  <2>3. call' # Idle => call' = [op |-> "drain", rest |-> rest]
    BY <1>1
  <2> QED BY <1>4, <2>1, <2>2, <2>3 DEF e, next
<1> QED BY <1>5, <1>6

\* A reconciled queue holds what it should, in some order.
LEMMA RestartRebuildsQueue ==
  ASSUME Restart
  PROVE  IsOrdered(queue') /\ Waiting(queue') = Requeued /\ call' = Idle
<1>1. PICK order \in Bijection(Requeued, 1 .. Cardinality(Requeued)) :
        queue' = [p \in PlanIds |-> IF p \in Requeued THEN order[p] ELSE 0]
  BY DEF Restart
<1>2. Requeued \in SUBSET PlanIds
  BY DEF Requeued
<1>3. \A p \in Requeued : queue'[p] = order[p] /\ order[p] \in 1 .. Cardinality(Requeued)
  BY <1>1, <1>2 DEF Bijection, Injection, Surjection
<1>4. \A p, o \in Requeued : order[p] = order[o] => p = o
  BY <1>1 DEF Bijection, Injection, IsInjective
<1>5. Cardinality(Requeued) \in Nat
  BY <1>2, IdsAreFinite, FS_Subset, FS_CardinalityType
<1>6. Waiting(queue') = Requeued
  BY <1>1, <1>2, <1>3, <1>5 DEF Waiting
<1>7. \A p \in Requeued : queue'[p] <= Cardinality(Requeued)
  BY <1>3, <1>5
<1>8. IsOrdered(queue')
  BY <1>3, <1>4, <1>6, <1>7 DEF IsOrdered
<1> QED BY <1>6, <1>8 DEF Restart

LEMMA QInvInit == Init => QInv
<1> SUFFICES ASSUME Init
             PROVE  QInv
  OBVIOUS
<1>1. Waiting(queue) = {}
  BY DEF Init, Waiting
<1> QED BY <1>1 DEF Init, QInv, IsOrdered, DrainsWhatWaits, Idle

LEMMA AdmitMovesQueue ==
  ASSUME IInv, QInv, NEW p \in PlanIds, Admit(p)
  PROVE  /\ plan[p] = "none" /\ plan'[p] = SelectMode(p, TRUE)
         /\ IsOrdered(queue')
         /\ Waiting(queue') = IF SelectMode(p, TRUE) = "queued" THEN Waiting(queue) \cup {p}
                              ELSE Waiting(queue)
<1>1. plan[p] = "none"
  <2>1. p[1] \in Teams
    BY DEF PlanIds
  <2>2. latest[p[1]] \in {0} \cup Versions
    BY <2>1 DEF IInv, Core, DecisionTypes
  <2>3. p[2] > latest[p[1]]
    BY <2>2, BoundsAssumption DEF Versions, Admit
  <2> QED BY <2>3 DEF IInv, Core, PlansInOrder
<1>2. plan'[p] = SelectMode(p, TRUE)
  BY <1>1, CommitKeepsPlans DEF IInv, Admit
<1>3. p \notin Waiting(queue)
  BY <1>1 DEF IInv, Around, WaitingPlansAreQueued
<1>4. queue \in [PlanIds -> Nat] /\ IsOrdered(queue)
  BY DEF IInv, Around, OtherTypes, QInv
<1>5. IsOrdered(Enqueue(queue, p)) /\ Waiting(Enqueue(queue, p)) = Waiting(queue) \cup {p}
  BY <1>3, <1>4, QueueStaysOrdered
<1>6. queue' = IF SelectMode(p, TRUE) = "queued" THEN Enqueue(queue, p) ELSE queue
  BY DEF Admit
<1> QED BY <1>1, <1>2, <1>4, <1>5, <1>6

LEMMA QInvStep == IInv /\ QInv /\ [Next]_vars => QInv'
<1> SUFFICES ASSUME IInv, QInv, [Next]_vars
             PROVE  QInv'
  OBVIOUS
<1>1. CASE \E p \in PlanIds : Admit(p)
  <2>1. IsOrdered(queue')
    BY <1>1, AdmitMovesQueue
  <2>2. call'.op # "drain"
    BY <1>1 DEF Admit, Idle
  <2> QED BY <2>1, <2>2 DEF QInv, DrainsWhatWaits, IsOrdered, Waiting
<1>2. CASE CallBegins
  <2>1. UNCHANGED queue
    BY <1>2 DEF CallBegins
  <2>2. call'.op = "drain" => call'.rest = Waiting(queue)
    BY <1>2 DEF CallBegins
  <2> QED BY <2>1, <2>2 DEF QInv, DrainsWhatWaits, IsOrdered, Waiting
<1>3. CASE CancelCommits
  <2>1. queue' = WithoutTeam(queue, call.team) /\ call' = Idle
    BY <1>3 DEF CancelCommits
  <2>2. IsOrdered(WithoutTeam(queue, call.team))
    <3>1. PlanIds # {}
      BY <1>3, CancelKeepsIInv DEF CancelCommits, IInv, Around, OtherTypes
    <3> QED BY <3>1, QueueStaysOrdered DEF IInv, Around, OtherTypes, QInv
  <2> QED BY <2>1, <2>2 DEF QInv, DrainsWhatWaits, IsOrdered, Waiting, Idle
<1>4. CASE DrainStep
  <2>1. IsOrdered(queue')
    BY <1>4, DrainMovesQueue
  <2>2. call' # Idle => /\ call' = [op |-> "drain", rest |-> call.rest \ {First(call.rest)}]
                        /\ Waiting(queue') = Waiting(queue) \ {First(call.rest)}
    BY <1>4, DrainMovesQueue
  <2>3. Waiting(queue) = call.rest
    BY <1>4 DEF DrainStep, QInv, DrainsWhatWaits
  <2> QED BY <2>1, <2>2, <2>3 DEF QInv, DrainsWhatWaits, IsOrdered, Waiting, Idle
<1>5. CASE CallFails
  <2>1. IsOrdered(queue')
    <3>1. queue \in [PlanIds -> Nat] /\ IsOrdered(queue)
      BY DEF IInv, Around, OtherTypes, QInv
    <3>2. CASE UNCHANGED queue
      BY <3>1, <3>2
    <3>3. CASE call.op = "cancel" /\ queue' = WithoutTeam(queue, call.team)
      <4>1. <<call.team, latest[call.team]>> \in PlanIds
        BY <3>3 DEF IInv, Around, Core, DecisionTypes, OtherTypes, Calls, Idle,
                    CallsKnowTheirPlans, PlanIds
      <4> QED BY <3>1, <3>3, <4>1, QueueStaysOrdered
    <3>4. CASE call.op = "drain" /\ queue' = Dequeue(queue, First(call.rest))
      <4>1. First(call.rest) \in PlanIds
        BY <3>4, DrainsNext
      <4> QED BY <3>1, <3>4, <4>1, QueueStaysOrdered
    <3> QED BY <1>5, <3>2, <3>3, <3>4 DEF CallFails
  <2>2. call' = Idle
    BY <1>5 DEF CallFails
  <2> QED BY <2>1, <2>2 DEF QInv, DrainsWhatWaits, IsOrdered, Waiting, Idle
<1>6. CASE Restart
  BY <1>6, RestartRebuildsQueue DEF QInv, DrainsWhatWaits, IsOrdered, Waiting, Idle
<1>7. ASSUME \/ \E l \in LeaseIds : ActivateLease(l) \/ ExpireStep(l) \/ CancelStep(l)
                                      \/ DeadlinePasses(l)
             \/ \E l \in LeaseIds, s \in ReleaseStatuses : ReleaseLease(l, s)
             \/ ExpireReturns \/ GrantWorkerLease \/ GrantRefused
             \/ \E k \in Tasks : CloseTask(k) \/ ReviewTask(k)
             \/ UNCHANGED vars
      PROVE  QInv'
  <2>1. UNCHANGED queue /\ (call' = call \/ call' = Idle)
    BY <1>7 DEF ActivateLease, ExpireStep, CancelStep, DeadlinePasses, ReleaseLease, SetLease,
       ExpireReturns, GrantWorkerLease, GrantRefused, CloseTask, ReviewTask, vars, memory
  <2> QED BY <2>1, QuietSteps DEF Idle
<1> QED BY <1>1, <1>2, <1>3, <1>4, <1>5, <1>6, <1>7 DEF Next
-----------------------------------------------------------------------------
(***************************************************************************)
(* No retry forgets a team, but where an append fails after it was taken    *)
(* off the queue.                                                          *)
(***************************************************************************)

\* The last plan of a team, when it is queued and was not cancelled, waits, or was
\* taken off by a call that failed.
LastPlansWait ==
  \A t \in Teams :
    latest[t] # 0 /\ plan[<<t, latest[t]>>] = "queued" /\ <<t, latest[t]>> \notin ledgerCancelled
      => <<t, latest[t]>> \in Waiting(queue) \cup dropped

LEMMA LastPlansWaitStep == IInv /\ QInv /\ LastPlansWait /\ [Next]_vars => LastPlansWait'
<1> SUFFICES ASSUME IInv, QInv, LastPlansWait, [Next]_vars
             PROVE  LastPlansWait'
  OBVIOUS
<1> DEFINE L(t) == <<t, latest[t]>>
<1>c. \A t \in Teams : latest[t] # 0 => L(t) \in PlanIds
  BY DEF IInv, Core, DecisionTypes, PlanIds
\* Other steps change no plan: they may cancel, and what is left must still wait.
<1>d. ASSUME UNCHANGED <<plan, latest>>, ledgerCancelled \subseteq ledgerCancelled',
             \A t \in Teams :
               L(t) \in Waiting(queue) \cup dropped /\ L(t) \notin ledgerCancelled'
                 => L(t) \in Waiting(queue') \cup dropped'
      PROVE  LastPlansWait'
  BY <1>d DEF LastPlansWait
<1>1. CASE \E p \in PlanIds : Admit(p)
  <2>1. PICK p \in PlanIds : Admit(p)
    BY <1>1
  <2>2. /\ plan[p] = "none" /\ plan'[p] = SelectMode(p, TRUE)
        /\ Waiting(queue') = IF SelectMode(p, TRUE) = "queued" THEN Waiting(queue) \cup {p}
                             ELSE Waiting(queue)
    BY <2>1, AdmitMovesQueue
  <2>3. latest' = [latest EXCEPT ![p[1]] = p[2]] /\ (\E d : plan' = [plan EXCEPT ![p] = d])
        /\ ledgerCancelled' = ledgerCancelled /\ dropped' = dropped
    BY <2>1 DEF Admit, Commit
  <2>4. ASSUME NEW t \in Teams, latest'[t] # 0, plan'[<<t, latest'[t]>>] = "queued",
               <<t, latest'[t]>> \notin ledgerCancelled'
        PROVE  <<t, latest'[t]>> \in Waiting(queue') \cup dropped'
    <3>1. CASE t = p[1]
      <4>1. <<t, latest'[t]>> = p
        BY <2>3, <3>1 DEF PlanIds, IInv, Core, DecisionTypes
      <4> QED BY <2>2, <2>4, <4>1
    <3>2. CASE t # p[1]
      <4>1. latest'[t] = latest[t] /\ L(t) # p
        BY <2>3, <3>2 DEF IInv, Core, DecisionTypes
      <4>2. plan'[L(t)] = plan[L(t)]
        BY <2>3, <4>1 DEF IInv, Core, DecisionTypes
      <4>3. L(t) \in Waiting(queue) \cup dropped
        BY <2>3, <2>4, <4>1, <4>2 DEF LastPlansWait
      <4>4. Waiting(queue) \subseteq Waiting(queue') /\ dropped' = dropped
        BY <2>2, <2>3
      <4> QED BY <4>1, <4>3, <4>4
    <3> QED BY <3>1, <3>2
  <2> QED BY <2>4 DEF LastPlansWait
<1>2. CASE DrainStep
  <2> DEFINE e    == First(call.rest)
             next == NextVersion(e)
  <2>1. /\ e \in PlanIds /\ e[1] \in Teams /\ next \in PlanIds /\ next[1] = e[1]
        /\ plan[next] = "none" => next[2] = latest[e[1]] + 1
        /\ plan[e] = "queued" /\ next = <<e[1], e[2] + 1>>
    BY <1>2, DrainsNext DEF DrainStep, NextVersion
  <2>2. /\ Waiting(queue) \ {e} \subseteq Waiting(queue') /\ dropped' = dropped
        /\ plan[next] = "none" /\ plan'[next] = "queued" => next \in Waiting(queue')
    BY <1>2, DrainMovesQueue DEF DrainStep, Commit
  <2>3. IF plan[next] # "none" THEN UNCHANGED <<ledger, plan, latest>>
        ELSE /\ latest' = [latest EXCEPT ![e[1]] = next[2]]
             /\ \E d : plan' = [plan EXCEPT ![next] = d]
             /\ ledgerCancelled' = ledgerCancelled
    <3>1. IF plan[next] # "none" THEN UNCHANGED <<ledger, plan, latest>>
          ELSE Commit(next, SelectMode(next, KeepsItsStages(e)))
      BY <1>2 DEF DrainStep
    <3>2. next[1] = e[1]
      BY <2>1
    <3> HIDE DEF next, e
    <3> QED BY <3>1, <3>2 DEF Commit
  <2>4. e[2] \in Nat /\ e[2] + 1 \in Nat
    BY <2>1, BoundsAssumption DEF PlanIds, Versions
  <2> HIDE DEF e, next
  <2>5. CASE plan[next] # "none"
    <3>1. \A t \in Teams : L(t) # e
      <4> SUFFICES ASSUME NEW t \in Teams, L(t) = e
                   PROVE  FALSE
        OBVIOUS
      <4>1. t = e[1] /\ latest[t] = e[2]
        OBVIOUS
      <4>2. ~(next[2] > latest[e[1]])
        BY <2>1, <2>5 DEF IInv, Core, PlansInOrder
      <4>3. next[2] = e[2] + 1
        BY <2>1
      <4> QED BY <2>4, <4>1, <4>2, <4>3
    <3>2. UNCHANGED <<plan, latest, ledgerCancelled>>
      BY <2>3, <2>5 DEF ledger
    <3> QED BY <1>d, <2>2, <3>1, <3>2
  <2>6. CASE plan[next] = "none"
    <3>1. PICK d : plan' = [plan EXCEPT ![next] = d]
      BY <2>3, <2>6
    <3>2. latest' = [latest EXCEPT ![e[1]] = next[2]] /\ ledgerCancelled' = ledgerCancelled
      BY <2>3, <2>6
    <3>3. ASSUME NEW t \in Teams, latest'[t] # 0, plan'[<<t, latest'[t]>>] = "queued",
                 <<t, latest'[t]>> \notin ledgerCancelled'
          PROVE  <<t, latest'[t]>> \in Waiting(queue') \cup dropped'
      <4>1. CASE t = e[1]
        <5>1. <<t, latest'[t]>> = next
          BY <2>1, <3>2, <4>1 DEF IInv, Core, DecisionTypes
        <5> QED BY <2>2, <2>6, <3>3, <5>1
      <4>2. CASE t # e[1]
        <5>1. latest'[t] = latest[t] /\ L(t) # next /\ L(t) # e
          BY <2>1, <3>2, <4>2 DEF IInv, Core, DecisionTypes
        <5>2. plan'[L(t)] = plan[L(t)]
          BY <3>1, <5>1 DEF IInv, Core, DecisionTypes
        <5> QED BY <2>2, <3>2, <3>3, <5>1, <5>2 DEF LastPlansWait
      <4> QED BY <4>1, <4>2
    <3> QED BY <3>3 DEF LastPlansWait
  <2> QED BY <2>5, <2>6
<1>3. CASE CancelCommits
  <2>1. /\ UNCHANGED <<plan, latest>> /\ queue' = WithoutTeam(queue, call.team)
        /\ ledgerCancelled' = ledgerCancelled \cup {L(call.team)} /\ dropped' = dropped
    BY <1>3 DEF CancelCommits
  <2>2. call.team \in Teams /\ latest[call.team] # 0
    BY <1>3 DEF CancelCommits, IInv, Around, OtherTypes, Calls, Idle, CallsKnowTheirPlans
  <2>3. Waiting(queue') = {o \in Waiting(queue) : o[1] # call.team}
    <3>1. L(call.team) \in PlanIds
      BY <1>c, <2>2
    <3>2. queue \in [PlanIds -> Nat] /\ IsOrdered(queue)
      BY DEF IInv, Around, OtherTypes, QInv
    <3> HIDE DEF L
    <3> QED BY <2>1, <3>1, <3>2, QueueStaysOrdered
  <2>4. \A t \in Teams : L(t)[1] = t
    OBVIOUS
  <2> HIDE DEF L
  <2> QED BY <1>d, <2>1, <2>3, <2>4
<1>4. CASE CallFails
  <2>1. UNCHANGED <<plan, latest, ledgerCancelled>>
    BY <1>4 DEF CallFails, ledger
  <2>2. dropped' = dropped \cup (Waiting(queue) \ Waiting(queue'))
    BY <1>4 DEF CallFails
  <2> QED BY <1>d, <2>1, <2>2
<1>5. CASE Restart
  <2>1. Waiting(queue') = Requeued /\ UNCHANGED <<plan, latest, ledgerCancelled>>
    BY <1>5, RestartRebuildsQueue, CoreRestarts DEF IInv, decisions, Restart, ledger
  <2>2. plan = ledgerPlan
    BY DEF IInv, Core, MemoryIsReplay
  <2> QED BY <1>c, <2>1, <2>2 DEF LastPlansWait, Requeued
<1>6. ASSUME \/ \E l \in LeaseIds : ActivateLease(l) \/ ExpireStep(l) \/ CancelStep(l)
                                      \/ DeadlinePasses(l)
             \/ \E l \in LeaseIds, s \in ReleaseStatuses : ReleaseLease(l, s)
             \/ CallBegins \/ ExpireReturns \/ GrantWorkerLease \/ GrantRefused
             \/ \E k \in Tasks : CloseTask(k) \/ ReviewTask(k)
             \/ UNCHANGED vars
      PROVE  LastPlansWait'
  <2>1. UNCHANGED <<plan, latest, ledgerCancelled, queue, dropped>>
    BY <1>6 DEF ActivateLease, ExpireStep, CancelStep, DeadlinePasses, ReleaseLease, SetLease,
       CallBegins, ExpireReturns, GrantWorkerLease, GrantRefused, CloseTask, ReviewTask, vars,
       memory, ledger
  <2> QED BY <1>d, <2>1 DEF Waiting
<1> QED BY <1>1, <1>2, <1>3, <1>4, <1>5, <1>6 DEF Next

THEOREM QueueInductive == Spec => []QInv
<1>1. Init => QInv
  BY QInvInit
<1>2. IInv /\ QInv /\ [Next]_vars => QInv'
  BY QInvStep
<1> QED BY <1>1, <1>2, Inductive, PTL DEF Spec

\* Over retries, cancellations, failed appends and restarts, only queued plans wait,
\* each in a place of its own.
THEOREM QueueInOrder == Spec => [](WaitingPlansAreQueued /\ IsOrdered(queue))
<1>1. IInv /\ QInv => WaitingPlansAreQueued /\ IsOrdered(queue)
  BY DEF IInv, Around, QInv
<1> QED BY <1>1, Inductive, QueueInductive, PTL

\* No retry, cancellation or restart forgets a team: its last plan waits, if it is
\* queued and was not cancelled, or was taken off the queue by a call that failed
\* afterwards and waits for the next restart.
THEOREM NoTeamForgotten == Spec => []QueueHoldsTheWaiting
<1>1. Init => LastPlansWait
  BY DEF Init, LastPlansWait
<1>2. IInv /\ QInv /\ LastPlansWait /\ [Next]_vars => LastPlansWait'
  BY LastPlansWaitStep
<1>3. IInv /\ QInv /\ LastPlansWait => QueueHoldsTheWaiting
  BY DEF IInv, Around, WaitingPlansAreQueued, QInv, IsOrdered, LastPlansWait, QueueHoldsTheWaiting
<1> QED BY <1>1, <1>2, <1>3, Inductive, QueueInductive, PTL DEF Spec

LEMMA FirstIsBest ==
  ASSUME QueueType, NEW plans \in SUBSET PlanIds, NEW o \in plans
  PROVE  Rank(o) >= Rank(First(plans))
<1>1. \A p \in PlanIds : Rank(p) \in Nat
  BY RequestAssumption DEF Rank, RequestType, PlanIds
<1>2. /\ First(plans) \in plans
      /\ Rank(First(plans)) < Rank(o) \/ Rank(First(plans)) = Rank(o)
  BY FirstComesFirst
<1>3. Rank(o) \in Nat /\ Rank(First(plans)) \in Nat
  BY <1>1, <1>2
<1> QED BY <1>2, <1>3

\* What a drain decides is the next version of the entry it is at.
LEMMA DrainDecides ==
  ASSUME IInv, [Next]_vars, NEW p \in PlanIds,
         call.op = "drain", plan[p] = "none", plan'[p] # "none"
  PROVE  LET e == First(call.rest) IN
         /\ DrainStep /\ p = NextVersion(e) /\ p \in PlanIds /\ p[1] = e[1] /\ e \in PlanIds
         /\ e \in call.rest /\ plan[e] = "queued"
         /\ plan'[p] = SelectMode(p, KeepsItsStages(e))
<1>1. DrainStep
  <2>1. plan' # plan
    OBVIOUS
  <2>2. ~ Restart
    BY <2>1, CoreRestarts DEF IInv, decisions
  <2>3. ASSUME NEW o \in PlanIds, Admit(o)
        PROVE  FALSE
    <3>1. call = Idle
      BY <2>3 DEF Admit
    <3> QED BY <3>1 DEF Idle
  <2>4. ASSUME \/ \E l \in LeaseIds : ActivateLease(l) \/ ExpireStep(l) \/ CancelStep(l)
               \/ \E l \in LeaseIds, s \in ReleaseStatuses : ReleaseLease(l, s)
        PROVE  UNCHANGED plan
    BY <2>4 DEF ActivateLease, ReleaseLease, SetLease, ExpireStep, CancelStep
  <2>5. ASSUME \/ CallBegins \/ ExpireReturns \/ GrantWorkerLease \/ GrantRefused
               \/ CancelCommits \/ CallFails \/ \E l \in LeaseIds : DeadlinePasses(l)
               \/ \E k \in Tasks : CloseTask(k) \/ ReviewTask(k)
               \/ UNCHANGED vars
        PROVE  UNCHANGED plan
    BY <2>5 DEF CallBegins, ExpireReturns, GrantWorkerLease, GrantRefused,
       CancelCommits, CallFails, DeadlinePasses, CloseTask, ReviewTask, vars, memory
  <2> QED BY <2>1, <2>2, <2>3, <2>4, <2>5 DEF Next
<1> DEFINE e    == First(call.rest)
           next == NextVersion(e)
<1>2. /\ next \in PlanIds /\ next[1] = e[1] /\ e \in PlanIds /\ e \in call.rest
      /\ plan[e] = "queued"
  BY <1>1, DrainsNext
<1>3. p = next
  <2>1. UNCHANGED plan \/ \E d : plan' = [plan EXCEPT ![next] = d]
    BY <1>1 DEF DrainStep, Commit
  <2> HIDE DEF next
  <2> QED BY <1>2, <2>1 DEF IInv, Core, DecisionTypes
<1>4. Commit(next, SelectMode(next, KeepsItsStages(e)))
  BY <1>1, <1>3 DEF DrainStep
<1> HIDE DEF next, e
<1>5. plan'[next] = SelectMode(next, KeepsItsStages(e))
  BY <1>2, <1>3, <1>4, CommitKeepsPlans DEF IInv
<1> QED BY <1>1, <1>2, <1>3, <1>5 DEF next, e

\* A drain admits the plans that wait in the order of their priority classes.
LEMMA DrainStepHonoursPriority ==
  ASSUME IInv, QInv, [Next]_vars, NEW p \in PlanIds,
         call.op = "drain", plan[p] = "none", plan'[p] \in Admitted, NEW o \in Waiting(queue')
  PROVE  Rank(o) >= Rank(p)
<1> DEFINE e    == First(call.rest)
           next == NextVersion(e)
<1>1. plan'[p] # "none"
  BY StatusesApart
<1>2. DrainStep /\ p = next /\ next[1] = e[1] /\ e \in PlanIds
  BY <1>1, DrainDecides
<1>4. Rank(p) = Rank(e)
  BY <1>2 DEF Rank
<1>5. plan'[next] # "queued"
  BY <1>2, StatusesApart
<1>6. o \in Waiting(queue) \ {e}
  BY <1>2, <1>5, DrainMovesQueue
<1>7. o \in call.rest /\ call.rest \in SUBSET PlanIds
  BY <1>6 DEF QInv, DrainsWhatWaits, IInv, Around, OtherTypes, Calls, Idle
<1> QED BY <1>4, <1>7, FirstIsBest DEF IInv, Around, OtherTypes, QueueType

\* drain_queue admits no queued team while one of a better priority class waits.
THEOREM DrainInPriorityOrder == Spec => DrainHonoursPriority
<1>1. IInv /\ QInv /\ [Next]_vars => [\A p \in PlanIds :
        call.op = "drain" /\ plan[p] = "none" /\ plan'[p] \in Admitted
          => \A o \in Waiting(queue') : Rank(o) >= Rank(p)]_vars
  BY DrainStepHonoursPriority
<1> QED BY <1>1, Inductive, QueueInductive, PTL DEF Spec, DrainHonoursPriority
-----------------------------------------------------------------------------
(***************************************************************************)
(* Whom a retry refuses.                                                   *)
(***************************************************************************)

\* A team that is told to wait is one that a big enough node could run, and a plan
\* that has waited in this process only is one that this node could.
FitsAlone(p) == \A l \in LeasesOf(p) : Fits(Nothing, {l})

WaitingIsWelcome ==
  /\ \A p \in PlanIds : plan[p] = "queued" => Request[p[1]].wellFormed /\ LeasesOf(p) # {}
  /\ \A p \in Waiting(queue) \ rebuilt :
       FitsAlone(p) /\ (Request[p[1]].mode = "pipelined" => Request[p[1]].staged)

\* Two versions of a team's plan ask for the same.
LEMMA VersionsAskTheSame ==
  ASSUME NEW p \in PlanIds, NEW e \in PlanIds, p[1] = e[1], FitsAlone(e)
  PROVE  FitsAlone(p)
<1> SUFFICES ASSUME NEW l \in LeasesOf(p)
             PROVE  Fits(Nothing, {l})
  BY DEF FitsAlone
<1>1. PICK w \in Request[p[1]].crew : l = <<p[1], p[2], w>>
  BY DEF LeasesOf
<1> DEFINE m == <<e[1], e[2], w>>
<1>2. m \in LeasesOf(e) /\ m \in LeaseIds /\ l \in LeaseIds
  BY <1>1, LeasesOfPlan DEF LeasesOf
<1>3. Vram(l) = Vram(m) /\ Devices(l) = Devices(m)
  BY <1>1 DEF Vram, Devices
<1>4. \A r : Demand(l, r) = Demand(m, r)
  BY <1>1, <1>3 DEF Demand
<1>5. \A r \in Resources : Load({l}, r) = Load({m}, r)
  BY <1>2, <1>4, LoadOfOne
<1>6. Fits(Nothing, {m})
  BY <1>2 DEF FitsAlone
<1> HIDE DEF m
<1> QED BY <1>3, <1>5, <1>6 DEF Fits

\* What a decision to wait, or to stop, says of the request.
LEMMA DecisionsSay ==
  ASSUME NEW p \in PlanIds, NEW k \in BOOLEAN
  PROVE  /\ SelectMode(p, k) = "queued"
              => /\ Request[p[1]].wellFormed /\ LeasesOf(p) # {} /\ FitsAlone(p)
                 /\ Request[p[1]].mode = "pipelined" => Request[p[1]].staged /\ k
         /\ SelectMode(p, k) = "stopped" /\ Request[p[1]].wellFormed /\ LeasesOf(p) # {}
              => \/ ~FitsAlone(p)
                 \/ Request[p[1]].mode = "pipelined" /\ ~(Request[p[1]].staged /\ k)
BY DEF SelectMode, FitsAlone

\* Where neither the queue nor the plans change, nor the measurement.
LEMMA WelcomeStays ==
  ASSUME WaitingIsWelcome, UNCHANGED <<plan, capacity>>,
         Waiting(queue') \ rebuilt' \subseteq Waiting(queue) \ rebuilt
  PROVE  WaitingIsWelcome'
BY DEF WaitingIsWelcome, FitsAlone, Fits

LEMMA WelcomeStep == IInv /\ QInv /\ WaitingIsWelcome /\ [Next]_vars => WaitingIsWelcome'
<1> SUFFICES ASSUME IInv, QInv, WaitingIsWelcome, [Next]_vars
             PROVE  WaitingIsWelcome'
  OBVIOUS
<1>1. ASSUME NEW p \in PlanIds, NEW k \in BOOLEAN, Commit(p, SelectMode(p, k)), plan[p] = "none",
             Waiting(queue') \ rebuilt' \subseteq (Waiting(queue) \ rebuilt) \cup {p},
             p \in Waiting(queue') \ rebuilt' => SelectMode(p, k) = "queued"
      PROVE  WaitingIsWelcome'
  <2>1. capacity' = capacity /\ plan' = [plan EXCEPT ![p] = SelectMode(p, k)]
    BY <1>1 DEF Commit
  <2>2. \A o \in PlanIds : plan'[o] = plan[o] \/ (o = p /\ plan'[o] = SelectMode(p, k))
    BY <2>1 DEF IInv, Core, DecisionTypes
  <2>3. \A o : FitsAlone(o)' <=> FitsAlone(o)
    BY <2>1 DEF FitsAlone, Fits
  <2> QED BY <1>1, <2>2, <2>3, DecisionsSay DEF WaitingIsWelcome
<1>2. CASE \E p \in PlanIds : Admit(p)
  <2>1. PICK p \in PlanIds : Admit(p)
    BY <1>2
  <2>2. /\ Commit(p, SelectMode(p, TRUE)) /\ plan[p] = "none" /\ rebuilt' = rebuilt
        /\ Waiting(queue') = IF SelectMode(p, TRUE) = "queued" THEN Waiting(queue) \cup {p}
                             ELSE Waiting(queue)
    BY <2>1, AdmitMovesQueue DEF Admit
  <2>3. p \notin Waiting(queue)
    BY <2>2 DEF IInv, Around, WaitingPlansAreQueued
  <2> QED BY <1>1, <2>2, <2>3
<1>3. CASE DrainStep
  <2> DEFINE e    == First(call.rest)
             next == NextVersion(e)
  <2>1. e \in PlanIds /\ next \in PlanIds /\ next[1] = e[1] /\ e \in call.rest
    BY <1>3, DrainsNext DEF DrainStep
  <2>2. e \in Waiting(queue)
    BY <1>3, <2>1 DEF DrainStep, QInv, DrainsWhatWaits
  <2>3. /\ \/ Waiting(queue') = Waiting(queue) \ {e}
           \/ /\ Waiting(queue') = (Waiting(queue) \ {e}) \cup {next}
              /\ plan[next] = "none" /\ plan'[next] = "queued"
        /\ plan[next] = "none" /\ plan'[next] = "queued" => next \in Waiting(queue')
    BY <1>3, DrainMovesQueue
  <2>4. CASE plan[next] # "none"
    <3>1. UNCHANGED <<plan, capacity>> /\ rebuilt' = rebuilt \ {e}
      BY <1>3, <2>4 DEF DrainStep
    <3> HIDE DEF e, next
    <3> QED BY <2>3, <2>4, <3>1, WelcomeStays
  <2>5. CASE plan[next] = "none"
    <3> DEFINE k == KeepsItsStages(e)
               d == SelectMode(next, k)
    <3>1. Commit(next, d)
      BY <1>3, <2>5 DEF DrainStep
    <3>2. rebuilt' = (rebuilt \ {e}) \cup IF d = "queued" /\ e \in rebuilt THEN {next} ELSE {}
      BY <1>3, <2>5 DEF DrainStep
    <3>3. k \in BOOLEAN
      BY DEF KeepsItsStages
    <3>4. plan'[next] = d
      <4> HIDE DEF e, next, k, d
      <4> QED BY <2>1, <2>5, <3>1, CommitKeepsPlans DEF IInv
    <3>5. next \notin Waiting(queue)
      BY <2>1, <2>5 DEF IInv, Around, WaitingPlansAreQueued
    <3>6. /\ Waiting(queue') \ rebuilt' \subseteq (Waiting(queue) \ rebuilt) \cup {next}
          /\ next \in Waiting(queue') \ rebuilt' => d = "queued"
      <4> HIDE DEF e, next, k, d
      <4> QED BY <2>3, <3>2, <3>4, <3>5
    <3> HIDE DEF e, next, k
    <3> QED BY <1>1, <2>1, <2>5, <3>1, <3>3, <3>6
  <2> QED BY <2>4, <2>5
<1>4. CASE CancelCommits
  <2>1. /\ UNCHANGED <<plan, capacity>> /\ queue' = WithoutTeam(queue, call.team)
        /\ rebuilt' = {o \in rebuilt : o[1] # call.team}
    BY <1>4 DEF CancelCommits
  <2>2. Waiting(queue') = {o \in Waiting(queue) : o[1] # call.team}
    <3>1. PlanIds # {}
      BY <1>4, CancelKeepsIInv DEF CancelCommits, IInv, Around, OtherTypes
    <3>2. queue \in [PlanIds -> Nat] /\ IsOrdered(queue)
      BY DEF IInv, Around, OtherTypes, QInv
    <3> QED BY <2>1, <3>1, <3>2, QueueStaysOrdered
  <2> QED BY <2>1, <2>2, WelcomeStays
<1>5. CASE CallFails
  <2>1. UNCHANGED <<plan, rebuilt, capacity>>
    BY <1>5 DEF CallFails
  <2>2. Waiting(queue') \subseteq Waiting(queue)
    <3>1. queue \in [PlanIds -> Nat] /\ IsOrdered(queue)
      BY DEF IInv, Around, OtherTypes, QInv
    <3>2. CASE UNCHANGED queue
      BY <3>2
    <3>3. CASE call.op = "cancel" /\ queue' = WithoutTeam(queue, call.team)
      <4>1. <<call.team, latest[call.team]>> \in PlanIds
        BY <3>3 DEF IInv, Around, Core, DecisionTypes, OtherTypes, Calls, Idle,
                    CallsKnowTheirPlans, PlanIds
      <4> QED BY <3>1, <3>3, <4>1, QueueStaysOrdered
    <3>4. CASE call.op = "drain" /\ queue' = Dequeue(queue, First(call.rest))
      <4>1. First(call.rest) \in PlanIds
        BY <3>4, DrainsNext
      <4> QED BY <3>1, <3>4, <4>1, QueueStaysOrdered
    <3> QED BY <1>5, <3>2, <3>3, <3>4 DEF CallFails
  <2> QED BY <2>1, <2>2, WelcomeStays
<1>6. CASE Restart
  <2>1. Waiting(queue') = Requeued /\ rebuilt' = Requeued /\ UNCHANGED plan
    BY <1>6, RestartRebuildsQueue, CoreRestarts DEF IInv, decisions, Restart
  <2> QED BY <2>1 DEF WaitingIsWelcome
<1>7. ASSUME \/ \E l \in LeaseIds : ActivateLease(l) \/ ExpireStep(l) \/ CancelStep(l)
                                      \/ DeadlinePasses(l)
             \/ \E l \in LeaseIds, s \in ReleaseStatuses : ReleaseLease(l, s)
             \/ CallBegins \/ ExpireReturns \/ GrantWorkerLease \/ GrantRefused
             \/ \E k \in Tasks : CloseTask(k) \/ ReviewTask(k)
             \/ UNCHANGED vars
      PROVE  WaitingIsWelcome'
  <2>1. UNCHANGED <<plan, capacity, queue, rebuilt>>
    BY <1>7 DEF ActivateLease, ExpireStep, CancelStep, DeadlinePasses, ReleaseLease, SetLease,
       CallBegins, ExpireReturns, GrantWorkerLease, GrantRefused, CloseTask, ReviewTask, vars,
       memory
  <2> QED BY <2>1, WelcomeStays
<1> QED BY <1>2, <1>3, <1>4, <1>5, <1>6, <1>7 DEF Next

LEMMA DrainRefuses ==
  ASSUME IInv, QInv, WaitingIsWelcome, [Next]_vars, NEW p \in PlanIds,
         call.op = "drain", plan[p] = "none", plan'[p] = "stopped"
  PROVE  /\ <<p[1], p[2] - 1>> \in rebuilt
         /\ \/ Request[p[1]].mode = "pipelined"
            \/ \E l \in LeasesOf(p) : ~Fits(Nothing, {l})
<1> DEFINE e == First(call.rest)
<1>1. /\ p = NextVersion(e) /\ p[1] = e[1] /\ e \in PlanIds /\ e \in call.rest
      /\ plan[e] = "queued" /\ plan'[p] = SelectMode(p, KeepsItsStages(e))
  BY DrainDecides
<1> HIDE DEF e
<1>2. Request[p[1]].wellFormed /\ LeasesOf(p) # {}
  <2>1. Request[e[1]].wellFormed /\ LeasesOf(e) # {}
    BY <1>1 DEF WaitingIsWelcome
  <2> QED BY <1>1, <2>1 DEF LeasesOf
<1>3. <<p[1], p[2] - 1>> = e
  <2>1. e[2] \in Nat /\ p[2] = e[2] + 1
    BY <1>1, BoundsAssumption DEF NextVersion, PlanIds, Versions
  <2> QED BY <1>1, <2>1 DEF PlanIds
<1>4. \/ ~FitsAlone(p)
      \/ Request[p[1]].mode = "pipelined" /\ ~(Request[p[1]].staged /\ KeepsItsStages(e))
  BY <1>1, <1>2, DecisionsSay DEF KeepsItsStages
<1>5. e \in Waiting(queue)
  BY <1>1 DEF QInv, DrainsWhatWaits
<1>6. e \in rebuilt
  <2> SUFFICES ASSUME e \notin rebuilt
               PROVE  FALSE
    OBVIOUS
  <2>1. FitsAlone(e) /\ (Request[e[1]].mode = "pipelined" => Request[e[1]].staged)
    BY <1>5 DEF WaitingIsWelcome
  <2>2. FitsAlone(p)
    BY <1>1, <2>1, VersionsAskTheSame
  <2> QED BY <1>1, <1>4, <2>1, <2>2 DEF KeepsItsStages
<1> QED BY <1>3, <1>4, <1>6 DEF FitsAlone

\* Within one process no retry refuses a team that was told to wait; after a restart
\* only one that lost its stages, or that the node measured since cannot hold.
THEOREM WaitingIsNotRefused == Spec => RefusedOnlyAfterARestart
<1>1. Init => WaitingIsWelcome
  BY StatusesApart DEF Init, WaitingIsWelcome, Waiting, Decisions
<1>2. IInv /\ QInv /\ WaitingIsWelcome /\ [Next]_vars => WaitingIsWelcome'
  BY WelcomeStep
<1>3. IInv /\ QInv /\ WaitingIsWelcome /\ [Next]_vars => [\A p \in PlanIds :
        call.op = "drain" /\ plan[p] = "none" /\ plan'[p] = "stopped"
          => /\ <<p[1], p[2] - 1>> \in rebuilt
             /\ \/ Request[p[1]].mode = "pipelined"
                \/ \E l \in LeasesOf(p) : ~Fits(Nothing, {l})]_vars
  BY DrainRefuses
<1> QED BY <1>1, <1>2, <1>3, Inductive, QueueInductive, PTL DEF Spec, RefusedOnlyAfterARestart
-----------------------------------------------------------------------------
(***************************************************************************)
(* What lies on a set of devices.                                          *)
(***************************************************************************)
LEMMA DeviceTypes ==
  ASSUME NEW l \in LeaseIds
  PROVE  /\ Devices(l) \in SUBSET Gpus /\ IsFiniteSet(Devices(l)) /\ Vram(l) \in Nat
         /\ Cardinality(Devices(l)) \in Nat
         /\ Devices(l) # {} => Cardinality(Devices(l)) # 0
<1>1. l[1] \in Teams /\ l[3] \in Workers
  BY DEF LeaseIds
<1>2. Request[l[1]] \in RequestType
  BY <1>1, RequestAssumption
<1>3. Devices(l) \in SUBSET Gpus
  BY <1>1, <1>2 DEF RequestType, Devices
<1>4. Vram(l) \in Nat
  BY <1>1, <1>2 DEF RequestType, Vram
<1>5. IsFiniteSet(Devices(l))
  BY <1>3, FS_Subset, FiniteAssumption
<1> QED BY <1>3, <1>4, <1>5, FS_CardinalityType, FS_EmptySet

LEMMA ResourcesAreFinite == IsFiniteSet(Resources)
BY FS_Union, FiniteAssumption DEF Resources

\* A worker's VRAM is no more than its shares on its devices make up.
LEMMA SharesOfOne ==
  ASSUME "vram" \in Dimensions, NEW l \in LeaseIds, NEW D \in SUBSET Gpus,
         Devices(l) \subseteq D, Vram(l) > 0 => Devices(l) # {}
  PROVE  Demand(l, "vram") <= SumOver([r \in Resources |-> Demand(l, r)])[D]
<1> DEFINE f == [r \in Resources |-> Demand(l, r)]
           n == Cardinality(Devices(l))
           k == (Vram(l) + n - 1) \div n
           s == SumOver(f)
<1>1. f \in [Resources -> Nat]
  BY DemandType
<1>2. Demand(l, "vram") = Vram(l) /\ Vram(l) \in Nat
  BY DeviceTypes DEF Demand, Vram
<1>3. D \in SUBSET Resources /\ Devices(l) \in SUBSET Resources /\ D \ Devices(l) \in SUBSET Resources
  BY DeviceTypes DEF Resources
<1>4. \A T \in SUBSET Resources : s[T] \in Nat
  <2> HIDE DEF f
  <2> QED BY <1>1, SumLaws, ResourcesAreFinite DEF IsSum
<1>5. CASE Vram(l) = 0
  <2> HIDE DEF s
  <2>1. Demand(l, "vram") <= s[D]
    BY <1>2, <1>3, <1>4, <1>5
  <2> QED BY <2>1 DEF s
<1>6. CASE Vram(l) # 0
  <2>1. Devices(l) # {} /\ n \in Nat \ {0}
    BY <1>2, <1>6, DeviceTypes
  <2>2. k \in Nat /\ Vram(l) <= n * k
    <3> HIDE DEF n
    <3> QED BY <1>2, <2>1, SharesCover
  <2>3. \A x \in Devices(l) : f[x] = k
    BY <1>3, DeviceTypes, CapacityAssumption DEF Demand
  <2>4. s[Devices(l)] = n * k
    <3> HIDE DEF f, k
    <3> QED BY <1>1, <1>3, <2>2, <2>3, SumOfEqual, ResourcesAreFinite
  <2>5. s[D] = s[Devices(l)] + s[D \ Devices(l)]
    <3>1. Devices(l) \cup (D \ Devices(l)) = D /\ Devices(l) \cap (D \ Devices(l)) = {}
      OBVIOUS
    <3>2. DOMAIN f = Resources /\ \A x \in DOMAIN f : f[x] \in Nat
      BY <1>1
    <3>3. IsFiniteSet(DOMAIN f) /\ Devices(l) \in SUBSET DOMAIN f
      BY <1>3, <3>2, ResourcesAreFinite
    <3>4. \A T \in SUBSET DOMAIN f : Devices(l) \cap T = {} => s[Devices(l) \cup T] = s[Devices(l)] + s[T]
      <4> HIDE DEF f
      <4> QED BY <3>2, <3>3, SumOfDisjoint
    <3>5. D \ Devices(l) \in SUBSET DOMAIN f
      BY <1>3, <3>2
    <3> HIDE DEF f, s
    <3> QED BY <3>1, <3>4, <3>5
  <2>6. s[D] \in Nat /\ s[Devices(l)] \in Nat /\ s[D \ Devices(l)] \in Nat
    BY <1>3, <1>4
  <2> HIDE DEF s, k, n
  <2>7. Vram(l) <= s[Devices(l)]
    BY <2>2, <2>4
  <2> QED BY <1>2, <2>5, <2>6, <2>7 DEF s
<1> QED BY <1>2, <1>5, <1>6

\* So is that of the workers confined to some devices, together.
LEMMA SharesOfAll ==
  ASSUME "vram" \in Dimensions, NEW D \in SUBSET Gpus, NEW leases \in SUBSET LeaseIds,
         \A l \in leases : Devices(l) \subseteq D /\ (Vram(l) > 0 => Devices(l) # {})
  PROVE  Load(leases, "vram") <= SumOver([r \in Resources |-> Load(leases, r)])[D]
<1> DEFINE On(S) == SumOver([r \in Resources |-> Load(S, r)])[D]
           Bad == {S \in SUBSET leases : ~(Load(S, "vram") <= On(S))}
<1>1. "vram" \in Resources /\ D \in SUBSET Resources
  BY DEF Resources
<1>2. \A S \in SUBSET LeaseIds : [r \in Resources |-> Load(S, r)] \in [Resources -> Nat]
  BY LoadLaws
<1>3. ASSUME NEW S \in SUBSET LeaseIds
      PROVE  On(S) \in Nat
  <2> DEFINE f == [r \in Resources |-> Load(S, r)]
  <2>1. f \in [Resources -> Nat]
    BY <1>2
  <2> HIDE DEF f
  <2>2. IsSum(SumOver(f), f, Resources)
    BY <2>1, SumLaws, ResourcesAreFinite
  <2> QED BY <1>1, <2>2 DEF IsSum, f
<1>4. Load({}, "vram") = 0
  BY <1>1, LoadLaws
<1>5. ASSUME NEW S \in SUBSET leases, NEW l \in S, Load(S \ {l}, "vram") <= On(S \ {l})
      PROVE  Load(S, "vram") <= On(S)
  <2> DEFINE f == [r \in Resources |-> Demand(l, r)]
             g == [r \in Resources |-> Load(S \ {l}, r)]
             h == [r \in Resources |-> Load(S, r)]
  <2>1. S \in SUBSET LeaseIds /\ S \ {l} \in SUBSET LeaseIds /\ l \in LeaseIds
    BY <1>5
  <2>2. f \in [Resources -> Nat] /\ g \in [Resources -> Nat] /\ h \in [Resources -> Nat]
    BY <1>2, <2>1, DemandType
  <2>3. \A r \in Resources : h[r] = f[r] + g[r]
    BY <2>1, LoadLaws
  <2>4. SumOver(h)[D] = SumOver(f)[D] + SumOver(g)[D]
    <3> HIDE DEF f, g, h
    <3> QED BY <1>1, <2>2, <2>3, SumAdds, ResourcesAreFinite
  <2>5. Demand(l, "vram") <= SumOver(f)[D]
    BY <1>5, <2>1, SharesOfOne
  <2>6. Load(S, "vram") = Demand(l, "vram") + Load(S \ {l}, "vram")
    BY <1>1, <1>5, <2>1, LoadLaws
  <2>7. /\ Demand(l, "vram") \in Nat
        /\ Load(S \ {l}, "vram") \in Nat /\ SumOver(g)[D] \in Nat
    BY <1>1, <1>3, <2>1, DemandType, LoadLaws
  <2>8. SumOver(f)[D] \in Nat
    <3> HIDE DEF f
    <3>1. IsSum(SumOver(f), f, Resources)
      BY <2>2, SumLaws, ResourcesAreFinite
    <3> QED BY <1>1, <3>1 DEF IsSum
  <2>9. Load(S \ {l}, "vram") <= SumOver(g)[D] /\ On(S) = SumOver(h)[D]
    BY <1>5
  <2> HIDE DEF f, g, h, On
  <2> QED BY <2>4, <2>5, <2>6, <2>7, <2>8, <2>9
<1>6. Bad # {} => \E S \in Bad : \A U \in Bad : U \subseteq S => U = S
  <2>1. Bad \in SUBSET SUBSET leases /\ IsFiniteSet(leases)
    BY IdsAreFinite, FS_Subset
  <2> HIDE DEF Bad
  <2> QED BY <2>1, MinimalSubset
<1>7. ASSUME NEW S \in Bad, \A U \in Bad : U \subseteq S => U = S
      PROVE  FALSE
  <2>1. S # {}
    <3>1. On({}) \in Nat
      BY <1>3
    <3> HIDE DEF On
    <3> QED BY <1>4, <3>1
  <2>2. PICK l \in S : TRUE
    BY <2>1
  <2>3. S \ {l} \in SUBSET leases /\ S \in SUBSET leases /\ S \ {l} \notin Bad
    BY <1>7, <2>2
  <2> HIDE DEF On
  <2>4. Load(S \ {l}, "vram") <= On(S \ {l})
    BY <2>3
  <2>5. Load(S, "vram") <= On(S)
    BY <1>5, <2>2, <2>3, <2>4
  <2> QED BY <2>5
<1>8. leases \notin Bad
  <2> HIDE DEF Bad
  <2> QED BY <1>6, <1>7
<1> QED BY <1>8
-----------------------------------------------------------------------------
SameMeasurement == \A m, n \in Measurements : m = n

LeasesNameDevices == \A l \in Active(lease) : Vram(l) > 0 => Devices(l) # {}
WithinMeasurement == \A r \in Resources : used[r] <= capacity[r]

\* A lease that becomes active was found to fit.
LEMMA NewLeasesNameDevices ==
  ASSUME IInv, LeasesNameDevices, [Next]_vars
  PROVE  LeasesNameDevices'
<1> SUFFICES ASSUME NEW l \in LeaseIds, lease'[l] \in ActiveStatuses, Vram(l) > 0
             PROVE  Devices(l) # {}
  BY DEF LeasesNameDevices, Active
<1>1. CASE lease[l] \in ActiveStatuses
  BY <1>1 DEF LeasesNameDevices, Active
<1>2. ASSUME lease[l] \notin ActiveStatuses
      PROVE  Devices(l) # {}
  <2>0. lease'[l] # lease[l]
    BY <1>2
  <2>1. ASSUME NEW p \in PlanIds, NEW k \in BOOLEAN, Commit(p, SelectMode(p, k))
        PROVE  Devices(l) # {}
    <3>1. SelectMode(p, k) \in Concurrent /\ l \in LeasesOf(p)
      BY <1>2, <2>1 DEF Commit
    <3> QED BY <3>1, ModeSelected DEF Fits
  <2>2. CASE \E p \in PlanIds : Admit(p)
    BY <2>1, <2>2 DEF Admit
  <2>3. CASE DrainStep
    BY <2>0, <2>1, <2>3, DrainsNext DEF DrainStep, KeepsItsStages
  <2>4. CASE GrantWorkerLease
    <3>1. l = Asked
      <4>1. lease' = [lease EXCEPT ![Asked] = "granted"]
        BY <2>4 DEF GrantWorkerLease
      <4> QED BY <1>2, <4>1 DEF IInv, Core, DecisionTypes
    <3> QED BY <2>4, <3>1 DEF GrantWorkerLease, Grantable, Fits
  <2>5. ASSUME NEW m \in LeaseIds, NEW s,
               m \in Active(lease) \/ s \in TerminalStatuses, SetLease(m, s)
        PROVE  FALSE
    <3>1. lease' = [lease EXCEPT ![m] = s]
      BY <2>5 DEF SetLease
    <3> QED BY <1>2, <2>5, <3>1, StatusesApart DEF IInv, Core, DecisionTypes, Active
  <2>6. CASE \/ \E m \in LeaseIds : ActivateLease(m) \/ ExpireStep(m) \/ CancelStep(m)
             \/ \E m \in LeaseIds, s \in ReleaseStatuses : ReleaseLease(m, s)
    <3>1. "granted" \in ActiveStatuses
      BY DEF ActiveStatuses
    <3> QED BY <2>5, <2>6, <3>1 DEF ActivateLease, ExpireStep, CancelStep, ReleaseLease, Overdue,
            TeamsLeases, Active
  <2>7. ASSUME \/ CallBegins \/ ExpireReturns \/ GrantRefused \/ CancelCommits \/ CallFails
               \/ Restart \/ \E m \in LeaseIds : DeadlinePasses(m)
               \/ \E k \in Tasks : CloseTask(k) \/ ReviewTask(k)
               \/ UNCHANGED vars
        PROVE  FALSE
    <3>1. CASE Restart
      BY <2>0, <3>1, CoreRestarts DEF IInv, decisions
    <3>2. CASE UNCHANGED lease
      BY <2>0, <3>2
    <3> QED BY <2>7, <3>1, <3>2
        DEF CallBegins, ExpireReturns, GrantRefused, CancelCommits, CallFails, DeadlinePasses,
            CloseTask, ReviewTask, vars, memory
  <2> QED BY <2>2, <2>3, <2>4, <2>6, <2>7 DEF Next
<1> QED BY <1>1, <1>2

LEMMA StaysWithinMeasurement ==
  ASSUME SameMeasurement
  PROVE  IInv /\ IInv' /\ WithinMeasurement /\ [Next]_vars => WithinMeasurement'
<1> SUFFICES ASSUME IInv, IInv', WithinMeasurement, [Next]_vars, NEW r \in Resources
             PROVE  used'[r] <= capacity'[r]
  BY DEF WithinMeasurement
<1>1. capacity' = capacity
  BY DEF SameMeasurement, IInv, Around, OtherTypes
<1>2. used[r] \in Nat /\ used'[r] \in Nat /\ capacity[r] \in Nat
  BY CapacityAssumption DEF IInv, Core, Around, DecisionTypes, OtherTypes
<1>3. CASE used'[r] > used[r]
  BY <1>3, WithinCapacity
<1>4. CASE used'[r] <= used[r]
  BY <1>1, <1>2, <1>4 DEF WithinMeasurement
<1> QED BY <1>2, <1>3, <1>4

LEMMA DevicesHold ==
  ASSUME "vram" \in Dimensions, IInv, LeasesNameDevices, WithinMeasurement
  PROVE  DevicesHoldTheirLeases
<1> SUFFICES ASSUME NEW D \in SUBSET Gpus
             PROVE  LET confined == {l \in Active(lease) : Devices(l) \subseteq D}
                    IN Load(confined, "vram") <= SumOver(capacity)[D]
  BY DEF DevicesHoldTheirLeases
<1> DEFINE confined == {l \in Active(lease) : Devices(l) \subseteq D}
           rest == Active(lease) \ confined
           f == [r \in Resources |-> Load(confined, r)]
<1>1. /\ confined \in SUBSET LeaseIds /\ rest \in SUBSET LeaseIds
      /\ confined \cup rest = Active(lease) /\ confined \cap rest = {}
  BY DEF Active
<1>2. \A l \in confined : Devices(l) \subseteq D /\ (Vram(l) > 0 => Devices(l) # {})
  BY DEF LeasesNameDevices
<1> HIDE DEF confined, rest
<1>3. Load(confined, "vram") <= SumOver(f)[D]
  BY <1>1, <1>2, SharesOfAll
<1>4. f \in [Resources -> Nat] /\ capacity \in [Resources -> Nat] /\ D \in SUBSET Resources
  BY <1>1, LoadLaws, CapacityAssumption DEF IInv, Around, OtherTypes, Resources
<1>5. ASSUME NEW r \in Resources
      PROVE  f[r] <= capacity[r]
  <2>1. used[r] = Load(confined, r) + Load(rest, r)
    BY <1>1, LoadLaws DEF IInv, Core, UsageIsHeld
  <2>2. Load(confined, r) \in Nat /\ Load(rest, r) \in Nat /\ capacity[r] \in Nat
    BY <1>1, <1>4, LoadLaws
  <2>3. used[r] <= capacity[r]
    BY DEF WithinMeasurement
  <2> QED BY <2>1, <2>2, <2>3
<1>6. SumOver(f)[D] <= SumOver(capacity)[D]
  <2> HIDE DEF f
  <2> QED BY <1>4, <1>5, SumIsMonotone, ResourcesAreFinite
<1>7. Load(confined, "vram") \in Nat /\ SumOver(f)[D] \in Nat /\ SumOver(capacity)[D] \in Nat
  <2>1. Load(confined, "vram") \in Nat
    BY <1>1, LoadLaws DEF Resources
  <2> HIDE DEF f
  <2>2. IsSum(SumOver(f), f, Resources)
    BY <1>4, SumLaws, ResourcesAreFinite
  <2>3. IsSum(SumOver(capacity), capacity, Resources)
    BY <1>4, SumLaws, ResourcesAreFinite
  <2> QED BY <1>4, <2>1, <2>2, <2>3 DEF IsSum
<1>8. Load(confined, "vram") <= SumOver(capacity)[D]
  <2> HIDE DEF f
  <2> QED BY <1>3, <1>6, <1>7
<1> QED BY <1>8 DEF confined

\* On a node that measures the same at every start, the devices hold the VRAM that is
\* placed on them: the workers confined to a set of devices fit in that set.
THEOREM DevicesAreNotOverloaded ==
  ASSUME "vram" \in Dimensions, SameMeasurement
  PROVE  Spec => []DevicesHoldTheirLeases
<1>1. Init => LeasesNameDevices /\ WithinMeasurement
  <2> SUFFICES ASSUME Init
               PROVE  LeasesNameDevices /\ WithinMeasurement
    OBVIOUS
  <2>1. Active(lease) = {}
    BY StatusesApart DEF Init, Active
  <2>2. capacity \in [Resources -> Nat]
    BY CapacityAssumption DEF Init
  <2> QED BY <2>1, <2>2 DEF Init, Nothing, LeasesNameDevices, WithinMeasurement
<1>2. IInv /\ LeasesNameDevices /\ [Next]_vars => LeasesNameDevices'
  BY NewLeasesNameDevices
<1>3. IInv /\ IInv' /\ WithinMeasurement /\ [Next]_vars => WithinMeasurement'
  BY StaysWithinMeasurement
<1>4. IInv /\ LeasesNameDevices /\ WithinMeasurement => DevicesHoldTheirLeases
  BY DevicesHold
<1> QED BY <1>1, <1>2, <1>3, <1>4, Inductive, PTL DEF Spec
=============================================================================
