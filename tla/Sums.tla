-------------------------------- MODULE Sums --------------------------------
(***************************************************************************)
(* Lemmas about SumFunctionOnSet of the community modules, for finite sets *)
(* of any size: the accounts of this system are sums over reservations,    *)
(* trades, refunds or codes.  The fold is a CHOOSE of a recursive function *)
(* and its facts are proved by taking a least set that breaks them, among  *)
(* the subsets of a finite set, which are well-founded.                    *)
(***************************************************************************)
EXTENDS Integers, FiniteSets, Functions, FiniteSetTheorems, WellFoundedInduction, TLAPS

Pick(s) == CHOOSE x \in s : TRUE

\* g sums f over each subset of S, an element at a time.
SumsOver(g, f, S) ==
    g = [s \in SUBSET S |-> IF s = {} THEN 0 ELSE f[Pick(s)] + g[s \ {Pick(s)}]]

\* Induction over the finite sets: a set of finite sets has a least one.
LEMMA LeastSet ==
  ASSUME NEW S, IsFiniteSet(S), NEW T, T \subseteq SUBSET S, T # {}
  PROVE  \E x \in T : \A y \in T : y \subseteq x => y = x
  <1>1. IsWellFoundedOn(StrictSubsetOrdering(S), FiniteSubsetsOf(S))
    BY FS_StrictSubsetOrderingWellFounded
  <1>2. FiniteSubsetsOf(S) = SUBSET S
    BY FS_FiniteSubsetsOfFinite
  <1>3. PICK x \in T : \A y \in T : ~ (<<y, x>> \in StrictSubsetOrdering(S))
    BY <1>1, <1>2, WFMin
  <1>4. ASSUME NEW y \in T, y \subseteq x PROVE y = x
    BY <1>3, <1>4 DEF StrictSubsetOrdering
  <1> QED BY <1>3, <1>4

\* The element a fold takes first is in the set.
LEMMA PickIn == ASSUME NEW s, s # {} PROVE Pick(s) \in s
  BY DEF Pick

\* The fold is the function that sums f over the subsets of S, applied to S.
LEMMA SumsAre ==
  ASSUME NEW f, NEW S
  PROVE  SumFunctionOnSet(f, S) = (CHOOSE g : SumsOver(g, f, S))[S]
  BY DEF SumFunctionOnSet, FoldFunctionOnSet, MapThenFoldSet, SumsOver, Pick

\* Two such functions agree on every set both are defined on.
LEMMA SumsUnique ==
  ASSUME NEW f, NEW S, NEW T, NEW U, IsFiniteSet(U), U \subseteq S, U \subseteq T,
         NEW g, NEW h, SumsOver(g, f, S), SumsOver(h, f, T)
  PROVE  g[U] = h[U]
  <1> DEFINE D == {s \in SUBSET U : g[s] # h[s]}
  <1>1. ASSUME D # {} PROVE FALSE
    <2>1. PICK s \in D : \A y \in D : y \subseteq s => y = s
      <3> D \subseteq SUBSET U
        OBVIOUS
      <3> HIDE DEF D
      <3> QED BY <1>1, LeastSet
    <2>2. s \in SUBSET S /\ s \in SUBSET T
      OBVIOUS
    <2>3. CASE s = {}
      BY <2>2, <2>3 DEF SumsOver
    <2>4. CASE s # {}
      <3> DEFINE r == s \ {Pick(s)}
      <3>1. Pick(s) \in s
        BY <2>4, PickIn
      <3>2. r \in SUBSET U /\ r \subseteq s /\ r # s
        BY <3>1
      <3>3. g[r] = h[r]
        BY <2>1, <3>2
      <3>4. g[s] = f[Pick(s)] + g[r] /\ h[s] = f[Pick(s)] + h[r]
        BY <2>2, <2>4 DEF SumsOver
      <3> QED BY <3>3, <3>4
    <2> QED BY <2>3, <2>4
  <1> QED BY <1>1

Iter(f, S) == CHOOSE g : SumsOver(g, f, S)

\* There is such a function for every finite set.
LEMMA SumsExist ==
  ASSUME NEW f, NEW S, IsFiniteSet(S)
  PROVE  SumsOver(Iter(f, S), f, S)
  <1> DEFINE D == {T \in SUBSET S : ~ SumsOver(Iter(f, T), f, T)}
  <1>1. ASSUME D # {} PROVE FALSE
    <2>1. PICK T \in D : \A y \in D : y \subseteq T => y = T
      <3> D \subseteq SUBSET S
        OBVIOUS
      <3> HIDE DEF D
      <3> QED BY <1>1, LeastSet
    <2>2. ASSUME NEW u \in SUBSET T, u # T
          PROVE  SumsOver(Iter(f, u), f, u)
      BY <2>1, <2>2
    <2> DEFINE c == [s \in SUBSET T |->
                       IF s = {} THEN 0
                       ELSE f[Pick(s)] + Iter(f, s \ {Pick(s)})[s \ {Pick(s)}]]
    <2>3. ASSUME NEW u \in SUBSET T, u # T
          PROVE  c[u] = Iter(f, u)[u]
      <3>1. SumsOver(Iter(f, u), f, u)
        BY <2>2, <2>3
      <3>2. CASE u = {}
        BY <3>1, <3>2 DEF SumsOver
      <3>3. CASE u # {}
        <4> DEFINE r == u \ {Pick(u)}
        <4>1. Pick(u) \in u
          BY <3>3, PickIn
        <4>2. r \in SUBSET T /\ r # T /\ r \subseteq u
          BY <4>1
        <4>3. SumsOver(Iter(f, r), f, r)
          BY <2>2, <4>2
        <4>4. IsFiniteSet(r)
          BY <4>2, FS_Subset
        <4>5. Iter(f, u)[r] = Iter(f, r)[r]
          BY <3>1, <4>2, <4>3, <4>4, SumsUnique
        <4>6. Iter(f, u)[u] = f[Pick(u)] + Iter(f, u)[r]
          BY <3>1, <3>3 DEF SumsOver
        <4> QED BY <4>5, <4>6, <3>3
      <3> QED BY <3>2, <3>3
    <2>4. SumsOver(c, f, T)
      <3>1. ASSUME NEW s \in SUBSET T, s # {}
            PROVE  c[s] = f[Pick(s)] + c[s \ {Pick(s)}]
        <4>1. Pick(s) \in s
          BY <3>1, PickIn
        <4>2. s \ {Pick(s)} \in SUBSET T /\ s \ {Pick(s)} # T
          BY <4>1
        <4>3. c[s \ {Pick(s)}] = Iter(f, s \ {Pick(s)})[s \ {Pick(s)}]
          BY <2>3, <4>2
        <4>4. c[s] = f[Pick(s)] + Iter(f, s \ {Pick(s)})[s \ {Pick(s)}]
          BY <3>1
        <4> QED BY <4>3, <4>4
      <3>2. c[{}] = 0
        OBVIOUS
      <3>3. c = [s \in SUBSET T |-> c[s]]
        OBVIOUS
      <3> HIDE DEF c
      <3> QED BY <3>1, <3>2, <3>3 DEF SumsOver
    <2>5. SumsOver(Iter(f, T), f, T)
      <3> HIDE DEF c
      <3> QED BY <2>4 DEF Iter
    <2> QED BY <2>1, <2>5
  <1> QED BY <1>1

\* The sum, with that function named.
LEMMA SumIs ==
  ASSUME NEW f, NEW S
  PROVE  SumFunctionOnSet(f, S) = Iter(f, S)[S]
  BY SumsAre DEF Iter

\* The sum over no element is zero.
LEMMA SumEmpty ==
  ASSUME NEW f
  PROVE  SumFunctionOnSet(f, {}) = 0
  <1>1. SumsOver(Iter(f, {}), f, {})
    BY FS_EmptySet, SumsExist
  <1> QED BY <1>1, SumIs DEF SumsOver

\* The sum over a set is its first element and the sum over the rest.
LEMMA SumPick ==
  ASSUME NEW f, NEW S, IsFiniteSet(S), S # {}
  PROVE  SumFunctionOnSet(f, S) = f[Pick(S)] + SumFunctionOnSet(f, S \ {Pick(S)})
  <1> DEFINE R == S \ {Pick(S)}
  <1>1. IsFiniteSet(R)
    BY FS_Subset
  <1>2. SumsOver(Iter(f, S), f, S) /\ SumsOver(Iter(f, R), f, R)
    BY <1>1, SumsExist
  <1>3. Iter(f, S)[R] = Iter(f, R)[R]
    BY <1>1, <1>2, SumsUnique
  <1>4. Iter(f, S)[S] = f[Pick(S)] + Iter(f, S)[R]
    BY <1>2 DEF SumsOver
  <1> QED BY <1>3, <1>4, SumIs

\* A sum depends on the values over the set alone.
LEMMA SumAgrees ==
  ASSUME NEW S, IsFiniteSet(S), NEW f, NEW g, \A x \in S : f[x] = g[x]
  PROVE  SumFunctionOnSet(f, S) = SumFunctionOnSet(g, S)
  <1> DEFINE D == {T \in SUBSET S : SumFunctionOnSet(f, T) # SumFunctionOnSet(g, T)}
  <1>1. ASSUME D # {} PROVE FALSE
    <2>1. PICK T \in D : \A y \in D : y \subseteq T => y = T
      <3> D \subseteq SUBSET S
        OBVIOUS
      <3> HIDE DEF D
      <3> QED BY <1>1, LeastSet
    <2>2. T # {}
      BY SumEmpty
    <2> DEFINE R == T \ {Pick(T)}
    <2>3. IsFiniteSet(T) /\ Pick(T) \in T
      BY <2>2, FS_Subset, PickIn
    <2>4. SumFunctionOnSet(f, R) = SumFunctionOnSet(g, R)
      BY <2>1, <2>3
    <2> QED BY <2>1, <2>2, <2>3, <2>4, SumPick
  <1> QED BY <1>1

\* A sum of integers is an integer.
LEMMA SumType ==
  ASSUME NEW S, IsFiniteSet(S), NEW f, \A x \in S : f[x] \in Int
  PROVE  SumFunctionOnSet(f, S) \in Int
  <1> DEFINE D == {T \in SUBSET S : SumFunctionOnSet(f, T) \notin Int}
  <1>1. ASSUME D # {} PROVE FALSE
    <2>1. PICK T \in D : \A y \in D : y \subseteq T => y = T
      <3> D \subseteq SUBSET S
        OBVIOUS
      <3> HIDE DEF D
      <3> QED BY <1>1, LeastSet
    <2>2. T # {}
      BY SumEmpty
    <2>3. IsFiniteSet(T) /\ Pick(T) \in T
      BY <2>2, FS_Subset, PickIn
    <2>4. SumFunctionOnSet(f, T \ {Pick(T)}) \in Int
      BY <2>1, <2>3
    <2> QED BY <2>1, <2>2, <2>3, <2>4, SumPick
  <1> QED BY <1>1

\* Any element can be taken out first.
LEMMA SumTake ==
  ASSUME NEW S, IsFiniteSet(S), NEW f, \A x \in S : f[x] \in Int, NEW e \in S
  PROVE  SumFunctionOnSet(f, S) = f[e] + SumFunctionOnSet(f, S \ {e})
  <1> DEFINE Sum(T) == SumFunctionOnSet(f, T)
             D == {T \in SUBSET S : \E x \in T : Sum(T) # f[x] + Sum(T \ {x})}
  <1>1. ASSUME D # {} PROVE FALSE
    <2>1. PICK T \in D : \A y \in D : y \subseteq T => y = T
      <3> D \subseteq SUBSET S
        OBVIOUS
      <3> HIDE DEF D
      <3> QED BY <1>1, LeastSet
    <2>2. PICK x \in T : Sum(T) # f[x] + Sum(T \ {x})
      OBVIOUS
    <2> DEFINE p == Pick(T)
    <2>3. IsFiniteSet(T) /\ p \in T
      BY <2>2, FS_Subset, PickIn
    <2>4. Sum(T) = f[p] + Sum(T \ {p})
      BY <2>2, <2>3, SumPick
    <2>5. x # p
      BY <2>2, <2>4
    <2>6. ASSUME NEW U \in SUBSET T, U # T, NEW y \in U
          PROVE  Sum(U) = f[y] + Sum(U \ {y})
      BY <2>1, <2>6
    <2> HIDE DEF Sum, p, D
    <2>7. PICK P, X, R : P = T \ {p} /\ X = T \ {x} /\ R = T \ {x, p}
      OBVIOUS
    <2>8. P \ {x} = R /\ X \ {p} = R
      BY <2>7
    <2>9. P \in SUBSET T /\ P # T /\ x \in P /\ X \in SUBSET T /\ X # T /\ p \in X /\ R \in SUBSET T
      BY <2>3, <2>5, <2>7, <2>2
    <2>10. Sum(P) = f[x] + Sum(R) /\ Sum(X) = f[p] + Sum(R)
      BY <2>6, <2>8, <2>9
    <2>11. Sum(R) \in Int /\ f[x] \in Int /\ f[p] \in Int
      <3>1. IsFiniteSet(R) /\ T \subseteq S
        BY <2>3, <2>9, <2>1, FS_Subset DEF D
      <3> QED BY <3>1, <2>9, SumType DEF Sum
    <2> QED BY <2>2, <2>4, <2>7, <2>10, <2>11
  <1> QED BY <1>1

\* An element more adds its value: a reservation made, a trade paid.
LEMMA SumAdd ==
  ASSUME NEW S, IsFiniteSet(S), NEW e, e \notin S,
         NEW f, \A x \in S \cup {e} : f[x] \in Int
  PROVE  SumFunctionOnSet(f, S \cup {e}) = f[e] + SumFunctionOnSet(f, S)
  <1>1. IsFiniteSet(S \cup {e}) /\ (S \cup {e}) \ {e} = S
    BY FS_AddElement
  <1> QED BY <1>1, SumTake

\* One value that changes changes the sum by the difference.
LEMMA SumChange ==
  ASSUME NEW S, IsFiniteSet(S), NEW e \in S, NEW f, NEW g,
         \A x \in S : f[x] \in Int /\ g[x] \in Int,
         \A x \in S \ {e} : g[x] = f[x]
  PROVE  SumFunctionOnSet(g, S) = SumFunctionOnSet(f, S) - f[e] + g[e]
  <1>1. IsFiniteSet(S \ {e})
    BY FS_Subset
  <1>2. SumFunctionOnSet(f, S \ {e}) = SumFunctionOnSet(g, S \ {e})
    BY <1>1, SumAgrees
  <1>3. SumFunctionOnSet(f, S \ {e}) \in Int
    BY <1>1, SumType
  <1>4. SumFunctionOnSet(f, S) = f[e] + SumFunctionOnSet(f, S \ {e})
    BY SumTake
  <1>5. SumFunctionOnSet(g, S) = g[e] + SumFunctionOnSet(g, S \ {e})
    BY SumTake
  <1> QED BY <1>2, <1>3, <1>4, <1>5

\* Larger values have a larger sum.
LEMMA SumMonotone ==
  ASSUME NEW S, IsFiniteSet(S), NEW f, NEW g,
         \A x \in S : f[x] \in Int /\ g[x] \in Int /\ f[x] <= g[x]
  PROVE  SumFunctionOnSet(f, S) <= SumFunctionOnSet(g, S)
  <1> DEFINE D == {T \in SUBSET S : ~ SumFunctionOnSet(f, T) <= SumFunctionOnSet(g, T)}
  <1>1. ASSUME D # {} PROVE FALSE
    <2>1. PICK T \in D : \A y \in D : y \subseteq T => y = T
      <3> D \subseteq SUBSET S
        OBVIOUS
      <3> HIDE DEF D
      <3> QED BY <1>1, LeastSet
    <2>2. T # {}
      BY SumEmpty
    <2> DEFINE R == T \ {Pick(T)}
    <2>3. IsFiniteSet(T) /\ Pick(T) \in T /\ IsFiniteSet(R)
      BY <2>2, FS_Subset, PickIn
    <2>4. SumFunctionOnSet(f, R) <= SumFunctionOnSet(g, R)
      BY <2>1, <2>3
    <2>5. SumFunctionOnSet(f, R) \in Int /\ SumFunctionOnSet(g, R) \in Int
      BY <2>3, SumType
    <2>6. f[Pick(T)] \in Int /\ g[Pick(T)] \in Int /\ f[Pick(T)] <= g[Pick(T)]
      BY <2>3
    <2>7. /\ SumFunctionOnSet(f, T) = f[Pick(T)] + SumFunctionOnSet(f, R)
          /\ SumFunctionOnSet(g, T) = g[Pick(T)] + SumFunctionOnSet(g, R)
      BY <2>2, <2>3, SumPick
    <2>8. ~ SumFunctionOnSet(f, T) <= SumFunctionOnSet(g, T)
      OBVIOUS
    <2> HIDE DEF R, D
    <2> QED BY <2>4, <2>5, <2>6, <2>7, <2>8
  <1> QED BY <1>1

\* A sum of natural numbers is a natural number.
LEMMA SumNat ==
  ASSUME NEW S, IsFiniteSet(S), NEW f, \A x \in S : f[x] \in Nat
  PROVE  SumFunctionOnSet(f, S) \in Nat
  <1> DEFINE D == {T \in SUBSET S : SumFunctionOnSet(f, T) \notin Nat}
  <1>1. ASSUME D # {} PROVE FALSE
    <2>1. PICK T \in D : \A y \in D : y \subseteq T => y = T
      <3> D \subseteq SUBSET S
        OBVIOUS
      <3> HIDE DEF D
      <3> QED BY <1>1, LeastSet
    <2>2. T # {}
      BY SumEmpty
    <2>3. IsFiniteSet(T) /\ Pick(T) \in T
      BY <2>2, FS_Subset, PickIn
    <2>4. SumFunctionOnSet(f, T \ {Pick(T)}) \in Nat
      BY <2>1, <2>3
    <2> QED BY <2>1, <2>2, <2>3, <2>4, SumPick
  <1> QED BY <1>1

\* An element less takes its value away.
LEMMA SumDrop ==
  ASSUME NEW S, IsFiniteSet(S), NEW e \in S, NEW f, \A x \in S : f[x] \in Int
  PROVE  SumFunctionOnSet(f, S \ {e}) = SumFunctionOnSet(f, S) - f[e]
  <1>1. IsFiniteSet(S \ {e})
    BY FS_Subset
  <1>2. SumFunctionOnSet(f, S \ {e}) \in Int
    BY <1>1, SumType
  <1>3. SumFunctionOnSet(f, S) = f[e] + SumFunctionOnSet(f, S \ {e})
    BY SumTake
  <1> QED BY <1>2, <1>3

\* A sum of zeros is zero.
LEMMA SumZero ==
  ASSUME NEW S, IsFiniteSet(S), NEW f, \A x \in S : f[x] = 0
  PROVE  SumFunctionOnSet(f, S) = 0
  <1> DEFINE D == {T \in SUBSET S : SumFunctionOnSet(f, T) # 0}
  <1>1. ASSUME D # {} PROVE FALSE
    <2>1. PICK T \in D : \A y \in D : y \subseteq T => y = T
      <3> D \subseteq SUBSET S
        OBVIOUS
      <3> HIDE DEF D
      <3> QED BY <1>1, LeastSet
    <2>2. T # {}
      BY SumEmpty
    <2>3. IsFiniteSet(T) /\ Pick(T) \in T
      BY <2>2, FS_Subset, PickIn
    <2>4. SumFunctionOnSet(f, T \ {Pick(T)}) = 0
      BY <2>1, <2>3
    <2> QED BY <2>1, <2>2, <2>3, <2>4, SumPick
  <1> QED BY <1>1

\* Products keep the order: what is owed for each of some number of things.
LEMMA TimesMonotone ==
  ASSUME NEW d \in Nat, NEW m \in Int, NEW n \in Int, m <= n
  PROVE  d * m <= d * n
  <1>1. d * (n - m) \in Nat
    OBVIOUS
  <1>2. d * n = d * m + d * (n - m)
    OBVIOUS
  <1>3. d * m \in Int
    OBVIOUS
  <1> QED
    BY <1>1, <1>2, <1>3
=============================================================================
