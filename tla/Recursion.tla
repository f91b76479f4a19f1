----------------------------- MODULE Recursion -----------------------------
(***************************************************************************)
(* Recursive functions on numbers: they exist, and what is true at 0 and   *)
(* goes from one number to the next is true of all.  The induction theorems *)
(* of the library take a predicate; here a set stands for it.              *)
(***************************************************************************)
EXTENDS Integers, Sequences, FiniteSets, WellFoundedInduction, FiniteSetTheorems,
        SequenceTheorems, FiniteSetsExt, TLAPS

\* The least number that is not in S would be a successor.
LEMMA Induction ==
    ASSUME NEW S \in SUBSET Nat, 0 \in S, \A n \in S : n + 1 \in S
    PROVE  S = Nat
  <1> SUFFICES ASSUME Nat \ S # {} PROVE FALSE
    OBVIOUS
  <1> DEFINE T == {1..n : n \in Nat \ S}
  <1> DEFINE R == StrictSubsetOrdering(Nat)
  <1>1. T \subseteq FiniteSubsetsOf(Nat)
    <2> SUFFICES ASSUME NEW n \in Nat \ S PROVE 1..n \in FiniteSubsetsOf(Nat)
      OBVIOUS
    <2>1. IsFiniteSet(1..n)
      BY FS_Interval
    <2>2. 1..n \subseteq Nat
      OBVIOUS
    <2> QED BY <2>1, <2>2 DEF FiniteSubsetsOf
  <1>2. \E t \in T : \A u \in T : ~ (<<u, t>> \in R)
    <2>1. T # {}
      OBVIOUS
    <2>2. IsWellFoundedOn(R, FiniteSubsetsOf(Nat))
      BY FS_StrictSubsetOrderingWellFounded
    <2> HIDE DEF T, R
    <2> QED BY <1>1, <2>1, <2>2, WFMin
  <1>3. PICK n \in Nat \ S : \A m \in Nat \ S : ~ (<<1..m, 1..n>> \in R)
    BY <1>2
  <1>4. n - 1 \in Nat \ S
    <2>1. n # 0
      OBVIOUS
    <2>2. n - 1 \in Nat /\ (n - 1) + 1 = n
      BY <2>1
    <2> QED BY <2>2
  <1>5. <<1..(n - 1), 1..n>> \in R
    <2>1. n \in 1..n /\ n \notin 1..(n - 1) /\ 1..(n - 1) \subseteq 1..n
      BY <1>4
    <2>2. 1..n \subseteq Nat /\ 1..(n - 1) \subseteq Nat
      OBVIOUS
    <2> QED BY <2>1, <2>2 DEF StrictSubsetOrdering
  <1> QED BY <1>3, <1>4, <1>5

\* The first n values of the iteration of G on a.
Starts(n, S, a, G) ==
    {h \in [0..n -> S] : h[0] = a /\ \A k \in 0..(n - 1) : h[k + 1] = G[h[k]]}

\* There is a function that is a at 0 and goes on by G.
LEMMA Iteration ==
    ASSUME NEW S, NEW a \in S, NEW G \in [S -> S]
    PROVE  \E g \in [Nat -> S] : g[0] = a /\ \A k \in Nat : g[k + 1] = G[g[k]]
  <1> DEFINE A(n) == Starts(n, S, a, G)
  <1>1. \A n \in Nat : A(n) # {}
    <2> DEFINE N == {n \in Nat : A(n) # {}}
    <2>1. 0 \in N
      <3>1. [k \in 0..0 |-> a] \in A(0)
        BY DEF Starts
      <3> QED BY <3>1
    <2>2. ASSUME NEW n \in N PROVE n + 1 \in N
      <3>1. PICK h \in A(n) : TRUE
        OBVIOUS
      <3> DEFINE f == [k \in 0..(n + 1) |-> IF k = n + 1 THEN G[h[n]] ELSE h[k]]
      <3>2. h \in [0..n -> S] /\ h[0] = a /\ \A k \in 0..(n - 1) : h[k + 1] = G[h[k]]
        BY <3>1 DEF Starts
      <3>3. f \in [0..(n + 1) -> S] /\ f[0] = a
        BY <3>2
      <3>4. ASSUME NEW k \in 0..((n + 1) - 1) PROVE f[k + 1] = G[f[k]]
        <4>1. CASE k = n
          BY <4>1
        <4>2. CASE k # n
          <5>1. k \in 0..(n - 1) /\ k + 1 # n + 1 /\ k # n + 1 /\ k + 1 \in 0..(n + 1)
            BY <4>2
          <5> QED BY <3>2, <5>1
        <4> QED BY <4>1, <4>2
      <3>5. f \in A(n + 1)
        <4> HIDE DEF f
        <4> QED BY <3>3, <3>4 DEF Starts
      <3> QED BY <3>5
    <2> HIDE DEF N
    <2>3. N = Nat
      <3>1. N \in SUBSET Nat
        BY DEF N
      <3> QED BY <2>1, <2>2, <3>1, Induction
    <2> QED BY <2>3 DEF N
  <1>2. \A n \in Nat : \A h, f \in A(n) : h[n] = f[n]
    <2> DEFINE N == {n \in Nat : \A h, f \in A(n) : h[n] = f[n]}
    <2>1. 0 \in N
      BY DEF Starts
    <2>2. ASSUME NEW n \in N PROVE n + 1 \in N
      <3> SUFFICES ASSUME NEW h \in A(n + 1), NEW f \in A(n + 1)
                   PROVE  h[n + 1] = f[n + 1]
        OBVIOUS
      <3>1. [k \in 0..n |-> h[k]] \in A(n) /\ [k \in 0..n |-> f[k]] \in A(n)
        BY DEF Starts
      <3>2. h[n] = f[n]
        BY <3>1
      <3>3. h[n + 1] = G[h[n]] /\ f[n + 1] = G[f[n]]
        BY DEF Starts
      <3> QED BY <3>2, <3>3
    <2> HIDE DEF N
    <2>3. N = Nat
      <3>1. N \in SUBSET Nat
        BY DEF N
      <3> QED BY <2>1, <2>2, <3>1, Induction
    <2> QED BY <2>3 DEF N
  <1> DEFINE g == [n \in Nat |-> (CHOOSE h \in A(n) : TRUE)[n]]
  <1>3. ASSUME NEW n \in Nat, NEW h \in A(n) PROVE g[n] = h[n]
    BY <1>2, <1>3
  <1>4. g \in [Nat -> S] /\ g[0] = a
    <2>1. ASSUME NEW n \in Nat PROVE g[n] \in S /\ (n = 0 => g[n] = a)
      <3>1. PICK h \in A(n) : TRUE
        BY <1>1
      <3>2. g[n] = h[n]
        BY <1>3
      <3> HIDE DEF g
      <3> QED BY <3>1, <3>2 DEF Starts
    <2>2. g = [n \in Nat |-> g[n]]
      OBVIOUS
    <2> HIDE DEF g
    <2> QED BY <2>1, <2>2
  <1>5. ASSUME NEW n \in Nat PROVE g[n + 1] = G[g[n]]
    <2>1. PICK h \in A(n + 1) : TRUE
      BY <1>1
    <2>2. [k \in 0..n |-> h[k]] \in A(n)
      BY DEF Starts
    <2>3. g[n] = h[n] /\ g[n + 1] = h[n + 1]
      BY <1>3, <2>1, <2>2
    <2> HIDE DEF g
    <2>4. n \in 0..(n + 1) - 1
      OBVIOUS
    <2>5. h[n + 1] = G[h[n]]
      BY <2>1, <2>4 DEF Starts
    <2> QED BY <2>3, <2>5
  <1> HIDE DEF g
  <1> QED BY <1>4, <1>5
\* As far as N.
LEMMA InductionTo ==
    ASSUME NEW N \in Nat, NEW S \in SUBSET Nat, 0 \in S,
           \A n \in 0..(N - 1) : n \in S => n + 1 \in S
    PROVE  0..N \subseteq S
  <1> DEFINE M == {n \in Nat : n <= N => n \in S}
  <1>1. 0 \in M
    OBVIOUS
  <1>2. ASSUME NEW n \in M PROVE n + 1 \in M
    <2>1. CASE n + 1 <= N
      <3>1. n \in 0..(N - 1) /\ n \in S
        BY <2>1
      <3> QED BY <3>1
    <2> QED BY <2>1
  <1>3. M \in SUBSET Nat
    OBVIOUS
  <1> HIDE DEF M
  <1>4. M = Nat
    BY <1>1, <1>2, <1>3, Induction
  <1> QED BY <1>4 DEF M

\* The functions on 0..n that are a at 0 and go on by G, which may depend on
\* how far they are.
StartsBy(n, S, a, G) ==
    {h \in [0..n -> S] : h[0] = a /\ \A k \in 1..n : h[k] = G[<<k, h[k - 1]>>]}

\* Such a function as far as N.
Unfolds(g, N, S, a, G) ==
    /\ g \in [0..N -> S] /\ g[0] = a
    /\ \A k \in 1..N : g[k] = G[<<k, g[k - 1]>>]

\* There is one.
LEMMA Unfolding ==
    ASSUME NEW N \in Nat, NEW S, NEW a \in S, NEW G \in [(1..N) \X S -> S]
    PROVE  \E g : Unfolds(g, N, S, a, G)
  <1> DEFINE M == {n \in Nat : n <= N => StartsBy(n, S, a, G) # {}}
  <1>1. 0 \in M
    <2>1. [k \in 0..0 |-> a] \in StartsBy(0, S, a, G)
      BY DEF StartsBy
    <2> QED BY <2>1
  <1>2. ASSUME NEW n \in M PROVE n + 1 \in M
    <2> SUFFICES ASSUME n + 1 <= N PROVE StartsBy(n + 1, S, a, G) # {}
      OBVIOUS
    <2>1. n \in Nat /\ n <= N
      OBVIOUS
    <2>2. PICK h \in StartsBy(n, S, a, G) : TRUE
      BY <2>1
    <2>3. h \in [0..n -> S] /\ h[0] = a /\ \A k \in 1..n : h[k] = G[<<k, h[k - 1]>>]
      BY <2>2 DEF StartsBy
    <2> DEFINE f == [k \in 0..(n + 1) |-> IF k = n + 1 THEN G[<<n + 1, h[n]>>] ELSE h[k]]
    <2>4. <<n + 1, h[n]>> \in (1..N) \X S
      BY <2>1, <2>3
    <2>5. f \in [0..(n + 1) -> S] /\ f[0] = a
      BY <2>1, <2>3, <2>4
    <2>6. ASSUME NEW k \in 1..(n + 1) PROVE f[k] = G[<<k, f[k - 1]>>]
      <3>1. CASE k = n + 1
        <4>1. k \in 0..(n + 1) /\ k - 1 = n /\ n \in 0..(n + 1) /\ n # n + 1
          BY <2>1, <3>1
        <4>2. f[k] = G[<<n + 1, h[n]>>] /\ f[n] = h[n]
          BY <3>1, <4>1
        <4> QED BY <3>1, <4>1, <4>2
      <3>2. CASE k # n + 1
        <4>1. k \in 1..n /\ k \in 0..(n + 1) /\ k - 1 \in 0..(n + 1) /\ k - 1 # n + 1
          BY <2>1, <3>2
        <4> QED BY <2>3, <3>2, <4>1
      <3> QED BY <3>1, <3>2
    <2> HIDE DEF f
    <2> QED BY <2>5, <2>6 DEF StartsBy
  <1>3. M \in SUBSET Nat
    OBVIOUS
  <1> HIDE DEF M
  <1>4. M = Nat
    BY <1>1, <1>2, <1>3, Induction
  <1>5. PICK h \in StartsBy(N, S, a, G) : TRUE
    BY <1>4 DEF M
  <1> QED BY <1>5 DEF StartsBy, Unfolds

-----------------------------------------------------------------------------
(* Folds over a sequence: functions on the sets of its places *)

LEMMA Largest ==
    ASSUME NEW n \in Nat \ {0}
    PROVE  1..n # {} /\ Max(1..n) = n /\ (1..n) \ {n} = 1..(n - 1)
  <1>1. n \in 1..n /\ \A y \in 1..n : n >= y
    OBVIOUS
  <1>2. ASSUME NEW x \in 1..n, \A y \in 1..n : x >= y PROVE x = n
    BY <1>1, <1>2
  <1>3. Max(1..n) = n
    BY <1>1, <1>2 DEF Max
  <1>4. (1..n) \ {n} = 1..(n - 1)
    <2>1. ASSUME NEW x \in (1..n) \ {n} PROVE x \in 1..(n - 1)
      OBVIOUS
    <2>2. ASSUME NEW x \in 1..(n - 1) PROVE x \in (1..n) \ {n}
      OBVIOUS
    <2> QED BY <2>1, <2>2
  <1> QED BY <1>1, <1>3, <1>4

LEMMA LargestIn ==
    ASSUME NEW N \in Nat, NEW s \in SUBSET (1..N), s # {}
    PROVE  Max(s) \in s /\ \A y \in s : Max(s) >= y
  <1> DEFINE M == {n \in Nat : \A u \in SUBSET (1..N) :
                     (\E y \in u : y >= N - n) => \E x \in u : \A y \in u : x >= y}
  <1>1. 0 \in M
    <2> SUFFICES ASSUME NEW u \in SUBSET (1..N), NEW x \in u, x >= N - 0
                 PROVE  \E z \in u : \A y \in u : z >= y
      OBVIOUS
    <2>1. \A y \in u : x >= y
      OBVIOUS
    <2> QED BY <2>1
  <1>2. ASSUME NEW n \in M PROVE n + 1 \in M
    <2> SUFFICES ASSUME NEW u \in SUBSET (1..N), NEW x \in u, x >= N - (n + 1)
                 PROVE  \E z \in u : \A y \in u : z >= y
      OBVIOUS
    <2>0. n \in Nat
      OBVIOUS
    <2>1. CASE \E y \in u : y >= N - n
      BY <2>1
    <2>2. CASE \A y \in u : ~ (y >= N - n)
      <3>1. ASSUME NEW y \in u PROVE x >= y
        BY <2>0, <2>2
      <3> QED BY <3>1
    <2> QED BY <2>1, <2>2
  <1>3. M \in SUBSET Nat
    OBVIOUS
  <1> HIDE DEF M
  <1>4. M = Nat
    BY <1>1, <1>2, <1>3, Induction
  <1>5. PICK y \in s : TRUE
    OBVIOUS
  <1>6. y >= N - N
    OBVIOUS
  <1>7. \E x \in s : \A z \in s : x >= z
    BY <1>4, <1>5, <1>6 DEF M
  <1> QED BY <1>7 DEF Max

\* What a fold that starts with a and goes on by G makes of the sets of places.
FoldsBy(f, N, S, a, G) ==
    /\ f \in [SUBSET (1..N) -> S] /\ f[{}] = a
    /\ \A s \in SUBSET (1..N) : s # {} => f[s] = G[<<Max(s), f[s \ {Max(s)}]>>]

\* The fold exists.
LEMMA FoldExists ==
    ASSUME NEW N \in Nat, NEW S, NEW a \in S, NEW G \in [(1..N) \X S -> S]
    PROVE  \E f : FoldsBy(f, N, S, a, G)
  <1> DEFINE P == SUBSET (1..N)
  <1> DEFINE R == [P -> S]
  <1> DEFINE H == [x \in (1..N) \X R |-> [s \in P |->
                     IF s = {} THEN a ELSE G[<<Max(s), x[2][s \ {Max(s)}]>>]]]
  <1>0. \A s \in P \ {{}} : Max(s) \in 1..N /\ Max(s) \in s /\ s \ {Max(s)} \in P
                          /\ \A y \in s : Max(s) >= y
    BY LargestIn
  <1>1. H \in [(1..N) \X R -> R]
    BY <1>0
  <1> DEFINE c == [s \in P |-> a]
  <1>2. c \in R
    OBVIOUS
  <1>3. PICK g : Unfolds(g, N, R, c, H)
    <2> HIDE DEF H, R, c
    <2> QED BY <1>1, <1>2, Unfolding
  <1>4. ASSUME NEW k \in 1..N, NEW s \in P
        PROVE  g[k][s] = IF s = {} THEN a ELSE G[<<Max(s), g[k - 1][s \ {Max(s)}]>>]
    <2>1. k \in 0..N /\ k - 1 \in 0..N /\ k # 0
      OBVIOUS
    <2>2. g[k] = H[<<k, g[k - 1]>>] /\ g[k - 1] \in R
      <3> HIDE DEF H, R, c
      <3> QED BY <1>3, <2>1 DEF Unfolds
    <2>3. <<k, g[k - 1]>> \in (1..N) \X R
      BY <2>2
    <2>4. H[<<k, g[k - 1]>>] = [u \in P |->
              IF u = {} THEN a ELSE G[<<Max(u), g[k - 1][u \ {Max(u)}]>>]]
      BY <2>3
    <2> QED BY <2>2, <2>4
  <1>5. \A s \in P : g[0][s] = a
    BY <1>3 DEF Unfolds
  <1>6. \A k \in 0..N : g[k] \in R
    <2> HIDE DEF H, R, c
    <2> QED BY <1>3 DEF Unfolds
  <1> HIDE DEF H, R
  \* Further rounds do not change what the first k places make of a set.
  <1> DEFINE Same(k) == \A m \in k..N : \A s \in SUBSET (1..k) : g[m][s] = g[k][s]
  <1> DEFINE M == {k \in Nat : k <= N => Same(k)}
  <1>7. 0 \in M
    <2> SUFFICES ASSUME NEW m \in 0..N, NEW s \in SUBSET (1..0) PROVE g[m][s] = g[0][s]
      OBVIOUS
    <2>1. s = {} /\ s \in P
      OBVIOUS
    <2>2. CASE m = 0
      BY <2>2
    <2>3. CASE m # 0
      <3>1. m \in 1..N
        BY <2>3
      <3>2. g[m][s] = a
        BY <1>4, <2>1, <3>1
      <3> QED BY <1>5, <2>1, <3>2
    <2> QED BY <2>2, <2>3
  <1>8. ASSUME NEW k \in M PROVE k + 1 \in M
    <2> SUFFICES ASSUME k + 1 <= N, NEW m \in (k + 1)..N, NEW s \in SUBSET (1..(k + 1))
                 PROVE  g[m][s] = g[k + 1][s]
      OBVIOUS
    <2>1. k \in Nat /\ k <= N /\ s \in P /\ m \in 1..N /\ m - 1 \in k..N /\ k + 1 \in 1..N
      OBVIOUS
    <2>2. CASE s = {}
      BY <2>1, <2>2, <1>4
    <2>3. CASE s # {}
      <3> DEFINE u == s \ {Max(s)}
      <3>1. u \in SUBSET (1..k)
        <4>1. Max(s) \in 1..(k + 1) /\ \A y \in s : Max(s) >= y
          BY <1>0, <2>1, <2>3
        <4>2. ASSUME NEW y \in u PROVE y \in 1..k
          BY <2>1, <4>1
        <4> QED BY <4>2
      <3>2. g[m - 1][u] = g[k][u]
        BY <2>1, <3>1
      <3> HIDE DEF M
      <3>3. /\ g[m][s] = G[<<Max(s), g[m - 1][u]>>]
            /\ g[k + 1][s] = G[<<Max(s), g[(k + 1) - 1][u]>>]
        BY <1>4, <2>1, <2>3
      <3>4. (k + 1) - 1 = k
        BY <2>1
      <3> QED BY <3>2, <3>3, <3>4
    <2> QED BY <2>2, <2>3
  <1>9. \A k \in 0..N : Same(k)
    <2>1. M \in SUBSET Nat
      OBVIOUS
    <2> HIDE DEF M
    <2>2. M = Nat
      BY <1>7, <1>8, <2>1, Induction
    <2> QED BY <2>2 DEF M
  <1> DEFINE f == g[N]
  <1>10. ASSUME NEW s \in P, s # {} PROVE f[s] = G[<<Max(s), f[s \ {Max(s)}]>>]
    <2>1. N \in 1..N /\ N - 1 \in 0..N
      <3>1. PICK y \in 1..N : TRUE
        BY <1>10
      <3>2. N # 0
        BY <3>1
      <3> QED BY <3>2
    <2>2. g[N][s] = G[<<Max(s), g[N - 1][s \ {Max(s)}]>>]
      BY <1>4, <1>10, <2>1
    <2> DEFINE u == s \ {Max(s)}
    <2>3. u \in SUBSET (1..(N - 1))
      <3>1. Max(s) \in 1..N /\ \A y \in s : Max(s) >= y
        BY <1>0, <1>10
      <3>2. ASSUME NEW y \in u PROVE y \in 1..(N - 1)
        BY <3>1
      <3> QED BY <3>2
    <2>4. N \in (N - 1)..N
      BY <2>1
    <2>5. g[N][u] = g[N - 1][u]
      BY <1>9, <2>1, <2>3, <2>4
    <2> QED BY <2>2, <2>5
  <1>11. f \in R /\ f[{}] = a
    <2>1. CASE N = 0
      BY <1>5, <1>6, <2>1
    <2>2. CASE N # 0
      <3>1. N \in 1..N /\ N \in 0..N /\ {} \in P
        BY <2>2
      <3>2. g[N][{}] = IF {} = {} THEN a ELSE G[<<Max({}), g[N - 1][{} \ {Max({})}]>>]
        BY <1>4, <3>1
      <3> QED BY <1>6, <3>1, <3>2
    <2> QED BY <2>1, <2>2
  <1> HIDE DEF f
  <1> QED BY <1>10, <1>11 DEF R, FoldsBy

\* What the library's FoldLeft defines, for a rule F that is a function.
FoldEq(f, t, a, F) ==
    f = [s \in SUBSET (DOMAIN t) |->
            IF s = {} THEN a ELSE F[<<f[s \ {Max(s)}], t[Max(s)]>>]]

FoldRun(t, a, F) == CHOOSE f : FoldEq(f, t, a, F)
Fold(t, a, F) == FoldRun(t, a, F)[DOMAIN t]

\* It is defined.
RunsIn(S, t, a, F) ==
    LET g == FoldRun(t, a, F) IN
    /\ g \in [SUBSET (DOMAIN t) -> S] /\ g[{}] = a
    /\ \A s \in SUBSET (DOMAIN t) :
          s # {} => Max(s) \in DOMAIN t /\ g[s] = F[<<g[s \ {Max(s)}], t[Max(s)]>>]

LEMMA FoldRuns ==
    ASSUME NEW S, NEW B, NEW a \in S, NEW F \in [S \X B -> S], NEW t \in Seq(B)
    PROVE  RunsIn(S, t, a, F)
  <1> DEFINE G == [x \in (1..Len(t)) \X S |-> F[<<x[2], t[x[1]]>>]]
  <1>1. Len(t) \in Nat /\ DOMAIN t = 1..Len(t) /\ \A k \in 1..Len(t) : t[k] \in B
    OBVIOUS
  <1>2. /\ G \in [(1..Len(t)) \X S -> S]
        /\ \A k \in 1..Len(t), s \in S : G[<<k, s>>] = F[<<s, t[k]>>]
    BY <1>1
  <1>3. PICK f : FoldsBy(f, Len(t), S, a, G)
    <2> HIDE DEF G
    <2> QED BY <1>1, <1>2, FoldExists
  <1>4. \A s \in SUBSET (1..Len(t)) : s # {} => Max(s) \in 1..Len(t)
    BY <1>1, LargestIn
  <1>5. FoldEq(f, t, a, F)
    <2> HIDE DEF G
    <2>1. f \in [SUBSET (1..Len(t)) -> S] /\ f[{}] = a
      BY <1>3 DEF FoldsBy
    <2>2. ASSUME NEW s \in SUBSET (1..Len(t)), s # {}
          PROVE  f[s] = F[<<f[s \ {Max(s)}], t[Max(s)]>>]
      BY <1>2, <1>3, <1>4, <2>1, <2>2 DEF FoldsBy
    <2> QED BY <1>1, <2>1, <2>2 DEF FoldEq
  <1>6. FoldEq(FoldRun(t, a, F), t, a, F)
    BY <1>5 DEF FoldRun
  <1> DEFINE g == FoldRun(t, a, F)
  <1>7. g = [s \in SUBSET (1..Len(t)) |->
               IF s = {} THEN a ELSE F[<<g[s \ {Max(s)}], t[Max(s)]>>]]
    BY <1>1, <1>6 DEF FoldEq
  <1>8. ASSUME NEW n \in 0..Len(t), \A s \in SUBSET (1..Len(t)) : (\A k \in s : k <= n) => g[s] \in S,
               n < Len(t), NEW s \in SUBSET (1..Len(t)), \A k \in s : k <= n + 1
        PROVE  g[s] \in S
    <2> HIDE DEF g
    <2>1. CASE s = {}
      BY <1>7, <2>1
    <2>2. CASE s # {}
      <3>1. Max(s) \in s /\ \A y \in s : Max(s) >= y
        BY <1>1, <2>2, LargestIn
      <3>2. ASSUME NEW k \in s \ {Max(s)} PROVE k <= n
        <4> DEFINE m == Max(s)
        <4>1. m \in s /\ m >= k /\ k # m /\ k \in s
          BY <3>1
        <4> HIDE DEF m
        <4>2. m <= n + 1
          BY <1>8, <4>1
        <4>3. m \in Int /\ k \in Int /\ n \in Int
          BY <4>1
        <4> QED BY <4>1, <4>2, <4>3
      <3>3. g[s \ {Max(s)}] \in S
        BY <1>8, <3>2
      <3>4. g[s] = F[<<g[s \ {Max(s)}], t[Max(s)]>>]
        BY <1>7, <2>2
      <3> QED BY <1>1, <3>1, <3>3, <3>4
    <2> QED BY <2>1, <2>2
  <1> DEFINE M == {n \in Nat : \A s \in SUBSET (1..Len(t)) : (\A k \in s : k <= n) => g[s] \in S}
  <1>9. 0 \in M
    <2> HIDE DEF g
    <2> SUFFICES ASSUME NEW s \in SUBSET (1..Len(t)), \A k \in s : k <= 0 PROVE g[s] \in S
      OBVIOUS
    <2>1. s = {}
      OBVIOUS
    <2> QED BY <1>7, <2>1
  <1>10. ASSUME NEW n \in 0..(Len(t) - 1), n \in M PROVE n + 1 \in M
    <2> HIDE DEF g
    <2>1. n \in 0..Len(t) /\ n < Len(t) /\ n + 1 \in Nat
      BY <1>1
    <2> QED BY <1>8, <1>10, <2>1
  <1>11. 0..Len(t) \subseteq M
    <2>1. M \in SUBSET Nat
      OBVIOUS
    <2> HIDE DEF M
    <2> QED BY <1>1, <1>9, <1>10, <2>1, InductionTo
  <1>12. \A s \in SUBSET (1..Len(t)) : g[s] \in S
    <2> HIDE DEF g
    <2>1. Len(t) \in M
      BY <1>1, <1>11
    <2> QED BY <1>1, <2>1
  <1>13. g \in [SUBSET (1..Len(t)) -> S]
    <2> HIDE DEF g, M
    <2> QED BY <1>7, <1>12
  <1>14. g[{}] = a /\ \A s \in SUBSET (1..Len(t)) : s # {} => g[s] = F[<<g[s \ {Max(s)}], t[Max(s)]>>]
    <2> HIDE DEF g, M
    <2> QED BY <1>7
  <1> HIDE DEF M
  <1> QED BY <1>1, <1>4, <1>13, <1>14 DEF RunsIn

\* Whatever goes through the places by F comes to the same.
ComesTo(f, S, B, t, a, F) == f[DOMAIN t] = Fold(t, a, F) /\ Fold(t, a, F) \in S

LEMMA FoldIs ==
    ASSUME NEW S, NEW B, NEW a \in S, NEW F \in [S \X B -> S], NEW t \in Seq(B),
           NEW f, f[{}] = a,
           \A s \in SUBSET (DOMAIN t) : s # {} /\ Max(s) \in DOMAIN t /\ f[s \ {Max(s)}] \in S
                                       => f[s] = F[<<f[s \ {Max(s)}], t[Max(s)]>>]
    PROVE  ComesTo(f, S, B, t, a, F)
  <1> DEFINE g == FoldRun(t, a, F)
  <1>1. Len(t) \in Nat /\ DOMAIN t = 1..Len(t)
    OBVIOUS
  <1>2. /\ g \in [SUBSET (DOMAIN t) -> S] /\ g[{}] = a
        /\ \A s \in SUBSET (DOMAIN t) : s # {} => g[s] = F[<<g[s \ {Max(s)}], t[Max(s)]>>]
    <2>1. RunsIn(S, t, a, F)
      BY FoldRuns
    <2> QED BY <2>1 DEF RunsIn
  <1> DEFINE M == {n \in Nat : f[1..n] = g[1..n]}
  <1>3. 0 \in M
    <2> HIDE DEF g
    <2>1. 1..0 = {} /\ {} \in SUBSET (DOMAIN t)
      OBVIOUS
    <2>2. g[{}] = a
      BY <1>2, <2>1
    <2> QED BY <2>1, <2>2
  <1>4. ASSUME NEW n \in 0..(Len(t) - 1), n \in M PROVE n + 1 \in M
    <2> HIDE DEF g
    <2>1. n + 1 \in Nat \ {0} /\ (n + 1) - 1 = n
      OBVIOUS
    <2>2. 1..(n + 1) # {} /\ Max(1..(n + 1)) = n + 1 /\ (1..(n + 1)) \ {n + 1} = 1..n
      BY <2>1, Largest
    <2>3. 1..(n + 1) \in SUBSET (DOMAIN t) /\ 1..n \in SUBSET (DOMAIN t) /\ n + 1 \in DOMAIN t
      BY <1>1
    <2>4. g[1..(n + 1)] = F[<<g[1..n], t[n + 1]>>] /\ g[1..n] \in S
      BY <1>2, <2>2, <2>3
    <2>5. f[1..n] = g[1..n]
      BY <1>4
    <2>6. f[1..(n + 1)] = F[<<f[1..n], t[n + 1]>>]
      BY <2>2, <2>3, <2>4, <2>5
    <2> QED BY <2>1, <2>4, <2>5, <2>6
  <1>5. 0..Len(t) \subseteq M
    <2>1. M \in SUBSET Nat
      OBVIOUS
    <2> HIDE DEF M
    <2> QED BY <1>1, <1>3, <1>4, <2>1, InductionTo
  <1>6. f[DOMAIN t] = g[DOMAIN t] /\ g[DOMAIN t] \in S
    <2> HIDE DEF g
    <2>1. Len(t) \in M
      BY <1>1, <1>5
    <2> QED BY <1>1, <1>2, <2>1
  <1> HIDE DEF M
  <1> QED BY <1>6 DEF Fold, ComesTo

\* A fold goes on with what is appended.
GoesOn(S, B, a, F) ==
    /\ Fold(<<>>, a, F) = a
    /\ \A t \in Seq(B) : Fold(t, a, F) \in S
    /\ \A t \in Seq(B), c \in B : Fold(Append(t, c), a, F) = F[<<Fold(t, a, F), c>>]

LEMMA FoldGoesOn ==
    ASSUME NEW S, NEW B, NEW a \in S, NEW F \in [S \X B -> S]
    PROVE  GoesOn(S, B, a, F)
  <1>1. Fold(<<>>, a, F) = a
    <2>1. <<>> \in Seq(B) /\ DOMAIN <<>> = {}
      OBVIOUS
    <2>2. RunsIn(S, <<>>, a, F)
      BY <2>1, FoldRuns
    <2> QED BY <2>1, <2>2 DEF RunsIn, Fold
  <1>2. ASSUME NEW t \in Seq(B) PROVE Fold(t, a, F) \in S
    <2>1. RunsIn(S, t, a, F)
      BY FoldRuns
    <2> QED BY <2>1 DEF RunsIn, Fold
  <1>3. ASSUME NEW t \in Seq(B), NEW c \in B
        PROVE  Fold(Append(t, c), a, F) = F[<<Fold(t, a, F), c>>]
    <2> DEFINE u == Append(t, c)
    <2> DEFINE g == FoldRun(u, a, F)
    <2>1. /\ u \in Seq(B) /\ Len(t) \in Nat /\ DOMAIN t = 1..Len(t)
          /\ DOMAIN u = 1..(Len(t) + 1) /\ u[Len(t) + 1] = c
          /\ \A k \in 1..Len(t) : u[k] = t[k]
      BY AppendProperties
    <2> HIDE DEF u
    <2>2. RunsIn(S, u, a, F)
      BY <2>1, FoldRuns
    <2>3. /\ g[{}] = a
          /\ \A s \in SUBSET (DOMAIN u) : s # {} => g[s] = F[<<g[s \ {Max(s)}], u[Max(s)]>>]
      BY <2>2 DEF RunsIn
    <2> HIDE DEF g
    <2>4. ASSUME NEW s \in SUBSET (DOMAIN t), s # {}, Max(s) \in DOMAIN t
          PROVE  g[s] = F[<<g[s \ {Max(s)}], t[Max(s)]>>]
      <3>1. s \in SUBSET (DOMAIN u) /\ u[Max(s)] = t[Max(s)]
        BY <2>1, <2>4
      <3> QED BY <2>3, <2>4, <3>1
    <2>5. ComesTo(g, S, B, t, a, F)
      BY <2>3, <2>4, FoldIs
    <2>6. DOMAIN u # {} /\ Max(DOMAIN u) = Len(t) + 1 /\ (DOMAIN u) \ {Len(t) + 1} = DOMAIN t
      <3>1. Len(t) + 1 \in Nat \ {0} /\ (Len(t) + 1) - 1 = Len(t)
        BY <2>1
      <3> QED BY <2>1, <3>1, Largest
    <2>7. g[DOMAIN u] = F[<<g[DOMAIN t], c>>]
      BY <2>1, <2>3, <2>6
    <2> QED BY <2>5, <2>7 DEF Fold, ComesTo, g, u
  <1> QED BY <1>1, <1>2, <1>3 DEF GoesOn

\* What is true of the empty sequence, and goes from a sequence to one with one
\* element more, is true of all.
LEMMA OneMore ==
    ASSUME NEW B, NEW P, <<>> \in P, \A t \in Seq(B), c \in B : t \in P => Append(t, c) \in P
    PROVE  Seq(B) \subseteq P
  <1> DEFINE M == {n \in Nat : \A t \in Seq(B) : Len(t) = n => t \in P}
  <1>1. 0 \in M
    <2>1. \A t \in Seq(B) : Len(t) = 0 => t = <<>>
      OBVIOUS
    <2> QED BY <2>1
  <1>2. ASSUME NEW n \in M PROVE n + 1 \in M
    <2> SUFFICES ASSUME NEW t \in Seq(B), Len(t) = n + 1 PROVE t \in P
      OBVIOUS
    <2>1. t # <<>>
      OBVIOUS
    <2>2. PICK u \in Seq(B), c \in B : t = Append(u, c)
      BY <2>1, SequenceEmptyOrAppend
    <2>3. Len(t) = Len(u) + 1 /\ Len(u) \in Nat
      BY <2>2, AppendProperties
    <2>4. Len(u) = n
      BY <2>3
    <2> QED BY <2>2, <2>4
  <1>3. M \in SUBSET Nat
    OBVIOUS
  <1> HIDE DEF M
  <1>4. M = Nat
    BY <1>1, <1>2, <1>3, Induction
  <1> QED BY <1>4 DEF M
=============================================================================
