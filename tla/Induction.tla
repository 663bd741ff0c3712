----------------------------- MODULE Induction -----------------------------
(***************************************************************************)
(* Induction and recursion over the natural numbers, stated with sets and  *)
(* functions in place of operators, so that the provers can instantiate    *)
(* them: a property is the set of numbers that have it, a recursion step   *)
(* is a function of the position and the value so far.                     *)
(***************************************************************************)
EXTENDS Naturals, FiniteSetsExt, FiniteSetTheorems, WellFoundedInduction, TLAPS

\* Every non-empty set of natural numbers has a least element.
LEMMA LeastElement ==
    ASSUME NEW T \in SUBSET Nat, T # {}
    PROVE  \E n \in T : \A m \in T : n <= m
<1>1. PICK n \in T : \A m \in T : <<m, n>> \notin OpToRel(<, Nat)
  BY NatLessThanWellFounded, WFMin
<1>2. ASSUME NEW m \in T PROVE n <= m
  <2>1. SUFFICES ASSUME m < n PROVE FALSE
    OBVIOUS
  <2>2. <<m, n>> \in OpToRel(<, Nat)
    BY <2>1 DEF OpToRel
  <2> QED
    BY <1>1, <2>2
<1> QED
  BY <1>2

\* A set that has 0, and with every n below N also n + 1, has all of 0..N.
LEMMA SetInduction ==
    ASSUME NEW N \in Nat, NEW S, 0 \in S,
           \A n \in 0..N : n < N /\ n \in S => n + 1 \in S
    PROVE  \A n \in 0..N : n \in S
<1> SUFFICES ASSUME (0..N) \ S # {} PROVE FALSE
  OBVIOUS
<1>0. (0..N) \ S \in SUBSET Nat
  OBVIOUS
<1>1. PICK n \in (0..N) \ S : \A m \in (0..N) \ S : n <= m
  BY <1>0, LeastElement
<1>2. n # 0
  OBVIOUS
<1>3. n - 1 \in 0..N /\ n - 1 < N
  BY <1>2
<1>4. n - 1 \in S
  BY <1>1, <1>3
<1> QED
  BY <1>3, <1>4

\* f is base at 0 and goes from n - 1 to n by step, within S.
Recurs(f, N, S, base, step) ==
    /\ f \in [0..N -> S]
    /\ f[0] = base
    /\ \A n \in 1..N : f[n] = step[n][f[n - 1]]

\* A function on 0..N can be defined by its value at 0 and a step from n - 1 to n.
LEMMA Recursion ==
    ASSUME NEW N \in Nat, NEW S, NEW base \in S, NEW step \in [1..N -> [S -> S]]
    PROVE  \E f : Recurs(f, N, S, base, step)
<1> USE DEF Recurs
<1> DEFINE Def(f, m) == Recurs(f, m, S, base, step)
           D == {m \in 0..N : \E f : Def(f, m)}
<1>1. 0 \in D
  <2>1. Def([n \in 0..0 |-> base], 0)
    OBVIOUS
  <2>2. 0 \in 0..N
    OBVIOUS
  <2> HIDE DEF Def
  <2> QED
    BY <2>1, <2>2
<1>2. ASSUME NEW m \in 0..N, m < N, m \in D PROVE m + 1 \in D
  <2>1. PICK f : Def(f, m)
    BY <1>2
  <2>2. m + 1 \in 1..N
    BY <1>2
  <2>3. f[m] \in S
    BY <2>1
  <2> DEFINE v == step[m + 1][f[m]]
  <2>4. v \in S
    BY <2>2, <2>3
  <2> HIDE DEF v
  <2> DEFINE g == [n \in 0..(m + 1) |-> IF n = m + 1 THEN v ELSE f[n]]
  <2>5. g \in [0..(m + 1) -> S]
    BY <2>1, <2>4
  <2>6. g[0] = base
    BY <2>1
  <2>7. ASSUME NEW n \in 1..(m + 1) PROVE g[n] = step[n][g[n - 1]]
    <3>1. CASE n = m + 1
      BY <3>1 DEF v
    <3>2. CASE n # m + 1
      <4>1. n \in 1..m /\ n - 1 \in 0..m
        BY <3>2
      <4>2. g[n] = f[n] /\ g[n - 1] = f[n - 1]
        BY <4>1
      <4> QED
        BY <4>1, <4>2, <2>1
    <3> QED
      BY <3>1, <3>2
  <2>8. Def(g, m + 1)
    BY <2>5, <2>6, <2>7
  <2>9. m + 1 \in 0..N
    BY <2>2
  <2> HIDE DEF Def, g
  <2> QED
    BY <2>8, <2>9
<1> HIDE DEF D
<1>3. \A n \in 0..N : n \in D
  BY <1>1, <1>2, SetInduction
<1>4. N \in D
  BY <1>3
<1> QED
  BY <1>4 DEF D

\* Every non-empty set of numbers up to N has a greatest element, and Max is it.
LEMMA MaxOf ==
    ASSUME NEW N \in Nat, NEW T \in SUBSET (1..N), T # {}
    PROVE  Max(T) \in T /\ \A m \in T : m <= Max(T)
<1> DEFINE U == {n \in 0..N : \A m \in T : m <= n}
<1>1. U \in SUBSET Nat /\ U # {}
  <2>1. N \in U
    OBVIOUS
  <2> QED
    BY <2>1
<1>2. PICK u \in U : \A n \in U : u <= n
  <2> HIDE DEF U
  <2> QED
    BY <1>1, LeastElement
<1>3. u \in T
  <2> SUFFICES ASSUME u \notin T PROVE FALSE
    OBVIOUS
  <2>1. \A m \in T : m <= u /\ m # u /\ m >= 1
    BY <1>2
  <2>2. u >= 1 /\ u \in Nat
    <3>1. PICK m \in T : TRUE
      OBVIOUS
    <3>2. u \in Nat /\ m \in Nat
      OBVIOUS
    <3> QED
      BY <2>1, <3>2
  <2>3. u - 1 \in U
    BY <2>1, <2>2
  <2> QED
    BY <1>2, <2>2, <2>3
<1>4. \E x \in T : \A y \in T : x >= y
  BY <1>2, <1>3
<1>5. Max(T) \in T /\ \A m \in T : Max(T) >= m
  BY <1>4 DEF Max
<1> QED
  BY <1>5

\* The greatest of the first n positions is n, and without it they are the first n - 1.
LEMMA PrefixMax ==
    ASSUME NEW N \in Nat, NEW n \in 1..N
    PROVE  /\ 1..n \in SUBSET (1..N) /\ 1..n # {}
           /\ Max(1..n) = n
           /\ (1..n) \ {Max(1..n)} = 1..(n - 1)
<1> DEFINE s == 1..n
<1>1. s \in SUBSET (1..N) /\ s # {} /\ n \in s
  OBVIOUS
<1>2. Max(s) \in s /\ n <= Max(s)
  <2> HIDE DEF s
  <2> QED
    BY <1>1, MaxOf
<1>3. Max(s) = n
  BY <1>2
<1> QED
  BY <1>1, <1>3

\* f folds step over the sets of positions up to N, from the least to the greatest.
Folds(f, N, S, base, step) ==
    /\ f \in [SUBSET (1..N) -> S]
    /\ f[{}] = base
    /\ \A s \in SUBSET (1..N) : s # {} => f[s] = step[Max(s)][f[s \ {Max(s)}]]

\* A fold over sets of positions exists, whatever the step.
LEMMA FoldExists ==
    ASSUME NEW N \in Nat, NEW S, NEW base \in S, NEW step \in [1..N -> [S -> S]]
    PROVE  \E f : Folds(f, N, S, base, step)
<1> DEFINE Def(f, m) == Folds(f, m, S, base, step)
           D == {m \in 0..N : \E f : Def(f, m)}
<1>1. 0 \in D
  <2>1. SUBSET (1..0) = {{}}
    OBVIOUS
  <2>2. Def([s \in SUBSET (1..0) |-> base], 0)
    BY <2>1 DEF Folds
  <2>3. 0 \in 0..N
    OBVIOUS
  <2> HIDE DEF Def
  <2> QED
    BY <2>2, <2>3
<1>2. ASSUME NEW m \in 0..N, m < N, m \in D PROVE m + 1 \in D
  <2>1. PICK f : Def(f, m)
    BY <1>2
  <2>2. m + 1 \in 1..N /\ m \in Nat
    BY <1>2
  <2> DEFINE k == m + 1
             New(s) == step[k][f[s \ {k}]]
             g == [s \in SUBSET (1..k) |-> IF k \in s THEN New(s) ELSE f[s]]
  <2>3. ASSUME NEW s \in SUBSET (1..k) PROVE s \ {k} \in SUBSET (1..m)
    BY <2>2
  <2>4. ASSUME NEW s \in SUBSET (1..k), k \notin s PROVE s \in SUBSET (1..m)
    BY <2>2, <2>4
  <2>5. ASSUME NEW s \in SUBSET (1..k) PROVE New(s) \in S
    BY <2>1, <2>2, <2>3 DEF Folds
  <2>6. g \in [SUBSET (1..k) -> S]
    <3> HIDE DEF New, k
    <3> QED
      BY <2>1, <2>4, <2>5 DEF Folds
  <2>7. g[{}] = base
    BY <2>1 DEF Folds
  <2>8. ASSUME NEW s \in SUBSET (1..k), s # {} PROVE g[s] = step[Max(s)][g[s \ {Max(s)}]]
    <3>1. CASE k \in s
      <4>1. Max(s) = k
        <5>1. k \in Nat
          BY <2>2
        <5>2. Max(s) \in 1..k /\ k <= Max(s)
          <6> HIDE DEF k
          <6> QED
            BY <5>1, <2>8, <3>1, MaxOf
        <5> HIDE DEF k
        <5> QED
          BY <5>1, <5>2
      <4>2. s \ {k} \in SUBSET (1..k) /\ k \notin s \ {k}
        OBVIOUS
      <4>3. g[s \ {k}] = f[s \ {k}]
        BY <4>2
      <4>4. g[s] = New(s)
        BY <3>1
      <4> QED
        BY <4>1, <4>3, <4>4
    <3>2. CASE k \notin s
      <4>1. s \in SUBSET (1..m)
        BY <2>4, <3>2
      <4>2. s \ {Max(s)} \in SUBSET (1..k) /\ k \notin s \ {Max(s)}
        BY <3>2
      <4>3. g[s] = f[s] /\ g[s \ {Max(s)}] = f[s \ {Max(s)}]
        BY <3>2, <4>2
      <4> QED
        BY <2>1, <2>8, <4>1, <4>3 DEF Folds
    <3> QED
      BY <3>1, <3>2
  <2>9. Def(g, k)
    BY <2>6, <2>7, <2>8 DEF Folds
  <2>10. k \in 0..N
    BY <2>2
  <2> HIDE DEF Def, g
  <2> QED
    BY <2>9, <2>10
<1> HIDE DEF D
<1>3. \A n \in 0..N : n \in D
  BY <1>1, <1>2, SetInduction
<1>4. N \in D
  BY <1>3
<1> QED
  BY <1>4 DEF D

-----------------------------------------------------------------------------
(* Sums over finite sets *)

\* g is the sum of the weights w of every part of S, taken one element at a time.
Sums(g, w, S) ==
    /\ g \in [SUBSET S -> Nat]
    /\ g[{}] = 0
    /\ \A s \in SUBSET S : s # {} => LET x == CHOOSE y \in s : TRUE
                                     IN  g[s] = w[x] + g[s \ {x}]

\* A finite set has such a sum.
LEMMA SumExists ==
    ASSUME NEW S, IsFiniteSet(S), NEW w \in [S -> Nat]
    PROVE  \E g : Sums(g, w, S)
<1> DEFINE N == Cardinality(S)
           F == [SUBSET S -> Nat]
           Pick(s) == CHOOSE y \in s : TRUE
           More(f, s) == IF s = {} THEN 0 ELSE w[Pick(s)] + f[s \ {Pick(s)}]
           G(f) == [s \in SUBSET S |-> More(f, s)]
           zero == [s \in SUBSET S |-> 0]
           step == [n \in 1..N |-> [f \in F |-> G(f)]]
<1>1. N \in Nat
  BY FS_CardinalityType
<1>2. \A s \in SUBSET S : s # {} => Pick(s) \in s
  OBVIOUS
<1> HIDE DEF N, Pick
<1>3. ASSUME NEW f \in F, NEW s \in SUBSET S PROVE More(f, s) \in Nat
  <2>1. CASE s # {}
    <3>1. w[Pick(s)] \in Nat
      BY <2>1, <1>2
    <3>2. f[s \ {Pick(s)}] \in Nat
      OBVIOUS
    <3> QED
      BY <2>1, <3>1, <3>2
  <2> QED
    BY <2>1
<1>4. ASSUME NEW f \in F PROVE G(f) \in F
  <2> HIDE DEF More
  <2> QED
    BY <1>3
<1>5. zero \in F /\ step \in [1..N -> [F -> F]]
  <2> HIDE DEF G
  <2> QED
    BY <1>4
<1>6. PICK f : Recurs(f, N, F, zero, step)
  <2> HIDE DEF F, zero, step
  <2> QED
    BY <1>1, <1>5, Recursion
<1>7. \A n \in 0..N : f[n] \in F
  BY <1>6 DEF Recurs
<1>8. f[0] = zero /\ \A n \in 0..N : n < N => f[n + 1] = G(f[n])
  <2>1. \A n \in 1..N : f[n] = step[n][f[n - 1]]
    BY <1>6 DEF Recurs
  <2>2. ASSUME NEW n \in 0..N, n < N PROVE f[n + 1] = G(f[n])
    <3>1. n + 1 \in 1..N /\ (n + 1) - 1 = n
      BY <1>1, <2>2
    <3>2. f[n + 1] = step[n + 1][f[n]] /\ f[n] \in F
      BY <2>1, <3>1, <1>7
    <3> HIDE DEF G, F
    <3> QED
      BY <3>1, <3>2
  <2>3. f[0] = zero
    BY <1>6 DEF Recurs
  <2> HIDE DEF G, zero
  <2> QED
    BY <2>2, <2>3
<1> DEFINE A == {n \in 0..N : \A s \in SUBSET S : Cardinality(s) <= n => f[n][s] = More(f[n], s)}
<1>9. \A s \in SUBSET S : IsFiniteSet(s) /\ Cardinality(s) \in 0..N
  BY <1>1, FS_Subset, FS_CardinalityType DEF N
<1>10. 0 \in A
  <2>1. ASSUME NEW s \in SUBSET S, Cardinality(s) <= 0 PROVE f[0][s] = More(f[0], s)
    <3>1. s = {}
      BY <2>1, <1>9, FS_EmptySet
    <3> QED
      BY <3>1, <1>8
  <2> HIDE DEF More
  <2> QED
    BY <1>1, <2>1
<1>11. ASSUME NEW n \in 0..N, n < N, n \in A PROVE n + 1 \in A
  <2>1. ASSUME NEW s \in SUBSET S, Cardinality(s) <= n + 1
        PROVE  f[n + 1][s] = More(f[n + 1], s)
    <3>1. f[n + 1][s] = More(f[n], s)
      <4> HIDE DEF More
      <4> QED
        BY <1>8, <1>11
    <3>2. CASE s = {}
      BY <3>1, <3>2
    <3>3. CASE s # {}
      <4> DEFINE t == s \ {Pick(s)}
      <4>1. t \in SUBSET S /\ Cardinality(t) <= n
        <5>1. Cardinality(t) = Cardinality(s) - 1
          BY <3>3, <1>2, <1>9, FS_RemoveElement
        <5> QED
          BY <5>1, <2>1, <1>9, <1>1
      <4>2. f[n][t] = More(f[n], t)
        <5> HIDE DEF t, More
        <5> QED
          BY <1>11, <4>1
      <4>3. f[n + 1][t] = More(f[n], t)
        <5> HIDE DEF t, More
        <5> QED
          BY <1>8, <1>11, <4>1
      <4>4. f[n][t] = f[n + 1][t]
        BY <4>2, <4>3
      <4> QED
        BY <3>1, <3>3, <4>4
    <3> QED
      BY <3>2, <3>3
  <2>2. n + 1 \in 0..N
    BY <1>11, <1>1
  <2> HIDE DEF More
  <2> QED
    BY <2>1, <2>2
<1> HIDE DEF A
<1>12. N \in A
  <2>1. \A n \in 0..N : n \in A
    BY <1>1, <1>10, <1>11, SetInduction
  <2> QED
    BY <2>1, <1>1
<1>13. ASSUME NEW s \in SUBSET S PROVE f[N][s] = More(f[N], s)
  <2> HIDE DEF More
  <2> QED
    BY <1>12, <1>9, <1>1 DEF A
<1>14. f[N] \in F
  <2> HIDE DEF F
  <2> QED
    BY <1>7, <1>1
<1>15. f[N][{}] = 0
  BY <1>13
<1>16. ASSUME NEW s \in SUBSET S, s # {}
       PROVE  LET x == CHOOSE y \in s : TRUE IN f[N][s] = w[x] + f[N][s \ {x}]
  BY <1>13, <1>16 DEF Pick
<1> QED
  BY <1>14, <1>15, <1>16 DEF Sums

\* The order in which the elements are taken does not matter.
LEMMA SumAnyOrder ==
    ASSUME NEW S, IsFiniteSet(S), NEW w \in [S -> Nat], NEW g, Sums(g, w, S)
    PROVE  \A s \in SUBSET S : \A x \in s : g[s] = w[x] + g[s \ {x}]
<1> DEFINE N == Cardinality(S)
           A == {n \in 0..N : \A s \in SUBSET S : Cardinality(s) <= n
                                => \A x \in s : g[s] = w[x] + g[s \ {x}]}
<1>1. N \in Nat
  BY FS_CardinalityType
<1>2. \A s \in SUBSET S : IsFiniteSet(s) /\ Cardinality(s) \in 0..N
  BY <1>1, FS_Subset, FS_CardinalityType
<1> HIDE DEF N
<1>3. 0 \in A
  <2>1. ASSUME NEW s \in SUBSET S, Cardinality(s) <= 0, NEW x \in s PROVE FALSE
    <3>1. s = {}
      BY <2>1, <1>2, FS_EmptySet
    <3> QED
      BY <3>1
  <2> QED
    BY <1>1, <2>1
<1>4. ASSUME NEW n \in 0..N, n < N, n \in A PROVE n + 1 \in A
  <2>1. ASSUME NEW s \in SUBSET S, Cardinality(s) <= n + 1, NEW x \in s
        PROVE  g[s] = w[x] + g[s \ {x}]
    <3> DEFINE c == CHOOSE y \in s : TRUE
               t == s \ {c, x}
    <3>1. c \in s
      OBVIOUS
    <3> HIDE DEF c
    <3>2. g[s] = w[c] + g[s \ {c}]
      BY <2>1 DEF Sums, c
    <3>3. CASE c = x
      BY <3>2, <3>3
    <3>4. CASE c # x
      <4>1. s \ {c} \in SUBSET S /\ s \ {x} \in SUBSET S
        OBVIOUS
      <4>2. Cardinality(s \ {c}) <= n /\ Cardinality(s \ {x}) <= n
        <5>1. Cardinality(s \ {c}) = Cardinality(s) - 1 /\ Cardinality(s \ {x}) = Cardinality(s) - 1
          BY <3>1, <1>2, FS_RemoveElement
        <5> QED
          BY <5>1, <1>2, <1>1, <2>1
      <4>3. x \in s \ {c} /\ c \in s \ {x}
        BY <3>1, <3>4
      <4>4. (s \ {c}) \ {x} = t /\ (s \ {x}) \ {c} = t
        OBVIOUS
      <4>5. g[s \ {c}] = w[x] + g[t]
        <5> HIDE DEF t
        <5> QED
          BY <1>4, <4>1, <4>2, <4>3, <4>4
      <4>6. g[s \ {x}] = w[c] + g[t]
        <5> HIDE DEF t
        <5> QED
          BY <1>4, <4>1, <4>2, <4>3, <4>4
      <4>7. w[c] \in Nat /\ w[x] \in Nat /\ g[t] \in Nat
        BY <3>1, <4>1 DEF Sums
      <4> HIDE DEF t
      <4> QED
        BY <3>2, <4>5, <4>6, <4>7
    <3> QED
      BY <3>3, <3>4
  <2>2. n + 1 \in 0..N
    BY <1>4, <1>1
  <2> QED
    BY <2>1, <2>2
<1> HIDE DEF A
<1>5. N \in A
  <2>1. \A n \in 0..N : n \in A
    BY <1>1, <1>3, <1>4, SetInduction
  <2> QED
    BY <2>1, <1>1
<1>6. ASSUME NEW s \in SUBSET S, NEW x \in s PROVE g[s] = w[x] + g[s \ {x}]
  <2>1. Cardinality(s) <= N
    BY <1>1, <1>2
  <2> QED
    BY <1>5, <2>1 DEF A
<1> QED
  BY <1>6

\* The sum of a set with one more element is more by the weight of that element.
LEMMA SumAdd ==
    ASSUME NEW S, IsFiniteSet(S), NEW x, x \notin S, NEW T, T = S \cup {x},
           NEW w \in [T -> Nat], NEW v, v = [y \in S |-> w[y]],
           NEW g, Sums(g, v, S), NEW h, Sums(h, w, T)
    PROVE  h[T] = g[S] + w[x]
<1> DEFINE N == Cardinality(S)
           A == {n \in 0..N : \A s \in SUBSET S : Cardinality(s) <= n => g[s] = h[s]}
<1>1. N \in Nat /\ IsFiniteSet(T)
  BY FS_CardinalityType, FS_AddElement
<1>2. \A s \in SUBSET S : IsFiniteSet(s) /\ Cardinality(s) \in 0..N
  BY <1>1, FS_Subset, FS_CardinalityType
<1>3. \A s \in SUBSET T : \A y \in s : h[s] = w[y] + h[s \ {y}]
  <2>1. ASSUME NEW s \in SUBSET T, NEW y \in s PROVE h[s] = w[y] + h[s \ {y}]
    BY <1>1, SumAnyOrder
  <2> QED
    BY <2>1
<1> HIDE DEF N
<1>4. 0 \in A
  <2>1. ASSUME NEW s \in SUBSET S, Cardinality(s) <= 0 PROVE g[s] = h[s]
    <3>1. s = {}
      BY <2>1, <1>2, FS_EmptySet
    <3> QED
      BY <3>1 DEF Sums
  <2> QED
    BY <1>1, <2>1
<1>5. ASSUME NEW n \in 0..N, n < N, n \in A PROVE n + 1 \in A
  <2>1. ASSUME NEW s \in SUBSET S, Cardinality(s) <= n + 1 PROVE g[s] = h[s]
    <3>1. CASE s = {}
      BY <3>1 DEF Sums
    <3>2. CASE s # {}
      <4> DEFINE c == CHOOSE y \in s : TRUE
      <4>1. c \in s
        BY <3>2
      <4>2. g[s] = v[c] + g[s \ {c}]
        BY <3>2 DEF Sums
      <4> HIDE DEF c
      <4>3. Cardinality(s \ {c}) <= n
        <5>1. Cardinality(s \ {c}) = Cardinality(s) - 1
          BY <4>1, <1>2, FS_RemoveElement
        <5> QED
          BY <5>1, <1>2, <1>1, <2>1
      <4>4. s \ {c} \in SUBSET S /\ s \in SUBSET T
        OBVIOUS
      <4>5. g[s \ {c}] = h[s \ {c}]
        BY <1>5, <4>3, <4>4
      <4>6. v[c] = w[c]
        BY <4>1
      <4>7. h[s] = w[c] + h[s \ {c}]
        BY <1>3, <4>1, <4>4
      <4> QED
        BY <4>2, <4>5, <4>6, <4>7
    <3> QED
      BY <3>1, <3>2
  <2>2. n + 1 \in 0..N
    BY <1>5, <1>1
  <2> QED
    BY <2>1, <2>2
<1> HIDE DEF A
<1>6. N \in A
  <2>1. \A n \in 0..N : n \in A
    BY <1>1, <1>4, <1>5, SetInduction
  <2> QED
    BY <2>1, <1>1
<1>7. g[S] = h[S]
  <2>1. Cardinality(S) <= N /\ S \in SUBSET S
    BY <1>1 DEF N
  <2> QED
    BY <1>6, <2>1 DEF A
<1>8. h[T] = w[x] + h[S]
  <2>1. T \in SUBSET T /\ x \in T /\ T \ {x} = S
    OBVIOUS
  <2>2. h[T] = w[x] + h[T \ {x}]
    BY <1>3, <2>1
  <2> QED
    BY <2>1, <2>2
<1>9. w[x] \in Nat /\ g[S] \in Nat
  BY DEF Sums
<1> QED
  BY <1>7, <1>8, <1>9

\* A function that adds up a set one element at a time, as MapThenSumSet does.
Iterates(f, w, S) ==
    f = [s \in SUBSET S |-> IF s = {} THEN 0
                            ELSE w[CHOOSE y \in s : TRUE] + f[s \ {CHOOSE y \in s : TRUE}]]

\* It is the sum.
LEMMA SumIterates ==
    ASSUME NEW S, IsFiniteSet(S), NEW w \in [S -> Nat], NEW g, Sums(g, w, S),
           NEW f, Iterates(f, w, S)
    PROVE  f = g
<1> DEFINE N == Cardinality(S)
           A == {n \in 0..N : \A s \in SUBSET S : Cardinality(s) <= n => f[s] = g[s]}
           Pick(s) == CHOOSE y \in s : TRUE
<1>1. N \in Nat
  BY FS_CardinalityType
<1>2. \A s \in SUBSET S : IsFiniteSet(s) /\ Cardinality(s) \in 0..N
  BY <1>1, FS_Subset, FS_CardinalityType
<1>3. f[{}] = g[{}]
  BY DEF Iterates, Sums
<1>4. ASSUME NEW s \in SUBSET S, s # {}, f[s \ {Pick(s)}] = g[s \ {Pick(s)}]
      PROVE  f[s] = g[s]
  <2>1. g[s] = w[Pick(s)] + g[s \ {Pick(s)}]
    BY <1>4 DEF Sums
  <2>2. f[s] = w[Pick(s)] + f[s \ {Pick(s)}]
    BY <1>4 DEF Iterates
  <2> QED
    BY <1>4, <2>1, <2>2
<1>5. \A s : s # {} => Pick(s) \in s
  OBVIOUS
<1> HIDE DEF N, Pick
<1>6. 0 \in A
  <2>1. ASSUME NEW s \in SUBSET S, Cardinality(s) <= 0 PROVE f[s] = g[s]
    <3>1. s = {}
      BY <2>1, <1>2, FS_EmptySet
    <3> QED
      BY <3>1, <1>3
  <2> QED
    BY <1>1, <2>1
<1>7. ASSUME NEW n \in 0..N, n < N, n \in A PROVE n + 1 \in A
  <2>1. ASSUME NEW s \in SUBSET S, Cardinality(s) <= n + 1 PROVE f[s] = g[s]
    <3>1. CASE s = {}
      BY <3>1, <1>3
    <3>2. CASE s # {}
      <4> DEFINE t == s \ {Pick(s)}
      <4>1. Cardinality(t) = Cardinality(s) - 1
        BY <1>2, <1>5, <3>2, FS_RemoveElement
      <4>2. Cardinality(t) <= n /\ t \in SUBSET S
        BY <4>1, <1>1, <1>2, <2>1
      <4>3. f[t] = g[t]
        <5> HIDE DEF t
        <5> QED
          BY <1>7, <4>2
      <4> QED
        BY <1>4, <3>2, <4>3
    <3> QED
      BY <3>1, <3>2
  <2>2. n + 1 \in 0..N
    BY <1>1, <1>7
  <2> QED
    BY <2>1, <2>2
<1> HIDE DEF A
<1>8. N \in A
  <2>1. \A n \in 0..N : n \in A
    BY <1>1, <1>6, <1>7, SetInduction
  <2> QED
    BY <1>1, <2>1
<1>9. ASSUME NEW s \in SUBSET S PROVE f[s] = g[s]
  <2>1. Cardinality(s) <= N
    BY <1>1, <1>2
  <2> QED
    BY <1>8, <2>1 DEF A
<1>10. g \in [SUBSET S -> Nat]
  BY DEF Sums
<1>11. f = [s \in SUBSET S |-> f[s]]
  BY DEF Iterates
<1> QED
  BY <1>9, <1>10, <1>11

\* F does not shrink when an element is added.
Grows(F, B) ==
    F \in [SUBSET B -> Nat] /\ \A X \in SUBSET B : \A x \in B : F[X] <= F[X \cup {x}]

\* Then a part has no more than the whole.
LEMMA GrowsMonotone ==
    ASSUME NEW B, IsFiniteSet(B), NEW F, Grows(F, B), NEW A \in SUBSET B
    PROVE  F[A] <= F[B]
<1> DEFINE N == Cardinality(B)
           T == {n \in 0..N : \A X \in SUBSET B : Cardinality(X) <= n => F[A] <= F[A \cup X]}
<1>1. N \in Nat
  BY FS_CardinalityType
<1>2. \A s \in SUBSET B : IsFiniteSet(s) /\ Cardinality(s) \in 0..N
  BY <1>1, FS_Subset, FS_CardinalityType
<1>3. \A X \in SUBSET B : F[X] \in Nat
  BY DEF Grows
<1> HIDE DEF N
<1>4. 0 \in T
  <2>1. ASSUME NEW X \in SUBSET B, Cardinality(X) <= 0 PROVE F[A] <= F[A \cup X]
    <3>1. X = {}
      BY <2>1, <1>2, FS_EmptySet
    <3>2. F[A \cup X] = F[A] /\ F[A] \in Nat
      BY <1>3, <3>1
    <3> QED
      BY <3>2
  <2> QED
    BY <1>1, <2>1
<1>5. ASSUME NEW n \in 0..N, n < N, n \in T PROVE n + 1 \in T
  <2>1. ASSUME NEW X \in SUBSET B, Cardinality(X) <= n + 1 PROVE F[A] <= F[A \cup X]
    <3>1. CASE X = {}
      <4>1. F[A \cup X] = F[A] /\ F[A] \in Nat
        BY <1>3, <3>1
      <4> QED
        BY <4>1
    <3>2. CASE X # {}
      <4>1. PICK x \in X : TRUE
        BY <3>2
      <4> DEFINE Y == X \ {x}
      <4>2. Cardinality(Y) = Cardinality(X) - 1
        BY <1>2, FS_RemoveElement
      <4>3. Cardinality(Y) <= n /\ Y \in SUBSET B
        BY <4>2, <1>1, <1>2, <2>1
      <4>4. A \cup X = (A \cup Y) \cup {x} /\ A \cup Y \in SUBSET B /\ A \cup X \in SUBSET B
        OBVIOUS
      <4> HIDE DEF Y
      <4>5. F[A] <= F[A \cup Y]
        BY <1>5, <4>3
      <4>6. F[A \cup Y] <= F[A \cup X]
        BY <4>4 DEF Grows
      <4> QED
        BY <1>3, <4>4, <4>5, <4>6
    <3> QED
      BY <3>1, <3>2
  <2>2. n + 1 \in 0..N
    BY <1>1, <1>5
  <2> QED
    BY <2>1, <2>2
<1> HIDE DEF T
<1>6. N \in T
  <2>1. \A n \in 0..N : n \in T
    BY <1>1, <1>4, <1>5, SetInduction
  <2> QED
    BY <1>1, <2>1
<1>7. B \in SUBSET B /\ Cardinality(B) <= N /\ A \cup B = B
  BY <1>1 DEF N
<1> QED
  BY <1>6, <1>7 DEF T
=============================================================================
