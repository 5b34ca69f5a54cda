--------------------------- MODULE InductionFacts ---------------------------
(***************************************************************************)
(* Induction over the natural numbers and over finite trees, stated with   *)
(* sets in place of predicates, and the existence of the functions that    *)
(* are defined by recursion over them.                                     *)
(***************************************************************************)
EXTENDS Integers, FiniteSetTheorems, TLAPS

\* A set of natural numbers has a least element: the intervals up to its
\* elements are finite sets, which strict inclusion orders well.
LEMMA LeastNat ==
    ASSUME NEW T, T \subseteq Nat, T # {}
    PROVE  \E m \in T : \A k \in T : m <= k
<1> DEFINE U == {0..k : k \in T}
<1>1. U \subseteq FiniteSubsetsOf(Nat)
  <2>1. ASSUME NEW k \in T PROVE 0..k \subseteq Nat /\ IsFiniteSet(0..k)
    BY FS_Interval
  <2>. QED
    BY <2>1 DEF FiniteSubsetsOf
<1>2. U # {}
  OBVIOUS
<1>3. PICK u \in U : \A v \in U : <<v, u>> \notin StrictSubsetOrdering(Nat)
  <2>. HIDE DEF U
  <2>. QED
    BY <1>1, <1>2, FS_StrictSubsetOrderingWellFounded, WFMin
<1>4. PICK m \in T : u = 0..m
  OBVIOUS
<1>5. ASSUME NEW k \in T, k < m PROVE FALSE
  <2>1. 0..k \subseteq 0..m /\ 0..k # 0..m
    BY <1>5
  <2>2. <<0..k, 0..m>> \in StrictSubsetOrdering(Nat)
    BY <2>1 DEF StrictSubsetOrdering
  <2>. QED
    BY <1>3, <1>4, <2>2
<1>. QED
  BY <1>5

\* Induction: a set with 0 and the successors of its numbers has them all.
LEMMA NatSetInduction ==
    ASSUME NEW S, 0 \in S, \A n \in Nat : n \in S => n + 1 \in S
    PROVE  \A n \in Nat : n \in S
<1> DEFINE T == Nat \ S
<1>1. SUFFICES ASSUME T # {} PROVE FALSE
  OBVIOUS
<1>2. PICK m \in T : \A k \in T : m <= k
  <2>. HIDE DEF T
  <2>1. T \subseteq Nat
    BY DEF T
  <2>. QED
    BY <1>1, <2>1, LeastNat
<1>3. m \in Nat /\ m \notin S /\ m # 0
  OBVIOUS
<1>4. m - 1 \in Nat /\ m - 1 \in S
  BY <1>2, <1>3
<1>5. (m - 1) + 1 \in S
  BY <1>4
<1>. QED
  BY <1>3, <1>5

\* g[0] is first, and step[n] takes g[n] to g[n + 1].
Iterates(g, first, step) ==
    g[0] = first /\ \A n \in Nat : g[n + 1] = step[n][g[n]]

\* A function on the natural numbers can be defined by its value at 0 and
\* the step from the value at n to the one at n + 1.
LEMMA RecursionOnNat ==
    ASSUME NEW V, NEW first \in V, NEW step \in [Nat -> [V -> V]]
    PROVE  \E g \in [Nat -> V] : Iterates(g, first, step)
<1> DEFINE Upto(n) ==
              {h \in [0..n -> V] :
                  /\ h[0] = first
                  /\ \A k \in 0..(n - 1) : h[k + 1] = step[k][h[k]]}
<1>1. \A n \in Nat : Upto(n) # {}
  <2> DEFINE S == {n \in Nat : Upto(n) # {}}
  <2>1. 0 \in S
    <3>1. [k \in 0..0 |-> first] \in Upto(0)
      OBVIOUS
    <3>. QED
      BY <3>1
  <2>2. ASSUME NEW n \in Nat, n \in S PROVE n + 1 \in S
    <3>1. PICK h : h \in Upto(n)
      BY <2>2
    <3>2. h \in [0..n -> V] /\ h[0] = first
          /\ \A k \in 0..(n - 1) : h[k + 1] = step[k][h[k]]
      BY <3>1
    <3> DEFINE h2 == [k \in 0..(n + 1) |->
                        IF k = n + 1 THEN step[n][h[n]] ELSE h[k]]
    <3>3. h[n] \in V /\ step[n][h[n]] \in V
      BY <3>2
    <3>4. h2 \in [0..(n + 1) -> V]
      BY <3>2, <3>3
    <3>5. h2[0] = first
      BY <3>2
    <3>6. ASSUME NEW k \in 0..n PROVE h2[k + 1] = step[k][h2[k]]
      <4>1. CASE k = n
        BY <4>1
      <4>2. CASE k # n
        BY <4>2, <3>2
      <4>. QED
        BY <4>1, <4>2
    <3>7. h2 \in Upto(n + 1)
      <4>1. (n + 1) - 1 = n
        OBVIOUS
      <4>. HIDE DEF h2
      <4>2. \A k \in 0..((n + 1) - 1) : h2[k + 1] = step[k][h2[k]]
        BY <3>6, <4>1
      <4>. QED
        BY <3>4, <3>5, <4>2
    <3>. HIDE DEF Upto, h2
    <3>. QED
      BY <3>7
  <2>. QED
    <3>. HIDE DEF S
    <3>1. \A n \in Nat : n \in S
      BY <2>1, <2>2, NatSetInduction
    <3>. QED
      BY <3>1 DEF S
<1>2. ASSUME NEW m \in Nat, NEW n \in Nat, NEW h1 \in Upto(m),
             NEW h2 \in Upto(n)
      PROVE  \A k \in Nat : k <= m /\ k <= n => h1[k] = h2[k]
  <2> DEFINE S == {k \in Nat : k <= m /\ k <= n => h1[k] = h2[k]}
  <2>1. 0 \in S
    OBVIOUS
  <2>2. ASSUME NEW k \in Nat, k \in S PROVE k + 1 \in S
    <3>1. SUFFICES ASSUME k + 1 <= m, k + 1 <= n
                   PROVE  h1[k + 1] = h2[k + 1]
      OBVIOUS
    <3>2. k \in 0..(m - 1) /\ k \in 0..(n - 1) /\ h1[k] = h2[k]
      BY <2>2, <3>1
    <3>. QED
      BY <3>2
  <2>. HIDE DEF S
  <2>3. \A k \in Nat : k \in S
    BY <2>1, <2>2, NatSetInduction
  <2>. QED
    BY <2>3 DEF S
<1> DEFINE g == [n \in Nat |-> (CHOOSE h : h \in Upto(n))[n]]
<1>3. ASSUME NEW n \in Nat, NEW h \in Upto(n)
      PROVE  \A k \in 0..n : g[k] = h[k]
  <2>1. ASSUME NEW k \in 0..n PROVE g[k] = h[k]
    <3>. HIDE DEF Upto
    <3>0. k \in Nat /\ k <= n
      OBVIOUS
    <3>1. PICK h1 : h1 = CHOOSE x : x \in Upto(k)
      OBVIOUS
    <3>2. h1 \in Upto(k)
      BY <1>1, <3>0, <3>1
    <3>3. h1[k] = h[k]
      BY <1>2, <3>0, <3>2
    <3>4. g[k] = h1[k]
      BY <3>0, <3>1
    <3>. QED
      BY <3>3, <3>4
  <2>. QED
    BY <2>1
<1>4. ASSUME NEW n \in Nat
      PROVE  g[n] \in V /\ g[0] = first /\ g[n + 1] = step[n][g[n]]
  <2>1. PICK h : h \in Upto(n + 1)
    <3>. HIDE DEF Upto
    <3>1. n + 1 \in Nat
      OBVIOUS
    <3>. QED
      BY <1>1, <3>1
  <2>2. \A k \in 0..(n + 1) : g[k] = h[k]
    <3>. HIDE DEF Upto, g
    <3>1. n + 1 \in Nat
      OBVIOUS
    <3>. QED
      BY <2>1, <1>3, <3>1
  <2>3. h \in [0..(n + 1) -> V] /\ h[0] = first
        /\ h[n + 1] = step[n][h[n]]
    BY <2>1
  <2>. HIDE DEF g, Upto
  <2>. QED
    BY <2>2, <2>3
<1>5. g \in [Nat -> V]
  BY <1>4
<1>. HIDE DEF g
<1>. QED
  BY <1>4, <1>5 DEF Iterates

\* body[f] at an element of S depends on f at the lower elements only.
LooksBelow(body, S, V, height) ==
    \A f, g \in [S -> V] : \A c \in S :
       (\A d \in S : height[d] < height[c] => f[d] = g[d])
          => body[f][c] = body[g][c]

Fixpoint(g, body) == g = body[g]

\* A function on a set whose elements have a height exists when its value at
\* an element is determined, by body, from the values at the lower ones.
LEMMA RecursionOnHeight ==
    ASSUME NEW S, NEW height \in [S -> Nat],
           NEW V, NEW v \in V, NEW body \in [[S -> V] -> [S -> V]],
           LooksBelow(body, S, V, height)
    PROVE  \E g \in [S -> V] : Fixpoint(g, body)
<1> DEFINE F == [S -> V]
<1>1. PICK first \in F : first = [c \in S |-> v]
  OBVIOUS
<1>2. PICK it : /\ it \in [Nat -> F]
                /\ \A n \in Nat : it[n + 1] = body[it[n]]
  <2> DEFINE step == [n \in Nat |-> body]
  <2>1. step \in [Nat -> [F -> F]]
    OBVIOUS
  <2>2. \A n \in Nat : step[n] = body
    OBVIOUS
  <2>3. first \in F
    BY <1>1
  <2>. HIDE DEF step, F
  <2>4. \E g \in [Nat -> F] : Iterates(g, first, step)
    BY <2>1, <2>3, RecursionOnNat
  <2>. QED
    BY <2>2, <2>4 DEF Iterates
<1>3. \A n \in Nat : it[n] \in F
  BY <1>2
<1>4. \A n \in Nat : \A c \in S :
         height[c] < n => it[n + 1][c] = it[n][c]
  <2> DEFINE T == {n \in Nat : \A c \in S :
                      height[c] < n => it[n + 1][c] = it[n][c]}
  <2>1. 0 \in T
    OBVIOUS
  <2>2. ASSUME NEW n \in Nat, n \in T PROVE n + 1 \in T
    <3>1. ASSUME NEW c \in S, height[c] < n + 1
          PROVE  it[(n + 1) + 1][c] = it[n + 1][c]
      <4>1. ASSUME NEW d \in S, height[d] < height[c]
            PROVE  it[n + 1][d] = it[n][d]
        <5>1. height[d] < n
          BY <3>1, <4>1
        <5>. QED
          BY <2>2, <5>1
      <4>2. body[it[n + 1]][c] = body[it[n]][c]
        BY <1>3, <4>1 DEF LooksBelow
      <4>3. it[n + 1] = body[it[n]] /\ it[(n + 1) + 1] = body[it[n + 1]]
        BY <1>2
      <4>. QED
        BY <4>2, <4>3
    <3>. QED
      BY <3>1
  <2>. HIDE DEF T
  <2>3. \A n \in Nat : n \in T
    BY <2>1, <2>2, NatSetInduction
  <2>. QED
    BY <2>3 DEF T
<1>5. ASSUME NEW c \in S, NEW m \in Nat, height[c] < m
      PROVE  it[m][c] = it[height[c] + 1][c]
  <2> DEFINE T == {k \in Nat :
                      it[height[c] + 1 + k][c] = it[height[c] + 1][c]}
  <2>1. 0 \in T
    OBVIOUS
  <2>2. ASSUME NEW k \in Nat, k \in T PROVE k + 1 \in T
    <3>1. height[c] + 1 + k \in Nat /\ height[c] < height[c] + 1 + k
      OBVIOUS
    <3>2. it[(height[c] + 1 + k) + 1][c] = it[height[c] + 1 + k][c]
      BY <1>4, <3>1
    <3>3. (height[c] + 1 + k) + 1 = height[c] + 1 + (k + 1)
      <4>1. height[c] \in Nat
        OBVIOUS
      <4>. QED
        BY <4>1
    <3>. QED
      BY <2>2, <3>2, <3>3
  <2>3. \A k \in Nat : k \in T
    <3>. HIDE DEF T
    <3>. QED
      BY <2>1, <2>2, NatSetInduction
  <2>4. m - (height[c] + 1) \in Nat
    BY <1>5
  <2>5. height[c] + 1 + (m - (height[c] + 1)) = m
    BY <1>5
  <2>. QED
    BY <2>3, <2>4, <2>5
<1> DEFINE g == [c \in S |-> it[height[c] + 1][c]]
<1>6. g \in F
  BY <1>3
<1>7. ASSUME NEW c \in S PROVE g[c] = body[g][c]
  <2> DEFINE m == height[c] + 1
  <2>1. m \in Nat /\ it[m] \in F /\ it[m + 1] = body[it[m]]
    BY <1>2, <1>3
  <2>2. ASSUME NEW d \in S, height[d] < height[c]
        PROVE  it[m][d] = g[d]
    <3>1. height[d] < m
      BY <2>2
    <3>. QED
      BY <1>5, <2>1, <3>1
  <2>3. body[it[m]][c] = body[g][c]
    <3>. HIDE DEF g, m
    <3>. QED
      BY <1>6, <2>1, <2>2 DEF LooksBelow
  <2>4. it[m + 1][c] = it[m][c]
    BY <1>4, <2>1
  <2>. QED
    BY <2>1, <2>3, <2>4
<1>8. body[g] \in F
  BY <1>6
<1>9. g = body[g]
  <2>. HIDE DEF g
  <2>. QED
    BY <1>6, <1>7, <1>8
<1>. QED
  BY <1>6, <1>9 DEF Fixpoint

=============================================================================
