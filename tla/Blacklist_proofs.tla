-------------------------- MODULE Blacklist_proofs --------------------------
(***************************************************************************)
(* Theorems about Blacklist, for any addresses, connections and any        *)
(* configuration.                                                          *)
(*                                                                         *)
(* The list is a sequence without repetitions, with what was used last at  *)
(* its front (ListInv); a block is never longer than the one the strikes   *)
(* of its address call for (EntryInv), so that the next strike can only    *)
(* prolong it.                                                             *)
(***************************************************************************)
EXTENDS Blacklist, InductionFacts

\* The elements of a sequence.
Elements(list) == {list[i] : i \in DOMAIN list}

\* No element comes twice.
Distinct(list) ==
    \A i, j \in DOMAIN list : list[i] = list[j] => i = j

\* The list files an address once, and what was used last in front.
ListInv ==
    /\ Distinct(order)
    /\ last \in Tracked => order[1] = last

\* An address without strikes has nothing else; a block is at most the one
\* its last strike called for.
EntryInv ==
    \A a \in Addrs :
        /\ strikes[a] = 0 => quiet[a] = 0 /\ block[a] = -1
        /\ block[a] >= 0 =>
              /\ strikes[a] > FreeStrikes
              /\ block[a] <= scaledDuration(strikes[a] - FreeStrikes - 1)

\* A connection that was let in has an address.
SessInv == \A c \in Conns : stage[c] # "none" => peer[c] \in Addrs

IInv ==
    /\ TypeOK
    /\ ListInv
    /\ EntryInv
    /\ SessInv

-----------------------------------------------------------------------------
(* Durations *)

\* What is assumed of the configuration, in the form the provers use.
LEMMA ConfigFacts ==
    /\ FreeStrikes \in Nat /\ FreeStrikes >= 1
    /\ InitialBlock \in Nat /\ InitialBlock >= 1
    /\ Multiplier \in Nat /\ Multiplier >= 1
    /\ MaxBlock \in Nat /\ MaxBlock >= 1
    /\ InstantErrorThreshold \in Nat /\ InstantErrorThreshold >= 1
    /\ StrikeResetAfter \in Nat /\ StrikeResetAfter >= 1
    /\ MaxTrackedAddrs \in Nat /\ MaxTrackedAddrs >= 1
    /\ MaxStrikes \in Nat /\ MaxStrikes > FreeStrikes
    /\ IsFiniteSet(Addrs)
    /\ None \notin Addrs
    /\ \A c \in Conns : From[c] \subseteq Addrs
  BY ConfigAssumption, StrikeBoundAssumption

\* A product grows with its second factor.
LEMMA ProductGrows ==
    ASSUME NEW m \in Nat, m >= 1, NEW x \in Nat, NEW y \in Nat, x <= y
    PROVE  /\ m * x \in Nat
           /\ m * x <= m * y
           /\ x <= m * x
<1>1. m * (y - x) >= 0 /\ (m - 1) * x >= 0
  OBVIOUS
<1>2. m * y = m * x + m * (y - x) /\ m * x = (m - 1) * x + x
  OBVIOUS
<1>3. m * x \in Nat /\ m * y \in Nat
  OBVIOUS
<1>. QED
  BY <1>1, <1>2, <1>3

\* Power is what its recursive definition says.
LEMMA PowerDef ==
    /\ Power \in [Nat -> Nat]
    /\ Power[0] = 1
    /\ \A n \in Nat : Power[n + 1] = Multiplier * Power[n]
<1> DEFINE Eq(p) ==
              p = [n \in Nat |-> IF n = 0 THEN 1 ELSE Multiplier * p[n - 1]]
           step == [n \in Nat |-> [x \in Nat |-> Multiplier * x]]
<1>1. step \in [Nat -> [Nat -> Nat]]
  BY ConfigFacts, ProductGrows
<1>2. PICK g \in [Nat -> Nat] :
         g[0] = 1 /\ \A n \in Nat : g[n + 1] = step[n][g[n]]
  <2>. HIDE DEF step
  <2>1. PICK V : V = Nat
    OBVIOUS
  <2>2. 1 \in V /\ step \in [Nat -> [V -> V]]
    BY <1>1, <2>1
  <2>. HIDE DEF step
  <2>3. \E g \in [Nat -> V] : Iterates(g, 1, step)
    BY <2>2, RecursionOnNat
  <2>. QED
    BY <2>1, <2>3 DEF Iterates
<1>3. Eq(g)
  <2>1. ASSUME NEW n \in Nat
        PROVE  g[n] = IF n = 0 THEN 1 ELSE Multiplier * g[n - 1]
    <3>1. CASE n = 0
      BY <3>1, <1>2
    <3>2. CASE n # 0
      <4>1. n - 1 \in Nat /\ (n - 1) + 1 = n
        BY <3>2
      <4>2. g[(n - 1) + 1] = step[n - 1][g[n - 1]] /\ g[n - 1] \in Nat
        BY <4>1, <1>2
      <4>. QED
        BY <3>2, <4>1, <4>2
    <3>. QED
      BY <3>1, <3>2
  <2>. HIDE DEF step
  <2>. QED
    BY <1>2, <2>1
<1>4. Power = CHOOSE p : Eq(p)
  BY DEF Power
<1>5. Eq(Power)
  <2>. HIDE DEF Eq
  <2>. QED
    BY <1>3, <1>4
<1>6. Power[0] = 1 /\ \A n \in Nat : Power[n + 1] = Multiplier * Power[n]
  <2>. HIDE DEF step
  <2>1. ASSUME NEW n \in Nat
        PROVE  Power[n] = IF n = 0 THEN 1 ELSE Multiplier * Power[n - 1]
    BY <1>5
  <2>2. Power[0] = 1
    BY <2>1
  <2>3. ASSUME NEW n \in Nat PROVE Power[n + 1] = Multiplier * Power[n]
    <3>1. n + 1 \in Nat /\ n + 1 # 0 /\ (n + 1) - 1 = n
      OBVIOUS
    <3>. QED
      BY <2>1, <3>1
  <2>. QED
    BY <2>2, <2>3
<1>7. \A n \in Nat : Power[n] \in Nat
  <2> DEFINE S == {n \in Nat : Power[n] \in Nat}
  <2>1. 0 \in S
    BY <1>6
  <2>2. ASSUME NEW n \in Nat, n \in S PROVE n + 1 \in S
    <3>1. Multiplier * Power[n] \in Nat
      BY <2>2, ConfigFacts, ProductGrows
    <3>. QED
      BY <1>6, <3>1
  <2>. HIDE DEF S
  <2>3. \A n \in Nat : n \in S
    BY <2>1, <2>2, NatSetInduction
  <2>. QED
    BY <2>3 DEF S
<1>8. Power \in [Nat -> Nat]
  <2>1. Power = [n \in Nat |-> Power[n]]
    BY <1>5
  <2>. QED
    BY <1>7, <2>1
<1>. QED
  BY <1>6, <1>8

\* Each further strike calls for a block that is at least as long.
LEMMA DurationGrows ==
    ASSUME NEW k \in Nat
    PROVE  /\ scaledDuration(k) \in 1..MaxBlock
           /\ scaledDuration(k) <= scaledDuration(k + 1)
<1>1. \A n \in Nat : Power[n] \in Nat /\ Power[n] >= 1
  <2> DEFINE S == {n \in Nat : Power[n] \in Nat /\ Power[n] >= 1}
  <2>1. 0 \in S
    BY PowerDef
  <2>2. ASSUME NEW n \in Nat, n \in S PROVE n + 1 \in S
    <3>1. Power[n] <= Multiplier * Power[n] /\ Multiplier * Power[n] \in Nat
      BY <2>2, ConfigFacts, ProductGrows
    <3>. QED
      BY <2>2, <3>1, PowerDef
  <2>. HIDE DEF S
  <2>3. \A n \in Nat : n \in S
    BY <2>1, <2>2, NatSetInduction
  <2>. QED
    BY <2>3 DEF S
<1>2. Power[k] \in Nat /\ Power[k] >= 1 /\ Power[k + 1] \in Nat
  BY <1>1
<1>3. Power[k] <= Power[k + 1]
  BY <1>2, ConfigFacts, PowerDef, ProductGrows
<1>4. /\ InitialBlock * Power[k] \in Nat
      /\ InitialBlock * Power[k] <= InitialBlock * Power[k + 1]
      /\ Power[k] <= InitialBlock * Power[k]
      /\ InitialBlock * Power[k + 1] \in Nat
  BY <1>2, <1>3, ConfigFacts, ProductGrows
<1>. DEFINE d == InitialBlock * Power[k]
            e == InitialBlock * Power[k + 1]
<1>5. d \in Nat /\ e \in Nat /\ d <= e /\ d >= 1
  BY <1>2, <1>4
<1>6. /\ scaledDuration(k) = IF d > MaxBlock THEN MaxBlock ELSE d
      /\ scaledDuration(k + 1) = IF e > MaxBlock THEN MaxBlock ELSE e
  BY DEF scaledDuration
<1>. HIDE DEF d, e
<1>. QED
  BY <1>5, <1>6, ConfigFacts

\* The ledger's escalation is the capped power that the code computes.
LEMMA DurationIsLedgers ==
    ASSUME NEW k \in Nat
    PROVE  Ledger!BlockDuration[k] = scaledDuration(k)
<1> DEFINE Cap(d) == IF d > MaxBlock THEN MaxBlock ELSE d
           Eq(f) == f = [n \in Nat |->
                           Cap(IF n = 0 THEN InitialBlock
                               ELSE Multiplier * f[n - 1])]
           g == [n \in Nat |-> scaledDuration(n)]
<1>1. \A n \in Nat : scaledDuration(n) = Cap(InitialBlock * Power[n])
  BY DEF scaledDuration
<1>2. ASSUME NEW n \in Nat
      PROVE  scaledDuration(n + 1) = Cap(Multiplier * scaledDuration(n))
  <2> DEFINE d == InitialBlock * Power[n]
             e == Multiplier * d
  <2>1. Power[n] \in Nat
    BY PowerDef
  <2>2. d \in Nat
    BY <2>1, ConfigFacts, ProductGrows
  <2>3. e = InitialBlock * Power[n + 1]
    BY <2>1, ConfigFacts, PowerDef
  <2>4. scaledDuration(n) = Cap(d) /\ scaledDuration(n + 1) = Cap(e)
    BY <1>1, <2>3
  <2>5. d <= e
    BY <2>2, ConfigFacts, ProductGrows
  <2>6. CASE d <= MaxBlock
    BY <2>2, <2>4, <2>6, ConfigFacts
  <2>7. CASE d > MaxBlock
    <3>1. MaxBlock <= Multiplier * MaxBlock /\ Multiplier * MaxBlock \in Nat
      BY ConfigFacts, ProductGrows
    <3>2. e > MaxBlock /\ e \in Nat
      BY <2>2, <2>5, <2>7, ConfigFacts, ProductGrows
    <3>3. scaledDuration(n) = MaxBlock /\ scaledDuration(n + 1) = MaxBlock
      <4>. HIDE DEF d, e
      <4>. QED
        BY <2>4, <2>7, <3>2
    <3>4. Cap(Multiplier * MaxBlock) = MaxBlock
      <4> DEFINE p == Multiplier * MaxBlock
      <4>1. p \in Nat /\ MaxBlock <= p
        BY <3>1
      <4>. HIDE DEF p
      <4>. QED
        BY <4>1, ConfigFacts
    <3>. QED
      BY <3>3, <3>4
  <2>. QED
    BY <2>2, <2>6, <2>7, ConfigFacts
<1>3. scaledDuration(0) = Cap(InitialBlock)
  BY <1>1, PowerDef, ConfigFacts
<1>4. ASSUME NEW n \in Nat
      PROVE  g[n] = Cap(IF n = 0 THEN InitialBlock ELSE Multiplier * g[n - 1])
  <2>1. CASE n = 0
    BY <1>3, <2>1
  <2>2. CASE n # 0
    <3>1. n - 1 \in Nat /\ (n - 1) + 1 = n
      BY <2>2
    <3>2. scaledDuration((n - 1) + 1)
             = Cap(Multiplier * scaledDuration(n - 1))
      BY <1>2, <3>1
    <3>3. g[n - 1] = scaledDuration(n - 1) /\ g[n] = scaledDuration(n)
      BY <3>1
    <3>. HIDE DEF g, Cap
    <3>. QED
      BY <2>2, <3>1, <3>2, <3>3
  <2>. QED
    BY <2>1, <2>2
<1>5. Eq(g)
  <2>1. g = [n \in Nat |-> g[n]]
    OBVIOUS
  <2>. HIDE DEF g, Cap
  <2>. QED
    BY <1>4, <2>1
<1>6. Ledger!BlockDuration = CHOOSE f : Eq(f)
  BY DEF Ledger!BlockDuration
<1>7. Eq(Ledger!BlockDuration)
  <2>. HIDE DEF Eq, g
  <2>. QED
    BY <1>5, <1>6
<1>8. \A n \in Nat : Ledger!BlockDuration[n] = g[n]
  <2> DEFINE S == {n \in Nat : Ledger!BlockDuration[n] = g[n]}
  <2>1. ASSUME NEW n \in Nat
        PROVE  Ledger!BlockDuration[n]
                  = Cap(IF n = 0 THEN InitialBlock
                        ELSE Multiplier * Ledger!BlockDuration[n - 1])
    <3>. HIDE DEF Cap, g
    <3>. QED
      BY <1>7
  <2>. HIDE DEF g, Cap
  <2>2. 0 \in S
    BY <1>4, <2>1
  <2>3. ASSUME NEW n \in Nat, n \in S PROVE n + 1 \in S
    <3>1. n + 1 \in Nat /\ n + 1 # 0 /\ (n + 1) - 1 = n
      OBVIOUS
    <3>2. /\ g[n + 1] = Cap(Multiplier * g[n])
          /\ Ledger!BlockDuration[n + 1]
                = Cap(Multiplier * Ledger!BlockDuration[n])
      BY <1>4, <2>1, <3>1
    <3>. QED
      BY <2>3, <3>2
  <2>. HIDE DEF S
  <2>4. \A n \in Nat : n \in S
    BY <2>2, <2>3, NatSetInduction
  <2>. QED
    BY <2>4 DEF S
<1>. QED
  BY <1>8

-----------------------------------------------------------------------------
(* The list *)

\* A list without repetitions has as many places as elements.
LEMMA DistinctLength ==
    ASSUME NEW X, NEW list \in Seq(X), Distinct(list)
    PROVE  /\ IsFiniteSet(Elements(list))
           /\ Cardinality(Elements(list)) = Len(list)
<1> DEFINE D == 1..Len(list)
           E == Elements(list)
<1>1. Len(list) \in Nat /\ DOMAIN list = D
  OBVIOUS
<1>2. IsFiniteSet(D) /\ Cardinality(D) = Len(list)
  BY <1>1, FS_Interval
<1>3. list \in [D -> E]
  BY <1>1 DEF Elements
<1>4. list \in Surjection(D, E)
  BY <1>1, <1>3 DEF Surjection, Elements
<1>5. list \in Injection(D, E)
  BY <1>1, <1>3 DEF Injection, IsInjective, Distinct
<1>. HIDE DEF D, E
<1>6. IsFiniteSet(E) /\ Cardinality(E) = Cardinality(D)
  BY <1>2, <1>4, <1>5, FS_Surjection
<1>. QED
  BY <1>2, <1>6 DEF E

\* more is list with x at its end.
Extends(more, list, x) ==
    /\ Elements(more) = Elements(list) \cup {x}
    /\ Distinct(list) /\ x \notin Elements(list) => Distinct(more)
    /\ more # <<>>
    /\ more[1] = IF list = <<>> THEN x ELSE list[1]

\* Append puts one more element at the end of a list.
LEMMA AppendFacts ==
    ASSUME NEW X, NEW list \in Seq(X), NEW x \in X
    PROVE  Extends(Append(list, x), list, x)
<1>. DEFINE more == Append(list, x)
<1>1. /\ Len(list) \in Nat
      /\ DOMAIN list = 1..Len(list)
      /\ DOMAIN more = 1..(Len(list) + 1)
      /\ \A i \in 1..Len(list) : more[i] = list[i]
      /\ more[Len(list) + 1] = x
      /\ more # <<>>
  OBVIOUS
<1>2. IF list = <<>> THEN Len(list) = 0 ELSE 1 \in 1..Len(list)
  OBVIOUS
<1>. HIDE DEF more
<1>3. Elements(more) = Elements(list) \cup {x}
  BY <1>1 DEF Elements
<1>4. Distinct(list) /\ x \notin Elements(list) => Distinct(more)
  BY <1>1 DEF Distinct, Elements
<1>5. more[1] = IF list = <<>> THEN x ELSE list[1]
  BY <1>1, <1>2
<1>. QED
  BY <1>1, <1>3, <1>4, <1>5 DEF Extends, more

\* w[n] is what Without has kept of the first n elements of the list.
Walks(w, list, S) ==
    /\ w[0] = <<>>
    /\ \A n \in 0..(Len(list) - 1) :
          w[n + 1] = IF list[n + 1] \in S THEN w[n]
                     ELSE Append(w[n], list[n + 1])

\* Without walks the list and keeps what is not in S.
LEMMA WithoutDef ==
    ASSUME NEW X, NEW list \in Seq(X), NEW S
    PROVE  \E w \in [Nat -> Seq(X)] :
              Without(list, S) = w[Len(list)] /\ Walks(w, list, S)
<1>0. PICK V : V = Seq(X)
  OBVIOUS
<1> DEFINE L == Len(list)
           step == [n \in Nat |-> [t \in V |->
                      IF n \notin 0..(L - 1) \/ list[n + 1] \in S THEN t
                      ELSE Append(t, list[n + 1])]]
           Eq(f) == f = [n \in 0..L |->
                           IF n = 0 THEN <<>>
                           ELSE IF list[n] \in S THEN f[n - 1]
                           ELSE Append(f[n - 1], list[n])]
<1>1. L \in Nat /\ \A n \in 0..(L - 1) : list[n + 1] \in X
  OBVIOUS
<1>2. <<>> \in V /\ step \in [Nat -> [V -> V]]
  BY <1>0, <1>1
<1>3. PICK w \in [Nat -> V] :
         w[0] = <<>> /\ \A n \in Nat : w[n + 1] = step[n][w[n]]
  <2>. HIDE DEF step
  <2>1. \E g \in [Nat -> V] : Iterates(g, <<>>, step)
    BY <1>2, RecursionOnNat
  <2>. QED
    BY <2>1 DEF Iterates
<1>4. \A n \in 0..(L - 1) :
         w[n + 1] = IF list[n + 1] \in S THEN w[n]
                    ELSE Append(w[n], list[n + 1])
  <2>1. ASSUME NEW n \in 0..(L - 1)
        PROVE  w[n + 1] = IF list[n + 1] \in S THEN w[n]
                          ELSE Append(w[n], list[n + 1])
    <3>1. n \in Nat /\ w[n] \in V /\ w[n + 1] = step[n][w[n]]
      <4>. HIDE DEF step
      <4>1. n \in Nat
        BY <1>1
      <4>. QED
        BY <1>3, <4>1
    <3>. QED
      BY <1>0, <3>1
  <2>. QED
    BY <2>1
<1> DEFINE g == [n \in 0..L |-> w[n]]
<1>5. Eq(g)
  <2>1. ASSUME NEW n \in 0..L
        PROVE  g[n] = IF n = 0 THEN <<>>
                      ELSE IF list[n] \in S THEN g[n - 1]
                      ELSE Append(g[n - 1], list[n])
    <3>1. CASE n = 0
      BY <1>3, <3>1
    <3>2. CASE n # 0
      <4>1. n - 1 \in 0..(L - 1) /\ n - 1 \in 0..L /\ (n - 1) + 1 = n
        BY <1>1, <3>2
      <4>. QED
        BY <1>4, <3>2, <4>1
    <3>. QED
      BY <3>1, <3>2
  <2>2. g = [n \in 0..L |-> g[n]]
    OBVIOUS
  <2>. HIDE DEF g, L
  <2>. QED
    BY <2>1, <2>2
<1>6. \E f : Eq(f)
  <2>. HIDE DEF Eq
  <2>. QED
    BY <1>5
<1>7. PICK f : Eq(f) /\ Without(list, S) = f[L]
  <2>1. Without(list, S) = (CHOOSE f : Eq(f))[L]
    BY DEF Without
  <2>. HIDE DEF Eq, L
  <2>. QED
    BY <1>6, <2>1
<1>8. \A n \in Nat : n <= L => f[n] = w[n]
  <2> DEFINE T == {n \in Nat : n <= L => f[n] = w[n]}
  <2>1. ASSUME NEW n \in 0..L
        PROVE  f[n] = IF n = 0 THEN <<>>
                      ELSE IF list[n] \in S THEN f[n - 1]
                      ELSE Append(f[n - 1], list[n])
    <3>. HIDE DEF L
    <3>. QED
      BY <1>7
  <2>2. 0 \in T
    BY <1>1, <1>3, <2>1
  <2>3. ASSUME NEW n \in Nat, n \in T PROVE n + 1 \in T
    <3>1. SUFFICES ASSUME n + 1 <= L PROVE f[n + 1] = w[n + 1]
      OBVIOUS
    <3>2. /\ n + 1 \in 0..L /\ n \in 0..(L - 1)
          /\ n + 1 # 0 /\ (n + 1) - 1 = n /\ f[n] = w[n]
      BY <1>1, <2>3, <3>1
    <3>. HIDE DEF L
    <3>. QED
      BY <1>4, <2>1, <3>2
  <2>. HIDE DEF T
  <2>4. \A n \in Nat : n \in T
    BY <2>2, <2>3, NatSetInduction
  <2>. QED
    BY <2>4 DEF T
<1>9. Without(list, S) = w[L]
  <2>. HIDE DEF Eq, L
  <2>1. L \in Nat /\ L <= L
    BY <1>1
  <2>. QED
    BY <1>7, <1>8, <2>1
<1>10. Walks(w, list, S)
  <2>. HIDE DEF step
  <2>. QED
    BY <1>3, <1>4 DEF Walks
<1>. QED
  BY <1>0, <1>9, <1>10

\* Without keeps what is not in S, in its order: a first element that is
\* kept stays the first.
LEMMA WithoutFacts ==
    ASSUME NEW X, NEW list \in Seq(X), Distinct(list), NEW S
    PROVE  /\ Without(list, S) \in Seq(X)
           /\ Elements(Without(list, S)) = Elements(list) \ S
           /\ Distinct(Without(list, S))
           /\ list # <<>> /\ list[1] \notin S
                 => Without(list, S) # <<>> /\ Without(list, S)[1] = list[1]
<1> DEFINE L == Len(list)
<1>1. L \in Nat /\ DOMAIN list = 1..L /\ \A i \in 1..L : list[i] \in X
  OBVIOUS
<1>2. PICK w \in [Nat -> Seq(X)] :
         Without(list, S) = w[L] /\ Walks(w, list, S)
  BY WithoutDef
<1> DEFINE Good(n) ==
              /\ Elements(w[n]) = {list[i] : i \in 1..n} \ S
              /\ Distinct(w[n])
              /\ n >= 1 /\ list[1] \notin S
                    => w[n] # <<>> /\ w[n][1] = list[1]
           T == {n \in Nat : n <= L => Good(n)}
<1>3. 0 \in T
  <2>1. Elements(<<>>) = {} /\ Distinct(<<>>)
    BY DEF Elements, Distinct
  <2>2. w[0] = <<>>
    BY <1>2 DEF Walks
  <2>. QED
    BY <2>1, <2>2
<1>4. ASSUME NEW n \in Nat, n \in T PROVE n + 1 \in T
  <2>1. SUFFICES ASSUME n + 1 <= L PROVE Good(n + 1)
    OBVIOUS
  <2>2. Good(n) /\ n \in 0..(L - 1) /\ w[n] \in Seq(X)
    <3>1. n <= L /\ n \in 0..(L - 1)
      BY <1>1, <2>1
    <3>2. Good(n)
      <4>. HIDE DEF Good
      <4>. QED
        BY <1>4, <3>1
    <3>. HIDE DEF Good
    <3>. QED
      BY <1>2, <3>1, <3>2
  <2> DEFINE x == list[n + 1]
             seen == {list[i] : i \in 1..n}
  <2>3. x \in X /\ n + 1 \in 1..L
    BY <1>1, <2>1
  <2>4. w[n + 1] = IF x \in S THEN w[n] ELSE Append(w[n], x)
    BY <1>2, <2>2 DEF Walks
  <2>5. {list[i] : i \in 1..(n + 1)} = seen \cup {x}
    <3>1. \A i \in 1..(n + 1) : i \in 1..n \/ i = n + 1
      OBVIOUS
    <3>2. n + 1 \in 1..(n + 1) /\ 1..n \subseteq 1..(n + 1)
      OBVIOUS
    <3>. QED
      BY <3>1, <3>2
  <2>6. x \notin seen
    <3>1. \A i \in 1..n : i \in DOMAIN list /\ i # n + 1
      BY <1>1, <2>1
    <3>2. n + 1 \in DOMAIN list
      BY <1>1, <2>1
    <3>. QED
      BY <3>1, <3>2 DEF Distinct
  <2>7. n = 0 => x = list[1]
    OBVIOUS
  <2>8. n = 0 => w[n] = <<>>
    BY <1>2 DEF Walks
  <2>9. Elements(w[n]) = seen \ S
    BY <2>2
  <2>. HIDE DEF x, seen, L
  <2>10. CASE x \in S
    <3>1. w[n + 1] = w[n] /\ (seen \cup {x}) \ S = seen \ S
      BY <2>4, <2>10
    <3>2. list[1] \notin S => n >= 1
      BY <2>7, <2>10
    <3>. QED
      BY <2>2, <2>5, <2>9, <3>1, <3>2
  <2>11. CASE x \notin S
    <3>1. w[n + 1] = Append(w[n], x)
      BY <2>4, <2>11
    <3>2. Extends(w[n + 1], w[n], x)
      BY <2>2, <2>3, <3>1, AppendFacts
    <3>3. Elements(w[n + 1]) = {list[i] : i \in 1..(n + 1)} \ S
      BY <2>5, <2>9, <2>11, <3>2 DEF Extends
    <3>4. Distinct(w[n + 1])
      BY <2>2, <2>6, <2>9, <3>2 DEF Extends
    <3>5. ASSUME list[1] \notin S
          PROVE  w[n + 1] # <<>> /\ w[n + 1][1] = list[1]
      <4>1. CASE n = 0
        BY <2>7, <2>8, <3>2, <4>1 DEF Extends
      <4>2. CASE n # 0
        <5>1. n >= 1
          BY <4>2
        <5>2. w[n] # <<>> /\ w[n][1] = list[1]
          BY <2>2, <3>5, <5>1
        <5>. QED
          BY <3>2, <5>2 DEF Extends
      <4>. QED
        BY <4>1, <4>2
    <3>. QED
      BY <3>3, <3>4, <3>5
  <2>. QED
    BY <2>10, <2>11
<1>5. Good(L)
  <2>. HIDE DEF T, Good
  <2>1. \A n \in Nat : n \in T
    BY <1>3, <1>4, NatSetInduction
  <2>2. L \in T /\ L <= L
    BY <1>1, <2>1
  <2>. QED
    BY <2>2 DEF T
<1>6. Elements(list) = {list[i] : i \in 1..L}
  BY <1>1 DEF Elements
<1>7. list # <<>> => L >= 1
  OBVIOUS
<1>8. w[L] \in Seq(X)
  BY <1>1, <1>2
<1>. HIDE DEF L
<1>. QED
  BY <1>2, <1>5, <1>6, <1>7, <1>8

\* An address in front of the others.
LEMMA ToFrontFacts ==
    ASSUME order \in Seq(Addrs), Distinct(order), NEW a \in Addrs
    PROVE  /\ ToFront(a) \in Seq(Addrs)
           /\ Elements(ToFront(a)) = Elements(order) \cup {a}
           /\ Distinct(ToFront(a))
           /\ ToFront(a) # <<>> /\ ToFront(a)[1] = a
<1> DEFINE rest == Without(order, {a})
<1>1. /\ rest \in Seq(Addrs)
      /\ Elements(rest) = Elements(order) \ {a}
      /\ Distinct(rest)
  BY WithoutFacts
<1>2. ToFront(a) = <<a>> \o rest
  BY DEF ToFront
<1>. HIDE DEF rest
<1> DEFINE all == <<a>> \o rest
<1>3. /\ all \in Seq(Addrs)
      /\ Len(rest) \in Nat
      /\ DOMAIN rest = 1..Len(rest)
      /\ Len(all) = Len(rest) + 1
      /\ all[1] = a
  BY <1>1
<1>4. DOMAIN all = 1..(Len(rest) + 1) /\ all # <<>>
  BY <1>3
<1>5. \A i \in 1..Len(rest) : all[i + 1] = rest[i]
  BY <1>1, <1>3
<1>. HIDE DEF all
<1>6. \A i \in DOMAIN all : i = 1 \/ i - 1 \in 1..Len(rest)
  BY <1>3, <1>4
<1>7. \A i \in DOMAIN all : i = 1 \/ all[i] = rest[i - 1]
  BY <1>3, <1>4, <1>5, <1>6
<1>8. Elements(all) = Elements(rest) \cup {a}
  <2>1. Elements(all) \subseteq Elements(rest) \cup {a}
    BY <1>3, <1>6, <1>7 DEF Elements
  <2>2. a \in Elements(all)
    BY <1>3, <1>4 DEF Elements
  <2>3. ASSUME NEW i \in DOMAIN rest PROVE rest[i] \in Elements(all)
    <3>1. i + 1 \in DOMAIN all
      BY <1>3, <1>4
    <3>. QED
      BY <1>3, <1>5, <3>1 DEF Elements
  <2>. QED
    BY <2>1, <2>2, <2>3 DEF Elements
<1>9. a \notin Elements(rest)
  BY <1>1
<1>10. Distinct(all)
  <2>1. ASSUME NEW i \in DOMAIN all, NEW j \in DOMAIN all, all[i] = all[j]
        PROVE  i = j
    <3>1. CASE i = 1 /\ j = 1
      BY <3>1
    <3>2. CASE i # 1 /\ j = 1
      BY <1>3, <1>6, <1>7, <1>9, <2>1, <3>2 DEF Elements
    <3>3. CASE i = 1 /\ j # 1
      BY <1>3, <1>6, <1>7, <1>9, <2>1, <3>3 DEF Elements
    <3>4. CASE i # 1 /\ j # 1
      <4>1. i - 1 = j - 1
        BY <1>1, <1>3, <1>6, <1>7, <2>1, <3>4 DEF Distinct
      <4>. QED
        BY <1>3, <1>4, <4>1
    <3>. QED
      BY <3>1, <3>2, <3>3, <3>4
  <2>. QED
    BY <2>1 DEF Distinct
<1>. QED
  BY <1>1, <1>2, <1>3, <1>4, <1>8, <1>10 DEF all

\* The addresses on the list are its elements; they are as many as places.
LEMMA TrackedFacts ==
    ASSUME order \in Seq(Addrs), Distinct(order)
    PROVE  /\ Tracked = Elements(order)
           /\ Tracked \subseteq Addrs
           /\ IsFiniteSet(Tracked)
           /\ Len(order) = Cardinality(Tracked)
           /\ Len(order) \in Nat
           /\ order # <<>> => /\ order[1] \in Tracked
                              /\ order[Len(order)] \in Tracked
<1>1. Tracked = Elements(order)
  BY DEF Tracked, Elements
<1>2. Tracked \subseteq Addrs
  BY DEF Tracked
<1>3. order # <<>> => 1 \in DOMAIN order /\ Len(order) \in DOMAIN order
  OBVIOUS
<1>4. IsFiniteSet(Tracked) /\ Len(order) = Cardinality(Tracked)
  BY <1>1, DistinctLength
<1>5. order # <<>> => order[1] \in Tracked /\ order[Len(order)] \in Tracked
  BY <1>3 DEF Tracked
<1>6. Len(order) \in Nat
  OBVIOUS
<1>. QED
  BY <1>1, <1>2, <1>4, <1>5, <1>6

\* A use of an address that is on the list moves it to the front.
LEMMA TouchFacts ==
    ASSUME TypeOK, ListInv, NEW a \in Addrs, Touch(a)
    PROVE  /\ order' \in Seq(Addrs)
           /\ Distinct(order')
           /\ Tracked' = Tracked
           /\ Len(order') = Len(order)
           /\ last' = a
           /\ a \in Tracked => order'[1] = a
<1>1. order \in Seq(Addrs) /\ Distinct(order)
  BY DEF TypeOK, ListInv
<1>2. Tracked = Elements(order) /\ Len(order) = Cardinality(Tracked)
  BY <1>1, TrackedFacts
<1>3. last' = a /\ order' = IF a \in Tracked THEN ToFront(a) ELSE order
  BY DEF Touch
<1>4. CASE a \in Tracked
  <2>1. /\ order' \in Seq(Addrs)
        /\ Elements(order') = Elements(order)
        /\ Distinct(order')
        /\ order'[1] = a
    <3>1. order' = ToFront(a) /\ Elements(order) \cup {a} = Elements(order)
      BY <1>2, <1>3, <1>4
    <3>2. /\ ToFront(a) \in Seq(Addrs)
          /\ Elements(ToFront(a)) = Elements(order) \cup {a}
          /\ Distinct(ToFront(a))
          /\ ToFront(a)[1] = a
      BY <1>1, ToFrontFacts
    <3>. QED
      BY <3>1, <3>2
  <2>2. Tracked' = Elements(order') /\ Len(order') = Cardinality(Tracked')
    BY <2>1, TrackedFacts, DistinctLength DEF Tracked, Elements
  <2>. QED
    BY <1>2, <1>3, <2>1, <2>2
<1>5. CASE a \notin Tracked
  BY <1>1, <1>3, <1>5 DEF Tracked
<1>. QED
  BY <1>4, <1>5

\* A strike files its address in front; only a newcomer to a full list
\* evicts, and never itself.
LEMMA StrikeFacts ==
    ASSUME TypeOK, ListInv, NEW a \in Addrs, Strike(a)
    PROVE  /\ order' \in Seq(Addrs)
           /\ Distinct(order')
           /\ Tracked' = (Tracked \cup {a}) \ Evicted(a)
           /\ Evicted(a) \subseteq Tracked
           /\ a \notin Evicted(a)
           /\ Len(order') <= MaxTrackedAddrs
           /\ Len(order') = Cardinality(Tracked')
           /\ last' = a
           /\ order'[1] = a
<1>. DEFINE out == Evicted(a)
            all == ToFront(a)
            after == Without(all, out)
<1>1. order \in Seq(Addrs) /\ Distinct(order)
  BY DEF TypeOK, ListInv
<1>2. /\ Tracked = Elements(order)
      /\ IsFiniteSet(Tracked)
      /\ Len(order) = Cardinality(Tracked)
      /\ Len(order) \in Nat
      /\ Len(order) <= MaxTrackedAddrs
      /\ order # <<>> => order[Len(order)] \in Tracked
  BY <1>1, TrackedFacts DEF TypeOK
<1>3. out \subseteq Tracked /\ a \notin out
  <2>1. Len(order) = MaxTrackedAddrs => order # <<>>
    BY ConfigFacts
  <2>. QED
    BY <1>2, <2>1 DEF Evicted
<1>4. /\ all \in Seq(Addrs)
      /\ Elements(all) = Tracked \cup {a}
      /\ Distinct(all)
      /\ all # <<>> /\ all[1] = a
  BY <1>1, <1>2, ToFrontFacts
<1>5. order' = after /\ last' = a
  BY DEF Strike
<1>. HIDE DEF all, out
<1>6. /\ after \in Seq(Addrs)
      /\ Elements(after) = (Tracked \cup {a}) \ out
      /\ Distinct(after)
      /\ after[1] = a
  <2>1. /\ after \in Seq(Addrs)
        /\ Elements(after) = Elements(all) \ out
        /\ Distinct(after)
        /\ all # <<>> /\ all[1] \notin out => after[1] = all[1]
    BY <1>4, WithoutFacts
  <2>. QED
    BY <1>3, <1>4, <2>1
<1>. HIDE DEF after
<1>7. /\ Tracked' = Elements(after)
      /\ Len(after) = Cardinality(Elements(after))
  BY <1>5, <1>6, DistinctLength DEF Tracked, Elements
<1>8. Len(after) <= MaxTrackedAddrs
  <2>1. CASE a \in Tracked
    <3>1. Elements(after) \subseteq Tracked
      BY <1>6, <2>1
    <3>2. Cardinality(Elements(after)) <= Cardinality(Tracked)
      BY <1>2, <3>1, FS_Subset
    <3>3. Cardinality(Elements(after)) \in Nat
      BY <1>2, <3>1, FS_Subset, FS_CardinalityType
    <3>. QED
      BY <1>2, <1>7, <3>2, <3>3, ConfigFacts
  <2>2. CASE a \notin Tracked /\ Len(order) # MaxTrackedAddrs
    <3>1. out = {}
      BY <2>2 DEF out, Evicted
    <3>2. Elements(after) = Tracked \cup {a}
      BY <1>6, <3>1
    <3>3. Cardinality(Tracked \cup {a}) = Cardinality(Tracked) + 1
      BY <1>2, <2>2, FS_AddElement
    <3>4. Cardinality(Elements(after)) = Cardinality(Tracked) + 1
      BY <3>2, <3>3
    <3>. QED
      BY <1>2, <1>7, <2>2, <3>4, ConfigFacts
  <2>3. CASE a \notin Tracked /\ Len(order) = MaxTrackedAddrs
    <3>1. PICK b \in Tracked : out = {b}
      <4>1. order # <<>>
        BY <2>3, ConfigFacts
      <4>. QED
        BY <1>2, <2>3, <4>1 DEF out, Evicted
    <3>2. Elements(after) = (Tracked \cup {a}) \ {b}
      BY <1>6, <3>1
    <3>3. /\ IsFiniteSet(Tracked \cup {a})
          /\ Cardinality(Tracked \cup {a}) = Cardinality(Tracked) + 1
      BY <1>2, <2>3, FS_AddElement
    <3>4. Cardinality(Elements(after)) = Cardinality(Tracked \cup {a}) - 1
      BY <3>1, <3>2, <3>3, FS_RemoveElement
    <3>. QED
      BY <1>2, <1>7, <2>3, <3>3, <3>4, ConfigFacts
  <2>. QED
    BY <2>1, <2>2, <2>3
<1>. QED
  BY <1>3, <1>5, <1>6, <1>7, <1>8 DEF out

\* The sweep takes the entries that are quiet and not blocked.
LEMMA SweepFacts ==
    ASSUME TypeOK, ListInv, sweepExpired
    PROVE  /\ order' \in Seq(Addrs)
           /\ Distinct(order')
           /\ Tracked' = Tracked \ Swept
           /\ Len(order') <= MaxTrackedAddrs
           /\ Len(order') = Cardinality(Tracked')
           /\ last' = last
           /\ last \in Tracked \ Swept => order'[1] = last
<1>1. order \in Seq(Addrs) /\ Distinct(order)
  BY DEF TypeOK, ListInv
<1>2. /\ Tracked = Elements(order)
      /\ IsFiniteSet(Tracked)
      /\ Len(order) = Cardinality(Tracked)
      /\ Len(order) <= MaxTrackedAddrs
  BY <1>1, TrackedFacts DEF TypeOK
<1>3. order' = Without(order, Swept) /\ last' = last
  BY DEF sweepExpired
<1>4. /\ order' \in Seq(Addrs)
      /\ Elements(order') = Tracked \ Swept
      /\ Distinct(order')
      /\ order # <<>> /\ order[1] \notin Swept => order'[1] = order[1]
  BY <1>1, <1>2, <1>3, WithoutFacts
<1>5. Tracked' = Elements(order') /\ Len(order') = Cardinality(Tracked')
  BY <1>4, DistinctLength DEF Tracked, Elements
<1>6. Len(order') <= MaxTrackedAddrs
  <2>1. Cardinality(Tracked') <= Cardinality(Tracked)
    BY <1>2, <1>4, <1>5, FS_Subset
  <2>2. Cardinality(Tracked') \in Nat /\ Cardinality(Tracked) \in Nat
    BY <1>2, <1>4, <1>5, FS_Subset, FS_CardinalityType
  <2>. QED
    BY <1>2, <1>5, <2>1, <2>2, ConfigFacts
<1>7. last \in Tracked => order # <<>> /\ order[1] = last
  BY DEF ListInv, Tracked
<1>. QED
  BY <1>3, <1>4, <1>5, <1>6, <1>7

-----------------------------------------------------------------------------
(* The invariant *)

\* The blacklist starts empty.
LEMMA InvInit == Init => IInv
<1>. SUFFICES ASSUME Init PROVE IInv
  OBVIOUS
<1>1. order = <<>> /\ Tracked = {} /\ Distinct(order)
  BY DEF Init, Tracked, Distinct
<1>2. order \in Seq(Addrs) /\ Len(order) = 0 /\ Cardinality(Tracked) = 0
  BY <1>1, FS_EmptySet
<1>3. TypeOK
  <2>1. IntervalTypeOK
    BY DEF Init, IntervalInit, IntervalTypeOK
  <2>2. /\ 0 \in 0..MaxStrikes
        /\ 0 \in 0..(StrikeResetAfter + 1)
        /\ -1 \in -1..MaxBlock
        /\ 0 \in 0..InstantErrorThreshold
        /\ 0 <= MaxTrackedAddrs
    BY ConfigFacts
  <2>3. /\ strikes \in [Addrs -> 0..MaxStrikes]
        /\ quiet \in [Addrs -> 0..(StrikeResetAfter + 1)]
        /\ block \in [Addrs -> -1..MaxBlock]
        /\ elapsed \in [Conns -> 0..InstantErrorThreshold]
    BY <2>2 DEF Init
  <2>4. \A a \in Addrs : a \in Tracked <=> strikes[a] > 0
    BY <1>1 DEF Init
  <2>. QED
    BY <1>1, <1>2, <2>1, <2>2, <2>3, <2>4 DEF Init, TypeOK
<1>4. ListInv /\ SessInv
  BY <1>1 DEF Init, ListInv, SessInv
<1>5. EntryInv
  BY ConfigFacts DEF Init, EntryInv
<1>. QED
  BY <1>3, <1>4, <1>5 DEF IInv

\* A lookup moves an address and changes no entry; a connection that is let
\* in has the address that was looked up.
LEMMA LookupKeeps ==
    ASSUME IInv, NEW a \in Addrs, Touch(a),
           UNCHANGED <<entryVars, elapsed, intervalVars>>,
           \/ UNCHANGED <<stage, peer>>
           \/ \E c \in Conns : /\ stage' = [stage EXCEPT ![c] = "admitted"]
                               /\ peer' = [peer EXCEPT ![c] = a]
    PROVE  IInv'
<1>. USE DEF IInv, entryVars, intervalVars
<1>1. /\ order' \in Seq(Addrs)
      /\ Distinct(order')
      /\ Tracked' = Tracked
      /\ Len(order') = Len(order)
      /\ last' = a
      /\ a \in Tracked => order'[1] = a
  BY TouchFacts
<1>2. TypeOK'
  BY <1>1 DEF TypeOK, IntervalTypeOK
<1>3. ListInv'
  BY <1>1 DEF ListInv, Distinct
<1>4. EntryInv'
  BY DEF EntryInv, scaledDuration
<1>5. SessInv'
  BY DEF TypeOK, SessInv
<1>. QED
  BY <1>2, <1>3, <1>4, <1>5

\* What becomes of connections, timers and Close touches no entry.
LEMMA SessionKeeps ==
    ASSUME IInv, UNCHANGED <<order, entryVars, last>>,
           \/ \E c \in Conns : HandshakeFails(c) \/ SessionStart(c)
           \/ \E c \in Conns, used \in BOOLEAN : SessionEnd(c, used)
           \/ SweepTimer \/ Close
           \/ UNCHANGED vars
    PROVE  IInv'
<1>. USE DEF IInv, entryVars, intervalVars
<1>1. TypeOK'
  <2>1. CASE \E c \in Conns : HandshakeFails(c)
    BY <2>1 DEF TypeOK, IntervalTypeOK, HandshakeFails, Tracked
  <2>2. CASE \E c \in Conns : SessionStart(c)
    BY <2>2, ConfigFacts DEF TypeOK, IntervalTypeOK, SessionStart, Tracked
  <2>3. CASE \E c \in Conns, used \in BOOLEAN : SessionEnd(c, used)
    BY <2>3, ConfigFacts DEF TypeOK, IntervalTypeOK, SessionEnd, Tracked
  <2>4. CASE SweepTimer \/ Close
    BY <2>4 DEF TypeOK, IntervalTypeOK, SweepTimer, Close, Fire, Check,
       Rearm, Stop, Tracked, sessVars
  <2>5. CASE UNCHANGED vars
    BY <2>5 DEF TypeOK, IntervalTypeOK, vars, Tracked, sessVars
  <2>. QED
    BY <2>1, <2>2, <2>3, <2>4, <2>5
<1>2. ListInv'
  BY DEF ListInv, Distinct, Tracked
<1>3. EntryInv'
  BY DEF EntryInv, scaledDuration
<1>4. SessInv'
  BY DEF TypeOK, SessInv, HandshakeFails, SessionStart, SessionEnd,
     SweepTimer, Close, vars, sessVars
<1>. QED
  BY <1>1, <1>2, <1>3, <1>4

\* What a strike writes: the line of its address, and blanks for the one
\* that is evicted.
LEMMA StrikeLines ==
    ASSUME IInv, NEW a \in Addrs, Strike(a)
    PROVE  /\ strikes' \in [Addrs -> 0..MaxStrikes]
           /\ quiet' \in [Addrs -> 0..(StrikeResetAfter + 1)]
           /\ block' \in [Addrs -> -1..MaxBlock]
           /\ strikes'[a] = NthStrike(a) /\ NthStrike(a) \in 1..MaxStrikes
           /\ quiet'[a] = 0
           /\ block'[a] = BlockAfter(a, NthStrike(a))
           /\ \A b \in Evicted(a) :
                 strikes'[b] = 0 /\ quiet'[b] = 0 /\ block'[b] = -1
           /\ \A b \in Addrs \ ({a} \cup Evicted(a)) :
                 /\ strikes'[b] = strikes[b]
                 /\ quiet'[b] = quiet[b]
                 /\ block'[b] = block[b]
<1>. USE DEF IInv
<1>. DEFINE n == NthStrike(a)
            out == Evicted(a)
<1>1. /\ strikes \in [Addrs -> 0..MaxStrikes]
      /\ quiet \in [Addrs -> 0..(StrikeResetAfter + 1)]
      /\ block \in [Addrs -> -1..MaxBlock]
  BY DEF TypeOK
<1>2. n \in 1..MaxStrikes
  BY <1>1, ConfigFacts DEF NthStrike
<1>3. BlockAfter(a, n) \in -1..MaxBlock
  <2>1. CASE n > FreeStrikes
    <3>1. n - FreeStrikes - 1 \in Nat
      BY <1>2, <2>1, ConfigFacts
    <3>2. scaledDuration(n - FreeStrikes - 1) \in 1..MaxBlock
      BY <3>1, DurationGrows
    <3>. HIDE DEF n
    <3>. QED
      BY <2>1, <3>2, ConfigFacts DEF BlockAfter
  <2>2. CASE ~(n > FreeStrikes)
    <3>. HIDE DEF n
    <3>. QED
      BY <1>1, <2>2, ConfigFacts DEF BlockAfter
  <2>. QED
    BY <2>1, <2>2
<1>4. a \notin out /\ out \subseteq Addrs
  BY StrikeFacts, TrackedFacts DEF TypeOK, ListInv
<1>5. /\ strikes' = [Forget(out, strikes, 0) EXCEPT ![a] = n]
      /\ quiet' = [Forget(out, quiet, 0) EXCEPT ![a] = 0]
      /\ block' = [Forget(out, block, -1) EXCEPT ![a] = BlockAfter(a, n)]
  BY DEF Strike
<1>. DEFINE m == BlockAfter(a, n)
<1>6. m \in -1..MaxBlock
  BY <1>3
<1>7. block' = [Forget(out, block, -1) EXCEPT ![a] = m]
  BY <1>5
<1>. HIDE DEF n, m, out
<1>8. /\ strikes' \in [Addrs -> 0..MaxStrikes]
      /\ quiet' \in [Addrs -> 0..(StrikeResetAfter + 1)]
      /\ block' \in [Addrs -> -1..MaxBlock]
  BY <1>1, <1>2, <1>5, <1>6, <1>7, ConfigFacts DEF Forget
<1>9. strikes'[a] = n /\ quiet'[a] = 0 /\ block'[a] = m
  BY <1>5, <1>7 DEF Forget
<1>10. \A b \in out : strikes'[b] = 0 /\ quiet'[b] = 0 /\ block'[b] = -1
  BY <1>4, <1>5, <1>7 DEF Forget
<1>11. \A b \in Addrs \ ({a} \cup out) :
          /\ strikes'[b] = strikes[b]
          /\ quiet'[b] = quiet[b]
          /\ block'[b] = block[b]
  BY <1>1, <1>5, <1>7 DEF Forget
<1>. QED
  BY <1>2, <1>8, <1>9, <1>10, <1>11 DEF n, m, out

\* A strike lengthens the block of its address, unless it has decayed.
LEMMA StrikeProlongs ==
    ASSUME IInv, NEW a \in Addrs
    PROVE  LET n == NthStrike(a)
           IN  /\ Decayed(a) => n = 1 /\ BlockAfter(a, n) = -1
               /\ ~Decayed(a) => block[a] <= BlockAfter(a, n)
               /\ ~Decayed(a) /\ n <= FreeStrikes => BlockAfter(a, n) = -1
               /\ BlockAfter(a, n) >= 0 =>
                     /\ n > FreeStrikes
                     /\ BlockAfter(a, n) = scaledDuration(n - FreeStrikes - 1)
<1>. USE DEF IInv
<1>. DEFINE n == NthStrike(a)
<1>1. /\ strikes[a] \in 0..MaxStrikes
      /\ block[a] \in -1..MaxBlock
      /\ block[a] >= 0 =>
            /\ strikes[a] > FreeStrikes
            /\ block[a] <= scaledDuration(strikes[a] - FreeStrikes - 1)
  BY DEF TypeOK, EntryInv
<1>2. CASE Decayed(a)
  <2>1. n = 1
    BY <1>2 DEF NthStrike
  <2>. HIDE DEF n
  <2>2. ~(n > FreeStrikes) /\ BlockAfter(a, n) = -1
    BY <1>2, <2>1, ConfigFacts DEF BlockAfter
  <2>. QED
    BY <1>2, <2>1, <2>2 DEF n
<1>3. CASE ~Decayed(a)
  <2>1. n = IF strikes[a] = MaxStrikes THEN MaxStrikes ELSE strikes[a] + 1
    BY <1>3 DEF NthStrike
  <2>. HIDE DEF n
  <2>2. n \in Nat /\ n >= strikes[a]
    BY <1>1, <2>1, ConfigFacts
  <2>3. CASE n > FreeStrikes
    <3>1. BlockAfter(a, n) = scaledDuration(n - FreeStrikes - 1)
      BY <2>3 DEF BlockAfter
    <3>2. n - FreeStrikes - 1 \in Nat
      BY <2>2, <2>3, ConfigFacts
    <3>3. scaledDuration(n - FreeStrikes - 1) \in 1..MaxBlock
      BY <3>2, DurationGrows
    <3>4. block[a] <= BlockAfter(a, n)
      <4>1. CASE block[a] < 0
        BY <1>1, <3>1, <3>3, <4>1, ConfigFacts
      <4>2. CASE block[a] >= 0
        <5> DEFINE k == strikes[a] - FreeStrikes - 1
        <5>1. k \in Nat /\ block[a] <= scaledDuration(k)
          BY <1>1, <4>2, ConfigFacts
        <5>2. n - FreeStrikes - 1 \in {k, k + 1}
          BY <1>1, <2>1, ConfigFacts
        <5>. HIDE DEF k
        <5>3. /\ scaledDuration(k) \in 1..MaxBlock
              /\ scaledDuration(k) <= scaledDuration(k + 1)
          BY <5>1, DurationGrows
        <5>4. scaledDuration(k + 1) \in 1..MaxBlock
          BY <5>1, DurationGrows
        <5>. QED
          BY <1>1, <3>1, <5>1, <5>2, <5>3, <5>4, ConfigFacts
      <4>. QED
        BY <1>1, <4>1, <4>2
    <3>. QED
      BY <1>3, <2>2, <2>3, <3>1, <3>4, ConfigFacts DEF n
  <2>4. CASE ~(n > FreeStrikes)
    <3>1. BlockAfter(a, n) = block[a]
      BY <1>3, <2>4 DEF BlockAfter
    <3>2. block[a] = -1
      BY <1>1, <2>2, <2>4, ConfigFacts
    <3>. QED
      BY <1>3, <2>2, <2>4, <3>1, <3>2, ConfigFacts DEF n
  <2>. QED
    BY <2>3, <2>4
<1>. QED
  BY <1>2, <1>3

\* A session ends with a strike.
LEMMA StrikeKeeps ==
    ASSUME IInv, NEW c \in Conns, NEW used \in BOOLEAN,
           SessionEnd(c, used), Strike(peer[c])
    PROVE  IInv'
<1> DEFINE a == peer[c]
<1>1. a \in Addrs
  BY DEF IInv, SessInv, SessionEnd
<1>. HIDE DEF a
<1>2. Strike(a)
  BY DEF a
<1>3. TypeOK /\ ListInv
  BY DEF IInv
<1>4. /\ order' \in Seq(Addrs)
      /\ Distinct(order')
      /\ Tracked' = (Tracked \cup {a}) \ Evicted(a)
      /\ Evicted(a) \subseteq Tracked
      /\ a \notin Evicted(a)
      /\ Len(order') <= MaxTrackedAddrs
      /\ Len(order') = Cardinality(Tracked')
      /\ last' = a
      /\ order'[1] = a
  BY <1>1, <1>2, <1>3, StrikeFacts
<1>5. /\ strikes' \in [Addrs -> 0..MaxStrikes]
      /\ quiet' \in [Addrs -> 0..(StrikeResetAfter + 1)]
      /\ block' \in [Addrs -> -1..MaxBlock]
      /\ strikes'[a] = NthStrike(a) /\ NthStrike(a) \in 1..MaxStrikes
      /\ quiet'[a] = 0
      /\ block'[a] = BlockAfter(a, NthStrike(a))
      /\ \A b \in Evicted(a) :
            strikes'[b] = 0 /\ quiet'[b] = 0 /\ block'[b] = -1
      /\ \A b \in Addrs \ ({a} \cup Evicted(a)) :
            /\ strikes'[b] = strikes[b]
            /\ quiet'[b] = quiet[b]
            /\ block'[b] = block[b]
  BY <1>1, <1>2, StrikeLines
<1>6. TypeOK'
  <2>1. \A b \in Addrs : b \in Tracked' <=> strikes'[b] > 0
    <3>1. ASSUME NEW b \in Addrs PROVE b \in Tracked' <=> strikes'[b] > 0
      <4>1. CASE b = a
        BY <1>4, <1>5, <4>1
      <4>2. CASE b \in Evicted(a)
        BY <1>4, <1>5, <4>2
      <4>3. CASE b \notin {a} \cup Evicted(a)
        BY <1>3, <1>4, <1>5, <4>3 DEF TypeOK
      <4>. QED
        BY <4>1, <4>2, <4>3
    <3>. QED
      BY <3>1
  <2>2. /\ stage' \in [Conns -> {"none", "admitted", "session"}]
        /\ peer' \in [Conns -> Addrs \cup {None}]
        /\ elapsed' \in [Conns -> 0..InstantErrorThreshold]
        /\ IntervalTypeOK'
    BY <1>3, ConfigFacts DEF TypeOK, SessionEnd, intervalVars, IntervalTypeOK
  <2>. QED
    BY <1>1, <1>4, <1>5, <2>1, <2>2 DEF TypeOK
<1>7. ListInv'
  BY <1>4 DEF ListInv
<1>8. EntryInv'
  <2> DEFINE n == NthStrike(a)
  <2>1. BlockAfter(a, n) >= 0 =>
           /\ n > FreeStrikes
           /\ BlockAfter(a, n) = scaledDuration(n - FreeStrikes - 1)
    BY <1>1, StrikeProlongs
  <2>2. ASSUME NEW b \in Addrs
        PROVE  /\ strikes'[b] = 0 => quiet'[b] = 0 /\ block'[b] = -1
               /\ block'[b] >= 0 =>
                     /\ strikes'[b] > FreeStrikes
                     /\ block'[b] <= scaledDuration(strikes'[b]
                                                       - FreeStrikes - 1)
    <3>1. CASE b = a
      <4>1. block'[a] \in -1..MaxBlock
        BY <1>1, <1>5
      <4>2. strikes'[a] = n /\ n \in 1..MaxStrikes
            /\ block'[a] = BlockAfter(a, n)
        BY <1>5
      <4>. HIDE DEF n
      <4>. QED
        BY <2>1, <3>1, <4>1, <4>2, ConfigFacts
    <3>2. CASE b \in Evicted(a)
      BY <1>5, <3>2
    <3>3. CASE b \notin {a} \cup Evicted(a)
      BY <1>5, <3>3 DEF IInv, EntryInv
    <3>. QED
      BY <3>1, <3>2, <3>3
  <2>. QED
    BY <2>2 DEF EntryInv, scaledDuration
<1>9. SessInv'
  BY <1>3 DEF IInv, TypeOK, SessInv, SessionEnd
<1>. QED
  BY <1>6, <1>7, <1>8, <1>9 DEF IInv

\* The sweep forgets entries and shortens no block.
LEMMA SweepKeeps ==
    ASSUME IInv, sweepExpired
    PROVE  IInv'
<1>1. TypeOK /\ ListInv
  BY DEF IInv
<1>2. /\ order' \in Seq(Addrs)
      /\ Distinct(order')
      /\ Tracked' = Tracked \ Swept
      /\ Len(order') <= MaxTrackedAddrs
      /\ Len(order') = Cardinality(Tracked')
      /\ last' = last
      /\ last \in Tracked \ Swept => order'[1] = last
  BY <1>1, SweepFacts
<1>3. /\ strikes' = Forget(Swept, strikes, 0)
      /\ quiet' = Forget(Swept, quiet, 0)
      /\ block' = Forget(Swept, block, -1)
  BY DEF sweepExpired
<1>4. /\ strikes' \in [Addrs -> 0..MaxStrikes]
      /\ quiet' \in [Addrs -> 0..(StrikeResetAfter + 1)]
      /\ block' \in [Addrs -> -1..MaxBlock]
  BY <1>1, <1>3, ConfigFacts DEF TypeOK, Forget
<1>5. \A a \in Addrs :
         IF a \in Swept
         THEN strikes'[a] = 0 /\ quiet'[a] = 0 /\ block'[a] = -1
         ELSE /\ strikes'[a] = strikes[a]
              /\ quiet'[a] = quiet[a]
              /\ block'[a] = block[a]
  BY <1>3 DEF Forget
<1>6. TypeOK'
  <2>1. \A a \in Addrs : a \in Tracked' <=> strikes'[a] > 0
    BY <1>1, <1>2, <1>5 DEF TypeOK
  <2>2. /\ stage' \in [Conns -> {"none", "admitted", "session"}]
        /\ peer' \in [Conns -> Addrs \cup {None}]
        /\ elapsed' \in [Conns -> 0..InstantErrorThreshold]
        /\ last' \in Addrs \cup {None}
    BY <1>1 DEF TypeOK, sweepExpired, sessVars
  <2>3. IntervalTypeOK'
    BY <1>1 DEF TypeOK, sweepExpired, Call, IntervalTypeOK
  <2>. QED
    BY <1>2, <1>4, <2>1, <2>2, <2>3 DEF TypeOK
<1>7. ListInv'
  BY <1>2 DEF ListInv
<1>8. EntryInv'
  BY <1>5 DEF IInv, EntryInv, scaledDuration
<1>9. SessInv'
  BY DEF IInv, SessInv, sweepExpired, sessVars
<1>. QED
  BY <1>6, <1>7, <1>8, <1>9 DEF IInv

\* Time shortens blocks.
LEMMA TickKeeps ==
    ASSUME IInv, Tick
    PROVE  IInv'
<1>1. TypeOK /\ ListInv /\ EntryInv /\ SessInv
  BY DEF IInv
<1>2. Tracked' = Tracked
  BY DEF Tick, Tracked
<1>3. /\ quiet' \in [Addrs -> 0..(StrikeResetAfter + 1)]
      /\ \A a \in Addrs : a \notin Tracked => quiet'[a] = quiet[a]
  BY <1>1, ConfigFacts DEF TypeOK, Tick
<1>4. /\ block' \in [Addrs -> -1..MaxBlock]
      /\ \A a \in Addrs : block[a] = -1 => block'[a] = -1
      /\ \A a \in Addrs : block'[a] >= 0 =>
            block[a] >= 0 /\ block'[a] <= block[a]
  BY <1>1, ConfigFacts DEF TypeOK, Tick
<1>5. elapsed' \in [Conns -> 0..InstantErrorThreshold]
  BY <1>1, ConfigFacts DEF TypeOK, Tick
<1>6. TypeOK'
  BY <1>1, <1>2, <1>3, <1>4, <1>5
  DEF TypeOK, Tick, intervalVars, IntervalTypeOK
<1>7. ListInv'
  BY <1>1, <1>2 DEF ListInv, Distinct, Tick
<1>8. EntryInv'
  <2>1. ASSUME NEW a \in Addrs
        PROVE  /\ strikes'[a] = 0 => quiet'[a] = 0 /\ block'[a] = -1
               /\ block'[a] >= 0 =>
                     /\ strikes'[a] > FreeStrikes
                     /\ block'[a] <= scaledDuration(strikes'[a]
                                                       - FreeStrikes - 1)
    <3>1. strikes' = strikes
      BY DEF Tick
    <3>2. strikes[a] = 0 => a \notin Tracked
      BY <1>1 DEF TypeOK
    <3>3. ASSUME block'[a] >= 0
          PROVE  /\ strikes[a] > FreeStrikes
                 /\ block'[a] <= scaledDuration(strikes[a] - FreeStrikes - 1)
      <4> DEFINE k == strikes[a] - FreeStrikes - 1
      <4>1. /\ strikes[a] > FreeStrikes /\ block[a] <= scaledDuration(k)
            /\ block'[a] <= block[a]
        BY <1>1, <1>4, <3>3 DEF EntryInv
      <4>2. k \in Nat
        BY <1>1, <4>1, ConfigFacts DEF TypeOK
      <4>3. scaledDuration(k) \in 1..MaxBlock
        BY <4>2, DurationGrows
      <4>4. block[a] \in -1..MaxBlock /\ block'[a] \in -1..MaxBlock
        BY <1>1, <1>4 DEF TypeOK
      <4>. HIDE DEF k
      <4>5. block'[a] <= scaledDuration(k)
        BY <4>1, <4>3, <4>4, ConfigFacts
      <4>. QED
        BY <4>1, <4>5 DEF k
    <3>. QED
      BY <1>1, <1>3, <1>4, <3>1, <3>2, <3>3 DEF EntryInv
  <2>. QED
    BY <2>1 DEF EntryInv, scaledDuration
<1>9. SessInv'
  BY <1>1 DEF SessInv, Tick
<1>. QED
  BY <1>6, <1>7, <1>8, <1>9 DEF IInv

\* Every step keeps the invariant.
LEMMA InvNext == IInv /\ [Next]_vars => IInv'
<1>. SUFFICES ASSUME IInv, [Next]_vars PROVE IInv'
  OBVIOUS
<1>1. ASSUME NEW a \in Addrs, HttpLookup(a) PROVE IInv'
  BY <1>1, LookupKeeps DEF HttpLookup, sessVars
<1>2. ASSUME NEW c \in Conns, NEW a \in From[c], Admit(c, a) PROVE IInv'
  BY <1>2, ConfigFacts, LookupKeeps DEF Admit
<1>3. ASSUME NEW c \in Conns, HandshakeFails(c) \/ SessionStart(c)
      PROVE  IInv'
  BY <1>3, SessionKeeps DEF HandshakeFails, SessionStart
<1>4. ASSUME NEW c \in Conns, NEW used \in BOOLEAN, SessionEnd(c, used)
      PROVE  IInv'
  <2>1. \/ Strike(peer[c])
        \/ UNCHANGED <<order, entryVars, last>>
    BY <1>4 DEF SessionEnd
  <2>. QED
    BY <1>4, <2>1, StrikeKeeps, SessionKeeps
<1>5. CASE sweepExpired
  BY <1>5, SweepKeeps
<1>6. CASE SweepTimer \/ Close
  BY <1>6, SessionKeeps DEF SweepTimer, Close
<1>7. CASE Tick
  BY <1>7, TickKeeps
<1>8. CASE UNCHANGED vars
  BY <1>8, SessionKeeps DEF vars
<1>. QED
  BY <1>1, <1>2, <1>3, <1>4, <1>5, <1>6, <1>7, <1>8 DEF Next

\* The invariant holds of the whole blacklist (blacklist.go:114-241).
THEOREM Invariance == Spec => []IInv
  BY InvInit, InvNext, PTL DEF Spec

\* The list never holds more than MaxTrackedAddrs addresses, each of them
\* once, and exactly those with strikes (blacklist.go:203-221).
THEOREM TypeCorrect == Spec => []TypeOK
  BY Invariance, PTL DEF IInv

-----------------------------------------------------------------------------
(* Action properties and the refinement *)

\* A block gets shorter by time, by eviction or by decay only: a strike
\* before the decay prolongs it, the sweep leaves it alone.
LEMMA BlockKeptStep ==
    ASSUME IInv, [Next]_vars, NEW a \in Addrs,
           block[a] > 0, block'[a] < block[a], ~Tick
    PROVE  \/ a \notin Tracked' /\ a = order[Len(order)]
                /\ Len(order) = MaxTrackedAddrs
           \/ quiet[a] > StrikeResetAfter /\ strikes'[a] = 1
<1>1. TypeOK /\ ListInv
  BY DEF IInv
<1>2. block[a] \in -1..MaxBlock /\ block[a] # block'[a]
  BY <1>1, ConfigFacts DEF TypeOK
<1>3. CASE sweepExpired
  <2>1. block'[a] = IF a \in Swept THEN -1 ELSE block[a]
    BY <1>3 DEF sweepExpired, Forget
  <2>2. a \notin Swept
    BY <1>2 DEF Swept
  <2>. QED
    BY <1>2, <2>1, <2>2
<1>4. ASSUME NEW s \in Addrs, Strike(s)
      PROVE  \/ a \notin Tracked' /\ a = order[Len(order)]
                   /\ Len(order) = MaxTrackedAddrs
             \/ quiet[a] > StrikeResetAfter /\ strikes'[a] = 1
  <2>1. CASE a = s
    <3> DEFINE n == NthStrike(a)
    <3>1. block'[a] = BlockAfter(a, n) /\ strikes'[a] = n
      BY <1>4, <2>1, StrikeLines
    <3>2. /\ Decayed(a) => n = 1
          /\ ~Decayed(a) => block[a] <= BlockAfter(a, n)
      BY StrikeProlongs
    <3>3. block'[a] \in -1..MaxBlock
      BY <1>4, StrikeLines
    <3>. HIDE DEF n
    <3>4. Decayed(a)
      BY <1>2, <3>1, <3>2, <3>3, ConfigFacts
    <3>. QED
      BY <3>1, <3>2, <3>4 DEF Decayed
  <2>2. CASE a \in Evicted(s)
    BY <1>1, <1>4, <2>2, StrikeFacts DEF Evicted
  <2>3. CASE a \notin {s} \cup Evicted(s)
    BY <1>2, <1>4, <2>3, StrikeLines
  <2>. QED
    BY <2>1, <2>2, <2>3
<1>5. CASE UNCHANGED entryVars
  BY <1>2, <1>5 DEF entryVars
<1>6. sweepExpired \/ UNCHANGED entryVars \/ \E s \in Addrs : Strike(s)
  <2>1. ASSUME NEW c \in Conns, NEW used \in BOOLEAN, SessionEnd(c, used)
        PROVE  UNCHANGED entryVars \/ \E s \in Addrs : Strike(s)
    <3>1. peer[c] \in Addrs
      BY <2>1 DEF IInv, SessInv, SessionEnd
    <3>2. Strike(peer[c]) \/ UNCHANGED entryVars
      BY <2>1 DEF SessionEnd, entryVars
    <3>. QED
      BY <3>1, <3>2
  <2>2. CASE UNCHANGED vars
    BY <2>2 DEF vars
  <2>3. CASE \/ \E s \in Addrs : HttpLookup(s)
             \/ \E c \in Conns :
                   \/ \E s \in From[c] : Admit(c, s)
                   \/ HandshakeFails(c)
                   \/ SessionStart(c)
             \/ SweepTimer
             \/ Close
    BY <2>3 DEF HttpLookup, Admit, HandshakeFails, SessionStart, SweepTimer,
       Close
  <2>. QED
    BY <2>1, <2>2, <2>3 DEF Next
<1>. QED
  BY <1>3, <1>4, <1>5, <1>6

\* Blocks are kept (blacklist.go:175-197, 226-241).
THEOREM BlocksKept == Spec => BlockKept
<1>1. ASSUME IInv, [Next]_vars
      PROVE  [\A a \in Addrs :
                block[a] > 0 /\ block'[a] < block[a] =>
                   \/ Tick
                   \/ a \notin Tracked' /\ a = order[Len(order)]
                        /\ Len(order) = MaxTrackedAddrs
                   \/ quiet[a] > StrikeResetAfter /\ strikes'[a] = 1]_vars
  BY <1>1, BlockKeptStep
<1>. QED
  BY <1>1, Invariance, PTL DEF BlockKept, Spec

\* What was used last is in front, so that another entry is evicted as long
\* as there are two (blacklist.go:151-161, 203-221).
THEOREM RecentUseProtects == Spec => RecentlyUsedKept
<1>1. ASSUME IInv, [Next]_vars, MaxTrackedAddrs > 1,
             last \in Tracked, last \notin Tracked'
      PROVE  quiet[last] > StrikeResetAfter
  <2>1. TypeOK /\ ListInv /\ Distinct(order) /\ order[1] = last
    BY <1>1 DEF IInv, ListInv
  <2>2. order \in Seq(Addrs)
    BY <2>1 DEF TypeOK
  <2>3. CASE sweepExpired
    <3>1. last \in Swept
      BY <1>1, <2>1, <2>3, SweepFacts
    <3>. QED
      BY <3>1 DEF Swept
  <2>4. ASSUME NEW s \in Addrs, Strike(s) PROVE FALSE
    <3>1. last \in Evicted(s)
      BY <1>1, <2>1, <2>4, StrikeFacts
    <3>2. last = order[Len(order)] /\ Len(order) = MaxTrackedAddrs
      BY <3>1 DEF Evicted
    <3>3. 1 \in DOMAIN order /\ Len(order) \in DOMAIN order
      BY <1>1, <2>2, <3>2, ConfigFacts
    <3>4. Len(order) = 1
      BY <2>1, <3>2, <3>3 DEF Distinct
    <3>. QED
      BY <1>1, <3>2, <3>4
  <2>5. ASSUME NEW s \in Addrs, Touch(s) PROVE FALSE
    BY <1>1, <2>1, <2>5, TouchFacts
  <2>6. CASE UNCHANGED order
    BY <1>1, <2>6 DEF Tracked
  <2>7. \/ sweepExpired
        \/ \E s \in Addrs : Strike(s) \/ Touch(s)
        \/ UNCHANGED order
    <3>1. ASSUME NEW c \in Conns, NEW used \in BOOLEAN, SessionEnd(c, used)
          PROVE  UNCHANGED order \/ \E s \in Addrs : Strike(s)
      <4>1. peer[c] \in Addrs
        BY <1>1, <3>1 DEF IInv, SessInv, SessionEnd
      <4>2. Strike(peer[c]) \/ UNCHANGED order
        BY <3>1 DEF SessionEnd
      <4>. QED
        BY <4>1, <4>2
    <3>2. CASE UNCHANGED vars
      BY <3>2 DEF vars
    <3>3. ASSUME NEW c \in Conns, NEW s \in From[c], Admit(c, s)
          PROVE  \E x \in Addrs : Touch(x)
      BY <3>3, ConfigFacts DEF Admit
    <3>4. CASE \/ \E c \in Conns : HandshakeFails(c) \/ SessionStart(c)
               \/ SweepTimer \/ Close \/ Tick
      BY <3>4 DEF HandshakeFails, SessionStart, SweepTimer, Close, Tick
    <3>5. ASSUME NEW s \in Addrs, HttpLookup(s)
          PROVE  \E x \in Addrs : Touch(x)
      BY <3>5 DEF HttpLookup
    <3>. QED
      BY <1>1, <3>1, <3>2, <3>3, <3>4, <3>5 DEF Next
  <2>. QED
    BY <2>3, <2>4, <2>5, <2>6, <2>7
<1>2. ASSUME IInv, [Next]_vars
      PROVE  [MaxTrackedAddrs > 1 /\ last \in Tracked /\ last \notin Tracked'
                => quiet[last] > StrikeResetAfter]_vars
  BY <1>1, <1>2
<1>. QED
  BY <1>2, Invariance, PTL DEF RecentlyUsedKept, Spec

\* After Stop run decides on no call any more and the timer is not armed
\* again (interval_func.go:22-62); a call decided on before may yet begin.
THEOREM NothingStartsAfterStop == Spec => StopIsFinal
<1>. DEFINE NotArmed == stopped => phase # "armed"
<1>1. Init => NotArmed
  BY DEF Init, IntervalInit
<1>2. ASSUME NotArmed, [Next]_vars
      PROVE  /\ NotArmed'
             /\ [stopped => /\ phase' # "armed"
                            /\ phase' = "checked" => phase = "checked"]_vars
  BY <1>2 DEF Next, vars, intervalVars, HttpLookup, Admit, HandshakeFails,
     SessionStart, SessionEnd, sweepExpired, Call, SweepTimer, Fire, Check,
     Rearm, Tick, Close, Stop
<1>. QED
  BY <1>1, <1>2, PTL DEF StopIsFinal, Spec

\* A line of the ledger, before it is settled.
Raw(s, q, b) == [strikes |-> s, quiet |-> q, block |-> b]

\* Lines are settled, line by line.
LEMMA LineFacts ==
    ASSUME IInv, NEW a \in Addrs
    PROVE  /\ strikes[a] \in 0..MaxStrikes
           /\ quiet[a] \in 0..(StrikeResetAfter + 1)
           /\ block[a] \in -1..MaxBlock
           /\ LineOf(a) = Ledger!Settle(Raw(strikes[a], quiet[a], block[a]))
           /\ strikes[a] = 0 => LineOf(a) = Ledger!Blank
<1>1. /\ strikes[a] \in 0..MaxStrikes
      /\ quiet[a] \in 0..(StrikeResetAfter + 1)
      /\ block[a] \in -1..MaxBlock
  BY DEF IInv, TypeOK
<1>2. LineOf(a) = Ledger!Settle(Raw(strikes[a], quiet[a], block[a]))
  BY DEF LineOf, Raw, Ledger!Settle, Ledger!Blank
<1>3. strikes[a] = 0 => LineOf(a) = Ledger!Blank
  BY <1>1 DEF IInv, EntryInv, LineOf, Ledger!Blank
<1>. QED
  BY <1>1, <1>2, <1>3

\* A strike of the list is a strike of the ledger.
LEMMA StrikeRefines ==
    ASSUME IInv, NEW a \in Addrs, Strike(a)
    PROVE  LineOf(a)' = Ledger!Struck(LineOf(a))
<1> DEFINE n == NthStrike(a)
           r == strikes[a]
           q == quiet[a]
           b == block[a]
<1>1. /\ r \in 0..MaxStrikes
      /\ q \in 0..(StrikeResetAfter + 1)
      /\ b \in -1..MaxBlock
      /\ r = 0 => q = 0 /\ b = -1
  BY LineFacts DEF IInv, EntryInv
<1>2. /\ strikes'[a] = n /\ n \in 1..MaxStrikes
      /\ quiet'[a] = 0
      /\ block'[a] = BlockAfter(a, n)
  BY StrikeLines
<1>3. LineOf(a)' = Raw(n, 0, BlockAfter(a, n))
  BY <1>2, ConfigFacts DEF LineOf, Raw
<1>4. BlockAfter(a, n) = Ledger!BlockFor(n)
  <2>1. CASE n > FreeStrikes
    <3>1. n - FreeStrikes - 1 \in Nat
      BY <1>2, <2>1, ConfigFacts
    <3>. HIDE DEF n
    <3>. QED
      BY <1>2, <2>1, <3>1, ConfigFacts, DurationIsLedgers
      DEF BlockAfter, Ledger!BlockFor
  <2>2. CASE ~(n > FreeStrikes)
    <3>1. BlockAfter(a, n) = -1
      <4>1. CASE Decayed(a)
        BY <4>1, StrikeProlongs
      <4>2. CASE ~Decayed(a)
        <5>1. n <= FreeStrikes
          BY <1>2, <2>2, ConfigFacts
        <5>. QED
          BY <4>2, <5>1, StrikeProlongs
      <4>. QED
        BY <4>1, <4>2
    <3>. HIDE DEF n
    <3>. QED
      BY <1>2, <2>2, <3>1, ConfigFacts DEF Ledger!BlockFor
  <2>. QED
    BY <2>1, <2>2
<1>5. n = IF LineOf(a).quiet > StrikeResetAfter THEN 1
          ELSE IF LineOf(a).strikes = MaxStrikes THEN MaxStrikes
          ELSE LineOf(a).strikes + 1
  BY <1>1, ConfigFacts DEF LineOf, NthStrike, Decayed
<1>. HIDE DEF n
<1>. QED
  BY <1>3, <1>4, <1>5 DEF Ledger!Struck, Raw

\* Steps that write no entry leave the ledger alone.
LEMMA LinesUnchanged ==
    ASSUME UNCHANGED entryVars
    PROVE  UNCHANGED [a \in Addrs |-> LineOf(a)]
  BY DEF LineOf, entryVars

\* The sweep takes blank lines only.
LEMMA SweepRefines ==
    ASSUME IInv, sweepExpired
    PROVE  UNCHANGED [a \in Addrs |-> LineOf(a)]
<1>1. ASSUME NEW a \in Addrs PROVE LineOf(a)' = LineOf(a)
  <2>1. CASE a \in Swept
    <3>1. strikes'[a] = 0 /\ quiet'[a] = 0 /\ block'[a] = -1
      BY <2>1 DEF sweepExpired, Forget
    <3>2. quiet[a] > StrikeResetAfter /\ block[a] < 0
      BY <2>1 DEF Swept
    <3>. QED
      BY <3>1, <3>2, ConfigFacts DEF LineOf
  <2>2. CASE a \notin Swept
    BY <2>2 DEF sweepExpired, Forget, LineOf
  <2>. QED
    BY <2>1, <2>2
<1>. QED
  BY <1>1

\* A tick of the clock is a tick of the ledger.
LEMMA TickRefines ==
    ASSUME IInv, Tick
    PROVE  Ledger!Tick
<1>1. ASSUME NEW a \in Addrs
      PROVE  LineOf(a)' = Ledger!Settle(Ledger!Older(LineOf(a)))
  <2> DEFINE r == strikes[a]
             q == quiet[a]
             b == block[a]
  <2>1. /\ r \in 0..MaxStrikes
        /\ q \in 0..(StrikeResetAfter + 1)
        /\ b \in -1..MaxBlock
        /\ r = 0 => q = 0 /\ b = -1
        /\ a \in Tracked <=> r > 0
    BY LineFacts DEF IInv, TypeOK, EntryInv
  <2>2. /\ strikes'[a] = r
        /\ quiet'[a] = IF a \in Tracked /\ q <= StrikeResetAfter
                       THEN q + 1 ELSE q
        /\ block'[a] = IF b >= 0 THEN b - 1 ELSE b
    BY DEF Tick
  <2>. HIDE DEF r, q, b
  <2>3. CASE r = 0
    <3>1. strikes'[a] = 0 /\ quiet'[a] = 0 /\ block'[a] = -1
      BY <2>1, <2>2, <2>3
    <3>2. LineOf(a) = Ledger!Blank
      BY <2>3, LineFacts DEF r
    <3>3. LineOf(a)' = Ledger!Blank
      BY <3>1 DEF LineOf, Ledger!Blank
    <3>4. Ledger!Settle(Ledger!Older(Ledger!Blank)) = Ledger!Blank
      BY ConfigFacts DEF Ledger!Settle, Ledger!Older, Ledger!Blank
    <3>. QED
      BY <3>2, <3>3, <3>4
  <2>4. CASE r # 0 /\ q > StrikeResetAfter /\ b < 0
    <3>1. quiet'[a] = q /\ block'[a] = b
      BY <2>1, <2>2, <2>4, ConfigFacts
    <3>2. LineOf(a) = Ledger!Blank /\ LineOf(a)' = Ledger!Blank
      BY <2>4, <3>1 DEF LineOf, Ledger!Blank, r, q, b
    <3>3. Ledger!Settle(Ledger!Older(Ledger!Blank)) = Ledger!Blank
      BY ConfigFacts DEF Ledger!Settle, Ledger!Older, Ledger!Blank
    <3>. QED
      BY <3>2, <3>3
  <2>5. CASE r # 0 /\ ~(q > StrikeResetAfter /\ b < 0)
    <3> DEFINE q2 == IF q > StrikeResetAfter THEN q ELSE q + 1
               b2 == IF b < 0 THEN b ELSE b - 1
    <3>1. quiet'[a] = q2 /\ block'[a] = b2
      BY <2>1, <2>2, <2>5, ConfigFacts
    <3>2. LineOf(a) = Raw(r, q, b)
      BY <2>5 DEF LineOf, Raw, r, q, b
    <3>3. Ledger!Older(Raw(r, q, b)) = Raw(r, q2, b2)
      BY <2>5 DEF Ledger!Older, Raw
    <3>. HIDE DEF q2, b2
    <3>4. LineOf(a)' = Ledger!Settle(Raw(r, q2, b2))
      BY <2>2, <3>1 DEF LineOf, Raw, Ledger!Settle, Ledger!Blank
    <3>. QED
      BY <3>2, <3>3, <3>4
  <2>. QED
    BY <2>3, <2>4, <2>5
<1>. QED
  BY <1>1 DEF Ledger!Tick

\* A strike of the list strikes the ledger; if it evicts, one line is lost,
\* and only because there are more addresses than places.
LEMMA StrikeStep ==
    ASSUME IInv, NEW a \in Addrs, Strike(a)
    PROVE  \/ Ledger!Strike(a)
           \/ \E b \in Addrs : Ledger!StrikeAndForget(a, b)
<1> DEFINE bar == [x \in Addrs |-> LineOf(x)]
           out == Evicted(a)
<1>1. TypeOK /\ ListInv
  BY DEF IInv
<1>2. LineOf(a)' = Ledger!Struck(LineOf(a))
  BY StrikeRefines
<1>3. \A x \in Addrs \ ({a} \cup out) : LineOf(x)' = LineOf(x)
  BY StrikeLines DEF LineOf
<1>4. \A x \in out : LineOf(x)' = Ledger!Blank
  BY ConfigFacts, StrikeLines DEF LineOf, Ledger!Blank
<1>5. out \subseteq Tracked /\ a \notin out
  BY <1>1, StrikeFacts
<1>6. CASE out = {}
  <2>1. \A x \in Addrs : bar'[x] = [bar EXCEPT ![a] =
                                       Ledger!Struck(bar[a])][x]
    BY <1>2, <1>3, <1>6
  <2>2. bar' = [bar EXCEPT ![a] = Ledger!Struck(bar[a])]
    BY <2>1
  <2>. QED
    BY <2>2 DEF Ledger!Strike
<1>7. CASE out # {}
  <2>1. a \notin Tracked /\ Len(order) = MaxTrackedAddrs
    BY <1>7 DEF Evicted
  <2>2. PICK b \in Addrs : out = {b} /\ a # b
    BY <1>1, <1>5, <1>7, TrackedFacts DEF Evicted, TypeOK, ListInv
  <2>3. LineOf(a) = Ledger!Blank
    <3>1. strikes[a] = 0
      BY <1>1, <2>1 DEF TypeOK
    <3>. QED
      BY <3>1, LineFacts
  <2>4. MaxTrackedAddrs < Cardinality(Addrs)
    <3>1. /\ IsFiniteSet(Tracked)
          /\ Cardinality(Tracked) = MaxTrackedAddrs
          /\ Tracked \cup {a} \subseteq Addrs
      BY <1>1, <2>1, TrackedFacts DEF TypeOK, ListInv
    <3>2. Cardinality(Tracked \cup {a}) = MaxTrackedAddrs + 1
      BY <2>1, <3>1, FS_AddElement
    <3>3. Cardinality(Tracked \cup {a}) <= Cardinality(Addrs)
      BY <3>1, ConfigFacts, FS_Subset
    <3>4. Cardinality(Addrs) \in Nat
      BY ConfigFacts, FS_CardinalityType
    <3>. QED
      BY <3>2, <3>3, <3>4, ConfigFacts
  <2>5. LineOf(b)' = Ledger!Blank
    BY <1>4, <2>2
  <2>6. \A x \in Addrs : bar'[x] = [bar EXCEPT
                                      ![a] = Ledger!Struck(Ledger!Blank),
                                      ![b] = Ledger!Blank][x]
    BY <1>2, <1>3, <2>2, <2>3, <2>5
  <2>7. bar' = [bar EXCEPT ![a] = Ledger!Struck(Ledger!Blank),
                           ![b] = Ledger!Blank]
    BY <2>6
  <2>8. bar[a] = Ledger!Blank
    BY <2>3
  <2>9. Ledger!Cardinality(Addrs) = Cardinality(Addrs)
    BY DEF Ledger!Cardinality, Cardinality
  <2>. QED
    BY <2>2, <2>4, <2>7, <2>8, <2>9 DEF Ledger!StrikeAndForget
<1>. QED
  BY <1>6, <1>7

\* Each step of the list is one of the ledger, or leaves it alone.
LEMMA StepRefines ==
    IInv /\ [Next]_vars => [Ledger!Next]_([a \in Addrs |-> LineOf(a)])
<1>. SUFFICES ASSUME IInv, [Next]_vars
              PROVE  Ledger!Next \/ UNCHANGED [a \in Addrs |-> LineOf(a)]
  OBVIOUS
<1>1. CASE UNCHANGED entryVars
  BY <1>1, LinesUnchanged
<1>2. ASSUME NEW c \in Conns, NEW used \in BOOLEAN, SessionEnd(c, used)
      PROVE  Ledger!Next \/ UNCHANGED entryVars
  <2>1. peer[c] \in Addrs
    BY <1>2 DEF IInv, SessInv, SessionEnd
  <2>2. Strike(peer[c]) \/ UNCHANGED entryVars
    BY <1>2 DEF SessionEnd, entryVars
  <2>3. ASSUME NEW a \in Addrs, Strike(a) PROVE Ledger!Next
    BY <2>3, StrikeStep DEF Ledger!Next
  <2>. QED
    BY <2>1, <2>2, <2>3
<1>3. CASE sweepExpired
  BY <1>3, SweepRefines
<1>4. CASE Tick
  BY <1>4, TickRefines DEF Ledger!Next
<1>5. CASE \/ \E a \in Addrs : HttpLookup(a)
           \/ \E c \in Conns :
                 \/ \E a \in From[c] : Admit(c, a)
                 \/ HandshakeFails(c)
                 \/ SessionStart(c)
           \/ SweepTimer
           \/ Close
           \/ UNCHANGED vars
  BY <1>1, <1>5 DEF HttpLookup, Admit, HandshakeFails, SessionStart,
     SweepTimer, Close, vars
<1>. QED
  BY <1>1, <1>2, <1>3, <1>4, <1>5 DEF Next

\* The LRU list, its sweep and its decay implement the ledger of strikes
\* (blacklist.go:175-241).
THEOREM ImplementsLedger == Spec => LedgerSpec
<1>1. Init => Ledger!Init
  BY ConfigFacts DEF Init, LineOf, Ledger!Init, Ledger!Blank
<1>. QED
  BY <1>1, StepRefines, Invariance, PTL DEF LedgerSpec, Ledger!Spec, Spec

=============================================================================
