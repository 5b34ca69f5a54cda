---------------------------- MODULE Batch_proofs ----------------------------
(***************************************************************************)
(* Theorems about the two forms in which Executor answers a batch, for any *)
(* statements, any numbers of steps and rows and any conditions that are   *)
(* finite trees.                                                           *)
(*                                                                         *)
(* evalBatchCond agrees with the meaning of the conditions outside of      *)
(* transactions, by induction over their trees (ConditionsSound).  The     *)
(* entries of a cursor and the two arrays say the same of every step       *)
(* (Consistent, an invariant), so that both forms of a batch take the      *)
(* steps of BatchPromise.  The last theorem is about isWriteStatement,     *)
(* whose loops need the induction too.                                     *)
(***************************************************************************)
EXTENDS Executor_proofs

Values == {"true", "false", "fail"}

-----------------------------------------------------------------------------
(* Induction over conditions *)

\* The values of the conditions under c.
Below(f, c) == [k \in DOMAIN c.conds |-> f[c.conds[k]]]

\* What is assumed of the conditions.
LEMMA CondFacts ==
    ASSUME NEW c \in Conds
    PROVE  /\ c.conds \in Seq(Conds)
           /\ Len(c.conds) \in Nat
           /\ DOMAIN c.conds = 1..Len(c.conds)
           /\ \A k \in DOMAIN c.conds : c.conds[k] \in Conds
           /\ \A k \in DOMAIN c.conds : Depth[c.conds[k]] < Depth[c]
           /\ c.conds # <<>> <=> 1 \in DOMAIN c.conds
<1>1. c.conds \in Seq(Conds)
  BY CondsAssumption
<1>2. \A k \in DOMAIN c.conds : Depth[c.conds[k]] < Depth[c]
  BY DepthAssumption
<1>. QED
  BY <1>1, <1>2

\* What a condition inherits from the conditions under it, all have.
LEMMA CondInduction ==
    ASSUME NEW P,
           \A c \in Conds : (\A k \in DOMAIN c.conds : c.conds[k] \in P)
                               => c \in P
    PROVE  \A c \in Conds : c \in P
<1> DEFINE S == {n \in Nat : \A c \in Conds : Depth[c] < n => c \in P}
<1>0. \A c \in Conds : Depth[c] \in Nat
  BY DepthAssumption
<1>1. 0 \in S
  BY <1>0
<1>2. ASSUME NEW n \in Nat, n \in S PROVE n + 1 \in S
  <2>1. ASSUME NEW c \in Conds, Depth[c] < n + 1 PROVE c \in P
    <3>1. ASSUME NEW k \in DOMAIN c.conds PROVE c.conds[k] \in P
      <4>1. c.conds[k] \in Conds /\ Depth[c.conds[k]] < Depth[c]
        BY CondFacts
      <4>2. Depth[c.conds[k]] < n
        BY <1>0, <2>1, <4>1
      <4>. QED
        BY <1>2, <4>1, <4>2
    <3>. QED
      BY <3>1
  <2>. QED
    BY <2>1
<1>3. \A n \in Nat : n \in S
  <2>. HIDE DEF S
  <2>. QED
    BY <1>1, <1>2, NatSetInduction
<1>. QED
  <2>. TAKE c \in Conds
  <2>1. Depth[c] \in Nat /\ Depth[c] + 1 \in Nat /\ Depth[c] < Depth[c] + 1
    BY <1>0
  <2>2. Depth[c] + 1 \in S
    BY <1>3, <2>1
  <2>. QED
    BY <2>1, <2>2

\* g[c] is what rule makes of the values of g under c.
Follows(g, rule) == \A c \in Conds : g[c] = rule[c][Below(g, c)]

\* A function on conditions can be defined by what a condition makes of the
\* values under it.
LEMMA CondRecursion ==
    ASSUME NEW V, NEW v \in V, NEW rule \in [Conds -> [Seq(V) -> V]]
    PROVE  \E g \in [Conds -> V] : Follows(g, rule)
<1> DEFINE F == [Conds -> V]
           body == [f \in F |-> [c \in Conds |-> rule[c][Below(f, c)]]]
<1>1. \A f \in F : \A c \in Conds : Below(f, c) \in Seq(V)
  <2>. TAKE f \in F
  <2>. TAKE c \in Conds
  <2>1. /\ Len(c.conds) \in Nat
        /\ DOMAIN c.conds = 1..Len(c.conds)
        /\ \A k \in DOMAIN c.conds : f[c.conds[k]] \in V
    BY CondFacts
  <2>. QED
    BY <2>1 DEF Below
<1>2. body \in [F -> F]
  BY <1>1
<1>3. \A f, g \in [Conds -> V] : \A c \in Conds :
         (\A d \in Conds : Depth[d] < Depth[c] => f[d] = g[d])
            => body[f][c] = body[g][c]
  <2>. SUFFICES ASSUME NEW f \in F, NEW g \in F, NEW c \in Conds,
                       \A d \in Conds : Depth[d] < Depth[c] => f[d] = g[d]
                PROVE  body[f][c] = body[g][c]
    OBVIOUS
  <2>1. \A k \in DOMAIN c.conds : f[c.conds[k]] = g[c.conds[k]]
    BY CondFacts
  <2>2. Below(f, c) = Below(g, c)
    BY <2>1 DEF Below
  <2>. QED
    BY <2>2
<1>4. \A f \in F : body[f] = [c \in Conds |-> rule[c][Below(f, c)]]
  OBVIOUS
<1>5. \E g \in F : Fixpoint(g, body)
  <2>1. Depth \in [Conds -> Nat]
    BY DepthAssumption
  <2>. HIDE DEF body
  <2>2. LooksBelow(body, Conds, V, Depth)
    BY <1>3 DEF LooksBelow
  <2>. QED
    BY <1>2, <2>1, <2>2, RecursionOnHeight
<1>6. PICK g \in F : g = body[g]
  <2>. HIDE DEF body
  <2>. QED
    BY <1>5 DEF Fixpoint
<1>7. g = [c \in Conds |-> rule[c][Below(g, c)]]
  <2>. HIDE DEF body
  <2>. QED
    BY <1>4, <1>6
<1>8. Follows(g, rule)
  BY <1>7 DEF Follows
<1>. QED
  BY <1>8

-----------------------------------------------------------------------------
(* What the recursive functions of BatchCond compute *)

\* evalBatchCond's answer for c from its answers for the conditions under c.
EvalFrom(values, c, r, e) ==
    IF Malformed(c) THEN "fail"
    ELSE CASE c.type = "ok"    -> BoolValue(c.step \in r)
           [] c.type = "error" -> BoolValue(c.step \in e)
           [] c.type = "not"   -> Not(values[1])
           [] c.type = "and"   -> Scan(values, "true")
           [] c.type = "or"    -> Scan(values, "false")
           [] c.type = "is_autocommit" -> "true"

\* A scan ends with neutral, if all values are, or with a value that is not.
LEMMA ScanFacts ==
    ASSUME NEW V, NEW values \in Seq(V), NEW neutral
    PROVE  \/ /\ Scan(values, neutral) = neutral
              /\ \A k \in DOMAIN values : values[k] = neutral
           \/ \E k \in DOMAIN values :
                 Scan(values, neutral) = values[k] /\ values[k] # neutral
<1> DEFINE stops == {k \in DOMAIN values : values[k] # neutral}
<1>1. CASE stops = {}
  BY <1>1 DEF Scan
<1>2. CASE stops # {}
  <2>1. stops \subseteq Nat
    OBVIOUS
  <2>2. PICK m : m = CHOOSE k \in stops : \A j \in stops : k <= j
    OBVIOUS
  <2>3. m \in stops
    <3>. HIDE DEF stops
    <3>. QED
      BY <1>2, <2>1, <2>2, LeastNat
  <2>4. Scan(values, neutral) = values[m]
    BY <1>2, <2>2 DEF Scan
  <2>. QED
    BY <2>3, <2>4
<1>. QED
  BY <1>1, <1>2

\* One level of evalBatchCond has one of the three values.
LEMMA EvalFromType ==
    ASSUME NEW c \in Conds, NEW r, NEW e, NEW values \in Seq(Values),
           DOMAIN values = DOMAIN c.conds
    PROVE  EvalFrom(values, c, r, e) \in Values
<1>1. ASSUME NEW neutral \in Values
      PROVE  Scan(values, neutral) \in Values
  BY <1>1, ScanFacts
<1>2. ASSUME c.conds # <<>> PROVE Not(values[1]) \in Values
  <2>1. values[1] \in Values
    BY <1>2, CondFacts
  <2>. QED
    BY <2>1 DEF Not, Values
<1>4. CASE Malformed(c)
  <2>1. EvalFrom(values, c, r, e) = "fail"
    BY <1>4, Zenon DEF EvalFrom
  <2>. QED
    BY <2>1 DEF Values
<1>5. CASE ~Malformed(c) /\ c.type \in {"ok", "error", "is_autocommit"}
  <2>1. \/ EvalFrom(values, c, r, e) = BoolValue(c.step \in r)
        \/ EvalFrom(values, c, r, e) = BoolValue(c.step \in e)
        \/ EvalFrom(values, c, r, e) = "true"
    BY <1>5 DEF EvalFrom
  <2>2. /\ BoolValue(c.step \in r) \in Values
        /\ BoolValue(c.step \in e) \in Values
        /\ "true" \in Values
    BY DEF BoolValue, Values
  <2>. QED
    BY <2>1, <2>2
<1>6. CASE ~Malformed(c) /\ c.type = "not"
  <2>1. EvalFrom(values, c, r, e) = Not(values[1])
    BY <1>6 DEF EvalFrom
  <2>. QED
    BY <1>2, <1>6, <2>1 DEF Malformed
<1>7. CASE ~Malformed(c) /\ c.type \in {"and", "or"}
  <2>1. \/ EvalFrom(values, c, r, e) = Scan(values, "true")
        \/ EvalFrom(values, c, r, e) = Scan(values, "false")
    BY <1>7 DEF EvalFrom
  <2>. QED
    BY <1>1, <2>1 DEF Values
<1>8. ~Malformed(c) =>
         c.type \in {"ok", "error", "is_autocommit", "not", "and", "or"}
  BY DEF Malformed
<1>. QED
  BY <1>4, <1>5, <1>6, <1>7, <1>8

\* f is evalBatchCond for every condition.
Evaluates(f, r, e) ==
    \A c \in Conds : f[c] = EvalFrom(Below(f, c), c, r, e)

\* evalBatchCond is the function its recursive definition says, which exists
\* since conditions are finite trees.
LEMMA EvaluationDef ==
    ASSUME NEW r, NEW e
    PROVE  /\ Evaluation(r, e) \in [Conds -> Values]
           /\ Evaluates(Evaluation(r, e), r, e)
<1>0. PICK V : V = Values
  OBVIOUS
<1> DEFINE Eq(f) == f = [c \in Conds |-> EvalFrom(Below(f, c), c, r, e)]
           rule == [c \in Conds |-> [values \in Seq(V) |->
                       IF DOMAIN values = DOMAIN c.conds
                       THEN EvalFrom(values, c, r, e) ELSE "fail"]]
<1>1. rule \in [Conds -> [Seq(V) -> V]]
  <2>1. "fail" \in V
    BY <1>0 DEF Values
  <2>2. ASSUME NEW c \in Conds, NEW values \in Seq(V),
               DOMAIN values = DOMAIN c.conds
        PROVE  EvalFrom(values, c, r, e) \in V
    BY <1>0, <2>2, EvalFromType
  <2>. QED
    BY <2>1, <2>2
<1>2. PICK g \in [Conds -> V] : Follows(g, rule)
  <2>1. "fail" \in V
    BY <1>0 DEF Values
  <2>. HIDE DEF rule
  <2>. QED
    BY <1>1, <2>1, CondRecursion
<1>3. ASSUME NEW c \in Conds
      PROVE  g[c] = EvalFrom(Below(g, c), c, r, e)
  <2>1. /\ Len(c.conds) \in Nat
        /\ DOMAIN c.conds = 1..Len(c.conds)
        /\ \A k \in DOMAIN c.conds : g[c.conds[k]] \in V
    BY <1>2, CondFacts
  <2>2. Below(g, c) \in Seq(V) /\ DOMAIN Below(g, c) = DOMAIN c.conds
    BY <2>1 DEF Below
  <2>3. g[c] = rule[c][Below(g, c)]
    <3>. HIDE DEF rule
    <3>. QED
      BY <1>2 DEF Follows
  <2>. QED
    BY <2>2, <2>3
<1>4. Eq(g)
  BY <1>2, <1>3
<1>5. Evaluation(r, e) = CHOOSE f : Eq(f)
  BY DEF Evaluation, EvalFrom, Below
<1>. HIDE DEF Eq
<1>6. Eq(Evaluation(r, e))
  BY <1>4, <1>5
<1>. DEFINE f == Evaluation(r, e)
            P == {c \in Conds : f[c] \in Values}
<1>7. f = [c \in Conds |-> EvalFrom(Below(f, c), c, r, e)]
  <2>. HIDE DEF f
  <2>1. Eq(f)
    BY <1>6 DEF f
  <2>. QED
    BY <2>1 DEF Eq
<1>. HIDE DEF f
<1>8. \A c \in Conds : f[c] = EvalFrom(Below(f, c), c, r, e)
  BY <1>7
<1>9. ASSUME NEW c \in Conds, \A k \in DOMAIN c.conds : c.conds[k] \in P
      PROVE  c \in P
  <2>1. /\ Len(c.conds) \in Nat
        /\ DOMAIN c.conds = 1..Len(c.conds)
        /\ \A k \in DOMAIN c.conds : f[c.conds[k]] \in Values
    BY <1>9, CondFacts
  <2>2. /\ Below(f, c) \in Seq(Values)
        /\ DOMAIN Below(f, c) = DOMAIN c.conds
    BY <2>1 DEF Below
  <2>3. f[c] \in Values
    BY <1>8, <2>2, EvalFromType
  <2>. QED
    BY <2>3
<1>10. \A c \in Conds : c \in P
  <2>. HIDE DEF P
  <2>. QED
    BY <1>9, CondInduction
<1>11. f \in [Conds -> Values]
  BY <1>7, <1>10
<1>. QED
  BY <1>8, <1>11 DEF f, Evaluates

\* The truth of c from the truth of the conditions under it.
TruthFrom(values, c, r, e, o, d) ==
    IF Malformed(c) THEN d
    ELSE CASE c.type = "ok"    -> c.step \in r
           [] c.type = "error" -> c.step \in e
           [] c.type = "not"   -> ~values[1]
           [] c.type = "and"   -> \A k \in DOMAIN values : values[k]
           [] c.type = "or"    -> \E k \in DOMAIN values : values[k]
           [] c.type = "is_autocommit" -> o

\* The truth of a condition is one of the two.
LEMMA TruthFromType ==
    ASSUME NEW c \in Conds, NEW r, NEW e, NEW o \in BOOLEAN,
           NEW d \in BOOLEAN, NEW values
    PROVE  TruthFrom(values, c, r, e, o, d) \in BOOLEAN
<1>1. CASE Malformed(c)
  <2>1. TruthFrom(values, c, r, e, o, d) = d
    BY <1>1, Zenon DEF TruthFrom
  <2>. QED
    BY <2>1
<1>. DEFINE x == TruthFrom(values, c, r, e, o, d)
<1>2. ~Malformed(c) =>
         /\ c.type = "ok" => x = (c.step \in r)
         /\ c.type = "error" => x = (c.step \in e)
         /\ c.type = "not" => x = ~values[1]
         /\ c.type = "and" => x = (\A k \in DOMAIN values : values[k])
         /\ c.type = "or" => x = (\E k \in DOMAIN values : values[k])
         /\ c.type = "is_autocommit" => x = o
  BY Zenon DEF TruthFrom
<1>. HIDE DEF x
<1>4. ~Malformed(c) =>
         c.type \in {"ok", "error", "is_autocommit", "not", "and", "or"}
  BY DEF Malformed
<1>5. CASE ~Malformed(c) /\ c.type = "ok"
  <2>1. x = (c.step \in r)
    BY <1>2, <1>5, Zenon
  <2>. QED
    BY <2>1 DEF x
<1>6. CASE ~Malformed(c) /\ c.type = "error"
  <2>1. x = (c.step \in e)
    BY <1>2, <1>6, Zenon
  <2>. QED
    BY <2>1 DEF x
<1>7. CASE ~Malformed(c) /\ c.type = "not"
  <2>1. x = ~values[1]
    BY <1>2, <1>7, Zenon
  <2>. QED
    BY <2>1 DEF x
<1>8. CASE ~Malformed(c) /\ c.type = "and"
  <2>1. x = (\A k \in DOMAIN values : values[k])
    BY <1>2, <1>8, Zenon
  <2>. QED
    BY <2>1 DEF x
<1>9. CASE ~Malformed(c) /\ c.type = "or"
  <2>1. x = (\E k \in DOMAIN values : values[k])
    BY <1>2, <1>9, Zenon
  <2>. QED
    BY <2>1 DEF x
<1>10. CASE ~Malformed(c) /\ c.type = "is_autocommit"
  <2>1. x = o
    BY <1>2, <1>10, Zenon
  <2>. QED
    BY <2>1 DEF x
<1>. QED
  BY <1>1, <1>4, <1>5, <1>6, <1>7, <1>8, <1>9, <1>10

\* h is the truth of every condition.
Means(h, r, e, o, d) ==
    \A c \in Conds : h[c] = TruthFrom(Below(h, c), c, r, e, o, d)

\* Truth is the function its recursive definition says.
LEMMA TruthDef ==
    ASSUME NEW r, NEW e, NEW o \in BOOLEAN, NEW d \in BOOLEAN
    PROVE  Means(Truth(r, e, o, d), r, e, o, d)
<1>0. PICK V : V = BOOLEAN
  OBVIOUS
<1> DEFINE Eq(f) == f = [c \in Conds |-> TruthFrom(Below(f, c), c, r, e, o, d)]
           rule == [c \in Conds |-> [values \in Seq(V) |->
                       TruthFrom(values, c, r, e, o, d)]]
<1>1. rule \in [Conds -> [Seq(V) -> V]]
  <2>1. ASSUME NEW c \in Conds, NEW values \in Seq(V)
        PROVE  TruthFrom(values, c, r, e, o, d) \in V
    BY <1>0, TruthFromType
  <2>. QED
    BY <2>1
<1>2. PICK g \in [Conds -> V] : Follows(g, rule)
  <2>1. TRUE \in V
    BY <1>0
  <2>. HIDE DEF rule
  <2>. QED
    BY <1>1, <2>1, CondRecursion
<1>3. ASSUME NEW c \in Conds
      PROVE  g[c] = TruthFrom(Below(g, c), c, r, e, o, d)
  <2>1. /\ Len(c.conds) \in Nat
        /\ DOMAIN c.conds = 1..Len(c.conds)
        /\ \A k \in DOMAIN c.conds : g[c.conds[k]] \in V
    BY <1>2, CondFacts
  <2>2. Below(g, c) \in Seq(V)
    BY <2>1 DEF Below
  <2>3. g[c] = rule[c][Below(g, c)]
    <3>. HIDE DEF rule
    <3>. QED
      BY <1>2 DEF Follows
  <2>. QED
    BY <2>2, <2>3
<1>4. Eq(g)
  BY <1>2, <1>3
<1>5. Truth(r, e, o, d) = CHOOSE f : Eq(f)
  BY DEF Truth, TruthFrom, Below
<1>. HIDE DEF Eq
<1>6. Eq(Truth(r, e, o, d))
  BY <1>4, <1>5
<1>. DEFINE h == Truth(r, e, o, d)
<1>7. h = [c \in Conds |-> TruthFrom(Below(h, c), c, r, e, o, d)]
  <2>. HIDE DEF h
  <2>1. Eq(h)
    BY <1>6 DEF h
  <2>. QED
    BY <2>1 DEF Eq
<1>. HIDE DEF h
<1>8. \A c \in Conds : h[c] = TruthFrom(Below(h, c), c, r, e, o, d)
  BY <1>7
<1>. QED
  BY <1>8 DEF h, Means

\* w says of every condition whether its tree is well-formed.
Sorts(w) ==
    \A c \in Conds :
        w[c] = (~Malformed(c) /\ \A k \in DOMAIN Below(w, c) : Below(w, c)[k])

\* Soundness is the function its recursive definition says.
LEMMA SoundnessDef == Sorts(Soundness)
<1>0. PICK V : V = BOOLEAN
  OBVIOUS
<1> DEFINE From(values, c) ==
              ~Malformed(c) /\ \A k \in DOMAIN values : values[k]
           Eq(f) == f = [c \in Conds |-> From(Below(f, c), c)]
           rule == [c \in Conds |-> [values \in Seq(V) |-> From(values, c)]]
<1>1. rule \in [Conds -> [Seq(V) -> V]]
  <2>1. ASSUME NEW c \in Conds, NEW values \in Seq(V)
        PROVE  From(values, c) \in V
    BY <1>0
  <2>. HIDE DEF From
  <2>. QED
    BY <2>1
<1>2. PICK g \in [Conds -> V] : Follows(g, rule)
  <2>1. TRUE \in V
    BY <1>0
  <2>. HIDE DEF rule
  <2>. QED
    BY <1>1, <2>1, CondRecursion
<1>3. ASSUME NEW c \in Conds
      PROVE  g[c] = From(Below(g, c), c)
  <2>1. /\ Len(c.conds) \in Nat
        /\ DOMAIN c.conds = 1..Len(c.conds)
        /\ \A k \in DOMAIN c.conds : g[c.conds[k]] \in V
    BY <1>2, CondFacts
  <2>2. Below(g, c) \in Seq(V)
    BY <2>1 DEF Below
  <2>3. g[c] = rule[c][Below(g, c)]
    <3>. HIDE DEF rule
    <3>. QED
      BY <1>2 DEF Follows
  <2>. HIDE DEF From
  <2>. QED
    BY <2>2, <2>3
<1>4. Eq(g)
  <2>. HIDE DEF From
  <2>. QED
    BY <1>2, <1>3
<1>5. Soundness = CHOOSE f : Eq(f)
  BY DEF Soundness, Below
<1>6. Eq(Soundness)
  <2>. HIDE DEF Eq
  <2>. QED
    BY <1>4, <1>5
<1>7. \A c \in Conds : Soundness[c] = From(Below(Soundness, c), c)
  <2>. HIDE DEF From
  <2>. QED
    BY <1>6
<1>. QED
  BY <1>7 DEF Sorts

\* q says of every condition whether its tree asks for the transaction.
Tells(q) ==
    \A c \in Conds :
        q[c] = (\/ c.type = "is_autocommit"
                \/ \E k \in DOMAIN Below(q, c) : Below(q, c)[k])

\* Asking is the function its recursive definition says.
LEMMA AskingDef == Tells(Asking)
<1>0. PICK V : V = BOOLEAN
  OBVIOUS
<1> DEFINE From(values, c) ==
              c.type = "is_autocommit" \/ \E k \in DOMAIN values : values[k]
           Eq(f) == f = [c \in Conds |-> From(Below(f, c), c)]
           rule == [c \in Conds |-> [values \in Seq(V) |-> From(values, c)]]
<1>1. rule \in [Conds -> [Seq(V) -> V]]
  <2>1. ASSUME NEW c \in Conds, NEW values \in Seq(V)
        PROVE  From(values, c) \in V
    BY <1>0
  <2>. HIDE DEF From
  <2>. QED
    BY <2>1
<1>2. PICK g \in [Conds -> V] : Follows(g, rule)
  <2>1. TRUE \in V
    BY <1>0
  <2>. HIDE DEF rule
  <2>. QED
    BY <1>1, <2>1, CondRecursion
<1>3. ASSUME NEW c \in Conds
      PROVE  g[c] = From(Below(g, c), c)
  <2>1. /\ Len(c.conds) \in Nat
        /\ DOMAIN c.conds = 1..Len(c.conds)
        /\ \A k \in DOMAIN c.conds : g[c.conds[k]] \in V
    BY <1>2, CondFacts
  <2>2. Below(g, c) \in Seq(V)
    BY <2>1 DEF Below
  <2>3. g[c] = rule[c][Below(g, c)]
    <3>. HIDE DEF rule
    <3>. QED
      BY <1>2 DEF Follows
  <2>. HIDE DEF From
  <2>. QED
    BY <2>2, <2>3
<1>4. Eq(g)
  <2>. HIDE DEF From
  <2>. QED
    BY <1>2, <1>3
<1>5. Asking = CHOOSE f : Eq(f)
  BY DEF Asking, Below
<1>6. Eq(Asking)
  <2>. HIDE DEF Eq
  <2>. QED
    BY <1>4, <1>5
<1>7. \A c \in Conds : Asking[c] = From(Below(Asking, c), c)
  <2>. HIDE DEF From
  <2>. QED
    BY <1>6
<1>. QED
  BY <1>7 DEF Tells

\* A condition whose tree does not ask for the transaction is true inside
\* one exactly if it is outside.
LEMMA SameOutside ==
    ASSUME NEW r, NEW e, NEW o, NEW p, NEW d,
           NEW g, Means(g, r, e, o, d), NEW h, Means(h, r, e, p, d),
           NEW q, Tells(q)
    PROVE  \A c \in Conds : ~q[c] => g[c] = h[c]
<1> DEFINE P == {c \in Conds : ~q[c] => g[c] = h[c]}
<1>1. ASSUME NEW c \in Conds, \A k \in DOMAIN c.conds : c.conds[k] \in P,
             ~q[c]
      PROVE  g[c] = h[c]
  <2>1. q[c] = (\/ c.type = "is_autocommit"
                \/ \E k \in DOMAIN Below(q, c) : Below(q, c)[k])
    BY Zenon DEF Tells
  <2>2. c.type # "is_autocommit"
    BY <1>1, <2>1, Zenon
  <2>3. \A k \in DOMAIN c.conds : ~q[c.conds[k]]
    <3>1. /\ DOMAIN Below(q, c) = DOMAIN c.conds
          /\ \A k \in DOMAIN c.conds : Below(q, c)[k] = q[c.conds[k]]
      BY DEF Below
    <3>. QED
      BY <1>1, <2>1, <3>1, Zenon
  <2>4. \A k \in DOMAIN c.conds : g[c.conds[k]] = h[c.conds[k]]
    BY <1>1, <2>3, Zenon
  <2>5. Below(g, c) = Below(h, c)
    BY <2>4 DEF Below
  <2>6. /\ g[c] = TruthFrom(Below(g, c), c, r, e, o, d)
        /\ h[c] = TruthFrom(Below(g, c), c, r, e, p, d)
    BY <2>5, Zenon DEF Means
  <2>. DEFINE b == Below(g, c)
  <2>. HIDE DEF b
  <2>7. TruthFrom(b, c, r, e, o, d) = TruthFrom(b, c, r, e, p, d)
    <3>1. CASE Malformed(c)
      BY <3>1, Zenon DEF TruthFrom
    <3>2. CASE ~Malformed(c) /\ c.type = "ok"
      BY <3>2, Zenon DEF TruthFrom
    <3>3. CASE ~Malformed(c) /\ c.type = "error"
      BY <3>3, Zenon DEF TruthFrom
    <3>4. CASE ~Malformed(c) /\ c.type = "not"
      BY <3>4, Zenon DEF TruthFrom
    <3>5. CASE ~Malformed(c) /\ c.type = "and"
      BY <3>5, Zenon DEF TruthFrom
    <3>6. CASE ~Malformed(c) /\ c.type = "or"
      BY <3>6, Zenon DEF TruthFrom
    <3>7. ~Malformed(c) => c.type \in {"ok", "error", "not", "and", "or"}
      BY <2>2 DEF Malformed
    <3>. QED
      BY <3>1, <3>2, <3>3, <3>4, <3>5, <3>6, <3>7
  <2>. QED
    BY <2>6, <2>7 DEF b
<1>2. \A c \in Conds : c \in P
  <2>1. ASSUME NEW c \in Conds, \A k \in DOMAIN c.conds : c.conds[k] \in P
        PROVE  c \in P
    BY <1>1, <2>1
  <2>. HIDE DEF P
  <2>. QED
    BY <2>1, CondInduction
<1>. QED
  BY <1>2

\* evalBatchCond and the meaning of the condition c do not contradict each
\* other, and it fails for a malformed condition only.
Agree(f, h, w, c) ==
    /\ f[c] = "true" => h[c]
    /\ f[c] = "false" => ~h[c]
    /\ f[c] = "fail" => ~w[c]

\* A condition agrees with its meaning if those under it do.
LEMMA AgreeStep ==
    ASSUME NEW r, NEW e, NEW d \in BOOLEAN,
           NEW f \in [Conds -> Values], Evaluates(f, r, e),
           NEW h, Means(h, r, e, TRUE, d), NEW w, Sorts(w),
           NEW c \in Conds,
           \A k \in DOMAIN c.conds : Agree(f, h, w, c.conds[k])
    PROVE  Agree(f, h, w, c)
<1> DEFINE vs == Below(f, c)
           hs == Below(h, c)
           ws == Below(w, c)
<1>1. /\ Len(c.conds) \in Nat
      /\ DOMAIN c.conds = 1..Len(c.conds)
      /\ DOMAIN vs = 1..Len(c.conds)
      /\ DOMAIN hs = 1..Len(c.conds)
      /\ DOMAIN ws = 1..Len(c.conds)
      /\ vs \in Seq(Values)
  <2>1. \A k \in DOMAIN c.conds : f[c.conds[k]] \in Values
    BY CondFacts
  <2>. QED
    BY <2>1, CondFacts DEF Below
<1>2. \A k \in 1..Len(c.conds) :
         /\ vs[k] = "true" => hs[k]
         /\ vs[k] = "false" => ~hs[k]
         /\ vs[k] = "fail" => ~ws[k]
         /\ vs[k] \in Values
  <2>. TAKE k \in 1..Len(c.conds)
  <2>1. /\ vs[k] = f[c.conds[k]]
        /\ hs[k] = h[c.conds[k]]
        /\ ws[k] = w[c.conds[k]]
    BY <1>1, Zenon DEF Below
  <2>2. Agree(f, h, w, c.conds[k])
    BY <1>1
  <2>3. vs[k] \in Values
    BY <1>1
  <2>. QED
    BY <2>1, <2>2, <2>3, Zenon DEF Agree
<1>3. /\ f[c] = EvalFrom(vs, c, r, e)
      /\ h[c] = TruthFrom(hs, c, r, e, TRUE, d)
      /\ w[c] = (~Malformed(c) /\ \A k \in DOMAIN ws : ws[k])
  BY Zenon DEF Evaluates, Means, Sorts
<1>. HIDE DEF vs, hs, ws
<1>4. CASE Malformed(c)
  <2>1. f[c] = "fail"
    BY <1>3, <1>4, Zenon DEF EvalFrom
  <2>2. ~w[c]
    BY <1>3, <1>4, Zenon
  <2>. QED
    BY <2>1, <2>2 DEF Agree
<1>5. CASE ~Malformed(c) /\ c.type = "ok"
  <2>1. f[c] = BoolValue(c.step \in r)
    BY <1>3, <1>5 DEF EvalFrom
  <2>2. TruthFrom(hs, c, r, e, TRUE, d) <=> c.step \in r
    BY <1>5, Zenon DEF TruthFrom
  <2>3. h[c] <=> c.step \in r
    BY <1>3, <2>2, Zenon
  <2>. QED
    BY <2>1, <2>3 DEF Agree, BoolValue
<1>6. CASE ~Malformed(c) /\ c.type = "error"
  <2>1. f[c] = BoolValue(c.step \in e)
    BY <1>3, <1>6 DEF EvalFrom
  <2>2. TruthFrom(hs, c, r, e, TRUE, d) <=> c.step \in e
    BY <1>6, Zenon DEF TruthFrom
  <2>3. h[c] <=> c.step \in e
    BY <1>3, <2>2, Zenon
  <2>. QED
    BY <2>1, <2>3 DEF Agree, BoolValue
<1>7. CASE ~Malformed(c) /\ c.type = "not"
  <2>1. f[c] = Not(vs[1])
    BY <1>3, <1>7 DEF EvalFrom
  <2>2. h[c] = ~hs[1]
    BY <1>3, <1>7, Zenon DEF TruthFrom
  <2>3. 1 \in 1..Len(c.conds)
    BY <1>1, <1>7, CondFacts DEF Malformed
  <2>4. CASE vs[1] = "true"
    <3>1. f[c] = "false"
      BY <2>1, <2>4 DEF Not
    <3>2. ~h[c]
      BY <1>2, <2>2, <2>3, <2>4, Zenon
    <3>. QED
      BY <3>1, <3>2 DEF Agree
  <2>5. CASE vs[1] = "false"
    <3>1. f[c] = "true"
      BY <2>1, <2>5 DEF Not
    <3>2. h[c]
      BY <1>2, <2>2, <2>3, <2>5, Zenon
    <3>. QED
      BY <3>1, <3>2 DEF Agree
  <2>6. CASE vs[1] = "fail"
    <3>1. f[c] = "fail"
      BY <2>1, <2>6 DEF Not
    <3>2. ~w[c]
      BY <1>1, <1>2, <1>3, <2>3, <2>6, Zenon
    <3>. QED
      BY <3>1, <3>2 DEF Agree
  <2>. QED
    BY <1>2, <2>3, <2>4, <2>5, <2>6 DEF Values
<1>8. CASE ~Malformed(c) /\ c.type = "and"
  <2>1. f[c] = Scan(vs, "true")
    BY <1>3, <1>8 DEF EvalFrom
  <2>2. h[c] = \A k \in DOMAIN hs : hs[k]
    BY <1>3, <1>8, Zenon DEF TruthFrom
  <2>3. CASE f[c] = "true" /\ \A k \in DOMAIN vs : vs[k] = "true"
    <3>1. h[c]
      BY <1>1, <1>2, <2>2, <2>3, Zenon
    <3>. QED
      BY <2>3, <3>1 DEF Agree
  <2>4. ASSUME NEW k \in DOMAIN vs, f[c] = vs[k], vs[k] # "true"
        PROVE  Agree(f, h, w, c)
    <3>1. vs[k] = "false" => ~h[c]
      BY <1>1, <1>2, <2>2, <2>4, Zenon
    <3>2. vs[k] = "fail" => ~w[c]
      BY <1>1, <1>2, <1>3, <2>4, Zenon
    <3>. QED
      BY <2>4, <3>1, <3>2 DEF Agree
  <2>. QED
    BY <1>1, <2>1, <2>3, <2>4, ScanFacts
<1>9. CASE ~Malformed(c) /\ c.type = "or"
  <2>1. f[c] = Scan(vs, "false")
    BY <1>3, <1>9 DEF EvalFrom
  <2>2. h[c] = \E k \in DOMAIN hs : hs[k]
    BY <1>3, <1>9, Zenon DEF TruthFrom
  <2>3. CASE f[c] = "false" /\ \A k \in DOMAIN vs : vs[k] = "false"
    <3>1. ~h[c]
      BY <1>1, <1>2, <2>2, <2>3, Zenon
    <3>. QED
      BY <2>3, <3>1 DEF Agree
  <2>4. ASSUME NEW k \in DOMAIN vs, f[c] = vs[k], vs[k] # "false"
        PROVE  Agree(f, h, w, c)
    <3>1. vs[k] = "true" => h[c]
      BY <1>1, <1>2, <2>2, <2>4, Zenon
    <3>2. vs[k] = "fail" => ~w[c]
      BY <1>1, <1>2, <1>3, <2>4, Zenon
    <3>. QED
      BY <2>4, <3>1, <3>2 DEF Agree
  <2>. QED
    BY <1>1, <2>1, <2>3, <2>4, ScanFacts
<1>10. CASE ~Malformed(c) /\ c.type = "is_autocommit"
  <2>1. f[c] = "true"
    BY <1>3, <1>10 DEF EvalFrom
  <2>2. h[c]
    BY <1>3, <1>10, Zenon DEF TruthFrom
  <2>. QED
    BY <2>1, <2>2 DEF Agree
<1>11. ~Malformed(c) =>
          c.type \in {"ok", "error", "not", "and", "or", "is_autocommit"}
  BY DEF Malformed
<1>. QED
  BY <1>4, <1>5, <1>6, <1>7, <1>8, <1>9, <1>10, <1>11

\* evalBatchCond, for any results, any errors and any condition that is a
\* finite tree, outside a transaction (auto) or if the condition does not ask
\* for one: it returns true (false) only if the condition is true (false)
\* whatever its malformed parts stand for, and fails only if there are some
\* (executor.go:240-298; HRANA_3_SPEC.md:1081-1093).
THEOREM ConditionsSound ==
    ASSUME NEW c \in Conds, NEW r, NEW e, NEW auto \in BOOLEAN
    PROVE  /\ evalBatchCond(c, r, e) \in Values
           /\ evalBatchCond(c, r, e) = "fail" => ~WellFormed(c)
           /\ auto \/ ~Asks(c) =>
                /\ evalBatchCond(c, r, e) = "true" =>
                      SurelyHolds(c, r, e, auto)
                /\ evalBatchCond(c, r, e) = "false" =>
                      SurelyFails(c, r, e, auto)
<1> DEFINE f == Evaluation(r, e)
<1>1. f \in [Conds -> Values] /\ Evaluates(f, r, e)
  BY EvaluationDef
<1>2. ASSUME NEW d \in BOOLEAN
      PROVE  Agree(f, Truth(r, e, TRUE, d), Soundness, c)
  <2> DEFINE h == Truth(r, e, TRUE, d)
             w == Soundness
             P == {x \in Conds : Agree(f, h, w, x)}
  <2>1. Means(h, r, e, TRUE, d) /\ Sorts(w)
    BY TruthDef, SoundnessDef
  <2>. HIDE DEF f, h, w
  <2>2. ASSUME NEW x \in Conds, \A k \in DOMAIN x.conds : x.conds[k] \in P
        PROVE  x \in P
    <3>1. \A k \in DOMAIN x.conds : Agree(f, h, w, x.conds[k])
      BY <2>2
    <3>2. Agree(f, h, w, x)
      BY <1>1, <2>1, <3>1, AgreeStep
    <3>. QED
      BY <3>2
  <2>3. c \in P
    <3>. HIDE DEF P
    <3>. QED
      BY <2>2, CondInduction
  <2>. QED
    BY <2>3 DEF h, w
<1>3. ASSUME auto \/ ~Asks(c), NEW d \in BOOLEAN
      PROVE  Truth(r, e, auto, d)[c] = Truth(r, e, TRUE, d)[c]
  <2>1. CASE auto
    <3>1. auto = TRUE
      BY <2>1
    <3>. QED
      BY <3>1, Zenon
  <2>2. CASE ~Asks(c)
    <3>0. PICK t \in BOOLEAN : t = TRUE
      OBVIOUS
    <3>. DEFINE g == Truth(r, e, auto, d)
                h == Truth(r, e, t, d)
                q == Asking
    <3>1. Means(g, r, e, auto, d) /\ Means(h, r, e, t, d) /\ Tells(q)
      BY TruthDef, AskingDef
    <3>2. ~q[c]
      BY <2>2, Zenon DEF Asks
    <3>. HIDE DEF g, h, q
    <3>3. \A x \in Conds : ~q[x] => g[x] = h[x]
      BY <3>1, SameOutside
    <3>4. g[c] = h[c]
      BY <3>2, <3>3
    <3>. QED
      BY <3>0, <3>4, Zenon DEF g, h
  <2>. QED
    BY <1>3, <2>1, <2>2
<1>4. f[c] = "fail" => ~WellFormed(c)
  <2>. HIDE DEF f
  <2>. QED
    BY <1>2, Zenon DEF Agree, WellFormed
<1>5. ASSUME auto \/ ~Asks(c)
      PROVE  /\ f[c] = "true" => SurelyHolds(c, r, e, auto)
             /\ f[c] = "false" => SurelyFails(c, r, e, auto)
  <2>. HIDE DEF f
  <2>1. \A d \in BOOLEAN : Truth(r, e, auto, d)[c] = Truth(r, e, TRUE, d)[c]
    BY <1>3, <1>5
  <2>2. \A d \in BOOLEAN : /\ f[c] = "true" => Truth(r, e, TRUE, d)[c]
                           /\ f[c] = "false" => ~Truth(r, e, TRUE, d)[c]
    BY <1>2, Zenon DEF Agree
  <2>. QED
    BY <2>1, <2>2, Zenon DEF SurelyHolds, SurelyFails
<1>. QED
  BY <1>1, <1>4, <1>5 DEF evalBatchCond

\* BatchPromise speaks of the same meaning.
LEMMA SameMeaning ==
    ASSUME NEW c, NEW r, NEW e, NEW o
    PROVE  /\ Promise!SurelyHolds(c, r, e, o) <=> SurelyHolds(c, r, e, o)
           /\ Promise!SurelyFails(c, r, e, o) <=> SurelyFails(c, r, e, o)
           /\ Promise!WellFormed(c) <=> WellFormed(c)
           /\ Promise!Asks(c) <=> Asks(c)
<1>1. \A x : Promise!Malformed(x) = Malformed(x)
  BY DEF Promise!Malformed, Malformed
<1>2. ASSUME NEW b
      PROVE  Promise!Truth(r, e, o, b) = Truth(r, e, o, b)
  BY <1>1, Zenon DEF Promise!Truth, Truth, Promise!Malformed, Malformed
<1>3. Promise!Soundness = Soundness
  BY <1>1, Zenon DEF Promise!Soundness, Soundness, Promise!Malformed, Malformed
<1>4. Promise!SurelyHolds(c, r, e, o) <=> SurelyHolds(c, r, e, o)
  BY <1>2, Zenon DEF Promise!SurelyHolds, SurelyHolds
<1>5. Promise!SurelyFails(c, r, e, o) <=> SurelyFails(c, r, e, o)
  BY <1>2, Zenon DEF Promise!SurelyFails, SurelyFails
<1>6. Promise!WellFormed(c) <=> WellFormed(c)
  BY <1>3, Zenon DEF Promise!WellFormed, WellFormed
<1>7. Promise!Asking = Asking
  BY Zenon DEF Promise!Asking, Asking
<1>8. Promise!Asks(c) <=> Asks(c)
  BY <1>7, Zenon DEF Promise!Asks, Asks
<1>. QED
  BY <1>4, <1>5, <1>6, <1>8

-----------------------------------------------------------------------------
(* The invariant *)

\* Opened, CursorGrammar and the reading of a step's outcome, of any entries.
Within(es, k, j) ==
    \E b \in 1..(k - 1) :
        /\ es[b] = [type |-> "step_begin", step |-> j]
        /\ \A e \in (b + 1)..(k - 1) : es[e].type = "row"

HasStep(x) == x.type \in {"step_begin", "step_error"}

Decodable(es) ==
    /\ \A k \in DOMAIN es :
          /\ es[k].type \in {"row", "step_end"} =>
                \E j \in Steps : Within(es, k, j)
          /\ es[k].type \in {"step_begin", "error"} =>
                \A j \in Steps : ~Within(es, k, j)
          /\ es[k].type = "step_error" =>
                \A j \in Steps : Within(es, k, j) => j = es[k].step
          /\ es[k].type = "error" => k = Len(es)
    /\ \A k, l \in DOMAIN es :
          k < l /\ HasStep(es[k]) /\ HasStep(es[l])
          => \/ es[k].step < es[l].step
             \/ es[l].type = "step_error" /\ Within(es, l, es[k].step)

Failed(es, j) ==
    \E e \in DOMAIN es : es[e] = [type |-> "step_error", step |-> j]
Ended(es, j) ==
    \E e \in DOMAIN es : es[e].type = "step_end" /\ Within(es, e, j)

\* The entries can be decoded, say of every step what the two arrays say,
\* and are inside the step of open, if there is one.
Consistent(es, ok, bad, open) ==
    /\ Decodable(es)
    /\ \A j \in Steps : Within(es, Len(es) + 1, j) <=> j \in open
    /\ \A j \in Steps : Failed(es, j) <=> j \in bad
    /\ \A j \in Steps : Ended(es, j) <=> j \in ok

\* The steps named by the entries come before n.
Bounded(es, n) == \A e \in DOMAIN es : HasStep(es[e]) => es[e].step < n

NotGivenUp(es) == \A e \in DOMAIN es : es[e].type # "error"

EntryInv ==
    /\ req # "cursor" => entries = <<>>
    /\ req = "cursor" =>
          Consistent(entries, results, errors,
                     IF pc = "rows" THEN {pos} ELSE {})
    /\ Bounded(entries, IF pc = "rows" THEN pos + 1 ELSE pos)
    /\ pc # "answered" => NotGivenUp(entries)

\* A step that is being executed has a condition that held when the step was
\* reached, and none has been entered since.
CondInv ==
    /\ pc \in {"idle", "next"} \/ req \notin Looping => cond = Null
    /\ req \in Looping /\ pc \in {"check", "run", "rows"}
          => CondValue = "true"

-----------------------------------------------------------------------------
(* Entries *)

\* What an entry is made of.
LEMMA EntryFacts ==
    ASSUME NEW x \in Entry
    PROVE  /\ x.type \in {"step_begin", "step_error", "row", "step_end",
                          "error"}
           /\ HasStep(x) => x.step \in Nat
           /\ HasStep(x) <=> "step" \in DOMAIN x
           /\ \A t \in {"step_begin", "step_error"} : \A j :
                 x = [type |-> t, step |-> j] <=> x.type = t /\ x.step = j
<1>1. CASE x \in [type: {"step_begin", "step_error"}, step: Nat]
  <2>1. DOMAIN x = {"type", "step"} /\ x.step \in Nat
        /\ x.type \in {"step_begin", "step_error"}
    BY <1>1
  <2>2. ASSUME NEW t \in {"step_begin", "step_error"}, NEW j
        PROVE  x = [type |-> t, step |-> j] <=> x.type = t /\ x.step = j
    BY <1>1
  <2>. QED
    BY <2>1, <2>2 DEF HasStep
<1>2. CASE x \in [type: {"row", "step_end", "error"}]
  BY <1>2 DEF HasStep
<1>. QED
  BY <1>1, <1>2 DEF Entry

\* more is es with x at its end.
Adds(more, es, x) ==
    /\ more \in Seq(Entry)
    /\ Len(es) \in Nat
    /\ Len(more) = Len(es) + 1
    /\ DOMAIN es = 1..Len(es)
    /\ DOMAIN more = 1..(Len(es) + 1)
    /\ \A k \in 1..Len(es) : more[k] = es[k] /\ es[k] \in Entry
    /\ more[Len(es) + 1] = x
    /\ x \in Entry
    /\ \A k \in 1..(Len(es) + 1) : \A j :
          Within(more, k, j) <=> Within(es, k, j)
    /\ \A j : Within(more, Len(es) + 2, j)
                 <=> \/ x = [type |-> "step_begin", step |-> j]
                     \/ x.type = "row" /\ Within(es, Len(es) + 1, j)

\* An entry put at the end does not change where the others are.
LEMMA AppendAdds ==
    ASSUME NEW es \in Seq(Entry), NEW x \in Entry
    PROVE  Adds(Append(es, x), es, x)
<1> DEFINE more == Append(es, x)
           n == Len(es)
<1>1. /\ n \in Nat
      /\ Len(more) = n + 1
      /\ DOMAIN es = 1..n
      /\ DOMAIN more = 1..(n + 1)
      /\ \A k \in 1..n : more[k] = es[k] /\ es[k] \in Entry
      /\ more[n + 1] = x
      /\ more \in Seq(Entry)
  OBVIOUS
<1>. HIDE DEF more, n
<1>2. ASSUME NEW k \in 1..(n + 1), NEW j
      PROVE  Within(more, k, j) <=> Within(es, k, j)
  <2>1. \A b \in 1..(k - 1) : b \in 1..n /\ more[b] = es[b]
    BY <1>1
  <2>2. \A b \in 1..(k - 1) : \A e \in (b + 1)..(k - 1) :
           e \in 1..n /\ more[e] = es[e]
    BY <1>1
  <2>. QED
    BY <2>1, <2>2 DEF Within
<1>3. ASSUME NEW j
      PROVE  Within(more, n + 2, j)
                <=> \/ x = [type |-> "step_begin", step |-> j]
                    \/ x.type = "row" /\ Within(es, n + 1, j)
  <2> DEFINE begin == [type |-> "step_begin", step |-> j]
  <2>0. begin.type = "step_begin"
    OBVIOUS
  <2>. HIDE DEF begin
  <2>1. Within(more, n + 2, j) <=>
           \E b \in 1..(n + 1) :
              /\ more[b] = begin
              /\ \A e \in (b + 1)..(n + 1) : more[e].type = "row"
    <3>1. (n + 2) - 1 = n + 1
      BY <1>1
    <3>2. Within(more, n + 2, j) <=>
             \E b \in 1..((n + 2) - 1) :
                /\ more[b] = begin
                /\ \A e \in (b + 1)..((n + 2) - 1) : more[e].type = "row"
      BY DEF Within, begin
    <3>. QED
      BY <3>1, <3>2
  <2>2. Within(es, n + 1, j) <=>
           \E b \in 1..n :
              /\ es[b] = begin
              /\ \A e \in (b + 1)..n : es[e].type = "row"
    <3>1. (n + 1) - 1 = n
      BY <1>1
    <3>2. Within(es, n + 1, j) <=>
             \E b \in 1..((n + 1) - 1) :
                /\ es[b] = begin
                /\ \A e \in (b + 1)..((n + 1) - 1) : es[e].type = "row"
      BY DEF Within, begin
    <3>. QED
      BY <3>1, <3>2
  <2>3. ASSUME NEW b \in 1..(n + 1), more[b] = begin,
               \A e \in (b + 1)..(n + 1) : more[e].type = "row"
        PROVE  x = begin \/ (x.type = "row" /\ Within(es, n + 1, j))
    <3>1. CASE b = n + 1
      BY <1>1, <2>3, <3>1
    <3>2. CASE b # n + 1
      <4>1. b \in 1..n /\ n + 1 \in (b + 1)..(n + 1)
        BY <1>1, <3>2
      <4>2. \A e \in (b + 1)..n : e \in (b + 1)..(n + 1) /\ e \in 1..n
        BY <1>1, <4>1
      <4>3. es[b] = begin /\ \A e \in (b + 1)..n : es[e].type = "row"
        BY <1>1, <2>3, <4>1, <4>2
      <4>. QED
        BY <1>1, <2>2, <2>3, <4>1, <4>3
    <3>. QED
      BY <3>1, <3>2
  <2>4. ASSUME x = begin PROVE Within(more, n + 2, j)
    <3>1. n + 1 \in 1..(n + 1) /\ (n + 1 + 1)..(n + 1) = {}
      BY <1>1
    <3>. QED
      BY <1>1, <2>1, <2>4, <3>1
  <2>5. ASSUME x.type = "row", Within(es, n + 1, j)
        PROVE  Within(more, n + 2, j)
    <3>1. PICK b \in 1..n :
             es[b] = begin /\ \A e \in (b + 1)..n : es[e].type = "row"
      BY <2>2, <2>5
    <3>2. b \in 1..(n + 1) /\ more[b] = begin
      BY <1>1, <3>1
    <3>3. ASSUME NEW e \in (b + 1)..(n + 1) PROVE more[e].type = "row"
      <4>1. CASE e = n + 1
        BY <1>1, <2>5, <4>1
      <4>2. CASE e # n + 1
        <5>1. e \in (b + 1)..n /\ e \in 1..n
          BY <1>1, <4>2
        <5>. QED
          BY <1>1, <3>1, <5>1
      <4>. QED
        BY <4>1, <4>2
    <3>. QED
      BY <2>1, <3>2, <3>3
  <2>. QED
    BY <2>1, <2>3, <2>4, <2>5 DEF begin
<1>. QED
  BY <1>1, <1>2, <1>3 DEF Adds, more, n

\* x may come after es.
Fits(es, x) ==
    /\ x.type \in {"row", "step_end"} =>
          \E j \in Steps : Within(es, Len(es) + 1, j)
    /\ x.type \in {"step_begin", "error"} =>
          \A j \in Steps : ~Within(es, Len(es) + 1, j)
    /\ x.type = "step_error" =>
          \A j \in Steps : Within(es, Len(es) + 1, j) => j = x.step
    /\ HasStep(x) =>
          \A k \in DOMAIN es : HasStep(es[k]) =>
             \/ es[k].step < x.step
             \/ x.type = "step_error" /\ Within(es, Len(es) + 1, es[k].step)

\* Entries stay decodable when one is added that fits.
LEMMA DecodableGrows ==
    ASSUME NEW more, NEW es, NEW x, Adds(more, es, x),
           Decodable(es), NotGivenUp(es), Fits(es, x)
    PROVE  Decodable(more)
<1> DEFINE n == Len(es)
<1>1. /\ n \in Nat
      /\ Len(more) = n + 1
      /\ DOMAIN es = 1..n
      /\ DOMAIN more = 1..(n + 1)
      /\ \A k \in 1..n : more[k] = es[k]
      /\ more[n + 1] = x
      /\ \A k \in 1..(n + 1) : \A j : Within(more, k, j) <=> Within(es, k, j)
  BY DEF Adds
<1>. HIDE DEF n
<1>2. \A k \in 1..(n + 1) : k \in 1..n \/ k = n + 1
  BY <1>1
<1>3. ASSUME NEW k \in 1..(n + 1)
      PROVE  /\ more[k].type \in {"row", "step_end"} =>
                   \E j \in Steps : Within(more, k, j)
             /\ more[k].type \in {"step_begin", "error"} =>
                   \A j \in Steps : ~Within(more, k, j)
             /\ more[k].type = "step_error" =>
                   \A j \in Steps : Within(more, k, j) => j = more[k].step
             /\ more[k].type = "error" => k = Len(more)
  <2>1. CASE k \in 1..n
    BY <1>1, <2>1 DEF Decodable, NotGivenUp
  <2>2. CASE k = n + 1
    BY <1>1, <2>2 DEF Fits, n
  <2>. QED
    BY <1>2, <2>1, <2>2
<1>4. ASSUME NEW k \in 1..(n + 1), NEW l \in 1..(n + 1), k < l,
             HasStep(more[k]), HasStep(more[l])
      PROVE  \/ more[k].step < more[l].step
             \/ more[l].type = "step_error" /\ Within(more, l, more[k].step)
  <2>1. k \in 1..n /\ more[k] = es[k]
    BY <1>1, <1>4
  <2>2. CASE l \in 1..n
    BY <1>1, <1>4, <2>1, <2>2 DEF Decodable
  <2>3. CASE l = n + 1
    <3>1. more[l] = x
      BY <1>1, <2>3
    <3>2. \/ es[k].step < x.step
          \/ x.type = "step_error" /\ Within(es, n + 1, es[k].step)
      BY <1>1, <1>4, <2>1, <3>1 DEF Fits, n
    <3>. QED
      BY <1>1, <2>1, <2>3, <3>1, <3>2
  <2>. QED
    BY <1>2, <2>2, <2>3
<1>. QED
  BY <1>1, <1>3, <1>4 DEF Decodable

\* What an added entry says of the steps.
LEMMA StepsGrow ==
    ASSUME NEW more, NEW es, NEW x, Adds(more, es, x)
    PROVE  /\ \A j : Failed(more, j)
                 <=> Failed(es, j) \/ (x.type = "step_error" /\ x.step = j)
           /\ \A j : Ended(more, j)
                 <=> \/ Ended(es, j)
                     \/ x.type = "step_end" /\ Within(es, Len(es) + 1, j)
           /\ \A n : Bounded(es, n) /\ (HasStep(x) => x.step < n)
                 => Bounded(more, n)
           /\ NotGivenUp(es) /\ x.type # "error" => NotGivenUp(more)
<1> DEFINE n == Len(es)
<1>1. /\ n \in Nat
      /\ DOMAIN es = 1..n
      /\ DOMAIN more = 1..(n + 1)
      /\ \A k \in 1..n : more[k] = es[k]
      /\ more[n + 1] = x
      /\ x \in Entry
      /\ \A k \in 1..(n + 1) : \A j : Within(more, k, j) <=> Within(es, k, j)
  BY DEF Adds
<1>. HIDE DEF n
<1>2. \A k \in 1..(n + 1) : k \in 1..n \/ k = n + 1
  BY <1>1
<1>3. \A k \in 1..n : k \in 1..(n + 1)
  BY <1>1
<1>4. n + 1 \in 1..(n + 1)
  BY <1>1
<1>5. ASSUME NEW j
      PROVE  Failed(more, j)
                 <=> Failed(es, j) \/ (x.type = "step_error" /\ x.step = j)
  <2> DEFINE err == [type |-> "step_error", step |-> j]
  <2>1. x = err <=> x.type = "step_error" /\ x.step = j
    BY <1>1, EntryFacts
  <2>. HIDE DEF err
  <2>2. (\E k \in 1..(n + 1) : more[k] = err)
           <=> (\E k \in 1..n : es[k] = err) \/ x = err
    BY <1>1, <1>2, <1>3, <1>4
  <2>. QED
    BY <1>1, <2>1, <2>2 DEF Failed, err
<1>6. ASSUME NEW j
      PROVE  Ended(more, j)
                 <=> \/ Ended(es, j)
                     \/ x.type = "step_end" /\ Within(es, n + 1, j)
  BY <1>1, <1>2, <1>3, <1>4 DEF Ended
<1>7. \A m : Bounded(es, m) /\ (HasStep(x) => x.step < m) => Bounded(more, m)
  BY <1>1, <1>2 DEF Bounded
<1>8. NotGivenUp(es) /\ x.type # "error" => NotGivenUp(more)
  BY <1>1, <1>2 DEF NotGivenUp
<1>. QED
  BY <1>5, <1>6, <1>7, <1>8 DEF n

\* The steps of the entries are numbers, hence below any larger bound.
LEMMA BoundedMore ==
    ASSUME NEW es \in Seq(Entry), NEW n \in Nat, Bounded(es, n)
    PROVE  Bounded(es, n + 1)
<1>1. ASSUME NEW k \in DOMAIN es, HasStep(es[k]) PROVE es[k].step < n + 1
  <2>1. es[k] \in Entry
    OBVIOUS
  <2>2. es[k].step \in Nat /\ es[k].step < n
    BY <1>1, <2>1, EntryFacts DEF Bounded
  <2>. QED
    BY <2>2
<1>. QED
  BY <1>1 DEF Bounded

\* A step opens behind entries that are in no step and name earlier ones.
LEMMA BeginFits ==
    ASSUME NEW es \in Seq(Entry), NEW more, NEW ok, NEW bad, NEW j \in Steps,
           Adds(more, es, [type |-> "step_begin", step |-> j]),
           Consistent(es, ok, bad, {}), NotGivenUp(es), Bounded(es, j)
    PROVE  /\ Consistent(more, ok, bad, {j})
           /\ NotGivenUp(more)
           /\ Bounded(more, j + 1)
<1> DEFINE x == [type |-> "step_begin", step |-> j]
<1>1. x.type = "step_begin" /\ x.step = j /\ Adds(more, es, x)
      /\ \A i : x = [type |-> "step_begin", step |-> i] => i = j
  OBVIOUS
<1>0. x = [type |-> "step_begin", step |-> j]
  OBVIOUS
<1>. HIDE DEF x
<1>2. Fits(es, x)
  BY <1>1 DEF Fits, Consistent, Bounded
<1>3. Decodable(more)
  BY <1>1, <1>2, DecodableGrows DEF Consistent
<1>4. \A i \in Steps : Within(more, Len(more) + 1, i) <=> i \in {j}
  <2>1. Len(more) + 1 = Len(es) + 2
    BY <1>1 DEF Adds
  <2>2. \A i : Within(more, Len(es) + 2, i)
                  <=> \/ x = [type |-> "step_begin", step |-> i]
                      \/ x.type = "row" /\ Within(es, Len(es) + 1, i)
    BY <1>1 DEF Adds
  <2>. QED
    BY <1>0, <1>1, <2>1, <2>2
<1>5. \A i \in Steps : (Failed(more, i) <=> i \in bad)
                       /\ (Ended(more, i) <=> i \in ok)
  BY <1>1, StepsGrow DEF Consistent
<1>6. NotGivenUp(more)
  BY <1>1, StepsGrow
<1>7. Bounded(more, j + 1)
  <2>1. j \in Nat /\ j < j + 1
    BY ConstantFacts DEF Steps
  <2>2. Bounded(es, j + 1)
    BY <2>1, BoundedMore
  <2>. QED
    BY <1>1, <2>1, <2>2, StepsGrow
<1>. QED
  BY <1>3, <1>4, <1>5, <1>6, <1>7 DEF Consistent

\* A row leaves its step open.
LEMMA RowFits ==
    ASSUME NEW es \in Seq(Entry), NEW more, NEW ok, NEW bad, NEW j \in Steps,
           NEW n,
           Adds(more, es, [type |-> "row"]),
           Consistent(es, ok, bad, {j}), NotGivenUp(es), Bounded(es, n)
    PROVE  /\ Consistent(more, ok, bad, {j})
           /\ NotGivenUp(more)
           /\ Bounded(more, n)
<1> DEFINE x == [type |-> "row"]
<1>1. x.type = "row" /\ Adds(more, es, x) /\ ~HasStep(x)
  BY DEF HasStep
<1>. HIDE DEF x
<1>2. Fits(es, x)
  BY <1>1 DEF Fits, Consistent
<1>3. Decodable(more)
  BY <1>1, <1>2, DecodableGrows DEF Consistent
<1>4. \A i \in Steps : Within(more, Len(more) + 1, i) <=> i \in {j}
  <2>1. Len(more) + 1 = Len(es) + 2
    BY <1>1 DEF Adds
  <2>2. \A i : Within(more, Len(es) + 2, i)
                  <=> \/ x = [type |-> "step_begin", step |-> i]
                      \/ x.type = "row" /\ Within(es, Len(es) + 1, i)
    BY <1>1 DEF Adds
  <2>3. \A i : x # [type |-> "step_begin", step |-> i]
    BY <1>1
  <2>. QED
    BY <1>1, <2>1, <2>2, <2>3 DEF Consistent
<1>5. \A i \in Steps : (Failed(more, i) <=> i \in bad)
                       /\ (Ended(more, i) <=> i \in ok)
  BY <1>1, StepsGrow DEF Consistent
<1>6. NotGivenUp(more) /\ Bounded(more, n)
  BY <1>1, StepsGrow
<1>. QED
  BY <1>3, <1>4, <1>5, <1>6 DEF Consistent

\* The end of a step says that the open step has a result.
LEMMA EndFits ==
    ASSUME NEW es \in Seq(Entry), NEW more, NEW ok, NEW bad, NEW j \in Steps,
           NEW n,
           Adds(more, es, [type |-> "step_end"]),
           Consistent(es, ok, bad, {j}), NotGivenUp(es), Bounded(es, n)
    PROVE  /\ Consistent(more, ok \cup {j}, bad, {})
           /\ NotGivenUp(more)
           /\ Bounded(more, n)
<1> DEFINE x == [type |-> "step_end"]
<1>1. x.type = "step_end" /\ Adds(more, es, x) /\ ~HasStep(x)
  BY DEF HasStep
<1>. HIDE DEF x
<1>2. Fits(es, x)
  BY <1>1 DEF Fits, Consistent
<1>3. Decodable(more)
  BY <1>1, <1>2, DecodableGrows DEF Consistent
<1>4. \A i \in Steps : ~Within(more, Len(more) + 1, i)
  <2>1. Len(more) + 1 = Len(es) + 2
    BY <1>1 DEF Adds
  <2>2. \A i : Within(more, Len(es) + 2, i)
                  <=> \/ x = [type |-> "step_begin", step |-> i]
                      \/ x.type = "row" /\ Within(es, Len(es) + 1, i)
    BY <1>1 DEF Adds
  <2>3. \A i : x # [type |-> "step_begin", step |-> i]
    BY <1>1
  <2>. QED
    BY <1>1, <2>1, <2>2, <2>3
<1>5. \A i \in Steps : (Failed(more, i) <=> i \in bad)
                       /\ (Ended(more, i) <=> i \in ok \cup {j})
  BY <1>1, StepsGrow DEF Consistent
<1>6. NotGivenUp(more) /\ Bounded(more, n)
  BY <1>1, StepsGrow
<1>. QED
  BY <1>3, <1>4, <1>5, <1>6 DEF Consistent

\* An error of a step ends the step, if it was open.
LEMMA ErrorFits ==
    ASSUME NEW es \in Seq(Entry), NEW more, NEW ok, NEW bad, NEW j \in Steps,
           NEW open,
           Adds(more, es, [type |-> "step_error", step |-> j]),
           Consistent(es, ok, bad, open), NotGivenUp(es),
           \/ open = {} /\ Bounded(es, j)
           \/ open = {j} /\ Bounded(es, j + 1)
    PROVE  /\ Consistent(more, ok, bad \cup {j}, {})
           /\ NotGivenUp(more)
           /\ Bounded(more, j + 1)
<1> DEFINE x == [type |-> "step_error", step |-> j]
<1>1. x.type = "step_error" /\ x.step = j /\ Adds(more, es, x)
  OBVIOUS
<1>. HIDE DEF x
<1>0. j \in Nat /\ j < j + 1
  BY ConstantFacts DEF Steps
<1>2. Fits(es, x)
  <2>1. \A i \in Steps : Within(es, Len(es) + 1, i) => i = j
    BY DEF Consistent
  <2>2. ASSUME NEW k \in DOMAIN es, HasStep(es[k])
        PROVE  es[k].step < j \/ Within(es, Len(es) + 1, es[k].step)
    <3>1. CASE open = {} /\ Bounded(es, j)
      BY <2>2, <3>1 DEF Bounded
    <3>2. CASE open = {j} /\ Bounded(es, j + 1)
      <4>1. es[k] \in Entry
        OBVIOUS
      <4>2. es[k].step \in Nat /\ es[k].step < j + 1
        BY <2>2, <3>2, <4>1, EntryFacts DEF Bounded
      <4>3. Within(es, Len(es) + 1, j)
        BY <3>2 DEF Consistent
      <4>. QED
        BY <1>0, <4>2, <4>3
    <3>. QED
      BY <3>1, <3>2
  <2>. QED
    BY <1>1, <2>1, <2>2 DEF Fits
<1>3. Decodable(more)
  BY <1>1, <1>2, DecodableGrows DEF Consistent
<1>4. \A i \in Steps : ~Within(more, Len(more) + 1, i)
  <2>1. Len(more) + 1 = Len(es) + 2
    BY <1>1 DEF Adds
  <2>2. \A i : Within(more, Len(es) + 2, i)
                  <=> \/ x = [type |-> "step_begin", step |-> i]
                      \/ x.type = "row" /\ Within(es, Len(es) + 1, i)
    BY <1>1 DEF Adds
  <2>3. \A i : x # [type |-> "step_begin", step |-> i]
    BY <1>1
  <2>. QED
    BY <1>1, <2>1, <2>2, <2>3
<1>5. \A i \in Steps : (Failed(more, i) <=> i \in bad \cup {j})
                       /\ (Ended(more, i) <=> i \in ok)
  BY <1>1, StepsGrow DEF Consistent
<1>6. NotGivenUp(more)
  BY <1>1, StepsGrow
<1>7. Bounded(more, j + 1)
  <2>1. Bounded(es, j + 1)
    BY <1>0, BoundedMore
  <2>. QED
    BY <1>0, <1>1, <2>1, StepsGrow
<1>. QED
  BY <1>3, <1>4, <1>5, <1>6, <1>7 DEF Consistent

\* An entry of type error comes outside the steps and says nothing of them.
LEMMA FailureFits ==
    ASSUME NEW es \in Seq(Entry), NEW more, NEW ok, NEW bad, NEW n,
           Adds(more, es, [type |-> "error"]),
           Consistent(es, ok, bad, {}), NotGivenUp(es), Bounded(es, n)
    PROVE  Consistent(more, ok, bad, {}) /\ Bounded(more, n)
<1> DEFINE x == [type |-> "error"]
<1>1. x.type = "error" /\ Adds(more, es, x) /\ ~HasStep(x)
  BY DEF HasStep
<1>. HIDE DEF x
<1>2. Fits(es, x)
  BY <1>1 DEF Fits, Consistent
<1>3. Decodable(more)
  BY <1>1, <1>2, DecodableGrows DEF Consistent
<1>4. \A i \in Steps : ~Within(more, Len(more) + 1, i)
  <2>1. Len(more) + 1 = Len(es) + 2
    BY <1>1 DEF Adds
  <2>2. \A i : Within(more, Len(es) + 2, i)
                  <=> \/ x = [type |-> "step_begin", step |-> i]
                      \/ x.type = "row" /\ Within(es, Len(es) + 1, i)
    BY <1>1 DEF Adds
  <2>3. \A i : x # [type |-> "step_begin", step |-> i]
    BY <1>1
  <2>. QED
    BY <1>1, <2>1, <2>2, <2>3
<1>5. \A i \in Steps : (Failed(more, i) <=> i \in bad)
                       /\ (Ended(more, i) <=> i \in ok)
  BY <1>1, StepsGrow DEF Consistent
<1>6. Bounded(more, n)
  BY <1>1, StepsGrow
<1>. QED
  BY <1>3, <1>4, <1>5, <1>6 DEF Consistent

-----------------------------------------------------------------------------
(* The invariant is kept *)

BatchInv == IInv /\ EntryInv /\ CondInv

\* What the proofs below need of the types.
LEMMA StateFacts ==
    ASSUME IInv
    PROVE  /\ entries \in Seq(Entry)
           /\ pos \in Nat
           /\ results \subseteq Steps
           /\ errors \subseteq Steps
           /\ pc \in {"cond", "check", "run", "rows"} => pos \in Steps
           /\ \A k \in results \cup errors : k \in Nat
<1>1. pos \in Nat /\ size \in Nat /\ size <= MaxSteps
  BY ConstantFacts DEF IInv, TypeOK
<1>2. pc \in {"cond", "check", "run", "rows"} => pos < size
  BY DEF IInv, PlaceInv
<1>3. results \subseteq Steps /\ errors \subseteq Steps
      /\ entries \in Seq(Entry)
  BY DEF IInv, TypeOK
<1>4. \A k \in Steps : k \in Nat
  BY ConstantFacts DEF Steps
<1>. QED
  BY <1>1, <1>2, <1>3, <1>4, ConstantFacts DEF Steps

\* No entries say nothing.
LEMMA NothingSaid ==
    /\ Consistent(<<>>, {}, {}, {})
    /\ \A n : Bounded(<<>>, n)
    /\ NotGivenUp(<<>>)
<1>1. DOMAIN <<>> = {} /\ Len(<<>>) = 0
  OBVIOUS
<1>2. \A j : ~Within(<<>>, 1, j)
  BY DEF Within
<1>. QED
  BY <1>1, <1>2 DEF Consistent, Decodable, Failed, Ended, Bounded, NotGivenUp

\* A cursor emits one entry.
LEMMA EmitAdds ==
    ASSUME IInv, req = "cursor", NEW x \in Entry, Emit(<<x>>)
    PROVE  Adds(entries', entries, x)
<1>1. entries \in Seq(Entry)
  BY StateFacts
<1>2. entries' = entries \o <<x>>
  BY DEF Emit
<1>3. entries' = Append(entries, x)
  BY <1>1, <1>2
<1>. QED
  BY <1>1, <1>3, AppendAdds

\* Only a cursor has entries.
LEMMA OtherKeeps ==
    ASSUME EntryInv, req # "cursor", req' = req, entries' = entries
    PROVE  EntryInv'
  BY NothingSaid DEF EntryInv

\* Emit says nothing outside a cursor.
LEMMA EmitKeeps ==
    ASSUME EntryInv, req # "cursor", req' = req, NEW es, Emit(es)
    PROVE  EntryInv'
  BY OtherKeeps DEF Emit

\* A step of the loop that enters and emits nothing.
LEMMA QuietKeeps ==
    ASSUME IInv, EntryInv, pc \notin {"rows", "answered"}, pc' # "rows",
           req' = req, entries' = entries, results' = results,
           errors' = errors, pos' = pos \/ pos' = pos + 1
    PROVE  EntryInv'
<1>1. entries \in Seq(Entry) /\ pos \in Nat
  BY StateFacts
<1>2. Bounded(entries, pos)
  BY DEF EntryInv
<1>3. Bounded(entries, pos + 1)
  BY <1>1, <1>2, BoundedMore
<1>4. Bounded(entries', IF pc' = "rows" THEN pos' + 1 ELSE pos')
  BY <1>2, <1>3
<1>5. req' = "cursor" => Consistent(entries', results', errors',
                             IF pc' = "rows" THEN {pos'} ELSE {})
  BY DEF EntryInv
<1>. QED
  BY <1>4, <1>5 DEF EntryInv

\* Between two steps.
LEMMA BetweenSteps ==
    ASSUME req' = "cursor", pc' # "rows",
           Consistent(entries', results', errors', {}),
           NotGivenUp(entries'), Bounded(entries', pos')
    PROVE  EntryInv'
  BY DEF EntryInv

\* A step fails before it is open or while it is.
LEMMA FailKeeps ==
    ASSUME IInv, EntryInv, req \in {"stmt", "batch", "cursor"},
           pc \in {"check", "run", "rows"}, req' = req,
           Emit(<<StepEntry("step_error")>>), StepFails
    PROVE  EntryInv'
<1>1. CASE req # "cursor"
  BY <1>1, EmitKeeps
<1>2. CASE req = "cursor"
  <2>. DEFINE x == [type |-> "step_error", step |-> pos]
              open == IF pc = "rows" THEN {pos} ELSE {}
  <2>1. pos \in Steps /\ pos \in Nat /\ entries \in Seq(Entry)
    BY StateFacts
  <2>2. x \in Entry
    BY <2>1 DEF Entry
  <2>3. StepEntry("step_error") = x
    BY DEF StepEntry
  <2>4. Adds(entries', entries, x)
    BY <1>2, <2>2, <2>3, EmitAdds
  <2>5. /\ Consistent(entries, results, errors, open)
        /\ NotGivenUp(entries)
        /\ \/ open = {} /\ Bounded(entries, pos)
           \/ open = {pos} /\ Bounded(entries, pos + 1)
    BY <1>2 DEF EntryInv
  <2>. HIDE DEF open
  <2>6. /\ Consistent(entries', results, errors \cup {pos}, {})
        /\ NotGivenUp(entries')
        /\ Bounded(entries', pos + 1)
    BY <2>1, <2>4, <2>5, ErrorFits
  <2>7. /\ results' = results
        /\ errors' = errors \cup {pos}
        /\ pos' = pos + 1
        /\ pc' = "next"
    BY <1>2 DEF StepFails, StepOver, Looping
  <2>8. /\ Consistent(entries', results', errors', {})
        /\ Bounded(entries', pos')
    BY <2>6, <2>7
  <2>. QED
    BY <1>2, <2>6, <2>7, <2>8, BetweenSteps
<1>. QED
  BY <1>1, <1>2

\* A step that is open succeeds.
LEMMA EndKeeps ==
    ASSUME IInv, EntryInv, pc = "rows", req' = req,
           Emit(<<PlainEntry("step_end")>>), StepSucceeds
    PROVE  EntryInv'
<1>1. CASE req # "cursor"
  BY <1>1, EmitKeeps
<1>2. CASE req = "cursor"
  <2>. DEFINE x == [type |-> "step_end"]
  <2>1. pos \in Steps /\ pos \in Nat /\ entries \in Seq(Entry)
    BY StateFacts
  <2>2. x \in Entry
    BY DEF Entry
  <2>3. PlainEntry("step_end") = x
    BY DEF PlainEntry
  <2>4. Adds(entries', entries, x)
    BY <1>2, <2>2, <2>3, EmitAdds
  <2>5. /\ Consistent(entries, results, errors, {pos})
        /\ NotGivenUp(entries)
        /\ Bounded(entries, pos + 1)
    BY <1>2 DEF EntryInv
  <2>6. /\ Consistent(entries', results \cup {pos}, errors, {})
        /\ NotGivenUp(entries')
        /\ Bounded(entries', pos + 1)
    BY <2>1, <2>4, <2>5, EndFits
  <2>7. /\ results' = results \cup {pos}
        /\ errors' = errors
        /\ pos' = pos + 1
        /\ pc' = "next"
    BY <1>2 DEF StepSucceeds, StepOver, Looping
  <2>8. /\ Consistent(entries', results', errors', {})
        /\ Bounded(entries', pos')
    BY <2>6, <2>7
  <2>. QED
    BY <1>2, <2>6, <2>7, <2>8, BetweenSteps
<1>. QED
  BY <1>1, <1>2

\* A step that is opened and ended at once.
LEMMA BeginEndKeeps ==
    ASSUME IInv, EntryInv, pc = "run", req' = req,
           Emit(<<StepEntry("step_begin"), PlainEntry("step_end")>>),
           StepSucceeds
    PROVE  EntryInv'
<1>1. CASE req # "cursor"
  BY <1>1, EmitKeeps
<1>2. CASE req = "cursor"
  <2>. DEFINE b == [type |-> "step_begin", step |-> pos]
              x == [type |-> "step_end"]
              opened == Append(entries, b)
  <2>1. pos \in Steps /\ pos \in Nat /\ entries \in Seq(Entry)
    BY StateFacts
  <2>2. b \in Entry /\ x \in Entry
    BY <2>1 DEF Entry
  <2>3. entries' = entries \o <<b, x>>
    BY <1>2 DEF Emit, StepEntry, PlainEntry
  <2>. HIDE DEF b, x
  <2>4. entries' = Append(opened, x)
    BY <2>1, <2>2, <2>3
  <2>5. Adds(opened, entries, b) /\ opened \in Seq(Entry)
    BY <2>1, <2>2, AppendAdds DEF Adds
  <2>. HIDE DEF opened
  <2>6. Adds(entries', opened, x)
    BY <2>2, <2>4, <2>5, AppendAdds
  <2>7. /\ Consistent(entries, results, errors, {})
        /\ NotGivenUp(entries)
        /\ Bounded(entries, pos)
    BY <1>2 DEF EntryInv
  <2>8. /\ Consistent(opened, results, errors, {pos})
        /\ NotGivenUp(opened)
        /\ Bounded(opened, pos + 1)
    BY <2>1, <2>5, <2>7, BeginFits DEF b
  <2>9. /\ Consistent(entries', results \cup {pos}, errors, {})
        /\ NotGivenUp(entries')
        /\ Bounded(entries', pos + 1)
    BY <2>1, <2>5, <2>6, <2>8, EndFits DEF x
  <2>10. /\ results' = results \cup {pos}
         /\ errors' = errors
         /\ pos' = pos + 1
         /\ pc' = "next"
    BY <1>2 DEF StepSucceeds, StepOver, Looping
  <2>11. /\ Consistent(entries', results', errors', {})
         /\ Bounded(entries', pos')
    BY <2>9, <2>10
  <2>. QED
    BY <1>2, <2>9, <2>10, <2>11, BetweenSteps
<1>. QED
  BY <1>1, <1>2

\* A request begins with no entries.
LEMMA BeginKeepsEntries ==
    ASSUME IInv, EntryInv, NEW r \in Requests, NEW n, Begin(r, n)
    PROVE  EntryInv'
<1>1. /\ req # "cursor" /\ entries' = <<>>
      /\ results' = {} /\ errors' = {} /\ pc' = "next"
  <2>1. req = Null
    BY DEF IInv, PlaceInv, Begin
  <2>2. req # "cursor"
    BY <2>1, ConstantFacts DEF Requests
  <2>3. errors = {}
    BY DEF IInv, PlaceInv, AnswerInv, TypeOK, Begin
  <2>. QED
    BY <2>2, <2>3 DEF EntryInv, IInv, PlaceInv, Begin
<1>2. CASE r # "cursor"
  BY <1>1, <1>2, NothingSaid DEF EntryInv, Begin
<1>3. CASE r = "cursor"
  <2>1. /\ Consistent(entries', results', errors', {})
        /\ NotGivenUp(entries')
        /\ Bounded(entries', pos')
    BY <1>1, NothingSaid
  <2>. QED
    BY <1>1, <1>3, <2>1, BetweenSteps DEF Begin
<1>. QED
  BY <1>2, <1>3

\* A cursor whose condition fails ends with an entry of type error.
LEMMA GivingUpKeepsEntries ==
    ASSUME IInv, EntryInv, ConditionFails
    PROVE  EntryInv'
<1>1. /\ pc = "cond" /\ pc' = "answered" /\ req' = req /\ pos' = pos
      /\ results' = results /\ errors' = errors
      /\ Emit(<<PlainEntry("error")>>)
  BY DEF ConditionFails, Answer
<1>2. CASE req # "cursor"
  BY <1>1, <1>2, EmitKeeps
<1>3. CASE req = "cursor"
  <2>. DEFINE x == [type |-> "error"]
  <2>1. pos \in Nat /\ entries \in Seq(Entry)
    BY StateFacts
  <2>2. x \in Entry
    BY DEF Entry
  <2>3. PlainEntry("error") = x
    BY DEF PlainEntry
  <2>4. Adds(entries', entries, x)
    BY <1>1, <1>3, <2>2, <2>3, EmitAdds
  <2>5. /\ Consistent(entries, results, errors, {})
        /\ NotGivenUp(entries)
        /\ Bounded(entries, pos)
    BY <1>1, <1>3 DEF EntryInv
  <2>6. /\ Consistent(entries', results, errors, {})
        /\ Bounded(entries', pos)
    BY <2>1, <2>4, <2>5, FailureFits
  <2>7. /\ Consistent(entries', results', errors', {})
        /\ Bounded(entries', pos')
    BY <1>1, <2>6
  <2>. QED
    BY <1>1, <1>3, <2>7 DEF EntryInv
<1>. QED
  BY <1>2, <1>3

\* A query opens its step.
LEMMA QueryStartsKeepsEntries ==
    ASSUME IInv, EntryInv, QueryStarts
    PROVE  EntryInv'
<1>1. /\ pc = "run" /\ pc' = "rows" /\ req' = req /\ pos' = pos
      /\ results' = results /\ errors' = errors
      /\ Emit(<<StepEntry("step_begin")>>)
  BY DEF QueryStarts
<1>2. CASE req # "cursor"
  BY <1>1, <1>2, EmitKeeps
<1>3. CASE req = "cursor"
  <2>. DEFINE x == [type |-> "step_begin", step |-> pos]
  <2>1. pos \in Steps /\ pos \in Nat /\ entries \in Seq(Entry)
    BY <1>1, StateFacts
  <2>2. x \in Entry
    BY <2>1 DEF Entry
  <2>3. StepEntry("step_begin") = x
    BY DEF StepEntry
  <2>4. Adds(entries', entries, x)
    BY <1>1, <1>3, <2>2, <2>3, EmitAdds
  <2>5. /\ Consistent(entries, results, errors, {})
        /\ NotGivenUp(entries)
        /\ Bounded(entries, pos)
    BY <1>1, <1>3 DEF EntryInv
  <2>6. /\ Consistent(entries', results, errors, {pos})
        /\ NotGivenUp(entries')
        /\ Bounded(entries', pos + 1)
    BY <2>1, <2>4, <2>5, BeginFits
  <2>7. /\ Consistent(entries', results', errors', {pos'})
        /\ Bounded(entries', pos' + 1)
    BY <1>1, <2>6
  <2>. QED
    BY <1>1, <1>3, <2>6, <2>7 DEF EntryInv
<1>. QED
  BY <1>2, <1>3

\* A row is emitted inside its step.
LEMMA ReadRowKeepsEntries ==
    ASSUME IInv, EntryInv, ReadRow
    PROVE  EntryInv'
<1>1. /\ pc = "rows" /\ pc' = "rows" /\ req' = req /\ pos' = pos
      /\ results' = results /\ errors' = errors
      /\ Emit(<<PlainEntry("row")>>)
  BY DEF ReadRow
<1>2. CASE req # "cursor"
  BY <1>1, <1>2, EmitKeeps
<1>3. CASE req = "cursor"
  <2>. DEFINE x == [type |-> "row"]
  <2>1. pos \in Steps /\ pos \in Nat /\ entries \in Seq(Entry)
    BY <1>1, StateFacts
  <2>2. x \in Entry
    BY DEF Entry
  <2>3. PlainEntry("row") = x
    BY DEF PlainEntry
  <2>4. Adds(entries', entries, x)
    BY <1>1, <1>3, <2>2, <2>3, EmitAdds
  <2>5. /\ Consistent(entries, results, errors, {pos})
        /\ NotGivenUp(entries)
        /\ Bounded(entries, pos + 1)
    BY <1>1, <1>3 DEF EntryInv
  <2>6. /\ Consistent(entries', results, errors, {pos})
        /\ NotGivenUp(entries')
        /\ Bounded(entries', pos + 1)
    BY <2>1, <2>4, <2>5, RowFits
  <2>7. /\ Consistent(entries', results', errors', {pos'})
        /\ Bounded(entries', pos' + 1)
    BY <1>1, <2>6
  <2>. QED
    BY <1>1, <1>3, <2>6, <2>7 DEF EntryInv
<1>. QED
  BY <1>2, <1>3

\* The entries of a request agree with its two arrays and can be decoded.
LEMMA NextKeepsEntries ==
    ASSUME IInv, EntryInv, [Next]_vars
    PROVE  EntryInv'
<1>1. ASSUME NEW r \in Requests, NEW n, Begin(r, n)
      PROVE  EntryInv'
  BY <1>1, BeginKeepsEntries
<1>2. ASSUME NEW s \in Stmts, NextStmt(s) PROVE EntryInv'
  <2>1. /\ pc = "next" /\ pc' = "check" /\ req' = req /\ pos' = pos
        /\ entries' = entries /\ results' = results /\ errors' = errors
    BY <1>2 DEF NextStmt
  <2>. QED
    BY <2>1, QuietKeeps
<1>3. ASSUME NEW c \in Conds \cup {Null}, NEW s \in Stmts, NextStep(c, s)
      PROVE  EntryInv'
  <2>1. /\ pc = "next" /\ pc' = "cond" /\ req' = req /\ pos' = pos
        /\ entries' = entries /\ results' = results /\ errors' = errors
    BY <1>3 DEF NextStep
  <2>. QED
    BY <2>1, QuietKeeps
<1>4. CASE LoopEnds
  <2>1. /\ pc = "next" /\ pc' = "answered" /\ req' = req /\ pos' = pos
        /\ entries' = entries /\ results' = results /\ errors' = errors
    BY <1>4 DEF LoopEnds, Answer
  <2>. QED
    BY <2>1, QuietKeeps
<1>5. CASE ConditionHolds
  <2>1. /\ pc = "cond" /\ pc' = "check" /\ req' = req /\ pos' = pos
        /\ entries' = entries /\ results' = results /\ errors' = errors
    BY <1>5 DEF ConditionHolds
  <2>. QED
    BY <2>1, QuietKeeps
<1>6. CASE ConditionSkips
  <2>1. /\ pc = "cond" /\ pc' # "rows" /\ req' = req
        /\ pos' = pos \/ pos' = pos + 1
        /\ entries' = entries /\ results' = results /\ errors' = errors
    BY <1>6 DEF ConditionSkips, StepOver
  <2>. QED
    BY <2>1, QuietKeeps
<1>7. CASE ConditionFails
  BY <1>7, GivingUpKeepsEntries
<1>8. CASE CheckFails
  BY <1>8, FailKeeps DEF CheckFails
<1>9. CASE CheckPasses
  <2>1. /\ pc = "check" /\ pc' = "run" /\ req' = req /\ pos' = pos
        /\ entries' = entries /\ results' = results /\ errors' = errors
    BY <1>9 DEF CheckPasses
  <2>. QED
    BY <2>1, QuietKeeps
<1>10. ASSUME NEW ok \in BOOLEAN, Exec(ok) PROVE EntryInv'
  <2>1. req \in {"stmt", "batch", "cursor"} /\ pc = "run" /\ req' = req
    BY <1>10 DEF IInv, PlaceInv, Exec
  <2>2. CASE ok
    BY <1>10, <2>1, <2>2, BeginEndKeeps DEF Exec
  <2>3. CASE ~ok
    BY <1>10, <2>1, <2>3, FailKeeps DEF Exec
  <2>. QED
    BY <2>2, <2>3
<1>11. CASE QueryFails
  <2>1. req \in {"stmt", "batch", "cursor"} /\ pc = "run" /\ req' = req
    BY <1>11 DEF IInv, PlaceInv, QueryFails
  <2>. QED
    BY <1>11, <2>1, FailKeeps DEF QueryFails
<1>12. CASE QueryStarts
  BY <1>12, QueryStartsKeepsEntries
<1>13. CASE ReadRow
  BY <1>13, ReadRowKeepsEntries
<1>14. CASE RowsEnd
  BY <1>14, EndKeeps DEF RowsEnd
<1>15. CASE RowsBreakOff
  <2>1. req \in {"stmt", "batch", "cursor"} /\ pc = "rows" /\ req' = req
    BY <1>15 DEF IInv, PlaceInv, RowsBreakOff
  <2>. QED
    BY <1>15, <2>1, FailKeeps DEF RowsBreakOff
<1>16. CASE PieceEmpty \/ PieceRefused
  BY <1>16, OtherKeeps DEF PieceEmpty, PieceRefused
<1>17. ASSUME NEW ok \in BOOLEAN, PieceRuns(ok) \/ Describe(ok)
       PROVE  EntryInv'
  BY <1>17, OtherKeeps DEF PieceRuns, Describe
<1>18. CASE Return
  <2>1. req' = Null /\ entries' = <<>> /\ Null # "cursor"
    BY <1>18, ConstantFacts DEF Return, Requests
  <2>. QED
    BY <2>1, NothingSaid DEF EntryInv
<1>19. CASE UNCHANGED vars
  BY <1>19 DEF vars, EntryInv
<1>. QED
  <2>1. {"batch", "cursor", "sequence", "stmt", "describe"} \subseteq Requests
    BY DEF Requests
  <2>. QED
    BY <1>1, <1>2, <1>3, <1>4, <1>5, <1>6, <1>7, <1>8, <1>9, <1>10, <1>11,
       <1>12, <1>13, <1>14, <1>15, <1>16, <1>17, <1>18, <1>19, <2>1 DEF Next

\* While a step is executed its condition and the two arrays do not change.
LEMMA NextKeepsCond ==
    ASSUME IInv, CondInv, [Next]_vars
    PROVE  CondInv'
<1>1. ASSUME pc' \in {"idle", "next", "answered"},
             (pc' \in {"idle", "next"} \/ req' \notin Looping) => cond' = Null
      PROVE  CondInv'
  BY <1>1 DEF CondInv
<1>2. ASSUME pc' \in {"check", "run", "rows"}, pc \in {"check", "run", "rows"},
             req' = req, cond' = cond, results' = results, errors' = errors
      PROVE  CondInv'
  BY <1>2 DEF CondInv, CondValue
<1>3. ASSUME NEW r \in Requests, NEW n, Begin(r, n)
      PROVE  CondInv'
  <2>1. pc' = "next" /\ cond' = Null
    BY <1>3 DEF Begin, CondInv
  <2>. QED
    BY <1>1, <2>1
<1>4. ASSUME NEW s \in Stmts, NextStmt(s) PROVE CondInv'
  BY <1>4 DEF NextStmt, CondInv
<1>5. ASSUME NEW c \in Conds \cup {Null}, NEW s \in Stmts, NextStep(c, s)
      PROVE  CondInv'
  BY <1>5 DEF NextStep, CondInv
<1>6. CASE LoopEnds
  BY <1>6 DEF LoopEnds, Answer, CondInv
<1>7. CASE ConditionHolds
  <2>1. /\ req' = req /\ cond' = cond /\ results' = results
        /\ errors' = errors /\ pc' = "check" /\ CondValue = "true"
    BY <1>7 DEF ConditionHolds
  <2>2. CondValue' = CondValue
    BY <2>1 DEF CondValue
  <2>. QED
    BY <2>1, <2>2 DEF CondInv
<1>8. CASE ConditionFails
  BY <1>8 DEF ConditionFails, Answer, CondInv
<1>9. ASSUME NEW answer, StepOver(answer) PROVE CondInv'
  BY <1>9 DEF StepOver, CondInv
<1>10. CASE \/ ConditionSkips \/ CheckFails \/ QueryFails
            \/ RowsEnd \/ RowsBreakOff
  BY <1>9, <1>10 DEF ConditionSkips, CheckFails, QueryFails, RowsEnd,
     RowsBreakOff, StepSucceeds, StepFails
<1>11. ASSUME NEW ok \in BOOLEAN, Exec(ok) PROVE CondInv'
  BY <1>9, <1>11 DEF Exec, StepSucceeds, StepFails
<1>12. CASE CheckPasses \/ QueryStarts \/ ReadRow
  BY <1>2, <1>12 DEF CheckPasses, QueryStarts, ReadRow
<1>13. CASE PieceEmpty \/ PieceRefused
  BY <1>13 DEF PieceEmpty, PieceRefused, Answer, CondInv, Looping
<1>14. ASSUME NEW ok \in BOOLEAN, PieceRuns(ok) \/ Describe(ok)
       PROVE  CondInv'
  BY <1>14 DEF PieceRuns, Describe, Answer, CondInv, Looping
<1>15. CASE Return
  BY <1>1, <1>15 DEF Return
<1>16. CASE UNCHANGED vars
  BY <1>16 DEF vars, CondInv, CondValue
<1>. QED
  <2>1. {"batch", "cursor", "sequence", "stmt", "describe"} \subseteq Requests
    BY DEF Requests
  <2>. QED
    BY <1>3, <1>4, <1>5, <1>6, <1>7, <1>8, <1>10, <1>11, <1>12, <1>13,
       <1>14, <1>15, <1>16, <2>1 DEF Next

\* The invariant holds in every reachable state.
LEMMA BatchInvariance == Spec => []BatchInv
<1>1. Init => BatchInv
  <2>1. Init => IInv
    BY InitIInv
  <2>2. Init => EntryInv
    <3>. SUFFICES ASSUME Init PROVE EntryInv
      OBVIOUS
    <3>1. req # "cursor"
      BY ConstantFacts DEF Init, Requests
    <3>. QED
      BY <3>1, NothingSaid DEF Init, EntryInv
  <2>3. Init => CondInv
    BY DEF Init, CondInv
  <2>. QED
    BY <2>1, <2>2, <2>3 DEF BatchInv
<1>2. BatchInv /\ [Next]_vars => BatchInv'
  BY NextKeeps, NextKeepsEntries, NextKeepsCond DEF BatchInv
<1>. QED
  BY <1>1, <1>2, PTL DEF Spec

-----------------------------------------------------------------------------
(* Theorems *)

\* The entries of a cursor over a batch of any length, with any numbers of
\* rows, can be decoded: rows and ends only inside a step, steps in order,
\* an error inside a step names it, and an entry of type error is the last
\* (executor.go:362-487).
THEOREM CursorDecodable == Spec => []CursorGrammar
<1>1. BatchInv => CursorGrammar
  <2>. SUFFICES ASSUME BatchInv PROVE CursorGrammar
    OBVIOUS
  <2>0. IInv /\ EntryInv
    BY DEF BatchInv
  <2>1. entries \in Seq(Entry)
    BY <2>0, StateFacts
  <2>2. Decodable(entries)
    BY <2>0, NothingSaid DEF EntryInv, Consistent
  <2>3. pc = "answered" =>
           \A j \in Steps : ~Within(entries, Len(entries) + 1, j)
    BY <2>0, NothingSaid DEF EntryInv, Consistent
  <2>4. \A k, j : Opened(k, j) <=> Within(entries, k, j)
    BY DEF Opened, Within
  <2>5. \A k \in DOMAIN entries :
           HasStep(entries[k]) <=> "step" \in DOMAIN entries[k]
    BY <2>1, EntryFacts
  <2>6. \A k \in DOMAIN entries :
          /\ entries[k].type \in {"row", "step_end"} =>
                \E j \in Steps : Opened(k, j)
          /\ entries[k].type \in {"step_begin", "error"} =>
                \A j \in Steps : ~Opened(k, j)
          /\ entries[k].type = "step_error" =>
                \A j \in Steps : Opened(k, j) => j = entries[k].step
          /\ entries[k].type = "error" => k = Len(entries)
    BY <2>2, <2>4 DEF Decodable
  <2>7. \A k, l \in DOMAIN entries :
          /\ k < l
          /\ "step" \in DOMAIN entries[k]
          /\ "step" \in DOMAIN entries[l]
          => \/ entries[k].step < entries[l].step
             \/ entries[l].type = "step_error" /\ Opened(l, entries[k].step)
    BY <2>2, <2>4, <2>5 DEF Decodable
  <2>. QED
    BY <2>3, <2>4, <2>6, <2>7 DEF CursorGrammar
<1>. QED
  BY <1>1, BatchInvariance, PTL

-----------------------------------------------------------------------------
(* Executor implements BatchPromise *)

\* The outcome of a step as the two arrays have it, in both forms.
Plain(k) ==
    IF req \notin Looping \/ k >= pos THEN "todo" ELSE ArrayOutcome(k)

\* The entries of a cursor say the same as the arrays.
LEMMA OutcomePlain ==
    BatchInv => [k \in Steps |-> Outcome(k)] = [k \in Steps |-> Plain(k)]
<1>. SUFFICES ASSUME BatchInv, NEW k \in Steps
              PROVE  Outcome(k) = Plain(k)
  OBVIOUS
<1>1. CASE req # "cursor"
  BY <1>1 DEF Outcome, Plain
<1>2. CASE req = "cursor"
  <2>1. (Failed(entries, k) <=> k \in errors)
        /\ (Ended(entries, k) <=> k \in results)
    BY <1>2 DEF BatchInv, EntryInv, Consistent
  <2>2. \A e : Opened(e, k) <=> Within(entries, e, k)
    BY DEF Opened, Within
  <2>3. EntryOutcome(k) = ArrayOutcome(k)
    BY <2>1, <2>2 DEF EntryOutcome, ArrayOutcome, Failed, Ended
  <2>. QED
    BY <1>2, <2>3 DEF Outcome, Plain
<1>. QED
  BY <1>1, <1>2

\* The outcomes while a batch is executed.
LEMMA OutcomeFacts ==
    ASSUME BatchInv, req \in Looping
    PROVE  /\ \A k \in Steps :
                 Outcome(k) \in {"todo", "ok", "error", "skipped"}
           /\ \A k \in Steps : Outcome(k) = "todo" <=> k >= pos
           /\ \A k \in Steps : Outcome(k) = "ok" <=> k \in results
           /\ \A k \in Steps : Outcome(k) = "error" <=> k \in errors
           /\ Promise!Having("ok") = results
           /\ Promise!Having("error") = errors
           /\ Promise!Having("todo") = {k \in Steps : k >= pos}
           /\ \A k : Promise!Current(k) <=> k = pos /\ pos \in Steps
<1>0. IInv
  BY DEF BatchInv
<1>1. /\ pos \in Nat
      /\ results \subseteq Steps /\ errors \subseteq Steps
      /\ \A k \in Steps : k \in Nat
  BY <1>0, StateFacts, ConstantFacts DEF Steps
<1>2. \A k \in results \cup errors : k < pos
  BY <1>0 DEF IInv, AnswerInv, Looping
<1>3. results \cap errors = {}
  BY <1>0 DEF IInv, AnswerInv
<1>4. ASSUME NEW k \in Steps PROVE Outcome(k) = Plain(k)
  <2>1. [i \in Steps |-> Outcome(i)] = [i \in Steps |-> Plain(i)]
    BY OutcomePlain
  <2>. QED
    BY <2>1
<1>5. ASSUME NEW k \in Steps
      PROVE  /\ Outcome(k) \in {"todo", "ok", "error", "skipped"}
             /\ Outcome(k) = "todo" <=> k >= pos
             /\ Outcome(k) = "ok" <=> k \in results
             /\ Outcome(k) = "error" <=> k \in errors
  BY <1>1, <1>2, <1>3, <1>4 DEF Plain, ArrayOutcome
<1>6. Promise!Steps = Steps
  BY DEF Promise!Steps, Steps
<1>7. Promise!Having("ok") = results /\ Promise!Having("error") = errors
  BY <1>1, <1>5, <1>6 DEF Promise!Having
<1>8. Promise!Having("todo") = {k \in Steps : k >= pos}
  BY <1>1, <1>5, <1>6 DEF Promise!Having
<1>9. \A k : Promise!Current(k) <=> k = pos /\ pos \in Steps
  <2>1. \A k : Promise!Current(k) <=>
           /\ k \in {i \in Steps : i >= pos}
           /\ \A j \in Steps : j < k => ~(j >= pos)
    BY <1>6, <1>8 DEF Promise!Current, Promise!Decided
  <2>2. ASSUME NEW k \in Steps, k >= pos PROVE pos \in Steps
    BY <1>1, <2>2, ConstantFacts DEF Steps
  <2>. QED
    BY <1>1, <2>1, <2>2
<1>. QED
  BY <1>5, <1>7, <1>8, <1>9

\* A step of the batch is decided.
LEMMA DecideStep ==
    ASSUME BatchInv, BatchInv', req \in Looping, req' = req, size' = size,
           pc \in {"cond", "check", "run", "rows"}, pc' = "next",
           pos' = pos + 1, cond' = Null, NEW what,
           \A k \in Steps : k = pos => ArrayOutcome(k)' = what,
           \A k \in Steps : k < pos => ArrayOutcome(k)' = ArrayOutcome(k)
    PROVE  Promise!Decide(what)
<1>0. IInv
  BY DEF BatchInv
<1>1. pos \in Steps /\ pos \in Nat /\ \A k \in Steps : k \in Nat
  BY <1>0, StateFacts, ConstantFacts DEF Steps
<1>. DEFINE o == [k \in Steps |-> Outcome(k)]
<1>2. o = [k \in Steps |-> Plain(k)]
  BY OutcomePlain
<1>3. o' = [k \in Steps |-> Plain(k)']
  <2>1. BatchInv' => ([k \in Steps |-> Outcome(k)]
                         = [k \in Steps |-> Plain(k)])'
    BY OutcomePlain, PTL
  <2>. QED
    BY <2>1
<1>4. ASSUME NEW k \in Steps
      PROVE  Plain(k)' = IF k = pos THEN what ELSE Plain(k)
  <2>1. CASE k = pos
    BY <1>1, <2>1 DEF Plain
  <2>2. CASE k < pos
    BY <1>1, <2>2 DEF Plain
  <2>3. CASE k > pos
    BY <1>1, <2>3 DEF Plain
  <2>. QED
    BY <1>1, <2>1, <2>2, <2>3
<1>5. o' = [o EXCEPT ![pos] = what]
  <2>. HIDE DEF o
  <2>. QED
    BY <1>1, <1>2, <1>3, <1>4
<1>6. Promise!Current(pos)
  BY <1>1, OutcomeFacts
<1>7. Verdict = "fetched" /\ Verdict' = "running"
  BY DEF Verdict
<1>. QED
  <2>1. Promise!Steps = Steps
    BY DEF Promise!Steps, Steps
  <2>2. \E k \in Steps : Promise!Current(k) /\ o' = [o EXCEPT ![k] = what]
    <3>. HIDE DEF o
    <3>. QED
      BY <1>1, <1>5, <1>6
  <2>. QED
    BY <1>7, <2>1, <2>2 DEF Promise!Decide

\* The stream is in a transaction or it is not.
LEMMA AutocommitType == Autocommit \in BOOLEAN
  BY DEF Autocommit

\* A step that ends, ends with a result or with an error.
LEMMA RunStep ==
    ASSUME BatchInv, BatchInv', req \in Looping, req' = req, size' = size,
           pc \in {"check", "run", "rows"},
           StepSucceeds \/ StepFails
    PROVE  Promise!Run
<1>0. IInv
  BY DEF BatchInv
<1>1. /\ pos \in Nat /\ results \subseteq Steps /\ errors \subseteq Steps
      /\ \A k \in results \cup errors : k < pos
      /\ \A k \in Steps : k \in Nat
  <2>1. \A k \in results \cup errors : k < pos
    BY <1>0 DEF IInv, AnswerInv, Looping
  <2>. QED
    BY <1>0, <2>1, StateFacts, ConstantFacts DEF Steps
<1>2. pc' = "next" /\ pos' = pos + 1 /\ cond' = Null
  BY DEF StepSucceeds, StepFails, StepOver
<1>3. Promise!Decide("ok") \/ Promise!Decide("error")
  <2>1. CASE StepSucceeds
    <3>1. results' = results \cup {pos} /\ errors' = errors
      BY <2>1 DEF StepSucceeds
    <3>2. \A k \in Steps : k = pos => ArrayOutcome(k)' = "ok"
      BY <1>1, <3>1 DEF ArrayOutcome
    <3>3. \A k \in Steps : k < pos => ArrayOutcome(k)' = ArrayOutcome(k)
      BY <1>1, <3>1 DEF ArrayOutcome
    <3>. QED
      BY <1>2, <3>2, <3>3, DecideStep
  <2>2. CASE StepFails
    <3>1. results' = results /\ errors' = errors \cup {pos}
      BY <2>2 DEF StepFails
    <3>2. \A k \in Steps : k = pos => ArrayOutcome(k)' = "error"
      BY <1>1, <3>1 DEF ArrayOutcome
    <3>3. \A k \in Steps : k < pos => ArrayOutcome(k)' = ArrayOutcome(k)
      BY <1>1, <3>1 DEF ArrayOutcome
    <3>. QED
      BY <1>2, <3>2, <3>3, DecideStep
  <2>. QED
    BY <2>1, <2>2
<1>4. ASSUME cond # Null, Autocommit \/ ~Asks(cond)
      PROVE  Promise!SurelyHolds(cond, Promise!Having("ok"),
                                 Promise!Having("error"), Autocommit)
  <2>1. cond \in Conds
    BY <1>0, <1>4 DEF IInv, TypeOK
  <2>2. evalBatchCond(cond, results, errors) = "true"
    BY <1>4 DEF BatchInv, CondInv, CondValue
  <2>3. SurelyHolds(cond, results, errors, Autocommit)
    BY <1>4, <2>1, <2>2, AutocommitType, ConditionsSound
  <2>. QED
    BY <2>3, SameMeaning, OutcomeFacts
<1>5. Promise!Answerable => Autocommit \/ ~Asks(cond)
  BY SameMeaning DEF Promise!Answerable
<1>. QED
  BY <1>3, <1>4, <1>5 DEF Promise!Run

\* A step whose condition is false is skipped.
LEMMA SkipStep ==
    ASSUME BatchInv, BatchInv', ConditionSkips
    PROVE  Promise!Skip
<1>0. IInv
  BY DEF BatchInv
<1>1. /\ pc = "cond" /\ req \in Looping /\ CondValue = "false"
      /\ req' = req /\ size' = size /\ results' = results /\ errors' = errors
  BY <1>0 DEF ConditionSkips, IInv, PlaceInv
<1>2. pc' = "next" /\ pos' = pos + 1 /\ cond' = Null
  BY <1>1 DEF ConditionSkips, StepOver
<1>3. cond # Null /\ cond \in Conds
      /\ evalBatchCond(cond, results, errors) = "false"
  BY <1>0, <1>1 DEF IInv, TypeOK, CondValue
<1>4. ASSUME Autocommit \/ ~Asks(cond)
      PROVE  Promise!SurelyFails(cond, Promise!Having("ok"),
                                 Promise!Having("error"), Autocommit)
  <2>1. SurelyFails(cond, results, errors, Autocommit)
    BY <1>3, <1>4, AutocommitType, ConditionsSound
  <2>. QED
    BY <1>1, <2>1, SameMeaning, OutcomeFacts
<1>5. Promise!Decide("skipped")
  <2>1. pos \in Nat /\ \A k \in results \cup errors : k < pos
    <3>1. \A k \in results \cup errors : k < pos
      BY <1>0, <1>1 DEF IInv, AnswerInv, Looping
    <3>. QED
      BY <1>0, <3>1, StateFacts
  <2>2. \A k \in Steps : k = pos => ArrayOutcome(k)' = "skipped"
    BY <1>1, <2>1 DEF ArrayOutcome
  <2>3. \A k \in Steps : k < pos => ArrayOutcome(k)' = ArrayOutcome(k)
    BY <1>1 DEF ArrayOutcome
  <2>. QED
    BY <1>1, <1>2, <2>2, <2>3, DecideStep
<1>6. Promise!Answerable => Autocommit \/ ~Asks(cond)
  BY <1>1, SameMeaning DEF Promise!Answerable
<1>. QED
  BY <1>1, <1>3, <1>4, <1>5, <1>6 DEF Promise!Skip

\* The outcomes do not change as long as the loop and the arrays do not.
LEMMA SameOutcomes ==
    ASSUME BatchInv, BatchInv',
           \/ /\ req' = req /\ pos' = pos
              /\ results' = results /\ errors' = errors
           \/ req \notin Looping /\ req' \notin Looping
           \/ req \notin Looping /\ pos' = 0
           \/ req \in Looping /\ pos = 0 /\ req' \notin Looping
    PROVE  [k \in Steps |-> Outcome(k)]' = [k \in Steps |-> Outcome(k)]
<1>. DEFINE o == [k \in Steps |-> Outcome(k)]
<1>1. o = [k \in Steps |-> Plain(k)]
  BY OutcomePlain
<1>2. o' = [k \in Steps |-> Plain(k)']
  <2>1. BatchInv' => ([k \in Steps |-> Outcome(k)]
                         = [k \in Steps |-> Plain(k)])'
    BY OutcomePlain, PTL
  <2>. QED
    BY <2>1
<1>3. \A k \in Steps : k \in Nat
  BY ConstantFacts DEF Steps
<1>4. ASSUME NEW k \in Steps PROVE Plain(k)' = Plain(k)
  BY <1>3 DEF Plain, ArrayOutcome
<1>. QED
  BY <1>1, <1>2, <1>4

\* Steps that BatchPromise does not see.
LEMMA UnseenStep ==
    ASSUME BatchInv, BatchInv',
           \/ req \notin Looping /\ req' \notin Looping
           \/ /\ req \in Looping /\ req' = req /\ size' = size /\ cond' = cond
              /\ pos' = pos /\ results' = results /\ errors' = errors
              /\ Verdict' = Verdict
    PROVE  UNCHANGED Promise!vars
<1>1. [k \in Steps |-> Outcome(k)]' = [k \in Steps |-> Outcome(k)]
  BY SameOutcomes
<1>2. Verdict' = Verdict
  BY DEF Verdict
<1>3. /\ (IF req \in Looping THEN size ELSE 0)'
            = IF req \in Looping THEN size ELSE 0
      /\ (IF req \in Looping THEN cond ELSE Null)'
            = IF req \in Looping THEN cond ELSE Null
  OBVIOUS
<1>. QED
  BY <1>1, <1>2, <1>3 DEF Promise!vars

\* A batch or a cursor is called.
LEMMA StartStep ==
    ASSUME BatchInv, BatchInv', NEW r \in {"batch", "cursor"},
           NEW n \in 0..MaxSteps, Begin(r, n)
    PROVE  Promise!Start(n)
<1>1. pc = "idle" /\ req = Null /\ pos' = 0 /\ cond = Null /\ cond' = Null
      /\ size' = n /\ req' = r /\ pc' = "next"
  BY DEF Begin, BatchInv, IInv, PlaceInv, CondInv
<1>2. req \notin Looping /\ req' \in Looping
  BY <1>1, ConstantFacts DEF Looping, Requests
<1>3. [k \in Steps |-> Outcome(k)]' = [k \in Steps |-> Outcome(k)]
  BY <1>1, <1>2, SameOutcomes
<1>4. Verdict = "idle" /\ Verdict' = "running"
  BY <1>1, <1>2 DEF Verdict
<1>. QED
  BY <1>1, <1>2, <1>3, <1>4 DEF Promise!Start

\* The loop takes its next step.
LEMMA FetchStep ==
    ASSUME BatchInv, BatchInv', NEW c \in Conds \cup {Null},
           NEW s \in Stmts, NextStep(c, s)
    PROVE  Promise!Fetch(c)
<1>0. IInv
  BY DEF BatchInv
<1>1. /\ pc = "next" /\ req \in Looping /\ pos < size /\ cond' = c
      /\ pc' = "cond" /\ req' = req /\ size' = size /\ pos' = pos
      /\ results' = results /\ errors' = errors
  BY DEF NextStep
<1>2. pos \in Steps
  BY <1>0, <1>1, ConstantFacts DEF IInv, TypeOK, Steps
<1>3. Promise!Current(pos)
  BY <1>1, <1>2, OutcomeFacts
<1>4. [k \in Steps |-> Outcome(k)]' = [k \in Steps |-> Outcome(k)]
  BY <1>1, SameOutcomes
<1>5. Verdict = "running" /\ Verdict' = "fetched"
  BY <1>1 DEF Verdict
<1>6. Promise!Steps = Steps
  BY DEF Promise!Steps, Steps
<1>7. \E k \in Promise!Steps :
         k < (IF req \in Looping THEN size ELSE 0) /\ Promise!Current(k)
  BY <1>1, <1>2, <1>3, <1>6
<1>. QED
  BY <1>1, <1>4, <1>5, <1>7 DEF Promise!Fetch

\* A condition could not be evaluated.
LEMMA RejectStep ==
    ASSUME BatchInv, BatchInv', ConditionFails
    PROVE  Promise!Reject
<1>0. IInv
  BY DEF BatchInv
<1>1. /\ pc = "cond" /\ req \in Looping /\ CondValue = "fail"
      /\ pc' = "answered" /\ req' = req /\ size' = size /\ pos' = pos
      /\ cond' = cond /\ results' = results /\ errors' = errors
      /\ Emit(<<PlainEntry("error")>>)
      /\ reply' = IF req = "batch" THEN "error" ELSE "result"
  BY <1>0 DEF ConditionFails, Answer, IInv, PlaceInv
<1>2. cond # Null /\ cond \in Conds
      /\ evalBatchCond(cond, results, errors) = "fail"
  BY <1>0, <1>1 DEF IInv, TypeOK, CondValue
<1>3. ~Promise!WellFormed(cond)
  BY <1>2, ConditionsSound, SameMeaning
<1>4. GivenUp'
  <2>1. CASE req = "batch"
    BY <1>1, <2>1 DEF GivenUp
  <2>2. CASE req # "batch"
    <3>. DEFINE x == PlainEntry("error")
    <3>1. req = "cursor" /\ x \in Entry /\ x.type = "error"
      BY <1>1, <2>2 DEF Looping, PlainEntry, Entry
    <3>. HIDE DEF x
    <3>2. Adds(entries', entries, x)
      BY <1>0, <1>1, <3>1, EmitAdds DEF x
    <3>3. Len(entries) + 1 \in DOMAIN entries'
          /\ entries'[Len(entries) + 1].type = "error"
      BY <3>1, <3>2 DEF Adds
    <3>. QED
      BY <3>3 DEF GivenUp
  <2>. QED
    BY <2>1, <2>2
<1>5. [k \in Steps |-> Outcome(k)]' = [k \in Steps |-> Outcome(k)]
  BY <1>1, SameOutcomes
<1>6. Verdict = "fetched" /\ Verdict' = "rejected"
  BY <1>1, <1>4 DEF Verdict
<1>. QED
  BY <1>1, <1>2, <1>3, <1>5, <1>6 DEF Promise!Reject

\* The loop has come to its end.
LEMMA CompleteStep ==
    ASSUME BatchInv, BatchInv', req \in Looping, LoopEnds
    PROVE  Promise!Complete
<1>0. IInv /\ EntryInv
  BY DEF BatchInv
<1>1. /\ pc = "next" /\ pos >= size /\ pc' = "answered" /\ req' = req
      /\ size' = size /\ pos' = pos /\ cond' = cond /\ entries' = entries
      /\ results' = results /\ errors' = errors /\ reply' = "result"
  BY DEF LoopEnds, Answer
<1>2. ~GivenUp'
  BY <1>0, <1>1 DEF EntryInv, NotGivenUp, GivenUp
<1>3. [k \in Steps |-> Outcome(k)]' = [k \in Steps |-> Outcome(k)]
  BY <1>1, SameOutcomes
<1>4. Verdict = "running" /\ Verdict' = "complete"
  BY <1>1, <1>2 DEF Verdict
<1>5. Promise!Steps = Steps
  BY DEF Promise!Steps, Steps
<1>6. \A k \in Steps : k < size => k \in Promise!Decided
  <2>1. pos \in Nat /\ size \in Nat /\ \A k \in Steps : k \in Nat
    BY <1>0, ConstantFacts DEF IInv, TypeOK, Steps
  <2>2. Promise!Decided = Steps \ {k \in Steps : k >= pos}
    BY <1>5, OutcomeFacts DEF Promise!Decided
  <2>. QED
    BY <1>1, <2>1, <2>2
<1>. QED
  BY <1>1, <1>3, <1>4, <1>5, <1>6 DEF Promise!Complete

\* The answer is taken.
LEMMA CollectStep ==
    ASSUME BatchInv, BatchInv', req \in Looping, Return
    PROVE  Promise!Collect
<1>1. pc = "answered" /\ req' = Null /\ size' = 0 /\ cond' = Null
  BY DEF Return
<1>2. req' \notin Looping
  BY <1>1, ConstantFacts DEF Looping, Requests
<1>3. [k \in Steps |-> Outcome(k)]' = [k \in Steps |-> "todo"]
  BY <1>2 DEF Outcome
<1>4. Verdict \in {"complete", "rejected"} /\ Verdict' = "idle"
  BY <1>1, <1>2 DEF Verdict
<1>5. Promise!Steps = Steps
  BY DEF Promise!Steps, Steps
<1>. QED
  BY <1>1, <1>2, <1>3, <1>4, <1>5 DEF Promise!Collect

\* Each step of Executor is a step of BatchPromise or changes nothing there.
LEMMA NextImplements ==
    ASSUME BatchInv, BatchInv', [Next]_vars
    PROVE  [Promise!Next]_(Promise!vars)
<1>0. IInv
  BY DEF BatchInv
<1>1. "stmt" \notin Looping /\ "describe" \notin Looping
      /\ "sequence" \notin Looping /\ Null \notin Looping
  BY ConstantFacts DEF Looping, Requests
<1>2. ASSUME NEW r \in {"batch", "cursor", "sequence"}, NEW n \in 0..MaxSteps,
             Begin(r, n)
      PROVE  [Promise!Next]_(Promise!vars)
  <2>1. CASE r # "sequence"
    <3>1. Promise!Start(n)
      BY <1>2, <2>1, StartStep
    <3>. QED
      BY <3>1 DEF Promise!Next
  <2>2. CASE r = "sequence"
    <3>1. req = Null /\ req' = r
      BY <1>0, <1>2 DEF Begin, IInv, PlaceInv
    <3>2. req \notin Looping /\ req' \notin Looping
      BY <1>1, <2>2, <3>1
    <3>. QED
      BY <3>2, UnseenStep
  <2>. QED
    BY <2>1, <2>2
<1>3. ASSUME NEW r \in {"stmt", "describe"}, Begin(r, 1)
      PROVE  [Promise!Next]_(Promise!vars)
  <2>1. req = Null /\ req' = r
    BY <1>0, <1>3 DEF Begin, IInv, PlaceInv
  <2>2. req \notin Looping /\ req' \notin Looping
    BY <1>1, <2>1
  <2>. QED
    BY <2>2, UnseenStep
<1>4. ASSUME NEW s \in Stmts, NextStmt(s)
      PROVE  [Promise!Next]_(Promise!vars)
  <2>1. req \notin Looping /\ req' \notin Looping
    BY <1>4 DEF NextStmt
  <2>. QED
    BY <2>1, UnseenStep
<1>5. ASSUME NEW c \in Conds \cup {Null}, NEW s \in Stmts, NextStep(c, s)
      PROVE  [Promise!Next]_(Promise!vars)
  <2>1. Promise!Fetch(c)
    BY <1>5, FetchStep
  <2>. QED
    BY <2>1 DEF Promise!Next
<1>6. CASE LoopEnds
  <2>1. CASE req \in Looping
    <3>1. Promise!Complete
      BY <1>6, <2>1, CompleteStep
    <3>. QED
      BY <3>1 DEF Promise!Next
  <2>2. CASE req \notin Looping
    BY <1>6, <2>2, UnseenStep DEF LoopEnds
  <2>. QED
    BY <2>1, <2>2
<1>7. CASE ConditionHolds \/ CheckPasses
  <2>1. /\ req' = req /\ size' = size /\ cond' = cond /\ pos' = pos
        /\ results' = results /\ errors' = errors
        /\ pc \in {"cond", "check"} /\ pc' \in {"check", "run"}
    BY <1>7 DEF ConditionHolds, CheckPasses
  <2>2. Verdict' = Verdict
    BY <2>1 DEF Verdict
  <2>. QED
    BY <2>1, <2>2, UnseenStep
<1>8. CASE ConditionSkips
  <2>1. Promise!Skip
    BY <1>8, SkipStep
  <2>. QED
    BY <2>1 DEF Promise!Next
<1>9. CASE ConditionFails
  <2>1. Promise!Reject
    BY <1>9, RejectStep
  <2>. QED
    BY <2>1 DEF Promise!Next
<1>10. ASSUME pc \in {"check", "run", "rows"}, req' = req, size' = size,
              StepSucceeds \/ StepFails
       PROVE  [Promise!Next]_(Promise!vars)
  <2>1. CASE req \in Looping
    <3>1. Promise!Run
      BY <1>10, <2>1, RunStep
    <3>. QED
      BY <3>1 DEF Promise!Next
  <2>2. CASE req \notin Looping
    BY <1>10, <2>2, UnseenStep
  <2>. QED
    BY <2>1, <2>2
<1>11. CASE CheckFails \/ QueryFails \/ RowsEnd \/ RowsBreakOff
  BY <1>10, <1>11 DEF CheckFails, QueryFails, RowsEnd, RowsBreakOff
<1>12. ASSUME NEW ok \in BOOLEAN, Exec(ok)
       PROVE  [Promise!Next]_(Promise!vars)
  BY <1>10, <1>12 DEF Exec
<1>13. CASE QueryStarts \/ ReadRow
  <2>1. /\ req' = req /\ size' = size /\ cond' = cond /\ pos' = pos
        /\ results' = results /\ errors' = errors
        /\ pc \in {"run", "rows"} /\ pc' = "rows"
    BY <1>13 DEF QueryStarts, ReadRow
  <2>2. Verdict' = Verdict
    BY <2>1 DEF Verdict
  <2>. QED
    BY <2>1, <2>2, UnseenStep
<1>14. ASSUME NEW ok \in BOOLEAN,
              PieceEmpty \/ PieceRefused \/ PieceRuns(ok) \/ Describe(ok)
       PROVE  [Promise!Next]_(Promise!vars)
  <2>1. req \notin Looping /\ req' \notin Looping
    BY <1>1, <1>14 DEF PieceEmpty, PieceRefused, PieceRuns, Describe
  <2>. QED
    BY <2>1, UnseenStep
<1>15. CASE Return
  <2>1. CASE req \in Looping
    <3>1. Promise!Collect
      BY <1>15, <2>1, CollectStep
    <3>. QED
      BY <3>1 DEF Promise!Next
  <2>2. CASE req \notin Looping
    <3>1. req' \notin Looping
      BY <1>1, <1>15 DEF Return
    <3>. QED
      BY <2>2, <3>1, UnseenStep
  <2>. QED
    BY <2>1, <2>2
<1>16. CASE UNCHANGED vars
  <2>1. /\ req' = req /\ size' = size /\ cond' = cond /\ pos' = pos
        /\ results' = results /\ errors' = errors
        /\ Verdict' = Verdict
    BY <1>16 DEF vars, Verdict, GivenUp
  <2>. QED
    BY <2>1, UnseenStep
<1>. QED
  <2>1. TRUE \in BOOLEAN
    OBVIOUS
  <2>. QED
    BY <1>2, <1>3, <1>4, <1>5, <1>6, <1>7, <1>8, <1>9, <1>11, <1>12, <1>13,
       <1>14, <1>15, <1>16, <2>1 DEF Next

\* A batch and a cursor over the same steps run, skip and give up the same
\* ones, by the meaning of their conditions, for any conditions that are
\* finite trees and, inside a transaction, do not ask for it; and the arrays
\* of the one and the entries of the other say so (executor.go:214-298,
\* 362-487).
THEOREM ImplementsPromise == Spec => BatchPromised
<1>1. Init => Promise!Init
  <2>. SUFFICES ASSUME Init PROVE Promise!Init
    OBVIOUS
  <2>1. req \notin Looping
    BY ConstantFacts DEF Init, Looping, Requests
  <2>2. [k \in Steps |-> Outcome(k)] = [k \in Steps |-> "todo"]
    BY <2>1 DEF Outcome
  <2>3. Promise!Steps = Steps
    BY DEF Promise!Steps, Steps
  <2>. QED
    BY <2>1, <2>2, <2>3 DEF Promise!Init, Verdict
<1>2. BatchInv /\ BatchInv' /\ [Next]_vars => [Promise!Next]_(Promise!vars)
  BY NextImplements
<1>. QED
  BY <1>1, <1>2, BatchInvariance, PTL DEF Spec, BatchPromised, Promise!Spec

\* SkipTokens finds a position: behind the text at the latest.
LEMMA SkipStops ==
    ASSUME NEW T, NEW text \in Seq(T), NEW tok, NEW k \in 1..(Len(text) + 1)
    PROVE  \E j \in k..(Len(text) + 1) :
              /\ SkipTokens(text, tok, k) = j
              /\ \A l \in k..(j - 1) : text[l] = tok
<1> DEFINE stops == {j \in k..(Len(text) + 1) :
                        j \in DOMAIN text => text[j] # tok}
<1>1. Len(text) \in Nat /\ DOMAIN text = 1..Len(text)
  OBVIOUS
<1>2. Len(text) + 1 \in stops /\ stops \subseteq Nat
  BY <1>1
<1>3. PICK j \in stops : \A l \in stops : j <= l
  <2>. HIDE DEF stops
  <2>. QED
    BY <1>2, LeastNat
<1>4. \A l \in k..(j - 1) : text[l] = tok
  <2>. TAKE l \in k..(j - 1)
  <2>1. l \notin stops
    BY <1>1, <1>3
  <2>2. l \in k..(Len(text) + 1)
    BY <1>1, <1>3
  <2>. QED
    BY <2>1, <2>2
<1>5. j \in k..(Len(text) + 1) /\ (j \in DOMAIN text => text[j] # tok)
  BY <1>3
<1>. HIDE DEF stops
<1>6. SkipTokens(text, tok, k) = j
  BY <1>4, <1>5, SkipFinds
<1>. QED
  BY <1>4, <1>5, <1>6

\* isWriteStatement finds the writes and nothing else, with one exception: a
\* text is refused in readonly mode exactly if its verb, behind comments of
\* either kind in any order, writes, and no line comment among them stands
\* behind a block comment (executor.go:18-21, 308-310; utils.go:101-137).
THEOREM WritesFound ==
    ASSUME NEW s \in Stmts
    PROVE  isWriteStatement(s.text) <=> WriteText(s.text) /\ ~Hidden(s.text)
<1> DEFINE text == s.text
           T == {"line", "block", "open", "write", "read", "begin", "end"}
<1>1. text \in Seq(T) /\ Len(text) \in Nat /\ DOMAIN text = 1..Len(text)
  BY StmtsAssumption
<1>2. ASSUME isWriteStatement(text)
      PROVE  WriteText(text) /\ ~Hidden(text)
  <2>. HIDE DEF text, T
  <2>1. 1 \in 1..(Len(text) + 1)
    BY <1>1
  <2>2. PICK b \in 1..(Len(text) + 1) :
           /\ SkipTokens(text, "line", 1) = b
           /\ \A l \in 1..(b - 1) : text[l] = "line"
    BY <1>1, <2>1, SkipStops
  <2>3. PICK v \in b..(Len(text) + 1) :
           /\ SkipTokens(text, "block", b) = v
           /\ \A l \in b..(v - 1) : text[l] = "block"
    BY <1>1, <2>2, SkipStops
  <2>4. v \in DOMAIN text /\ text[v] = "write"
    BY <1>2, <2>2, <2>3 DEF isWriteStatement
  <2>5. b \in 1..v /\ v \in 1..Len(text)
    BY <1>1, <2>2, <2>3, <2>4
  <2>6. \A k \in 1..(v - 1) : text[k] = IF k < b THEN "line" ELSE "block"
    BY <1>1, <2>2, <2>3
  <2>7. WriteText(text)
    <3>1. \A k \in 1..(v - 1) : text[k] \in Comments
      BY <2>6 DEF Comments
    <3>. QED
      BY <2>4, <3>1 DEF WriteText, Does
  <2>8. ASSUME NEW l \in DOMAIN text, text[l] = "line",
               NEW c \in 1..(l - 1), text[c] = "block",
               \A k \in 1..l : text[k] \in Comments
        PROVE  FALSE
    <3>1. l \in 1..Len(text) /\ c \in 1..Len(text) /\ c < l
      BY <1>1, <2>8
    <3>2. l < v
      <4>1. v \in 1..l => text[v] \in Comments
        BY <2>8
      <4>2. v \notin 1..l
        BY <2>4, <4>1 DEF Comments
      <4>. QED
        BY <2>5, <3>1, <4>2
    <3>3. l \in 1..(v - 1) /\ c \in 1..(v - 1)
      BY <2>5, <3>1, <3>2
    <3>4. l < b /\ ~(c < b)
      BY <2>6, <2>8, <3>3
    <3>. QED
      BY <2>5, <3>1, <3>4
  <2>. QED
    BY <2>7, <2>8 DEF Hidden
<1>. QED
  BY <1>2, WriteSeen

=============================================================================
