----------------------------- MODULE BatchCond ------------------------------
(***************************************************************************)
(* The conditions of batch steps (executor.go:239-298): how evalBatchCond  *)
(* computes one from what earlier steps left behind, and what the Hrana    *)
(* specification says a condition means.                                   *)
(*                                                                         *)
(* A condition is a record: its type, the step it names (Null if the       *)
(* field is missing) and the conditions under it.  The array of results    *)
(* (errors) is the set of steps that have one, so that an index past the   *)
(* end of the batch is in neither set.                                     *)
(***************************************************************************)
EXTENDS Naturals, Sequences

CONSTANTS
    Conds,      \* condition trees, with all their subtrees
    Null        \* a missing field

ASSUME CondsAssumption ==
    \A c \in Conds :
        /\ DOMAIN c = {"type", "step", "conds"}
        /\ c.conds \in Seq(Conds)

\* The levels of conditions under a condition.
Depth[c \in Conds] ==
    LET below == {Depth[c.conds[k]] : k \in DOMAIN c.conds}
    IN  IF below = {} THEN 0
        ELSE 1 + CHOOSE d \in below : \A e \in below : e <= d

\* A condition is decoded from a message: its tree is finite.
ASSUME DepthAssumption ==
    /\ Depth \in [Conds -> Nat]
    /\ \A c \in Conds : \A k \in DOMAIN c.conds :
          Depth[c.conds[k]] < Depth[c]

\* A required field is missing, or the type is unknown.
Malformed(c) ==
    \/ c.type \in {"ok", "error"} /\ c.step = Null
    \/ c.type = "not" /\ c.conds = <<>>
    \/ c.type \notin {"ok", "error", "not", "and", "or", "is_autocommit"}

-----------------------------------------------------------------------------
(* The code *)

BoolValue(b) == IF b THEN "true" ELSE "false"

\* Fault: a false condition stays false under "not".
NotKeepsFalse(v) == IF v = "true" THEN "false" ELSE v

Not(v) ==
    CASE v = "true"  -> "false"
      [] v = "false" -> "true"
      [] v = "fail"  -> "fail"

\* The loops over conds: they stop at the first value other than neutral.
Scan(values, neutral) ==
    LET stops == {k \in DOMAIN values : values[k] # neutral}
    IN  IF stops = {} THEN neutral
        ELSE values[CHOOSE k \in stops : \A j \in stops : k <= j]

\* evalBatchCond of every condition, to "true", "false" or "fail" for its
\* error return.  is_autocommit is always true: the driver is not asked, so
\* that inside a transaction the code departs from the meaning below.
Evaluation(results, errors) ==
    LET eval[c \in Conds] ==
          LET values == [k \in DOMAIN c.conds |-> eval[c.conds[k]]]
          IN  IF Malformed(c) THEN "fail"
              ELSE CASE c.type = "ok"    -> BoolValue(c.step \in results)
                     [] c.type = "error" -> BoolValue(c.step \in errors)
                     [] c.type = "not"   -> Not(values[1])
                     [] c.type = "and"   -> Scan(values, "true")
                     [] c.type = "or"    -> Scan(values, "false")
                     [] c.type = "is_autocommit" -> "true"
    IN  eval

evalBatchCond(cond, results, errors) == Evaluation(results, errors)[cond]

-----------------------------------------------------------------------------
(* The meaning (HRANA_3_SPEC.md:1081-1093) *)

\* The truth of every condition, if a malformed one stands for dflt and the
\* stream is outside an explicit transaction exactly if auto.
Truth(results, errors, auto, dflt) ==
    LET holds[c \in Conds] ==
          LET values == [k \in DOMAIN c.conds |-> holds[c.conds[k]]]
          IN  IF Malformed(c) THEN dflt
              ELSE CASE c.type = "ok"    -> c.step \in results
                     [] c.type = "error" -> c.step \in errors
                     [] c.type = "not"   -> ~values[1]
                     [] c.type = "and"   -> \A k \in DOMAIN values : values[k]
                     [] c.type = "or"    -> \E k \in DOMAIN values : values[k]
                     [] c.type = "is_autocommit" -> auto
    IN  holds

\* Of every condition, whether nothing in its tree is malformed.
Soundness ==
    LET sound[c \in Conds] ==
          LET values == [k \in DOMAIN c.conds |-> sound[c.conds[k]]]
          IN  ~Malformed(c) /\ \A k \in DOMAIN values : values[k]
    IN  sound

WellFormed(cond) == Soundness[cond]

\* Of every condition, whether its tree asks for the transaction.
Asking ==
    LET asks[c \in Conds] ==
          LET values == [k \in DOMAIN c.conds |-> asks[c.conds[k]]]
          IN  c.type = "is_autocommit" \/ \E k \in DOMAIN values : values[k]
    IN  asks

Asks(cond) == Asking[cond]

\* The condition is true (false) whatever its malformed parts stand for.
SurelyHolds(c, results, errors, auto) ==
    \A b \in BOOLEAN : Truth(results, errors, auto, b)[c]
SurelyFails(c, results, errors, auto) ==
    \A b \in BOOLEAN : ~Truth(results, errors, auto, b)[c]

=============================================================================
