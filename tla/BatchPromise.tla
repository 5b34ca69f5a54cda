---------------------------- MODULE BatchPromise ----------------------------
(***************************************************************************)
(* What a batch promises its client, whether it is run by "batch" or       *)
(* through a cursor (HRANA_3_SPEC.md:1063-1066, 1107-1112, 1154-1158): the *)
(* steps are decided in order; a step runs, and succeeds or fails, exactly *)
(* if its condition holds of the outcomes of the steps before it, and is   *)
(* skipped if it does not; the batch is given up at a malformed condition  *)
(* only.  Inside a transaction nothing is promised of a condition that     *)
(* asks for it: the code presumes there is none (executor.go:290-293).     *)
(***************************************************************************)
EXTENDS BatchCond

CONSTANT MaxSteps   \* bound on the number of steps of a batch

Steps == 0..(MaxSteps - 1)

VARIABLES
    size,       \* number of steps, 0 between batches
    cond,       \* condition of the step to be decided, or Null
    outcome,    \* of each step
    verdict,    \* "idle", "running", "fetched", "complete", "rejected"
    autocommit  \* environment: the stream is outside a transaction

\* The environment's variable is read, and changes as it likes.
vars == <<size, cond, outcome, verdict>>

Having(what) == {k \in Steps : outcome[k] = what}
Decided == Steps \ Having("todo")

\* The first step that is not decided.
Current(k) == k \in Having("todo") /\ \A j \in Steps : j < k => j \in Decided

Init ==
    /\ size = 0
    /\ cond = Null
    /\ outcome = [k \in Steps |-> "todo"]
    /\ verdict = "idle"

Start(n) ==
    /\ verdict = "idle"
    /\ size' = n
    /\ verdict' = "running"
    /\ UNCHANGED <<cond, outcome>>

\* The next step is looked at.
Fetch(c) ==
    /\ verdict = "running"
    /\ \E k \in Steps : k < size /\ Current(k)
    /\ cond' = c
    /\ verdict' = "fetched"
    /\ UNCHANGED <<size, outcome>>

Decide(what) ==
    /\ verdict = "fetched"
    /\ \E k \in Steps : Current(k) /\ outcome' = [outcome EXCEPT ![k] = what]
    /\ cond' = Null
    /\ verdict' = "running"
    /\ UNCHANGED size

\* The named exception: the code answers for a stream outside a transaction.
Answerable == autocommit \/ ~Asks(cond)

Run ==
    /\ cond # Null /\ Answerable =>
          SurelyHolds(cond, Having("ok"), Having("error"), autocommit)
    /\ Decide("ok") \/ Decide("error")

Skip ==
    /\ cond # Null
    /\ Answerable =>
          SurelyFails(cond, Having("ok"), Having("error"), autocommit)
    /\ Decide("skipped")

Reject ==
    /\ verdict = "fetched"
    /\ cond # Null
    /\ ~WellFormed(cond)
    /\ verdict' = "rejected"
    /\ UNCHANGED <<size, cond, outcome>>

Complete ==
    /\ verdict = "running"
    /\ \A k \in Steps : k < size => k \in Decided
    /\ verdict' = "complete"
    /\ UNCHANGED <<size, cond, outcome>>

\* The client has the answer.
Collect ==
    /\ verdict \in {"complete", "rejected"}
    /\ size' = 0
    /\ cond' = Null
    /\ outcome' = [k \in Steps |-> "todo"]
    /\ verdict' = "idle"

Next ==
    \/ \E n \in 0..MaxSteps : Start(n)
    \/ \E c \in Conds \cup {Null} : Fetch(c)
    \/ Run \/ Skip \/ Reject \/ Complete \/ Collect

Spec == Init /\ [][Next]_vars

=============================================================================
