-------------------------- MODULE Executor_proofs --------------------------
(***************************************************************************)
(* Theorems about Executor, for any statements, any conditions and any     *)
(* numbers of steps and rows.                                              *)
(*                                                                         *)
(* The properties become inductive once the place in the code is tied to   *)
(* the loop's index: every step with a result, an error or a call lies     *)
(* before pos, except the one that is being executed or that ends the      *)
(* request (AnswerInv, CallInv), and a statement that got past the checks  *)
(* of a readonly stream is not one isWriteStatement finds (WriteInv).      *)
(***************************************************************************)
EXTENDS Executor, InductionFacts, TLAPS

\* What the place in the code says about the request and its step.
PlaceInv ==
    /\ pc = "idle" <=> req = Null
    /\ pc = "idle" =>
          size = 0 /\ pos = 0 /\ results = {} /\ errors = {} /\ calls = <<>>
    /\ pos <= size
    /\ req \in {"stmt", "describe"} => size = 1
    /\ pc = "cond" => req \in Looping
    /\ pc \in {"run", "rows"} => req \in {"stmt", "batch", "cursor"}
    /\ pc \in {"cond", "check", "run", "rows"} => pos < size /\ stmt \in Stmts
    /\ pc = "next" /\ req \in {"stmt", "describe"} => pos = 0
    /\ reply # Null => pc = "answered"

\* A step has a result or an error only after the loop has passed it.
AnswerInv ==
    /\ results \cap errors = {}
    /\ \A k \in results \cup errors :
          k < pos \/ (k = pos /\ pc = "answered" /\ req = "stmt")
    /\ req \in {"sequence", "describe"} => results \cup errors = {}

\* The database has been called for steps the loop has passed, for the query
\* whose rows are being read, and for what ended the request; in order.
CallInv ==
    /\ \A c \in DOMAIN calls :
          \/ calls[c].step < pos
          \/ /\ calls[c].step = pos
             /\ c = Len(calls)
             /\ pc = "answered" \/ (pc = "rows" /\ calls[c].ok)
    /\ pc = "rows" => calls # <<>> /\ calls[Len(calls)].step = pos
    /\ req = "sequence" /\ pc # "answered" =>
          \A c \in DOMAIN calls : calls[c].ok

\* On a readonly stream isWriteStatement has let what passed the checks pass.
WriteInv ==
    /\ mode = "readonly" /\ req \in {"stmt", "batch"} /\ pc \in {"run", "rows"}
          => ~isWriteStatement(stmt.text)
    /\ ReadOnlyKept

IInv ==
    /\ TypeOK
    /\ PlaceInv
    /\ AnswerInv
    /\ CallInv
    /\ CallsMatchAnswer
    /\ WriteInv

-----------------------------------------------------------------------------
(* Lemmas *)

\* What is assumed of the constants, in the form the provers use.
LEMMA ConstantFacts ==
    /\ MaxSteps \in Nat
    /\ MaxSteps >= 1
    /\ MaxRows \in Nat
    /\ Null \notin Conds
    /\ Null \notin Requests
  BY ExecutorAssumption

\* What the history of calls consists of.
LEMMA CallFacts ==
    ASSUME TypeOK
    PROVE  /\ Len(calls) \in Nat
           /\ DOMAIN calls = 1..Len(calls)
           /\ \A c \in 1..Len(calls) :
                 calls[c].step \in Nat /\ calls[c].ok \in BOOLEAN
<1>1. calls \in Seq(Call)
  BY DEF TypeOK
<1>2. \A c \in 1..Len(calls) : calls[c] \in Call
  BY <1>1
<1>3. \A call \in Call : call.step \in Nat /\ call.ok \in BOOLEAN
  BY DEF Call
<1>. QED
  BY <1>1, <1>2, <1>3

\* Called adds one call, of the current step and its text.
LEMMA CalledAdds ==
    ASSUME TypeOK, PlaceInv, pc \in {"check", "run"}, NEW ok \in BOOLEAN, Called(ok)
    PROVE  /\ calls' \in Seq(Call)
           /\ Len(calls') = Len(calls) + 1
           /\ DOMAIN calls' = 1..(Len(calls) + 1)
           /\ \A c \in 1..Len(calls) : calls'[c] = calls[c]
           /\ calls'[Len(calls) + 1].step = pos
           /\ calls'[Len(calls) + 1].text = stmt.text
           /\ calls'[Len(calls) + 1].ok = ok
<1>. DEFINE call == [step |-> pos, text |-> stmt.text, ok |-> ok]
<1>1. pos \in Nat /\ stmt \in Stmts
  BY ConstantFacts DEF TypeOK, PlaceInv
<1>2. call \in Call
  BY <1>1 DEF Call
<1>3. calls \in Seq(Call) /\ calls' = Append(calls, call)
  BY DEF TypeOK, Called
<1>4. call.step = pos /\ call.text = stmt.text /\ call.ok = ok
  OBVIOUS
<1>. HIDE DEF call
<1>. QED
  BY <1>2, <1>3, <1>4

\* Emit adds entries or leaves them alone.
LEMMA EmitTypes ==
    ASSUME TypeOK, NEW es \in Seq(Entry), Emit(es)
    PROVE  entries' \in Seq(Entry)
  BY DEF TypeOK, Emit

\* The entries that are emitted are entries of a cursor.
LEMMA EntryTypes ==
    ASSUME TypeOK
    PROVE  /\ \A t \in {"step_begin", "step_error"} :
                 <<StepEntry(t)>> \in Seq(Entry)
           /\ \A t \in {"row", "step_end", "error"} :
                 <<PlainEntry(t)>> \in Seq(Entry)
           /\ <<StepEntry("step_begin"), PlainEntry("step_end")>> \in Seq(Entry)
<1>1. \A t \in {"step_begin", "step_error"} : StepEntry(t) \in Entry
  BY ConstantFacts DEF TypeOK, Entry, StepEntry
<1>2. \A t \in {"row", "step_end", "error"} : PlainEntry(t) \in Entry
  BY DEF Entry, PlainEntry
<1>. QED
  BY <1>1, <1>2

\* SkipTokens finds the position it is specified to find: there is only one.
LEMMA SkipFinds ==
    ASSUME NEW T, NEW text \in Seq(T), NEW tok,
           NEW k \in 1..(Len(text) + 1), NEW j \in k..(Len(text) + 1),
           \A l \in k..(j - 1) : text[l] = tok,
           j \in DOMAIN text => text[j] # tok
    PROVE  SkipTokens(text, tok, k) = j
<1>. DEFINE P(i) == /\ \A l \in k..(i - 1) : text[l] = tok
                    /\ i \in DOMAIN text => text[i] # tok
<1>1. ASSUME NEW i \in k..(Len(text) + 1), P(i)
      PROVE  i = j
  <2>1. CASE i < j
    BY <1>1, <2>1
  <2>2. CASE j < i
    BY <1>1, <2>2
  <2>. QED
    BY <2>1, <2>2
<1>2. P(j)
  OBVIOUS
<1>. HIDE DEF P
<1>3. SkipTokens(text, tok, k) = CHOOSE i \in k..(Len(text) + 1) : P(i)
  BY DEF SkipTokens, P
<1>. QED
  BY <1>1, <1>2, <1>3

\* isWriteStatement misses no write but the hidden ones: what stands before
\* the first token that is no line comment, and from there to the verb, is
\* what its two loops skip.
LEMMA WriteSeen ==
    ASSUME NEW s \in Stmts, WriteText(s.text), ~Hidden(s.text)
    PROVE  isWriteStatement(s.text)
<1>. DEFINE text == s.text
            T == {"line", "block", "open", "write", "read", "begin", "end"}
<1>1. text \in Seq(T) /\ Len(text) \in Nat /\ DOMAIN text = 1..Len(text)
  BY StmtsAssumption
<1>2. PICK v \in DOMAIN text :
         /\ text[v] = "write"
         /\ \A k \in 1..(v - 1) : text[k] \in Comments
  BY DEF WriteText, Does
<1>3. ~Hidden(text)
  OBVIOUS
<1>. HIDE DEF text, T
<1>. DEFINE stops == {j \in 1..v : text[j] # "line"}
<1>4. v \in 1..Len(text) /\ v \in stops /\ stops \subseteq Nat
  BY <1>1, <1>2
<1>5. PICK b \in stops : \A j \in stops : b <= j
  <2>. HIDE DEF stops
  <2>. QED
    BY <1>4, LeastNat
<1>6. b \in 1..v /\ text[b] # "line"
  BY <1>5
<1>7. \A l \in 1..(b - 1) : text[l] = "line"
  <2>. TAKE l \in 1..(b - 1)
  <2>1. l \in 1..v /\ ~(b <= l)
    BY <1>4, <1>6
  <2>. QED
    BY <1>5, <2>1
<1>. HIDE DEF stops
<1>8. \A l \in b..(v - 1) : text[l] = "block"
  <2>. TAKE l \in b..(v - 1)
  <2>1. /\ l \in 1..(v - 1) /\ l \in DOMAIN text
        /\ \A k \in 1..l : text[k] \in Comments
    BY <1>1, <1>2, <1>4, <1>6
  <2>2. CASE text[l] = "line"
    <3>1. l # b /\ b \in 1..(l - 1) /\ b \in 1..(v - 1)
      BY <1>4, <1>6, <2>2
    <3>2. text[b] = "block"
      BY <1>2, <1>6, <3>1 DEF Comments
    <3>3. Hidden(text)
      BY <2>1, <2>2, <3>1, <3>2 DEF Hidden
    <3>. QED
      BY <1>3, <3>3
  <2>3. text[l] \in Comments
    BY <1>2, <2>1
  <2>. QED
    BY <2>2, <2>3 DEF Comments
<1>9. 1 \in 1..(Len(text) + 1) /\ b \in 1..(Len(text) + 1)
  BY <1>1, <1>4, <1>6
<1>10. v \in b..(Len(text) + 1)
  BY <1>1, <1>4, <1>6
<1>11. SkipTokens(text, "line", 1) = b
  BY <1>1, <1>6, <1>7, <1>9, SkipFinds
<1>12. text[v] # "block"
  BY <1>2
<1>13. SkipTokens(text, "block", b) = v
  BY <1>1, <1>8, <1>9, <1>10, <1>12, SkipFinds
<1>14. isWriteStatement(text)
  BY <1>2, <1>11, <1>13 DEF isWriteStatement
<1>. QED
  BY <1>14 DEF text

-----------------------------------------------------------------------------
(* The end of a step *)

\* A step that ends has been entered in one of the two arrays, in neither of
\* which it was.
LEMMA StepEnds ==
    ASSUME IInv, req' = req, NEW answer, StepOver(answer),
           req \in {"stmt", "batch", "cursor"}, pc \in {"check", "run", "rows"},
           \/ results' = results \cup {pos} /\ errors' = errors
           \/ errors' = errors \cup {pos} /\ results' = results
    PROVE  AnswerInv'
<1>1. pos \in Nat /\ results \subseteq Nat /\ errors \subseteq Nat
  BY ConstantFacts DEF IInv, TypeOK, Steps
<1>2. \A k \in results \cup errors : k < pos
  BY DEF IInv, AnswerInv
<1>3. results' \cap errors' = {}
  <2>1. pos \notin results \cup errors
    BY <1>1, <1>2
  <2>. QED
    BY <2>1 DEF IInv, AnswerInv
<1>4. results' \cup errors' = (results \cup errors) \cup {pos}
  OBVIOUS
<1>5. \/ pos' = pos + 1
      \/ pos' = pos /\ pc' = "answered" /\ req = "stmt"
  BY DEF StepOver, Looping
<1>6. \A k \in results' \cup errors' :
         k < pos' \/ (k = pos' /\ pc' = "answered" /\ req' = "stmt")
  <2>. TAKE k \in results' \cup errors'
  <2>1. k \in Nat /\ (k < pos \/ k = pos)
    BY <1>1, <1>2, <1>4
  <2>2. CASE pos' = pos + 1
    BY <1>1, <2>1, <2>2
  <2>3. CASE pos' = pos /\ pc' = "answered" /\ req = "stmt"
    <3>1. req' = "stmt"
      BY <2>3
    <3>. QED
      BY <2>1, <2>3, <3>1
  <2>. QED
    BY <1>5, <2>2, <2>3
<1>. QED
  BY <1>3, <1>6 DEF AnswerInv

\* A call is made for the current step, which the loop then leaves, unless
\* rows are to be read or the request ends.
LEMMA CallKeepsCallInv ==
    ASSUME IInv, pc \in {"check", "run"}, NEW ok \in BOOLEAN, Called(ok),
           req' = req,
           \/ pos' = pos + 1 /\ pc' # "rows"
           \/ pos' = pos /\ pc' = "answered"
           \/ pos' = pos /\ pc' = "rows" /\ ok,
           req = "sequence" /\ pc' # "answered" => ok
    PROVE  CallInv'
<1>. DEFINE n == Len(calls)
<1>1. /\ n \in Nat
      /\ DOMAIN calls = 1..n
      /\ \A c \in 1..n : calls[c].step \in Nat /\ calls[c].step < pos
  BY CallFacts DEF IInv, CallInv
<1>2. /\ Len(calls') = n + 1
      /\ DOMAIN calls' = 1..(n + 1)
      /\ \A c \in 1..n : calls'[c] = calls[c]
      /\ calls'[n + 1].step = pos
      /\ calls'[n + 1].ok = ok
  BY CalledAdds DEF IInv
<1>3. pos \in Nat
  BY ConstantFacts DEF IInv, TypeOK
<1>4. req = "sequence" => \A c \in 1..n : calls[c].ok
  BY <1>1 DEF IInv, CallInv
<1>. HIDE DEF n
<1>5. \A c \in DOMAIN calls' : c \in 1..n \/ c = n + 1
  BY <1>1, <1>2
<1>6. \A c \in 1..n : calls'[c].step < pos'
  BY <1>1, <1>2, <1>3
<1>7. \A c \in DOMAIN calls' :
          \/ calls'[c].step < pos'
          \/ /\ calls'[c].step = pos'
             /\ c = Len(calls')
             /\ pc' = "answered" \/ (pc' = "rows" /\ calls'[c].ok)
  <2>. TAKE c \in DOMAIN calls'
  <2>1. CASE c \in 1..n
    BY <1>6, <2>1
  <2>2. CASE c = n + 1
    <3>1. calls'[c].step = pos /\ c = Len(calls') /\ calls'[c].ok = ok
      BY <1>2, <2>2
    <3>2. CASE pos' = pos + 1
      BY <1>3, <3>1, <3>2
    <3>3. CASE pos' = pos /\ pc' = "answered"
      BY <3>1, <3>3
    <3>4. CASE pos' = pos /\ pc' = "rows" /\ ok
      BY <3>1, <3>4, Zenon
    <3>. QED
      BY <3>2, <3>3, <3>4
  <2>. QED
    BY <1>5, <2>1, <2>2
<1>8. pc' = "rows" => calls' # <<>> /\ calls'[Len(calls')].step = pos'
  BY <1>1, <1>2
<1>9. req' = "sequence" /\ pc' # "answered" =>
         \A c \in DOMAIN calls' : calls'[c].ok
  BY <1>2, <1>4, <1>5
<1>. QED
  BY <1>7, <1>8, <1>9 DEF CallInv

\* A call and the answer it leads to agree.
LEMMA CallKeepsMatch ==
    ASSUME IInv, pc \in {"check", "run"}, NEW ok \in BOOLEAN, Called(ok),
           req' = req, AnswerInv',
           \/ results' = results \cup {pos} /\ errors' = errors /\ ok
           \/ results' = results /\ errors' = errors \cup {pos}
           \/ /\ results' = results /\ errors' = errors
              /\ pc' = "rows" /\ pos' = pos
           \/ /\ results' = results /\ errors' = errors
              /\ req \in {"sequence", "describe"},
           req = "sequence" => ok \/ reply' = "error"
    PROVE  CallsMatchAnswer'
<1>. DEFINE n == Len(calls)
<1>1. /\ n \in Nat
      /\ DOMAIN calls = 1..n
      /\ \A c \in 1..n : calls[c].step \in Nat /\ calls[c].step < pos
  BY CallFacts DEF IInv, CallInv
<1>2. /\ Len(calls') = n + 1
      /\ DOMAIN calls' = 1..(n + 1)
      /\ \A c \in 1..n : calls'[c] = calls[c]
      /\ calls'[n + 1].step = pos
      /\ calls'[n + 1].ok = ok
  BY CalledAdds DEF IInv
<1>3. pos \in Nat
  BY ConstantFacts DEF IInv, TypeOK
<1>4. /\ \A k, l \in 1..n : k < l => calls[k].step < calls[l].step
      /\ req \in {"stmt", "batch", "cursor"} =>
           /\ \A k \in results : \E c \in 1..n : calls[c].step = k /\ calls[c].ok
           /\ \A c \in 1..n : calls[c].step \in results \cup errors
      /\ req = "sequence" => \A c \in 1..n : calls[c].ok
  BY <1>1 DEF IInv, CallsMatchAnswer, CallInv
<1>. HIDE DEF n
<1>5. \A c \in DOMAIN calls' : c \in 1..n \/ c = n + 1
  BY <1>1, <1>2
<1>6. \A k, l \in DOMAIN calls' : k < l => calls'[k].step < calls'[l].step
  <2>. TAKE k, l \in DOMAIN calls'
  <2>. HAVE k < l
  <2>1. k \in 1..n
    BY <1>1, <1>2, <1>5
  <2>. QED
    BY <1>1, <1>2, <1>3, <1>4, <1>5, <2>1
<1>7. ASSUME req \in {"stmt", "batch", "cursor"}, NEW k \in results'
      PROVE  \E c \in DOMAIN calls' : calls'[c].step = k /\ calls'[c].ok
  <2>1. CASE k \in results
    <3>1. PICK c \in 1..n : calls[c].step = k /\ calls[c].ok
      BY <1>4, <1>7, <2>1
    <3>2. c \in DOMAIN calls' /\ calls'[c] = calls[c]
      BY <1>1, <1>2, <3>1
    <3>. QED
      BY <3>1, <3>2
  <2>2. CASE k = pos /\ ok
    <3>1. n + 1 \in DOMAIN calls'
      BY <1>1, <1>2
    <3>. QED
      BY <1>2, <2>2, <3>1
  <2>. QED
    BY <1>7, <2>1, <2>2
<1>8. ASSUME req \in {"stmt", "batch", "cursor"}, NEW c \in DOMAIN calls'
      PROVE  \/ calls'[c].step \in results' \cup errors'
             \/ pc' = "rows" /\ calls'[c].step = pos'
  <2>1. CASE c \in 1..n
    BY <1>2, <1>4, <1>8, <2>1
  <2>2. CASE c = n + 1
    BY <1>2, <1>8, <2>2
  <2>. QED
    BY <1>5, <1>8, <2>1, <2>2
<1>9. ASSUME req = "sequence", NEW c \in DOMAIN calls', ~calls'[c].ok
      PROVE  c = Len(calls') /\ reply' = "error"
  BY <1>2, <1>4, <1>5, <1>9
<1>10. results' \cap errors' = {}
  BY DEF AnswerInv
<1>. QED
  BY <1>6, <1>7, <1>8, <1>9, <1>10 DEF CallsMatchAnswer

\* On a readonly stream a write that goes to the database is hidden.
LEMMA CallKeepsReadOnly ==
    ASSUME IInv, pc \in {"check", "run"}, NEW ok \in BOOLEAN, Called(ok),
           req' = req, mode' = mode,
           mode = "readonly" /\ req \in {"stmt", "batch", "sequence"}
              => ~isWriteStatement(stmt.text)
    PROVE  ReadOnlyKept'
<1>. DEFINE n == Len(calls)
<1>1. n \in Nat /\ DOMAIN calls = 1..n
  BY CallFacts DEF IInv
<1>2. /\ DOMAIN calls' = 1..(n + 1)
      /\ \A c \in 1..n : calls'[c] = calls[c]
      /\ calls'[n + 1].text = stmt.text
  BY CalledAdds DEF IInv
<1>3. stmt \in Stmts
  BY DEF IInv, PlaceInv
<1>. HIDE DEF n
<1>4. ASSUME mode = "readonly", req \in {"stmt", "batch", "sequence"},
             NEW c \in DOMAIN calls', WriteText(calls'[c].text)
      PROVE  Hidden(calls'[c].text)
  <2>1. CASE c \in 1..n
    BY <1>1, <1>2, <1>4, <2>1 DEF IInv, WriteInv, ReadOnlyKept
  <2>2. CASE c = n + 1
    BY <1>2, <1>3, <1>4, <2>2, WriteSeen
  <2>. QED
    BY <1>1, <1>2, <1>4, <2>1, <2>2
<1>. QED
  BY <1>4 DEF ReadOnlyKept

-----------------------------------------------------------------------------
(* The invariant is inductive *)

\* No request is being executed.
LEMMA InitIInv == Init => IInv
  BY ConstantFacts DEF Init, IInv, TypeOK, PlaceInv, AnswerInv, CallInv, WriteInv,
     CallsMatchAnswer, ReadOnlyKept, Steps, Requests

\* A request starts with empty arrays and no calls.
LEMMA BeginKeeps ==
    ASSUME IInv, NEW r \in Requests, NEW n \in 0..MaxSteps,
           r \in {"stmt", "describe"} => n = 1, Begin(r, n)
    PROVE  IInv'
<1>. USE DEF IInv
<1>0. /\ Len(calls) \in Nat
      /\ DOMAIN calls = 1..Len(calls)
      /\ \A c \in 1..Len(calls) :
            calls[c].step \in Nat /\ calls[c].ok \in BOOLEAN
  BY CallFacts
<1>1. TypeOK'
  BY ConstantFacts DEF TypeOK, PlaceInv, Begin, Steps, Requests
<1>2. PlaceInv'
  BY ConstantFacts DEF TypeOK, PlaceInv, Begin, Requests, Looping
<1>3. AnswerInv'
  BY ConstantFacts DEF TypeOK, PlaceInv, AnswerInv, Begin, Steps, Looping,
     Requests
<1>4. CallInv'
  BY ConstantFacts, <1>0 DEF TypeOK, PlaceInv, CallInv, Begin, Looping
<1>5. CallsMatchAnswer'
  BY ConstantFacts, <1>0, <1>3 DEF TypeOK, PlaceInv, AnswerInv, CallInv,
     CallsMatchAnswer, Begin, Looping
<1>6. WriteInv'
  BY <1>0 DEF TypeOK, PlaceInv, WriteInv, ReadOnlyKept,
     Begin, Refused, Looping
<1>. QED
  BY <1>1, <1>2, <1>3, <1>4, <1>5, <1>6 DEF IInv

\* A statement is taken up within the script or the only step.
LEMMA NextStmtKeeps ==
    ASSUME IInv, NEW s \in Stmts, NextStmt(s)
    PROVE  IInv'
<1>. USE DEF IInv
<1>0. /\ Len(calls) \in Nat
      /\ DOMAIN calls = 1..Len(calls)
      /\ \A c \in 1..Len(calls) :
            calls[c].step \in Nat /\ calls[c].ok \in BOOLEAN
  BY CallFacts
<1>1. TypeOK'
  BY ConstantFacts DEF TypeOK, PlaceInv, NextStmt, Looping, Requests, Steps
<1>2. PlaceInv'
  BY ConstantFacts DEF TypeOK, PlaceInv, NextStmt, Looping, Requests
<1>3. AnswerInv'
  BY ConstantFacts DEF TypeOK, PlaceInv, AnswerInv, NextStmt, Looping,
     Requests, Steps
<1>4. CallInv'
  BY ConstantFacts, <1>0 DEF TypeOK, PlaceInv, CallInv, NextStmt, Looping,
     Requests
<1>5. CallsMatchAnswer'
  BY ConstantFacts, <1>0, <1>3 DEF TypeOK, PlaceInv, AnswerInv, CallInv,
     CallsMatchAnswer, NextStmt, Looping, Requests
<1>6. WriteInv'
  BY <1>0 DEF TypeOK, PlaceInv, WriteInv, ReadOnlyKept,
     NextStmt, Looping, Requests, Refused
<1>. QED
  BY <1>1, <1>2, <1>3, <1>4, <1>5, <1>6 DEF IInv

\* A step is taken up within the batch.
LEMMA NextStepKeeps ==
    ASSUME IInv, NEW c \in Conds \cup {Null}, NEW s \in Stmts, NextStep(c, s)
    PROVE  IInv'
<1>. USE DEF IInv
<1>0. /\ Len(calls) \in Nat
      /\ DOMAIN calls = 1..Len(calls)
      /\ \A k \in 1..Len(calls) :
            calls[k].step \in Nat /\ calls[k].ok \in BOOLEAN
  BY CallFacts
<1>1. TypeOK'
  BY ConstantFacts DEF TypeOK, PlaceInv, NextStep, Looping, Steps, Requests
<1>2. PlaceInv'
  BY ConstantFacts DEF TypeOK, PlaceInv, NextStep, Looping, Requests
<1>3. AnswerInv'
  BY ConstantFacts DEF TypeOK, PlaceInv, AnswerInv, NextStep, Looping,
     Steps, Requests
<1>4. CallInv'
  BY ConstantFacts, <1>0 DEF TypeOK, PlaceInv, CallInv, NextStep, Looping
<1>5. CallsMatchAnswer'
  BY ConstantFacts, <1>0, <1>3 DEF TypeOK, PlaceInv, AnswerInv, CallInv,
     CallsMatchAnswer, NextStep, Looping
<1>6. WriteInv'
  BY <1>0 DEF TypeOK, PlaceInv, WriteInv, ReadOnlyKept,
     NextStep, Looping, Refused
<1>. QED
  BY <1>1, <1>2, <1>3, <1>4, <1>5, <1>6 DEF IInv

\* The request is answered when all steps are over.
LEMMA LoopEndsKeeps ==
    ASSUME IInv, LoopEnds
    PROVE  IInv'
<1>. USE DEF IInv
<1>0. /\ Len(calls) \in Nat
      /\ DOMAIN calls = 1..Len(calls)
      /\ \A c \in 1..Len(calls) :
            calls[c].step \in Nat /\ calls[c].ok \in BOOLEAN
  BY CallFacts
<1>1. TypeOK'
  BY ConstantFacts DEF TypeOK, PlaceInv, LoopEnds, Answer, Steps, Requests
<1>2. PlaceInv'
  BY ConstantFacts DEF TypeOK, PlaceInv, LoopEnds, Answer, Requests, Looping
<1>3. AnswerInv'
  BY ConstantFacts DEF TypeOK, PlaceInv, AnswerInv, LoopEnds, Answer, Steps,
     Looping, Requests
<1>4. CallInv'
  BY ConstantFacts, <1>0 DEF TypeOK, PlaceInv, CallInv, LoopEnds, Answer,
     Looping
<1>5. CallsMatchAnswer'
  BY ConstantFacts, <1>0, <1>3 DEF TypeOK, PlaceInv, AnswerInv, CallInv,
     CallsMatchAnswer, LoopEnds, Answer, Looping
<1>6. WriteInv'
  BY <1>0 DEF TypeOK, PlaceInv, WriteInv, ReadOnlyKept,
     LoopEnds, Answer, Refused, Looping
<1>. QED
  BY <1>1, <1>2, <1>3, <1>4, <1>5, <1>6 DEF IInv

\* The step is going to be run.
LEMMA ConditionHoldsKeeps ==
    ASSUME IInv, ConditionHolds
    PROVE  IInv'
<1>. USE DEF IInv
<1>0. /\ Len(calls) \in Nat
      /\ DOMAIN calls = 1..Len(calls)
      /\ \A c \in 1..Len(calls) :
            calls[c].step \in Nat /\ calls[c].ok \in BOOLEAN
  BY CallFacts
<1>1. TypeOK'
  BY ConstantFacts DEF TypeOK, PlaceInv, ConditionHolds, Steps, Requests
<1>2. PlaceInv'
  BY ConstantFacts DEF TypeOK, PlaceInv, ConditionHolds, Requests, Looping
<1>3. AnswerInv'
  BY ConstantFacts DEF TypeOK, PlaceInv, AnswerInv, ConditionHolds, Steps,
     Looping, Requests
<1>4. CallInv'
  BY ConstantFacts, <1>0 DEF TypeOK, PlaceInv, CallInv, ConditionHolds,
     Looping
<1>5. CallsMatchAnswer'
  BY ConstantFacts, <1>0, <1>3 DEF TypeOK, PlaceInv, AnswerInv, CallInv,
     CallsMatchAnswer, ConditionHolds, Looping
<1>6. WriteInv'
  BY <1>0 DEF TypeOK, PlaceInv, WriteInv, ReadOnlyKept,
     ConditionHolds, Refused, Looping
<1>. QED
  BY <1>1, <1>2, <1>3, <1>4, <1>5, <1>6 DEF IInv

\* A skipped step leaves neither a result nor an error.
LEMMA ConditionSkipsKeeps ==
    ASSUME IInv, ConditionSkips
    PROVE  IInv'
<1>. USE DEF IInv
<1>0. /\ Len(calls) \in Nat
      /\ DOMAIN calls = 1..Len(calls)
      /\ \A c \in 1..Len(calls) :
            calls[c].step \in Nat /\ calls[c].ok \in BOOLEAN
  BY CallFacts
<1>1. TypeOK'
  BY ConstantFacts DEF TypeOK, PlaceInv, ConditionSkips, StepOver, Looping,
     Steps, Requests
<1>2. PlaceInv'
  BY ConstantFacts DEF TypeOK, PlaceInv, ConditionSkips, StepOver, Looping,
     Requests
<1>3. AnswerInv'
  BY ConstantFacts DEF TypeOK, PlaceInv, AnswerInv, ConditionSkips,
     StepOver, Looping, Steps, Requests
<1>4. CallInv'
  BY ConstantFacts, <1>0 DEF TypeOK, PlaceInv, CallInv, ConditionSkips,
     StepOver, Looping
<1>5. CallsMatchAnswer'
  BY ConstantFacts, <1>0, <1>3 DEF TypeOK, PlaceInv, AnswerInv, CallInv,
     CallsMatchAnswer, ConditionSkips, StepOver, Looping
<1>6. WriteInv'
  BY <1>0 DEF TypeOK, PlaceInv, WriteInv, ReadOnlyKept,
     ConditionSkips, StepOver, Looping, Refused
<1>. QED
  BY <1>1, <1>2, <1>3, <1>4, <1>5, <1>6 DEF IInv

\* The request ends without the step.
LEMMA ConditionFailsKeeps ==
    ASSUME IInv, ConditionFails
    PROVE  IInv'
<1>. USE DEF IInv
<1>e. entries' \in Seq(Entry)
  <2>1. Emit(<<PlainEntry("error")>>)
    BY DEF ConditionFails
  <2>. QED
    BY <2>1, EmitTypes, EntryTypes
<1>0. /\ Len(calls) \in Nat
      /\ DOMAIN calls = 1..Len(calls)
      /\ \A c \in 1..Len(calls) :
            calls[c].step \in Nat /\ calls[c].ok \in BOOLEAN
  BY CallFacts
<1>1. TypeOK'
  BY ConstantFacts, <1>e DEF TypeOK, PlaceInv, ConditionFails, Answer,
     Looping, Steps, Requests
<1>2. PlaceInv'
  BY ConstantFacts DEF TypeOK, PlaceInv, ConditionFails, Answer, Looping,
     Requests
<1>3. AnswerInv'
  BY ConstantFacts DEF TypeOK, PlaceInv, AnswerInv, ConditionFails, Answer,
     Looping, Steps, Requests
<1>4. CallInv'
  BY ConstantFacts, <1>0 DEF TypeOK, PlaceInv, CallInv, ConditionFails,
     Answer, Looping
<1>5. CallsMatchAnswer'
  BY ConstantFacts, <1>0, <1>3 DEF TypeOK, PlaceInv, AnswerInv, CallInv,
     CallsMatchAnswer, ConditionFails, Answer, Looping
<1>6. WriteInv'
  BY <1>0 DEF TypeOK, PlaceInv, WriteInv, ReadOnlyKept,
     ConditionFails, Answer, Looping, Refused
<1>. QED
  BY <1>1, <1>2, <1>3, <1>4, <1>5, <1>6 DEF IInv

\* A refused step has an error and no call.
LEMMA CheckFailsKeeps ==
    ASSUME IInv, CheckFails
    PROVE  IInv'
<1>. USE DEF IInv
<1>e. entries' \in Seq(Entry)
  <2>1. Emit(<<StepEntry("step_error")>>)
    BY DEF CheckFails
  <2>. QED
    BY <2>1, EmitTypes, EntryTypes
<1>0. /\ Len(calls) \in Nat
      /\ DOMAIN calls = 1..Len(calls)
      /\ \A c \in 1..Len(calls) :
            calls[c].step \in Nat /\ calls[c].ok \in BOOLEAN
  BY CallFacts
<1>1. TypeOK'
  BY ConstantFacts, <1>e DEF TypeOK, PlaceInv, CheckFails, StepFails,
     StepOver, Looping, Steps, Requests
<1>2. PlaceInv'
  BY ConstantFacts DEF TypeOK, PlaceInv, CheckFails, StepFails, StepOver,
     Looping, Requests
<1>3. AnswerInv'
  BY StepEnds DEF PlaceInv, CheckFails, StepFails
<1>4. CallInv'
  BY ConstantFacts, <1>0 DEF TypeOK, PlaceInv, CallInv, CheckFails,
     StepFails, StepOver, Looping
<1>5. CallsMatchAnswer'
  BY ConstantFacts, <1>0, <1>3 DEF TypeOK, PlaceInv, AnswerInv, CallInv,
     CallsMatchAnswer, CheckFails, StepFails, StepOver, Looping
<1>6. WriteInv'
  BY <1>0 DEF TypeOK, PlaceInv, WriteInv, ReadOnlyKept,
     CheckFails, StepFails, StepOver, Looping, Refused
<1>. QED
  BY <1>1, <1>2, <1>3, <1>4, <1>5, <1>6 DEF IInv

\* On a readonly stream only a statement that does not write passes.
LEMMA CheckPassesKeeps ==
    ASSUME IInv, CheckPasses
    PROVE  IInv'
<1>. USE DEF IInv
<1>0. /\ Len(calls) \in Nat
      /\ DOMAIN calls = 1..Len(calls)
      /\ \A c \in 1..Len(calls) :
            calls[c].step \in Nat /\ calls[c].ok \in BOOLEAN
  BY CallFacts
<1>1. TypeOK'
  BY ConstantFacts DEF TypeOK, PlaceInv, CheckPasses, Steps, Requests
<1>2. PlaceInv'
  BY ConstantFacts DEF TypeOK, PlaceInv, CheckPasses, Requests, Looping
<1>3. AnswerInv'
  BY ConstantFacts DEF TypeOK, PlaceInv, AnswerInv, CheckPasses, Steps,
     Looping, Requests
<1>4. CallInv'
  BY ConstantFacts, <1>0 DEF TypeOK, PlaceInv, CallInv, CheckPasses, Looping
<1>5. CallsMatchAnswer'
  BY ConstantFacts, <1>0, <1>3 DEF TypeOK, PlaceInv, AnswerInv, CallInv,
     CallsMatchAnswer, CheckPasses, Looping
<1>6. WriteInv'
  BY <1>0 DEF TypeOK, PlaceInv, WriteInv, ReadOnlyKept,
     CheckPasses, Refused, Looping
<1>. QED
  BY <1>1, <1>2, <1>3, <1>4, <1>5, <1>6 DEF IInv

\* A call without rows ends the step with what the database said.
LEMMA ExecKeeps ==
    ASSUME IInv, NEW ok \in BOOLEAN, Exec(ok)
    PROVE  IInv'
<1>. USE DEF IInv
<1>e. entries' \in Seq(Entry)
  <2>1. CASE ok
    <3>1. Emit(<<StepEntry("step_begin"), PlainEntry("step_end")>>)
      BY <2>1 DEF Exec
    <3>. QED
      BY <3>1, EmitTypes, EntryTypes
  <2>2. CASE ~ok
    <3>1. Emit(<<StepEntry("step_error")>>)
      BY <2>2 DEF Exec
    <3>. QED
      BY <3>1, EmitTypes, EntryTypes
  <2>. QED
    BY <2>1, <2>2
<1>c. /\ calls' \in Seq(Call)
      /\ Len(calls') = Len(calls) + 1
      /\ DOMAIN calls' = 1..(Len(calls) + 1)
      /\ \A c \in 1..Len(calls) : calls'[c] = calls[c]
      /\ calls'[Len(calls) + 1].step = pos
      /\ calls'[Len(calls) + 1].text = stmt.text
      /\ calls'[Len(calls) + 1].ok = ok
  BY CalledAdds DEF Exec
<1>0. /\ Len(calls) \in Nat
      /\ DOMAIN calls = 1..Len(calls)
      /\ \A c \in 1..Len(calls) :
            calls[c].step \in Nat /\ calls[c].ok \in BOOLEAN
  BY CallFacts
<1>1. TypeOK'
  <2>1. CASE ok
    <3>1. StepSucceeds /\ pc = "run" /\ UNCHANGED <<mode, req, size>>
      BY <2>1 DEF Exec
    <3>. QED
      BY ConstantFacts, <1>e, <1>c, <3>1 DEF TypeOK, PlaceInv, StepSucceeds,
         StepOver, Looping, Steps, Requests
  <2>2. CASE ~ok
    <3>1. StepFails /\ pc = "run" /\ UNCHANGED <<mode, req, size>>
      BY <2>2 DEF Exec
    <3>. QED
      BY ConstantFacts, <1>e, <1>c, <3>1 DEF TypeOK, PlaceInv, StepFails,
         StepOver, Looping, Steps, Requests
  <2>. QED
    BY <2>1, <2>2
<1>2. PlaceInv'
  BY ConstantFacts, <1>c DEF TypeOK, PlaceInv, Exec, StepSucceeds,
     StepFails, StepOver, Looping, Requests
<1>3. AnswerInv'
  BY StepEnds DEF PlaceInv, Exec, StepSucceeds, StepFails
<1>4. CallInv'
  BY CallKeepsCallInv, ConstantFacts DEF TypeOK, PlaceInv, Exec,
     StepSucceeds, StepFails, StepOver, Looping
<1>5. CallsMatchAnswer'
  BY CallKeepsMatch, <1>3 DEF PlaceInv, Exec, StepSucceeds, StepFails,
     StepOver, Looping, Requests
<1>r. ReadOnlyKept'
  BY CallKeepsReadOnly DEF PlaceInv, WriteInv, Exec, StepSucceeds,
     StepFails, StepOver, Looping
<1>6. WriteInv'
  BY <1>r DEF WriteInv, Exec, StepSucceeds, StepFails, StepOver, Looping
<1>. QED
  BY <1>1, <1>2, <1>3, <1>4, <1>5, <1>6 DEF IInv

\* A query that fails at once ends the step with an error.
LEMMA QueryFailsKeeps ==
    ASSUME IInv, QueryFails
    PROVE  IInv'
<1>. USE DEF IInv
<1>e. entries' \in Seq(Entry)
  <2>1. Emit(<<StepEntry("step_error")>>)
    BY DEF QueryFails
  <2>. QED
    BY <2>1, EmitTypes, EntryTypes
<1>c. /\ calls' \in Seq(Call)
      /\ Len(calls') = Len(calls) + 1
      /\ DOMAIN calls' = 1..(Len(calls) + 1)
      /\ \A c \in 1..Len(calls) : calls'[c] = calls[c]
      /\ calls'[Len(calls) + 1].step = pos
      /\ calls'[Len(calls) + 1].text = stmt.text
      /\ calls'[Len(calls) + 1].ok = FALSE
  BY CalledAdds DEF QueryFails
<1>0. /\ Len(calls) \in Nat
      /\ DOMAIN calls = 1..Len(calls)
      /\ \A c \in 1..Len(calls) :
            calls[c].step \in Nat /\ calls[c].ok \in BOOLEAN
  BY CallFacts
<1>1. TypeOK'
  BY ConstantFacts, <1>e, <1>c DEF TypeOK, PlaceInv, QueryFails, StepFails,
     StepOver, Looping, Steps, Requests
<1>2. PlaceInv'
  BY ConstantFacts, <1>c DEF TypeOK, PlaceInv, QueryFails, StepFails,
     StepOver, Looping, Requests
<1>3. AnswerInv'
  BY StepEnds DEF PlaceInv, QueryFails, StepFails
<1>4. CallInv'
  BY CallKeepsCallInv, ConstantFacts DEF TypeOK, PlaceInv, QueryFails,
     StepFails, StepOver, Looping
<1>5. CallsMatchAnswer'
  BY CallKeepsMatch, <1>3 DEF PlaceInv, QueryFails, StepFails, StepOver,
     Looping, Requests
<1>r. ReadOnlyKept'
  BY CallKeepsReadOnly DEF PlaceInv, WriteInv, QueryFails, StepFails,
     StepOver, Looping
<1>6. WriteInv'
  BY <1>r DEF WriteInv, QueryFails, StepFails, StepOver, Looping
<1>. QED
  BY <1>1, <1>2, <1>3, <1>4, <1>5, <1>6 DEF IInv

\* The call is made and the step goes on with its rows.
LEMMA QueryStartsKeeps ==
    ASSUME IInv, QueryStarts
    PROVE  IInv'
<1>. USE DEF IInv
<1>e. entries' \in Seq(Entry)
  <2>1. Emit(<<StepEntry("step_begin")>>)
    BY DEF QueryStarts
  <2>. QED
    BY <2>1, EmitTypes, EntryTypes
<1>c. /\ calls' \in Seq(Call)
      /\ Len(calls') = Len(calls) + 1
      /\ DOMAIN calls' = 1..(Len(calls) + 1)
      /\ \A c \in 1..Len(calls) : calls'[c] = calls[c]
      /\ calls'[Len(calls) + 1].step = pos
      /\ calls'[Len(calls) + 1].text = stmt.text
      /\ calls'[Len(calls) + 1].ok = TRUE
  BY CalledAdds DEF QueryStarts
<1>0. /\ Len(calls) \in Nat
      /\ DOMAIN calls = 1..Len(calls)
      /\ \A c \in 1..Len(calls) :
            calls[c].step \in Nat /\ calls[c].ok \in BOOLEAN
  BY CallFacts
<1>1. TypeOK'
  BY ConstantFacts, <1>e, <1>c DEF TypeOK, PlaceInv, QueryStarts, Steps,
     Requests
<1>2. PlaceInv'
  BY ConstantFacts, <1>c DEF TypeOK, PlaceInv, QueryStarts, Requests,
     Looping
<1>3. AnswerInv'
  BY ConstantFacts DEF TypeOK, PlaceInv, AnswerInv, QueryStarts, Steps,
     Looping, Requests
<1>4. CallInv'
  BY CallKeepsCallInv, ConstantFacts DEF TypeOK, PlaceInv, QueryStarts
<1>5. CallsMatchAnswer'
  BY CallKeepsMatch, <1>3 DEF PlaceInv, QueryStarts, Requests, Looping
<1>r. ReadOnlyKept'
  BY CallKeepsReadOnly DEF PlaceInv, WriteInv, QueryStarts
<1>6. WriteInv'
  BY <1>r DEF WriteInv, QueryStarts, Looping
<1>. QED
  BY <1>1, <1>2, <1>3, <1>4, <1>5, <1>6 DEF IInv

\* Reading a row changes nothing but the count and the entries.
LEMMA ReadRowKeeps ==
    ASSUME IInv, ReadRow
    PROVE  IInv'
<1>. USE DEF IInv
<1>e. entries' \in Seq(Entry)
  <2>1. Emit(<<PlainEntry("row")>>)
    BY DEF ReadRow
  <2>. QED
    BY <2>1, EmitTypes, EntryTypes
<1>0. /\ Len(calls) \in Nat
      /\ DOMAIN calls = 1..Len(calls)
      /\ \A c \in 1..Len(calls) :
            calls[c].step \in Nat /\ calls[c].ok \in BOOLEAN
  BY CallFacts
<1>1. TypeOK'
  BY ConstantFacts, <1>e DEF TypeOK, PlaceInv, ReadRow, Steps, Requests
<1>2. PlaceInv'
  BY ConstantFacts DEF TypeOK, PlaceInv, ReadRow, Requests, Looping
<1>3. AnswerInv'
  BY ConstantFacts DEF TypeOK, PlaceInv, AnswerInv, ReadRow, Steps, Looping,
     Requests
<1>4. CallInv'
  BY ConstantFacts, <1>0 DEF TypeOK, PlaceInv, CallInv, ReadRow, Looping
<1>5. CallsMatchAnswer'
  BY ConstantFacts, <1>0, <1>3 DEF TypeOK, PlaceInv, AnswerInv, CallInv,
     CallsMatchAnswer, ReadRow, Looping
<1>6. WriteInv'
  BY <1>0 DEF TypeOK, PlaceInv, WriteInv, ReadOnlyKept,
     ReadRow, Refused, Looping
<1>. QED
  BY <1>1, <1>2, <1>3, <1>4, <1>5, <1>6 DEF IInv

\* The step whose query succeeded has a result.
LEMMA RowsEndKeeps ==
    ASSUME IInv, RowsEnd
    PROVE  IInv'
<1>. USE DEF IInv
<1>e. entries' \in Seq(Entry)
  <2>1. Emit(<<PlainEntry("step_end")>>)
    BY DEF RowsEnd
  <2>. QED
    BY <2>1, EmitTypes, EntryTypes
<1>0. /\ Len(calls) \in Nat
      /\ DOMAIN calls = 1..Len(calls)
      /\ \A c \in 1..Len(calls) :
            calls[c].step \in Nat /\ calls[c].ok \in BOOLEAN
  BY CallFacts
<1>1. TypeOK'
  BY ConstantFacts, <1>e DEF TypeOK, PlaceInv, RowsEnd, StepSucceeds,
     StepOver, Looping, Steps, Requests
<1>2. PlaceInv'
  BY ConstantFacts DEF TypeOK, PlaceInv, RowsEnd, StepSucceeds, StepOver,
     Looping, Requests
<1>3. AnswerInv'
  BY StepEnds DEF PlaceInv, RowsEnd, StepSucceeds
<1>4. CallInv'
  BY ConstantFacts, <1>0 DEF TypeOK, PlaceInv, CallInv, RowsEnd,
     StepSucceeds, StepOver, Looping
<1>5. CallsMatchAnswer'
  BY ConstantFacts, <1>0, <1>3 DEF TypeOK, PlaceInv, AnswerInv, CallInv,
     CallsMatchAnswer, RowsEnd, StepSucceeds, StepOver, Looping
<1>6. WriteInv'
  BY <1>0 DEF TypeOK, PlaceInv, WriteInv, ReadOnlyKept,
     RowsEnd, StepSucceeds, StepOver, Looping, Refused
<1>. QED
  BY <1>1, <1>2, <1>3, <1>4, <1>5, <1>6 DEF IInv

\* The step whose rows break off has an error.
LEMMA RowsBreakOffKeeps ==
    ASSUME IInv, RowsBreakOff
    PROVE  IInv'
<1>. USE DEF IInv
<1>e. entries' \in Seq(Entry)
  <2>1. Emit(<<StepEntry("step_error")>>)
    BY DEF RowsBreakOff
  <2>. QED
    BY <2>1, EmitTypes, EntryTypes
<1>0. /\ Len(calls) \in Nat
      /\ DOMAIN calls = 1..Len(calls)
      /\ \A c \in 1..Len(calls) :
            calls[c].step \in Nat /\ calls[c].ok \in BOOLEAN
  BY CallFacts
<1>1. TypeOK'
  BY ConstantFacts, <1>e DEF TypeOK, PlaceInv, RowsBreakOff, StepFails,
     StepOver, Looping, Steps, Requests
<1>2. PlaceInv'
  BY ConstantFacts DEF TypeOK, PlaceInv, RowsBreakOff, StepFails, StepOver,
     Looping, Requests
<1>3. AnswerInv'
  BY StepEnds DEF PlaceInv, RowsBreakOff, StepFails
<1>4. CallInv'
  BY ConstantFacts, <1>0 DEF TypeOK, PlaceInv, CallInv, RowsBreakOff,
     StepFails, StepOver, Looping
<1>5. CallsMatchAnswer'
  BY ConstantFacts, <1>0, <1>3 DEF TypeOK, PlaceInv, AnswerInv, CallInv,
     CallsMatchAnswer, RowsBreakOff, StepFails, StepOver, Looping
<1>6. WriteInv'
  BY <1>0 DEF TypeOK, PlaceInv, WriteInv, ReadOnlyKept,
     RowsBreakOff, StepFails, StepOver, Looping, Refused
<1>. QED
  BY <1>1, <1>2, <1>3, <1>4, <1>5, <1>6 DEF IInv

\* An empty piece makes no call.
LEMMA PieceEmptyKeeps ==
    ASSUME IInv, PieceEmpty
    PROVE  IInv'
<1>. USE DEF IInv
<1>0. /\ Len(calls) \in Nat
      /\ DOMAIN calls = 1..Len(calls)
      /\ \A c \in 1..Len(calls) :
            calls[c].step \in Nat /\ calls[c].ok \in BOOLEAN
  BY CallFacts
<1>1. TypeOK'
  BY ConstantFacts DEF TypeOK, PlaceInv, PieceEmpty, Steps, Requests
<1>2. PlaceInv'
  BY ConstantFacts DEF TypeOK, PlaceInv, PieceEmpty, Requests, Looping
<1>3. AnswerInv'
  BY ConstantFacts DEF TypeOK, PlaceInv, AnswerInv, PieceEmpty, Steps,
     Looping, Requests
<1>4. CallInv'
  BY ConstantFacts, <1>0 DEF TypeOK, PlaceInv, CallInv, PieceEmpty, Looping
<1>5. CallsMatchAnswer'
  BY ConstantFacts, <1>0, <1>3 DEF TypeOK, PlaceInv, AnswerInv, CallInv,
     CallsMatchAnswer, PieceEmpty, Looping
<1>6. WriteInv'
  BY <1>0 DEF TypeOK, PlaceInv, WriteInv, ReadOnlyKept,
     PieceEmpty, Refused, Looping
<1>. QED
  BY <1>1, <1>2, <1>3, <1>4, <1>5, <1>6 DEF IInv

\* A refused piece ends the script without a call.
LEMMA PieceRefusedKeeps ==
    ASSUME IInv, PieceRefused
    PROVE  IInv'
<1>. USE DEF IInv
<1>0. /\ Len(calls) \in Nat
      /\ DOMAIN calls = 1..Len(calls)
      /\ \A c \in 1..Len(calls) :
            calls[c].step \in Nat /\ calls[c].ok \in BOOLEAN
  BY CallFacts
<1>1. TypeOK'
  BY ConstantFacts DEF TypeOK, PlaceInv, PieceRefused, Answer, Steps,
     Requests
<1>2. PlaceInv'
  BY ConstantFacts DEF TypeOK, PlaceInv, PieceRefused, Answer, Requests,
     Looping
<1>3. AnswerInv'
  BY ConstantFacts DEF TypeOK, PlaceInv, AnswerInv, PieceRefused, Answer,
     Steps, Looping, Requests
<1>4. CallInv'
  BY ConstantFacts, <1>0 DEF TypeOK, PlaceInv, CallInv, PieceRefused,
     Answer, Looping
<1>5. CallsMatchAnswer'
  BY ConstantFacts, <1>0, <1>3 DEF TypeOK, PlaceInv, AnswerInv, CallInv,
     CallsMatchAnswer, PieceRefused, Answer, Looping
<1>6. WriteInv'
  BY <1>0 DEF TypeOK, PlaceInv, WriteInv, ReadOnlyKept,
     PieceRefused, Answer, Refused, Looping
<1>. QED
  BY <1>1, <1>2, <1>3, <1>4, <1>5, <1>6 DEF IInv

\* A piece that fails is the script's last.
LEMMA PieceRunsKeeps ==
    ASSUME IInv, NEW ok \in BOOLEAN, PieceRuns(ok)
    PROVE  IInv'
<1>. USE DEF IInv
<1>c. /\ calls' \in Seq(Call)
      /\ Len(calls') = Len(calls) + 1
      /\ DOMAIN calls' = 1..(Len(calls) + 1)
      /\ \A c \in 1..Len(calls) : calls'[c] = calls[c]
      /\ calls'[Len(calls) + 1].step = pos
      /\ calls'[Len(calls) + 1].text = stmt.text
      /\ calls'[Len(calls) + 1].ok = ok
  BY CalledAdds DEF PieceRuns
<1>0. /\ Len(calls) \in Nat
      /\ DOMAIN calls = 1..Len(calls)
      /\ \A c \in 1..Len(calls) :
            calls[c].step \in Nat /\ calls[c].ok \in BOOLEAN
  BY CallFacts
<1>1. TypeOK'
  BY ConstantFacts, <1>c DEF TypeOK, PlaceInv, PieceRuns, Answer, Steps,
     Requests
<1>2. PlaceInv'
  BY ConstantFacts, <1>c DEF TypeOK, PlaceInv, PieceRuns, Answer, Requests,
     Looping
<1>3. AnswerInv'
  BY ConstantFacts DEF TypeOK, PlaceInv, AnswerInv, PieceRuns, Answer,
     Steps, Looping, Requests
<1>4. CallInv'
  BY CallKeepsCallInv, ConstantFacts DEF TypeOK, PlaceInv, PieceRuns, Answer
<1>5. CallsMatchAnswer'
  BY CallKeepsMatch, <1>3 DEF PlaceInv, PieceRuns, Answer, Requests, Looping
<1>r. ReadOnlyKept'
  BY CallKeepsReadOnly DEF PlaceInv, WriteInv, PieceRuns, Answer
<1>6. WriteInv'
  BY <1>r DEF WriteInv, PieceRuns, Answer, Looping
<1>. QED
  BY <1>1, <1>2, <1>3, <1>4, <1>5, <1>6 DEF IInv

\* describe makes one call and is answered.
LEMMA DescribeKeeps ==
    ASSUME IInv, NEW ok \in BOOLEAN, Describe(ok)
    PROVE  IInv'
<1>. USE DEF IInv
<1>c. /\ calls' \in Seq(Call)
      /\ Len(calls') = Len(calls) + 1
      /\ DOMAIN calls' = 1..(Len(calls) + 1)
      /\ \A c \in 1..Len(calls) : calls'[c] = calls[c]
      /\ calls'[Len(calls) + 1].step = pos
      /\ calls'[Len(calls) + 1].text = stmt.text
      /\ calls'[Len(calls) + 1].ok = ok
  BY CalledAdds DEF Describe
<1>0. /\ Len(calls) \in Nat
      /\ DOMAIN calls = 1..Len(calls)
      /\ \A c \in 1..Len(calls) :
            calls[c].step \in Nat /\ calls[c].ok \in BOOLEAN
  BY CallFacts
<1>1. TypeOK'
  BY ConstantFacts, <1>c DEF TypeOK, PlaceInv, Describe, Answer, Steps,
     Requests
<1>2. PlaceInv'
  BY ConstantFacts, <1>c DEF TypeOK, PlaceInv, Describe, Answer, Requests,
     Looping
<1>3. AnswerInv'
  BY ConstantFacts DEF TypeOK, PlaceInv, AnswerInv, Describe, Answer, Steps,
     Looping, Requests
<1>4. CallInv'
  BY CallKeepsCallInv, ConstantFacts DEF TypeOK, PlaceInv, Describe, Answer
<1>5. CallsMatchAnswer'
  BY CallKeepsMatch, <1>3 DEF PlaceInv, Describe, Answer, Requests, Looping
<1>r. ReadOnlyKept'
  BY CallKeepsReadOnly DEF PlaceInv, WriteInv, Describe, Answer
<1>6. WriteInv'
  BY <1>r DEF WriteInv, Describe, Answer, Looping
<1>. QED
  BY <1>1, <1>2, <1>3, <1>4, <1>5, <1>6 DEF IInv

\* The history is forgotten with the request.
LEMMA ReturnKeeps ==
    ASSUME IInv, Return
    PROVE  IInv'
<1>. USE DEF IInv
<1>0. /\ Len(calls) \in Nat
      /\ DOMAIN calls = 1..Len(calls)
      /\ \A c \in 1..Len(calls) :
            calls[c].step \in Nat /\ calls[c].ok \in BOOLEAN
  BY CallFacts
<1>1. TypeOK'
  BY ConstantFacts DEF TypeOK, PlaceInv, Return, Steps, Requests
<1>2. PlaceInv'
  BY ConstantFacts DEF TypeOK, PlaceInv, Return, Requests, Looping
<1>3. AnswerInv'
  BY ConstantFacts DEF TypeOK, PlaceInv, AnswerInv, Return, Steps, Looping,
     Requests
<1>4. CallInv'
  BY ConstantFacts, <1>0 DEF TypeOK, PlaceInv, CallInv, Return, Looping
<1>5. CallsMatchAnswer'
  BY ConstantFacts, <1>0, <1>3 DEF TypeOK, PlaceInv, AnswerInv, CallInv,
     CallsMatchAnswer, Return, Looping
<1>6. WriteInv'
  BY <1>0 DEF TypeOK, PlaceInv, WriteInv, ReadOnlyKept,
     Return, Refused, Looping
<1>. QED
  BY <1>1, <1>2, <1>3, <1>4, <1>5, <1>6 DEF IInv

\* Every step keeps the invariant.
LEMMA NextKeeps ==
    ASSUME IInv, [Next]_vars
    PROVE  IInv'
<1>1. ASSUME NEW r \in {"batch", "cursor", "sequence"},
             NEW n \in 0..MaxSteps, Begin(r, n)
      PROVE  IInv'
  BY <1>1, BeginKeeps DEF Requests
<1>2. ASSUME NEW r \in {"stmt", "describe"}, Begin(r, 1)
      PROVE  IInv'
  <2>1. 1 \in 0..MaxSteps
    BY ConstantFacts
  <2>. QED
    BY <1>2, <2>1, BeginKeeps DEF Requests
<1>3. ASSUME NEW s \in Stmts, NextStmt(s)
      PROVE  IInv'
  BY <1>3, NextStmtKeeps
<1>4. ASSUME NEW c \in Conds \cup {Null}, NEW s \in Stmts, NextStep(c, s)
      PROVE  IInv'
  BY <1>4, NextStepKeeps
<1>5. ASSUME NEW ok \in BOOLEAN, Exec(ok) \/ PieceRuns(ok) \/ Describe(ok)
      PROVE  IInv'
  BY <1>5, ExecKeeps, PieceRunsKeeps, DescribeKeeps
<1>6. CASE LoopEnds \/ ConditionHolds \/ ConditionSkips \/ ConditionFails
  BY <1>6, LoopEndsKeeps, ConditionHoldsKeeps, ConditionSkipsKeeps,
     ConditionFailsKeeps
<1>7. CASE CheckFails \/ CheckPasses \/ QueryFails \/ QueryStarts
  BY <1>7, CheckFailsKeeps, CheckPassesKeeps, QueryFailsKeeps,
     QueryStartsKeeps
<1>8. CASE ReadRow \/ RowsEnd \/ RowsBreakOff
  BY <1>8, ReadRowKeeps, RowsEndKeeps, RowsBreakOffKeeps
<1>9. CASE PieceEmpty \/ PieceRefused \/ Return
  BY <1>9, PieceEmptyKeeps, PieceRefusedKeeps, ReturnKeeps
<1>10. CASE UNCHANGED vars
  BY <1>10 DEF vars, IInv, TypeOK, PlaceInv, AnswerInv, CallInv,
     CallsMatchAnswer, WriteInv, ReadOnlyKept
<1>. QED
  BY <1>1, <1>2, <1>3, <1>4, <1>5, <1>6, <1>7, <1>8, <1>9, <1>10 DEF Next

\* The invariant holds in every reachable state.
LEMMA Invariance == Spec => []IInv
  BY InitIInv, NextKeeps, PTL DEF Spec

-----------------------------------------------------------------------------
(* Theorems *)

\* Whatever is asked for and whatever the database answers, the two arrays
\* stay within the batch and the entries are entries of a cursor
\* (executor.go:204-321, 362-487).
THEOREM TypeCorrect == Spec => []TypeOK
<1>1. IInv => TypeOK
  BY DEF IInv
<1>. QED
  BY <1>1, Invariance, PTL

\* The answer agrees with the calls of the database: a batch or a cursor of
\* any length runs each step at most once and in order, one with a result
\* has been executed, one without result and error never, and a script stops
\* at its first failure (executor.go:214-239, 297-321, 375-487).
THEOREM AnswersMatchCalls == Spec => []CallsMatchAnswer
<1>1. IInv => CallsMatchAnswer
  BY DEF IInv
<1>. QED
  BY <1>1, Invariance, PTL

\* Of all writes, only those behind a line comment that follows a block
\* comment reach the database through a statement, a batch or a script on a
\* readonly stream, however many comments stand before the verb
\* (executor.go:19-21, 302-310; utils.go:101-126).
THEOREM ReadOnlyHolds == Spec => []ReadOnlyKept
<1>1. IInv => ReadOnlyKept
  BY DEF IInv, WriteInv
<1>. QED
  BY <1>1, Invariance, PTL

=============================================================================
