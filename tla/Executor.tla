------------------------------ MODULE Executor ------------------------------
(***************************************************************************)
(* The statement executor of executor.go: one request at a time on one     *)
(* stream (its callers hold stream.mu), from the steps of the request to   *)
(* the calls of database/sql and to the answer.                            *)
(*                                                                         *)
(* "stmt" is executeStmt, "batch" executeBatch, "cursor"                   *)
(* executeBatchCursor, "sequence" executeSequence and "describe"           *)
(* describeStmt.  The loops take their steps as they come: a step is one   *)
(* of Stmts with one of Conds, or none, chosen when the loop reaches it.   *)
(* The database answers each call as it likes.  A text is the sequence of  *)
(* its tokens as far as isWriteStatement looks at them: comments "line"    *)
(* and "block", "open" (a block comment that does not end), and the verb,  *)
(* "write", "read", "begin" or "end" (COMMIT, ROLLBACK).                   *)
(***************************************************************************)
EXTENDS BatchCond

CONSTANTS
    Stmts,      \* [known, text, args, rows]: see Step
    MaxSteps,   \* bound: steps of a batch, pieces of a sequence
    MaxRows     \* bound: rows a query yields

Requests == {"stmt", "batch", "cursor", "sequence", "describe"}

ASSUME ExecutorAssumption ==
    /\ MaxSteps \in Nat \ {0}
    /\ MaxRows \in Nat
    /\ Null \notin Conds
    /\ Null \notin Requests

\* A statement: sql or a stored sql_id resolves (known) to text, the
\* arguments have types the code knows (args), and rows are wanted (rows).
ASSUME StmtsAssumption ==
    Stmts \subseteq [known: BOOLEAN,
                     text: Seq({"line", "block", "open", "write", "read",
                                "begin", "end"}),
                     args: BOOLEAN, rows: BOOLEAN]

Steps == 0..(MaxSteps - 1)

VARIABLES
    mode,       \* stream.Mode
    req,        \* the request being executed, or Null
    pc,         \* place in it
    size,       \* len(batch.Steps); number of pieces of a script
    pos,        \* the loop's i
    cond,       \* condition of the current step
    stmt,       \* the current statement
    results,    \* steps with a stepResults entry
    errors,     \* steps with a stepErrors entry
    read,       \* rows read from the running query
    entries,    \* cursor entries emitted
    reply,      \* what the function returned
    calls       \* history: calls of the database made for this request

vars == <<mode, req, pc, size, pos, cond, stmt, results, errors, read,
          entries, reply, calls>>

Looping == {"batch", "cursor"}

Entry ==
    [type: {"step_begin", "step_error"}, step: Nat]
        \cup [type: {"row", "step_end", "error"}]
Call == [step: Nat, text: {s.text : s \in Stmts}, ok: BOOLEAN]

TypeOK ==
    /\ mode \in {"readonly", "readwrite"}
    /\ req \in Requests \cup {Null}
    /\ pc \in {"idle", "next", "cond", "check", "run", "rows", "answered"}
    /\ size \in 0..MaxSteps
    /\ pos \in 0..MaxSteps
    /\ cond \in Conds \cup {Null}
    /\ stmt \in Stmts \cup {Null}
    /\ results \in SUBSET Steps
    /\ errors \in SUBSET Steps
    /\ read \in 0..MaxRows
    /\ entries \in Seq(Entry)
    /\ reply \in {Null, "result", "error"}
    /\ calls \in Seq(Call)

Init ==
    /\ mode \in {"readonly", "readwrite"}
    /\ req = Null
    /\ pc = "idle"
    /\ size = 0
    /\ pos = 0
    /\ cond = Null
    /\ stmt = Null
    /\ results = {}
    /\ errors = {}
    /\ read = 0
    /\ entries = <<>>
    /\ reply = Null
    /\ calls = <<>>

-----------------------------------------------------------------------------
(* Statements *)

\* The first position from k on whose token is not tok.
SkipTokens(text, tok, k) ==
    CHOOSE j \in k..(Len(text) + 1) :
        /\ \A l \in k..(j - 1) : text[l] = tok
        /\ j \in DOMAIN text => text[j] # tok

\* Fault: comments are not skipped.
isWriteAtOnce(text) == text # <<>> /\ text[1] = "write"

\* isWriteStatement: line comments are skipped, then block comments, then
\* the verb is compared with writeKeywords.
isWriteStatement(text) ==
    LET verb == SkipTokens(text, "block", SkipTokens(text, "line", 1))
    IN  verb \in DOMAIN text /\ text[verb] = "write"

\* Why a statement does not reach the database: resolveStmtSQL, the readonly
\* mode (which the cursor does not look at), buildArgs.
Refused(s) ==
    \/ ~s.known
    \/ req # "cursor" /\ mode = "readonly" /\ isWriteStatement(s.text)
    \/ ~s.args

Emit(es) == entries' = IF req = "cursor" THEN entries \o es ELSE entries

StepEntry(type) == [type |-> type, step |-> pos]
PlainEntry(type) == [type |-> type]

Called(ok) ==
    calls' = Append(calls, [step |-> pos, text |-> stmt.text, ok |-> ok])

-----------------------------------------------------------------------------
(* The end of a step, and of the request *)

\* The loop goes on; outside a loop the function returns.
StepOver(answer) ==
    /\ read' = 0
    /\ cond' = Null
    /\ IF req \in Looping
       THEN /\ pos' = pos + 1
            /\ pc' = "next"
            /\ stmt' = Null
            /\ UNCHANGED reply
       ELSE /\ pc' = "answered"
            /\ reply' = answer
            /\ UNCHANGED <<pos, stmt>>

\* stepResults[i] = result
StepSucceeds ==
    /\ results' = results \cup {pos}
    /\ UNCHANGED errors
    /\ StepOver("result")

\* stepErrors[i] = err
StepFails ==
    /\ errors' = errors \cup {pos}
    /\ UNCHANGED results
    /\ StepOver("error")

Answer(what) ==
    /\ pc' = "answered"
    /\ reply' = what

-----------------------------------------------------------------------------
(* Requests *)

\* A function is called: the loops first allocate their arrays.
Begin(r, n) ==
    /\ pc = "idle"
    /\ req' = r
    /\ size' = n
    /\ pc' = "next"
    /\ UNCHANGED <<mode, pos, cond, stmt, results, errors, read, entries,
                   reply, calls>>

\* executeStmt, describeStmt and each piece of a script have no condition.
NextStmt(s) ==
    /\ pc = "next"
    /\ req \in Requests \ Looping
    /\ pos < size
    /\ stmt' = s
    /\ pc' = "check"
    /\ UNCHANGED <<mode, req, size, pos, cond, results, errors, read,
                   entries, reply, calls>>

\* Fault: the loop runs one step too far.
NextStepInclusive(c, s) ==
    /\ pc = "next"
    /\ req \in Looping
    /\ pos <= size
    /\ cond' = c
    /\ stmt' = s
    /\ pc' = "cond"
    /\ UNCHANGED <<mode, req, size, pos, results, errors, read, entries,
                   reply, calls>>

NextStep(c, s) ==
    /\ pc = "next"
    /\ req \in Looping
    /\ pos < size
    /\ cond' = c
    /\ stmt' = s
    /\ pc' = "cond"
    /\ UNCHANGED <<mode, req, size, pos, results, errors, read, entries,
                   reply, calls>>

\* The range is over.
LoopEnds ==
    /\ pc = "next"
    /\ pos >= size
    /\ Answer("result")
    /\ UNCHANGED <<mode, req, size, pos, cond, stmt, results, errors, read,
                   entries, calls>>

\* A step without a condition is run.
CondValue ==
    IF cond = Null THEN "true" ELSE evalBatchCond(cond, results, errors)

ConditionHolds ==
    /\ pc = "cond"
    /\ CondValue = "true"
    /\ pc' = "check"
    /\ UNCHANGED <<mode, req, size, pos, cond, stmt, results, errors, read,
                   entries, reply, calls>>

\* continue
ConditionSkips ==
    /\ pc = "cond"
    /\ CondValue = "false"
    /\ StepOver("result")
    /\ UNCHANGED <<mode, req, size, results, errors, entries, calls>>

\* A batch returns an error and nothing else; a cursor ends with an entry
\* of type error.
ConditionFails ==
    /\ pc = "cond"
    /\ CondValue = "fail"
    /\ Emit(<<PlainEntry("error")>>)
    /\ Answer(IF req = "batch" THEN "error" ELSE "result")
    /\ UNCHANGED <<mode, req, size, pos, cond, stmt, results, errors, read,
                   calls>>

\* executeStmt and the cursor prepare a statement.
CheckFails ==
    /\ pc = "check"
    /\ req \in {"stmt", "batch", "cursor"}
    /\ Refused(stmt)
    /\ Emit(<<StepEntry("step_error")>>)
    /\ StepFails
    /\ UNCHANGED <<mode, req, size, calls>>

CheckPasses ==
    /\ pc = "check"
    /\ req \in {"stmt", "batch", "cursor"}
    /\ ~Refused(stmt)
    /\ pc' = "run"
    /\ UNCHANGED <<mode, req, size, pos, cond, stmt, results, errors, read,
                   entries, reply, calls>>

\* Conn.ExecContext, for a statement whose rows are not wanted.
Exec(ok) ==
    /\ pc = "run"
    /\ ~stmt.rows
    /\ Called(ok)
    /\ IF ok
       THEN /\ Emit(<<StepEntry("step_begin"), PlainEntry("step_end")>>)
            /\ StepSucceeds
       ELSE /\ Emit(<<StepEntry("step_error")>>)
            /\ StepFails
    /\ UNCHANGED <<mode, req, size>>

\* Conn.QueryContext.
QueryFails ==
    /\ pc = "run"
    /\ stmt.rows
    /\ Called(FALSE)
    /\ Emit(<<StepEntry("step_error")>>)
    /\ StepFails
    /\ UNCHANGED <<mode, req, size>>

QueryStarts ==
    /\ pc = "run"
    /\ stmt.rows
    /\ Called(TRUE)
    /\ Emit(<<StepEntry("step_begin")>>)
    /\ pc' = "rows"
    /\ UNCHANGED <<mode, req, size, pos, cond, stmt, results, errors, read,
                   reply>>

\* rows.Next and rows.Scan.
ReadRow ==
    /\ pc = "rows"
    /\ read < MaxRows
    /\ read' = read + 1
    /\ Emit(<<PlainEntry("row")>>)
    /\ UNCHANGED <<mode, req, pc, size, pos, cond, stmt, results, errors,
                   reply, calls>>

RowsEnd ==
    /\ pc = "rows"
    /\ Emit(<<PlainEntry("step_end")>>)
    /\ StepSucceeds
    /\ UNCHANGED <<mode, req, size, calls>>

\* Fault: the cursor says nothing of a query that breaks off.
RowsBreakOffSilently ==
    /\ pc = "rows"
    /\ UNCHANGED entries
    /\ StepFails
    /\ UNCHANGED <<mode, req, size, calls>>

\* Scan or the iteration fails; the rows read so far are dropped, except
\* that a cursor has already emitted them.
RowsBreakOff ==
    /\ pc = "rows"
    /\ Emit(<<StepEntry("step_error")>>)
    /\ StepFails
    /\ UNCHANGED <<mode, req, size, calls>>

-----------------------------------------------------------------------------
(* executeSequence, describeStmt *)

\* strings.TrimSpace(stmt) == "": the piece is skipped.
PieceEmpty ==
    /\ pc = "next"
    /\ req = "sequence"
    /\ pos < size
    /\ pos' = pos + 1
    /\ UNCHANGED <<mode, req, pc, size, cond, stmt, results, errors, read,
                   entries, reply, calls>>

\* A write in readonly mode ends the script; earlier pieces stay executed.
PieceRefused ==
    /\ pc = "check"
    /\ req = "sequence"
    /\ mode = "readonly" /\ isWriteStatement(stmt.text)
    /\ Answer("error")
    /\ UNCHANGED <<mode, req, size, pos, cond, stmt, results, errors, read,
                   entries, calls>>

\* Fault: the script goes on after a piece that failed.
PieceRunsRegardless(ok) ==
    /\ pc = "check"
    /\ req = "sequence"
    /\ ~(mode = "readonly" /\ isWriteStatement(stmt.text))
    /\ Called(ok)
    /\ pos' = pos + 1
    /\ pc' = "next"
    /\ stmt' = Null
    /\ UNCHANGED <<mode, req, size, cond, results, errors, read, entries,
                   reply>>

\* Conn.ExecContext; the first error ends the script.
PieceRuns(ok) ==
    /\ pc = "check"
    /\ req = "sequence"
    /\ ~(mode = "readonly" /\ isWriteStatement(stmt.text))
    /\ Called(ok)
    /\ IF ok
       THEN /\ pos' = pos + 1
            /\ pc' = "next"
            /\ stmt' = Null
            /\ UNCHANGED reply
       ELSE Answer("error") /\ UNCHANGED <<pos, stmt>>
    /\ UNCHANGED <<mode, req, size, cond, results, errors, read, entries>>

\* Conn.QueryContext on the text itself, whatever the mode; an error of the
\* database is answered with an empty description.
Describe(ok) ==
    /\ pc = "check"
    /\ req = "describe"
    /\ Called(ok)
    /\ Answer("result")
    /\ UNCHANGED <<mode, req, size, pos, cond, stmt, results, errors, read,
                   entries>>

\* The handler has taken the answer and unlocks the stream.
Return ==
    /\ pc = "answered"
    /\ req' = Null
    /\ pc' = "idle"
    /\ size' = 0
    /\ pos' = 0
    /\ cond' = Null
    /\ stmt' = Null
    /\ results' = {}
    /\ errors' = {}
    /\ read' = 0
    /\ entries' = <<>>
    /\ reply' = Null
    /\ calls' = <<>>
    /\ UNCHANGED mode

-----------------------------------------------------------------------------
Next ==
    \/ \E r \in {"batch", "cursor", "sequence"}, n \in 0..MaxSteps : Begin(r, n)
    \/ \E r \in {"stmt", "describe"} : Begin(r, 1)
    \/ \E s \in Stmts : NextStmt(s)
    \/ \E c \in Conds \cup {Null}, s \in Stmts : NextStep(c, s)
    \/ LoopEnds
    \/ ConditionHolds \/ ConditionSkips \/ ConditionFails
    \/ CheckFails \/ CheckPasses
    \/ \E ok \in BOOLEAN : Exec(ok)
    \/ QueryFails \/ QueryStarts \/ ReadRow \/ RowsEnd \/ RowsBreakOff
    \/ PieceEmpty \/ PieceRefused \/ (\E ok \in BOOLEAN : PieceRuns(ok))
    \/ \E ok \in BOOLEAN : Describe(ok)
    \/ Return

Spec == Init /\ [][Next]_vars

-----------------------------------------------------------------------------
(* What a batch promises *)

\* Position k of the entries lies within step j's begin and its end.
Opened(k, j) ==
    \E b \in 1..(k - 1) :
        /\ entries[b] = [type |-> "step_begin", step |-> j]
        /\ \A e \in (b + 1)..(k - 1) : entries[e].type = "row"

\* The outcome of a step as the client of a cursor reads it off the entries,
\* and as the client of a batch reads it off the two arrays.
EntryOutcome(k) ==
    IF \E e \in DOMAIN entries :
           entries[e] = [type |-> "step_error", step |-> k]
    THEN "error"
    ELSE IF \E e \in DOMAIN entries :
                entries[e].type = "step_end" /\ Opened(e, k)
    THEN "ok"
    ELSE "skipped"

ArrayOutcome(k) ==
    IF k \in errors THEN "error" ELSE IF k \in results THEN "ok" ELSE "skipped"

Outcome(k) ==
    IF req \notin Looping \/ k >= pos THEN "todo"
    ELSE IF req = "cursor" THEN EntryOutcome(k)
    ELSE ArrayOutcome(k)

\* A condition that could not be evaluated has ended the request.
GivenUp ==
    \/ req = "batch" /\ reply = "error"
    \/ \E e \in DOMAIN entries : entries[e].type = "error"

Verdict ==
    IF req \notin Looping THEN "idle"
    ELSE IF pc = "next" THEN "running"
    ELSE IF pc # "answered" THEN "fetched"
    ELSE IF GivenUp THEN "rejected"
    ELSE "complete"

Comments == {"line", "block"}

\* What the database makes of a text: comments before the verb are skipped,
\* in any order.
Does(text, verb) ==
    \E v \in DOMAIN text :
        /\ text[v] = verb
        /\ \A k \in 1..(v - 1) : text[k] \in Comments

\* Before the current step, call c has opened or ended a transaction.
Did(c, verb) ==
    calls[c].ok /\ calls[c].step < pos /\ Does(calls[c].text, verb)

\* The stream is outside a transaction when the current step is decided, if
\* it was when the request began and no error has rolled one back.
Autocommit ==
    \A c \in DOMAIN calls : Did(c, "begin") =>
        \E d \in DOMAIN calls : c < d /\ Did(d, "end")

Promise == INSTANCE BatchPromise WITH
    size <- IF req \in Looping THEN size ELSE 0,
    cond <- IF req \in Looping THEN cond ELSE Null,
    outcome <- [k \in Steps |-> Outcome(k)],
    verdict <- Verdict,
    autocommit <- Autocommit

\* A batch and a cursor over the same batch run, skip and give up the same
\* steps by the meaning of the conditions, and their two forms of answer say
\* so; is_autocommit is excepted inside a transaction, where the code's
\* answer is wrong (executor.go:214-298, 362-487; HRANA_3_SPEC.md:1127-1129
\* "A sequence of entries encodes the same information as a BatchResult").
BatchPromised == Promise!Spec

-----------------------------------------------------------------------------
(* Safety *)

\* Entries of a cursor can be decoded: rows and step_end only inside a step,
\* steps closed before the next one opens and in increasing order, an error
\* inside a step names that step, and an entry of type error is the last
\* (HRANA_3_SPEC.md:1154-1166, 1184-1196).
CursorGrammar ==
    /\ \A k \in DOMAIN entries :
          /\ entries[k].type \in {"row", "step_end"} =>
                \E j \in Steps : Opened(k, j)
          /\ entries[k].type \in {"step_begin", "error"} =>
                \A j \in Steps : ~Opened(k, j)
          /\ entries[k].type = "step_error" =>
                \A j \in Steps : Opened(k, j) => j = entries[k].step
          /\ entries[k].type = "error" => k = Len(entries)
    /\ \A k, l \in DOMAIN entries :
          /\ k < l
          /\ "step" \in DOMAIN entries[k]
          /\ "step" \in DOMAIN entries[l]
          => \/ entries[k].step < entries[l].step
             \/ entries[l].type = "step_error" /\ Opened(l, entries[k].step)
    /\ pc = "answered" => \A j \in Steps : ~Opened(Len(entries) + 1, j)

\* What the answer says happened is what the database was asked to do: a
\* step is tried once and in order, one without result and error never, one
\* with a result with success; a script stops at its first failure and is
\* only answered ok if there was none (executor.go:229-234, 302-316).
CallsMatchAnswer ==
    /\ \A k, l \in DOMAIN calls : k < l => calls[k].step < calls[l].step
    /\ req \in {"stmt", "batch", "cursor"} =>
          /\ results \cap errors = {}
          /\ \A k \in results : \E c \in DOMAIN calls :
                calls[c].step = k /\ calls[c].ok
          /\ \A c \in DOMAIN calls :
                \/ calls[c].step \in results \cup errors
                \/ pc = "rows" /\ calls[c].step = pos
    /\ req = "sequence" =>
          \A c \in DOMAIN calls :
             ~calls[c].ok => c = Len(calls) /\ reply = "error"

WriteText(text) == Does(text, "write")

\* Among the comments before the verb, a line comment stands behind a block
\* comment: isWriteStatement, which skips either kind once, takes it for the
\* verb.
Hidden(text) ==
    \E l \in DOMAIN text :
        /\ text[l] = "line"
        /\ \E b \in 1..(l - 1) : text[b] = "block"
        /\ \A k \in 1..l : text[k] \in Comments

\* In readonly mode the only writes that reach the database through a
\* statement, a batch or a script, stored SQL included, are those the named
\* exception hides (executor.go:19-21, 308-310).  hrana.go:22-24 and
\* utils.go:101-103 know of no exception.
ReadOnlyKept ==
    mode = "readonly" /\ req \in {"stmt", "batch", "sequence"} =>
        \A c \in DOMAIN calls :
            WriteText(calls[c].text) => Hidden(calls[c].text)

-----------------------------------------------------------------------------
(* What the documentation says and the code does not do *)

\* hrana.go:22-24 "ModeReadOnly rejects any write SQL statements before they
\* reach the database."  (describe is left out: it does pass the text to
\* QueryContext, but a driver may only prepare it.)
ReadOnlyRejectsWrites ==
    mode = "readonly" /\ req # "describe" =>
        \A c \in DOMAIN calls : ~WriteText(calls[c].text)

=============================================================================
