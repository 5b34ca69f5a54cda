------------------------------ MODULE WsClient ------------------------------
(***************************************************************************)
(* A connection of the Go client over WebSocket: wsConn (ws_conn.go) and   *)
(* its twin for browsers, jsWSConn (js-conn.go).  database/sql makes one   *)
(* call at a time; a read loop hands the server's answers to the callers   *)
(* waiting for them; and a call refused because its stream is superseded   *)
(* is taken over by a goroutine that opens a fresh stream and sends the    *)
(* statement again.                                                        *)
(*                                                                         *)
(* A request is named <<c, n, kind>>: the n-th retry of call c ("execute"),*)
(* or the close_stream and open_stream_assigned requests of the goroutine  *)
(* that took that attempt over ("close", "open").  First opens stream 0.   *)
(* A stream is named after the request that opened it.  The server is      *)
(* websocket.go reduced to what this client can see of it.                 *)
(***************************************************************************)
EXTENDS Naturals, Sequences, FiniteSets

CONSTANTS
    MaxCalls,       \* bound: calls of database/sql, one after another
    None,           \* no value; also whose request First is
    MaxRetries,     \* maxStreamRetries (3 in the code)
    MaxEvolves,     \* bound: calls of EvolveDatabase at the server
    Expiring        \* bound: the requests whose context may be done

ASSUME ClientAssumption ==
    /\ MaxCalls \in Nat
    /\ None \notin Nat
    /\ MaxRetries \in Nat
    /\ MaxEvolves \in Nat

Calls == 1..MaxCalls
Attempts == Calls \X (0..MaxRetries)

Execute(a) == <<a[1], a[2], "execute">>
CloseOf(a) == <<a[1], a[2], "close">>
OpenOf(a) == <<a[1], a[2], "open">>
Retry(a) == <<a[1], a[2] + 1, "execute">>
First == <<None, 0, "open">>
Call(c) == <<c, 0, "execute">>

Keys == {Execute(a) : a \in Attempts} \cup {CloseOf(a) : a \in Attempts}
            \cup {OpenOf(a) : a \in Attempts} \cup {First}

Answers == {"ok", "error"}
Results == Answers \cup {"refused", "lost", "unsent", "cancelled"}

ASSUME NamesAssumption ==
    /\ Expiring \subseteq Keys
    /\ None \notin Keys
    /\ None \notin Attempts
    /\ None \notin Results

VARIABLES
    js,         \* TRUE: jsWSConn; FALSE: wsConn
    phase,      \* life of the connection as its owner sees it
    closed,     \* c.closed
    reading,    \* the read loop runs (js: handleClose has not been called)
    pending,    \* c.pending
    sending,    \* progress of sendRequestWithRetries, per request
    ch,         \* what the request's channel holds
    ret,        \* what sendRequestWithRetries returned
    target,     \* stream_id in the payload
    streamID,   \* c.streamID
    recovering, \* who runs recoverStream
    gor,        \* progress of retrySupersededRequest, per attempt
    up,         \* the TCP connection
    at,         \* where a request or its answer is
    table,      \* sess.streams at the server
    superseded, \* streams marked by EvolveDatabase
    evolves,    \* number of calls of EvolveDatabase
    ran         \* history: streams each call's statement was run on

connVars == <<js, phase>>
sendVars == <<pending, sending, ch, ret, target>>
recoveryVars == <<streamID, recovering, gor>>
serverVars == <<at, table, superseded, evolves, ran>>
vars == <<connVars, closed, reading, sendVars, recoveryVars, up, serverVars>>

TypeOK ==
    /\ js \in BOOLEAN
    /\ phase \in {"dialing", "hello", "opening", "open", "failed", "closing",
                  "closed"}
    /\ closed \in BOOLEAN
    /\ reading \in BOOLEAN
    /\ pending \in SUBSET Keys
    /\ sending \in [Keys -> {"new", "registered", "sent"}]
    /\ ch \in [Keys -> Results \cup {None}]
    /\ ret \in [Keys -> Results \cup {None}]
    /\ target \in [Keys -> Keys \cup {None}]
    /\ streamID \in Keys
    /\ recovering \in Attempts \cup {None}
    /\ gor \in [Attempts -> {"none", "check", "recover", "blocked", "closing",
                             "opening", "resend", "await", "dead"}]
    /\ up \in BOOLEAN
    /\ at \in [Keys -> {"none", "wire", "found", "passed", "superseded",
                      "read"} \cup Answers]
    /\ table \in SUBSET Keys
    /\ superseded \in SUBSET Keys
    /\ evolves \in 0..MaxEvolves
    /\ ran \in [Calls -> Seq(Keys)]

Init ==
    /\ js \in BOOLEAN
    /\ phase = "dialing"
    /\ closed = FALSE
    /\ reading = FALSE
    /\ pending = {}
    /\ sending = [k \in Keys |-> "new"]
    /\ ch = [k \in Keys |-> None]
    /\ ret = [k \in Keys |-> None]
    /\ target = [k \in Keys |-> None]
    /\ streamID = First
    /\ recovering = None
    /\ gor = [a \in Attempts |-> "none"]
    /\ up = FALSE
    /\ at = [k \in Keys |-> "none"]
    /\ table = {}
    /\ superseded = {}
    /\ evolves = 0
    /\ ran = [c \in Calls |-> <<>>]

\* A caller is inside sendRequestWithRetries.
Waiting(k) == sending[k] # "new" /\ ret[k] = None

-----------------------------------------------------------------------------
(* sendRequestWithRetries *)

\* Under c.mu: the request enters pending, unless the connection is closed.
Register(k, stream) ==
    /\ target' = [target EXCEPT ![k] = stream]
    /\ sending' = [sending EXCEPT ![k] = "registered"]
    /\ IF closed
       THEN ret' = [ret EXCEPT ![k] = "unsent"] /\ UNCHANGED pending
       ELSE pending' = pending \cup {k} /\ UNCHANGED ret
    /\ UNCHANGED ch

\* The frame is written; on a connection that is down the write may seem to
\* succeed.
Write(k) ==
    /\ Waiting(k)
    /\ sending[k] = "registered"
    /\ sending' = [sending EXCEPT ![k] = "sent"]
    /\ at' = IF up THEN [at EXCEPT ![k] = "wire"] ELSE at
    /\ UNCHANGED <<connVars, closed, reading, pending, ch, ret, target,
                   recoveryVars, up, table, superseded, evolves, ran>>

\* A browser's send raises nothing on a closed socket.
WriteFails(k) ==
    /\ Waiting(k)
    /\ sending[k] = "registered"
    /\ ~up /\ ~js
    /\ pending' = pending \ {k}
    /\ ret' = [ret EXCEPT ![k] = "unsent"]
    /\ UNCHANGED <<connVars, closed, reading, sending, ch, target,
                   recoveryVars, up, serverVars>>

\* case result := <-ch
Receive(k) ==
    /\ Waiting(k)
    /\ sending[k] = "sent"
    /\ ch[k] # None
    /\ ret' = [ret EXCEPT ![k] = ch[k]]
    /\ UNCHANGED <<connVars, closed, reading, pending, sending, ch, target,
                   recoveryVars, up, serverVars>>

\* First and the retries run under context.Background.
HasContext(k) == k # First /\ (k[3] = "execute" => k[2] = 0)

\* case <-ctx.Done(): the caller's context, or the 5 s of recoverStream.
Cancel(k) ==
    /\ Waiting(k)
    /\ sending[k] = "sent"
    /\ HasContext(k) /\ k \in Expiring
    /\ pending' = pending \ {k}
    /\ ret' = [ret EXCEPT ![k] = "cancelled"]
    /\ UNCHANGED <<connVars, closed, reading, sending, ch, target,
                   recoveryVars, up, serverVars>>

-----------------------------------------------------------------------------
(* The owner: newWSConn / newJSWSConn, database/sql, Close *)

\* Dial.  In js the callbacks that play the read loop are in place from
\* now on.
Connect(ok) ==
    /\ phase = "dialing"
    /\ phase' = IF ok THEN "hello" ELSE "failed"
    /\ up' = ok
    /\ reading' = (ok /\ js)
    /\ UNCHANGED <<js, closed, sendVars, recoveryVars,
                   serverVars>>

\* hello_ok: go c.readLoop(), then openStream.
HelloAccepted ==
    /\ phase = "hello"
    /\ phase' = "opening"
    /\ reading' = (reading \/ ~js)
    /\ Register(First, streamID)
    /\ UNCHANGED <<js, closed, recoveryVars, up, serverVars>>

\* wsConn only closes the socket of a connection it gives up; jsWSConn
\* calls its own Close.
GiveUp ==
    /\ phase' = "failed"
    /\ closed' = (closed \/ js)
    /\ up' = FALSE

HelloFails ==
    /\ phase = "hello"
    /\ GiveUp
    /\ UNCHANGED <<js, reading, sendVars, recoveryVars, serverVars>>

Opened ==
    /\ phase = "opening"
    /\ ret[First] # None
    /\ IF ret[First] = "ok"
       THEN phase' = "open" /\ UNCHANGED <<closed, up>>
       ELSE GiveUp
    /\ UNCHANGED <<js, reading, sendVars, recoveryVars, serverVars>>

Idle == phase = "open" /\ \A c \in Calls : ~Waiting(Call(c))

\* ExecContext, QueryContext, BeginTx, Commit, Rollback: all through
\* execStatement, on the stream that is current now.
StartCall(c) ==
    /\ Idle
    /\ sending[Call(c)] = "new"
    /\ \A b \in 1..(c - 1) : sending[Call(b)] # "new"
    /\ Register(Call(c), streamID)
    /\ UNCHANGED <<connVars, closed, reading, recoveryVars, up, serverVars>>

\* Close: c.closed is set first, hence the close_stream request that follows
\* is refused by sendRequest without being sent.
Close ==
    /\ Idle
    /\ phase' = IF closed THEN "closed" ELSE "closing"
    /\ closed' = TRUE
    /\ UNCHANGED <<js, reading, sendVars, recoveryVars, up, serverVars>>

CloseSocket ==
    /\ phase = "closing"
    /\ phase' = "closed"
    /\ up' = FALSE
    /\ UNCHANGED <<js, closed, reading, sendVars, recoveryVars,
                   serverVars>>

-----------------------------------------------------------------------------
(* The read loop *)

\* Fault: an answer leaves its request in pending.
DispatchKeeping(k) ==
    /\ reading
    /\ at[k] \in Answers
    /\ at' = [at EXCEPT ![k] = "read"]
    /\ IF k \in pending
       THEN ch' = [ch EXCEPT ![k] = at[k]]
       ELSE UNCHANGED ch
    /\ UNCHANGED <<connVars, closed, reading, pending, sending, ret, target,
                   recoveryVars, up, table, superseded, evolves, ran>>

\* response_ok, response_error: dispatch.  Nobody waits for the answer to a
\* request that is no longer pending.
Dispatch(k) ==
    /\ reading
    /\ at[k] \in Answers
    /\ at' = [at EXCEPT ![k] = "read"]
    /\ pending' = pending \ {k}
    /\ IF k \in pending
       THEN ch' = [ch EXCEPT ![k] = at[k]]
       ELSE UNCHANGED ch
    /\ UNCHANGED <<connVars, closed, reading, sending, ret, target,
                   recoveryVars, up, table, superseded, evolves, ran>>

\* stream_superseded_error: handleStreamSuperseded starts the goroutine.
HandleSuperseded(a) ==
    /\ reading
    /\ at[Execute(a)] = "superseded"
    /\ at' = [at EXCEPT ![Execute(a)] = "read"]
    /\ pending' = pending \ {Execute(a)}
    /\ gor' = IF Execute(a) \in pending THEN [gor EXCEPT ![a] = "check"] ELSE gor
    /\ UNCHANGED <<connVars, closed, reading, sending, ch, ret, target,
                   streamID, recovering, up, table, superseded, evolves,
                   ran>>

FailPending ==
    /\ ch' = [k \in Keys |-> IF k \in pending THEN "lost" ELSE ch[k]]
    /\ pending' = {}

\* No answer will be read any more.
StopReading ==
    /\ reading /\ ~up
    /\ reading' = FALSE
    /\ closed' = TRUE
    /\ at' = [k \in Keys |-> IF at[k] = "none" THEN "none" ELSE "read"]
    /\ UNCHANGED <<connVars, sending, ret, target, recoveryVars, up, table,
                   superseded, evolves, ran>>

\* wsConn: the read fails and the deferred function fails what is pending.
ReadLoopEnds ==
    /\ ~js
    /\ StopReading
    /\ FailPending

\* jsWSConn: onclose or onerror; nothing is failed if Close came first.
HandleClose ==
    /\ js
    /\ StopReading
    /\ IF closed THEN UNCHANGED <<ch, pending>> ELSE FailPending

-----------------------------------------------------------------------------
(* retrySupersededRequest and recoverStream *)

Goto(a, label) == gor' = [gor EXCEPT ![a] = label]

\* p.ch <- result, the goroutine's last act.
Deliver(a, result) ==
    /\ ch' = [ch EXCEPT ![Execute(a)] = result]
    /\ UNCHANGED <<pending, sending, ret, target>>

\* Fault: one retry too many.
CheckRetriesLate(a) ==
    /\ gor[a] = "check"
    /\ IF a[2] > MaxRetries
       THEN Goto(a, "dead") /\ Deliver(a, "refused")
       ELSE Goto(a, "recover") /\ UNCHANGED sendVars
    /\ UNCHANGED <<connVars, closed, reading, streamID, recovering, up,
                   serverVars>>

CheckRetries(a) ==
    /\ gor[a] = "check"
    /\ IF a[2] >= MaxRetries
       THEN Goto(a, "dead") /\ Deliver(a, "refused")
       ELSE Goto(a, "recover") /\ UNCHANGED sendVars
    /\ UNCHANGED <<connVars, closed, reading, streamID, recovering, up,
                   serverVars>>

\* The first to come closes whatever stream is current by now ...
StartRecovery(a) ==
    /\ gor[a] = "recover"
    /\ recovering = None
    /\ recovering' = a
    /\ Goto(a, "closing")
    /\ Register(CloseOf(a), streamID)
    /\ UNCHANGED <<connVars, closed, reading, streamID, up, serverVars>>

\* ... anyone else waits until it is done, for better or worse.
JoinRecovery(a) ==
    /\ gor[a] = "recover"
    /\ recovering # None
    /\ Goto(a, "blocked")
    /\ UNCHANGED <<connVars, closed, reading, sendVars, streamID, recovering,
                   up, serverVars>>

\* The answer to close_stream is ignored; open_stream_assigned.
OpenFresh(a) ==
    /\ gor[a] = "closing"
    /\ ret[CloseOf(a)] # None
    /\ Goto(a, "opening")
    /\ Register(OpenOf(a), None)
    /\ UNCHANGED <<connVars, closed, reading, streamID, recovering, up,
                   serverVars>>

\* c.recovering = nil; close(done)
Release(a, label) ==
    /\ recovering' = None
    /\ gor' = [b \in Attempts |->
                 IF b = a THEN label
                 ELSE IF gor[b] = "blocked" THEN "resend" ELSE gor[b]]

\* Fault: the fresh stream's id is dropped.
AdoptNothing(a) ==
    /\ gor[a] = "opening"
    /\ ret[OpenOf(a)] = "ok"
    /\ Release(a, "resend")
    /\ UNCHANGED <<connVars, closed, reading, sendVars, streamID, up,
                   serverVars>>

AdoptFresh(a) ==
    /\ gor[a] = "opening"
    /\ ret[OpenOf(a)] = "ok"
    /\ streamID' = OpenOf(a)
    /\ Release(a, "resend")
    /\ UNCHANGED <<connVars, closed, reading, sendVars, up, serverVars>>

\* Fault: a failed recovery tells nobody.
RecoveryFailsSilently(a) ==
    /\ gor[a] = "opening"
    /\ ret[OpenOf(a)] \notin {None, "ok"}
    /\ recovering' = None
    /\ Goto(a, "dead")
    /\ UNCHANGED <<connVars, closed, reading, sendVars, streamID, up,
                   serverVars>>

RecoveryFails(a) ==
    /\ gor[a] = "opening"
    /\ ret[OpenOf(a)] \notin {None, "ok"}
    /\ Release(a, "dead")
    /\ Deliver(a, ret[OpenOf(a)])
    /\ UNCHANGED <<connVars, closed, reading, streamID, up, serverVars>>

\* The same statement, on the stream that is current now.
Resend(a) ==
    /\ gor[a] = "resend"
    /\ Goto(a, "await")
    /\ Register(Retry(a), streamID)
    /\ UNCHANGED <<connVars, closed, reading, streamID, recovering, up,
                   serverVars>>

Forward(a) ==
    /\ gor[a] = "await"
    /\ ret[Retry(a)] # None
    /\ Goto(a, "dead")
    /\ Deliver(a, ret[Retry(a)])
    /\ UNCHANGED <<connVars, closed, reading, streamID, recovering, up,
                   serverVars>>

-----------------------------------------------------------------------------
(* The server and the network *)

clientVars == <<connVars, closed, reading, sendVars, recoveryVars, up>>

\* While the connection is up, the server deals with a request.  What it
\* still does when the connection is down is as if done just before: its
\* answers are lost either way.
Serves(k, stage) == up /\ at[k] = stage

Reply(k, answer) == at' = [at EXCEPT ![k] = answer]

\* wsExecute finds the stream ...
ServeLookup(a) ==
    LET k == Execute(a)
    IN  /\ Serves(k, "wire")
        /\ Reply(k, IF target[k] \in table THEN "found" ELSE "error")
        /\ UNCHANGED <<clientVars, table, superseded, evolves, ran>>

\* ... and refuses and removes it if it is superseded ...
ServeRefuse(a) ==
    LET k == Execute(a)
    IN  /\ Serves(k, "found")
        /\ target[k] \in superseded
        /\ Reply(k, "superseded")
        /\ table' = table \ {target[k]}
        /\ UNCHANGED <<clientVars, superseded, evolves, ran>>

\* ... or waits for its mutex, which EvolveDatabase may hold to mark it ...
ServePass(a) ==
    LET k == Execute(a)
    IN  /\ Serves(k, "found")
        /\ target[k] \notin superseded
        /\ Reply(k, "passed")
        /\ UNCHANGED <<clientVars, table, superseded, evolves, ran>>

\* Fault: the mark is looked at again when the statement has been run.
ServeRunMarked(a, answer) ==
    LET k == Execute(a)
    IN  /\ Serves(k, "passed")
        /\ IF target[k] \in table
           THEN ran' = [ran EXCEPT ![a[1]] = Append(@, target[k])]
           ELSE answer = "error" /\ UNCHANGED ran
        /\ Reply(k, IF target[k] \in superseded THEN "superseded" ELSE answer)
        /\ UNCHANGED <<clientVars, table, superseded, evolves>>

\* ... and runs the statement, unless its stream has been closed.
ServeRun(a, answer) ==
    LET k == Execute(a)
    IN  /\ Serves(k, "passed")
        /\ IF target[k] \in table
           THEN ran' = [ran EXCEPT ![a[1]] = Append(@, target[k])]
           ELSE answer = "error" /\ UNCHANGED ran
        /\ Reply(k, answer)
        /\ UNCHANGED <<clientVars, table, superseded, evolves>>

ServeClose(a) ==
    LET k == CloseOf(a)
    IN  /\ Serves(k, "wire")
        /\ Reply(k, "ok")
        /\ table' = table \ {target[k]}
        /\ UNCHANGED <<clientVars, superseded, evolves, ran>>

ServeOpen(k, answer) ==
    /\ k[3] = "open"
    /\ Serves(k, "wire")
    /\ Reply(k, answer)
    /\ table' = IF answer = "ok" THEN table \cup {k} ELSE table
    /\ UNCHANGED <<clientVars, superseded, evolves, ran>>

\* EvolveDatabase marks the streams of the old database.  Calls that find
\* no stream of this connection to mark are not counted.
Evolve ==
    /\ evolves < MaxEvolves
    /\ up
    /\ ~(table \subseteq superseded)
    /\ evolves' = evolves + 1
    /\ superseded' = superseded \cup table
    /\ UNCHANGED <<clientVars, at, table, ran>>

\* The connection is lost, or the server closes it: it closes the session's
\* streams, and the requests it has not answered are lost.
Disconnect ==
    /\ up
    /\ up' = FALSE
    /\ table' = {}
    /\ at' = [k \in Keys |->
                IF at[k] \in {"wire", "found", "passed"} THEN "read" ELSE at[k]]
    /\ UNCHANGED <<connVars, closed, reading, sendVars, recoveryVars,
                   superseded, evolves, ran>>

-----------------------------------------------------------------------------
Owner ==
    \/ \E ok \in BOOLEAN : Connect(ok)
    \/ HelloAccepted \/ HelloFails \/ Opened
    \/ \E c \in Calls : StartCall(c)
    \/ Close \/ CloseSocket

Send(k) == Write(k) \/ WriteFails(k) \/ Receive(k)

Read ==
    \/ \E k \in Keys : Dispatch(k)
    \/ \E a \in Attempts : HandleSuperseded(a)
    \/ ReadLoopEnds \/ HandleClose

Recover(a) ==
    \/ CheckRetries(a) \/ StartRecovery(a) \/ JoinRecovery(a)
    \/ OpenFresh(a) \/ AdoptFresh(a) \/ RecoveryFails(a)
    \/ Resend(a) \/ Forward(a)

Serve ==
    \/ \E a \in Attempts :
          ServeLookup(a) \/ ServeRefuse(a) \/ ServePass(a) \/ ServeClose(a)
    \/ \E a \in Attempts, answer \in Answers : ServeRun(a, answer)
    \/ \E k \in Keys, answer \in Answers : ServeOpen(k, answer)

Next ==
    \/ Owner
    \/ \E k \in Keys : Send(k) \/ Cancel(k)
    \/ Read
    \/ \E a \in Attempts : Recover(a)
    \/ Serve \/ Evolve \/ Disconnect

Spec == Init /\ [][Next]_vars

\* The client's goroutines do not all stop while one of them can go on, and
\* a server that is there answers (WsSession shows when it does).
Progress ==
    \/ \E k \in Keys : Send(k)
    \/ Read
    \/ \E a \in Attempts : Recover(a)
    \/ Serve

FairSpec == Spec /\ WF_vars(Progress)

-----------------------------------------------------------------------------
(* Properties *)

\* A request gets one answer, from one of three places that hand it on to
\* each other: pending, the goroutine that retries it, its channel.  With
\* none left its caller would wait for ever; a second send would fill the
\* channel, which has room for one, and block the read loop for everybody
\* (ws_conn.go:303-320, 370-410, 458-468).
Sources(k) ==
    {s \in {"pending", "goroutine", "channel"} :
        \/ s = "pending" /\ k \in pending
        \/ s = "goroutine" /\ \E a \in Attempts :
               Execute(a) = k /\ gor[a] \notin {"none", "dead"}
        \/ s = "channel" /\ ch[k] # None}

OneAnswer ==
    /\ \A k \in Keys :
          /\ Cardinality(Sources(k)) <= 1
          /\ Waiting(k) => Sources(k) # {}
    /\ pending # {} => reading \/ phase \in {"closing", "closed"}

\* Retrying is safe: a statement is run at most once however often it is
\* sent, and the caller who is told that it succeeded, or that it was
\* refused or not sent, is told the truth (ws_conn.go:383-410).
AtMostOnce ==
    \A c \in Calls :
        /\ Len(ran[c]) <= 1
        /\ ret[Call(c)] = "ok" => Len(ran[c]) = 1
        /\ ret[Call(c)] \in {"refused", "unsent"} => ran[c] = <<>>

\* "One wsConn owns one server-side Hrana stream" (ws_conn.go:17): while
\* the connection is in use, the streams the server holds for it are its
\* current one and those somebody is about to close or to adopt.  The
\* exception is a stream whose opening the client gave up on after 5 s.
NoStreamLeak ==
    up /\ ~closed => \A s \in table :
        \/ s = streamID
        \/ \E a \in Attempts :
              \/ s = OpenOf(a) /\ gor[a] = "opening"
              \/ target[CloseOf(a)] = s /\ at[CloseOf(a)] \in {"none", "wire"}
        \/ ret[s] = "cancelled"

\* A call returns, whatever happens to its stream and its connection, and
\* although the retries run under no context at all (ws_conn.go:404).
CallsReturn ==
    \A c \in Calls : Waiting(Call(c)) ~> ret[Call(c)] # None

=============================================================================
