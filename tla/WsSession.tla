----------------------------- MODULE WsSession -----------------------------
(***************************************************************************)
(* One Hrana WebSocket session of websocket.go and stream.go: the reader   *)
(* loop, the goroutine it starts for every request, the table of streams   *)
(* with its mutex, the session's end, and around it the server:            *)
(* EvolveDatabase, which supersedes the streams of older databases, and    *)
(* Close, which waits for sessions and requests before it cancels the      *)
(* context they run under.                                                 *)
(*                                                                         *)
(* A stream is named after the request that opened it.  "query" stands for *)
(* execute, batch, sequence and describe, which touch the shared state in  *)
(* the same way; "peek" for get_autocommit, which stops after the check of  *)
(* IsSuperseded.  Cursors are reduced to which streams have one under the  *)
(* one cursor id of the model.                                             *)
(***************************************************************************)
EXTENDS Naturals, FiniteSets

CONSTANTS
    Reqs,               \* requests of the client; also names of streams
    Ids,                \* stream ids
    Evolvers,           \* concurrent calls of EvolveDatabase
    None, Reader,       \* nobody; the goroutine of the reader loop
    Ops,                \* request types the client uses
    SerialEvolve,       \* TRUE: EvolveDatabase is not called concurrently
    SequentialClient    \* TRUE: one request at a time per stream id

ASSUME NamesAssumption ==
    /\ None \notin Reqs \cup Ids \cup Evolvers \cup {Reader}
    /\ Reader \notin Reqs \cup Evolvers
    /\ Reqs \cap Evolvers = {}
ASSUME ClientAssumption ==
    /\ Ops \subseteq {"open", "assign", "close", "query", "peek", "openCursor",
                     "closeCursor", "fetchCursor"}
    /\ SerialEvolve \in BOOLEAN
    /\ SequentialClient \in BOOLEAN

VARIABLES
    gen,        \* generation of the current database
    conn,       \* life of each stream's connection
    cgen,       \* generation of that connection
    superseded, \* Stream.IsSuperseded
    holder,     \* who holds each stream's mu
    streams,    \* sess.streams: id -> stream
    cursors,    \* streams that have a cursor under the one cursor id
    sessMu,     \* who holds sess.mu across steps
    pc, op, id, st,     \* per request: place, type, stream id, stream found
    todo,       \* streams the holder of sess.mu has still to lock
    before,     \* requests received earlier and in flight at the time
    session,    \* progress of runWSSession
    wire,       \* the TCP connection: "up" or "down"
    authed,     \* a hello was accepted
    inbox,      \* the request the reader is about to start a goroutine for
    closer,     \* progress of Server.Close
    evolve,     \* progress of each EvolveDatabase
    newGen,     \* its newGen.generation
    due,        \* ids its range over sess.streams has still to produce
    meeting,    \* the stream it has produced and whose mu it waits for
    late        \* history: streams filed after closeAll had returned

streamVars == <<conn, cgen, superseded, cursors>>
reqVars == <<pc, op, id, st, before>>
sessVars == <<session, wire, authed, inbox>>
evolveVars == <<gen, evolve, newGen, due, meeting>>
tableVars == <<holder, streams, sessMu, todo, late>>
vars == <<streamVars, tableVars, reqVars, sessVars,
          closer, evolveVars>>

NoId == {"assign", "closeCursor", "fetchCursor"}

TypeOK ==
    /\ gen \in Nat
    /\ conn \in [Reqs -> {"none", "open", "closed"}]
    /\ cgen \in [Reqs -> Nat]
    /\ superseded \in [Reqs -> BOOLEAN]
    /\ holder \in [Reqs -> Reqs \cup Evolvers \cup {None}]
    /\ streams \in [Ids -> Reqs \cup {None}]
    /\ cursors \in SUBSET Reqs
    /\ sessMu \in Reqs \cup {None, Reader}
    /\ pc \in [Reqs -> {"new", "start", "connect", "add", "found", "lock",
                        "exec", "file", "remove", "removing", "walking",
                        "done"}]
    /\ op \in [Reqs -> Ops \cup {None}]
    /\ id \in [Reqs -> Ids \cup {None}]
    /\ st \in [Reqs -> Reqs \cup {None}]
    /\ todo \in SUBSET Reqs
    /\ before \in [Reqs -> SUBSET Reqs]
    /\ session \in {"new", "accepted", "registered", "running", "leaving",
                    "left", "closing", "gone"}
    /\ wire \in {"up", "down"}
    /\ authed \in BOOLEAN
    /\ inbox \in Reqs \cup {None}
    /\ closer \in {"serving", "closing", "waiting", "cancelled"}
    /\ evolve \in [Evolvers -> {"idle", "loaded", "ranging", "returned"}]
    /\ newGen \in [Evolvers -> Nat]
    /\ due \in [Evolvers -> SUBSET Ids]
    /\ meeting \in [Evolvers -> Reqs \cup {None}]
    /\ late \in SUBSET Reqs

Init ==
    /\ gen = 0
    /\ conn = [s \in Reqs |-> "none"]
    /\ cgen = [s \in Reqs |-> 0]
    /\ superseded = [s \in Reqs |-> FALSE]
    /\ holder = [s \in Reqs |-> None]
    /\ streams = [i \in Ids |-> None]
    /\ cursors = {}
    /\ sessMu = None
    /\ pc = [r \in Reqs |-> "new"]
    /\ op = [r \in Reqs |-> None]
    /\ id = [r \in Reqs |-> None]
    /\ st = [r \in Reqs |-> None]
    /\ todo = {}
    /\ before = [r \in Reqs |-> {}]
    /\ session = "new"
    /\ wire = "up"
    /\ authed = FALSE
    /\ inbox = None
    /\ closer = "serving"
    /\ evolve = [e \in Evolvers |-> "idle"]
    /\ newGen = [e \in Evolvers |-> 0]
    /\ due = [e \in Evolvers |-> {}]
    /\ meeting = [e \in Evolvers |-> None]
    /\ late = {}

Goto(r, label) == pc' = [pc EXCEPT ![r] = label]
Step(r, label) == Goto(r, label) /\ UNCHANGED <<op, id, st, before>>

\* The goroutine returns; its variables are gone.
Finish(r) ==
    /\ Goto(r, "done")
    /\ op' = [op EXCEPT ![r] = None]
    /\ id' = [id EXCEPT ![r] = None]
    /\ st' = [st EXCEPT ![r] = None]
    /\ before' = [before EXCEPT ![r] = {}]

InFlight(r) == pc[r] \notin {"new", "done"}
Open == {i \in Ids : streams[i] # None}

\* The session is in s.wsConns; the session is counted in s.wg.
InConns == session \in {"registered", "running", "leaving"}
Counted == session \in {"running", "leaving"}

-----------------------------------------------------------------------------
(* The reader: registration, messages, the end of the session *)

\* ServeConn / ServeHTTP look at s.closing before the handshake.
Accept ==
    /\ session = "new"
    /\ session' = IF closer = "serving" THEN "accepted" ELSE "gone"
    /\ UNCHANGED <<streamVars, tableVars, reqVars,
                   wire, authed, inbox, closer, evolveVars>>

\* s.wsConns[wsConn] = sess under wsMu ...
Register ==
    /\ session = "accepted"
    /\ session' = "registered"
    /\ UNCHANGED <<streamVars, tableVars, reqVars,
                   wire, authed, inbox, closer, evolveVars>>

\* ... and only then s.wg.Add(1).
CountIn ==
    /\ session = "registered"
    /\ session' = "running"
    /\ UNCHANGED <<streamVars, tableVars, reqVars,
                   wire, authed, inbox, closer, evolveVars>>

\* A hello message that AuthFunc accepts.
Hello ==
    /\ session = "running"
    /\ wire = "up"
    /\ inbox = None
    /\ ~authed
    /\ authed' = TRUE
    /\ UNCHANGED <<streamVars, tableVars, reqVars,
                   session, wire, inbox, closer, evolveVars>>

\* The peer goes away.
PeerCloses ==
    /\ wire = "up"
    /\ wire' = "down"
    /\ UNCHANGED <<streamVars, tableVars, reqVars,
                   session, authed, inbox, closer, evolveVars>>

\* The loop returns: a read error, a rejected hello, a message it cannot
\* decode, a request before hello or while the server is closing.
ReaderReturns ==
    /\ session = "running"
    /\ inbox = None
    /\ session' = "leaving"
    /\ wire' = "down"
    /\ UNCHANGED <<streamVars, tableVars, reqVars,
                   authed, inbox, closer, evolveVars>>

\* A client that waits for its answers sends a request only when nothing it
\* sent before concerns the same stream.
MaySend(i) ==
    SequentialClient => \A q \in Reqs : InFlight(q) => id[q] # i

\* Fault: the reader does not look at s.closing.
ReceiveRequestUnchecked(r, o, i) ==
    /\ session = "running"
    /\ inbox = None
    /\ wire = "up"
    /\ authed
    /\ pc[r] = "new"
    /\ (i = None) <=> (o \in NoId)
    /\ op' = [op EXCEPT ![r] = o]
    /\ id' = [id EXCEPT ![r] = i]
    /\ inbox' = r
    /\ UNCHANGED <<streamVars, tableVars, pc, st, before,
                   session, wire, authed, closer, evolveVars>>

\* The reader takes a request and sees that the server is not closing.
ReceiveRequest(r, o, i) ==
    /\ session = "running"
    /\ inbox = None
    /\ wire = "up"
    /\ authed
    /\ closer = "serving"
    /\ pc[r] = "new"
    /\ (i = None) <=> (o \in NoId)
    /\ i # None => MaySend(i)
    /\ op' = [op EXCEPT ![r] = o]
    /\ id' = [id EXCEPT ![r] = i]
    /\ before' = [before EXCEPT ![r] = {q \in Reqs : InFlight(q)}]
    /\ inbox' = r
    /\ UNCHANGED <<streamVars, tableVars, pc, st,
                   session, wire, authed, closer, evolveVars>>

\* wg.Add(1) and the goroutine.
StartRequest ==
    /\ inbox # None
    /\ Goto(inbox, "start")
    /\ inbox' = None
    /\ UNCHANGED <<streamVars, tableVars, op, id, st,
                   before, session, wire, authed, closer, evolveVars>>

\* The deferred calls: the session leaves wsConns and the WaitGroup ...
Deregister ==
    /\ session = "leaving"
    /\ session' = "left"
    /\ UNCHANGED <<streamVars, tableVars, reqVars,
                   wire, authed, inbox, closer, evolveVars>>

\* ... and then sess.closeAll closes its streams under sess.mu.
CloseAllLock ==
    /\ session = "left"
    /\ sessMu = None
    /\ sessMu' = Reader
    /\ session' = "closing"
    /\ UNCHANGED <<streamVars, holder, streams, todo, late, reqVars,
                   wire, authed, inbox, closer, evolveVars>>

\* Fault: the table is emptied and the connections are kept.
CloseAllStreamUnclosed(i) ==
    /\ session = "closing"
    /\ streams[i] # None
    /\ streams' = [streams EXCEPT ![i] = None]
    /\ due' = [e \in Evolvers |-> due[e] \ {i}]
    /\ UNCHANGED <<streamVars, holder, sessMu, todo, late, reqVars,
                   sessVars, closer, gen, evolve, newGen, meeting>>

CloseAllStream(i) ==
    /\ session = "closing"
    /\ streams[i] # None
    /\ holder[streams[i]] = None
    /\ conn' = [conn EXCEPT ![streams[i]] = "closed"]
    /\ streams' = [streams EXCEPT ![i] = None]
    /\ due' = [e \in Evolvers |-> due[e] \ {i}]
    /\ UNCHANGED <<cgen, superseded, cursors, holder, sessMu, todo, late, reqVars,
                   sessVars, closer, gen, evolve, newGen, meeting>>

CloseAllUnlock ==
    /\ session = "closing"
    /\ Open = {}
    /\ sessMu' = None
    /\ session' = "gone"
    /\ UNCHANGED <<streamVars, holder, streams, todo, late, reqVars,
                   wire, authed, inbox, closer, evolveVars>>

-----------------------------------------------------------------------------
(* open_stream, open_stream_assigned *)

\* wsOpenStream looks whether the id is taken, without reserving it.
CheckIdFree(r) ==
    /\ pc[r] = "start"
    /\ op[r] = "open"
    /\ sessMu = None
    /\ IF streams[id[r]] = None THEN Step(r, "connect") ELSE Finish(r)
    /\ UNCHANGED <<streamVars, tableVars, sessVars, closer, evolveVars>>

\* wsOpenStreamAssigned opens first and picks the id afterwards.
StartAssigned(r) ==
    /\ pc[r] = "start"
    /\ op[r] = "assign"
    /\ Step(r, "connect")
    /\ UNCHANGED <<streamVars, tableVars, sessVars, closer, evolveVars>>

\* Server.OpenStream: the generation is the one of the database that was
\* current when the pointer was loaded.  It fails once ctx is cancelled.
OpenStream(r) ==
    /\ pc[r] = "connect"
    /\ closer # "cancelled"
    /\ conn' = [conn EXCEPT ![r] = "open"]
    /\ cgen' = [cgen EXCEPT ![r] = gen]
    /\ Step(r, "add")
    /\ UNCHANGED <<superseded, cursors, tableVars, sessVars, closer, evolveVars>>

OpenStreamFails(r) ==
    /\ pc[r] = "connect"
    /\ Finish(r)
    /\ UNCHANGED <<streamVars, tableVars, sessVars, closer, evolveVars>>

\* sess.streams[i] = stream, also when closeAll has been there already.
FileStream(r, i) ==
    /\ streams' = [streams EXCEPT ![i] = r]
    /\ late' = IF session = "gone" THEN late \cup {r} ELSE late
    /\ Finish(r)

\* Session.addStream files the stream whatever is under the id by now.
AddStream(r) ==
    /\ pc[r] = "add"
    /\ op[r] = "open"
    /\ sessMu = None
    /\ FileStream(r, id[r])
    /\ UNCHANGED <<streamVars, holder, sessMu, todo, sessVars, closer, evolveVars>>

\* Session.AddStreamAssinged draws ids until one is free.  That the random
\* id is one the client is about to use itself is left out.
AddStreamAssigned(r, i) ==
    /\ pc[r] = "add"
    /\ op[r] = "assign"
    /\ sessMu = None
    /\ streams[i] = None
    /\ \A q \in Reqs : InFlight(q) => id[q] # i
    /\ FileStream(r, i)
    /\ UNCHANGED <<streamVars, holder, sessMu, todo, sessVars, closer, evolveVars>>

-----------------------------------------------------------------------------
(* execute, batch, sequence, describe, get_autocommit, open_cursor *)

\* Session.getStream; "stream_id not found" ends the request.
GetStream(r) ==
    /\ pc[r] = "start"
    /\ op[r] \in {"query", "peek", "openCursor"}
    /\ sessMu = None
    /\ \/ /\ streams[id[r]] = None
          /\ Finish(r)
       \/ /\ streams[id[r]] # None
          /\ st' = [st EXCEPT ![r] = streams[id[r]]]
          /\ Goto(r, "found")
          /\ UNCHANGED <<op, id, before>>
    /\ UNCHANGED <<streamVars, tableVars, sessVars, closer, evolveVars>>

\* Fault: the generation is compared instead of the mark.
CheckGeneration(r) ==
    /\ pc[r] = "found"
    /\ \/ cgen[st[r]] # gen /\ Step(r, "remove")
       \/ cgen[st[r]] = gen /\ Step(r, "lock")
    /\ UNCHANGED <<streamVars, tableVars, sessVars, closer, evolveVars>>

\* IsSuperseded is read without any lock.  If set, the request is refused
\* and the deferred call removes whatever the id then stands for.
CheckSuperseded(r) ==
    /\ pc[r] = "found"
    /\ \/ superseded[st[r]] /\ Step(r, "remove")
       \/ ~superseded[st[r]] /\ op[r] = "peek" /\ Finish(r)
       \/ ~superseded[st[r]] /\ op[r] # "peek" /\ Step(r, "lock")
    /\ UNCHANGED <<streamVars, tableVars, sessVars, closer, evolveVars>>

\* Session.resolveSQL, of sequence and describe, does not find the sql_id.
ResolveSQLFails(r) ==
    /\ pc[r] = "lock"
    /\ op[r] = "query"
    /\ sessMu = None
    /\ Finish(r)
    /\ UNCHANGED <<streamVars, tableVars, sessVars, closer, evolveVars>>

\* Fault: the stream's mutex is not waited for.
LockStreamAnyway(r) ==
    /\ pc[r] = "lock"
    /\ holder' = [holder EXCEPT ![st[r]] = r]
    /\ Step(r, "exec")
    /\ UNCHANGED <<streamVars, streams, sessMu, todo, late, sessVars, closer,
                   evolveVars>>

LockStream(r) ==
    /\ pc[r] = "lock"
    /\ holder[st[r]] = None
    /\ holder' = [holder EXCEPT ![st[r]] = r]
    /\ Step(r, "exec")
    /\ UNCHANGED <<streamVars, streams, sessMu, todo, late, sessVars, closer,
                   evolveVars>>

\* Fault: the error return does not unlock.
UnlockStreamUnlessError(r, ok) ==
    /\ pc[r] = "exec"
    /\ holder' = IF ok THEN [holder EXCEPT ![st[r]] = None] ELSE holder
    /\ IF op[r] = "openCursor" /\ ok THEN Step(r, "file") ELSE Finish(r)
    /\ UNCHANGED <<streamVars, streams, sessMu, todo, late, sessVars, closer,
                   evolveVars>>

\* The statement, batch or sequence is over (ok tells how); only a cursor
\* that could be computed goes on to be filed.
UnlockStream(r, ok) ==
    /\ pc[r] = "exec"
    /\ holder' = [holder EXCEPT ![st[r]] = None]
    /\ IF op[r] = "openCursor" /\ ok THEN Step(r, "file") ELSE Finish(r)
    /\ UNCHANGED <<streamVars, streams, sessMu, todo, late, sessVars, closer,
                   evolveVars>>

FileCursor(r) ==
    /\ pc[r] = "file"
    /\ holder[st[r]] = None
    /\ cursors' = cursors \cup {st[r]}
    /\ Finish(r)
    /\ UNCHANGED <<conn, cgen, superseded, tableVars, sessVars, closer, evolveVars>>

-----------------------------------------------------------------------------
(* close_stream, and the removal of a superseded stream *)

StartClose(r) ==
    /\ pc[r] = "start"
    /\ op[r] = "close"
    /\ Step(r, "remove")
    /\ UNCHANGED <<streamVars, tableVars, sessVars, closer, evolveVars>>

\* Session.removeStream: under sess.mu, if the id is there ...
RemoveLock(r) ==
    /\ pc[r] = "remove"
    /\ sessMu = None
    /\ \/ /\ streams[id[r]] = None
          /\ Finish(r)
          /\ UNCHANGED sessMu
       \/ /\ streams[id[r]] # None
          /\ Step(r, "removing")
          /\ sessMu' = r
    /\ UNCHANGED <<streamVars, holder, streams, todo, late, sessVars, closer,
                   evolveVars>>

\* Fault: Stream.Close without stream.mu.
RemoveStreamAnyway(r) ==
    /\ pc[r] = "removing"
    /\ conn' = [conn EXCEPT ![streams[id[r]]] = "closed"]
    /\ streams' = [streams EXCEPT ![id[r]] = None]
    /\ due' = [e \in Evolvers |-> due[e] \ {id[r]}]
    /\ sessMu' = None
    /\ Finish(r)
    /\ UNCHANGED <<cgen, superseded, cursors, holder, todo, late, sessVars,
                   closer, gen, evolve, newGen, meeting>>

\* Fault: the id is forgotten and the connection kept.
RemoveStreamUnclosed(r) ==
    /\ pc[r] = "removing"
    /\ streams' = [streams EXCEPT ![id[r]] = None]
    /\ due' = [e \in Evolvers |-> due[e] \ {id[r]}]
    /\ sessMu' = None
    /\ Finish(r)
    /\ UNCHANGED <<streamVars, holder, todo, late, sessVars, closer, gen, evolve,
                   newGen, meeting>>

\* ... its stream is closed, which waits for stream.mu, and forgotten.
RemoveStream(r) ==
    /\ pc[r] = "removing"
    /\ holder[streams[id[r]]] = None
    /\ conn' = [conn EXCEPT ![streams[id[r]]] = "closed"]
    /\ streams' = [streams EXCEPT ![id[r]] = None]
    /\ due' = [e \in Evolvers |-> due[e] \ {id[r]}]
    /\ sessMu' = None
    /\ Finish(r)
    /\ UNCHANGED <<cgen, superseded, cursors, holder, todo, late, sessVars,
                   closer, gen, evolve, newGen, meeting>>

-----------------------------------------------------------------------------
(* close_cursor, fetch_cursor *)

\* Fault: ids without a stream are visited too.
WalkLockAllIds(r) ==
    /\ pc[r] = "start"
    /\ op[r] \in {"closeCursor", "fetchCursor"}
    /\ sessMu = None
    /\ sessMu' = r
    /\ todo' = {streams[i] : i \in Ids}
    /\ Step(r, "walking")
    /\ UNCHANGED <<streamVars, holder, streams, late, sessVars, closer, evolveVars>>

WalkLock(r) ==
    /\ pc[r] = "start"
    /\ op[r] \in {"closeCursor", "fetchCursor"}
    /\ sessMu = None
    /\ sessMu' = r
    /\ todo' = {streams[i] : i \in Open}
    /\ Step(r, "walking")
    /\ UNCHANGED <<streamVars, holder, streams, late, sessVars, closer, evolveVars>>

\* Lock one stream, look for the cursor (and delete it), unlock; a fetch
\* stops at the first stream that has it.
WalkStream(r, s) ==
    /\ pc[r] = "walking"
    /\ s \in todo
    /\ holder[s] = None
    /\ \/ /\ op[r] = "closeCursor"
          /\ cursors' = cursors \ {s}
          /\ todo' = todo \ {s}
       \/ /\ op[r] = "fetchCursor"
          /\ cursors' = cursors
          /\ todo' = IF s \in cursors THEN {} ELSE todo \ {s}
    /\ UNCHANGED <<conn, cgen, superseded, holder, streams, sessMu, late, reqVars,
                   sessVars, closer, evolveVars>>

WalkUnlock(r) ==
    /\ pc[r] = "walking"
    /\ todo = {}
    /\ sessMu' = None
    /\ Finish(r)
    /\ UNCHANGED <<streamVars, holder, streams, todo, late, sessVars, closer,
                   evolveVars>>

-----------------------------------------------------------------------------
(* EvolveDatabase *)

EvolveLoad(e) ==
    /\ evolve[e] = "idle"
    /\ SerialEvolve => \A f \in Evolvers : evolve[f] \in {"idle", "returned"}
    /\ evolve' = [evolve EXCEPT ![e] = "loaded"]
    /\ newGen' = [newGen EXCEPT ![e] = gen + 1]
    /\ UNCHANGED <<streamVars, tableVars, reqVars,
                   sessVars, closer, gen, due, meeting>>

\* The swap, and the start of the range over s.wsConns and sess.streams,
\* which are read without wsMu and sess.mu.
EvolveSwap(e) ==
    /\ evolve[e] = "loaded"
    /\ evolve' = [evolve EXCEPT ![e] = "ranging"]
    /\ gen' = newGen[e]
    /\ due' = [due EXCEPT ![e] = IF InConns THEN Open ELSE {}]
    /\ UNCHANGED <<streamVars, tableVars, reqVars,
                   sessVars, closer, newGen, meeting>>

\* A stream of the new database is skipped.
EvolveSkip(e, i) ==
    /\ evolve[e] = "ranging"
    /\ meeting[e] = None
    /\ i \in due[e]
    /\ cgen[streams[i]] = newGen[e]
    /\ due' = [due EXCEPT ![e] = @ \ {i}]
    /\ UNCHANGED <<streamVars, tableVars, reqVars,
                   sessVars, closer, gen, evolve, newGen, meeting>>

\* Fault: streams of the new database are taken as well.
EvolveMeetAll(e, i) ==
    /\ evolve[e] = "ranging"
    /\ meeting[e] = None
    /\ i \in Open
    /\ holder[streams[i]] # e
    /\ meeting' = [meeting EXCEPT ![e] = streams[i]]
    /\ due' = [due EXCEPT ![e] = @ \ {i}]
    /\ UNCHANGED <<streamVars, tableVars, reqVars,
                   sessVars, closer, gen, evolve, newGen>>

\* Any other is produced to be locked.  A stream added during the range may
\* be produced by it or not.
EvolveMeet(e, i) ==
    /\ evolve[e] = "ranging"
    /\ meeting[e] = None
    /\ i \in Open
    /\ i \in due[e] \/ InConns
    /\ cgen[streams[i]] # newGen[e]
    /\ holder[streams[i]] # e
    /\ meeting' = [meeting EXCEPT ![e] = streams[i]]
    /\ due' = [due EXCEPT ![e] = @ \ {i}]
    /\ UNCHANGED <<streamVars, tableVars, reqVars,
                   sessVars, closer, gen, evolve, newGen>>

\* stream.mu.Lock(), which may have to wait while the stream is closed and
\* leaves the table; it is held until EvolveDatabase returns.
EvolveMark(e) ==
    /\ meeting[e] # None
    /\ holder[meeting[e]] = None
    /\ holder' = [holder EXCEPT ![meeting[e]] = e]
    /\ superseded' = [superseded EXCEPT ![meeting[e]] = TRUE]
    /\ meeting' = [meeting EXCEPT ![e] = None]
    /\ UNCHANGED <<conn, cgen, cursors, streams, sessMu, todo, late, reqVars,
                   sessVars, closer, gen, evolve, newGen, due>>

\* The deferred unlocks.
EvolveReturn(e) ==
    /\ evolve[e] = "ranging"
    /\ due[e] = {} /\ meeting[e] = None
    /\ evolve' = [evolve EXCEPT ![e] = "returned"]
    /\ holder' = [s \in Reqs |-> IF holder[s] = e THEN None ELSE holder[s]]
    /\ UNCHANGED <<streamVars, streams, sessMu, todo, late, reqVars, sessVars,
                   closer, gen, newGen, due, meeting>>

-----------------------------------------------------------------------------
(* Server.Close *)

CloseBegin ==
    /\ closer = "serving"
    /\ closer' = "closing"
    /\ UNCHANGED <<streamVars, tableVars, reqVars,
                   sessVars, evolveVars>>

\* Fault: the connections are left alone.
CloseConnsSkipped ==
    /\ closer = "closing"
    /\ closer' = "waiting"
    /\ UNCHANGED <<streamVars, tableVars, reqVars, sessVars, evolveVars>>

\* closeAllWSConns: a close frame to every connection registered by now.
CloseConns ==
    /\ closer = "closing"
    /\ closer' = "waiting"
    /\ wire' = IF InConns THEN "down" ELSE wire
    /\ UNCHANGED <<streamVars, tableVars, reqVars, session,
                   authed, inbox, evolveVars>>

\* s.wg.Wait() returns, and s.cancel() ends the context of all queries.
WaitAndCancel ==
    /\ closer = "waiting"
    /\ ~Counted
    /\ \A r \in Reqs : ~InFlight(r)
    /\ closer' = "cancelled"
    /\ UNCHANGED <<streamVars, tableVars, reqVars,
                   sessVars, evolveVars>>

-----------------------------------------------------------------------------
Handle(r) ==
    \/ CheckIdFree(r) \/ StartAssigned(r) \/ OpenStream(r)
    \/ OpenStreamFails(r) \/ AddStream(r)
    \/ \E i \in Ids : AddStreamAssigned(r, i)
    \/ GetStream(r) \/ CheckSuperseded(r)
    \/ ResolveSQLFails(r) \/ LockStream(r)
    \/ \E ok \in BOOLEAN : UnlockStream(r, ok)
    \/ FileCursor(r)
    \/ StartClose(r) \/ RemoveLock(r) \/ RemoveStream(r)
    \/ WalkLock(r) \/ (\E s \in Reqs : WalkStream(r, s)) \/ WalkUnlock(r)

Receive == \E r \in Reqs, o \in Ops, i \in Ids \cup {None} :
              ReceiveRequest(r, o, i)

Leave ==
    \/ Deregister
    \/ CloseAllLock \/ (\E i \in Ids : CloseAllStream(i)) \/ CloseAllUnlock

Evolve(e) ==
    \/ EvolveLoad(e) \/ EvolveSwap(e)
    \/ \E i \in Ids : EvolveSkip(e, i) \/ EvolveMeet(e, i)
    \/ EvolveMark(e) \/ EvolveReturn(e)

Next ==
    \/ Accept \/ Register \/ CountIn
    \/ Hello \/ PeerCloses \/ ReaderReturns
    \/ Receive \/ StartRequest
    \/ Leave
    \/ \E r \in Reqs : Handle(r)
    \/ \E e \in Evolvers : Evolve(e)
    \/ CloseBegin \/ CloseConns \/ WaitAndCancel

Spec == Init /\ [][Next]_vars

\* Mutexes are starvation-free and statements end: strong fairness for all
\* that may wait for one.  A session whose wire is down sees its read fail.
Fairness ==
    /\ \A r \in Reqs : SF_vars(Handle(r))
    /\ \A e \in Evolvers : SF_vars(Evolve(e))
    /\ SF_vars(Leave)
    /\ WF_vars(StartRequest)
    /\ WF_vars(Register) /\ WF_vars(CountIn)
    /\ WF_vars(wire = "down" /\ ReaderReturns)
    /\ WF_vars(CloseConns) /\ WF_vars(WaitAndCancel)

FairSpec == Spec /\ Fairness

-----------------------------------------------------------------------------
(* Safety, for any client *)

\* Two requests of a session never run SQL on one connection at a time, and
\* none does while EvolveDatabase holds the stream (websocket.go:536, 560,
\* 595, 619, 655; hrana.go:211).
ExclusiveQueries ==
    \A r \in Reqs : pc[r] = "exec" =>
        /\ holder[st[r]] = r
        /\ \A q \in Reqs \ {r} : ~(pc[q] = "exec" /\ st[q] = st[r])

\* close_stream, the removal of a superseded stream and the end of the
\* session all wait for the query that is running on the connection.
CloseNeverCutsQuery ==
    [][\A r, s \in Reqs :
          conn[s] = "open" /\ conn'[s] = "closed" /\ pc[r] = "exec"
             => st[r] # s]_vars

\* A client is told to reopen its stream only if a newer database exists
\* (hrana.go:207-209).
SupersededIsOlder ==
    \A s \in Reqs : superseded[s] => cgen[s] < gen

\* Server.Close cancels the context only when no request is being served,
\* although a session may register after the connections were closed and
\* the WaitGroup found empty (websocket.go:211-216, 334-341; hrana.go:241).
NoQueryAfterCancel ==
    closer = "cancelled" =>
        /\ inbox = None
        /\ \A r \in Reqs : ~InFlight(r)

\* A step of EvolveDatabase never has to wait for a holder of sess.mu and
\* whoever holds stream.mu waits for nothing but the database: no circle.
LockOrder ==
    \A s \in Reqs :
        \/ holder[s] = None
        \/ holder[s] \in Reqs /\ pc[holder[s]] = "exec" /\ st[holder[s]] = s
        \/ holder[s] \in Evolvers /\ evolve[holder[s]] = "ranging"

-----------------------------------------------------------------------------
(* Safety, for clients with one request at a time per stream id *)

\* A running goroutine is about to file stream s.
Owes(r, s) == r = s /\ pc[r] = "add"

Filed(s) == \E i \in Ids : streams[i] = s

\* A stream that its opener filed when closeAll had come and gone: nobody
\* closes it any more, unless close_stream is still running.
FiledTooLate(s) == s \in late /\ Filed(s)

\* An open connection can be found again: its opener is about to file it, or
\* it is in the table of a session whose closeAll is still to come.  The one
\* exception, FiledTooLate, is against readme.md:374, by which the end of the
\* connection closes all streams: see AllStreamsClosed.
NoOrphan ==
    \A s \in Reqs : conn[s] = "open" =>
        \/ session # "gone" /\ Filed(s)
        \/ \E r \in Reqs : Owes(r, s)
        \/ FiledTooLate(s)

\* A stream that is not superseded is closed by close_stream on its id or
\* by the end of the session, never by the deferred removal of another
\* stream (websocket.go:530-534).
OnlySupersededRemoved ==
    [][\A s \in Reqs :
          conn[s] = "open" /\ conn'[s] = "closed" /\ ~superseded[s] =>
             \/ session = "closing"
             \/ \E r \in Reqs : pc[r] = "removing" /\ op[r] = "close"]_vars

-----------------------------------------------------------------------------
(* Liveness *)

\* Every request is answered or fails, whatever holds sess.mu, stream.mu.
RequestsFinish == \A r \in Reqs : pc[r] = "start" ~> pc[r] = "done"

\* EvolveDatabase returns although it keeps every lock it has taken.
EvolveReturns ==
    \A e \in Evolvers : evolve[e] = "loaded" ~> evolve[e] = "returned"

\* Server.Close returns when every session it has to end is registered by the
\* time it closes the connections.
CloseReturnsIfRegistered ==
    closer = "closing" /\ session # "accepted" ~> closer = "cancelled"

\* A session whose connection is gone comes to its end, and every stream that
\* is in its table before that end is closed (websocket.go:209, stream.go
\* closeAll).
SessionEnds ==
    /\ session = "running" /\ wire = "down" ~> session = "gone"
    /\ \A s \in Reqs :
          wire = "down" /\ session \notin {"new", "gone"} /\ Filed(s)
              ~> conn[s] = "closed"

-----------------------------------------------------------------------------
(* What the documentation says and the code does not do *)

\* HRANA_3_SPEC.md:575-580 "a client can send an open_stream request
\* immediately followed by a batch of execute requests on that stream and the
\* server will always process them in correct order".
OpenBeforeUse ==
    [][\A r, q \in Reqs :
          pc[r] = "start" /\ pc'[r] = "done" /\ op[r] = "query"
          /\ q \in before[r] /\ op[q] = "open" /\ id[q] = id[r]
             => ~InFlight(q)]_vars

\* readme.md:374, of the end of the connection: "all streams closed".
AllStreamsClosed ==
    \A s \in Reqs : wire = "down" /\ conn[s] = "open" ~> conn[s] = "closed"

\* hrana.go:230-233 Close "sends a WebSocket close frame (1001 Going Away) to
\* all active WebSocket connections, waits for all in-flight queries to
\* complete, then cancels the server context".
CloseReturns == closer = "closing" ~> closer = "cancelled"

=============================================================================
