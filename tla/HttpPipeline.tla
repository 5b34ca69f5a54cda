---------------------------- MODULE HttpPipeline ----------------------------
(***************************************************************************)
(* The HTTP handlers of http.go over the baton store: /v1/execute and      *)
(* /v1/batch (an ephemeral stream), /v2 and /v3/pipeline, /v3/cursor, run  *)
(* concurrently with each other, with the sweep of the store and with      *)
(* Server.Close.                                                           *)
(*                                                                         *)
(* A request is one element of Requests and runs once, on its own          *)
(* goroutine; its pc says between which two calls it stands.  Decoding and *)
(* authentication come before any state is touched, so all refusals are    *)
(* the one action Reject.                                                  *)
(***************************************************************************)
EXTENDS BatonStore

CONSTANTS
    MaxSteps,       \* bound on the stream requests in one pipeline body
    SerialClients,  \* TRUE: a client awaits its answer, uses a baton once
    PromptRequests, \* TRUE: no request lasts longer than TTL
    MayShutdown     \* TRUE: Server.Close may be called

ASSUME BoundAssumption == MaxSteps \in Nat
ASSUME EnvAssumption ==
    /\ SerialClients \in BOOLEAN
    /\ PromptRequests \in BOOLEAN
    /\ MayShutdown \in BOOLEAN

VARIABLES
    pc,         \* where each request stands
    kind,       \* which handler serves it
    old,        \* the baton the request carried (oldBaton)
    use,        \* the *Stream the handler works on
    left,       \* stream requests of the body still to dispatch
    ended,      \* the handler's "closed": a close request was dispatched
    issued,     \* batons returned by Put so far
    closer,     \* progress of Server.Close
    late        \* history: streams filed after batons.Close had returned

reqVars == <<pc, kind, old, use, left, ended, issued>>
vars == <<storeVars, reqVars, closer, late>>

Kinds == {"v1", "pipeline", "cursor"}

\* A request that has a stream and has not been answered.
Active(r) == pc[r] \notin {"new", "resolve", "done"}

\* Types; and no handler gets past the lookup of its baton without a stream
\* (Get answers (nil, nil) for a baton it does not know: http.go:180-187).
TypeOK ==
    /\ StoreTypeOK
    /\ pc \in [Requests -> {"new", "resolve", "v1exec", "rotate", "ready",
                            "exec", "delete", "done"}]
    /\ kind \in [Requests -> Kinds]
    /\ old \in [Requests -> Requests \cup {None}]
    /\ use \in [Requests -> Requests \cup {None}]
    /\ left \in [Requests -> 0..(MaxSteps + 1)]
    /\ ended \in [Requests -> BOOLEAN]
    /\ issued \in SUBSET Requests
    /\ closer \in {"serving", "closing", "draining", "closed"}
    /\ late \in SUBSET Requests
    /\ \A r \in Requests : Active(r) => use[r] # None

Init ==
    /\ StoreInit
    /\ pc = [r \in Requests |-> "new"]
    /\ kind = [r \in Requests |-> "pipeline"]
    /\ old = [r \in Requests |-> None]
    /\ use = [r \in Requests |-> None]
    /\ left = [r \in Requests |-> 0]
    /\ ended = [r \in Requests |-> FALSE]
    /\ issued = {}
    /\ closer = "serving"
    /\ late = {}

Goto(r, label) == pc' = [pc EXCEPT ![r] = label]

\* Handler r runs SQL on stream s.
Querying(r, s) == pc[r] \in {"v1exec", "exec"} /\ use[r] = s

-----------------------------------------------------------------------------
(* Clients *)

\* The batons a client can send.  A well-behaved client waits for the whole
\* answer and never sends a baton a second time.
Presentable ==
    IF SerialClients
    THEN {b \in issued : pc[b] = "done" /\ \A q \in Requests : old[q] # b}
    ELSE issued

\* ServeHTTP lets a request in: the server is not closing, the request is
\* authenticated and its body, naming baton b and n stream requests, decodes.
Arrive(r, k, b, n) ==
    /\ pc[r] = "new"
    /\ closer = "serving"
    /\ b # None => k # "v1" /\ b \in Presentable
    /\ k # "pipeline" => n = 0
    /\ kind' = [kind EXCEPT ![r] = k]
    /\ old' = [old EXCEPT ![r] = b]
    /\ left' = [left EXCEPT ![r] = n]
    /\ Goto(r, "resolve")
    /\ UNCHANGED <<storeVars, use, ended, issued, closer, late>>

\* 503 while closing; 401, 400, 406, 429 for a request not accepted.
Reject(r) ==
    /\ pc[r] = "new"
    /\ Goto(r, "done")
    /\ UNCHANGED <<storeVars, kind, old, use, left, ended, issued, closer, late>>

-----------------------------------------------------------------------------
(* Resolving or creating the stream *)

\* The first label of each handler once it has a stream.
FirstLabel(k) == CASE k = "v1" -> "v1exec"
                   [] k = "pipeline" -> "ready"
                   [] k = "cursor" -> "rotate"

\* Fault: the stream is used without the check that Get found one.
ResolveBatonUnchecked(r) ==
    /\ pc[r] = "resolve"
    /\ old[r] # None
    /\ mu = "free"
    /\ use' = [use EXCEPT ![r] = entries[old[r]]]
    /\ Goto(r, FirstLabel(kind[r]))
    /\ UNCHANGED <<storeVars, kind, old, left, ended, issued, closer, late>>

ResolveBaton(r) ==
    /\ pc[r] = "resolve"
    /\ old[r] # None
    /\ GetRefresh(old[r])
    /\ use' = [use EXCEPT ![r] = entries[old[r]]]
    /\ Goto(r, FirstLabel(kind[r]))
    /\ UNCHANGED <<conn, holder, mu, sweeper, stopped,
                   kind, old, left, ended, issued, closer, late>>

\* 400 "baton not found or expired"
BatonNotFound(r) ==
    /\ pc[r] = "resolve"
    /\ old[r] # None
    /\ GetMiss(old[r])
    /\ Goto(r, "done")
    /\ UNCHANGED <<storeVars, kind, old, use, left, ended, issued, closer, late>>

CreateStream(r) ==
    /\ pc[r] = "resolve"
    /\ old[r] = None
    /\ OpenStream(r)
    /\ use' = [use EXCEPT ![r] = r]
    /\ Goto(r, FirstLabel(kind[r]))
    /\ UNCHANGED <<holder, entries, age, mu, sweeper, overdue, stopped,
                   kind, old, left, ended, issued, closer, late>>

\* db.Conn fails: 500, and nothing to release.
CreateFails(r) ==
    /\ pc[r] = "resolve"
    /\ old[r] = None
    /\ Goto(r, "done")
    /\ UNCHANGED <<storeVars, kind, old, use, left, ended, issued, closer, late>>

-----------------------------------------------------------------------------
(* /v1: one query on a private stream, closed by the deferred call *)

FinishV1(r) ==
    /\ pc[r] = "v1exec"
    /\ CloseStream(use[r])
    /\ Goto(r, "done")
    /\ UNCHANGED <<holder, entries, age, mu, sweeper, overdue, stopped,
                   kind, old, use, left, ended, issued, closer, late>>

-----------------------------------------------------------------------------
(* /v2/pipeline, /v3/pipeline *)

\* dispatchStreamRequest takes stream.mu for each stream request in turn.
\* A stream that was closed meanwhile is not noticed: the query just fails.
BeginStep(r) ==
    /\ pc[r] = "ready"
    /\ left[r] > 0
    /\ ~ended[r]
    /\ LockStream(use[r], r)
    /\ Goto(r, "exec")
    /\ UNCHANGED <<conn, entries, age, mu, sweeper, overdue, stopped,
                   kind, old, use, left, ended, issued, closer, late>>

\* The dispatched request returns; isClose when it was of type "close",
\* after which the rest of the body is answered "stream is closed".
EndStep(r, isClose) ==
    /\ pc[r] = "exec"
    /\ kind[r] = "pipeline"
    /\ UnlockStream(use[r])
    /\ left' = [left EXCEPT ![r] = @ - 1]
    /\ ended' = [ended EXCEPT ![r] = isClose]
    /\ Goto(r, "ready")
    /\ UNCHANGED <<conn, entries, age, mu, sweeper, overdue, stopped,
                   kind, old, use, issued, closer, late>>

\* A stream goes into the store; the history notes that Close has been there.
File(r) ==
    /\ Put(r, use[r], old[r])
    /\ issued' = issued \cup {r}
    /\ late' = IF closer = "closed" THEN late \cup {use[r]} ELSE late

\* No close in the body: the stream goes (back) to the store under a new
\* baton, which the answer carries.
RotateBaton(r) ==
    /\ pc[r] = "ready"
    /\ kind[r] = "pipeline"
    /\ left[r] = 0
    /\ ~ended[r]
    /\ File(r)
    /\ Goto(r, "done")
    /\ UNCHANGED <<conn, holder, mu, sweeper, stopped,
                   kind, old, use, left, ended, closer>>

\* A close in the body: first the stream is closed ...
ClosePipelineStream(r) ==
    /\ pc[r] = "ready"
    /\ ended[r]
    /\ CloseStream(use[r])
    /\ Goto(r, IF old[r] # None THEN "delete" ELSE "done")
    /\ UNCHANGED <<holder, entries, age, mu, sweeper, overdue, stopped,
                   kind, old, use, left, ended, issued, closer, late>>

\* ... then its baton leaves the store.
DeleteBaton(r) ==
    /\ pc[r] = "delete"
    /\ Delete(old[r])
    /\ Goto(r, "done")
    /\ UNCHANGED <<conn, holder, age, mu, sweeper, overdue, stopped,
                   kind, old, use, left, ended, issued, closer, late>>

-----------------------------------------------------------------------------
(* /v3/cursor *)

\* The baton is rotated before the batch runs and goes out in the first
\* line of the answer.
RotateUpFront(r) ==
    /\ pc[r] = "rotate"
    /\ File(r)
    /\ left' = [left EXCEPT ![r] = 1]
    /\ Goto(r, "ready")
    /\ UNCHANGED <<conn, holder, mu, sweeper, stopped,
                   kind, old, use, ended, closer>>

\* Writing the first line fails: the handler returns without running.
FirstLineFails(r) ==
    /\ pc[r] = "ready"
    /\ kind[r] = "cursor"
    /\ Goto(r, "done")
    /\ UNCHANGED <<storeVars, kind, old, use, left, ended, issued, closer, late>>

\* Fault: the cursor path forgets stream.Unlock.
EndCursorKeepsLock(r) ==
    /\ pc[r] = "exec"
    /\ kind[r] = "cursor"
    /\ Goto(r, "done")
    /\ UNCHANGED <<storeVars, kind, old, use, left, ended, issued, closer, late>>

\* executeBatchCursor is done; the entries are written without the lock.
EndCursor(r) ==
    /\ pc[r] = "exec"
    /\ kind[r] = "cursor"
    /\ UnlockStream(use[r])
    /\ Goto(r, "done")
    /\ UNCHANGED <<conn, entries, age, mu, sweeper, overdue, stopped,
                   kind, old, use, left, ended, issued, closer, late>>

-----------------------------------------------------------------------------
(* The clock, the sweep and Server.Close *)

\* With PromptRequests, no request in flight outlasts the TTL of the entry
\* its stream is filed under.
Tick ==
    /\ PromptRequests =>
         \A r \in Requests : Active(r) =>
            \A b \in Live : b \in {old[r], r} => age[b] < TTL
    /\ \E b \in Live : age[b] <= TTL
    /\ Elapse
    /\ UNCHANGED <<reqVars, closer, late>>

Sweep ==
    /\ \/ SweepFire
       \/ SweepDeadline
       \/ SweepLock
       \/ \E b \in Requests : SweepEntry(b)
       \/ SweepUnlock
    /\ UNCHANGED <<reqVars, closer, late>>

\* Server.Close: closing := true.  WebSocket sessions are then closed and
\* awaited; HTTP handlers are in no WaitGroup, so nothing of this module
\* delays the call of batons.Close.
CloseBegin ==
    /\ MayShutdown
    /\ closer = "serving"
    /\ closer' = "closing"
    /\ UNCHANGED <<storeVars, reqVars, late>>

CloseStore ==
    /\ closer = "closing"
    /\ StoreCloseLock
    /\ closer' = "draining"
    /\ UNCHANGED <<reqVars, late>>

CloseDrain ==
    /\ \E b \in Requests : StoreCloseEntry(b)
    /\ UNCHANGED <<reqVars, closer, late>>

CloseReturn ==
    /\ StoreCloseUnlock
    /\ closer' = "closed"
    /\ UNCHANGED <<reqVars, late>>

-----------------------------------------------------------------------------
Handle(r) ==
    \/ ResolveBaton(r) \/ BatonNotFound(r)
    \/ CreateStream(r) \/ CreateFails(r)
    \/ FinishV1(r)
    \/ BeginStep(r)
    \/ \E isClose \in BOOLEAN : EndStep(r, isClose)
    \/ RotateBaton(r) \/ ClosePipelineStream(r) \/ DeleteBaton(r)
    \/ RotateUpFront(r) \/ FirstLineFails(r) \/ EndCursor(r)

Client(r) ==
    \/ \E k \in Kinds, b \in Requests \cup {None}, n \in 0..MaxSteps :
          Arrive(r, k, b, n)
    \/ Reject(r)

Next ==
    \/ \E r \in Requests : Client(r) \/ Handle(r)
    \/ Tick
    \/ Sweep
    \/ CloseBegin \/ CloseStore \/ CloseDrain \/ CloseReturn

Spec == Init /\ [][Next]_vars

\* Go's mutexes are starvation-free (a waiter of more than 1 ms is served
\* first), hence strong fairness for every step that takes one; queries
\* return, the timer of the interval fires and time passes.
Fairness ==
    /\ \A r \in Requests : SF_vars(Handle(r))
    /\ SF_vars(Sweep)
    /\ WF_vars(Tick)
    /\ SF_vars(CloseStore) /\ SF_vars(CloseDrain) /\ WF_vars(CloseReturn)

FairSpec == Spec /\ Fairness

-----------------------------------------------------------------------------
(* Safety, for any clients *)

\* Handler r is still going to file stream s under a baton or close it.
Owes(r, s) ==
    /\ use[r] = s
    /\ \/ pc[r] \in {"v1exec", "rotate"}
       \/ pc[r] \in {"ready", "exec"} /\ kind[r] = "pipeline"

\* A stream that a handler filed when batons.Close had come and gone: the
\* sweep is stopped and nobody closes the stream any more.
FiledTooLate(s) == s \in late /\ \E b \in Requests : entries[b] = s

\* No pinned connection leaks: whatever the interleaving of requests that
\* share a baton, sweep, close requests and shutdown, an open stream is owed
\* by a running handler or in a store that sweep and Close still look after
\* (baton.go Put/sweep/Close against http.go:149-223, 353-437).  The one
\* exception, FiledTooLate, is against hrana.go:232-233, by which Close
\* "releases all HTTP baton streams": see ShutdownReleasesStreams.
NoOrphan ==
    \A s \in Requests : conn[s] = "open" =>
        \/ closer # "closed" /\ \E b \in Requests : entries[b] = s
        \/ \E r \in Requests : Owes(r, s)
        \/ FiledTooLate(s)

\* Requests that got hold of one stream through the same baton never run
\* SQL on its connection at the same time (stream.mu, http.go:253).
ExclusiveQueries ==
    \A r, q \in Requests : r # q =>
        \A s \in Requests : ~(Querying(r, s) /\ Querying(q, s))

\* Once a request has been given its new baton, the one it came with opens
\* nothing any more (baton.go:51-53).
RotationRetiresOldBaton ==
    \A r \in issued : old[r] # None => entries[old[r]] = None

\* A connection never goes back to the pool under a running query: neither
\* the sweep, nor Close, nor a close request of another handler interrupts
\* one (Stream.Close takes stream.mu, stream.go:63-71).
CloseNeverCutsQuery ==
    [][\A r, s \in Requests :
          conn[s] = "open" /\ conn'[s] = "closed" /\ pc[r] = "exec"
             => use[r] # s]_vars

-----------------------------------------------------------------------------
(* Safety, for clients that keep to the protocol and prompt requests *)

\* One live baton per stream (HRANA_3_SPEC.md:681).
OneBatonPerStream ==
    \A b, c \in Live : entries[b] = entries[c] => b = c

\* A baton a client has just been given, and that the store still knows,
\* leads to a stream that works.
DeliveredBatonsWork ==
    \A b \in Live :
        pc[b] = "done" /\ (\A q \in Requests : old[q] # b)
            => conn[entries[b]] = "open"

\* The store and the handlers implement StreamLease: a request in flight
\* holds its stream, and a stream nobody holds is parked under its baton.
HoldersOf(s) == {r \in Requests : Active(r) /\ use[r] = s}
BatonsOf(s) == {b \in Requests : entries[b] = s}
ClosersOf(s) == {r \in Requests : /\ use[r] = s /\ pc[r] \in {"delete", "done"}
                                  /\ kind[r] = "v1" \/ ended[r]}
TheOne(S) == IF S = {} THEN None ELSE CHOOSE x \in S : TRUE

LeaseOf(s) ==
    CASE conn[s] = "none" -> [how |-> "fresh", by |-> None]
      [] conn[s] = "closed" /\ ClosersOf(s) # {} ->
            [how |-> "released", by |-> None]
      [] conn[s] = "closed" /\ ClosersOf(s) = {} ->
            [how |-> "expired", by |-> None]
      [] conn[s] = "open" /\ HoldersOf(s) # {} ->
            [how |-> "held", by |-> TheOne(HoldersOf(s))]
      [] OTHER -> [how |-> "parked", by |-> TheOne(BatonsOf(s))]

Lease ==
    INSTANCE StreamLease WITH lease <- [s \in Requests |-> LeaseOf(s)]

LeaseSpec == Lease!Spec

-----------------------------------------------------------------------------
(* Liveness *)

\* Every request is answered: handlers that hold stream.mu, the sweep that
\* holds bs.mu while it waits for stream.mu, and the handlers that then
\* wait for bs.mu never wait in a circle.
RequestsFinish ==
    \A r \in Requests : pc[r] = "resolve" ~> pc[r] = "done"

\* As long as the server runs, every stream an HTTP request opened is closed
\* in the end, even when its client never comes back (baton.go:95-105).
StreamsEventuallyClosed ==
    \A s \in Requests :
        conn[s] = "open" ~> conn[s] = "closed" \/ closer # "serving"

\* Server.Close comes back from batons.Close although it keeps bs.mu while
\* it waits for handlers to let go of their streams.
ShutdownCompletes == closer = "closing" ~> closer = "closed"

-----------------------------------------------------------------------------
(* What the documentation says and the code does not do *)

\* hrana.go:230-233: Close "waits for all in-flight queries to complete, then
\* cancels the server context and releases all HTTP baton streams".  If it
\* waited, no query would be in flight when it has returned; if it released
\* all streams, that of such a query would be closed in the end.
ShutdownReleasesStreams ==
    \A s \in Requests :
        closer = "closed" /\ (\E r \in Requests : Querying(r, s))
            ~> conn[s] = "closed"

=============================================================================
