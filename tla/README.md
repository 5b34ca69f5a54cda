# TLA+ models of hrana

hrana is a Go server that exposes a `database/sql` database over the Hrana
protocol (HTTP with batons, and WebSocket), with clients in Go, TypeScript and
Python. This directory holds TLA+ models of it, their TLC configurations and
TLAPS proofs. Every definition is translated from the source; `PROJECT.json`
maps each one to the lines it models.

## The system

| Component | State | Operations | How it meets the others |
|---|---|---|---|
| baton store (`baton.go`) | map baton -> stream with last access, one mutex, an interval | Put, Get, Delete, sweep, Close | called by the HTTP handlers; closes streams, for which it waits under its own mutex |
| HTTP handlers (`http.go`) | per request: stream, old baton, "closed" flag | v1 execute/batch, pipeline, cursor | open streams or take them from the store, lock them per stream request, rotate the baton |
| streams (`stream.go`) | pinned connection, mutex, closed, generation, superseded, cursors, stored SQL | OpenStream, Lock/Unlock, Close | used by handlers, sessions, store, EvolveDatabase |
| WebSocket session (`websocket.go`, `stream.go`) | stream table and its mutex, stored SQL, authed | register, hello, request (a goroutine each), end | counted in the server's WaitGroup, listed in `wsConns` |
| server (`hrana.go`) | current database and generation, closing, WaitGroup, context | New, EvolveDatabase, Close | supersedes streams of sessions, ends sessions and the store |
| blacklist (`blacklist.go`) | LRU list of entries (strikes, last strike, block), mutex, interval | IsBlocked, Strike, sweepExpired, Close | asked before the handshake, struck at the end of a short session |
| interval (`interval_func.go`) | timer, stopped, mutex | run, Stop | drives the sweeps of store and blacklist |
| executor (`executor.go`, `utils.go`) | results and errors of the steps so far, entries emitted | executeStmt, executeBatch, evalBatchCond, executeBatchCursor, executeSequence, describeStmt | called by handlers and session under the stream's mutex |
| Go WebSocket client (`ws_conn.go`, `js-conn.go`) | pending requests, a channel per request, current stream, who recovers it, closed | connect, execStatement, read loop, retrySupersededRequest, recoverStream, Close | one session of the server per connection; driven by database/sql |
| Go HTTP client (`conn.go`) | baton, base URL | execute, transactions, Close | one pipeline request at a time |
| TypeScript, Python clients (`clients/ts`, `clients/python`) | baton or socket, request table, query cache | execute, batch, subscribe | speak the protocol |

What is hard in it: handlers that share a stream through one baton; a sweep and
a shutdown that hold one mutex while they wait for another; requests of one
session that run on unordered goroutines; a flag (`IsSuperseded`) and an id that
are read before a wait and used after it; registration, counting and the check
of `closing` in three separate steps; time (TTL, blocks, decay) that moves
between any two of these; a batch that goes on after a failure and answers in
two different forms; a client whose statement is refused, taken over by another
goroutine and sent again, on a stream that others replace meanwhile.
`PROJECT.json` lists these under `hazards`, each at its line, with the
properties that would notice.

What makes each part correct:

* baton store and HTTP handlers: an open connection can be found and closed;
  two requests never run SQL on one connection together; none is cut off; a
  baton works once; every request is answered.
* session and server: exclusive queries; supersession hits older streams only
  and removes only them; locks are taken in an order; the context is cancelled
  under no request; sessions, EvolveDatabase and Close complete.
* executor: the conditions mean what the protocol says, a batch and a cursor
  do the same, the answer agrees with what the database was asked, and a
  readonly stream gets no writes.  (The code departs from the first inside a
  transaction, and from the last in two ways: see below.)
* Go WebSocket client: each request is answered once, a statement runs at most
  once however often it is sent, no stream is left behind, every call returns.
* blacklist: lookups, reordering and the sweep never change what a strike will
  find; blocks are not shortened; a blocked address goes free.
* interval: once stopped it is not armed again and decides on no call.

## Where the code and its documents disagree

Six of these are shown by a run whose violation is expected, the others are the
named exceptions of properties that pass.

| What the code does | What is promised | In the models |
|---|---|---|
| Close waits for WebSocket requests only; HTTP queries run on (hrana.go:243) | hrana.go:230-233: it waits for all in-flight queries | `ShutdownReleasesStreams`, violated in `http_shutdown_doc` |
| a handler let in before Close files its stream after `batons.Close`, for ever (http.go:202, 400) | hrana.go:232-233: Close releases all HTTP baton streams | the same run; `FiledTooLate` is the exception of `NoOrphan` |
| an open_stream under way when the peer leaves files its stream after `closeAll`, for ever (websocket.go:209) | readme.md:374: all streams closed | `AllStreamsClosed`, violated in `ws_streams_doc`; `FiledTooLate` is the exception of `NoOrphan` |
| a session that registers just after Close has copied the list of connections gets no close frame, and Close waits for it (websocket.go:211) | hrana.go:230-233 | `CloseReturns`, violated in `ws_close_doc` |
| requests pipelined on one stream id overtake each other (websocket.go:342) | HRANA_3_SPEC.md:575-580: processed in order | `OpenBeforeUse`, violated in `ws_order_doc` |
| a cursor runs writes on a readonly stream (executor.go:399) | hrana.go:22-24: no write reaches the database | `ReadOnlyRejectsWrites`, violated in `executor_readonly_doc` |
| a line comment behind a block comment hides a write from `isWriteStatement` (utils.go:119) | hrana.go:22-24, utils.go:101-103 | `Hidden` is the exception of `ReadOnlyKept`; `WritesFound` proves that there is no other |
| `is_autocommit` is true inside a transaction, as the comment at executor.go:290-293 admits | HRANA_3_SPEC.md:1092-1093 | `Answerable` is the exception in `BatchPromise` and `ConditionsSound` |
| the call `run` had decided on begins after Stop (interval_func.go:28, 32) | interval_func.go:49: Stop prevents further calls | the exception named at `StopIsFinal` |

## Modules

| Module | Models | Checked by |
|---|---|---|
| `BatonStore` | the store, its streams and the sweep, as operators and actions | through `HttpPipeline` |
| `HttpPipeline` | the HTTP handlers over `BatonStore`, and Server.Close | `MCHttpPipeline` |
| `StreamLease` | abstract: a stream is held by one request, parked under one baton, or gone | implemented by `HttpPipeline` (`LeaseSpec`) |
| `HttpPipeline_proofs` | invariant and theorems about `HttpPipeline`, for any clients | tlapm |
| `HttpSerial_proofs` | the same for clients that keep to the protocol; `StreamLease` is implemented | tlapm |
| `WsSession` | one WebSocket session, EvolveDatabase, Server.Close | `MCWsSession` |
| `WsSession_proofs` | invariant and theorems about `WsSession` | tlapm |
| `BatchCond` | evalBatchCond, and the meaning of a condition | through `Executor` |
| `Executor` | the functions of `executor.go` | `MCExecutor` |
| `BatchPromise` | abstract: which steps of a batch run, fail and are skipped | implemented by `Executor` (`BatchPromised`) |
| `Executor_proofs` | invariant and theorems about `Executor` | tlapm |
| `Batch_proofs` | `evalBatchCond` against its meaning, the entries of a cursor; `BatchPromise` is implemented | tlapm |
| `WsClient` | the Go client's WebSocket connection, native and in a browser, and what it sees of the server | `MCWsClient` |
| `WsClient_proofs` | invariant and theorems about `WsClient` | tlapm |
| `Interval` | the timer of `interval_func.go` | through `Blacklist` |
| `Blacklist` | the LRU blacklist and the sessions that strike | `MCBlacklist` |
| `StrikeLedger` | abstract: what `BlacklistConfig` promises, without a list | implemented by `Blacklist` (`LedgerSpec`) |
| `Blacklist_proofs` | invariant and theorems about `Blacklist`; `StrikeLedger` is implemented | tlapm |
| `InductionFacts` | induction over numbers and finite trees, for the proof modules that need it | tlapm |

The MC modules only add symmetry sets and the small sets a run takes its
conditions, statements or addresses from. Operators named in a `Fault:` comment are
versions of the definition after them with a plausible bug; nothing uses them in
the specifications, they are the mutants `PROJECT.json` lists: with the fault in
place of the definition, the named property fails.

### BatonStore and HttpPipeline

Streams and batons are named after the request that created them, since a
request opens at most one stream and generates at most one (random, 32 byte)
baton. `Put`, `GetRefresh`/`GetMiss` and `Delete` run under `bs.mu` without
waiting for anything and are one step each. The sweep is four: the deadline is
computed before `bs.mu` is asked for (`SweepDeadline`), `SweepLock`, one
`SweepEntry` per entry that waits for the stream's mutex, and `SweepUnlock`,
after which the interval is armed again. Server.Close is `CloseBegin`,
`CloseStore`, `CloseDrain` per entry, `CloseReturn`. A request goes through `pc`:
`resolve` (Get or OpenStream), `ready`/`exec` for each stream request under
`stream.mu`, then `RotateBaton`, or `ClosePipelineStream` and `DeleteBaton`; a
cursor rotates first (`RotateUpFront`); a v1 request has a private stream and
takes no mutex. Authentication, decoding, CORS, the version check and the
blacklist check come before any of this state is touched and are the one action
`Reject`. Time is an age per entry, saturating one tick beyond the TTL. `late` is a
history variable: the streams filed when `batons.Close` had returned.

Two constants say what clients do. `SerialClients` is the protocol's rule that a
client awaits each answer and uses a baton once (HRANA_3_SPEC.md:678-684);
`PromptRequests` that no request outlasts the TTL. Leak freedom, exclusion and
liveness are checked, and safety is proved, without either.

Left out: errors of `generateBaton` and `RandomInt32` (`crypto/rand.Read` does
not fail with the Go version `go.mod` asks for), the contents of SQL and
answers, stored SQL, panics.

### WsSession

One session, its reader and one goroutine per request. `query` stands for
execute, batch, sequence and describe, `peek` for get_autocommit. `sess.mu` is a
single step where the code only touches the map, and is held across steps in
removeStream, closeAll, close_cursor and fetch_cursor, which wait for stream
mutexes under it. EvolveDatabase reads `wsConns` and the stream tables without
their mutexes; its range is modelled by the ids it has still to produce (`due`),
and an id filed meanwhile may be produced or not. (Go may also abort the program
for such an access; a process that is gone has no further states.) The TCP
connection is `wire`; a close frame or a peer that leaves take it down. A
session's deferred calls run in the code's order: it leaves `wsConns` and the
WaitGroup before it closes its streams. EvolveDatabase meets a stream in its
range (`EvolveMeet`) and then waits for its mutex (`EvolveMark`), and goes on
waiting if the stream is closed and leaves the table meanwhile. `late` is a
history variable: the streams filed when `closeAll` had come and gone. That a
random id of open_stream_assigned meets an id the client is using is left out,
and so are stored SQL, the contents of cursors and the reuse of connection
objects by the pool.

### BatchCond, Executor, BatchPromise

One request at a time, since every caller holds the stream's mutex. `req` is the
function that runs, `pos` its loop index, `results` and `errors` the steps whose
array entry is set, `entries` what a cursor has emitted, and `calls`, a history
variable, what database/sql was asked. The steps of a batch and the pieces of a
script are chosen when the loop reaches them, so that every batch over `Stmts`
and `Conds` is covered. The database succeeds or fails at every call, at every
row and at the end of the rows. A statement is what the checks can tell apart:
whether its text is known, the tokens `isWriteStatement` looks at, whether its
arguments convert, whether rows are wanted.

`BatchCond` has both `evalBatchCond`, with its early stops and its third outcome
"fail", and the meaning that HRANA_3_SPEC.md:1081-1093 gives a condition. Where a
malformed part stops the code or
not depends on the order of evaluation, so `BatchPromise` asks for no more than
this: a step runs only if its condition holds whatever the malformed parts stand
for, is skipped only if it fails whatever they stand for, and a batch is given
up at a malformed condition only. To the protocol, `is_autocommit` asks whether
the stream is outside a transaction, which is the variable `autocommit` of
`BatchPromise`; the code does not ask the driver and always answers true. So
nothing is promised of a condition that asks while a transaction is open
(`Answerable`). `Executor` maps `autocommit` to `Autocommit`: no transaction that
the earlier steps of this request opened is still open. (A transaction that an
earlier request left open makes the code wrong in the same way.) Conditions are
records over a constant set
`Conds`; `Depth` counts the levels under one, and that it is a number
(`DepthAssumption`) says that the trees are finite, as what is decoded from a
message is.

Two things the model shows plainly. A malformed condition discards the results
of the earlier steps of a batch, which have been executed, while a cursor keeps
them. And `isWriteStatement` skips line comments first and block comments after
them, once: a line comment behind a block comment hides a write. What a text is
to the database (`Does`, `WriteText`) is defined without regard to this: the verb
behind comments of either kind in any order. `ReadOnlyKept` then excepts the
texts with such a pair of comments (`Hidden`), and no others.
`describe` hands its text to `QueryContext` in either mode; whether a driver
runs it is the driver's affair.

Left out: values, columns, row counts, named arguments, the contents of stored
SQL.

### WsClient

A connection of one client. A call of database/sql is a request `<<c, 0,
"execute">>`, its n-th retry `<<c, n, "execute">>`, and a goroutine that recovers
the stream on behalf of an attempt adds the requests `"close"` and `"open"` of
it. `pending`, `ch`, `streamID`, `recovering` and `closed` are the fields of
`wsConn`; `sending` and `ret` are the progress and the result of
`sendRequestWithRetries`, `gor` that of `retrySupersededRequest`. Steps under
`c.mu` are atomic; each wait in between (for the write, the channel, the
context, another's recovery) is a place of its own. `js` chooses between
`wsConn`, where a read loop fails what is pending when the connection breaks, and
`jsWSConn`, where callbacks do it and do nothing once `Close` has been called.
The server is `websocket.go` as far as this client sees it: a table of streams,
the mark of EvolveDatabase, the refusal, which also removes the stream, and
requests that overtake each other. Its look at the mark (`ServePass`) and the run
of the statement (`ServeRun`) are two steps.

What reading the code for the model brought up, beyond what is checked:

* Retries run without the caller's context; it is the connection, or its end,
  that makes them return (`CallsReturn`).
* `Close` sets `closed` before it sends `close_stream`, which `sendRequest`
  then refuses: the request is never sent (ws_conn.go:147, 150). The server closes
  the streams of a connection that ends anyway.
* A goroutine that comes late to `recoverStream` closes a stream another one
  has just opened, and opens a third. Nothing is lost by it (`NoStreamLeak`,
  `AtMostOnce`), but a statement may be refused once more.
* A stream whose `open_stream_assigned` times out at the client stays open at
  the server until the connection ends; `NoStreamLeak` names this exception.
* The statements of a transaction are retried one by one, on a fresh stream and
  outside any transaction (tx.go:5 promises one stream).

Left out: codecs, results, transactions as such, reconnection by
database/sql's pool.

### Interval, Blacklist, StrikeLedger

The interval's `run` looks at `stopped`, lets go of the mutex (`Check`), calls
the function (`Call`) and takes the mutex again to arm the timer (`Rearm`); Stop
may come between any two of these, so that a call decided on may begin after it.
`bl.mu` covers the whole of IsBlocked, Strike and sweepExpired: one step each.
Times are relative to now: `quiet` is the time since the last strike (saturating
just beyond StrikeResetAfter) and `block` the time left of a block, -1 once
`blockedUntil` lies before now. A strike beyond `MaxStrikes` changes nothing any
more because the block is MaxBlock by then (`StrikeBoundAssumption`). A
connection comes from one of the addresses `From` allows it, is admitted, may
dawdle in its handshake, becomes a session and ends, with a strike if it was
short and made no authenticated request. `last` is a history variable. OnBlock,
logging and `Retry-After` are left out.

## Runs

| Run | Instance | Shows |
|---|---|---|
| `http_any_clients` | 2 requests, 2 steps, TTL 1, shutdown, any client | no leak but of what is filed after Close, exclusion, rotation retires the old baton, no query is cut; requests are answered, abandoned streams closed, Close gets through |
| `http_serial` | 3 serial prompt requests | one live baton per stream, delivered batons work, `StreamLease` is implemented |
| `ws_any_client` | 3 requests of all types, 1 id, 2 serial evolutions, Close | exclusion, lock order, supersession, nothing in flight at cancel |
| `ws_sequential` | 3 requests, 1 id, 1 evolution, one request at a time per id | no leak but of what is filed after closeAll, only superseded streams removed behind the client's back, liveness |
| `blacklist` | 3 addresses, room for 2, 2 connections | `StrikeLedger` is implemented, blocks kept, LRU protects, Stop is final; blocks end, decayed entries leave |
| `executor` | up to 3 steps, 8 statements, 32 conditions, 1 row | `BatchPromise` is implemented, cursors decode, answers match calls, readonly mode |
| `ws_client` | 2 calls, 2 retries, 3 evolutions, cancellation, both clients | one answer each, at most one execution, no stream leak, calls return |
| `http_shutdown_doc` | 2 requests | *violated*: Close awaits in-flight HTTP queries or releases their streams (hrana.go:230-233) |
| `ws_order_doc` | 2 requests | *violated*: open_stream, then execute, processed in order (HRANA_3_SPEC.md:575-580) |
| `ws_close_doc` | 1 request | *violated*: Close ends every session and returns (hrana.go:230-233) |
| `ws_streams_doc` | 1 request | *violated*: all streams are closed when the connection closes (readme.md:374) |
| `executor_readonly_doc` | as `executor`, the 5 statements without hidden verbs or transactions | *violated*: a readonly server rejects any write before it reaches the database (hrana.go:22-24) |

Distinct states: `http_any_clients` 52,231, `http_serial` 211,430, `ws_any_client`
3.5 million with symmetry, `ws_sequential` 38,930, `blacklist` 348,176,
`executor` 1,069,773, `ws_client` 442,524.

Why the bounds are enough. Two HTTP requests are needed to share a stream: the
second carries the first one's baton, again after it has rotated, or opens a
stream of its own beside the sweep and Close. A third, which carries a baton
issued meanwhile, takes part in `http_serial`, and the theorems are about any
number. One stream request per body already puts a wait before, during and after
a query (bodies of length 0 occur too); two let a close come between queries.
TTL 1 lets an entry be fresh, at the limit and overdue. One stream id makes
every pair of requests collide; two evolutions make a stream old twice. Three
addresses with room for two is the smallest list where a lookup decides who is
evicted; the second connection always comes from the first address, so that two
sessions of one address overlap; blocks that grow from one tick to three against
a quiet period of one tick keep the order of the defaults, where MaxBlock
exceeds StrikeResetAfter, so that decay can meet an active block. Three steps
let a condition name a step that succeeded, failed, was skipped, has not been
reached or does not exist; conditions nest two deep, with malformed parts before
and after well-formed ones. A text has comments in both orders, so that a write
is found, found behind comments, or hidden; one statement opens a transaction
and one ends it, so that `is_autocommit` is asked inside, outside and after one.
Two calls of the client are needed for a late retry of a cancelled call to meet
the next one, two retries for a recovery to fail after another succeeded, three
evolutions for a stream to be superseded while it replaces another; `MCExpiring`
lets the caller's context and the 5 s of a recovery expire.

All runs but those of the executor switch off the deadlock check: requests run
once, and every behaviour of the bounded models ends in a state with nothing left
to do; that nothing waits for ever is what the liveness properties check.

The runs a reader should look at first are `ws_close_doc`, in which Close waits
for a session it did not tell, `ws_streams_doc` and `http_shutdown_doc`, in which
a connection stays pinned for ever, and `executor_readonly_doc`, in which a
cursor writes.

## Fairness

Go's mutexes hand over to a waiter that has waited for a millisecond, so a
goroutine that waits for a mutex which is free again and again gets it: strong
fairness for the steps that take one (per request, for the sweep, for
EvolveDatabase, for Close). Queries end, timers fire, time passes and goroutines
run: weak fairness, or part of the same conjunct. Nothing is assumed of clients:
they need not send, come back or close; peers may stay idle for ever. The reader
loop is fair only once its connection is down, because a read returns then.

For the client it is enough that its goroutines do not all stop while one of
them can go on, and that a server whose connection is up answers, which is what
`WsSession` checks of it: one weak fairness condition (`Progress`). The owner
need not call anything, contexts need not expire, and connections need not
break. For the blacklist, time passes, and the timer, `run` and the sweep go on
while one of them can (one weak fairness condition).

## Proofs

The theorems of seven modules hold for every value of the constants; the
eighth, `InductionFacts`, serves them. The assumptions are the named ASSUMEs of
the models: `None` is no request, TTL is positive, bounds are natural numbers,
the names of requests are distinct from `None`, condition trees are finite, the
addresses are a finite set. What is assumed of clients, if anything, is in the
statement of the theorem. Every invariant and every action property that a
passing run checks, and the three refinements, are stated by a theorem.

`HttpPipeline_proofs`: type correctness, `NoOrphan`, `ExclusiveQueries`,
`RotationRetiresOldBaton` and `CloseNeverCutsQuery`, for clients of any kind.
Rotating a baton deletes the entry of the old one: this orphans nothing only if
that entry is still the handler's own stream. `IInv` adds what makes it so: an
entry always stands for the stream of the request that put it there
(`EntryInv`), a request that came with a baton works on that baton's stream, and
a request puts once (`OldInv`); a v1 stream is nobody else's (`PrivateInv`); the
mutex of a stream is held exactly while its holder executes (`LockInv`); and the
places of a request agree with its kind (`PlaceInv`, `UseInv`).
`RequestKeepsIInv` has one step per action of a request; the sweep and
Server.Close share `EvictKeepsIInv` (an entry and its stream go together) and
`FrameKeepsIInv` (nothing of interest changes).

`HttpSerial_proofs`: `OneBatonPerStream` for clients with `SerialClients`; with
`PromptRequests` and a server that is not shut down (`PromptClients`), also
`DeliveredBatonsWork` and `LeaseSpec`. The requests on a stream form a chain, in
which each came with the baton of the one before, and a chain has one end
(`ChainInv`). Whoever is in flight is at the end of its chain; its entry is not
overdue (`PromptInv`), so the sweep leaves its stream alone (`WorkInv`).
`LeaseShape` says what the refinement mapping makes of each stream; then each
action of a request is one step of `StreamLease` (`CreateGrants`,
`ResolveRedeems`, `AnswerParks`, `CloseReleases`) or a stutter, and a step of
the sweep expires a parked stream (`SweepExpires`).

`WsSession_proofs`: type correctness, `ExclusiveQueries`, `LockOrder`,
`NoQueryAfterCancel` and `CloseNeverCutsQuery` for any client;
`SupersededIsOlder` if calls of EvolveDatabase do not overlap (`SerialEvolve`);
`NoOrphan` and `OnlySupersededRemoved` for a client with one request at a time
per stream id (`SequentialClient`). A stream that closes under an EvolveDatabase
waiting for it is still marked: what `SupersededIsOlder` says holds of closed
streams, too. Each mutex is held exactly while its holder
is at certain places (`MutexInv`); a stream is in the table only after its
opener has returned (`LifeInv`), so that what is marked is older than the new
database (`GenInv`); a sequential client keeps an id to itself between the check
that it is free and the filing of the stream (`IdInv`).

`Executor_proofs`: type correctness, `CallsMatchAnswer` and `ReadOnlyKept`, for
any statements, conditions and lengths. The arrays and the calls are tied to the
loop index (`PlaceInv`, `AnswerInv`, `CallInv`), and a statement that got past
the checks of a readonly stream is no write or a hidden one (`WriteInv`; the
lemmas about `SkipTokens` show that `isWriteStatement` finds the verb behind any
number of comments, unless a line comment follows a block comment).

`Batch_proofs`, on top of it: `ConditionsSound`, `CursorGrammar`,
`BatchPromised` and `WritesFound`. That `evalBatchCond` never contradicts the
meaning of a condition, outside a transaction or if the condition does not ask
for one, although its loops stop early and a malformed part ends them, goes by
induction over the tree: `EvaluationDef` and `TruthDef` show that code and
meaning are the functions their recursive definitions describe
(`CondRecursion`), `AgreeStep` is the step from the conditions below to the one
above (`CondInduction`). `BatchInv` says what a state of a loop owes: the
entries of a cursor agree with the two arrays and with the step that is open
(`Consistent`, in `EntryInv`), a cursor that goes on has not been given up, and
a step that is being executed had a condition that was true when the loop
reached it (`CondInv`; the steps behind it do not change since). Each kind of
entry is put at the end of a decodable sequence by a lemma of its own
(`BeginFits`, `RowFits`, `EndFits`, `ErrorFits`), and each action then is one
step of `BatchPromise` (`DecideStep`, `RunStep`, `SkipStep`) or a stutter.
`BatchInv` was checked by TLC over the instance of the run `executor` first.
`WritesFound` is the fact that `ReadOnlyKept` rests on, in both directions:
`isWriteStatement` refuses the write texts that are not hidden, and nothing
else. A condition that does not ask means the same inside and outside a
transaction (`SameMeaning`).

`WsClient_proofs`: type correctness, `OneAnswer`, `AtMostOnce` and
`NoStreamLeak`, for any number of calls, retries and evolutions. The attempts of
a call form a chain: one is sent only by the goroutine of the attempt before it,
after its refusal (`ChainInv`), so that while an attempt may still run, none has
(`RunInv`). A request enters `pending` once and its answer is in one place at a
time (`KeyInv`, `WaitInv`, `RecoverInv`); a recovery closes the stream that is
current, and only the recovering goroutine changes it (`StreamInv`). `PhaseInv`
ties this to connection setup and Close.

`Blacklist_proofs`: type correctness, `BlockKept`, `RecentlyUsedKept`,
`StopIsFinal` and `LedgerSpec`, for any finite set of addresses, any
connections and any configuration. The list is a sequence without repetitions,
with what was used last in front (`ListInv`); `WithoutFacts` shows by induction
over the list that removing entries keeps the order of the others, so that
`ToFront` moves one address and no other, and eviction hits the last. A block
is never longer than the one the strikes of its address call for (`EntryInv`),
and `DurationGrows` shows that more strikes call for no shorter one: hence a
strike prolongs a block unless the strikes have decayed (`StrikeProlongs`). For
the refinement `LineOf` maps an entry that has decayed and one that is not on
the list to the same blank line, which makes the sweep a stutter
(`SweepRefines`); a strike, with its eviction, is one step of the ledger
(`StrikeRefines`), and the two definitions of a duration, by a power and by
repeated multiplication with a cap, agree (`DurationIsLedgers`).

`InductionFacts` derives induction over the natural numbers (`NatSetInduction`)
from the well-foundedness of strict inclusion among finite sets
(`FiniteSetTheorems`), with a set in the place of the usual predicate, which the
provers cannot instantiate, and the existence of the functions that a recursive
definition over numbers or over finite trees describes (`RecursionOnNat`,
`RecursionOnHeight`).

Two definitions changed because they could not be reasoned about. The
conditions of a CASE in `evalBatchCond`'s model and in the executor's verdict
overlapped, which TLC resolves by order and the language leaves open; they are
IFs now. And the recursive operators over condition trees and over block
durations became recursive functions.

Only model-checked is liveness: `RequestsFinish`, `StreamsEventuallyClosed`,
`ShutdownCompletes`, `EvolveReturns`, `CloseReturnsIfRegistered`, `SessionEnds`,
`BlockedEventuallyFree`, `DecayedEventuallyForgotten` and `CallsReturn`. They need
fairness, hence ENABLED, which is outside the prover. The runs whose violation is
expected (`*_doc`) are counterexamples, which TLC finds and nothing has to prove.

## Not modelled

* The Go HTTP client (`conn.go`): one baton and no goroutine. It never returns
  `driver.ErrBadConn`, so the pool keeps a connection whose baton is dead after
  a lost answer; no document promises otherwise (listed as a hazard).
* The TypeScript and Python clients: programs of their own, in other languages,
  that speak the same protocol; the race of the TypeScript query cache with an
  invalidation is listed as a hazard.
* `store_sql` and `close_sql` in a session, positions within a cursor: the code
  changes both without the mutex its readers should hold (hazards at
  websocket.go:538 and 699). What two overlapping accesses do is undefined in Go,
  and no document promises anything to a client that makes them.
* Codecs and wire types, CORS, the `database/sql` adapters of the Go client, the
  load generator, the demo page: no control of their own.
* OnBlock of the blacklist, logging, `Retry-After`: notifications.
