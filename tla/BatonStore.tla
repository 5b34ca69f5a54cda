----------------------------- MODULE BatonStore -----------------------------
(***************************************************************************)
(* The baton store of baton.go together with the streams it keeps          *)
(* (stream.go): a map from baton to stream guarded by one mutex, the       *)
(* background sweep that evicts idle entries, and the store's Close.       *)
(*                                                                         *)
(* A stream and a baton are both named after the HTTP request that created *)
(* them: request r opens at most one stream and generates at most one      *)
(* baton, and batons are 32 random bytes, so names never collide.          *)
(*                                                                         *)
(* Put, Get and Delete hold bs.mu for a few map operations and are single  *)
(* steps.  sweep and Close hold bs.mu while they wait for the mutex of     *)
(* every stream they close, so for them the mutex is held across steps.    *)
(* Stream.Close needs stream.mu only for an instant: it is one step that   *)
(* waits until no request holds stream.mu.                                 *)
(***************************************************************************)
EXTENDS Naturals, FiniteSets

CONSTANTS
    Requests,   \* HTTP requests; also the names of streams and batons
    None,       \* no request, no stream, no baton
    TTL         \* bs.ttl, in ticks

ASSUME NoneAssumption == None \notin Requests
ASSUME TTLAssumption == TTL \in Nat \ {0}

VARIABLES
    conn,       \* life of each stream's pinned sql.Conn
    holder,     \* which request holds each stream's mu
    entries,    \* bs.entries: baton -> stream, None when the key is absent
    age,        \* ticks since lastSeen of an entry, saturating at TTL + 1
    mu,         \* bs.mu: "free", or the long-term holder "sweeper" / "closer"
    sweeper,    \* progress of one call of the interval function
    overdue,    \* batons whose lastSeen is before the sweep's deadline
    stopped     \* sweepInterval.stopped

storeVars == <<conn, holder, entries, age, mu, sweeper, overdue, stopped>>

Live == {b \in Requests : entries[b] # None}

StoreTypeOK ==
    /\ conn \in [Requests -> {"none", "open", "closed"}]
    /\ holder \in [Requests -> Requests \cup {None}]
    /\ entries \in [Requests -> Requests \cup {None}]
    /\ age \in [Requests -> 0..(TTL + 1)]
    /\ mu \in {"free", "sweeper", "closer"}
    /\ sweeper \in {"timer", "called", "waiting", "sweeping"}
    /\ overdue \in SUBSET Requests
    /\ stopped \in BOOLEAN

StoreInit ==
    /\ conn = [s \in Requests |-> "none"]
    /\ holder = [s \in Requests |-> None]
    /\ entries = [b \in Requests |-> None]
    /\ age = [b \in Requests |-> 0]
    /\ mu = "free"
    /\ sweeper = "timer"
    /\ overdue = {}
    /\ stopped = FALSE

-----------------------------------------------------------------------------
(* Streams *)

\* Server.OpenStream: a connection of its own for a new stream.
OpenStream(s) ==
    /\ conn[s] = "none"
    /\ conn' = [conn EXCEPT ![s] = "open"]

\* Fault: Close without stream.mu.
CloseStreamUnlocked(s) == conn' = [conn EXCEPT ![s] = "closed"]

\* Stream.Close: waits for the stream's mutex; closing twice is harmless.
CloseStream(s) ==
    /\ holder[s] = None
    /\ conn' = [conn EXCEPT ![s] = "closed"]

\* Fault: the mutex is taken over from its holder.
StealStream(s, r) == holder' = [holder EXCEPT ![s] = r]

LockStream(s, r) ==
    /\ holder[s] = None
    /\ holder' = [holder EXCEPT ![s] = r]

\* Fault: a return path without Unlock.
KeepStreamLocked(s) == holder' = [holder EXCEPT ![s] = @]

UnlockStream(s) == holder' = [holder EXCEPT ![s] = None]

-----------------------------------------------------------------------------
(* Operations of the store *)

\* Fault: the old baton stays valid.
PutKeepsOldBaton(r, s, oldBaton) ==
    /\ mu = "free"
    /\ entries' = [entries EXCEPT ![r] = s]
    /\ age' = [age EXCEPT ![r] = 0]
    /\ overdue' = overdue

\* Put(stream, oldBaton): the old key goes, the stream is filed under r.
Put(r, s, oldBaton) ==
    /\ mu = "free"
    /\ entries' = [b \in Requests |-> IF b = r THEN s
                                      ELSE IF b = oldBaton THEN None
                                      ELSE entries[b]]
    /\ age' = [age EXCEPT ![r] = 0]
    /\ overdue' = overdue

\* Fault: lastSeen is not refreshed.
GetWithoutRefresh(b) ==
    /\ mu = "free"
    /\ entries[b] # None
    /\ UNCHANGED <<age, overdue, entries>>

\* Get(baton) of a baton that is present: the entry stays, lastSeen is now,
\* so no deadline taken before this moment applies to it any more.
GetRefresh(b) ==
    /\ mu = "free"
    /\ entries[b] # None
    /\ age' = [age EXCEPT ![b] = 0]
    /\ overdue' = overdue \ {b}
    /\ UNCHANGED entries

\* Get(baton) of a baton that is not there returns (nil, nil).
GetMiss(b) ==
    /\ mu = "free"
    /\ entries[b] = None

Delete(b) ==
    /\ mu = "free"
    /\ entries' = [entries EXCEPT ![b] = None]

-----------------------------------------------------------------------------
(* Time and the background sweep *)

\* One tick of the clock for every entry.
Elapse ==
    /\ age' = [b \in Requests |-> IF entries[b] # None /\ age[b] <= TTL
                                  THEN age[b] + 1 ELSE age[b]]
    /\ UNCHANGED <<conn, holder, entries, mu, sweeper, overdue, stopped>>

\* The interval's timer fires: run() sees ~stopped, drops the interval's
\* mutex and is about to call sweep.
SweepFire ==
    /\ sweeper = "timer"
    /\ ~stopped
    /\ sweeper' = "called"
    /\ UNCHANGED <<conn, holder, entries, age, mu, overdue, stopped>>

\* Fault: off by one, nothing is ever older than the deadline.
SweepDeadlineTooOld ==
    /\ sweeper = "called"
    /\ sweeper' = "waiting"
    /\ overdue' = {b \in Live : age[b] > TTL + 1}
    /\ UNCHANGED <<conn, holder, entries, age, mu, stopped>>

\* sweep computes its deadline BEFORE it asks for bs.mu.
SweepDeadline ==
    /\ sweeper = "called"
    /\ sweeper' = "waiting"
    /\ overdue' = {b \in Live : age[b] > TTL}
    /\ UNCHANGED <<conn, holder, entries, age, mu, stopped>>

SweepLock ==
    /\ sweeper = "waiting"
    /\ mu = "free"
    /\ mu' = "sweeper"
    /\ sweeper' = "sweeping"
    /\ UNCHANGED <<conn, holder, entries, age, overdue, stopped>>

\* Fault: the key is removed and the stream forgotten.
SweepEntryForgetsStream(b) ==
    /\ sweeper = "sweeping"
    /\ b \in overdue \cap Live
    /\ entries' = [entries EXCEPT ![b] = None]
    /\ UNCHANGED <<conn, holder, age, mu, sweeper, overdue, stopped>>

\* Fault: the stream is closed and the key left behind.
SweepEntryKeepsKey(b) ==
    /\ sweeper = "sweeping"
    /\ b \in overdue \cap Live
    /\ CloseStream(entries[b])
    /\ overdue' = overdue \ {b}
    /\ UNCHANGED <<holder, entries, age, mu, sweeper, stopped>>

\* One overdue entry: its stream is closed (which may have to wait for the
\* request that is using it) and its key is removed.
SweepEntry(b) ==
    /\ sweeper = "sweeping"
    /\ b \in overdue \cap Live
    /\ CloseStream(entries[b])
    /\ entries' = [entries EXCEPT ![b] = None]
    /\ UNCHANGED <<holder, age, mu, sweeper, overdue, stopped>>

SweepUnlock ==
    /\ sweeper = "sweeping"
    /\ overdue \cap Live = {}
    /\ mu' = "free"
    /\ sweeper' = "timer"
    /\ overdue' = {}
    /\ UNCHANGED <<conn, holder, entries, age, stopped>>

-----------------------------------------------------------------------------
(* batonStore.Close *)

StoreCloseLock ==
    /\ mu = "free"
    /\ mu' = "closer"
    /\ stopped' = TRUE
    /\ UNCHANGED <<conn, holder, entries, age, sweeper, overdue>>

\* One iteration of the loop over the entries.  The map is replaced by an
\* empty one before bs.mu is released, so the key may go with its stream.
StoreCloseEntry(b) ==
    /\ mu = "closer"
    /\ b \in Live
    /\ CloseStream(entries[b])
    /\ entries' = [entries EXCEPT ![b] = None]
    /\ UNCHANGED <<holder, age, mu, sweeper, overdue, stopped>>

StoreCloseUnlock ==
    /\ mu = "closer"
    /\ Live = {}
    /\ mu' = "free"
    /\ UNCHANGED <<conn, holder, entries, age, sweeper, overdue, stopped>>

=============================================================================
