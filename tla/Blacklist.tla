----------------------------- MODULE Blacklist -----------------------------
(***************************************************************************)
(* The in-memory blacklist of blacklist.go: an LRU list of entries bounded *)
(* by MaxTrackedAddrs, with the background sweep (Interval), driven by the *)
(* WebSocket sessions whose sudden ends are the strikes (websocket.go).    *)
(*                                                                         *)
(* bl.mu is held for the whole of IsBlocked, Strike and sweepExpired, so   *)
(* each is one step.  Times are kept relative to now: quiet is now minus   *)
(* lastStrike, block is blockedUntil minus now.                            *)
(***************************************************************************)
EXTENDS Interval, Integers, Sequences, FiniteSets

CONSTANTS
    Addrs,                  \* remote IPs
    Conns,                  \* WebSocket connections; each may be used again
    From,                   \* bound: the addresses each of them may come from
    None,                   \* no address
    FreeStrikes, InstantErrorThreshold, InitialBlock, Multiplier, MaxBlock,
    StrikeResetAfter, MaxTrackedAddrs,      \* BlacklistConfig, in ticks
    MaxStrikes              \* bound: more strikes than these change nothing

VARIABLES
    order,      \* bl.order, front first; bl.entries is its index
    strikes, quiet, block,      \* the entry of each address on the list
    stage,      \* of each connection: none, admitted, in session
    peer,       \* the address it comes from
    elapsed,    \* since sessionStart, saturating at InstantErrorThreshold
    last        \* the address looked up or struck last (history)

entryVars == <<strikes, quiet, block>>
sessVars == <<stage, peer, elapsed>>
vars == <<order, entryVars, sessVars, intervalVars, last>>

Tracked == {order[i] : i \in DOMAIN order}

\* math.Pow(Multiplier, n)
Power[n \in Nat] == IF n = 0 THEN 1 ELSE Multiplier * Power[n - 1]

\* scaledDuration: InitialBlock * Multiplier ^ exp, at most MaxBlock.
scaledDuration(exp) ==
    LET scaled == InitialBlock * Power[exp]
    IN  IF scaled > MaxBlock THEN MaxBlock ELSE scaled

ASSUME ConfigAssumption ==
    /\ {FreeStrikes, InitialBlock, Multiplier} \subseteq Nat \ {0}
    /\ {InstantErrorThreshold, MaxBlock} \subseteq Nat \ {0}
    /\ {StrikeResetAfter, MaxTrackedAddrs} \subseteq Nat \ {0}
    /\ IsFiniteSet(Addrs)
    /\ None \notin Addrs
    /\ From \in [Conns -> SUBSET Addrs]
ASSUME StrikeBoundAssumption ==
    /\ MaxStrikes \in Nat
    /\ MaxStrikes > FreeStrikes
    /\ scaledDuration(MaxStrikes - FreeStrikes - 1) = MaxBlock

TypeOK ==
    /\ IntervalTypeOK
    /\ order \in Seq(Addrs)
    /\ Len(order) <= MaxTrackedAddrs
    /\ Len(order) = Cardinality(Tracked)
    /\ strikes \in [Addrs -> 0..MaxStrikes]
    /\ quiet \in [Addrs -> 0..(StrikeResetAfter + 1)]
    /\ block \in [Addrs -> -1..MaxBlock]
    /\ \A a \in Addrs : a \in Tracked <=> strikes[a] > 0
    /\ stage \in [Conns -> {"none", "admitted", "session"}]
    /\ peer \in [Conns -> Addrs \cup {None}]
    /\ elapsed \in [Conns -> 0..InstantErrorThreshold]
    /\ last \in Addrs \cup {None}

Init ==
    /\ IntervalInit
    /\ order = <<>>
    /\ strikes = [a \in Addrs |-> 0]
    /\ quiet = [a \in Addrs |-> 0]
    /\ block = [a \in Addrs |-> -1]
    /\ stage = [c \in Conns |-> "none"]
    /\ peer = [c \in Conns |-> None]
    /\ elapsed = [c \in Conns |-> 0]
    /\ last = None

-----------------------------------------------------------------------------
(* The LRU list *)

\* order.Remove of every entry in S
Without(list, S) ==
    LET kept[n \in 0..Len(list)] ==
          IF n = 0 THEN <<>>
          ELSE IF list[n] \in S THEN kept[n - 1]
          ELSE Append(kept[n - 1], list[n])
    IN  kept[Len(list)]

\* order.MoveToFront, order.PushFront
ToFront(a) == <<a>> \o Without(order, {a})

\* Fault: the list is read without counting as a use.
TouchNothing(a) ==
    /\ last' = a
    /\ order' = order

\* A lookup of an address on the list is a use of its entry.
Touch(a) ==
    /\ last' = a
    /\ order' = IF a \in Tracked THEN ToFront(a) ELSE order

Blocked(a) == a \in Tracked /\ block[a] > 0

\* The entries of addresses in S are gone.
Forget(S, f, blank) == [a \in Addrs |-> IF a \in S THEN blank ELSE f[a]]

-----------------------------------------------------------------------------
(* IsBlocked *)

\* An HTTP request from a: answered 429 or served, its end is no strike.
HttpLookup(a) ==
    /\ Touch(a)
    /\ UNCHANGED <<entryVars, sessVars, intervalVars>>

\* Fault: the answer of IsBlocked is not looked at.
AdmitAnyway(c, a) ==
    /\ stage[c] = "none"
    /\ Touch(a)
    /\ stage' = [stage EXCEPT ![c] = "admitted"]
    /\ peer' = [peer EXCEPT ![c] = a]
    /\ UNCHANGED <<entryVars, elapsed, intervalVars>>

\* A connection from a is let in; the handshake, for which the code sets no
\* deadline, is still to come.  (A refusal changes no more than HttpLookup.)
Admit(c, a) ==
    /\ stage[c] = "none"
    /\ ~Blocked(a)
    /\ Touch(a)
    /\ stage' = [stage EXCEPT ![c] = "admitted"]
    /\ peer' = [peer EXCEPT ![c] = a]
    /\ UNCHANGED <<entryVars, elapsed, intervalVars>>

\* The handshake fails: there is no session to be struck for.
HandshakeFails(c) ==
    /\ stage[c] = "admitted"
    /\ stage' = [stage EXCEPT ![c] = "none"]
    /\ peer' = [peer EXCEPT ![c] = None]
    /\ UNCHANGED <<order, entryVars, elapsed, intervalVars, last>>

SessionStart(c) ==
    /\ stage[c] = "admitted"
    /\ stage' = [stage EXCEPT ![c] = "session"]
    /\ elapsed' = [elapsed EXCEPT ![c] = 0]
    /\ UNCHANGED <<order, entryVars, peer, intervalVars, last>>

-----------------------------------------------------------------------------
(* Strike *)

\* Whom getOrCreateLocked evicts to file a.
Evicted(a) ==
    IF a \notin Tracked /\ Len(order) = MaxTrackedAddrs
    THEN {order[Len(order)]} ELSE {}

\* The strikes of a before this one, after decay.
Decayed(a) == strikes[a] > 0 /\ quiet[a] > StrikeResetAfter

\* Fault: strikes never decay.
NthStrikeNoDecay(a) ==
    IF strikes[a] = MaxStrikes THEN MaxStrikes ELSE strikes[a] + 1

\* The number of this strike of a.
NthStrike(a) ==
    IF Decayed(a) THEN 1
    ELSE IF strikes[a] = MaxStrikes THEN MaxStrikes ELSE strikes[a] + 1

BlockAfter(a, n) ==
    IF n > FreeStrikes THEN scaledDuration(n - FreeStrikes - 1)
    ELSE IF Decayed(a) THEN -1 ELSE block[a]

\* Fault: the new entry is pushed, the oldest stays.
StrikeWithoutEviction(a) ==
    LET n == NthStrike(a)
    IN  /\ last' = a
        /\ order' = ToFront(a)
        /\ strikes' = [strikes EXCEPT ![a] = n]
        /\ quiet' = [quiet EXCEPT ![a] = 0]
        /\ block' = [block EXCEPT ![a] = BlockAfter(a, n)]

\* Strike(addr): decay, count, block; a new entry may evict the oldest.
Strike(a) ==
    LET n == NthStrike(a)
        out == Evicted(a)
    IN  /\ last' = a
        /\ order' = Without(ToFront(a), out)
        /\ strikes' = [Forget(out, strikes, 0) EXCEPT ![a] = n]
        /\ quiet' = [Forget(out, quiet, 0) EXCEPT ![a] = 0]
        /\ block' = [Forget(out, block, -1) EXCEPT ![a] = BlockAfter(a, n)]

\* The deferred call of runWSSession; used is authed /\ madeRequest.
SessionEnd(c, used) ==
    /\ stage[c] = "session"
    /\ stage' = [stage EXCEPT ![c] = "none"]
    /\ peer' = [peer EXCEPT ![c] = None]
    /\ elapsed' = [elapsed EXCEPT ![c] = 0]
    /\ IF elapsed[c] < InstantErrorThreshold /\ ~used
       THEN Strike(peer[c])
       ELSE UNCHANGED <<order, entryVars, last>>
    /\ UNCHANGED intervalVars

-----------------------------------------------------------------------------
(* The sweep, time and Close *)

\* Fault: an entry that is still blocked is swept.
SweptIfQuiet == {a \in Tracked : quiet[a] > StrikeResetAfter}

Swept == {a \in Tracked : quiet[a] > StrikeResetAfter /\ block[a] < 0}

sweepExpired ==
    /\ Call
    /\ order' = Without(order, Swept)
    /\ strikes' = Forget(Swept, strikes, 0)
    /\ quiet' = Forget(Swept, quiet, 0)
    /\ block' = Forget(Swept, block, -1)
    /\ UNCHANGED <<sessVars, last>>

SweepTimer ==
    /\ Fire \/ Check \/ Rearm
    /\ UNCHANGED <<order, entryVars, sessVars, last>>

\* Only the entries on the list have times to compare with now.
Tick ==
    /\ quiet' = [a \in Addrs |->
            IF a \in Tracked /\ quiet[a] <= StrikeResetAfter
            THEN quiet[a] + 1 ELSE quiet[a]]
    /\ block' = [a \in Addrs |->
            IF block[a] >= 0 THEN block[a] - 1 ELSE block[a]]
    /\ elapsed' = [c \in Conns |->
            IF stage[c] = "session" /\ elapsed[c] < InstantErrorThreshold
            THEN elapsed[c] + 1 ELSE elapsed[c]]
    /\ UNCHANGED <<order, strikes, stage, peer, intervalVars, last>>

Close ==
    /\ Stop
    /\ UNCHANGED <<order, entryVars, sessVars, last>>

-----------------------------------------------------------------------------
Next ==
    \/ \E a \in Addrs : HttpLookup(a)
    \/ \E c \in Conns :
          \/ \E a \in From[c] : Admit(c, a)
          \/ HandshakeFails(c)
          \/ SessionStart(c)
          \/ \E used \in BOOLEAN : SessionEnd(c, used)
    \/ sweepExpired
    \/ SweepTimer
    \/ Tick
    \/ Close

Spec == Init /\ [][Next]_vars

\* Time passes, and the runtime runs the timer and the goroutine it starts.
Fairness ==
    /\ WF_vars(Tick)
    /\ WF_vars(SweepTimer \/ sweepExpired)

FairSpec == Spec /\ Fairness

-----------------------------------------------------------------------------
(* Properties *)

\* What a strike or a lookup finds of a.
LineOf(a) ==
    IF quiet[a] > StrikeResetAfter /\ block[a] < 0
    THEN [strikes |-> 0, quiet |-> 0, block |-> -1]
    ELSE [strikes |-> strikes[a], quiet |-> quiet[a], block |-> block[a]]

\* The list implements the ledger: lookups, reordering and the sweep never
\* change what a strike or a lookup will find, and only the eviction for a
\* newcomer forgets (blacklist.go:175-241).
Ledger ==
    INSTANCE StrikeLedger WITH ledger <- [a \in Addrs |-> LineOf(a)]

LedgerSpec == Ledger!Spec

\* Time apart, a block gets shorter only when its address is the least
\* recently used of a full list, or when a session that was let in before
\* the block strikes after the quiet period: with the defaults a block
\* (15m) may outlast StrikeResetAfter (10m), and the decay lifts it.
BlockKept ==
    [][\A a \in Addrs :
          block[a] > 0 /\ block'[a] < block[a] =>
             \/ Tick
             \/ a \notin Tracked' /\ a = order[Len(order)]
                  /\ Len(order) = MaxTrackedAddrs
             \/ quiet[a] > StrikeResetAfter /\ strikes'[a] = 1]_vars

\* A lookup or a strike protects an address from the next eviction: what
\* was used last is not what a newcomer replaces, as long as the list has
\* room for two (blacklist.go:151-161, 203-221).
RecentlyUsedKept ==
    [][MaxTrackedAddrs > 1 /\ last \in Tracked /\ last \notin Tracked'
          => quiet[last] > StrikeResetAfter]_vars

\* A blocked address goes free: only sessions that were let in before the
\* block can strike again, refused attempts cannot prolong it.
BlockedEventuallyFree ==
    \A a \in Addrs : block[a] > 0 ~> block[a] <= 0

\* While the blacklist is open, an entry that has decayed does not stay
\* until the list is full (blacklist.go:223-225).
DecayedEventuallyForgotten ==
    \A a \in Addrs :
        strikes[a] > 0 ~> quiet[a] = 0 \/ stopped

\* Stop ends the interval whatever the timer and run were doing: from then on
\* run decides on no call and the timer is not armed again.  The one exception
\* is a call run had decided on when Stop came: interval_func.go:49 says Stop
\* "prevents further calls to the function f", but f may yet begin, because
\* run lets go of the mutex (line 28) before it calls f (line 32).
StopIsFinal ==
    [][stopped =>
          /\ phase' # "armed"
          /\ phase' = "checked" => phase = "checked"]_vars

=============================================================================
