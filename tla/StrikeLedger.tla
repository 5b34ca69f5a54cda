---------------------------- MODULE StrikeLedger ----------------------------
(***************************************************************************)
(* What BlacklistConfig promises (blacklist.go:9-111), without a store: a  *)
(* ledger with one line per remote address that knows how many strikes it  *)
(* has, for how long it has been quiet and how much of its block is left.  *)
(* Only strikes and the passing of time change a line; an address that has *)
(* been quiet long enough, and is not blocked, starts from nothing.  When  *)
(* not all addresses can be tracked, the first strike of one address may   *)
(* cost another its line.                                                  *)
(***************************************************************************)
EXTENDS Integers, FiniteSets

CONSTANTS Addrs, FreeStrikes, InitialBlock, Multiplier, MaxBlock,
          StrikeResetAfter, MaxTrackedAddrs, MaxStrikes

VARIABLE ledger

Blank == [strikes |-> 0, quiet |-> 0, block |-> -1]

\* Strikes of a quiet address that is not blocked count for nothing.
Settle(line) ==
    IF line.quiet > StrikeResetAfter /\ line.block < 0 THEN Blank ELSE line

\* One tick; a blank line has nothing to count.
Older(line) ==
    IF line.strikes = 0 THEN line
    ELSE [line EXCEPT
            !.quiet = IF @ > StrikeResetAfter THEN @ ELSE @ + 1,
            !.block = IF @ < 0 THEN @ ELSE @ - 1]

\* The first block, and each block n strikes later: Multiplier times the one
\* before, never more than MaxBlock.
BlockDuration[n \in Nat] ==
    LET d == IF n = 0 THEN InitialBlock ELSE Multiplier * BlockDuration[n - 1]
    IN  IF d > MaxBlock THEN MaxBlock ELSE d

\* The block of an address with n strikes, -1 when it goes free.
BlockFor(n) ==
    IF n <= FreeStrikes THEN -1 ELSE BlockDuration[n - FreeStrikes - 1]

Struck(line) ==
    LET n == IF line.quiet > StrikeResetAfter THEN 1
             ELSE IF line.strikes = MaxStrikes THEN MaxStrikes
             ELSE line.strikes + 1
    IN  [strikes |-> n, quiet |-> 0, block |-> BlockFor(n)]

Init == ledger = [a \in Addrs |-> Blank]

Tick == ledger' = [a \in Addrs |-> Settle(Older(ledger[a]))]

Strike(a) == ledger' = [ledger EXCEPT ![a] = Struck(ledger[a])]

\* The store is full: another address is forgotten to make room.
StrikeAndForget(a, b) ==
    /\ MaxTrackedAddrs < Cardinality(Addrs)
    /\ a # b /\ ledger[a] = Blank
    /\ ledger' = [ledger EXCEPT ![a] = Struck(Blank), ![b] = Blank]

Next ==
    \/ Tick
    \/ \E a \in Addrs : Strike(a)
    \/ \E a, b \in Addrs : StrikeAndForget(a, b)

Spec == Init /\ [][Next]_ledger

=============================================================================
