------------------------- MODULE HttpSerial_proofs -------------------------
(***************************************************************************)
(* Theorems about HttpPipeline for clients that keep to the protocol, any  *)
(* number of them: each awaits its answers and uses a baton once.          *)
(*                                                                         *)
(* The requests on one stream then form a chain: the one that opened it,   *)
(* the one that came with its baton, and so on.  A chain has one end       *)
(* (ChainInv), hence a stream has one baton.  If requests are prompt, and  *)
(* the server is not shut down, the sweep takes a stream only when the end *)
(* of its chain has been answered (PromptInv, WorkInv), and the handlers   *)
(* and the store implement StreamLease.                                    *)
(***************************************************************************)
EXTENDS HttpPipeline_proofs

\* No request has got hold of a stream through the baton of r.
Last(r) == \A q \in Requests : old[q] = r => use[q] = None

\* A baton is used once, after the whole answer has come; and the requests
\* on a stream follow each other.
ChainInv ==
    /\ \A p, q \in Requests : old[p] = old[q] /\ old[p] # None => p = q
    /\ \A q \in Requests : old[q] # None => pc[old[q]] = "done"
    /\ \A p, q \in Requests :
          use[p] = use[q] /\ use[p] # None /\ Last(p) /\ Last(q) => p = q

\* While a request is in flight, the entry its stream is filed under, be it
\* that of its old or of its own baton, is not overdue.
PromptInv ==
    /\ overdue \subseteq issued
    /\ \A r \in Requests : Active(r) =>
          \A b \in Live :
              b = old[r] \/ b = r => age[b] <= TTL /\ b \notin overdue
    /\ \A r \in Requests : kind[r] = "cursor" /\ pc[r] \in {"ready", "exec"} =>
          entries[r] = use[r]

\* Server.Close is never called.
OpenInv == closer = "serving" /\ mu # "closer"

\* The stream of a request in flight works until that request closes it;
\* so does the one an unused baton stands for.
WorkInv ==
    /\ \A r \in Requests :
          Active(r) /\ pc[r] # "delete" => conn[use[r]] = "open"
    /\ \A b \in Live : Last(b) => conn[entries[b]] = "open"
    /\ \A r \in Requests :
          (/\ use[r] # None /\ pc[r] \in {"delete", "done"}
           /\ kind[r] = "v1" \/ ended[r])
             => conn[use[r]] = "closed"

PromptClients == SerialClients /\ PromptRequests /\ ~MayShutdown

SerialIInv ==
    /\ IInv
    /\ ChainInv
    /\ PromptInv
    /\ OpenInv
    /\ WorkInv

-----------------------------------------------------------------------------
(* One baton per stream *)

\* A step that leaves batons and streams of requests alone keeps the chains.
LEMMA ChainFrame ==
    ASSUME ChainInv, UNCHANGED <<old, use>>,
           \A x \in Requests : pc[x] = "done" => pc'[x] = "done",
           \A x \in Requests : old[x] \in Requests \cup {None}
    PROVE  ChainInv'
BY DEF ChainInv, Last

\* Every step keeps the chains: a client extends one only at its end.
LEMMA ChainKeeps ==
    ASSUME SerialClients, IInv, ChainInv, [Next]_vars
    PROVE  ChainInv'
<1>. USE NoneAssumption DEF IInv, TypeOK, StoreTypeOK
<1>1. ASSUME NEW r \in Requests, NEW k \in Kinds,
             NEW b \in Requests \cup {None}, NEW n \in 0..MaxSteps,
             Arrive(r, k, b, n)
      PROVE  ChainInv'
  <2>1. /\ UNCHANGED <<use, issued>>
        /\ pc[r] = "new" /\ use[r] = None /\ old[r] = None
        /\ \A q \in Requests \ {r} : old'[q] = old[q] /\ pc'[q] = pc[q]
        /\ old'[r] = b
        /\ b # None => /\ b \in issued /\ pc[b] = "done"
                       /\ \A q \in Requests : old[q] # b
    BY <1>1 DEF Arrive, Presentable, Goto, UseInv, OldInv
  <2>2. \A q \in Requests : (Last(q))' => Last(q)
    BY <2>1 DEF Last
  <2>3. \A q \in Requests : old[q] # None => old[q] # r
    BY <2>1 DEF ChainInv
  <2>. QED
    BY <2>1, <2>2, <2>3 DEF ChainInv
<1>2. ASSUME NEW r \in Requests, ResolveBaton(r)
      PROVE  ChainInv'
  <2>1. /\ UNCHANGED <<old, issued>>
        /\ pc[r] = "resolve" /\ use[r] = None
        /\ old[r] \in Requests
        /\ \A q \in Requests \ {r} : use'[q] = use[q] /\ pc'[q] = pc[q]
        /\ use'[r] = use[old[r]] /\ use'[r] # None
    BY <1>2 DEF ResolveBaton, GetRefresh, Goto, UseInv, EntryInv
  <2>2. Last(old[r]) /\ old[r] # r
    BY <2>1 DEF ChainInv, Last, OldInv
  <2>3. \A q \in Requests : (Last(q))' => Last(q) /\ q # old[r]
    BY <2>1 DEF Last
  <2>4. \A q \in Requests \ {r} :
           use'[q] = use'[r] => ~(Last(q))'
    BY <2>1, <2>2, <2>3 DEF ChainInv
  <2>5. \A q \in Requests : old[q] # None => pc'[old[q]] = "done"
    BY <2>1 DEF ChainInv
  <2>. QED
    BY <2>1, <2>3, <2>4, <2>5 DEF ChainInv
<1>3. ASSUME NEW r \in Requests, CreateStream(r)
      PROVE  ChainInv'
  <2>1. /\ UNCHANGED <<old, issued>>
        /\ pc[r] = "resolve" /\ use[r] = None
        /\ \A q \in Requests \ {r} : use'[q] = use[q] /\ pc'[q] = pc[q]
        /\ use'[r] = r /\ conn[r] = "none"
    BY <1>3 DEF CreateStream, OpenStream, Goto, UseInv
  <2>2. \A q \in Requests : use[q] # r
    BY <2>1 DEF UseInv
  <2>3. \A q \in Requests : (Last(q))' => Last(q)
    BY <2>1 DEF Last
  <2>4. \A q \in Requests : old[q] # None => pc'[old[q]] = "done"
    BY <2>1 DEF ChainInv
  <2>. QED
    BY <2>1, <2>2, <2>3, <2>4 DEF ChainInv
<1>4. ASSUME NEW r \in Requests,
             \/ Reject(r) \/ BatonNotFound(r) \/ CreateFails(r) \/ FinishV1(r)
             \/ BeginStep(r) \/ (\E isClose \in BOOLEAN : EndStep(r, isClose))
             \/ RotateBaton(r) \/ ClosePipelineStream(r) \/ DeleteBaton(r)
             \/ RotateUpFront(r) \/ FirstLineFails(r) \/ EndCursor(r)
      PROVE  ChainInv'
  <2>1. UNCHANGED <<old, use>>
    BY <1>4 DEF Reject, BatonNotFound, CreateFails, FinishV1, BeginStep,
       EndStep, RotateBaton, ClosePipelineStream, DeleteBaton, RotateUpFront,
       FirstLineFails, EndCursor
  <2>2. /\ pc[r] # "done"
        /\ \A x \in Requests \ {r} : pc'[x] = pc[x]
    BY <1>4 DEF Reject, BatonNotFound, CreateFails, FinishV1, BeginStep,
       EndStep, RotateBaton, ClosePipelineStream, DeleteBaton, RotateUpFront,
       FirstLineFails, EndCursor, Goto
  <2>. QED
    BY <2>1, <2>2, ChainFrame
<1>5. CASE \/ Tick \/ Sweep \/ CloseBegin \/ CloseStore \/ CloseDrain
           \/ CloseReturn \/ UNCHANGED vars
  <2>1. UNCHANGED <<old, use, pc>>
    BY <1>5 DEF Tick, Sweep, CloseBegin, CloseStore, CloseDrain, CloseReturn,
       vars, reqVars
  <2>. QED
    BY <2>1, ChainFrame
<1>. QED
  BY <1>1, <1>2, <1>3, <1>4, <1>5 DEF Next, Client, Handle

\* Two live batons of one stream: neither of them can be the end of the
\* chain unless the other is the baton of the request at its end, which has
\* not put its own yet; and that request came with one baton.
LEMMA ChainImpliesOneBaton == IInv /\ ChainInv => OneBatonPerStream
<1>. SUFFICES ASSUME IInv, ChainInv, NEW b \in Live, NEW c \in Live,
                     entries[b] = entries[c]
              PROVE  b = c
  BY DEF OneBatonPerStream
<1>. USE NoneAssumption DEF IInv, TypeOK, StoreTypeOK, Live
<1>1. /\ b \in issued /\ c \in issued
      /\ use[b] = use[c] /\ use[b] # None
  BY DEF EntryInv
<1>2. ASSUME NEW x \in Live, NEW q \in Requests, old[q] = x, use[q] # None
      PROVE  q \notin issued /\ Last(q) /\ use[q] = use[x]
  BY <1>2 DEF RotationRetiresOldBaton, OldInv, Last
<1>3. CASE Last(b) /\ Last(c)
  BY <1>1, <1>3 DEF ChainInv
<1>4. CASE Last(b) /\ ~Last(c)
  <2>1. PICK q \in Requests : old[q] = c /\ use[q] # None
    BY <1>4 DEF Last
  <2>. QED
    BY <1>1, <1>2, <1>4, <2>1 DEF ChainInv
<1>5. CASE ~Last(b) /\ Last(c)
  <2>1. PICK q \in Requests : old[q] = b /\ use[q] # None
    BY <1>5 DEF Last
  <2>. QED
    BY <1>1, <1>2, <1>5, <2>1 DEF ChainInv
<1>6. CASE ~Last(b) /\ ~Last(c)
  <2>1. PICK p \in Requests : old[p] = b /\ use[p] # None
    BY <1>6 DEF Last
  <2>2. PICK q \in Requests : old[q] = c /\ use[q] # None
    BY <1>6 DEF Last
  <2>3. p = q
    BY <1>1, <1>2, <2>1, <2>2 DEF ChainInv
  <2>. QED
    BY <2>1, <2>2, <2>3
<1>. QED
  BY <1>3, <1>4, <1>5, <1>6

\* OneBatonPerStream: serial clients never have two live batons for one
\* stream (HRANA_3_SPEC.md:681), however slow they are, and during Close.
THEOREM OneBatonEach == ASSUME SerialClients
                        PROVE  Spec => []OneBatonPerStream
<1>1. Init => ChainInv
  BY DEF Init, ChainInv
<1>2. IInv /\ ChainInv /\ [Next]_vars => ChainInv'
  BY ChainKeeps
<1>. QED
  BY <1>1, <1>2, ChainImpliesOneBaton, Invariance, PTL DEF Spec

-----------------------------------------------------------------------------
(* Prompt requests find their streams working *)

\* Whoever is in flight is the end of the chain of its stream.
LEMMA ActiveIsLast ==
    ASSUME IInv, ChainInv, NEW r \in Requests, Active(r)
    PROVE  Last(r)
BY NoneAssumption DEF Last, ChainInv, Active

\* Nobody else is in flight on the stream of a request in flight.
LEMMA ActiveAlone ==
    ASSUME IInv, ChainInv, NEW r \in Requests, NEW q \in Requests,
           Active(r), Active(q), use[r] = use[q]
    PROVE  r = q
BY ActiveIsLast DEF ChainInv, IInv, UseInv

\* If the stream of a request in flight is in the store, then under the
\* baton it came with or the one it has been given.
LEMMA ActiveEntry ==
    ASSUME IInv, ChainInv, NEW r \in Requests, NEW b \in Live, Active(r),
           entries[b] = use[r]
    PROVE  b = old[r] \/ b = r
<1>. USE DEF IInv, TypeOK, StoreTypeOK, Live
<1>1. use[b] = use[r] /\ use[r] # None /\ Last(r)
  BY ActiveIsLast DEF EntryInv, UseInv
<1>2. CASE Last(b)
  BY <1>1, <1>2 DEF ChainInv
<1>3. CASE ~Last(b)
  <2>1. PICK q \in Requests : old[q] = b /\ use[q] # None
    BY <1>3 DEF Last
  <2>2. q \notin issued /\ use[q] = use[r]
    BY <1>1, <2>1, NoneAssumption DEF RotationRetiresOldBaton, OldInv
  <2>3. Last(q)
    BY <2>2, NoneAssumption DEF Last, OldInv
  <2>. QED
    BY <1>1, <2>1, <2>2, <2>3 DEF ChainInv
<1>. QED
  BY <1>2, <1>3

\* What a client or a handler does keeps the promptness and the streams.
LEMMA RequestKeepsSerial ==
    ASSUME SerialIInv, PromptClients, NEW r \in Requests,
           Client(r) \/ Handle(r)
    PROVE  PromptInv' /\ WorkInv'
<1>. USE NoneAssumption, TTLAssumption
     DEF SerialIInv, IInv, TypeOK, StoreTypeOK, storeVars, Goto, Active, Live
<1>1. CASE (\E k \in Kinds, b \in Requests \cup {None}, n \in 0..MaxSteps :
                  Arrive(r, k, b, n))
  <2>1. PromptInv'
    BY <1>1 DEF PromptInv, PlaceInv, UseInv, EntryInv, OldInv, ChainInv,
       Arrive, Presentable
  <2>2. WorkInv'
    BY <1>1 DEF WorkInv, PlaceInv, UseInv, EntryInv, OldInv, ChainInv, Last,
       Arrive, Presentable
  <2>. QED
    BY <2>1, <2>2
<1>2. CASE Reject(r)
  <2>1. PromptInv'
    BY <1>2 DEF PromptInv, PlaceInv, UseInv, EntryInv, OldInv, ChainInv,
       Reject
  <2>2. WorkInv'
    BY <1>2 DEF WorkInv, PlaceInv, UseInv, EntryInv, OldInv, ChainInv, Last,
       Reject
  <2>. QED
    BY <2>1, <2>2
<1>3. CASE ResolveBaton(r)
  <2>1. PromptInv'
    BY <1>3 DEF PromptInv, PlaceInv, UseInv, EntryInv, OldInv, ChainInv,
       ResolveBaton, GetRefresh, FirstLabel, Kinds
  <2>2. WorkInv'
    BY <1>3 DEF WorkInv, PlaceInv, UseInv, EntryInv, OldInv, ChainInv, Last,
       ResolveBaton, GetRefresh, FirstLabel, Kinds
  <2>. QED
    BY <2>1, <2>2
<1>4. CASE BatonNotFound(r)
  <2>1. PromptInv'
    BY <1>4 DEF PromptInv, PlaceInv, UseInv, EntryInv, OldInv, ChainInv,
       BatonNotFound, GetMiss
  <2>2. WorkInv'
    BY <1>4 DEF WorkInv, PlaceInv, UseInv, EntryInv, OldInv, ChainInv, Last,
       BatonNotFound, GetMiss
  <2>. QED
    BY <2>1, <2>2
<1>5. CASE CreateStream(r)
  <2>1. PromptInv'
    BY <1>5 DEF PromptInv, PlaceInv, UseInv, EntryInv, OldInv, ChainInv,
       CreateStream, OpenStream, FirstLabel, Kinds
  <2>2. WorkInv'
    BY <1>5 DEF WorkInv, PlaceInv, UseInv, EntryInv, OldInv, ChainInv, Last,
       CreateStream, OpenStream, FirstLabel, Kinds
  <2>. QED
    BY <2>1, <2>2
<1>6. CASE CreateFails(r)
  <2>1. PromptInv'
    BY <1>6 DEF PromptInv, PlaceInv, UseInv, EntryInv, OldInv, ChainInv,
       CreateFails
  <2>2. WorkInv'
    BY <1>6 DEF WorkInv, PlaceInv, UseInv, EntryInv, OldInv, ChainInv, Last,
       CreateFails
  <2>. QED
    BY <2>1, <2>2
<1>7. CASE FinishV1(r)
  <2>1. PromptInv'
    BY <1>7 DEF PromptInv, PlaceInv, UseInv, EntryInv, OldInv, ChainInv,
       FinishV1, CloseStream
  <2>2. WorkInv'
    BY <1>7 DEF WorkInv, PlaceInv, UseInv, EntryInv, OldInv, ChainInv, Last,
       FinishV1, CloseStream
  <2>. QED
    BY <2>1, <2>2
<1>8. CASE BeginStep(r)
  <2>1. PromptInv'
    BY <1>8 DEF PromptInv, PlaceInv, UseInv, EntryInv, OldInv, ChainInv,
       BeginStep, LockStream
  <2>2. WorkInv'
    BY <1>8 DEF WorkInv, PlaceInv, UseInv, EntryInv, OldInv, ChainInv, Last,
       BeginStep, LockStream
  <2>. QED
    BY <2>1, <2>2
<1>9. CASE (\E isClose \in BOOLEAN : EndStep(r, isClose))
  <2>1. PromptInv'
    BY <1>9 DEF PromptInv, PlaceInv, UseInv, EntryInv, OldInv, ChainInv,
       EndStep, UnlockStream
  <2>2. WorkInv'
    BY <1>9 DEF WorkInv, PlaceInv, UseInv, EntryInv, OldInv, ChainInv, Last,
       EndStep, UnlockStream
  <2>. QED
    BY <2>1, <2>2
<1>10. CASE RotateBaton(r)
  <2>1. PromptInv'
    BY <1>10 DEF PromptInv, PlaceInv, UseInv, EntryInv, OldInv, ChainInv,
       RotateBaton, File, Put
  <2>2. WorkInv'
    BY <1>10 DEF WorkInv, PlaceInv, UseInv, EntryInv, OldInv, ChainInv,
       Last, RotateBaton, File, Put
  <2>. QED
    BY <2>1, <2>2
<1>11. CASE ClosePipelineStream(r)
  <2>1. PromptInv'
    BY <1>11 DEF PromptInv, PlaceInv, UseInv, EntryInv, OldInv, ChainInv,
       ClosePipelineStream, CloseStream
  <2>2. WorkInv'
    BY <1>11 DEF WorkInv, PlaceInv, UseInv, EntryInv, OldInv, ChainInv,
       Last, ClosePipelineStream, CloseStream
  <2>. QED
    BY <2>1, <2>2
<1>12. CASE DeleteBaton(r)
  <2>1. PromptInv'
    BY <1>12 DEF PromptInv, PlaceInv, UseInv, EntryInv, OldInv, ChainInv,
       DeleteBaton, Delete
  <2>2. WorkInv'
    BY <1>12 DEF WorkInv, PlaceInv, UseInv, EntryInv, OldInv, ChainInv,
       Last, DeleteBaton, Delete
  <2>. QED
    BY <2>1, <2>2
<1>13. CASE RotateUpFront(r)
  <2>1. PromptInv'
    BY <1>13 DEF PromptInv, PlaceInv, UseInv, EntryInv, OldInv, ChainInv,
       RotateUpFront, File, Put
  <2>2. WorkInv'
    BY <1>13 DEF WorkInv, PlaceInv, UseInv, EntryInv, OldInv, ChainInv,
       Last, RotateUpFront, File, Put
  <2>. QED
    BY <2>1, <2>2
<1>14. CASE FirstLineFails(r)
  <2>1. PromptInv'
    BY <1>14 DEF PromptInv, PlaceInv, UseInv, EntryInv, OldInv, ChainInv,
       FirstLineFails
  <2>2. WorkInv'
    BY <1>14 DEF WorkInv, PlaceInv, UseInv, EntryInv, OldInv, ChainInv,
       Last, FirstLineFails
  <2>. QED
    BY <2>1, <2>2
<1>15. CASE EndCursor(r)
  <2>1. PromptInv'
    BY <1>15 DEF PromptInv, PlaceInv, UseInv, EntryInv, OldInv, ChainInv,
       EndCursor, UnlockStream
  <2>2. WorkInv'
    BY <1>15 DEF WorkInv, PlaceInv, UseInv, EntryInv, OldInv, ChainInv,
       Last, EndCursor, UnlockStream
  <2>. QED
    BY <2>1, <2>2
<1>. QED
  BY <1>1, <1>2, <1>3, <1>4, <1>5, <1>6, <1>7, <1>8, <1>9, <1>10, <1>11,
     <1>12, <1>13, <1>14, <1>15 DEF Client, Handle

\* The clock and the sweep keep the promptness and the streams.
LEMMA BackgroundKeepsSerial ==
    ASSUME SerialIInv, PromptClients,
           Tick \/ Sweep \/ CloseBegin \/ CloseStore \/ CloseDrain \/ CloseReturn
    PROVE  PromptInv' /\ WorkInv'
<1>. USE NoneAssumption, TTLAssumption
     DEF SerialIInv, IInv, TypeOK, StoreTypeOK, storeVars, Active, Live
<1>1. CASE Tick
  <2>1. PromptInv'
    <3>1. UNCHANGED <<pc, kind, old, use, issued, entries, overdue>>
      BY <1>1 DEF Tick, Elapse, reqVars
    <3>2. \A r \in Requests, b \in Live :
             Active(r) /\ (b = old[r] \/ b = r) => age'[b] <= TTL
      BY <1>1 DEF Tick, Elapse, PromptClients
    <3>. QED
      BY <3>1, <3>2 DEF PromptInv
  <2>2. WorkInv'
    BY <1>1 DEF WorkInv, Tick, Elapse, reqVars, Last
  <2>. QED
    BY <2>1, <2>2
<1>2. CASE Sweep /\ (SweepFire \/ SweepLock \/ SweepUnlock)
  <2>1. PromptInv'
    BY <1>2 DEF PromptInv, Sweep, SweepFire, SweepLock, SweepUnlock, reqVars
  <2>2. WorkInv'
    BY <1>2 DEF WorkInv, Sweep, SweepFire, SweepLock, SweepUnlock, reqVars,
       Last
  <2>. QED
    BY <2>1, <2>2
<1>3. CASE Sweep /\ SweepDeadline
  <2>1. PromptInv'
    <3>1. UNCHANGED <<pc, kind, old, use, issued, entries, age>>
      BY <1>3 DEF Sweep, SweepDeadline, reqVars
    <3>2. overdue' = {b \in Live : age[b] > TTL}
      BY <1>3 DEF SweepDeadline
    <3>3. \A b \in Live : age[b] <= TTL => b \notin overdue'
      BY <3>2
    <3>4. overdue' \subseteq issued
      BY <3>2 DEF EntryInv
    <3>. QED
      BY <3>1, <3>3, <3>4 DEF PromptInv
  <2>2. WorkInv'
    BY <1>3 DEF WorkInv, Sweep, SweepDeadline, reqVars, Last
  <2>. QED
    BY <2>1, <2>2
<1>4. ASSUME NEW b \in Requests, SweepEntry(b), UNCHANGED <<reqVars, closer>>
      PROVE  PromptInv' /\ WorkInv'
  <2>1. /\ b \in Live /\ b \in overdue
        /\ UNCHANGED <<pc, old, use, issued, age, overdue, kind, ended>>
        /\ entries' = [entries EXCEPT ![b] = None]
        /\ conn' = [conn EXCEPT ![entries[b]] = "closed"]
    BY <1>4 DEF SweepEntry, CloseStream, reqVars
  <2>2. \A r \in Requests : Active(r) => use[r] # entries[b] /\ r # b
    BY <2>1, ActiveEntry DEF PromptInv
  <2>3. PromptInv'
    BY <2>1, <2>2 DEF PromptInv
  <2>4. \A c \in Live : c # b => entries[c] # entries[b]
    BY <2>1, ChainImpliesOneBaton DEF OneBatonPerStream
  <2>5. WorkInv'
    BY <2>1, <2>2, <2>4 DEF WorkInv, Last
  <2>. QED
    BY <2>3, <2>5
<1>5. ~(CloseBegin \/ CloseStore \/ CloseDrain \/ CloseReturn)
  BY DEF OpenInv, PromptClients, CloseBegin, CloseStore, CloseDrain,
     StoreCloseEntry, CloseReturn, StoreCloseUnlock
<1>. QED
  BY <1>1, <1>2, <1>3, <1>4, <1>5 DEF Sweep

\* The whole invariant holds in every reachable state.
LEMMA SerialInvariance ==
    ASSUME PromptClients
    PROVE  Spec => []SerialIInv
<1>1. Init => SerialIInv
  <2>1. Init => ChainInv /\ WorkInv /\ OpenInv
    BY DEF Init, StoreInit, ChainInv, WorkInv, OpenInv, Active, Live
  <2>2. Init => PromptInv
    BY DEF Init, StoreInit, PromptInv, Active, Live
  <2>. QED
    BY <2>1, <2>2, InitIInv DEF SerialIInv
<1>2. ASSUME SerialIInv, [Next]_vars
      PROVE  SerialIInv'
  <2>1. IInv'
    BY <1>2, NextIInv DEF SerialIInv
  <2>2. ChainInv'
    BY <1>2, ChainKeeps DEF SerialIInv, PromptClients
  <2>3. OpenInv'
    BY <1>2 DEF SerialIInv, OpenInv, PromptClients, Next, Client, Handle,
       Arrive, Reject, ResolveBaton, BatonNotFound, CreateStream, CreateFails,
       FinishV1, BeginStep, EndStep, RotateBaton, File, Put, ClosePipelineStream,
       DeleteBaton, Delete, RotateUpFront, FirstLineFails, EndCursor, Tick,
       Elapse, Sweep, SweepFire, SweepDeadline, SweepLock, SweepEntry,
       SweepUnlock, CloseBegin, CloseStore, CloseDrain, StoreCloseEntry,
       CloseReturn, StoreCloseUnlock, storeVars, vars
  <2>4. PromptInv' /\ WorkInv'
    <3>1. CASE UNCHANGED vars
      BY <1>2, <3>1 DEF SerialIInv, PromptInv, WorkInv, Active, Live, Last,
         vars, storeVars, reqVars
    <3>. QED
      BY <1>2, <3>1, RequestKeepsSerial, BackgroundKeepsSerial DEF Next
  <2>. QED
    BY <2>1, <2>2, <2>3, <2>4 DEF SerialIInv
<1>. QED
  BY <1>1, <1>2, PTL DEF Spec

\* DeliveredBatonsWork: as long as the server is up, a baton that a prompt
\* serial client has been given, has not used and the store still knows
\* leads to a working stream.
THEOREM BatonsWork ==
    ASSUME PromptClients
    PROVE  Spec => []DeliveredBatonsWork
<1>1. SerialIInv => DeliveredBatonsWork
  BY DEF SerialIInv, WorkInv, DeliveredBatonsWork, Last
<1>. QED
  BY <1>1, SerialInvariance, PTL

-----------------------------------------------------------------------------
(* The handlers and the store implement StreamLease *)

LeaseMap == [s \in Requests |-> LeaseOf(s)]

\* What the refinement mapping says of each stream.
LeaseShape ==
    \A s \in Requests :
        /\ conn[s] = "none" => LeaseOf(s) = Lease!Fresh
        /\ conn[s] = "closed" /\ ClosersOf(s) # {} =>
              LeaseOf(s) = Lease!Released
        /\ conn[s] = "closed" /\ ClosersOf(s) = {} =>
              LeaseOf(s) = Lease!Expired
        /\ conn[s] = "open" => \A r \in Requests :
              Active(r) /\ use[r] = s => LeaseOf(s) = Lease!Held(r)
        /\ conn[s] = "open" /\ HoldersOf(s) = {} => \A b \in Requests :
              entries[b] = s => LeaseOf(s) = Lease!Parked(b)

\* A set with one element has no choice.
LEMMA TheOneOfOne == ASSUME NEW x PROVE TheOne({x}) = x
BY DEF TheOne

\* A request in flight is alone with its stream, and a stream has one baton.
LEMMA ShapeHolds == SerialIInv => LeaseShape
<1>. SUFFICES ASSUME SerialIInv, NEW s \in Requests
              PROVE  /\ conn[s] = "none" => LeaseOf(s) = Lease!Fresh
                     /\ conn[s] = "closed" /\ ClosersOf(s) # {} =>
                           LeaseOf(s) = Lease!Released
                     /\ conn[s] = "closed" /\ ClosersOf(s) = {} =>
                           LeaseOf(s) = Lease!Expired
                     /\ conn[s] = "open" => \A r \in Requests :
                           Active(r) /\ use[r] = s =>
                              LeaseOf(s) = Lease!Held(r)
                     /\ conn[s] = "open" /\ HoldersOf(s) = {} =>
                           \A b \in Requests :
                              entries[b] = s => LeaseOf(s) = Lease!Parked(b)
  BY DEF LeaseShape
<1>1. /\ conn[s] = "none" => LeaseOf(s) = Lease!Fresh
      /\ conn[s] = "closed" /\ ClosersOf(s) # {} => LeaseOf(s) = Lease!Released
      /\ conn[s] = "closed" /\ ClosersOf(s) = {} => LeaseOf(s) = Lease!Expired
  BY DEF LeaseOf, Lease!Fresh, Lease!Released, Lease!Expired
<1>2. ASSUME conn[s] = "open", NEW r \in Requests, Active(r), use[r] = s
      PROVE  LeaseOf(s) = Lease!Held(r)
  <2>1. HoldersOf(s) = {r}
    BY <1>2, ActiveAlone DEF HoldersOf, SerialIInv
  <2>2. TheOne(HoldersOf(s)) = r
    BY <2>1, TheOneOfOne
  <2>. QED
    BY <1>2, <2>1, <2>2 DEF LeaseOf, Lease!Held
<1>3. ASSUME conn[s] = "open", HoldersOf(s) = {}, NEW b \in Requests,
             entries[b] = s
      PROVE  LeaseOf(s) = Lease!Parked(b)
  <2>1. BatonsOf(s) = {b}
    <3>1. \A c \in Requests : entries[c] = s => c = b
      BY <1>3, ChainImpliesOneBaton, NoneAssumption
      DEF SerialIInv, OneBatonPerStream, Live
    <3>. QED
      BY <1>3, <3>1 DEF BatonsOf
  <2>2. TheOne(BatonsOf(s)) = b
    BY <2>1, TheOneOfOne
  <2>. QED
    BY <1>3, <2>2 DEF LeaseOf, Lease!Parked
<1>. QED
  BY <1>1, <1>2, <1>3

\* The same of the next state, without looking into it.
LEMMA ShapeHoldsNext == SerialIInv' => LeaseShape'
BY ShapeHolds, PTL

\* A step that does not touch a stream, its requests and its batons leaves
\* its lease alone.
LEMMA LeaseKept ==
    ASSUME NEW s \in Requests,
           conn'[s] = conn[s],
           \A r \in Requests : use[r] = s \/ use'[r] = s =>
              /\ use'[r] = use[r] /\ pc'[r] = pc[r]
              /\ kind'[r] = kind[r] /\ ended'[r] = ended[r],
           \A b \in Requests : entries[b] = s <=> entries'[b] = s
    PROVE  LeaseOf(s)' = LeaseOf(s)
<1>1. HoldersOf(s)' = HoldersOf(s)
  BY DEF HoldersOf, Active
<1>2. ClosersOf(s)' = ClosersOf(s)
  BY DEF ClosersOf
<1>3. BatonsOf(s)' = BatonsOf(s)
  BY DEF BatonsOf
<1>. QED
  BY <1>1, <1>2, <1>3 DEF LeaseOf

\* What a request does with its stream concerns no other stream.
LEMMA OtherLeasesKept ==
    ASSUME IInv, IInv', NEW r \in Requests, NEW s \in Requests,
           \A t \in Requests \ {s} : conn'[t] = conn[t],
           use[r] = s \/ use[r] = None, use'[r] = s,
           \A q \in Requests \ {r} :
              /\ use'[q] = use[q] /\ pc'[q] = pc[q]
              /\ kind'[q] = kind[q] /\ ended'[q] = ended[q],
           \A b \in Requests : \A t \in Requests \ {s} :
              entries[b] = t <=> entries'[b] = t
    PROVE  \A t \in Requests \ {s} : LeaseOf(t)' = LeaseOf(t)
<1>. SUFFICES ASSUME NEW t \in Requests \ {s}
              PROVE  LeaseOf(t)' = LeaseOf(t)
  OBVIOUS
<1>1. \A q \in Requests : use[q] = t \/ use'[q] = t => q # r
  BY NoneAssumption
<1>. QED
  BY <1>1, LeaseKept

\* One lease changes.
LEMMA LeaseChanges ==
    ASSUME NEW s \in Requests, NEW x, LeaseOf(s)' = x,
           \A t \in Requests \ {s} : LeaseOf(t)' = LeaseOf(t)
    PROVE  LeaseMap' = [LeaseMap EXCEPT ![s] = x]
BY DEF LeaseMap

\* No lease changes.
LEMMA LeasesKept ==
    ASSUME \A s \in Requests : LeaseOf(s)' = LeaseOf(s)
    PROVE  LeaseMap' = LeaseMap
BY DEF LeaseMap

\* A request that comes, is refused or finds no stream has none.
LEMMA NoStreamNoLease ==
    ASSUME SerialIInv, SerialIInv', NEW r \in Requests,
           \/ \E k \in Kinds, b \in Requests \cup {None}, n \in 0..MaxSteps :
                 Arrive(r, k, b, n)
           \/ Reject(r) \/ BatonNotFound(r) \/ CreateFails(r)
    PROVE  LeaseMap' = LeaseMap
<1>. USE DEF SerialIInv, IInv, TypeOK, StoreTypeOK
<1>1. /\ use[r] = None /\ use' = use
      /\ UNCHANGED <<conn, entries>>
      /\ \A q \in Requests \ {r} :
            pc'[q] = pc[q] /\ kind'[q] = kind[q] /\ ended'[q] = ended[q]
  BY DEF Arrive, Reject, BatonNotFound, CreateFails, Goto, UseInv, storeVars
<1>2. ASSUME NEW s \in Requests
      PROVE  LeaseOf(s)' = LeaseOf(s)
  <2>1. \A q \in Requests : use[q] = s \/ use'[q] = s => q # r
    BY <1>1, NoneAssumption
  <2>. QED
    BY <1>1, <2>1, LeaseKept
<1>. QED
  BY <1>2, LeasesKept

\* A request without a baton is granted a stream.
LEMMA CreateGrants ==
    ASSUME SerialIInv, SerialIInv', NEW r \in Requests, CreateStream(r)
    PROVE  Lease!Grant(r)
<1>. USE DEF SerialIInv, IInv, TypeOK, StoreTypeOK
<1>1. /\ use[r] = None /\ use'[r] = r
      /\ conn[r] = "none" /\ conn'[r] = "open"
      /\ \A t \in Requests \ {r} : conn'[t] = conn[t]
      /\ \A q \in Requests \ {r} :
            /\ use'[q] = use[q] /\ pc'[q] = pc[q]
            /\ kind'[q] = kind[q] /\ ended'[q] = ended[q]
      /\ entries' = entries
      /\ pc'[r] \notin {"new", "resolve", "done"}
  BY DEF CreateStream, OpenStream, Goto, UseInv, FirstLabel, Kinds
<1>2. LeaseOf(r) = Lease!Fresh
  BY <1>1, ShapeHolds DEF LeaseShape
<1>3. LeaseOf(r)' = Lease!Held(r)
  BY <1>1, ShapeHoldsNext DEF LeaseShape, Active
<1>4. \A t \in Requests \ {r} : LeaseOf(t)' = LeaseOf(t)
  BY <1>1, OtherLeasesKept
<1>. QED
  BY <1>2, <1>3, <1>4, LeaseChanges DEF Lease!Grant, LeaseMap

\* A request in flight whose stream is not being closed holds it.
LEMMA InFlightHolds ==
    ASSUME SerialIInv, NEW r \in Requests, NEW s \in Requests, use[r] = s,
           Active(r), pc[r] # "delete"
    PROVE  conn[s] = "open" /\ LeaseOf(s) = Lease!Held(r)
<1>1. conn[s] = "open"
  BY DEF SerialIInv, WorkInv
<1>. QED
  BY <1>1, ShapeHolds DEF LeaseShape

\* The holder closes its stream.
LEMMA CloseReleases ==
    ASSUME SerialIInv, SerialIInv', NEW r \in Requests,
           NEW s \in Requests, use[r] = s,
           FinishV1(r) \/ ClosePipelineStream(r)
    PROVE  Lease!Release(s, r)
<1>. USE DEF SerialIInv, IInv, TypeOK, StoreTypeOK
<1>1. Active(r) /\ pc[r] # "delete"
  BY DEF FinishV1, ClosePipelineStream, Active
<1>2. LeaseOf(s) = Lease!Held(r)
  BY <1>1, InFlightHolds
<1>3. /\ conn'[s] = "closed"
      /\ \A t \in Requests \ {s} : conn'[t] = conn[t]
      /\ use' = use /\ kind' = kind /\ ended' = ended /\ entries' = entries
      /\ \A q \in Requests \ {r} : pc'[q] = pc[q]
      /\ pc'[r] \in {"delete", "done"}
      /\ kind[r] = "v1" \/ ended[r]
  BY <1>2 DEF FinishV1, ClosePipelineStream, CloseStream, Goto, PlaceInv
<1>4. ClosersOf(s)' # {}
  BY <1>3 DEF ClosersOf
<1>5. LeaseOf(s)' = Lease!Released
  BY <1>2, <1>3, <1>4, ShapeHoldsNext DEF LeaseShape
<1>6. \A t \in Requests \ {s} : LeaseOf(t)' = LeaseOf(t)
  BY <1>2, <1>3, OtherLeasesKept
<1>. QED
  BY <1>2, <1>5, <1>6, LeaseChanges DEF Lease!Release, LeaseMap

\* The answer parks the stream under the baton of its request.
LEMMA AnswerParks ==
    ASSUME SerialIInv, SerialIInv', NEW r \in Requests,
           NEW s \in Requests, use[r] = s,
           RotateBaton(r) \/ FirstLineFails(r) \/ EndCursor(r)
    PROVE  Lease!Park(s, r)
<1>. USE DEF SerialIInv, IInv, TypeOK, StoreTypeOK
<1>1. Active(r) /\ pc[r] # "delete"
  BY DEF RotateBaton, FirstLineFails, EndCursor, Active
<1>2. LeaseOf(s) = Lease!Held(r) /\ conn[s] = "open"
  BY <1>1, InFlightHolds
<1>3. /\ conn' = conn /\ use' = use /\ kind' = kind /\ ended' = ended
      /\ \A q \in Requests \ {r} : pc'[q] = pc[q]
      /\ pc'[r] = "done"
  BY DEF RotateBaton, FirstLineFails, EndCursor, Goto, storeVars
<1>4. entries'[r] = s
  <2>1. CASE RotateBaton(r)
    BY <2>1 DEF RotateBaton, File, Put
  <2>2. CASE FirstLineFails(r) \/ EndCursor(r)
    <3>1. kind[r] = "cursor" /\ pc[r] \in {"ready", "exec"}
      BY <2>2 DEF FirstLineFails, EndCursor
    <3>2. entries[r] = s
      BY <1>1, <3>1 DEF PromptInv
    <3>. QED
      BY <2>2, <3>2 DEF FirstLineFails, EndCursor, storeVars
  <2>. QED
    BY <2>1, <2>2
<1>5. HoldersOf(s)' = {}
  BY <1>1, <1>2, <1>3, ActiveAlone DEF HoldersOf, Active
<1>6. LeaseOf(s)' = Lease!Parked(r)
  BY <1>2, <1>3, <1>4, <1>5, ShapeHoldsNext DEF LeaseShape
<1>7. \A b \in Requests, t \in Requests \ {s} :
         entries[b] = t <=> entries'[b] = t
  <2>1. CASE RotateBaton(r)
    BY <2>1, <1>2, NoneAssumption DEF RotateBaton, File, Put, EntryInv, OldInv
  <2>2. CASE FirstLineFails(r) \/ EndCursor(r)
    BY <2>2 DEF FirstLineFails, EndCursor, storeVars
  <2>. QED
    BY <2>1, <2>2
<1>8. \A t \in Requests \ {s} : LeaseOf(t)' = LeaseOf(t)
  BY <1>2, <1>3, <1>7, OtherLeasesKept
<1>. QED
  BY <1>2, <1>6, <1>8, LeaseChanges DEF Lease!Park, LeaseMap

\* Another request redeems the baton.
LEMMA ResolveRedeems ==
    ASSUME SerialIInv, SerialIInv', NEW r \in Requests,
           NEW b \in Requests, old[r] = b, NEW s \in Requests, entries[b] = s,
           ResolveBaton(r)
    PROVE  Lease!Redeem(s, b, r)
<1>. USE DEF SerialIInv, IInv, TypeOK, StoreTypeOK
<1>1. /\ use[r] = None /\ use'[r] = s
      /\ conn' = conn /\ entries' = entries
      /\ \A q \in Requests \ {r} :
            /\ use'[q] = use[q] /\ pc'[q] = pc[q]
            /\ kind'[q] = kind[q] /\ ended'[q] = ended[q]
      /\ pc'[r] \notin {"new", "resolve", "done", "delete"}
      /\ pc[r] = "resolve"
  BY DEF ResolveBaton, GetRefresh, Goto, UseInv, FirstLabel, Kinds
<1>2. b # r /\ pc[b] = "done" /\ use[b] = s
  BY NoneAssumption DEF OldInv, ChainInv, EntryInv
<1>3. Last(b)
  BY <1>1, NoneAssumption DEF ChainInv, Last
<1>4. conn[s] = "open"
  BY <1>3, NoneAssumption DEF WorkInv, Live
<1>5. HoldersOf(s) = {}
  <2>1. ASSUME NEW q \in Requests, Active(q), use[q] = s
        PROVE  FALSE
    <3>1. q = b
      BY <1>2, <1>3, <2>1, ActiveIsLast, NoneAssumption DEF ChainInv
    <3>. QED
      BY <1>2, <2>1, <3>1 DEF Active
  <2>. QED
    BY <2>1 DEF HoldersOf
<1>6. LeaseOf(s) = Lease!Parked(b)
  BY <1>4, <1>5, ShapeHolds DEF LeaseShape
<1>7. LeaseOf(s)' = Lease!Held(r)
  BY <1>1, <1>4, ShapeHoldsNext DEF LeaseShape, Active
<1>8. \A t \in Requests \ {s} : LeaseOf(t)' = LeaseOf(t)
  BY <1>1, OtherLeasesKept
<1>9. \A t \in Requests : LeaseOf(t) # Lease!Held(r)
  <2>. SUFFICES ASSUME NEW t \in Requests, LeaseOf(t) = Lease!Held(r)
                PROVE  FALSE
    OBVIOUS
  <2>1. HoldersOf(t) # {} /\ TheOne(HoldersOf(t)) = r
    BY NoneAssumption DEF LeaseOf, Lease!Held
  <2>2. PICK q \in Requests : Active(q) /\ use[q] = t
    BY <2>1 DEF HoldersOf
  <2>3. HoldersOf(t) = {q}
    BY <2>2, ActiveAlone DEF HoldersOf
  <2>4. q = r
    BY <2>1, <2>3, TheOneOfOne
  <2>. QED
    BY <1>1, <2>2, <2>4, NoneAssumption
<1>. QED
  BY <1>2, <1>6, <1>7, <1>8, <1>9, LeaseChanges DEF Lease!Redeem, LeaseMap

\* A handler that goes on keeps its lease, and so does one that removes the
\* baton of the stream it has closed.
LEMMA HandlerKeeps ==
    ASSUME SerialIInv, SerialIInv', NEW r \in Requests,
           NEW s \in Requests, use[r] = s,
           \/ BeginStep(r) \/ (\E isClose \in BOOLEAN : EndStep(r, isClose))
           \/ RotateUpFront(r) \/ DeleteBaton(r)
    PROVE  LeaseMap' = LeaseMap
<1>. USE DEF SerialIInv, IInv, TypeOK, StoreTypeOK
<1>1. /\ conn' = conn /\ use' = use /\ kind' = kind
      /\ \A q \in Requests \ {r} : pc'[q] = pc[q] /\ ended'[q] = ended[q]
  BY DEF BeginStep, EndStep, RotateUpFront, DeleteBaton, Goto
<1>2. \A b \in Requests, t \in Requests \ {s} :
         entries[b] = t <=> entries'[b] = t
  <2>1. CASE RotateUpFront(r)
    BY <2>1, NoneAssumption DEF RotateUpFront, File, Put, EntryInv, OldInv
  <2>2. CASE DeleteBaton(r)
    BY <2>2, NoneAssumption DEF DeleteBaton, Delete, EntryInv, OldInv
  <2>3. CASE BeginStep(r) \/ (\E isClose \in BOOLEAN : EndStep(r, isClose))
    BY <2>3 DEF BeginStep, EndStep
  <2>. QED
    BY <2>1, <2>2, <2>3
<1>3. \A t \in Requests \ {s} : LeaseOf(t)' = LeaseOf(t)
  BY <1>1, <1>2, OtherLeasesKept
<1>4. LeaseOf(s)' = LeaseOf(s)
  <2>1. CASE DeleteBaton(r)
    <3>1. /\ pc[r] = "delete" /\ pc'[r] = "done" /\ ended' = ended
          /\ conn[s] = "closed"
      BY <2>1 DEF DeleteBaton, Goto, PlaceInv
    <3>2. ClosersOf(s)' = ClosersOf(s)
      BY <1>1, <3>1 DEF ClosersOf
    <3>3. LeaseOf(s) = IF ClosersOf(s) # {} THEN Lease!Released
                       ELSE Lease!Expired
      BY <3>1, ShapeHolds DEF LeaseShape
    <3>4. LeaseOf(s)' = IF ClosersOf(s)' # {} THEN Lease!Released
                        ELSE Lease!Expired
      BY <1>1, <3>1, ShapeHoldsNext DEF LeaseShape
    <3>. QED
      BY <3>2, <3>3, <3>4
  <2>2. CASE ~DeleteBaton(r)
    <3>1. /\ pc[r] \notin {"new", "resolve", "done", "delete"}
          /\ pc'[r] \notin {"new", "resolve", "done", "delete"}
      BY <2>2 DEF BeginStep, EndStep, RotateUpFront, Goto
    <3>2. conn[s] = "open" /\ LeaseOf(s) = Lease!Held(r)
      BY <3>1, InFlightHolds DEF Active
    <3>3. LeaseOf(s)' = Lease!Held(r)
      BY <1>1, <3>1, <3>2, ShapeHoldsNext DEF LeaseShape, Active
    <3>. QED
      BY <3>2, <3>3
  <2>. QED
    BY <2>1, <2>2
<1>. QED
  BY <1>3, <1>4, LeasesKept

\* The sweep takes parked streams only.
LEMMA SweepExpires ==
    ASSUME SerialIInv, SerialIInv', NEW b \in Requests,
           NEW s \in Requests, entries[b] = s,
           SweepEntry(b), UNCHANGED <<reqVars, closer>>
    PROVE  Lease!Expire(s, b) \/ LeaseMap' = LeaseMap
<1>. USE DEF SerialIInv, IInv, TypeOK, StoreTypeOK
<1>1. /\ b \in Live /\ b \in overdue
      /\ use' = use /\ pc' = pc /\ kind' = kind /\ ended' = ended
      /\ conn'[s] = "closed"
      /\ \A t \in Requests \ {s} : conn'[t] = conn[t]
      /\ entries' = [entries EXCEPT ![b] = None]
  BY DEF SweepEntry, CloseStream, reqVars
<1>2. ClosersOf(s)' = ClosersOf(s)
  BY <1>1 DEF ClosersOf
<1>3. ASSUME NEW t \in Requests \ {s}
      PROVE  LeaseOf(t)' = LeaseOf(t)
  <2>1. \A c \in Requests : entries[c] = t <=> entries'[c] = t
    BY <1>1, NoneAssumption
  <2>. QED
    BY <1>1, <2>1, LeaseKept
<1>4. CASE conn[s] = "open"
  <2>1. HoldersOf(s) = {}
    BY <1>1, ActiveEntry DEF HoldersOf, PromptInv
  <2>2. LeaseOf(s) = Lease!Parked(b)
    BY <1>4, <2>1, ShapeHolds DEF LeaseShape
  <2>3. ClosersOf(s) = {}
    BY <1>4, NoneAssumption DEF ClosersOf, WorkInv
  <2>4. LeaseOf(s)' = Lease!Expired
    BY <1>1, <1>2, <2>3, ShapeHoldsNext DEF LeaseShape
  <2>. QED
    BY <1>3, <2>2, <2>4, LeaseChanges DEF Lease!Expire, LeaseMap
<1>5. CASE conn[s] = "closed"
  <2>1. LeaseOf(s) = IF ClosersOf(s) # {} THEN Lease!Released
                     ELSE Lease!Expired
    BY <1>5, ShapeHolds DEF LeaseShape
  <2>2. LeaseOf(s)' = IF ClosersOf(s)' # {} THEN Lease!Released
                      ELSE Lease!Expired
    BY <1>1, ShapeHoldsNext DEF LeaseShape
  <2>. QED
    BY <1>2, <1>3, <2>1, <2>2, LeasesKept
<1>6. conn[s] # "none"
  BY <1>1, NoneAssumption DEF EntryInv, UseInv
<1>. QED
  BY <1>4, <1>5, <1>6

\* Nothing that happens in the background but the sweep touches a lease.
LEMMA BackgroundKeepsLeases ==
    ASSUME UNCHANGED <<reqVars, conn, entries>>
    PROVE  LeaseMap' = LeaseMap
<1>1. \A s \in Requests : LeaseOf(s)' = LeaseOf(s)
  BY LeaseKept DEF reqVars
<1>. QED
  BY <1>1, LeasesKept

\* LeaseSpec: for prompt serial clients of a server that stays up, a stream
\* is with one request, parked under one baton, or gone, and only a parked
\* one expires, whatever the handlers, the store and the sweep do.
THEOREM ImplementsStreamLease == ASSUME PromptClients PROVE Spec => LeaseSpec
<1>1. Init => Lease!Init
  BY NoneAssumption DEF Init, StoreInit, LeaseOf, Lease!Init, Lease!Fresh
<1>2. ASSUME SerialIInv, SerialIInv', [Next]_vars
      PROVE  Lease!Next \/ LeaseMap' = LeaseMap
  <2>. USE DEF SerialIInv, IInv, TypeOK, StoreTypeOK
  <2>1. ASSUME NEW r \in Requests, Client(r) \/ Handle(r)
        PROVE  Lease!Next \/ LeaseMap' = LeaseMap
    <3>1. CASE \/ \E k \in Kinds, b \in Requests \cup {None},
                    n \in 0..MaxSteps : Arrive(r, k, b, n)
               \/ Reject(r) \/ BatonNotFound(r) \/ CreateFails(r)
      BY <1>2, <3>1, NoStreamNoLease
    <3>2. CASE CreateStream(r)
      BY <1>2, <3>2, CreateGrants DEF Lease!Next
    <3>3. CASE ResolveBaton(r)
      <4>1. /\ old[r] \in Requests
            /\ entries[old[r]] \in Requests
        BY <1>2, <3>3 DEF ResolveBaton, GetRefresh
      <4>2. PICK b \in Requests, s \in Requests : old[r] = b /\ entries[b] = s
        BY <4>1
      <4>3. Lease!Redeem(s, b, r)
        BY <1>2, <3>3, <4>2, ResolveRedeems
      <4>. QED
        BY <4>3 DEF Lease!Next
    <3>4. CASE Active(r) /\ ~ResolveBaton(r) /\ ~CreateStream(r)
      <4>1. use[r] \in Requests
        BY <1>2, <3>4 DEF UseInv
      <4>2. PICK s \in Requests : use[r] = s
        BY <4>1
      <4>3. CASE FinishV1(r) \/ ClosePipelineStream(r)
        BY <1>2, <4>2, <4>3, CloseReleases DEF Lease!Next
      <4>4. CASE RotateBaton(r) \/ FirstLineFails(r) \/ EndCursor(r)
        BY <1>2, <4>2, <4>4, AnswerParks DEF Lease!Next
      <4>5. CASE \/ BeginStep(r) \/ (\E isClose \in BOOLEAN : EndStep(r, isClose))
                 \/ RotateUpFront(r) \/ DeleteBaton(r)
        BY <1>2, <4>2, <4>5, HandlerKeeps
      <4>. QED
        BY <2>1, <3>1, <3>4, <4>3, <4>4, <4>5 DEF Client, Handle
    <3>5. ~Active(r) => pc[r] \in {"new", "resolve"} \/ pc[r] = "done"
      BY DEF Active
    <3>. QED
      BY <2>1, <3>1, <3>2, <3>3, <3>4, <3>5 DEF Client, Handle, FinishV1,
         BeginStep, EndStep, RotateBaton, ClosePipelineStream, DeleteBaton,
         RotateUpFront, FirstLineFails, EndCursor
  <2>2. ASSUME NEW b \in Requests, SweepEntry(b), UNCHANGED <<reqVars, closer>>
        PROVE  Lease!Next \/ LeaseMap' = LeaseMap
    <3>1. PICK s \in Requests : entries[b] = s
      BY <1>2, <2>2 DEF SweepEntry, Live
    <3>. QED
      BY <1>2, <2>2, <3>1, SweepExpires DEF Lease!Next
  <2>3. CASE \/ Tick \/ CloseBegin \/ CloseStore \/ CloseReturn
             \/ (Sweep /\ (SweepFire \/ SweepDeadline \/ SweepLock \/ SweepUnlock))
             \/ UNCHANGED vars
    <3>1. UNCHANGED <<reqVars, conn, entries>>
      BY <2>3 DEF Tick, Elapse, CloseBegin, CloseStore, StoreCloseLock,
         CloseReturn, StoreCloseUnlock, Sweep, SweepFire, SweepDeadline,
         SweepLock, SweepUnlock, storeVars, vars
    <3>. QED
      BY <3>1, BackgroundKeepsLeases
  <2>4. ~CloseDrain
    BY <1>2 DEF OpenInv, CloseDrain, StoreCloseEntry
  <2>. QED
    BY <1>2, <2>1, <2>2, <2>3, <2>4 DEF Next, Sweep
<1>3. SerialIInv /\ SerialIInv' /\ [Next]_vars
         => [Lease!Next]_[s \in Requests |-> LeaseOf(s)]
  BY <1>2 DEF LeaseMap
<1>4. Spec => []SerialIInv
  BY SerialInvariance
<1>. QED
  BY <1>1, <1>3, <1>4, PTL DEF Spec, LeaseSpec, Lease!Spec

=============================================================================
