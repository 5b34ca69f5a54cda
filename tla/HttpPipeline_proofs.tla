------------------------ MODULE HttpPipeline_proofs ------------------------
(***************************************************************************)
(* Theorems about HttpPipeline, for any set of requests, any TTL, any      *)
(* number of stream requests per body and any clients.                     *)
(*                                                                         *)
(* The safety properties are not inductive by themselves.  What makes them *)
(* so is that a baton, once issued, stands for the stream of the request   *)
(* it is named after until it leaves the store (EntryInv, OldInv), so that *)
(* whoever rotates or deletes a baton cannot hit another stream, and that  *)
(* the mutex of a stream is held exactly while its holder executes         *)
(* (LockInv), so that nobody else closes it then.                          *)
(***************************************************************************)
EXTENDS HttpPipeline, TLAPS

\* What the place of a request says about the handler that serves it.
PlaceInv ==
    \A r \in Requests :
        /\ old[r] # None => kind[r] # "v1"
        /\ pc[r] = "v1exec" => kind[r] = "v1"
        /\ pc[r] = "rotate" => kind[r] = "cursor"
        /\ pc[r] \in {"ready", "exec"} => kind[r] # "v1"
        /\ pc[r] = "exec" => left[r] > 0
        /\ ended[r] => kind[r] = "pipeline" /\ pc[r] \in {"ready", "delete", "done"}
        /\ pc[r] = "delete" => kind[r] = "pipeline" /\ conn[use[r]] = "closed"

\* A request has a stream from ResolveBaton or CreateStream on.
UseInv ==
    \A r \in Requests :
        /\ pc[r] \in {"new", "resolve"} => use[r] = None
        /\ Active(r) => use[r] # None
        /\ use[r] # None => conn[use[r]] # "none"

\* A baton in the store stands for the stream of the request that put it
\* there, and that request will not put it there again.
EntryInv ==
    /\ \A b \in Requests : entries[b] # None =>
          b \in issued /\ entries[b] = use[b]
    /\ \A r \in issued :
          /\ use[r] # None
          /\ \/ pc[r] = "done"
             \/ kind[r] = "cursor" /\ pc[r] \in {"ready", "exec"}

\* A request that came with a baton works on that baton's stream.
OldInv ==
    \A r \in Requests :
        /\ pc[r] = "new" => old[r] = None
        /\ old[r] # None =>
              /\ old[r] \in issued
              /\ old[r] # r
              /\ use[r] # None => use[r] = use[old[r]]

\* The stream of a /v1 request is its own.
PrivateInv ==
    \A r \in Requests : pc[r] = "v1exec" =>
        use[r] = r /\ \A q \in Requests : use[q] = r => q = r

\* stream.mu is held by the handler that executes on the stream.
LockInv ==
    /\ \A s \in Requests : holder[s] # None =>
          pc[holder[s]] = "exec" /\ use[holder[s]] = s
    /\ \A r \in Requests : pc[r] = "exec" => holder[use[r]] = r

\* An open stream is in the store or owed by a handler.
Placed ==
    \A s \in Requests : conn[s] = "open" =>
        \/ \E b \in Requests : entries[b] = s
        \/ \E r \in Requests : Owes(r, s)

\* What is in the store after Close was filed after Close.
LateInv ==
    closer = "closed" => \A b \in Requests : entries[b] # None => entries[b] \in late

IInv ==
    /\ TypeOK
    /\ PlaceInv
    /\ UseInv
    /\ EntryInv
    /\ OldInv
    /\ PrivateInv
    /\ LockInv
    /\ Placed
    /\ RotationRetiresOldBaton

-----------------------------------------------------------------------------
(* The invariant holds, and every step keeps it *)

\* Nothing has been requested yet.
LEMMA InitIInv == Init => IInv
<1>. SUFFICES ASSUME Init PROVE IInv
  OBVIOUS
<1>1. TypeOK
  <2>1. StoreTypeOK
    <3>1. age \in [Requests -> 0..(TTL + 1)]
      BY TTLAssumption DEF Init, StoreInit
    <3>2. /\ conn \in [Requests -> {"none", "open", "closed"}]
          /\ holder \in [Requests -> Requests \cup {None}]
          /\ entries \in [Requests -> Requests \cup {None}]
      BY DEF Init, StoreInit
    <3>. QED
      BY <3>1, <3>2 DEF Init, StoreInit, StoreTypeOK
  <2>2. left \in [Requests -> 0..(MaxSteps + 1)]
    BY BoundAssumption DEF Init
  <2>. QED
    BY <2>1, <2>2 DEF Init, TypeOK, Kinds, Active
<1>2. PlaceInv /\ UseInv /\ PrivateInv
  BY DEF Init, StoreInit, PlaceInv, UseInv, PrivateInv, Active
<1>3. EntryInv /\ OldInv /\ RotationRetiresOldBaton
  BY DEF Init, StoreInit, EntryInv, OldInv, RotationRetiresOldBaton
<1>4. LockInv /\ Placed
  BY DEF Init, StoreInit, LockInv, Placed
<1>. QED
  BY <1>1, <1>2, <1>3, <1>4 DEF IInv

\* Whatever a client or a handler does keeps the invariant.
LEMMA RequestKeepsIInv ==
    ASSUME IInv, NEW r \in Requests, Client(r) \/ Handle(r)
    PROVE  IInv'
<1>. USE NoneAssumption, TTLAssumption, BoundAssumption
     DEF IInv, TypeOK, StoreTypeOK, storeVars, Goto, Active
<1>1. ASSUME NEW k \in Kinds, NEW b \in Requests \cup {None},
             NEW n \in 0..MaxSteps, Arrive(r, k, b, n)
      PROVE  IInv'
  <2>1. TypeOK'
    BY <1>1 DEF Arrive, Presentable, PlaceInv, UseInv, Kinds
  <2>2. PlaceInv' /\ UseInv' /\ PrivateInv'
    BY <1>1 DEF Arrive, Presentable, PlaceInv, UseInv, PrivateInv, EntryInv,
       OldInv
  <2>3. EntryInv' /\ OldInv' /\ RotationRetiresOldBaton'
    BY <1>1 DEF Arrive, Presentable, EntryInv, OldInv, UseInv, PlaceInv,
       RotationRetiresOldBaton
  <2>4. LockInv'
    BY <1>1 DEF Arrive, Presentable, LockInv, UseInv
  <2>5. Placed'
    BY <1>1 DEF Arrive, Presentable, Placed, Owes, PlaceInv, UseInv,
       EntryInv, OldInv, PrivateInv
  <2>. QED
    BY <2>1, <2>2, <2>3, <2>4, <2>5 DEF IInv
<1>2. CASE Reject(r)
  <2>1. TypeOK'
    BY <1>2 DEF Reject, PlaceInv, UseInv
  <2>2. PlaceInv' /\ UseInv' /\ PrivateInv'
    BY <1>2 DEF Reject, PlaceInv, UseInv, PrivateInv, EntryInv, OldInv
  <2>3. EntryInv' /\ OldInv' /\ RotationRetiresOldBaton'
    BY <1>2 DEF Reject, EntryInv, OldInv, UseInv, PlaceInv,
       RotationRetiresOldBaton
  <2>4. LockInv'
    BY <1>2 DEF Reject, LockInv, UseInv
  <2>5. Placed'
    BY <1>2 DEF Reject, Placed, Owes, PlaceInv, UseInv, EntryInv, OldInv,
       PrivateInv
  <2>. QED
    BY <2>1, <2>2, <2>3, <2>4, <2>5 DEF IInv
<1>3. CASE ResolveBaton(r)
  <2>1. TypeOK'
    BY <1>3 DEF ResolveBaton, GetRefresh, FirstLabel, Kinds, PlaceInv, UseInv
  <2>2. PlaceInv' /\ UseInv' /\ PrivateInv'
    BY <1>3 DEF ResolveBaton, GetRefresh, FirstLabel, Kinds, PlaceInv,
       UseInv, PrivateInv, EntryInv, OldInv
  <2>3. EntryInv' /\ OldInv' /\ RotationRetiresOldBaton'
    BY <1>3 DEF ResolveBaton, GetRefresh, FirstLabel, Kinds, EntryInv,
       OldInv, UseInv, PlaceInv, RotationRetiresOldBaton
  <2>4. LockInv'
    BY <1>3 DEF ResolveBaton, GetRefresh, FirstLabel, Kinds, LockInv, UseInv
  <2>5. Placed'
    BY <1>3 DEF ResolveBaton, GetRefresh, FirstLabel, Kinds, Placed, Owes,
       PlaceInv, UseInv, EntryInv, OldInv, PrivateInv
  <2>. QED
    BY <2>1, <2>2, <2>3, <2>4, <2>5 DEF IInv
<1>4. CASE BatonNotFound(r)
  <2>1. TypeOK'
    BY <1>4 DEF BatonNotFound, PlaceInv, UseInv
  <2>2. PlaceInv' /\ UseInv' /\ PrivateInv'
    BY <1>4 DEF BatonNotFound, PlaceInv, UseInv, PrivateInv, EntryInv,
       OldInv
  <2>3. EntryInv' /\ OldInv' /\ RotationRetiresOldBaton'
    BY <1>4 DEF BatonNotFound, EntryInv, OldInv, UseInv, PlaceInv,
       RotationRetiresOldBaton
  <2>4. LockInv'
    BY <1>4 DEF BatonNotFound, LockInv, UseInv
  <2>5. Placed'
    BY <1>4 DEF BatonNotFound, Placed, Owes, PlaceInv, UseInv, EntryInv,
       OldInv, PrivateInv
  <2>. QED
    BY <2>1, <2>2, <2>3, <2>4, <2>5 DEF IInv
<1>5. CASE CreateStream(r)
  <2>1. TypeOK'
    BY <1>5 DEF CreateStream, OpenStream, FirstLabel, Kinds, PlaceInv, UseInv
  <2>2. PlaceInv' /\ UseInv' /\ PrivateInv'
    BY <1>5 DEF CreateStream, OpenStream, FirstLabel, Kinds, PlaceInv,
       UseInv, PrivateInv, EntryInv, OldInv
  <2>3. EntryInv' /\ OldInv' /\ RotationRetiresOldBaton'
    BY <1>5 DEF CreateStream, OpenStream, FirstLabel, Kinds, EntryInv,
       OldInv, UseInv, PlaceInv, RotationRetiresOldBaton
  <2>4. LockInv'
    BY <1>5 DEF CreateStream, OpenStream, FirstLabel, Kinds, LockInv, UseInv
  <2>5. Placed'
    BY <1>5 DEF CreateStream, OpenStream, FirstLabel, Kinds, Placed, Owes,
       PlaceInv, UseInv, EntryInv, OldInv, PrivateInv
  <2>. QED
    BY <2>1, <2>2, <2>3, <2>4, <2>5 DEF IInv
<1>6. CASE CreateFails(r)
  <2>1. TypeOK'
    BY <1>6 DEF CreateFails, PlaceInv, UseInv
  <2>2. PlaceInv' /\ UseInv' /\ PrivateInv'
    BY <1>6 DEF CreateFails, PlaceInv, UseInv, PrivateInv, EntryInv, OldInv
  <2>3. EntryInv' /\ OldInv' /\ RotationRetiresOldBaton'
    BY <1>6 DEF CreateFails, EntryInv, OldInv, UseInv, PlaceInv,
       RotationRetiresOldBaton
  <2>4. LockInv'
    BY <1>6 DEF CreateFails, LockInv, UseInv
  <2>5. Placed'
    BY <1>6 DEF CreateFails, Placed, Owes, PlaceInv, UseInv, EntryInv,
       OldInv, PrivateInv
  <2>. QED
    BY <2>1, <2>2, <2>3, <2>4, <2>5 DEF IInv
<1>7. CASE FinishV1(r)
  <2>1. TypeOK'
    BY <1>7 DEF FinishV1, CloseStream, PlaceInv, UseInv
  <2>2. PlaceInv' /\ UseInv' /\ PrivateInv'
    BY <1>7 DEF FinishV1, CloseStream, PlaceInv, UseInv, PrivateInv,
       EntryInv, OldInv
  <2>3. EntryInv' /\ OldInv' /\ RotationRetiresOldBaton'
    BY <1>7 DEF FinishV1, CloseStream, EntryInv, OldInv, UseInv, PlaceInv,
       RotationRetiresOldBaton
  <2>4. LockInv'
    BY <1>7 DEF FinishV1, CloseStream, LockInv, UseInv
  <2>5. Placed'
    BY <1>7 DEF FinishV1, CloseStream, Placed, Owes, PlaceInv, UseInv,
       EntryInv, OldInv, PrivateInv
  <2>. QED
    BY <2>1, <2>2, <2>3, <2>4, <2>5 DEF IInv
<1>8. CASE BeginStep(r)
  <2>1. TypeOK'
    BY <1>8 DEF BeginStep, LockStream, PlaceInv, UseInv
  <2>2. PlaceInv' /\ UseInv' /\ PrivateInv'
    BY <1>8 DEF BeginStep, LockStream, PlaceInv, UseInv, PrivateInv,
       EntryInv, OldInv
  <2>3. EntryInv' /\ OldInv' /\ RotationRetiresOldBaton'
    BY <1>8 DEF BeginStep, LockStream, EntryInv, OldInv, UseInv, PlaceInv,
       RotationRetiresOldBaton
  <2>4. LockInv'
    BY <1>8 DEF BeginStep, LockStream, LockInv, UseInv
  <2>5. Placed'
    BY <1>8 DEF BeginStep, LockStream, Placed, Owes, PlaceInv, UseInv,
       EntryInv, OldInv, PrivateInv
  <2>. QED
    BY <2>1, <2>2, <2>3, <2>4, <2>5 DEF IInv
<1>9. ASSUME NEW isClose \in BOOLEAN, EndStep(r, isClose)
      PROVE  IInv'
  <2>1. TypeOK'
    <3>1. left[r] - 1 \in 0..(MaxSteps + 1)
      BY <1>9 DEF EndStep, PlaceInv
    <3>. QED
      BY <1>9, <3>1 DEF EndStep, UnlockStream, UseInv
  <2>2. PlaceInv' /\ UseInv' /\ PrivateInv'
    BY <1>9 DEF EndStep, UnlockStream, PlaceInv, UseInv, PrivateInv,
       EntryInv, OldInv
  <2>3. EntryInv' /\ OldInv' /\ RotationRetiresOldBaton'
    BY <1>9 DEF EndStep, UnlockStream, EntryInv, OldInv, UseInv, PlaceInv,
       RotationRetiresOldBaton
  <2>4. LockInv'
    BY <1>9 DEF EndStep, UnlockStream, LockInv, UseInv
  <2>5. Placed'
    BY <1>9 DEF EndStep, UnlockStream, Placed, Owes, PlaceInv, UseInv,
       EntryInv, OldInv, PrivateInv
  <2>. QED
    BY <2>1, <2>2, <2>3, <2>4, <2>5 DEF IInv
<1>10. CASE RotateBaton(r)
  <2>1. TypeOK'
    BY <1>10 DEF RotateBaton, File, Put, PlaceInv, UseInv
  <2>2. PlaceInv' /\ UseInv' /\ PrivateInv'
    BY <1>10 DEF RotateBaton, File, Put, PlaceInv, UseInv, PrivateInv, EntryInv,
       OldInv
  <2>3. EntryInv' /\ OldInv' /\ RotationRetiresOldBaton'
    BY <1>10 DEF RotateBaton, File, Put, EntryInv, OldInv, UseInv, PlaceInv,
       RotationRetiresOldBaton
  <2>4. LockInv'
    BY <1>10 DEF RotateBaton, File, Put, LockInv, UseInv
  <2>5. Placed'
    BY <1>10 DEF RotateBaton, File, Put, Placed, Owes, PlaceInv, UseInv,
       EntryInv, OldInv, PrivateInv
  <2>. QED
    BY <2>1, <2>2, <2>3, <2>4, <2>5 DEF IInv
<1>11. CASE ClosePipelineStream(r)
  <2>1. TypeOK'
    BY <1>11 DEF ClosePipelineStream, CloseStream, PlaceInv, UseInv
  <2>2. PlaceInv' /\ UseInv' /\ PrivateInv'
    BY <1>11 DEF ClosePipelineStream, CloseStream, PlaceInv, UseInv,
       PrivateInv, EntryInv, OldInv
  <2>3. EntryInv' /\ OldInv' /\ RotationRetiresOldBaton'
    BY <1>11 DEF ClosePipelineStream, CloseStream, EntryInv, OldInv, UseInv,
       PlaceInv, RotationRetiresOldBaton
  <2>4. LockInv'
    BY <1>11 DEF ClosePipelineStream, CloseStream, LockInv, UseInv
  <2>5. Placed'
    BY <1>11 DEF ClosePipelineStream, CloseStream, Placed, Owes, PlaceInv,
       UseInv, EntryInv, OldInv, PrivateInv
  <2>. QED
    BY <2>1, <2>2, <2>3, <2>4, <2>5 DEF IInv
<1>12. CASE DeleteBaton(r)
  <2>1. TypeOK'
    BY <1>12 DEF DeleteBaton, Delete, PlaceInv, UseInv
  <2>2. PlaceInv' /\ UseInv' /\ PrivateInv'
    BY <1>12 DEF DeleteBaton, Delete, PlaceInv, UseInv, PrivateInv,
       EntryInv, OldInv
  <2>3. EntryInv' /\ OldInv' /\ RotationRetiresOldBaton'
    BY <1>12 DEF DeleteBaton, Delete, EntryInv, OldInv, UseInv, PlaceInv,
       RotationRetiresOldBaton
  <2>4. LockInv'
    BY <1>12 DEF DeleteBaton, Delete, LockInv, UseInv
  <2>5. Placed'
    BY <1>12 DEF DeleteBaton, Delete, Placed, Owes, PlaceInv, UseInv,
       EntryInv, OldInv, PrivateInv
  <2>. QED
    BY <2>1, <2>2, <2>3, <2>4, <2>5 DEF IInv
<1>13. CASE RotateUpFront(r)
  <2>1. TypeOK'
    BY <1>13 DEF RotateUpFront, File, Put, PlaceInv, UseInv
  <2>2. PlaceInv' /\ UseInv' /\ PrivateInv'
    BY <1>13 DEF RotateUpFront, File, Put, PlaceInv, UseInv, PrivateInv, EntryInv,
       OldInv
  <2>3. EntryInv' /\ OldInv' /\ RotationRetiresOldBaton'
    BY <1>13 DEF RotateUpFront, File, Put, EntryInv, OldInv, UseInv, PlaceInv,
       RotationRetiresOldBaton
  <2>4. LockInv'
    BY <1>13 DEF RotateUpFront, File, Put, LockInv, UseInv
  <2>5. Placed'
    BY <1>13 DEF RotateUpFront, File, Put, Placed, Owes, PlaceInv, UseInv,
       EntryInv, OldInv, PrivateInv
  <2>. QED
    BY <2>1, <2>2, <2>3, <2>4, <2>5 DEF IInv
<1>14. CASE FirstLineFails(r)
  <2>1. TypeOK'
    BY <1>14 DEF FirstLineFails, PlaceInv, UseInv
  <2>2. PlaceInv' /\ UseInv' /\ PrivateInv'
    BY <1>14 DEF FirstLineFails, PlaceInv, UseInv, PrivateInv, EntryInv,
       OldInv
  <2>3. EntryInv' /\ OldInv' /\ RotationRetiresOldBaton'
    BY <1>14 DEF FirstLineFails, EntryInv, OldInv, UseInv, PlaceInv,
       RotationRetiresOldBaton
  <2>4. LockInv'
    BY <1>14 DEF FirstLineFails, LockInv, UseInv
  <2>5. Placed'
    BY <1>14 DEF FirstLineFails, Placed, Owes, PlaceInv, UseInv, EntryInv,
       OldInv, PrivateInv
  <2>. QED
    BY <2>1, <2>2, <2>3, <2>4, <2>5 DEF IInv
<1>15. CASE EndCursor(r)
  <2>1. TypeOK'
    BY <1>15 DEF EndCursor, UnlockStream, PlaceInv, UseInv
  <2>2. PlaceInv' /\ UseInv' /\ PrivateInv'
    BY <1>15 DEF EndCursor, UnlockStream, PlaceInv, UseInv, PrivateInv,
       EntryInv, OldInv
  <2>3. EntryInv' /\ OldInv' /\ RotationRetiresOldBaton'
    BY <1>15 DEF EndCursor, UnlockStream, EntryInv, OldInv, UseInv,
       PlaceInv, RotationRetiresOldBaton
  <2>4. LockInv'
    BY <1>15 DEF EndCursor, UnlockStream, LockInv, UseInv
  <2>5. Placed'
    BY <1>15 DEF EndCursor, UnlockStream, Placed, Owes, PlaceInv, UseInv,
       EntryInv, OldInv, PrivateInv
  <2>. QED
    BY <2>1, <2>2, <2>3, <2>4, <2>5 DEF IInv
<1>. QED
  BY <1>1, <1>2, <1>3, <1>4, <1>5, <1>6, <1>7, <1>8, <1>9, <1>10, <1>11,
     <1>12, <1>13, <1>14, <1>15 DEF Client, Handle

\* A step that leaves the requests, the streams and the entries alone.
LEMMA FrameKeepsIInv ==
    ASSUME IInv, TypeOK', UNCHANGED <<reqVars, conn, holder, entries>>
    PROVE  IInv'
<1>1. PlaceInv' /\ UseInv' /\ PrivateInv' /\ LockInv'
  BY DEF IInv, PlaceInv, UseInv, PrivateInv, LockInv, Active, reqVars
<1>2. EntryInv' /\ OldInv' /\ RotationRetiresOldBaton'
  BY DEF IInv, EntryInv, OldInv, RotationRetiresOldBaton, reqVars
<1>3. Placed'
  BY DEF IInv, Placed, Owes, reqVars
<1>. QED
  BY <1>1, <1>2, <1>3 DEF IInv

\* The end of the stream filed under b, together with its entry.
LEMMA EvictKeepsIInv ==
    ASSUME IInv, NEW b \in Requests, b \in Live, CloseStream(entries[b]),
           entries' = [entries EXCEPT ![b] = None],
           UNCHANGED <<holder, age, mu, sweeper, overdue, stopped, reqVars,
                       closer, late>>
    PROVE  IInv'
<1>. USE NoneAssumption DEF IInv, TypeOK, StoreTypeOK, reqVars, Live, CloseStream
<1>1. TypeOK'
  BY DEF Active
<1>2. PlaceInv' /\ UseInv' /\ PrivateInv' /\ LockInv'
  BY DEF PlaceInv, UseInv, PrivateInv, LockInv, EntryInv, Active
<1>3. EntryInv' /\ OldInv' /\ RotationRetiresOldBaton'
  BY DEF EntryInv, OldInv, RotationRetiresOldBaton
<1>4. Placed'
  BY DEF Placed, Owes
<1>. QED
  BY <1>1, <1>2, <1>3, <1>4

\* The clock, the sweep and Server.Close keep the invariant.
LEMMA BackgroundKeepsIInv ==
    ASSUME IInv,
           Tick \/ Sweep \/ CloseBegin \/ CloseStore \/ CloseDrain \/ CloseReturn
    PROVE  IInv'
<1>1. CASE Tick
  <2>1. TypeOK'
    BY <1>1, TTLAssumption DEF IInv, TypeOK, StoreTypeOK, Tick, Elapse, reqVars, Active
  <2>. QED
    BY <1>1, <2>1, FrameKeepsIInv DEF Tick, Elapse
<1>2. CASE Sweep /\ (SweepFire \/ SweepDeadline \/ SweepLock \/ SweepUnlock)
  <2>1. TypeOK'
    BY <1>2 DEF IInv, TypeOK, StoreTypeOK, Sweep, SweepFire, SweepDeadline,
                SweepLock, SweepUnlock, Live, reqVars, Active
  <2>2. UNCHANGED <<reqVars, conn, holder, entries>>
    BY <1>2 DEF Sweep, SweepFire, SweepDeadline, SweepLock, SweepUnlock
  <2>. QED
    BY <2>1, <2>2, FrameKeepsIInv
<1>3. ASSUME NEW b \in Requests, SweepEntry(b), UNCHANGED <<reqVars, closer, late>>
      PROVE  IInv'
  BY <1>3, EvictKeepsIInv DEF SweepEntry
<1>4. CASE CloseBegin \/ CloseStore \/ CloseReturn
  <2>1. TypeOK'
    BY <1>4 DEF IInv, TypeOK, StoreTypeOK, CloseBegin, CloseStore, CloseReturn,
                StoreCloseLock, StoreCloseUnlock, storeVars, reqVars, Active
  <2>2. UNCHANGED <<reqVars, conn, holder, entries>>
    BY <1>4 DEF CloseBegin, CloseStore, CloseReturn, StoreCloseLock,
                StoreCloseUnlock, storeVars
  <2>. QED
    BY <2>1, <2>2, FrameKeepsIInv
<1>5. CASE CloseDrain
  BY <1>5, EvictKeepsIInv DEF CloseDrain, StoreCloseEntry
<1>. QED
  BY <1>1, <1>2, <1>3, <1>4, <1>5 DEF Sweep

\* Every step keeps the invariant.
LEMMA NextIInv == IInv /\ [Next]_vars => IInv'
<1>. SUFFICES ASSUME IInv, [Next]_vars PROVE IInv'
  OBVIOUS
<1>1. CASE UNCHANGED vars
  <2>1. TypeOK'
    BY <1>1 DEF IInv, TypeOK, StoreTypeOK, vars, storeVars, reqVars, Active
  <2>. QED
    BY <1>1, <2>1, FrameKeepsIInv DEF vars, storeVars
<1>. QED
  BY <1>1, RequestKeepsIInv, BackgroundKeepsIInv DEF Next

\* Every step keeps LateInv: File is the only way into the store.
LEMMA NextLateInv == IInv /\ LateInv /\ [Next]_vars => LateInv'
<1>. SUFFICES ASSUME IInv, LateInv, [Next]_vars PROVE LateInv'
  OBVIOUS
<1>. USE DEF LateInv
<1>1. CASE UNCHANGED <<entries, closer, late>>
  BY <1>1
<1>2. ASSUME NEW r \in Requests, File(r), UNCHANGED closer
      PROVE  LateInv'
  BY <1>2 DEF File, Put
<1>3. ASSUME NEW b \in Requests \cup {None}, UNCHANGED <<closer, late>>,
             entries' = [entries EXCEPT ![b] = None]
      PROVE  LateInv'
  BY <1>3 DEF IInv, TypeOK, StoreTypeOK
<1>4. CASE CloseReturn
  BY <1>4 DEF CloseReturn, StoreCloseUnlock, Live
<1>5. CASE closer' # "closed"
  BY <1>5
<1>6. ASSUME NEW r \in Requests, Client(r) \/ Handle(r)
      PROVE  LateInv'
  <2>1. CASE RotateBaton(r) \/ RotateUpFront(r)
    BY <2>1, <1>2 DEF RotateBaton, RotateUpFront
  <2>2. CASE DeleteBaton(r)
    BY <2>2, <1>3 DEF DeleteBaton, Delete, IInv, TypeOK
  <2>3. CASE ~(RotateBaton(r) \/ RotateUpFront(r) \/ DeleteBaton(r))
    BY <1>6, <2>3, <1>1
       DEF Client, Handle, Arrive, Reject, ResolveBaton, GetRefresh,
           BatonNotFound, CreateStream, CreateFails, FinishV1, BeginStep,
           EndStep, ClosePipelineStream, FirstLineFails, EndCursor, storeVars
  <2>. QED
    BY <2>1, <2>2, <2>3
<1>7. CASE Tick \/ Sweep
  <2>1. CASE \E b \in Requests : SweepEntry(b) /\ UNCHANGED <<closer, late>>
    BY <2>1, <1>3 DEF SweepEntry
  <2>2. CASE UNCHANGED <<entries, closer, late>>
    BY <2>2, <1>1
  <2>. QED
    BY <1>7, <2>1, <2>2 DEF Tick, Elapse, Sweep, SweepFire, SweepDeadline,
       SweepLock, SweepUnlock
<1>8. CASE CloseDrain
  BY <1>8, <1>3 DEF CloseDrain, StoreCloseEntry
<1>9. CASE CloseBegin \/ CloseStore
  BY <1>9, <1>5 DEF CloseBegin, CloseStore
<1>10. CASE UNCHANGED vars
  BY <1>10, <1>1 DEF vars, storeVars
<1>. QED
  BY <1>4, <1>6, <1>7, <1>8, <1>9, <1>10 DEF Next

THEOREM Invariance == Spec => []IInv
<1>. QED
  BY InitIInv, NextIInv, PTL DEF Spec

-----------------------------------------------------------------------------
(* What follows *)

\* All variables stay in their types, saturating counters included.
THEOREM TypeCorrect == Spec => []TypeOK
<1>1. IInv => TypeOK
  BY DEF IInv
<1>. QED
  BY <1>1, Invariance, PTL

\* No pinned connection leaks: an open stream is owed by a handler or in a
\* store that sweep and Close still look after, whoever shares batons with
\* whom, and during Close; but for those filed after Close.
THEOREM StreamsNeverLeak == Spec => []NoOrphan
<1>1. Init => LateInv
  BY DEF Init, LateInv
<1>2. Spec => []LateInv
  BY <1>1, NextLateInv, Invariance, PTL DEF Spec
<1>3. IInv /\ LateInv => NoOrphan
  BY NoneAssumption DEF IInv, Placed, LateInv, NoOrphan, FiledTooLate
<1>. QED
  BY <1>2, <1>3, Invariance, PTL

\* A baton that was exchanged for a new one opens nothing any more.
THEOREM OldBatonsStayRetired == Spec => []RotationRetiresOldBaton
<1>1. IInv => RotationRetiresOldBaton
  BY DEF IInv
<1>. QED
  BY <1>1, Invariance, PTL

\* Two handlers never run SQL on one connection at the same time.
THEOREM MutualExclusion == Spec => []ExclusiveQueries
<1>1. IInv => ExclusiveQueries
  <2>. SUFFICES ASSUME IInv, NEW r \in Requests, NEW q \in Requests, r # q,
                       NEW s \in Requests, Querying(r, s), Querying(q, s)
                PROVE  FALSE
    BY DEF ExclusiveQueries
  <2>1. CASE pc[r] = "v1exec" \/ pc[q] = "v1exec"
    BY <2>1 DEF IInv, PrivateInv, Querying
  <2>2. CASE pc[r] = "exec" /\ pc[q] = "exec"
    BY <2>2 DEF IInv, LockInv, Querying
  <2>. QED
    BY <2>1, <2>2 DEF Querying
<1>. QED
  BY <1>1, Invariance, PTL

\* Neither the sweep, nor Close, nor another handler closes a connection
\* while a query runs on it.
THEOREM QueriesNeverCut == Spec => CloseNeverCutsQuery
<1>. DEFINE Cuts(r, s) ==
        conn[s] = "open" /\ conn'[s] = "closed" /\ pc[r] = "exec" /\ use[r] = s
<1>1. ASSUME IInv, [Next]_vars, NEW r \in Requests, NEW s \in Requests, Cuts(r, s)
      PROVE  FALSE
  <2>. USE <1>1 DEF IInv, TypeOK, StoreTypeOK
  <2>1. holder[s] = r
    BY DEF LockInv
  <2>2. PICK t \in Requests \cup {None} : CloseStream(t)
    BY DEF Next, Client, Handle, Arrive, Reject, ResolveBaton, BatonNotFound,
           CreateStream, OpenStream, CreateFails, FinishV1, BeginStep, EndStep,
           RotateBaton, ClosePipelineStream, DeleteBaton, RotateUpFront,
           FirstLineFails, EndCursor, Tick, Elapse, Sweep, SweepFire,
           SweepDeadline, SweepLock, SweepEntry, SweepUnlock, CloseBegin,
           CloseStore, StoreCloseLock, CloseDrain, StoreCloseEntry,
           CloseReturn, StoreCloseUnlock, vars, storeVars
  <2>3. t = s
    BY <2>2 DEF CloseStream
  <2>. QED
    BY <2>1, <2>2, <2>3, NoneAssumption DEF CloseStream
<1>2. IInv /\ [Next]_vars =>
        \A r, s \in Requests :
            conn[s] = "open" /\ conn'[s] = "closed" /\ pc[r] = "exec" => use[r] # s
  BY <1>1
<1>. QED
  BY <1>2, Invariance, PTL DEF Spec, CloseNeverCutsQuery

=============================================================================
