-------------------------- MODULE WsSession_proofs --------------------------
(***************************************************************************)
(* Theorems about WsSession, for any numbers of requests, stream ids and   *)
(* calls of EvolveDatabase.                                                *)
(*                                                                         *)
(* The mutexes protect what they should because each is held exactly while *)
(* its holder is at one place (MutexInv).  A stream is in the table only   *)
(* after its opener has returned (LifeInv), so that what EvolveDatabase    *)
(* marks is older than the database it installs (GenInv).  A client that   *)
(* sends one request at a time for a stream id keeps the id to itself from *)
(* the check that it is free to the moment it is filed (IdInv), which is   *)
(* what keeps streams from being orphaned or closed by mistake.            *)
(***************************************************************************)
EXTENDS WsSession, TLAPS

\* The request has been received and has not been answered.
Pending(r) == inbox = r \/ InFlight(r)

\* What the place of a request says about its type and its stream.
PlaceInv ==
    \A r \in Reqs :
        /\ Pending(r) => op[r] \in Ops /\ ((id[r] = None) <=> (op[r] \in NoId))
        /\ pc[r] \in {"connect", "add"} => op[r] \in {"open", "assign"}
        /\ pc[r] \in {"found", "lock", "exec", "file"} =>
              op[r] \in {"query", "peek", "openCursor"} /\ st[r] \in Reqs
        /\ pc[r] \in {"remove", "removing"} =>
              op[r] \in {"close", "query", "peek", "openCursor"}
        /\ inbox = r => session = "running" /\ pc[r] = "new"

\* sess.mu is held by whoever is removing a stream, walking the table or
\* closing the session; stream.mu by whoever executes, or by EvolveDatabase.
MutexInv ==
    /\ \A r \in Reqs :
          /\ sessMu = r <=> pc[r] \in {"removing", "walking"}
          /\ pc[r] = "removing" => streams[id[r]] # None
          /\ pc[r] = "exec" => holder[st[r]] = r
    /\ sessMu = Reader <=> session = "closing"
    /\ LockOrder

\* A stream is connected while its opener runs, filed when it has returned,
\* and superseded when it has been filed.
LifeInv ==
    /\ \A s \in Reqs :
          /\ pc[s] \in {"new", "start", "connect"} => conn[s] = "none"
          /\ superseded[s] => pc[s] = "done"
    /\ \A i \in Ids : streams[i] # None => pc[streams[i]] = "done"
    /\ \A e \in Evolvers :
          /\ due[e] \subseteq Open
          /\ meeting[e] # None =>
                evolve[e] = "ranging" /\ pc[meeting[e]] = "done"

\* Calls of EvolveDatabase that do not overlap raise the generation by one.
GenInv ==
    SerialEvolve =>
        /\ \A e, f \in Evolvers :
              /\ evolve[e] \in {"loaded", "ranging"}
              /\ evolve[f] \in {"loaded", "ranging"}
              => e = f
        /\ \A e \in Evolvers :
              /\ evolve[e] = "loaded" => newGen[e] = gen + 1
              /\ evolve[e] = "ranging" => newGen[e] = gen
              /\ meeting[e] # None => cgen[meeting[e]] # newGen[e]
        /\ \A s \in Reqs : cgen[s] <= gen
        /\ SupersededIsOlder

\* An open stream is in the table or with its opener.
Placed ==
    \A s \in Reqs :
        conn[s] = "open" => Filed(s) \/ (\E r \in Reqs : Owes(r, s))

\* One request at a time concerns a stream id.
IdInv ==
    SequentialClient =>
        /\ \A r, q \in Reqs :
              Pending(r) /\ Pending(q) /\ r # q /\ id[r] # None
                 => id[r] # id[q]
        /\ \A r \in Reqs :
              /\ pc[r] \in {"connect", "add"} /\ op[r] = "open"
                    => streams[id[r]] = None
              /\ pc[r] \in {"found", "remove", "removing"} /\ op[r] # "close"
                    => st[r] \in Reqs /\ streams[id[r]] \in {None, st[r]}
              /\ pc[r] \in {"remove", "removing"} /\ op[r] # "close"
                    => superseded[st[r]]
        /\ Placed

IInv ==
    /\ TypeOK
    /\ PlaceInv
    /\ MutexInv
    /\ LifeInv
    /\ GenInv
    /\ NoQueryAfterCancel
    /\ IdInv

-----------------------------------------------------------------------------
(* The invariant is inductive *)

\* Nothing has been sent and the server is serving.
LEMMA InitIInv == Init => IInv
<1>. SUFFICES ASSUME Init PROVE IInv
  OBVIOUS
<1>. USE NamesAssumption DEF Init, InFlight, Open, Pending
<1>1. TypeOK
  BY DEF TypeOK
<1>2. PlaceInv /\ NoQueryAfterCancel
  BY DEF PlaceInv, NoQueryAfterCancel
<1>3. MutexInv /\ LifeInv
  BY DEF MutexInv, LockOrder, LifeInv
<1>4. GenInv /\ IdInv
  BY DEF GenInv, SupersededIsOlder, IdInv, Placed, Filed, Owes
<1>. QED
  BY <1>1, <1>2, <1>3, <1>4 DEF IInv

\* What becomes of the session and of Close touches no stream, and Close
\* cancels only when nothing is pending.
LEMMA SessionKeeps ==
    ASSUME IInv,
           \/ Accept \/ Register \/ CountIn \/ Hello \/ PeerCloses
           \/ ReaderReturns \/ Deregister \/ CloseAllLock \/ CloseAllUnlock
           \/ CloseBegin \/ CloseConns \/ WaitAndCancel
    PROVE  IInv'
<1>. USE NamesAssumption DEF IInv, streamVars, reqVars, sessVars,
       evolveVars, tableVars, InFlight, Open
<1>1. TypeOK'
  <2>1. CASE Accept \/ Register \/ CountIn \/ Hello
    BY <2>1 DEF TypeOK, Accept, Register, CountIn, Hello
  <2>4. CASE PeerCloses \/ ReaderReturns \/ Deregister
    BY <2>4 DEF TypeOK, PeerCloses, ReaderReturns, Deregister
  <2>2. CASE CloseAllLock \/ CloseAllUnlock
    BY <2>2 DEF TypeOK, CloseAllLock, CloseAllUnlock
  <2>3. CASE CloseBegin \/ CloseConns \/ WaitAndCancel
    BY <2>3 DEF TypeOK, CloseBegin, CloseConns, WaitAndCancel
  <2>. QED
    BY <2>1, <2>2, <2>3, <2>4
<1>2. PlaceInv'
  BY DEF TypeOK, PlaceInv, Pending, NoId, Accept, Register, CountIn, Hello,
     PeerCloses, ReaderReturns, Deregister, CloseAllLock, CloseAllUnlock,
     CloseBegin, CloseConns, WaitAndCancel, InConns, Counted
<1>3. MutexInv'
  BY DEF TypeOK, PlaceInv, MutexInv, LockOrder, Accept, Register, CountIn,
     Hello, PeerCloses, ReaderReturns, Deregister, CloseAllLock,
     CloseAllUnlock, CloseBegin, CloseConns, WaitAndCancel, InConns, Counted
<1>4. LifeInv'
  BY DEF TypeOK, PlaceInv, LifeInv, Accept, Register, CountIn, Hello,
     PeerCloses, ReaderReturns, Deregister, CloseAllLock, CloseAllUnlock,
     CloseBegin, CloseConns, WaitAndCancel, InConns, Counted
<1>5. GenInv'
  BY DEF TypeOK, LifeInv, GenInv, SupersededIsOlder, Accept, Register,
     CountIn, Hello, PeerCloses, ReaderReturns, Deregister, CloseAllLock,
     CloseAllUnlock, CloseBegin, CloseConns, WaitAndCancel, InConns, Counted
<1>6. NoQueryAfterCancel'
  BY DEF TypeOK, PlaceInv, NoQueryAfterCancel, Accept, Register, CountIn,
     Hello, PeerCloses, ReaderReturns, Deregister, CloseAllLock,
     CloseAllUnlock, CloseBegin, CloseConns, WaitAndCancel, InConns, Counted
<1>7. IdInv'
  BY DEF TypeOK, PlaceInv, LifeInv, IdInv, Pending, Placed, Filed, Owes,
     Accept,
     Register, CountIn, Hello, PeerCloses, ReaderReturns, Deregister,
     CloseAllLock, CloseAllUnlock, CloseBegin, CloseConns, WaitAndCancel,
     InConns, Counted
<1>. QED
  BY <1>1, <1>2, <1>3, <1>4, <1>5, <1>6, <1>7

\* A request is received while nothing else is in the inbox; a client with
\* one request at a time per stream id has nothing pending on that id.
LEMMA ReceiveRequestKeeps ==
    ASSUME IInv, NEW r \in Reqs, NEW o \in Ops, NEW i \in Ids \cup {None},
           ReceiveRequest(r, o, i)
    PROVE  IInv'
<1>. USE NamesAssumption DEF IInv, streamVars, reqVars, sessVars,
       evolveVars, tableVars, InFlight, Open
<1>1. TypeOK'
  BY DEF TypeOK, PlaceInv, MutexInv, ReceiveRequest, MaySend
<1>2. PlaceInv'
  BY DEF TypeOK, PlaceInv, Pending, NoId, ReceiveRequest, MaySend
<1>3. MutexInv'
  BY DEF TypeOK, PlaceInv, MutexInv, LockOrder, ReceiveRequest, MaySend
<1>4. LifeInv'
  BY DEF TypeOK, PlaceInv, LifeInv, ReceiveRequest, MaySend
<1>5. GenInv'
  BY DEF TypeOK, LifeInv, GenInv, SupersededIsOlder, ReceiveRequest, MaySend
<1>6. NoQueryAfterCancel'
  BY DEF TypeOK, PlaceInv, NoQueryAfterCancel, ReceiveRequest, MaySend
<1>7. IdInv'
  BY DEF TypeOK, PlaceInv, LifeInv, IdInv, Pending, Placed, Filed, Owes,
     ReceiveRequest, MaySend
<1>. QED
  BY <1>1, <1>2, <1>3, <1>4, <1>5, <1>6, <1>7

\* The goroutine of the received request starts; the session is running.
LEMMA StartRequestKeeps ==
    ASSUME IInv, StartRequest
    PROVE  IInv'
<1>. USE NamesAssumption DEF IInv, streamVars, reqVars, sessVars,
       evolveVars, tableVars, InFlight, Open
<1>1. TypeOK'
  BY DEF TypeOK, PlaceInv, MutexInv, StartRequest, Goto
<1>2. PlaceInv'
  BY DEF TypeOK, PlaceInv, Pending, NoId, StartRequest, Goto
<1>3. MutexInv'
  BY DEF TypeOK, PlaceInv, MutexInv, LockOrder, StartRequest, Goto
<1>4. LifeInv'
  BY DEF TypeOK, PlaceInv, LifeInv, StartRequest, Goto
<1>5. GenInv'
  BY DEF TypeOK, LifeInv, GenInv, SupersededIsOlder, StartRequest, Goto
<1>6. NoQueryAfterCancel'
  BY DEF TypeOK, PlaceInv, NoQueryAfterCancel, StartRequest, Goto
<1>7. IdInv'
  BY DEF TypeOK, PlaceInv, LifeInv, IdInv, Pending, Placed, Filed, Owes,
     StartRequest, Goto
<1>. QED
  BY <1>1, <1>2, <1>3, <1>4, <1>5, <1>6, <1>7

\* The end of the session closes one stream that nobody holds.
LEMMA CloseAllStreamKeeps ==
    ASSUME IInv, NEW i \in Ids, CloseAllStream(i)
    PROVE  IInv'
<1>. USE NamesAssumption DEF IInv, streamVars, reqVars, sessVars,
       evolveVars, tableVars, InFlight, Open
<1>1. TypeOK'
  BY DEF TypeOK, PlaceInv, MutexInv, CloseAllStream
<1>2. PlaceInv'
  BY DEF TypeOK, PlaceInv, Pending, NoId, CloseAllStream
<1>3. MutexInv'
  BY DEF TypeOK, PlaceInv, MutexInv, LockOrder, CloseAllStream
<1>4. LifeInv'
  BY DEF TypeOK, PlaceInv, LifeInv, CloseAllStream
<1>5. GenInv'
  BY DEF TypeOK, LifeInv, GenInv, SupersededIsOlder, CloseAllStream
<1>6. NoQueryAfterCancel'
  BY DEF TypeOK, PlaceInv, NoQueryAfterCancel, CloseAllStream
<1>7. IdInv'
  BY DEF TypeOK, PlaceInv, LifeInv, IdInv, Pending, Placed, Filed, Owes,
     CloseAllStream
<1>. QED
  BY <1>1, <1>2, <1>3, <1>4, <1>5, <1>6, <1>7

\* A goroutine that goes on, or returns, keeps its variables well typed.
LEMMA StepTyped ==
    ASSUME TypeOK, NEW r \in Reqs,
           NEW label \in {"connect", "file", "removing"}, Step(r, label)
    PROVE  /\ pc' \in [Reqs -> {"new", "start", "connect", "add", "found",
                               "lock", "exec", "file", "remove",
                               "removing", "walking", "done"}]
           /\ UNCHANGED <<op, id, st, before>>
BY DEF TypeOK, Step, Goto

\* Finish(r) keeps the tables of the requests in their types.
LEMMA FinishTyped ==
    ASSUME TypeOK, NEW r \in Reqs, Finish(r)
    PROVE  /\ pc' \in [Reqs -> {"new", "start", "connect", "add", "found",
                               "lock", "exec", "file", "remove",
                               "removing", "walking", "done"}]
           /\ op' \in [Reqs -> Ops \cup {None}]
           /\ id' \in [Reqs -> Ids \cup {None}]
           /\ st' \in [Reqs -> Reqs \cup {None}]
           /\ before' \in [Reqs -> SUBSET Reqs]
BY DEF TypeOK, Finish, Goto

LEMMA CheckIdFreeTyped ==
    ASSUME TypeOK, NEW r \in Reqs, CheckIdFree(r)
    PROVE  TypeOK'
<1>1. UNCHANGED <<streamVars, tableVars, sessVars, closer, evolveVars>>
  BY DEF CheckIdFree
<1>2. CASE Step(r, "connect")
  BY <1>1, <1>2, StepTyped
     DEF TypeOK, streamVars, tableVars, sessVars, evolveVars
<1>3. CASE Finish(r)
  BY <1>1, <1>3, FinishTyped
     DEF TypeOK, streamVars, tableVars, sessVars, evolveVars
<1>. QED
  BY <1>2, <1>3 DEF CheckIdFree

\* The mutex it lets go of is free.
LEMMA UnlockStreamTyped ==
    ASSUME TypeOK, NEW r \in Reqs, NEW ok \in BOOLEAN, UnlockStream(r, ok)
    PROVE  TypeOK'
<1>1. /\ UNCHANGED <<streamVars, streams, sessMu, todo, late, sessVars, closer,
                    evolveVars>>
      /\ holder' \in [Reqs -> Reqs \cup Evolvers \cup {None}]
  BY DEF UnlockStream, TypeOK
<1>2. CASE Step(r, "file")
  BY <1>1, <1>2, StepTyped DEF TypeOK, streamVars, sessVars, evolveVars
<1>3. CASE Finish(r)
  BY <1>1, <1>3, FinishTyped DEF TypeOK, streamVars, sessVars, evolveVars
<1>. QED
  BY <1>2, <1>3 DEF UnlockStream

\* The id was free under sess.mu, or the request is refused.
LEMMA CheckIdFreeKeeps ==
    ASSUME IInv, NEW r \in Reqs, CheckIdFree(r)
    PROVE  IInv'
<1>. USE NamesAssumption DEF IInv, streamVars, reqVars, sessVars,
       evolveVars, tableVars, InFlight, Open
<1>1. TypeOK'
  BY CheckIdFreeTyped
<1>2. PlaceInv'
  BY DEF TypeOK, PlaceInv, Pending, NoId, CheckIdFree, Step, Finish, Goto
<1>3. MutexInv'
  BY DEF TypeOK, PlaceInv, MutexInv, LockOrder, CheckIdFree, Step, Finish,
     Goto
<1>4. LifeInv'
  BY DEF TypeOK, PlaceInv, LifeInv, CheckIdFree, Step, Finish, Goto
<1>5. GenInv'
  BY DEF TypeOK, LifeInv, GenInv, SupersededIsOlder, CheckIdFree, Step,
     Finish, Goto
<1>6. NoQueryAfterCancel'
  BY DEF TypeOK, PlaceInv, NoQueryAfterCancel, CheckIdFree, Step, Finish,
     Goto
<1>7. IdInv'
  <2>1. CASE Step(r, "connect")
    <3>1. /\ UNCHANGED <<op, id, st, streams, conn, superseded, inbox>>
          /\ \A q \in Reqs : pc'[q] = IF q = r THEN "connect" ELSE pc[q]
          /\ op[r] = "open" => streams[id[r]] = None
          /\ pc[r] = "start"
      BY <2>1 DEF TypeOK, CheckIdFree, Step, Finish, Goto
    <3>2. \A q \in Reqs : Pending(q)' <=> Pending(q)
      BY <3>1 DEF Pending
    <3>3. Placed => Placed'
      BY <3>1 DEF Placed, Filed, Owes
    <3>. QED
      BY <3>1, <3>2, <3>3 DEF IdInv
  <2>2. CASE Finish(r)
    BY <2>2 DEF TypeOK, PlaceInv, LifeInv, IdInv, Pending, Placed, Filed,
       Owes, CheckIdFree, Finish, Goto
  <2>. QED
    BY <2>1, <2>2 DEF CheckIdFree
<1>. QED
  BY <1>1, <1>2, <1>3, <1>4, <1>5, <1>6, <1>7

\* open_stream_assigned has no id to check.
LEMMA StartAssignedKeeps ==
    ASSUME IInv, NEW r \in Reqs, StartAssigned(r)
    PROVE  IInv'
<1>. USE NamesAssumption DEF IInv, streamVars, reqVars, sessVars,
       evolveVars, tableVars, InFlight, Open
<1>1. TypeOK'
  BY DEF TypeOK, PlaceInv, MutexInv, StartAssigned, Step, Goto
<1>2. PlaceInv'
  BY DEF TypeOK, PlaceInv, Pending, NoId, StartAssigned, Step, Goto
<1>3. MutexInv'
  BY DEF TypeOK, PlaceInv, MutexInv, LockOrder, StartAssigned, Step, Goto
<1>4. LifeInv'
  BY DEF TypeOK, PlaceInv, LifeInv, StartAssigned, Step, Goto
<1>5. GenInv'
  BY DEF TypeOK, LifeInv, GenInv, SupersededIsOlder, StartAssigned, Step,
     Goto
<1>6. NoQueryAfterCancel'
  BY DEF TypeOK, PlaceInv, NoQueryAfterCancel, StartAssigned, Step, Goto
<1>7. IdInv'
  BY DEF TypeOK, PlaceInv, LifeInv, IdInv, Pending, Placed, Filed, Owes,
     StartAssigned, Step, Goto
<1>. QED
  BY <1>1, <1>2, <1>3, <1>4, <1>5, <1>6, <1>7

\* A new connection belongs to the current database.
LEMMA OpenStreamKeeps ==
    ASSUME IInv, NEW r \in Reqs, OpenStream(r)
    PROVE  IInv'
<1>. USE NamesAssumption DEF IInv, streamVars, reqVars, sessVars,
       evolveVars, tableVars, InFlight, Open
<1>1. TypeOK'
  BY DEF TypeOK, PlaceInv, MutexInv, OpenStream, Step, Goto
<1>2. PlaceInv'
  BY DEF TypeOK, PlaceInv, Pending, NoId, OpenStream, Step, Goto
<1>3. MutexInv'
  BY DEF TypeOK, PlaceInv, MutexInv, LockOrder, OpenStream, Step, Goto
<1>4. LifeInv'
  BY DEF TypeOK, PlaceInv, LifeInv, OpenStream, Step, Goto
<1>5. GenInv'
  BY DEF TypeOK, LifeInv, GenInv, SupersededIsOlder, OpenStream, Step, Goto
<1>6. NoQueryAfterCancel'
  BY DEF TypeOK, PlaceInv, NoQueryAfterCancel, OpenStream, Step, Goto
<1>7. IdInv'
  BY DEF TypeOK, PlaceInv, LifeInv, IdInv, Pending, Placed, Filed, Owes,
     OpenStream, Step, Goto
<1>. QED
  BY <1>1, <1>2, <1>3, <1>4, <1>5, <1>6, <1>7

\* Nothing was connected.
LEMMA OpenStreamFailsKeeps ==
    ASSUME IInv, NEW r \in Reqs, OpenStreamFails(r)
    PROVE  IInv'
<1>. USE NamesAssumption DEF IInv, streamVars, reqVars, sessVars,
       evolveVars, tableVars, InFlight, Open
<1>1. TypeOK'
  BY DEF TypeOK, PlaceInv, MutexInv, OpenStreamFails, Finish, Goto
<1>2. PlaceInv'
  BY DEF TypeOK, PlaceInv, Pending, NoId, OpenStreamFails, Finish, Goto
<1>3. MutexInv'
  BY DEF TypeOK, PlaceInv, MutexInv, LockOrder, OpenStreamFails, Finish,
     Goto
<1>4. LifeInv'
  BY DEF TypeOK, PlaceInv, LifeInv, OpenStreamFails, Finish, Goto
<1>5. GenInv'
  BY DEF TypeOK, LifeInv, GenInv, SupersededIsOlder, OpenStreamFails,
     Finish, Goto
<1>6. NoQueryAfterCancel'
  BY DEF TypeOK, PlaceInv, NoQueryAfterCancel, OpenStreamFails, Finish, Goto
<1>7. IdInv'
  BY DEF TypeOK, PlaceInv, LifeInv, IdInv, Pending, Placed, Filed, Owes,
     OpenStreamFails, Finish, Goto
<1>. QED
  BY <1>1, <1>2, <1>3, <1>4, <1>5, <1>6, <1>7

\* The stream is filed by the request that opened it, which then returns.
LEMMA AddStreamKeeps ==
    ASSUME IInv, NEW r \in Reqs, AddStream(r)
    PROVE  IInv'
<1>. USE NamesAssumption DEF IInv, streamVars, reqVars, sessVars,
       evolveVars, tableVars, InFlight, Open
<1>1. TypeOK'
  <2>1. /\ UNCHANGED <<streamVars, holder, sessMu, todo, sessVars, closer,
                      evolveVars>>
        /\ streams' \in [Ids -> Reqs \cup {None}]
        /\ late' \in SUBSET Reqs
    BY DEF AddStream, FileStream, TypeOK
  <2>. QED
    BY <2>1, FinishTyped DEF AddStream, FileStream, TypeOK
<1>2. PlaceInv'
  BY DEF TypeOK, PlaceInv, Pending, NoId, AddStream, FileStream, Finish, Goto
<1>3. MutexInv'
  BY DEF TypeOK, PlaceInv, MutexInv, LockOrder, AddStream, FileStream,
     Finish, Goto
<1>4. LifeInv'
  BY DEF TypeOK, PlaceInv, LifeInv, AddStream, FileStream, Finish, Goto
<1>5. GenInv'
  BY DEF TypeOK, LifeInv, GenInv, SupersededIsOlder, AddStream, FileStream,
     Finish, Goto
<1>6. NoQueryAfterCancel'
  BY DEF TypeOK, PlaceInv, NoQueryAfterCancel, AddStream, FileStream, Finish, Goto
<1>7. IdInv'
  <2>. SUFFICES ASSUME SequentialClient
                PROVE  IdInv'
    BY DEF IdInv
  <2>0. /\ id[r] \in Ids
        /\ Pending(r)
        /\ streams[id[r]] = None
        /\ \A q \in Reqs : Pending(q)' => Pending(q) /\ q # r
    BY DEF AddStream, FileStream, Finish, Goto, TypeOK, PlaceInv, IdInv,
       Pending, NoId
  <2>1. \A p, q \in Reqs :
           Pending(p)' /\ Pending(q)' /\ p # q /\ id'[p] # None
              => id'[p] # id'[q]
    BY <2>0 DEF AddStream, FileStream, Finish, Goto, TypeOK, IdInv
  <2>2. \A q \in Reqs :
           /\ pc'[q] \in {"connect", "add"} /\ op'[q] = "open"
                 => streams'[id'[q]] = None
           /\ pc'[q] \in {"found", "remove", "removing"} /\ op'[q] # "close"
                 => /\ st'[q] \in Reqs
                    /\ streams'[id'[q]] \in {None, st'[q]}
           /\ pc'[q] \in {"remove", "removing"} /\ op'[q] # "close"
                 => superseded'[st'[q]]
    <3>. TAKE q \in Reqs
    <3>1. CASE q = r
      BY <3>1 DEF AddStream, FileStream, Finish, Goto, TypeOK
    <3>2. CASE q # r /\ Pending(q)
      <4>1. id[q] # id[r]
        BY <2>0, <3>2 DEF IdInv
      <4>2. streams'[id[q]] = streams[id[q]]
        BY <2>0, <3>2, <4>1 DEF AddStream, FileStream, TypeOK, PlaceInv, NoId
      <4>. QED
        BY <3>2, <4>2 DEF AddStream, FileStream, Finish, Goto, TypeOK, IdInv
    <3>3. CASE q # r /\ ~Pending(q)
      BY <3>3 DEF AddStream, FileStream, Finish, Goto, TypeOK, Pending
    <3>. QED
      BY <3>1, <3>2, <3>3
  <2>3. Placed'
    BY <2>0 DEF AddStream, FileStream, Finish, Goto, TypeOK, IdInv, Placed,
       Filed, Owes
  <2>. QED
    BY <2>1, <2>2, <2>3 DEF IdInv
<1>. QED
  BY <1>1, <1>2, <1>3, <1>4, <1>5, <1>6, <1>7

\* The id that was drawn is free, and no pending request names it.
LEMMA AddStreamAssignedKeeps ==
    ASSUME IInv, NEW r \in Reqs, NEW i \in Ids, AddStreamAssigned(r, i)
    PROVE  IInv'
<1>. USE NamesAssumption DEF IInv, streamVars, reqVars, sessVars,
       evolveVars, tableVars, InFlight, Open
<1>1. TypeOK'
  BY DEF TypeOK, PlaceInv, MutexInv, AddStreamAssigned, FileStream, Finish, Goto
<1>2. PlaceInv'
  BY DEF TypeOK, PlaceInv, Pending, NoId, AddStreamAssigned, FileStream,
     Finish, Goto
<1>3. MutexInv'
  BY DEF TypeOK, PlaceInv, MutexInv, LockOrder, AddStreamAssigned,
     FileStream, Finish, Goto
<1>4. LifeInv'
  BY DEF TypeOK, PlaceInv, LifeInv, AddStreamAssigned, FileStream, Finish, Goto
<1>5. GenInv'
  BY DEF TypeOK, LifeInv, GenInv, SupersededIsOlder, AddStreamAssigned,
     FileStream, Finish, Goto
<1>6. NoQueryAfterCancel'
  BY DEF TypeOK, PlaceInv, NoQueryAfterCancel, AddStreamAssigned, FileStream,
     Finish, Goto
<1>7. IdInv'
  <2>1. /\ UNCHANGED <<conn, superseded, inbox>>
        /\ streams' = [streams EXCEPT ![i] = r]
        /\ pc' = [pc EXCEPT ![r] = "done"]
        /\ op' = [op EXCEPT ![r] = None]
        /\ id' = [id EXCEPT ![r] = None]
        /\ st' = [st EXCEPT ![r] = None]
        /\ streams[i] = None
        /\ \A q \in Reqs : InFlight(q) => id[q] # i
    BY DEF AddStreamAssigned, FileStream, Finish, Goto
  <2>2. \A q \in Reqs : Pending(q)' => Pending(q) /\ q # r
    BY <2>1 DEF TypeOK, PlaceInv, Pending, AddStreamAssigned
  <2>3. Placed => Placed'
    BY <2>1 DEF TypeOK, Placed, Filed, Owes
  <2>. QED
    BY <2>1, <2>2, <2>3 DEF TypeOK, PlaceInv, IdInv, Pending
<1>. QED
  BY <1>1, <1>2, <1>3, <1>4, <1>5, <1>6, <1>7

\* The stream is in the table, hence one that exists.
LEMMA GetStreamKeeps ==
    ASSUME IInv, NEW r \in Reqs, GetStream(r)
    PROVE  IInv'
<1>. USE NamesAssumption DEF IInv, streamVars, reqVars, sessVars,
       evolveVars, tableVars, InFlight, Open
<1>1. TypeOK'
  <2>1. /\ pc' \in [Reqs -> {"new", "start", "connect", "add", "found", "lock",
                            "exec", "file", "remove", "removing", "walking",
                            "done"}]
        /\ op' \in [Reqs -> Ops \cup {None}]
        /\ id' \in [Reqs -> Ids \cup {None}]
        /\ before' \in [Reqs -> SUBSET Reqs]
    BY DEF GetStream, Finish, Goto, TypeOK
  <2>2. st' \in [Reqs -> Reqs \cup {None}]
    BY DEF GetStream, Finish, Goto, TypeOK, PlaceInv, Pending, NoId
  <2>. QED
    BY <2>1, <2>2 DEF GetStream, TypeOK
<1>2. PlaceInv'
  BY DEF TypeOK, PlaceInv, Pending, NoId, GetStream, Finish, Goto
<1>3. MutexInv'
  BY DEF TypeOK, PlaceInv, MutexInv, LockOrder, GetStream, Finish, Goto
<1>4. LifeInv'
  BY DEF TypeOK, PlaceInv, LifeInv, GetStream, Finish, Goto
<1>5. GenInv'
  BY DEF TypeOK, LifeInv, GenInv, SupersededIsOlder, GetStream, Finish, Goto
<1>6. NoQueryAfterCancel'
  BY DEF TypeOK, PlaceInv, NoQueryAfterCancel, GetStream, Finish, Goto
<1>7. IdInv'
  <2>. SUFFICES ASSUME SequentialClient
                PROVE  IdInv'
    BY DEF IdInv
  <2>1. \A q \in Reqs : Pending(q)' => Pending(q) /\ id'[q] = id[q]
    BY DEF GetStream, Finish, Goto, TypeOK, PlaceInv, Pending
  <2>2. \A q \in Reqs :
           /\ pc'[q] \in {"connect", "add"} /\ op'[q] = "open"
                 => streams'[id'[q]] = None
           /\ pc'[q] \in {"found", "remove", "removing"} /\ op'[q] # "close"
                 => /\ st'[q] \in Reqs
                    /\ streams'[id'[q]] \in {None, st'[q]}
           /\ pc'[q] \in {"remove", "removing"} /\ op'[q] # "close"
                 => superseded'[st'[q]]
    <3>. TAKE q \in Reqs
    <3>1. CASE q = r
      BY <3>1 DEF GetStream, Finish, Goto, TypeOK, PlaceInv, Pending, NoId
    <3>2. CASE q # r
      BY <3>2 DEF GetStream, Finish, Goto, TypeOK, IdInv
    <3>. QED
      BY <3>1, <3>2
  <2>3. Placed'
    BY DEF GetStream, Finish, Goto, TypeOK, IdInv, Placed, Filed, Owes
  <2>. QED
    BY <2>1, <2>2, <2>3 DEF IdInv
<1>. QED
  BY <1>1, <1>2, <1>3, <1>4, <1>5, <1>6, <1>7

\* A marked stream is to be removed, another to be locked.
LEMMA CheckSupersededKeeps ==
    ASSUME IInv, NEW r \in Reqs, CheckSuperseded(r)
    PROVE  IInv'
<1>. USE NamesAssumption DEF IInv, streamVars, reqVars, sessVars,
       evolveVars, tableVars, InFlight, Open
<1>1. TypeOK'
  <2>1. CASE Step(r, "remove") \/ Step(r, "lock")
    BY <2>1 DEF CheckSuperseded, Step, Goto, TypeOK
  <2>2. CASE Finish(r)
    BY <2>2 DEF CheckSuperseded, Finish, Goto, TypeOK
  <2>. QED
    BY <2>1, <2>2 DEF CheckSuperseded
<1>2. PlaceInv'
  BY DEF TypeOK, PlaceInv, Pending, NoId, CheckSuperseded, Step, Finish,
     Goto
<1>3. MutexInv'
  BY DEF TypeOK, PlaceInv, MutexInv, LockOrder, CheckSuperseded, Step,
     Finish, Goto
<1>4. LifeInv'
  BY DEF TypeOK, PlaceInv, LifeInv, CheckSuperseded, Step, Finish, Goto
<1>5. GenInv'
  BY DEF TypeOK, LifeInv, GenInv, SupersededIsOlder, CheckSuperseded, Step,
     Finish, Goto
<1>6. NoQueryAfterCancel'
  BY DEF TypeOK, PlaceInv, NoQueryAfterCancel, CheckSuperseded, Step,
     Finish, Goto
<1>7. IdInv'
  <2>1. CASE Step(r, "remove")
    <3>1. SequentialClient' => \A p, q \in Reqs :
            Pending(p)' /\ Pending(q)' /\ p # q /\ id'[p] # None
               => id'[p] # id'[q]
      BY <2>1 DEF TypeOK, PlaceInv, IdInv, Pending, CheckSuperseded, Step,
         Goto
    <3>2. SequentialClient' => \A p \in Reqs :
            /\ pc'[p] \in {"connect", "add"} /\ op'[p] = "open"
                  => streams'[id'[p]] = None
            /\ pc'[p] \in {"found", "remove", "removing"}
               /\ op'[p] # "close"
                  => st'[p] \in Reqs /\ streams'[id'[p]] \in {None, st'[p]}
            /\ pc'[p] \in {"remove", "removing"} /\ op'[p] # "close"
                  => superseded'[st'[p]]
      <4>1. /\ pc[r] = "found" /\ superseded[st[r]]
            /\ pc' = [pc EXCEPT ![r] = "remove"]
            /\ UNCHANGED <<op, id, st, streams, superseded>>
            /\ SequentialClient' = SequentialClient
        BY <2>1 DEF TypeOK, CheckSuperseded, Step, Finish, Goto
      <4>. QED
        BY <4>1 DEF TypeOK, IdInv
    <3>3. SequentialClient' => Placed'
      BY <2>1 DEF TypeOK, PlaceInv, LifeInv, IdInv, Placed, Filed, Owes,
         CheckSuperseded, Step, Goto
    <3>. QED
      BY <3>1, <3>2, <3>3 DEF IdInv
  <2>2. CASE Step(r, "lock")
    BY <2>2 DEF TypeOK, PlaceInv, LifeInv, IdInv, Pending, Placed, Filed, Owes,
       CheckSuperseded, Step, Goto
  <2>3. CASE Finish(r)
    BY <2>3 DEF TypeOK, PlaceInv, LifeInv, IdInv, Pending, Placed, Filed, Owes,
       CheckSuperseded, Finish, Goto
  <2>. QED
    BY <2>1, <2>2, <2>3 DEF CheckSuperseded
<1>. QED
  BY <1>1, <1>2, <1>3, <1>4, <1>5, <1>6, <1>7

\* The request fails with no lock held.
LEMMA ResolveSQLFailsKeeps ==
    ASSUME IInv, NEW r \in Reqs, ResolveSQLFails(r)
    PROVE  IInv'
<1>. USE NamesAssumption DEF IInv, streamVars, reqVars, sessVars,
       evolveVars, tableVars, InFlight, Open
<1>1. TypeOK'
  BY DEF TypeOK, PlaceInv, MutexInv, ResolveSQLFails, Finish, Goto
<1>2. PlaceInv'
  BY DEF TypeOK, PlaceInv, Pending, NoId, ResolveSQLFails, Finish, Goto
<1>3. MutexInv'
  BY DEF TypeOK, PlaceInv, MutexInv, LockOrder, ResolveSQLFails, Finish,
     Goto
<1>4. LifeInv'
  BY DEF TypeOK, PlaceInv, LifeInv, ResolveSQLFails, Finish, Goto
<1>5. GenInv'
  BY DEF TypeOK, LifeInv, GenInv, SupersededIsOlder, ResolveSQLFails,
     Finish, Goto
<1>6. NoQueryAfterCancel'
  BY DEF TypeOK, PlaceInv, NoQueryAfterCancel, ResolveSQLFails, Finish, Goto
<1>7. IdInv'
  BY DEF TypeOK, PlaceInv, LifeInv, IdInv, Pending, Placed, Filed, Owes,
     ResolveSQLFails, Finish, Goto
<1>. QED
  BY <1>1, <1>2, <1>3, <1>4, <1>5, <1>6, <1>7

\* Nobody holds the stream, and the request executes once it does.
LEMMA LockStreamKeeps ==
    ASSUME IInv, NEW r \in Reqs, LockStream(r)
    PROVE  IInv'
<1>. USE NamesAssumption DEF IInv, streamVars, reqVars, sessVars,
       evolveVars, tableVars, InFlight, Open
<1>1. TypeOK'
  BY DEF TypeOK, PlaceInv, MutexInv, LockStream, Step, Goto
<1>2. PlaceInv'
  BY DEF TypeOK, PlaceInv, Pending, NoId, LockStream, Step, Goto
<1>3. MutexInv'
  BY DEF TypeOK, PlaceInv, MutexInv, LockOrder, LockStream, Step, Goto
<1>4. LifeInv'
  BY DEF TypeOK, PlaceInv, LifeInv, LockStream, Step, Goto
<1>5. GenInv'
  BY DEF TypeOK, LifeInv, GenInv, SupersededIsOlder, LockStream, Step, Goto
<1>6. NoQueryAfterCancel'
  BY DEF TypeOK, PlaceInv, NoQueryAfterCancel, LockStream, Step, Goto
<1>7. IdInv'
  BY DEF TypeOK, PlaceInv, LifeInv, IdInv, Pending, Placed, Filed, Owes,
     LockStream, Step, Goto
<1>. QED
  BY <1>1, <1>2, <1>3, <1>4, <1>5, <1>6, <1>7

\* The request stops executing and lets go of its stream.
LEMMA UnlockStreamKeeps ==
    ASSUME IInv, NEW r \in Reqs, NEW ok \in BOOLEAN, UnlockStream(r, ok)
    PROVE  IInv'
<1>. USE NamesAssumption DEF IInv, streamVars, reqVars, sessVars,
       evolveVars, tableVars, InFlight, Open
<1>1. TypeOK'
  BY UnlockStreamTyped
<1>2. PlaceInv'
  BY DEF TypeOK, PlaceInv, Pending, NoId, UnlockStream, Step, Finish, Goto
<1>3. MutexInv'
  BY DEF TypeOK, PlaceInv, MutexInv, LockOrder, UnlockStream, Step, Finish,
     Goto
<1>4. LifeInv'
  BY DEF TypeOK, PlaceInv, LifeInv, UnlockStream, Step, Finish, Goto
<1>5. GenInv'
  BY DEF TypeOK, LifeInv, GenInv, SupersededIsOlder, UnlockStream, Step,
     Finish, Goto
<1>6. NoQueryAfterCancel'
  BY DEF TypeOK, PlaceInv, NoQueryAfterCancel, UnlockStream, Step, Finish,
     Goto
<1>7. IdInv'
  <2>1. CASE Step(r, "file")
    BY <2>1 DEF TypeOK, PlaceInv, LifeInv, IdInv, Pending, Placed, Filed, Owes,
       UnlockStream, Step, Goto
  <2>2. CASE Finish(r)
    BY <2>2 DEF TypeOK, PlaceInv, LifeInv, IdInv, Pending, Placed, Filed, Owes,
       UnlockStream, Finish, Goto
  <2>. QED
    BY <2>1, <2>2 DEF UnlockStream
<1>. QED
  BY <1>1, <1>2, <1>3, <1>4, <1>5, <1>6, <1>7

\* The cursor is filed by a request that then returns.
LEMMA FileCursorKeeps ==
    ASSUME IInv, NEW r \in Reqs, FileCursor(r)
    PROVE  IInv'
<1>. USE NamesAssumption DEF IInv, streamVars, reqVars, sessVars,
       evolveVars, tableVars, InFlight, Open
<1>1. TypeOK'
  BY DEF TypeOK, PlaceInv, MutexInv, FileCursor, Finish, Goto
<1>2. PlaceInv'
  BY DEF TypeOK, PlaceInv, Pending, NoId, FileCursor, Finish, Goto
<1>3. MutexInv'
  BY DEF TypeOK, PlaceInv, MutexInv, LockOrder, FileCursor, Finish, Goto
<1>4. LifeInv'
  BY DEF TypeOK, PlaceInv, LifeInv, FileCursor, Finish, Goto
<1>5. GenInv'
  BY DEF TypeOK, LifeInv, GenInv, SupersededIsOlder, FileCursor, Finish,
     Goto
<1>6. NoQueryAfterCancel'
  BY DEF TypeOK, PlaceInv, NoQueryAfterCancel, FileCursor, Finish, Goto
<1>7. IdInv'
  BY DEF TypeOK, PlaceInv, LifeInv, IdInv, Pending, Placed, Filed, Owes,
     FileCursor, Finish, Goto
<1>. QED
  BY <1>1, <1>2, <1>3, <1>4, <1>5, <1>6, <1>7

\* close_stream removes what its id stands for.
LEMMA StartCloseKeeps ==
    ASSUME IInv, NEW r \in Reqs, StartClose(r)
    PROVE  IInv'
<1>. USE NamesAssumption DEF IInv, streamVars, reqVars, sessVars,
       evolveVars, tableVars, InFlight, Open
<1>1. TypeOK'
  BY DEF TypeOK, PlaceInv, MutexInv, StartClose, Step, Goto
<1>2. PlaceInv'
  BY DEF TypeOK, PlaceInv, Pending, NoId, StartClose, Step, Goto
<1>3. MutexInv'
  BY DEF TypeOK, PlaceInv, MutexInv, LockOrder, StartClose, Step, Goto
<1>4. LifeInv'
  BY DEF TypeOK, PlaceInv, LifeInv, StartClose, Step, Goto
<1>5. GenInv'
  BY DEF TypeOK, LifeInv, GenInv, SupersededIsOlder, StartClose, Step, Goto
<1>6. NoQueryAfterCancel'
  BY DEF TypeOK, PlaceInv, NoQueryAfterCancel, StartClose, Step, Goto
<1>7. IdInv'
  BY DEF TypeOK, PlaceInv, LifeInv, IdInv, Pending, Placed, Filed, Owes,
     StartClose, Step, Goto
<1>. QED
  BY <1>1, <1>2, <1>3, <1>4, <1>5, <1>6, <1>7

\* sess.mu is free, and kept only if the id is in the table.
LEMMA RemoveLockKeeps ==
    ASSUME IInv, NEW r \in Reqs, RemoveLock(r)
    PROVE  IInv'
<1>. USE NamesAssumption DEF IInv, streamVars, reqVars, sessVars,
       evolveVars, tableVars, InFlight, Open
<1>1. TypeOK'
  <2>1. /\ UNCHANGED <<streamVars, holder, streams, todo, late, sessVars,
                      closer, evolveVars>>
        /\ sessMu' \in Reqs \cup {None, Reader}
    BY DEF RemoveLock, TypeOK
  <2>2. CASE Step(r, "removing")
    BY <2>1, <2>2, StepTyped DEF TypeOK
  <2>3. CASE Finish(r)
    BY <2>1, <2>3, FinishTyped DEF TypeOK
  <2>. QED
    BY <2>2, <2>3 DEF RemoveLock
<1>2. PlaceInv'
  BY DEF TypeOK, PlaceInv, Pending, NoId, RemoveLock, Step, Finish, Goto
<1>3. MutexInv'
  BY DEF TypeOK, PlaceInv, MutexInv, LockOrder, RemoveLock, Step, Finish,
     Goto
<1>4. LifeInv'
  BY DEF TypeOK, PlaceInv, LifeInv, RemoveLock, Step, Finish, Goto
<1>5. GenInv'
  BY DEF TypeOK, LifeInv, GenInv, SupersededIsOlder, RemoveLock, Step,
     Finish, Goto
<1>6. NoQueryAfterCancel'
  BY DEF TypeOK, PlaceInv, NoQueryAfterCancel, RemoveLock, Step, Finish,
     Goto
<1>7. IdInv'
  BY DEF TypeOK, PlaceInv, LifeInv, IdInv, Pending, Placed, Filed, Owes,
     RemoveLock, Step, Finish, Goto
<1>. QED
  BY <1>1, <1>2, <1>3, <1>4, <1>5, <1>6, <1>7

\* The stream leaves the table with its connection closed.
LEMMA RemoveStreamKeeps ==
    ASSUME IInv, NEW r \in Reqs, RemoveStream(r)
    PROVE  IInv'
<1>. USE NamesAssumption DEF IInv, streamVars, reqVars, sessVars,
       evolveVars, tableVars, InFlight, Open
<1>1. TypeOK'
  BY DEF TypeOK, PlaceInv, MutexInv, RemoveStream, Finish, Goto
<1>2. PlaceInv'
  BY DEF TypeOK, PlaceInv, Pending, NoId, RemoveStream, Finish, Goto
<1>3. MutexInv'
  BY DEF TypeOK, PlaceInv, MutexInv, LockOrder, RemoveStream, Finish, Goto
<1>4. LifeInv'
  <2>1. \A s \in Reqs :
           /\ pc'[s] \in {"new", "start", "connect"} => conn'[s] = "none"
           /\ superseded'[s] => pc'[s] = "done"
    BY DEF RemoveStream, Finish, Goto, TypeOK, PlaceInv, MutexInv, LifeInv,
       Pending, NoId
  <2>2. \A i \in Ids : streams'[i] # None => pc'[streams'[i]] = "done"
    BY DEF RemoveStream, Finish, Goto, TypeOK, LifeInv
  <2>3. \A e \in Evolvers :
           /\ due'[e] \subseteq Open'
           /\ meeting'[e] # None =>
                 evolve'[e] = "ranging" /\ pc'[meeting'[e]] = "done"
    BY DEF RemoveStream, Finish, Goto, TypeOK, LifeInv
  <2>. QED
    BY <2>1, <2>2, <2>3 DEF LifeInv
<1>5. GenInv'
  BY DEF TypeOK, LifeInv, GenInv, SupersededIsOlder, RemoveStream, Finish,
     Goto
<1>6. NoQueryAfterCancel'
  BY DEF TypeOK, PlaceInv, NoQueryAfterCancel, RemoveStream, Finish, Goto
<1>7. IdInv'
  BY DEF TypeOK, PlaceInv, LifeInv, IdInv, Pending, Placed, Filed, Owes,
     RemoveStream, Finish, Goto
<1>. QED
  BY <1>1, <1>2, <1>3, <1>4, <1>5, <1>6, <1>7

\* sess.mu is taken for the walk over the streams in the table.
LEMMA WalkLockKeeps ==
    ASSUME IInv, NEW r \in Reqs, WalkLock(r)
    PROVE  IInv'
<1>. USE NamesAssumption DEF IInv, streamVars, reqVars, sessVars,
       evolveVars, tableVars, InFlight, Open
<1>1. TypeOK'
  BY DEF TypeOK, PlaceInv, MutexInv, WalkLock, Step, Goto
<1>2. PlaceInv'
  BY DEF TypeOK, PlaceInv, Pending, NoId, WalkLock, Step, Goto
<1>3. MutexInv'
  BY DEF TypeOK, PlaceInv, MutexInv, LockOrder, WalkLock, Step, Goto
<1>4. LifeInv'
  BY DEF TypeOK, PlaceInv, LifeInv, WalkLock, Step, Goto
<1>5. GenInv'
  BY DEF TypeOK, LifeInv, GenInv, SupersededIsOlder, WalkLock, Step, Goto
<1>6. NoQueryAfterCancel'
  BY DEF TypeOK, PlaceInv, NoQueryAfterCancel, WalkLock, Step, Goto
<1>7. IdInv'
  BY DEF TypeOK, PlaceInv, LifeInv, IdInv, Pending, Placed, Filed, Owes,
     WalkLock, Step, Goto
<1>. QED
  BY <1>1, <1>2, <1>3, <1>4, <1>5, <1>6, <1>7

\* A walk changes cursors only.
LEMMA WalkStreamKeeps ==
    ASSUME IInv, NEW r \in Reqs, NEW s \in Reqs, WalkStream(r, s)
    PROVE  IInv'
<1>. USE NamesAssumption DEF IInv, streamVars, reqVars, sessVars,
       evolveVars, tableVars, InFlight, Open
<1>1. TypeOK'
  BY DEF TypeOK, PlaceInv, MutexInv, WalkStream
<1>2. PlaceInv'
  BY DEF TypeOK, PlaceInv, Pending, NoId, WalkStream
<1>3. MutexInv'
  BY DEF TypeOK, PlaceInv, MutexInv, LockOrder, WalkStream
<1>4. LifeInv'
  BY DEF TypeOK, PlaceInv, LifeInv, WalkStream
<1>5. GenInv'
  BY DEF TypeOK, LifeInv, GenInv, SupersededIsOlder, WalkStream
<1>6. NoQueryAfterCancel'
  BY DEF TypeOK, PlaceInv, NoQueryAfterCancel, WalkStream
<1>7. IdInv'
  BY DEF TypeOK, PlaceInv, LifeInv, IdInv, Pending, Placed, Filed, Owes,
     WalkStream
<1>. QED
  BY <1>1, <1>2, <1>3, <1>4, <1>5, <1>6, <1>7

\* The walk lets go of sess.mu.
LEMMA WalkUnlockKeeps ==
    ASSUME IInv, NEW r \in Reqs, WalkUnlock(r)
    PROVE  IInv'
<1>. USE NamesAssumption DEF IInv, streamVars, reqVars, sessVars,
       evolveVars, tableVars, InFlight, Open
<1>1. TypeOK'
  BY DEF TypeOK, PlaceInv, MutexInv, WalkUnlock, Finish, Goto
<1>2. PlaceInv'
  BY DEF TypeOK, PlaceInv, Pending, NoId, WalkUnlock, Finish, Goto
<1>3. MutexInv'
  BY DEF TypeOK, PlaceInv, MutexInv, LockOrder, WalkUnlock, Finish, Goto
<1>4. LifeInv'
  BY DEF TypeOK, PlaceInv, LifeInv, WalkUnlock, Finish, Goto
<1>5. GenInv'
  BY DEF TypeOK, LifeInv, GenInv, SupersededIsOlder, WalkUnlock, Finish,
     Goto
<1>6. NoQueryAfterCancel'
  BY DEF TypeOK, PlaceInv, NoQueryAfterCancel, WalkUnlock, Finish, Goto
<1>7. IdInv'
  BY DEF TypeOK, PlaceInv, LifeInv, IdInv, Pending, Placed, Filed, Owes,
     WalkUnlock, Finish, Goto
<1>. QED
  BY <1>1, <1>2, <1>3, <1>4, <1>5, <1>6, <1>7

\* The next generation is one more than the current one, and stays so as
\* long as nobody else evolves the database.
LEMMA EvolveLoadKeeps ==
    ASSUME IInv, NEW e \in Evolvers, EvolveLoad(e)
    PROVE  IInv'
<1>. USE NamesAssumption DEF IInv, streamVars, reqVars, sessVars,
       evolveVars, tableVars, InFlight, Open
<1>1. TypeOK'
  BY DEF TypeOK, PlaceInv, MutexInv, EvolveLoad
<1>2. PlaceInv'
  BY DEF TypeOK, PlaceInv, Pending, NoId, EvolveLoad
<1>3. MutexInv'
  BY DEF TypeOK, PlaceInv, MutexInv, LockOrder, EvolveLoad
<1>4. LifeInv'
  BY DEF TypeOK, PlaceInv, LifeInv, EvolveLoad
<1>5. GenInv'
  BY DEF TypeOK, LifeInv, GenInv, SupersededIsOlder, EvolveLoad
<1>6. NoQueryAfterCancel'
  BY DEF TypeOK, PlaceInv, NoQueryAfterCancel, EvolveLoad
<1>7. IdInv'
  BY DEF TypeOK, PlaceInv, LifeInv, IdInv, Pending, Placed, Filed, Owes,
     EvolveLoad
<1>. QED
  BY <1>1, <1>2, <1>3, <1>4, <1>5, <1>6, <1>7

\* The generation rises: all streams are older now or will be new.
LEMMA EvolveSwapKeeps ==
    ASSUME IInv, NEW e \in Evolvers, EvolveSwap(e)
    PROVE  IInv'
<1>. USE NamesAssumption DEF IInv, streamVars, reqVars, sessVars,
       evolveVars, tableVars, InFlight, Open
<1>1. TypeOK'
  BY DEF TypeOK, PlaceInv, MutexInv, EvolveSwap, InConns
<1>2. PlaceInv'
  BY DEF TypeOK, PlaceInv, Pending, NoId, EvolveSwap, InConns
<1>3. MutexInv'
  BY DEF TypeOK, PlaceInv, MutexInv, LockOrder, EvolveSwap, InConns
<1>4. LifeInv'
  BY DEF TypeOK, PlaceInv, LifeInv, EvolveSwap, InConns
<1>5. GenInv'
  BY DEF TypeOK, LifeInv, GenInv, SupersededIsOlder, EvolveSwap, InConns
<1>6. NoQueryAfterCancel'
  BY DEF TypeOK, PlaceInv, NoQueryAfterCancel, EvolveSwap, InConns
<1>7. IdInv'
  BY DEF TypeOK, PlaceInv, LifeInv, IdInv, Pending, Placed, Filed, Owes,
     EvolveSwap, InConns
<1>. QED
  BY <1>1, <1>2, <1>3, <1>4, <1>5, <1>6, <1>7

\* A stream of the new database is left alone.
LEMMA EvolveSkipKeeps ==
    ASSUME IInv, NEW e \in Evolvers, NEW i \in Ids, EvolveSkip(e, i)
    PROVE  IInv'
<1>. USE NamesAssumption DEF IInv, streamVars, reqVars, sessVars,
       evolveVars, tableVars, InFlight, Open
<1>1. TypeOK'
  BY DEF TypeOK, PlaceInv, MutexInv, EvolveSkip
<1>2. PlaceInv'
  BY DEF TypeOK, PlaceInv, Pending, NoId, EvolveSkip
<1>3. MutexInv'
  BY DEF TypeOK, PlaceInv, MutexInv, LockOrder, EvolveSkip
<1>4. LifeInv'
  BY DEF TypeOK, PlaceInv, LifeInv, EvolveSkip
<1>5. GenInv'
  BY DEF TypeOK, LifeInv, GenInv, SupersededIsOlder, EvolveSkip
<1>6. NoQueryAfterCancel'
  BY DEF TypeOK, PlaceInv, NoQueryAfterCancel, EvolveSkip
<1>7. IdInv'
  BY DEF TypeOK, PlaceInv, LifeInv, IdInv, Pending, Placed, Filed, Owes,
     EvolveSkip
<1>. QED
  BY <1>1, <1>2, <1>3, <1>4, <1>5, <1>6, <1>7

\* What the range produces has been filed and is not of the new database.
LEMMA EvolveMeetKeeps ==
    ASSUME IInv, NEW e \in Evolvers, NEW i \in Ids, EvolveMeet(e, i)
    PROVE  IInv'
<1>. USE NamesAssumption DEF IInv, streamVars, reqVars, sessVars,
       evolveVars, tableVars, InFlight, Open
<1>1. TypeOK'
  BY DEF TypeOK, PlaceInv, MutexInv, EvolveMeet, InConns
<1>2. PlaceInv'
  BY DEF TypeOK, PlaceInv, Pending, NoId, EvolveMeet, InConns
<1>3. MutexInv'
  BY DEF TypeOK, PlaceInv, MutexInv, LockOrder, EvolveMeet, InConns
<1>4. LifeInv'
  BY DEF TypeOK, PlaceInv, LifeInv, EvolveMeet, InConns
<1>5. GenInv'
  BY DEF TypeOK, LifeInv, GenInv, SupersededIsOlder, EvolveMeet, InConns
<1>6. NoQueryAfterCancel'
  BY DEF TypeOK, PlaceInv, NoQueryAfterCancel, EvolveMeet, InConns
<1>7. IdInv'
  BY DEF TypeOK, PlaceInv, LifeInv, IdInv, Pending, Placed, Filed, Owes,
     EvolveMeet, InConns
<1>. QED
  BY <1>1, <1>2, <1>3, <1>4, <1>5, <1>6, <1>7

\* A stream that is not of the new database is of an older one.
LEMMA EvolveMarkKeeps ==
    ASSUME IInv, NEW e \in Evolvers, EvolveMark(e)
    PROVE  IInv'
<1>. USE NamesAssumption DEF IInv, streamVars, reqVars, sessVars,
       evolveVars, tableVars, InFlight, Open
<1>1. TypeOK'
  BY DEF TypeOK, PlaceInv, MutexInv, EvolveMark
<1>2. PlaceInv'
  BY DEF TypeOK, PlaceInv, Pending, NoId, EvolveMark
<1>3. MutexInv'
  BY DEF TypeOK, PlaceInv, MutexInv, LockOrder, LifeInv, EvolveMark
<1>4. LifeInv'
  BY DEF TypeOK, PlaceInv, LifeInv, EvolveMark
<1>5. GenInv'
  BY DEF TypeOK, LifeInv, GenInv, SupersededIsOlder, EvolveMark
<1>6. NoQueryAfterCancel'
  BY DEF TypeOK, PlaceInv, NoQueryAfterCancel, EvolveMark
<1>7. IdInv'
  BY DEF TypeOK, PlaceInv, LifeInv, IdInv, Pending, Placed, Filed, Owes,
     EvolveMark
<1>. QED
  BY <1>1, <1>2, <1>3, <1>4, <1>5, <1>6, <1>7

\* EvolveDatabase lets go of all streams at once.
LEMMA EvolveReturnKeeps ==
    ASSUME IInv, NEW e \in Evolvers, EvolveReturn(e)
    PROVE  IInv'
<1>. USE NamesAssumption DEF IInv, streamVars, reqVars, sessVars,
       evolveVars, tableVars, InFlight, Open
<1>1. TypeOK'
  BY DEF TypeOK, PlaceInv, MutexInv, EvolveReturn
<1>2. PlaceInv'
  BY DEF TypeOK, PlaceInv, Pending, NoId, EvolveReturn
<1>3. MutexInv'
  BY DEF TypeOK, PlaceInv, MutexInv, LockOrder, EvolveReturn
<1>4. LifeInv'
  BY DEF TypeOK, PlaceInv, LifeInv, EvolveReturn
<1>5. GenInv'
  BY DEF TypeOK, LifeInv, GenInv, SupersededIsOlder, EvolveReturn
<1>6. NoQueryAfterCancel'
  BY DEF TypeOK, PlaceInv, NoQueryAfterCancel, EvolveReturn
<1>7. IdInv'
  BY DEF TypeOK, PlaceInv, LifeInv, IdInv, Pending, Placed, Filed, Owes,
     EvolveReturn
<1>. QED
  BY <1>1, <1>2, <1>3, <1>4, <1>5, <1>6, <1>7

\* Every step keeps the invariant.
LEMMA NextKeeps ==
    ASSUME IInv, [Next]_vars
    PROVE  IInv'
<1>1. CASE \/ Accept \/ Register \/ CountIn \/ Hello \/ PeerCloses
           \/ ReaderReturns \/ CloseBegin \/ CloseConns \/ WaitAndCancel
  BY <1>1, SessionKeeps
<1>2. CASE Receive
  BY <1>2, ReceiveRequestKeeps DEF Receive
<1>3. CASE Leave
  BY <1>3, SessionKeeps, CloseAllStreamKeeps DEF Leave
<1>4. ASSUME NEW r \in Reqs, Handle(r)
      PROVE  IInv'
  <2>1. CASE CheckIdFree(r) \/ StartAssigned(r) \/ OpenStream(r)
                \/ OpenStreamFails(r) \/ AddStream(r)
                \/ \E i \in Ids : AddStreamAssigned(r, i)
    BY <2>1, CheckIdFreeKeeps, StartAssignedKeeps, OpenStreamKeeps,
       OpenStreamFailsKeeps, AddStreamKeeps, AddStreamAssignedKeeps
  <2>2. CASE GetStream(r) \/ CheckSuperseded(r) \/ ResolveSQLFails(r)
                \/ LockStream(r) \/ FileCursor(r)
                \/ \E ok \in BOOLEAN : UnlockStream(r, ok)
    BY <2>2, GetStreamKeeps, CheckSupersededKeeps, ResolveSQLFailsKeeps,
       LockStreamKeeps, FileCursorKeeps, UnlockStreamKeeps
  <2>3. CASE StartClose(r) \/ RemoveLock(r) \/ RemoveStream(r)
    BY <2>3, StartCloseKeeps, RemoveLockKeeps, RemoveStreamKeeps
  <2>4. CASE WalkLock(r) \/ WalkUnlock(r) \/ \E s \in Reqs : WalkStream(r, s)
    BY <2>4, WalkLockKeeps, WalkUnlockKeeps, WalkStreamKeeps
  <2>. QED
    BY <1>4, <2>1, <2>2, <2>3, <2>4 DEF Handle
<1>5. ASSUME NEW e \in Evolvers, Evolve(e)
      PROVE  IInv'
  BY <1>5, EvolveLoadKeeps, EvolveSwapKeeps, EvolveSkipKeeps,
     EvolveMeetKeeps, EvolveMarkKeeps, EvolveReturnKeeps DEF Evolve
<1>6. CASE StartRequest
  BY <1>6, StartRequestKeeps
<1>7. CASE UNCHANGED vars
  <2>. USE <1>7 DEF IInv, vars, streamVars, reqVars, sessVars, evolveVars,
           tableVars, InFlight, Open, Pending
  <2>1. TypeOK' /\ PlaceInv' /\ NoQueryAfterCancel'
    BY DEF TypeOK, PlaceInv, NoQueryAfterCancel
  <2>2. MutexInv' /\ LifeInv'
    BY DEF MutexInv, LockOrder, LifeInv
  <2>3. GenInv' /\ IdInv'
    BY DEF GenInv, SupersededIsOlder, IdInv, Placed, Filed, Owes
  <2>. QED
    BY <2>1, <2>2, <2>3
<1>. QED
  BY <1>1, <1>2, <1>3, <1>4, <1>5, <1>6, <1>7 DEF Next

\* Nothing is in the table before the session, and what is in it after the
\* session was filed then.
LateInv ==
    /\ session = "new" => \A r \in Reqs : pc[r] = "new"
    /\ session = "new" => Open = {}
    /\ session = "gone" =>
          \A i \in Ids : streams[i] # None => streams[i] \in late

\* FileStream is the only way into the table.
LEMMA NextLateInv ==
    ASSUME IInv, LateInv, [Next]_vars
    PROVE  LateInv'
<1>. USE DEF IInv, TypeOK, streamVars, reqVars, sessVars, evolveVars, tableVars
<1>1. CASE UNCHANGED <<pc, session, streams, late>>
  BY <1>1 DEF LateInv, Open
<1>2. CASE UNCHANGED <<pc, streams, late>> /\ session' \notin {"new", "gone"}
  BY <1>2 DEF LateInv
<1>3. CASE Accept \/ CloseAllUnlock
  BY <1>3 DEF LateInv, Accept, CloseAllUnlock, Open
<1>4. ASSUME NEW r \in Reqs, Handle(r)
      PROVE  LateInv'
  <2>1. session' = session /\ session # "new"
    BY <1>4 DEF LateInv, Handle, CheckIdFree, StartAssigned, OpenStream,
       OpenStreamFails, AddStream, AddStreamAssigned, FileStream, GetStream,
       CheckSuperseded, ResolveSQLFails, LockStream, UnlockStream, FileCursor,
       StartClose, RemoveLock, RemoveStream, WalkLock, WalkStream, WalkUnlock
  <2>2. CASE UNCHANGED <<streams, late>>
    BY <2>1, <2>2 DEF LateInv
  <2>3. CASE \E i \in Ids \cup {None} : FileStream(r, i)
    BY <2>1, <2>3 DEF LateInv, FileStream
  <2>4. CASE RemoveStream(r)
    BY <2>1, <2>4 DEF LateInv, RemoveStream
  <2>5. \/ UNCHANGED <<streams, late>>
        \/ \E i \in Ids \cup {None} : FileStream(r, i)
        \/ RemoveStream(r)
    BY <1>4 DEF Handle, CheckIdFree, StartAssigned, OpenStream,
       OpenStreamFails, AddStream, AddStreamAssigned, GetStream,
       CheckSuperseded, ResolveSQLFails, LockStream, UnlockStream, FileCursor,
       StartClose, RemoveLock, WalkLock, WalkStream, WalkUnlock
  <2>. QED
    BY <2>2, <2>3, <2>4, <2>5
<1>5. ASSUME NEW i \in Ids, CloseAllStream(i)
      PROVE  LateInv'
  BY <1>5 DEF LateInv, CloseAllStream
<1>6. CASE StartRequest
  BY <1>6, NamesAssumption DEF LateInv, StartRequest, PlaceInv
<1>7. CASE Register \/ CountIn \/ ReaderReturns \/ Deregister \/ CloseAllLock
  BY <1>7, <1>2 DEF Register, CountIn, ReaderReturns, Deregister, CloseAllLock
<1>8. CASE Hello \/ PeerCloses \/ CloseBegin \/ CloseConns \/ WaitAndCancel
  BY <1>8, <1>1 DEF Hello, PeerCloses, CloseBegin, CloseConns, WaitAndCancel
<1>9. CASE Receive
  BY <1>9, <1>1 DEF Receive, ReceiveRequest
<1>10. ASSUME NEW e \in Evolvers, Evolve(e)
       PROVE  LateInv'
  BY <1>10, <1>1 DEF Evolve, EvolveLoad, EvolveSwap, EvolveSkip, EvolveMeet,
     EvolveMark, EvolveReturn
<1>11. CASE UNCHANGED vars
  BY <1>11, <1>1 DEF vars
<1>. QED
  BY <1>3, <1>4, <1>5, <1>6, <1>7, <1>8, <1>9, <1>10, <1>11 DEF Next, Leave

\* The invariant holds in every reachable state.
LEMMA Invariance == Spec => []IInv
  BY InitIInv, NextKeeps, PTL DEF Spec

\* A connection is closed at the end of the session or by RemoveStream, and
\* only while nobody holds its stream.
LEMMA Closings ==
    ASSUME IInv, [Next]_vars,
           NEW s \in Reqs, conn[s] = "open", conn'[s] = "closed"
    PROVE  /\ holder[s] = None
           /\ \/ session = "closing"
              \/ \E r \in Reqs : RemoveStream(r) /\ streams[id[r]] = s
<1>. USE DEF IInv, TypeOK, streamVars, reqVars, sessVars, evolveVars, tableVars
<1>1. ASSUME NEW i \in Ids, CloseAllStream(i)
      PROVE  holder[s] = None /\ session = "closing"
  BY <1>1 DEF CloseAllStream
<1>2. ASSUME NEW r \in Reqs, RemoveStream(r)
      PROVE  holder[s] = None /\ streams[id[r]] = s
  BY <1>2 DEF RemoveStream
<1>3. ASSUME NEW r \in Reqs, OpenStream(r)
      PROVE  FALSE
  BY <1>3 DEF OpenStream
<1>4. CASE UNCHANGED conn
  BY <1>4
<1>5. \/ \E i \in Ids : CloseAllStream(i)
      \/ \E r \in Reqs : RemoveStream(r) \/ OpenStream(r)
      \/ UNCHANGED conn
  <2>1. ASSUME NEW r \in Reqs, Handle(r), ~RemoveStream(r), ~OpenStream(r)
        PROVE  UNCHANGED conn
    BY <2>1 DEF Handle, CheckIdFree, StartAssigned, OpenStreamFails,
       AddStream, FileStream, AddStreamAssigned, GetStream, CheckSuperseded,
       ResolveSQLFails, LockStream, UnlockStream, FileCursor, StartClose,
       RemoveLock, WalkLock, WalkStream, WalkUnlock
  <2>2. ASSUME NEW e \in Evolvers, Evolve(e)
        PROVE  UNCHANGED conn
    BY <2>2 DEF Evolve, EvolveLoad, EvolveSwap, EvolveSkip, EvolveMeet,
       EvolveMark, EvolveReturn
  <2>3. CASE Receive \/ StartRequest
    BY <2>3 DEF Receive, ReceiveRequest, StartRequest
  <2>4. CASE Leave
    BY <2>4 DEF Leave, Deregister, CloseAllLock, CloseAllUnlock
  <2>5. CASE \/ Accept \/ Register \/ CountIn
             \/ Hello \/ PeerCloses \/ ReaderReturns
    BY <2>5 DEF Accept, Register, CountIn, Hello, PeerCloses, ReaderReturns
  <2>6. CASE CloseBegin \/ CloseConns \/ WaitAndCancel
    BY <2>6 DEF CloseBegin, CloseConns, WaitAndCancel
  <2>7. CASE UNCHANGED vars
    BY <2>7 DEF vars
  <2>. QED
    BY <2>1, <2>2, <2>3, <2>4, <2>5, <2>6, <2>7 DEF Next
<1>. QED
  BY <1>1, <1>2, <1>3, <1>4, <1>5

-----------------------------------------------------------------------------
(* Safety, for any client *)

\* No goroutine of the session and no call of EvolveDatabase uses a stream
\* or an id that does not exist (websocket.go, all handlers).
THEOREM TypeCorrect == Spec => []TypeOK
<1>1. IInv => TypeOK
  BY DEF IInv
<1>. QED
  BY <1>1, Invariance, PTL

\* However many requests a client has in flight, one at a time runs SQL on a
\* connection, and none while EvolveDatabase holds the stream
\* (websocket.go:536, 560, 595, 619, 655; hrana.go:211).
THEOREM MutualExclusion == Spec => []ExclusiveQueries
<1>1. IInv => ExclusiveQueries
  BY DEF IInv, MutexInv, ExclusiveQueries
<1>. QED
  BY <1>1, Invariance, PTL

\* Whoever holds stream.mu waits neither for sess.mu nor for another stream,
\* whatever requests are in flight, so that what waits for it while it holds
\* sess.mu gets it (stream.go:188-204, websocket.go:669-700);
\* EvolveDatabase alone keeps the streams it has marked (hrana.go:205-216).
THEOREM NoLockCycle == Spec => []LockOrder
<1>1. IInv => LockOrder
  BY DEF IInv, MutexInv
<1>. QED
  BY <1>1, Invariance, PTL

\* Once Close has cancelled the context no request is served and none will
\* be, however late the session registered (hrana.go:236-249).
THEOREM NothingRunsAfterCancel == Spec => []NoQueryAfterCancel
<1>1. IInv => NoQueryAfterCancel
  BY DEF IInv
<1>. QED
  BY <1>1, Invariance, PTL

\* close_stream, the removal of a superseded stream and the session's end
\* never close a connection that executes (stream.go:63-71).
THEOREM QueriesNeverCut == Spec => CloseNeverCutsQuery
<1>. DEFINE Cut == \E r, s \in Reqs :
                      /\ conn[s] = "open"
                      /\ conn'[s] = "closed"
                      /\ pc[r] = "exec"
                      /\ st[r] = s
<1>1. ASSUME IInv, [Next]_vars
      PROVE  ~Cut
  <2>1. ASSUME NEW s \in Reqs, conn[s] = "open", conn'[s] = "closed"
        PROVE  holder[s] = None
    BY <1>1, <2>1, Closings
  <2>2. \A r \in Reqs :
           pc[r] = "exec" => st[r] \in Reqs /\ holder[st[r]] # None
    BY <1>1, NamesAssumption DEF IInv, PlaceInv, MutexInv
  <2>. QED
    BY <2>1, <2>2
<1>2. ~Cut => (\A r, s \in Reqs :
          conn[s] = "open" /\ conn'[s] = "closed" /\ pc[r] = "exec"
             => st[r] # s)
  OBVIOUS
<1>. QED
  BY <1>1, <1>2, Invariance, PTL DEF Spec, CloseNeverCutsQuery

\* If calls of EvolveDatabase do not overlap, every stream that is marked
\* superseded belongs to an older database than the current one, however
\* opening a stream interleaves with the swap (hrana.go:201-217).
THEOREM SupersededMeansOlder ==
    ASSUME SerialEvolve
    PROVE  Spec => []SupersededIsOlder
<1>1. IInv => SupersededIsOlder
  BY DEF IInv, GenInv
<1>. QED
  BY <1>1, Invariance, PTL

-----------------------------------------------------------------------------
(* Safety, for clients with one request at a time per stream id *)

\* The connection of a stream stays reachable from the session's table until
\* it is closed, although open_stream does not reserve the id it has found
\* free (websocket.go:488-500); but for those filed after the session's end.
THEOREM StreamsNeverLeak ==
    ASSUME SequentialClient
    PROVE  Spec => []NoOrphan
<1>1. Init => LateInv
  BY DEF Init, LateInv, Open
<1>2. Spec => []LateInv
  BY <1>1, NextLateInv, Invariance, PTL DEF Spec
<1>3. IInv /\ LateInv => NoOrphan
  BY NamesAssumption
     DEF IInv, IdInv, Placed, LateInv, NoOrphan, Filed, FiledTooLate
<1>. QED
  BY <1>2, <1>3, Invariance, PTL

\* The deferred removal, which goes by the id, hits the stream it was meant
\* for (websocket.go:530-534).
THEOREM RemovalHitsItsStream ==
    ASSUME SequentialClient
    PROVE  Spec => OnlySupersededRemoved
<1>1. ASSUME IInv, [Next]_vars
      PROVE  \A s \in Reqs :
                conn[s] = "open" /\ conn'[s] = "closed" /\ ~superseded[s] =>
                   \/ session = "closing"
                   \/ \E r \in Reqs : pc[r] = "removing" /\ op[r] = "close"
  <2>. SUFFICES ASSUME NEW s \in Reqs, conn[s] = "open", conn'[s] = "closed",
                       ~superseded[s], session # "closing"
                PROVE  \E r \in Reqs : pc[r] = "removing" /\ op[r] = "close"
    OBVIOUS
  <2>1. PICK r \in Reqs : RemoveStream(r) /\ streams[id[r]] = s
    BY <1>1, Closings
  <2>2. pc[r] = "removing" /\ s # None
    BY <2>1, NamesAssumption DEF RemoveStream
  <2>3. op[r] # "close" => superseded[s]
    BY <1>1, <2>1, <2>2 DEF IInv, IdInv
  <2>. QED
    BY <2>2, <2>3
<1>. QED
  BY <1>1, Invariance, PTL DEF Spec, OnlySupersededRemoved

=============================================================================
