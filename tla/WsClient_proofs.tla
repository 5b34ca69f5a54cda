--------------------------- MODULE WsClient_proofs ---------------------------
(***************************************************************************)
(* Theorems about WsClient, for any number of calls, retries, evolutions   *)
(* of the database and cancelled requests.                                 *)
(*                                                                         *)
(* A statement runs at most once because its attempts form a chain: an     *)
(* attempt is sent only by the goroutine of the one before it, which got   *)
(* its refusal (ChainInv); the one attempt that can still run, or a        *)
(* goroutine that will send another, means that none has run (RunInv).     *)
(* An answer is not lost on its way from pending to a goroutine to a       *)
(* channel because each request enters pending once (KeyInv, RecoverInv),  *)
(* and a stream is not lost because a recovery closes the stream that is   *)
(* current, and nobody changes it meanwhile (StreamInv).                   *)
(***************************************************************************)
EXTENDS WsClient, FiniteSetTheorems, TLAPS

\* b is a later attempt of the same call than a.
Later(a, b) == a[1] = b[1] /\ a[2] < b[2]

Reached(a) == sending[Execute(a)] # "new"

\* The goroutine that took attempt a over has not delivered a result.
Busy(a) == gor[a] \notin {"none", "dead"}

\* The attempt may yet be run, or refused by the server.
Alive(a) ==
    \/ at[Execute(a)] \in {"wire", "found", "passed", "superseded"}
    \/ sending[Execute(a)] = "registered" /\ ret[Execute(a)] = None

\* What connection setup and Close have reached.
PhaseInv ==
    /\ phase = "dialing" => ~reading /\ ~closed /\ ~up
    /\ phase = "hello" /\ js => reading \/ closed
    /\ phase = "hello" /\ ~js => ~reading /\ ~closed
    /\ phase \in {"dialing", "hello"} => sending[First] = "new"
    /\ phase \in {"dialing", "hello", "opening", "failed"} =>
          /\ \A k \in Keys \ {First} : sending[k] = "new"
          /\ streamID = First
    /\ phase = "failed" => ~up /\ (sending[First] = "new" \/ ret[First] # None)
    /\ phase \in {"opening", "open", "closing", "closed"} =>
          sending[First] # "new"
    /\ phase \in {"open", "closing", "closed"} => at[First] = "read"
    /\ sending[First] # "new" => reading \/ closed
    /\ closed /\ reading => phase \in {"closing", "closed", "failed"}
    /\ pending # {} => reading \/ phase \in {"closing", "closed"}

\* The life of a request.
KeyInv ==
    \A k \in Keys :
        /\ sending[k] = "new" =>
              /\ k \notin pending
              /\ ch[k] = None
              /\ ret[k] = None
              /\ at[k] = "none"
        /\ sending[k] = "registered" => at[k] = "none"
        /\ sending[k] = "sent" /\ at[k] = "none" => ~up
        /\ k \in pending => ret[k] = None /\ ch[k] = None
        /\ ret[k] \in {"ok", "error", "refused", "lost"} => ch[k] = ret[k]
        /\ ret[k] = "unsent" => at[k] = "none" \/ ch[k] = "unsent"
        /\ ret[k] = "cancelled" => HasContext(k) \/ ch[k] = "cancelled"
        /\ ch[k] # None => at[k] \in {"none", "read"}
        /\ ch[k] # None /\ at[k] = "none" => ch[k] = "lost" /\ ~up

\* The request's attempt is with a goroutine.
TakenOver(k) == \E a \in Attempts : Execute(a) = k /\ Busy(a)

\* Whoever waits for an answer is owed one.
WaitInv ==
    \A k \in Keys : Waiting(k) => k \in pending \/ ch[k] # None \/ TakenOver(k)

\* The life of a goroutine that has taken an attempt over.
RecoverInv ==
    \A a \in Attempts :
        /\ gor[a] # "none" =>
              /\ Reached(a)
              /\ at[Execute(a)] = "read"
              /\ Execute(a) \notin pending
        /\ Busy(a) => ch[Execute(a)] = None
        /\ gor[a] \notin {"none", "check", "dead"} => a[2] < MaxRetries
        /\ gor[a] \in {"none", "check", "recover", "blocked"} =>
              sending[CloseOf(a)] = "new"
        /\ gor[a] \in {"none", "check", "recover", "blocked", "closing"} =>
              sending[OpenOf(a)] = "new"
        /\ gor[a] \in {"closing", "opening"} <=> recovering = a
        /\ gor[a] = "opening" => sending[OpenOf(a)] # "new"

\* The attempts of a call follow each other.
ChainInv ==
    /\ \A a, b \in Attempts :
          Later(a, b) =>
              /\ Reached(b) => gor[a] \in {"await", "dead"}
              /\ gor[a] = "dead" => ~Alive(b) /\ ~Busy(b)
    /\ \A c \in Calls : ran[c] # <<>> => sending[Call(c)] # "new"

\* A call whose statement may still be run has not been run.
RunInv ==
    \A a \in Attempts :
        /\ Alive(a) \/ (Busy(a) /\ gor[a] # "await") => ran[a[1]] = <<>>
        /\ ch[Execute(a)] \in {"refused", "unsent"} => ran[a[1]] = <<>>
        /\ ret[Execute(a)] \in {"refused", "unsent"} => ran[a[1]] = <<>>
        /\ "ok" \in {at[Execute(a)], ch[Execute(a)], ret[Execute(a)]} =>
              Len(ran[a[1]]) = 1
        /\ Len(ran[a[1]]) <= 1

\* The streams at the server, and the requests that close and open them.
StreamInv ==
    /\ \A k \in Keys : k = First \/ (\E a \in Attempts : k = OpenOf(a)) =>
          /\ k \in table => at[k] \in {"ok", "read"}
          /\ at[k] = "error" \/ ch[k] = "error" => k \notin table
          /\ ch[k] = "lost" => closed
          /\ ch[k] \in {None, "ok", "error", "lost"}
    /\ \A s \in table : s = First \/ \E a \in Attempts : s = OpenOf(a)
    /\ streamID = First \/ (\E a \in Attempts : streamID = OpenOf(a))
    /\ streamID = First \/ at[streamID] = "read"
    /\ \A a \in Attempts :
          /\ recovering = a => target[CloseOf(a)] = streamID
          /\ sending[CloseOf(a)] = "new" => target[CloseOf(a)] = None
          /\ sending[CloseOf(a)] # "new" =>
                /\ target[CloseOf(a)] \in Keys
                /\ at[target[CloseOf(a)]] = "read"
          /\ (/\ sending[CloseOf(a)] # "new"
              /\ up /\ ~closed
              /\ at[CloseOf(a)] \notin {"none", "wire"})
             => target[CloseOf(a)] \notin table
          /\ sending[OpenOf(a)] # "new" =>
                gor[a] = "opening" \/ ret[OpenOf(a)] # None
    /\ NoStreamLeak

IInv ==
    /\ TypeOK
    /\ PhaseInv
    /\ KeyInv
    /\ WaitInv
    /\ RecoverInv
    /\ ChainInv
    /\ RunInv
    /\ StreamInv

-----------------------------------------------------------------------------
(* Requests *)

\* Requests with different names are different requests.
LEMMA KeyFacts ==
    /\ MaxRetries \in Nat
    /\ First \in Keys
    /\ \A a \in Attempts :
          /\ Execute(a) \in Keys /\ CloseOf(a) \in Keys /\ OpenOf(a) \in Keys
          /\ a[1] \in Calls /\ a[2] \in 0..MaxRetries
          /\ Execute(a) # First /\ CloseOf(a) # First /\ OpenOf(a) # First
          /\ HasContext(Execute(a)) <=> a[2] = 0
          /\ Execute(a)[3] # "open" /\ CloseOf(a)[3] # "open"
          /\ a[2] < MaxRetries => \E b \in Attempts :
                Retry(a) = Execute(b) /\ b[1] = a[1] /\ b[2] = a[2] + 1
    /\ ~HasContext(First)
    /\ \A a, b \in Attempts :
          /\ Execute(a) = Execute(b) => a = b
          /\ CloseOf(a) = CloseOf(b) => a = b
          /\ OpenOf(a) = OpenOf(b) => a = b
          /\ Execute(a) # CloseOf(b)
          /\ Execute(a) # OpenOf(b)
          /\ CloseOf(a) # OpenOf(b)
          /\ a[1] = b[1] /\ a[2] = b[2] => a = b
    /\ \A c \in Calls : \E a \in Attempts :
          Call(c) = Execute(a) /\ a[1] = c /\ a[2] = 0
    /\ \A k \in Keys :
          \/ k = First
          \/ \E a \in Attempts : k \in {Execute(a), CloseOf(a), OpenOf(a)}
    /\ None \notin Keys /\ None \notin Attempts
    /\ None \notin Results
<1>. USE ClientAssumption
<1>1. \A a \in Attempts :
         /\ a = <<a[1], a[2]>>
         /\ a[1] \in Calls /\ a[2] \in 0..MaxRetries
         /\ a[1] \in Nat /\ a[1] # None
  BY DEF Attempts, Calls
<1>2. \A a, b \in Attempts : a[1] = b[1] /\ a[2] = b[2] => a = b
  BY <1>1
<1>3. MaxRetries \in Nat /\ First \in Keys
  BY DEF Keys
<1>4. \A a \in Attempts :
         Execute(a) \in Keys /\ CloseOf(a) \in Keys /\ OpenOf(a) \in Keys
  BY DEF Keys
<1>5. \A a \in Attempts :
         Execute(a) # First /\ CloseOf(a) # First /\ OpenOf(a) # First
  BY <1>1 DEF Execute, CloseOf, OpenOf, First
<1>6. /\ \A a \in Attempts : HasContext(Execute(a)) <=> a[2] = 0
      /\ ~HasContext(First)
  BY <1>5 DEF HasContext, Execute
<1>7. \A a \in Attempts : Execute(a)[3] # "open" /\ CloseOf(a)[3] # "open"
  BY DEF Execute, CloseOf
<1>8. \A a, b \in Attempts :
         /\ Execute(a) = Execute(b) => a = b
         /\ CloseOf(a) = CloseOf(b) => a = b
         /\ OpenOf(a) = OpenOf(b) => a = b
  BY <1>2 DEF Execute, CloseOf, OpenOf
<1>9. \A a, b \in Attempts :
         /\ Execute(a) # CloseOf(b)
         /\ Execute(a) # OpenOf(b)
         /\ CloseOf(a) # OpenOf(b)
  BY DEF Execute, CloseOf, OpenOf
<1>10. ASSUME NEW a \in Attempts, a[2] < MaxRetries
       PROVE  \E b \in Attempts :
                 Retry(a) = Execute(b) /\ b[1] = a[1] /\ b[2] = a[2] + 1
  <2>. DEFINE b == <<a[1], a[2] + 1>>
  <2>1. b \in Attempts
    BY <1>1, <1>10 DEF Attempts
  <2>2. Retry(a) = Execute(b) /\ b[1] = a[1] /\ b[2] = a[2] + 1
    BY DEF Retry, Execute
  <2>. QED
    BY <2>1, <2>2
<1>11. ASSUME NEW c \in Calls
       PROVE  \E a \in Attempts : Call(c) = Execute(a) /\ a[1] = c /\ a[2] = 0
  <2>1. <<c, 0>> \in Attempts
    BY DEF Attempts
  <2>. QED
    BY <2>1 DEF Call, Execute
<1>12. \A k \in Keys :
          \/ k = First
          \/ \E a \in Attempts : k \in {Execute(a), CloseOf(a), OpenOf(a)}
  BY DEF Keys
<1>13. None \notin Keys /\ None \notin Attempts /\ None \notin Results
  BY NamesAssumption
<1>. QED
  BY <1>1, <1>2, <1>3, <1>4, <1>5, <1>6, <1>7, <1>8, <1>9, <1>10, <1>11,
     <1>12, <1>13

-----------------------------------------------------------------------------
(* The invariant is inductive *)

\* Nobody has dialed.
LEMMA InitIInv == Init => IInv
<1>. SUFFICES ASSUME Init PROVE IInv
  OBVIOUS
<1>. USE KeyFacts DEF Init
<1>1. TypeOK
  <2>1. /\ streamID \in Keys
        /\ evolves \in 0..MaxEvolves
        /\ ran \in [Calls -> Seq(Keys)]
    BY ClientAssumption
  <2>. QED
    BY <2>1 DEF TypeOK
<1>2. PhaseInv
  BY DEF PhaseInv
<1>3. KeyInv /\ WaitInv
  BY DEF KeyInv, WaitInv, Waiting
<1>4. RecoverInv
  BY DEF RecoverInv, Busy
<1>5. ChainInv
  BY DEF ChainInv, Reached, Later
<1>6. RunInv
  <2>1. \A k \in Keys : /\ sending[k] = "new" /\ at[k] = "none"
                        /\ ch[k] = None /\ ret[k] = None
    OBVIOUS
  <2>2. None \notin {"ok", "refused", "unsent"}
    BY DEF Results, Answers
  <2>3. \A a \in Attempts : ran[a[1]] = <<>> /\ Len(ran[a[1]]) = 0
    OBVIOUS
  <2>. QED
    BY <2>1, <2>2, <2>3 DEF RunInv, Alive, Busy
<1>7. StreamInv
  <2>1. \A k \in Keys :
           /\ sending[k] = "new" /\ at[k] = "none"
           /\ ch[k] = None
           /\ k \notin table
    OBVIOUS
  <2>2. None \notin {"ok", "error", "lost"}
    BY DEF Results, Answers
  <2>3. NoStreamLeak
    BY DEF NoStreamLeak
  <2>. QED
    BY <2>1, <2>2, <2>3 DEF StreamInv
<1>. QED
  BY <1>1, <1>2, <1>3, <1>4, <1>5, <1>6, <1>7 DEF IInv

\* Dialing sends no request.
LEMMA ConnectKeeps ==
    ASSUME IInv, NEW ok \in BOOLEAN, Connect(ok)
    PROVE  IInv'
<1>. USE DEF IInv, vars, connVars, sendVars, recoveryVars,
       serverVars, clientVars, Answers, Results
<1>1. TypeOK'
  BY DEF TypeOK, PhaseInv, RecoverInv, StreamInv, Connect
<1>2. PhaseInv'
  BY KeyFacts DEF TypeOK, PhaseInv, KeyInv, RecoverInv, Connect
<1>3. KeyInv'
  BY KeyFacts DEF TypeOK, PhaseInv, KeyInv, RecoverInv, Waiting, Busy,
     Connect
<1>4. WaitInv'
  BY KeyFacts DEF TypeOK, KeyInv, RecoverInv, WaitInv, TakenOver, Waiting,
     Busy, Connect
<1>5. RecoverInv'
  BY KeyFacts DEF TypeOK, KeyInv, RecoverInv, ChainInv, PhaseInv, Reached,
     Busy, Connect
<1>6. ChainInv'
  BY KeyFacts DEF TypeOK, KeyInv, RecoverInv, ChainInv, RunInv, Reached,
     Busy, Alive, Later, Waiting, Connect
<1>7. RunInv'
  BY KeyFacts DEF TypeOK, KeyInv, RecoverInv, ChainInv, RunInv, Reached,
     Busy, Alive, Later, Waiting, Connect
<1>8. StreamInv'
  BY KeyFacts DEF TypeOK, PhaseInv, KeyInv, RecoverInv, StreamInv,
     NoStreamLeak, Busy, Waiting, Connect
<1>. QED
  BY <1>1, <1>2, <1>3, <1>4, <1>5, <1>6, <1>7, <1>8

\* hello_ok registers the first request of all (openStream).
LEMMA HelloAcceptedKeeps ==
    ASSUME IInv, HelloAccepted
    PROVE  IInv'
<1>. USE DEF IInv, vars, connVars, sendVars, recoveryVars,
       serverVars, clientVars, Answers, Results
<1>1. TypeOK'
  BY KeyFacts DEF TypeOK, PhaseInv, RecoverInv, StreamInv, HelloAccepted,
     Register
<1>2. PhaseInv'
  <2>1. \A k \in Keys : sending[k] = "new" /\ k \notin pending
    BY KeyFacts DEF PhaseInv, KeyInv, HelloAccepted
  <2>2. /\ phase = "hello" /\ phase' = "opening"
        /\ streamID = First /\ UNCHANGED <<closed, streamID, js, up>>
        /\ reading' = (reading \/ ~js)
        /\ \A k \in Keys \ {First} : sending'[k] = sending[k]
        /\ sending'[First] # "new"
    BY KeyFacts DEF TypeOK, PhaseInv, HelloAccepted, Register
  <2>3. CASE closed
    BY KeyFacts, <2>1, <2>2, <2>3 DEF TypeOK, PhaseInv, HelloAccepted, Register
  <2>4. CASE ~closed
    BY KeyFacts, <2>1, <2>2, <2>4 DEF PhaseInv
  <2>. QED
    BY <2>3, <2>4
<1>3. KeyInv'
  BY KeyFacts DEF TypeOK, PhaseInv, KeyInv, RecoverInv, Waiting, Busy,
     HelloAccepted, Register
<1>4. WaitInv'
  BY KeyFacts DEF TypeOK, KeyInv, RecoverInv, WaitInv, TakenOver, Waiting,
     Busy, HelloAccepted, Register
<1>5. RecoverInv'
  BY KeyFacts DEF TypeOK, KeyInv, RecoverInv, ChainInv, PhaseInv, Reached,
     Busy, HelloAccepted, Register
<1>6. ChainInv'
  BY KeyFacts DEF TypeOK, KeyInv, RecoverInv, ChainInv, RunInv, Reached,
     Busy, Alive, Later, Waiting, HelloAccepted, Register
<1>7. RunInv'
  BY KeyFacts DEF TypeOK, KeyInv, RecoverInv, ChainInv, RunInv, Reached,
     Busy, Alive, Later, Waiting, HelloAccepted, Register
<1>8. StreamInv'
  BY KeyFacts DEF TypeOK, PhaseInv, KeyInv, RecoverInv, StreamInv,
     NoStreamLeak, Busy, Waiting, HelloAccepted, Register
<1>. QED
  BY <1>1, <1>2, <1>3, <1>4, <1>5, <1>6, <1>7, <1>8

\* A connection given up before the first stream has sent nothing.
LEMMA HelloFailsKeeps ==
    ASSUME IInv, HelloFails
    PROVE  IInv'
<1>. USE DEF IInv, vars, connVars, sendVars, recoveryVars,
       serverVars, clientVars, Answers, Results
<1>1. TypeOK'
  BY DEF TypeOK, PhaseInv, RecoverInv, StreamInv, HelloFails, GiveUp
<1>2. PhaseInv'
  BY KeyFacts DEF TypeOK, PhaseInv, KeyInv, RecoverInv, HelloFails, GiveUp
<1>3. KeyInv'
  BY KeyFacts DEF TypeOK, PhaseInv, KeyInv, RecoverInv, Waiting, Busy,
     HelloFails, GiveUp
<1>4. WaitInv'
  BY KeyFacts DEF TypeOK, KeyInv, RecoverInv, WaitInv, TakenOver, Waiting,
     Busy, HelloFails, GiveUp
<1>5. RecoverInv'
  BY KeyFacts DEF TypeOK, KeyInv, RecoverInv, ChainInv, PhaseInv, Reached,
     Busy, HelloFails, GiveUp
<1>6. ChainInv'
  BY KeyFacts DEF TypeOK, KeyInv, RecoverInv, ChainInv, RunInv, Reached,
     Busy, Alive, Later, Waiting, HelloFails, GiveUp
<1>7. RunInv'
  BY KeyFacts DEF TypeOK, KeyInv, RecoverInv, ChainInv, RunInv, Reached,
     Busy, Alive, Later, Waiting, HelloFails, GiveUp
<1>8. StreamInv'
  BY KeyFacts DEF TypeOK, PhaseInv, KeyInv, RecoverInv, StreamInv,
     NoStreamLeak, Busy, Waiting, HelloFails, GiveUp
<1>. QED
  BY <1>1, <1>2, <1>3, <1>4, <1>5, <1>6, <1>7, <1>8

\* openStream's answer has been taken from its channel.
LEMMA OpenedKeeps ==
    ASSUME IInv, Opened
    PROVE  IInv'
<1>. USE DEF IInv, vars, connVars, sendVars, recoveryVars,
       serverVars, clientVars, Answers, Results
<1>1. TypeOK'
  BY DEF TypeOK, PhaseInv, RecoverInv, StreamInv, Opened, GiveUp
<1>2. PhaseInv'
  BY KeyFacts DEF TypeOK, PhaseInv, KeyInv, RecoverInv, Opened, GiveUp
<1>3. KeyInv'
  BY KeyFacts DEF TypeOK, PhaseInv, KeyInv, RecoverInv, Waiting, Busy,
     Opened, GiveUp
<1>4. WaitInv'
  BY KeyFacts DEF TypeOK, KeyInv, RecoverInv, WaitInv, TakenOver, Waiting,
     Busy, Opened, GiveUp
<1>5. RecoverInv'
  BY KeyFacts DEF TypeOK, KeyInv, RecoverInv, ChainInv, PhaseInv, Reached,
     Busy, Opened, GiveUp
<1>6. ChainInv'
  BY KeyFacts DEF TypeOK, KeyInv, RecoverInv, ChainInv, RunInv, Reached,
     Busy, Alive, Later, Waiting, Opened, GiveUp
<1>7. RunInv'
  BY KeyFacts DEF TypeOK, KeyInv, RecoverInv, ChainInv, RunInv, Reached,
     Busy, Alive, Later, Waiting, Opened, GiveUp
<1>8. StreamInv'
  BY KeyFacts DEF TypeOK, PhaseInv, KeyInv, RecoverInv, StreamInv,
     NoStreamLeak, Busy, Waiting, Opened, GiveUp
<1>. QED
  BY <1>1, <1>2, <1>3, <1>4, <1>5, <1>6, <1>7, <1>8

\* The first attempt of a call: no attempt of it has been sent before.
LEMMA StartCallKeeps ==
    ASSUME IInv, NEW c \in Calls, StartCall(c)
    PROVE  IInv'
<1>. USE DEF IInv, vars, connVars, sendVars, recoveryVars,
       serverVars, clientVars, Answers, Results
<1>1. TypeOK'
  BY KeyFacts DEF TypeOK, PhaseInv, RecoverInv, StreamInv, StartCall,
     Register, Idle
<1>2. PhaseInv'
  BY KeyFacts DEF TypeOK, PhaseInv, KeyInv, RecoverInv, StartCall, Register,
     Idle
<1>3. KeyInv'
  BY KeyFacts DEF TypeOK, PhaseInv, KeyInv, RecoverInv, Waiting, Busy,
     StartCall, Register, Idle
<1>4. WaitInv'
  BY KeyFacts DEF TypeOK, KeyInv, RecoverInv, WaitInv, TakenOver, Waiting,
     Busy, StartCall, Register, Idle
<1>5. RecoverInv'
  BY KeyFacts DEF TypeOK, KeyInv, RecoverInv, ChainInv, PhaseInv, Reached,
     Busy, StartCall, Register, Idle
<1>6. ChainInv'
  <2>1. PICK b \in Attempts : Call(c) = Execute(b) /\ b[1] = c /\ b[2] = 0
    BY KeyFacts
  <2>2. /\ \A d \in Attempts \ {b} :
              UNCHANGED <<sending[Execute(d)], ret[Execute(d)]>>
        /\ UNCHANGED <<gor, at, ran>>
        /\ sending[Execute(b)] = "new" /\ sending'[Execute(b)] # "new"
    BY KeyFacts, <2>1 DEF TypeOK, StartCall, Register
  <2>3. \A d \in Attempts : ~Later(d, b)
    BY KeyFacts, <2>1 DEF Later
  <2>4. ASSUME NEW d \in Attempts, NEW e \in Attempts, Later(d, e)
        PROVE  /\ Reached(e)' => gor'[d] \in {"await", "dead"}
               /\ gor'[d] = "dead" => ~Alive(e)' /\ ~Busy(e)'
    BY <2>2, <2>3, <2>4 DEF ChainInv, Reached, Alive, Busy
  <2>5. \A i \in Calls : ran'[i] # <<>> => sending'[Call(i)] # "new"
    BY <2>1, <2>2, KeyFacts DEF ChainInv, TypeOK, StartCall, Register
  <2>. QED
    BY <2>4, <2>5 DEF ChainInv, Later
<1>7. RunInv'
  BY KeyFacts DEF TypeOK, KeyInv, RecoverInv, ChainInv, RunInv, Reached,
     Busy, Alive, Later, Waiting, StartCall, Register, Idle
<1>8. StreamInv'
  BY KeyFacts DEF TypeOK, PhaseInv, KeyInv, RecoverInv, StreamInv,
     NoStreamLeak, Busy, Waiting, StartCall, Register, Idle
<1>. QED
  BY <1>1, <1>2, <1>3, <1>4, <1>5, <1>6, <1>7, <1>8

\* Close is called between calls; it only sets c.closed.
LEMMA CloseKeeps ==
    ASSUME IInv, Close
    PROVE  IInv'
<1>. USE DEF IInv, vars, connVars, sendVars, recoveryVars,
       serverVars, clientVars, Answers, Results
<1>1. TypeOK'
  BY DEF TypeOK, PhaseInv, RecoverInv, StreamInv, Close, Idle
<1>2. PhaseInv'
  BY KeyFacts DEF TypeOK, PhaseInv, KeyInv, RecoverInv, Close, Idle
<1>3. KeyInv'
  BY KeyFacts DEF TypeOK, PhaseInv, KeyInv, RecoverInv, Waiting, Busy,
     Close, Idle
<1>4. WaitInv'
  BY KeyFacts DEF TypeOK, KeyInv, RecoverInv, WaitInv, TakenOver, Waiting,
     Busy, Close, Idle
<1>5. RecoverInv'
  BY KeyFacts DEF TypeOK, KeyInv, RecoverInv, ChainInv, PhaseInv, Reached,
     Busy, Close, Idle
<1>6. ChainInv'
  BY KeyFacts DEF TypeOK, KeyInv, RecoverInv, ChainInv, RunInv, Reached,
     Busy, Alive, Later, Waiting, Close, Idle
<1>7. RunInv'
  BY KeyFacts DEF TypeOK, KeyInv, RecoverInv, ChainInv, RunInv, Reached,
     Busy, Alive, Later, Waiting, Close, Idle
<1>8. StreamInv'
  BY KeyFacts DEF TypeOK, PhaseInv, KeyInv, RecoverInv, StreamInv,
     NoStreamLeak, Busy, Waiting, Close, Idle
<1>. QED
  BY <1>1, <1>2, <1>3, <1>4, <1>5, <1>6, <1>7, <1>8

\* Closing the socket loses answers, not requests.
LEMMA CloseSocketKeeps ==
    ASSUME IInv, CloseSocket
    PROVE  IInv'
<1>. USE DEF IInv, vars, connVars, sendVars, recoveryVars,
       serverVars, clientVars, Answers, Results
<1>1. TypeOK'
  BY DEF TypeOK, PhaseInv, RecoverInv, StreamInv, CloseSocket
<1>2. PhaseInv'
  BY KeyFacts DEF TypeOK, PhaseInv, KeyInv, RecoverInv, CloseSocket
<1>3. KeyInv'
  BY KeyFacts DEF TypeOK, PhaseInv, KeyInv, RecoverInv, Waiting, Busy,
     CloseSocket
<1>4. WaitInv'
  BY KeyFacts DEF TypeOK, KeyInv, RecoverInv, WaitInv, TakenOver, Waiting,
     Busy, CloseSocket
<1>5. RecoverInv'
  BY KeyFacts DEF TypeOK, KeyInv, RecoverInv, ChainInv, PhaseInv, Reached,
     Busy, CloseSocket
<1>6. ChainInv'
  BY KeyFacts DEF TypeOK, KeyInv, RecoverInv, ChainInv, RunInv, Reached,
     Busy, Alive, Later, Waiting, CloseSocket
<1>7. RunInv'
  BY KeyFacts DEF TypeOK, KeyInv, RecoverInv, ChainInv, RunInv, Reached,
     Busy, Alive, Later, Waiting, CloseSocket
<1>8. StreamInv'
  BY KeyFacts DEF TypeOK, PhaseInv, KeyInv, RecoverInv, StreamInv,
     NoStreamLeak, Busy, Waiting, CloseSocket
<1>. QED
  BY <1>1, <1>2, <1>3, <1>4, <1>5, <1>6, <1>7, <1>8

\* A registered request goes on the wire once.
LEMMA WriteKeeps ==
    ASSUME IInv, NEW k \in Keys, Write(k)
    PROVE  IInv'
<1>. USE DEF IInv, vars, connVars, sendVars, recoveryVars,
       serverVars, clientVars, Answers, Results
<1>1. TypeOK'
  BY DEF TypeOK, PhaseInv, RecoverInv, StreamInv, Write
<1>2. PhaseInv'
  BY KeyFacts DEF TypeOK, PhaseInv, KeyInv, RecoverInv, Write
<1>3. KeyInv'
  <2>1. \A j \in Keys \ {k} : UNCHANGED <<sending[j], at[j]>>
    BY DEF TypeOK, Write
  <2>2. UNCHANGED <<pending, ret, ch, up>>
    BY DEF Write
  <2>3. /\ sending[k] = "registered" /\ sending'[k] = "sent"
        /\ ret[k] = None
        /\ at'[k] = IF up THEN "wire" ELSE at[k]
    BY DEF TypeOK, Write, Waiting
  <2>4. at[k] = "none" /\ (ch[k] # None => ch[k] = "lost" /\ ~up)
    BY <2>3 DEF KeyInv
  <2>5. None \notin {"ok", "error", "refused", "lost", "unsent", "cancelled"}
    BY KeyFacts DEF Results, Answers
  <2>6. /\ k \in pending' => ret'[k] = None /\ ch'[k] = None
        /\ ret'[k] \in {"ok", "error", "refused", "lost"} => ch'[k] = ret'[k]
        /\ ret'[k] # "unsent" /\ ret'[k] # "cancelled"
        /\ ch'[k] # None => at'[k] \in {"none", "read"}
        /\ ch'[k] # None /\ at'[k] = "none" => ch'[k] = "lost" /\ ~up'
    BY <2>2, <2>3, <2>4, <2>5 DEF KeyInv
  <2>7. at'[k] = "none" => ~up'
    BY <2>2, <2>3
  <2>8. /\ sending'[k] = "sent"
        /\ at'[k] \in {"none", "wire"}
    BY <2>3, <2>4
  <2>. SUFFICES ASSUME NEW j \in Keys \ {k}
                PROVE  /\ sending[j] = "new" =>
                             /\ j \notin pending
                             /\ ch[j] = None
                             /\ ret[j] = None
                             /\ at[j] = "none"
                       /\ sending[j] = "registered" => at[j] = "none"
                       /\ sending[j] = "sent" /\ at[j] = "none" => ~up
                       /\ j \in pending => ret[j] = None /\ ch[j] = None
                       /\ ret[j] \in {"ok", "error", "refused", "lost"} =>
                             ch[j] = ret[j]
                       /\ ret[j] = "unsent" =>
                             at[j] = "none" \/ ch[j] = "unsent"
                       /\ ret[j] = "cancelled" =>
                             HasContext(j) \/ ch[j] = "cancelled"
                       /\ ch[j] # None => at[j] \in {"none", "read"}
                       /\ ch[j] # None /\ at[j] = "none" =>
                             ch[j] = "lost" /\ ~up
    BY <2>1, <2>2, <2>6, <2>7, <2>8 DEF KeyInv
  <2>. QED
    BY DEF KeyInv
<1>4. WaitInv'
  BY KeyFacts DEF TypeOK, KeyInv, RecoverInv, WaitInv, TakenOver, Waiting,
     Busy, Write
<1>5. RecoverInv'
  BY KeyFacts DEF TypeOK, KeyInv, RecoverInv, ChainInv, PhaseInv, Reached,
     Busy, Write
<1>6. ChainInv'
  BY KeyFacts DEF TypeOK, KeyInv, RecoverInv, ChainInv, RunInv, Reached,
     Busy, Alive, Later, Waiting, Write
<1>7. RunInv'
  BY KeyFacts DEF TypeOK, KeyInv, RecoverInv, ChainInv, RunInv, Reached,
     Busy, Alive, Later, Waiting, Write
<1>8. StreamInv'
  BY KeyFacts DEF TypeOK, PhaseInv, KeyInv, RecoverInv, StreamInv,
     NoStreamLeak, Busy, Waiting, Write
<1>. QED
  BY <1>1, <1>2, <1>3, <1>4, <1>5, <1>6, <1>7, <1>8

\* A request that could not be written is taken out of pending again.
LEMMA WriteFailsKeeps ==
    ASSUME IInv, NEW k \in Keys, WriteFails(k)
    PROVE  IInv'
<1>. USE DEF IInv, vars, connVars, sendVars, recoveryVars,
       serverVars, clientVars, Answers, Results
<1>1. TypeOK'
  BY DEF TypeOK, PhaseInv, RecoverInv, StreamInv, WriteFails
<1>2. PhaseInv'
  BY KeyFacts DEF TypeOK, PhaseInv, KeyInv, RecoverInv, WriteFails
<1>3. KeyInv'
  BY KeyFacts DEF TypeOK, PhaseInv, KeyInv, RecoverInv, Waiting, Busy,
     WriteFails
<1>4. WaitInv'
  BY KeyFacts DEF TypeOK, KeyInv, RecoverInv, WaitInv, TakenOver, Waiting,
     Busy, WriteFails
<1>5. RecoverInv'
  BY KeyFacts DEF TypeOK, KeyInv, RecoverInv, ChainInv, PhaseInv, Reached,
     Busy, WriteFails
<1>6. ChainInv'
  BY KeyFacts DEF TypeOK, KeyInv, RecoverInv, ChainInv, RunInv, Reached,
     Busy, Alive, Later, Waiting, WriteFails
<1>7. RunInv'
  BY KeyFacts DEF TypeOK, KeyInv, RecoverInv, ChainInv, RunInv, Reached,
     Busy, Alive, Later, Waiting, WriteFails
<1>8. StreamInv'
  BY KeyFacts DEF TypeOK, PhaseInv, KeyInv, RecoverInv, StreamInv,
     NoStreamLeak, Busy, Waiting, WriteFails
<1>. QED
  BY <1>1, <1>2, <1>3, <1>4, <1>5, <1>6, <1>7, <1>8

\* The caller takes what its channel holds.
LEMMA ReceiveKeeps ==
    ASSUME IInv, NEW k \in Keys, Receive(k)
    PROVE  IInv'
<1>. USE DEF IInv, vars, connVars, sendVars, recoveryVars,
       serverVars, clientVars, Answers, Results
<1>1. TypeOK'
  BY DEF TypeOK, PhaseInv, RecoverInv, StreamInv, Receive
<1>2. PhaseInv'
  BY KeyFacts DEF TypeOK, PhaseInv, KeyInv, RecoverInv, Receive
<1>3. KeyInv'
  BY KeyFacts DEF TypeOK, PhaseInv, KeyInv, RecoverInv, Waiting, Busy,
     Receive
<1>4. WaitInv'
  BY KeyFacts DEF TypeOK, KeyInv, RecoverInv, WaitInv, TakenOver, Waiting,
     Busy, Receive
<1>5. RecoverInv'
  BY KeyFacts DEF TypeOK, KeyInv, RecoverInv, ChainInv, PhaseInv, Reached,
     Busy, Receive
<1>6. ChainInv'
  BY KeyFacts DEF TypeOK, KeyInv, RecoverInv, ChainInv, RunInv, Reached,
     Busy, Alive, Later, Waiting, Receive
<1>7. RunInv'
  BY KeyFacts DEF TypeOK, KeyInv, RecoverInv, ChainInv, RunInv, Reached,
     Busy, Alive, Later, Waiting, Receive
<1>8. StreamInv'
  BY KeyFacts DEF TypeOK, PhaseInv, KeyInv, RecoverInv, StreamInv,
     NoStreamLeak, Busy, Waiting, Receive
<1>. QED
  BY <1>1, <1>2, <1>3, <1>4, <1>5, <1>6, <1>7, <1>8

\* A caller that stops waiting takes its request out of pending; only a
\* call's first attempt and the requests of recoverStream can.
LEMMA CancelKeeps ==
    ASSUME IInv, NEW k \in Keys, Cancel(k)
    PROVE  IInv'
<1>. USE DEF IInv, vars, connVars, sendVars, recoveryVars,
       serverVars, clientVars, Answers, Results
<1>1. TypeOK'
  BY DEF TypeOK, PhaseInv, RecoverInv, StreamInv, Cancel
<1>2. PhaseInv'
  BY KeyFacts DEF TypeOK, PhaseInv, KeyInv, RecoverInv, Cancel
<1>3. KeyInv'
  BY KeyFacts DEF TypeOK, PhaseInv, KeyInv, RecoverInv, Waiting, Busy,
     Cancel
<1>4. WaitInv'
  BY KeyFacts DEF TypeOK, KeyInv, RecoverInv, WaitInv, TakenOver, Waiting,
     Busy, Cancel
<1>5. RecoverInv'
  BY KeyFacts DEF TypeOK, KeyInv, RecoverInv, ChainInv, PhaseInv, Reached,
     Busy, Cancel
<1>6. ChainInv'
  BY KeyFacts DEF TypeOK, KeyInv, RecoverInv, ChainInv, RunInv, Reached,
     Busy, Alive, Later, Waiting, Cancel
<1>7. RunInv'
  BY KeyFacts DEF TypeOK, KeyInv, RecoverInv, ChainInv, RunInv, Reached,
     Busy, Alive, Later, Waiting, Cancel
<1>8. StreamInv'
  BY KeyFacts DEF TypeOK, PhaseInv, KeyInv, RecoverInv, StreamInv,
     NoStreamLeak, Busy, Waiting, Cancel
<1>. QED
  BY <1>1, <1>2, <1>3, <1>4, <1>5, <1>6, <1>7, <1>8

\* dispatch moves a request from pending to its channel.
LEMMA DispatchKeeps ==
    ASSUME IInv, NEW k \in Keys, Dispatch(k)
    PROVE  IInv'
<1>. USE DEF IInv, vars, connVars, sendVars, recoveryVars,
       serverVars, clientVars, Answers, Results
<1>1. TypeOK'
  BY DEF TypeOK, PhaseInv, RecoverInv, StreamInv, Dispatch
<1>2. PhaseInv'
  BY KeyFacts DEF TypeOK, PhaseInv, KeyInv, RecoverInv, Dispatch
<1>3. KeyInv'
  BY KeyFacts DEF TypeOK, PhaseInv, KeyInv, RecoverInv, Waiting, Busy,
     Dispatch
<1>4. WaitInv'
  BY KeyFacts DEF TypeOK, KeyInv, RecoverInv, WaitInv, TakenOver, Waiting,
     Busy, Dispatch
<1>5. RecoverInv'
  BY KeyFacts DEF TypeOK, KeyInv, RecoverInv, ChainInv, PhaseInv, Reached,
     Busy, Dispatch
<1>6. ChainInv'
  BY KeyFacts DEF TypeOK, KeyInv, RecoverInv, ChainInv, RunInv, Reached,
     Busy, Alive, Later, Waiting, Dispatch
<1>7. RunInv'
  BY KeyFacts DEF TypeOK, KeyInv, RecoverInv, ChainInv, RunInv, Reached,
     Busy, Alive, Later, Waiting, Dispatch
<1>8. StreamInv'
  BY KeyFacts DEF TypeOK, PhaseInv, KeyInv, RecoverInv, StreamInv,
     NoStreamLeak, Busy, Waiting, Dispatch
<1>. QED
  BY <1>1, <1>2, <1>3, <1>4, <1>5, <1>6, <1>7, <1>8

\* handleStreamSuperseded moves a request from pending to a goroutine.
LEMMA HandleSupersededKeeps ==
    ASSUME IInv, NEW a \in Attempts, HandleSuperseded(a)
    PROVE  IInv'
<1>. USE DEF IInv, vars, connVars, sendVars, recoveryVars,
       serverVars, clientVars, Answers, Results
<1>1. TypeOK'
  BY DEF TypeOK, PhaseInv, RecoverInv, StreamInv, HandleSuperseded
<1>2. PhaseInv'
  BY KeyFacts DEF TypeOK, PhaseInv, KeyInv, RecoverInv, HandleSuperseded
<1>3. KeyInv'
  BY KeyFacts DEF TypeOK, PhaseInv, KeyInv, RecoverInv, Waiting, Busy,
     HandleSuperseded
<1>4. WaitInv'
  BY KeyFacts DEF TypeOK, KeyInv, RecoverInv, WaitInv, TakenOver, Waiting,
     Busy, HandleSuperseded
<1>5. RecoverInv'
  BY KeyFacts DEF TypeOK, KeyInv, RecoverInv, ChainInv, PhaseInv, Reached,
     Busy, HandleSuperseded
<1>6. ChainInv'
  BY KeyFacts DEF TypeOK, KeyInv, RecoverInv, ChainInv, RunInv, Reached,
     Busy, Alive, Later, Waiting, HandleSuperseded
<1>7. RunInv'
  BY KeyFacts DEF TypeOK, KeyInv, RecoverInv, ChainInv, RunInv, Reached,
     Busy, Alive, Later, Waiting, HandleSuperseded
<1>8. StreamInv'
  BY KeyFacts DEF TypeOK, PhaseInv, KeyInv, RecoverInv, StreamInv,
     NoStreamLeak, Busy, Waiting, HandleSuperseded
<1>. QED
  BY <1>1, <1>2, <1>3, <1>4, <1>5, <1>6, <1>7, <1>8

\* The read loop of wsConn fails whatever is pending.
LEMMA ReadLoopEndsKeeps ==
    ASSUME IInv, ReadLoopEnds
    PROVE  IInv'
<1>. USE DEF IInv, vars, connVars, sendVars, recoveryVars,
       serverVars, clientVars, Answers, Results
<1>1. TypeOK'
  <2>1. /\ ch' \in [Keys -> Results \cup {None}]
        /\ pending' \in SUBSET Keys
    BY DEF TypeOK, ReadLoopEnds, FailPending
  <2>2. at' \in [Keys -> {"none", "wire", "found", "passed", "superseded",
                          "read"} \cup Answers]
    BY DEF TypeOK, ReadLoopEnds, StopReading
  <2>. QED
    BY <2>1, <2>2 DEF TypeOK, ReadLoopEnds, StopReading
<1>2. PhaseInv'
  BY KeyFacts DEF TypeOK, PhaseInv, KeyInv, RecoverInv, ReadLoopEnds,
     StopReading, FailPending
<1>3. KeyInv'
  BY KeyFacts DEF TypeOK, PhaseInv, KeyInv, RecoverInv, Waiting, Busy,
     ReadLoopEnds, StopReading, FailPending
<1>4. WaitInv'
  BY KeyFacts DEF TypeOK, KeyInv, RecoverInv, WaitInv, TakenOver, Waiting,
     Busy, ReadLoopEnds, StopReading, FailPending
<1>5. RecoverInv'
  BY KeyFacts DEF TypeOK, KeyInv, RecoverInv, ChainInv, PhaseInv, Reached,
     Busy, ReadLoopEnds, StopReading, FailPending
<1>6. ChainInv'
  BY KeyFacts DEF TypeOK, KeyInv, RecoverInv, ChainInv, RunInv, Reached,
     Busy, Alive, Later, Waiting, ReadLoopEnds, StopReading, FailPending
<1>7. RunInv'
  BY KeyFacts DEF TypeOK, KeyInv, RecoverInv, ChainInv, RunInv, Reached,
     Busy, Alive, Later, Waiting, ReadLoopEnds, StopReading, FailPending
<1>8. StreamInv'
  BY KeyFacts DEF TypeOK, PhaseInv, KeyInv, RecoverInv, StreamInv,
     NoStreamLeak, Busy, Waiting, ReadLoopEnds, StopReading, FailPending
<1>. QED
  BY <1>1, <1>2, <1>3, <1>4, <1>5, <1>6, <1>7, <1>8

\* onclose of jsWSConn fails whatever is pending, unless Close came first.
LEMMA HandleCloseKeeps ==
    ASSUME IInv, HandleClose
    PROVE  IInv'
<1>. USE DEF IInv, vars, connVars, sendVars, recoveryVars,
       serverVars, clientVars, Answers, Results
<1>1. TypeOK'
  <2>1. CASE closed
    BY <2>1 DEF TypeOK, HandleClose, StopReading, FailPending
  <2>2. CASE ~closed
    BY <2>2 DEF TypeOK, HandleClose, StopReading, FailPending
  <2>. QED
    BY <2>1, <2>2
<1>2. PhaseInv'
  BY KeyFacts DEF TypeOK, PhaseInv, KeyInv, RecoverInv, HandleClose,
     StopReading, FailPending
<1>3. KeyInv'
  BY KeyFacts DEF TypeOK, PhaseInv, KeyInv, RecoverInv, Waiting, Busy,
     HandleClose, StopReading, FailPending
<1>4. WaitInv'
  BY KeyFacts DEF TypeOK, KeyInv, RecoverInv, WaitInv, TakenOver, Waiting,
     Busy, HandleClose, StopReading, FailPending
<1>5. RecoverInv'
  BY KeyFacts DEF TypeOK, KeyInv, RecoverInv, ChainInv, PhaseInv, Reached,
     Busy, HandleClose, StopReading, FailPending
<1>6. ChainInv'
  BY KeyFacts DEF TypeOK, KeyInv, RecoverInv, ChainInv, RunInv, Reached,
     Busy, Alive, Later, Waiting, HandleClose, StopReading, FailPending
<1>7. RunInv'
  BY KeyFacts DEF TypeOK, KeyInv, RecoverInv, ChainInv, RunInv, Reached,
     Busy, Alive, Later, Waiting, HandleClose, StopReading, FailPending
<1>8. StreamInv'
  BY KeyFacts DEF TypeOK, PhaseInv, KeyInv, RecoverInv, StreamInv,
     NoStreamLeak, Busy, Waiting, HandleClose, StopReading, FailPending
<1>. QED
  BY <1>1, <1>2, <1>3, <1>4, <1>5, <1>6, <1>7, <1>8

\* After the last retry the refusal goes to the caller: the statement has
\* not been run.
LEMMA CheckRetriesKeeps ==
    ASSUME IInv, NEW a \in Attempts, CheckRetries(a)
    PROVE  IInv'
<1>. USE DEF IInv, vars, connVars, sendVars, recoveryVars,
       serverVars, clientVars, Answers, Results
<1>1. TypeOK'
  <2>1. CASE a[2] >= MaxRetries
    BY <2>1 DEF TypeOK, CheckRetries, Goto, Deliver
  <2>2. CASE ~(a[2] >= MaxRetries)
    BY <2>2 DEF TypeOK, CheckRetries, Goto, Deliver
  <2>. QED
    BY <2>1, <2>2
<1>2. PhaseInv'
  BY KeyFacts DEF TypeOK, PhaseInv, KeyInv, RecoverInv, CheckRetries, Goto,
     Deliver
<1>3. KeyInv'
  BY KeyFacts DEF TypeOK, PhaseInv, KeyInv, RecoverInv, Waiting, Busy,
     CheckRetries, Goto, Deliver
<1>4. WaitInv'
  <2>1. CASE a[2] >= MaxRetries
    <3>1. \A b \in Attempts \ {a} : gor'[b] = gor[b]
      BY <2>1 DEF CheckRetries, Goto, TypeOK
    <3>2. ch'[Execute(a)] = "refused" /\ "refused" # None
      BY KeyFacts, <2>1 DEF CheckRetries, Deliver, TypeOK
    <3>3. \A k \in Keys \ {Execute(a)} : ch'[k] = ch[k]
      BY <2>1 DEF CheckRetries, Deliver, TypeOK
    <3>4. UNCHANGED <<pending, sending, ret>>
      BY <2>1 DEF CheckRetries, Deliver
    <3>. QED
      BY <3>1, <3>2, <3>3, <3>4 DEF WaitInv, Waiting, TakenOver, Busy
  <2>2. CASE ~(a[2] >= MaxRetries)
    <3>1. /\ \A b \in Attempts : b # a => gor'[b] = gor[b]
          /\ gor'[a] = "recover" /\ gor[a] = "check"
          /\ UNCHANGED <<pending, sending, ret, ch>>
      BY <2>2 DEF CheckRetries, Goto, TypeOK
    <3>2. \A b \in Attempts : Busy(b) => Busy(b)'
      BY <3>1 DEF Busy
    <3>. QED
      BY <3>1, <3>2 DEF WaitInv, Waiting, TakenOver
  <2>. QED
    BY <2>1, <2>2
<1>5. RecoverInv'
  BY KeyFacts DEF TypeOK, KeyInv, RecoverInv, ChainInv, PhaseInv, Reached,
     Busy, CheckRetries, Goto, Deliver
<1>6. ChainInv'
  <2>1. /\ UNCHANGED <<at, sending, ret, ran>>
        /\ gor[a] = "check"
        /\ \A b \in Attempts \ {a} : gor'[b] = gor[b]
    BY DEF TypeOK, CheckRetries, Goto, Deliver
  <2>2. ASSUME NEW b \in Attempts, Later(a, b)
        PROVE  ~Reached(b) /\ ~Alive(b) /\ ~Busy(b)
    <3>1. ~Reached(b)
      BY <2>1, <2>2 DEF ChainInv
    <3>2. at[Execute(b)] = "none" /\ gor[b] = "none"
      BY <3>1, KeyFacts DEF Reached, KeyInv, RecoverInv, TypeOK
    <3>. QED
      BY <3>1, <3>2 DEF Reached, Alive, Busy
  <2>3. ASSUME NEW b \in Attempts, Later(b, a)
        PROVE  gor[b] = "await"
    BY <2>1, <2>3 DEF ChainInv, RecoverInv, Busy
  <2>4. ASSUME NEW b \in Attempts, NEW d \in Attempts, Later(b, d)
        PROVE  /\ Reached(d)' => gor'[b] \in {"await", "dead"}
               /\ gor'[b] = "dead" => ~Alive(d)' /\ ~Busy(d)'
    <3>1. b # d
      BY <2>4, KeyFacts DEF Later
    <3>2. CASE b = a
      BY <2>1, <2>2, <2>4, <3>1, <3>2 DEF Reached, Alive, Busy
    <3>3. CASE d = a
      BY <2>1, <2>3, <2>4, <3>1, <3>3 DEF Reached
    <3>4. CASE b # a /\ d # a
      BY <2>1, <2>4, <3>4 DEF ChainInv, Reached, Alive, Busy
    <3>. QED
      BY <3>2, <3>3, <3>4
  <2>5. \A c \in Calls : ran'[c] # <<>> => sending'[Call(c)] # "new"
    BY <2>1 DEF ChainInv
  <2>. QED
    BY <2>4, <2>5 DEF ChainInv, Later
<1>7. RunInv'
  BY KeyFacts DEF TypeOK, KeyInv, RecoverInv, ChainInv, RunInv, Reached,
     Busy, Alive, Later, Waiting, CheckRetries, Goto, Deliver
<1>8. StreamInv'
  BY KeyFacts DEF TypeOK, PhaseInv, KeyInv, RecoverInv, StreamInv,
     NoStreamLeak, Busy, Waiting, CheckRetries, Goto, Deliver
<1>. QED
  BY <1>1, <1>2, <1>3, <1>4, <1>5, <1>6, <1>7, <1>8

\* A recovery sends close_stream for the stream that is current, and
\* nobody else changes c.streamID until it is done.
LEMMA StartRecoveryKeeps ==
    ASSUME IInv, NEW a \in Attempts, StartRecovery(a)
    PROVE  IInv'
<1>. USE DEF IInv, vars, connVars, sendVars, recoveryVars,
       serverVars, clientVars, Answers, Results
<1>1. TypeOK'
  BY KeyFacts DEF TypeOK, PhaseInv, RecoverInv, StreamInv, StartRecovery,
     Goto, Register
<1>2. PhaseInv'
  BY KeyFacts DEF TypeOK, PhaseInv, KeyInv, RecoverInv, StartRecovery, Goto,
     Register
<1>3. KeyInv'
  BY KeyFacts DEF TypeOK, PhaseInv, KeyInv, RecoverInv, Waiting, Busy,
     StartRecovery, Goto, Register
<1>4. WaitInv'
  BY KeyFacts DEF TypeOK, KeyInv, RecoverInv, WaitInv, TakenOver, Waiting,
     Busy, StartRecovery, Goto, Register
<1>5. RecoverInv'
  BY KeyFacts DEF TypeOK, KeyInv, RecoverInv, ChainInv, PhaseInv, Reached,
     Busy, StartRecovery, Goto, Register
<1>6. ChainInv'
  BY KeyFacts DEF TypeOK, KeyInv, RecoverInv, ChainInv, RunInv, Reached,
     Busy, Alive, Later, Waiting, StartRecovery, Goto, Register
<1>7. RunInv'
  BY KeyFacts DEF TypeOK, KeyInv, RecoverInv, ChainInv, RunInv, Reached,
     Busy, Alive, Later, Waiting, StartRecovery, Goto, Register
<1>8. StreamInv'
  <2>1. /\ sending[CloseOf(a)] = "new" /\ at[CloseOf(a)] = "none"
        /\ target[CloseOf(a)] = None /\ ret[CloseOf(a)] = None
    BY KeyFacts DEF StartRecovery, RecoverInv, KeyInv, StreamInv
  <2>2. at[streamID] = "read"
    BY KeyFacts DEF StartRecovery, RecoverInv, Reached, PhaseInv, StreamInv,
       TypeOK
  <2>3. /\ recovering = None /\ recovering' = a
        /\ target'[CloseOf(a)] = streamID /\ gor[a] = "recover"
        /\ UNCHANGED <<ch, at, table, streamID, up, closed>>
    BY KeyFacts DEF TypeOK, StartRecovery, Register
  <2>4. \A k \in Keys \ {CloseOf(a)} :
           UNCHANGED <<target[k], sending[k], ret[k]>>
    BY DEF TypeOK, StartRecovery, Register
  <2>5. \A d \in Attempts \ {a} : gor'[d] = gor[d]
    BY DEF TypeOK, StartRecovery, Goto
  <2>6. \A d \in Attempts :
           /\ UNCHANGED <<sending[OpenOf(d)], ret[OpenOf(d)]>>
           /\ d # a => UNCHANGED <<target[CloseOf(d)], sending[CloseOf(d)]>>
    BY KeyFacts, <2>4
  <2>7. NoStreamLeak'
    <3>. SUFFICES ASSUME up, ~closed, NEW s \in table
                  PROVE  \/ s = streamID
                         \/ \E d \in Attempts :
                               \/ s = OpenOf(d) /\ gor'[d] = "opening"
                               \/ /\ target'[CloseOf(d)] = s
                                  /\ at[CloseOf(d)] \in {"none", "wire"}
                         \/ ret'[s] = "cancelled"
      BY <2>3 DEF NoStreamLeak
    <3>1. s \in Keys /\ s # None
      BY KeyFacts DEF TypeOK
    <3>2. CASE s = streamID
      BY <3>2
    <3>3. CASE \E d \in Attempts : s = OpenOf(d) /\ gor[d] = "opening"
      BY <2>3, <2>5, <3>3
    <3>4. CASE \E d \in Attempts :
                  target[CloseOf(d)] = s /\ at[CloseOf(d)] \in {"none", "wire"}
      BY <2>1, <2>6, <3>1, <3>4
    <3>5. CASE ret[s] = "cancelled"
      BY KeyFacts, <2>1, <2>4, <3>1, <3>5 DEF Results
    <3>. QED
      BY <3>2, <3>3, <3>4, <3>5 DEF StreamInv, NoStreamLeak
  <2>8. ASSUME NEW d \in Attempts
        PROVE  /\ recovering' = d => target'[CloseOf(d)] = streamID'
               /\ sending'[CloseOf(d)] = "new" => target'[CloseOf(d)] = None
               /\ sending'[CloseOf(d)] # "new" =>
                     /\ target'[CloseOf(d)] \in Keys
                     /\ at'[target'[CloseOf(d)]] = "read"
               /\ (/\ sending'[CloseOf(d)] # "new"
                   /\ up' /\ ~closed'
                   /\ at'[CloseOf(d)] \notin {"none", "wire"})
                  => target'[CloseOf(d)] \notin table'
               /\ sending'[OpenOf(d)] # "new" =>
                     gor'[d] = "opening" \/ ret'[OpenOf(d)] # None
    <3>1. CASE d = a
      <4>1. sending'[CloseOf(a)] # "new" /\ streamID \in Keys
        BY KeyFacts DEF TypeOK, StartRecovery, Register
      <4>. QED
        BY <2>1, <2>2, <2>3, <2>6, <3>1, <4>1 DEF StreamInv
    <3>2. CASE d # a
      BY <2>3, <2>5, <2>6, <3>2 DEF StreamInv
    <3>. QED
      BY <3>1, <3>2
  <2>9. /\ \A k \in Keys : k = First \/ (\E d \in Attempts : k = OpenOf(d)) =>
              /\ k \in table' => at'[k] \in {"ok", "read"}
              /\ at'[k] = "error" \/ ch'[k] = "error" => k \notin table'
              /\ ch'[k] = "lost" => closed'
              /\ ch'[k] \in {None, "ok", "error", "lost"}
        /\ \A s \in table' : s = First \/ \E d \in Attempts : s = OpenOf(d)
        /\ streamID' = First \/ (\E d \in Attempts : streamID' = OpenOf(d))
        /\ streamID' = First \/ at'[streamID'] = "read"
    BY <2>3 DEF StreamInv
  <2>. QED
    BY <2>7, <2>8, <2>9 DEF StreamInv
<1>. QED
  BY <1>1, <1>2, <1>3, <1>4, <1>5, <1>6, <1>7, <1>8

\* A goroutine that waits for a recovery touches nothing.
LEMMA JoinRecoveryKeeps ==
    ASSUME IInv, NEW a \in Attempts, JoinRecovery(a)
    PROVE  IInv'
<1>. USE DEF IInv, vars, connVars, sendVars, recoveryVars,
       serverVars, clientVars, Answers, Results
<1>1. TypeOK'
  BY DEF TypeOK, PhaseInv, RecoverInv, StreamInv, JoinRecovery, Goto
<1>2. PhaseInv'
  BY KeyFacts DEF TypeOK, PhaseInv, KeyInv, RecoverInv, JoinRecovery, Goto
<1>3. KeyInv'
  BY KeyFacts DEF TypeOK, PhaseInv, KeyInv, RecoverInv, Waiting, Busy,
     JoinRecovery, Goto
<1>4. WaitInv'
  BY KeyFacts DEF TypeOK, KeyInv, RecoverInv, WaitInv, TakenOver, Waiting,
     Busy, JoinRecovery, Goto
<1>5. RecoverInv'
  BY KeyFacts DEF TypeOK, KeyInv, RecoverInv, ChainInv, PhaseInv, Reached,
     Busy, JoinRecovery, Goto
<1>6. ChainInv'
  BY KeyFacts DEF TypeOK, KeyInv, RecoverInv, ChainInv, RunInv, Reached,
     Busy, Alive, Later, Waiting, JoinRecovery, Goto
<1>7. RunInv'
  BY KeyFacts DEF TypeOK, KeyInv, RecoverInv, ChainInv, RunInv, Reached,
     Busy, Alive, Later, Waiting, JoinRecovery, Goto
<1>8. StreamInv'
  BY KeyFacts DEF TypeOK, PhaseInv, KeyInv, RecoverInv, StreamInv,
     NoStreamLeak, Busy, Waiting, JoinRecovery, Goto
<1>. QED
  BY <1>1, <1>2, <1>3, <1>4, <1>5, <1>6, <1>7, <1>8

\* Whatever is sent is a request of this connection.
LEMMA RegisterTyped ==
    ASSUME TypeOK, NEW k \in Keys, NEW stream \in Keys \cup {None},
           Register(k, stream)
    PROVE  /\ pending' \in SUBSET Keys
           /\ sending' \in [Keys -> {"new", "registered", "sent"}]
           /\ ch' \in [Keys -> Results \cup {None}]
           /\ ret' \in [Keys -> Results \cup {None}]
           /\ target' \in [Keys -> Keys \cup {None}]
<1>1. CASE closed
  BY <1>1 DEF TypeOK, Register, Results
<1>2. CASE ~closed
  BY <1>2 DEF TypeOK, Register
<1>. QED
  BY <1>1, <1>2

\* The request for a fresh stream is sent once per recovery.
LEMMA OpenFreshKeeps ==
    ASSUME IInv, NEW a \in Attempts, OpenFresh(a)
    PROVE  IInv'
<1>. USE DEF IInv, vars, connVars, sendVars, recoveryVars,
       serverVars, clientVars, Answers, Results
<1>1. TypeOK'
  <2>1. Register(OpenOf(a), None) /\ OpenOf(a) \in Keys
    BY KeyFacts DEF OpenFresh
  <2>. HIDE DEF Answers, Results
  <2>2. /\ gor' \in [Attempts -> {"none", "check", "recover", "blocked",
                                 "closing", "opening", "resend", "await",
                                 "dead"}]
        /\ UNCHANGED <<connVars, closed, reading, streamID, recovering, up,
                      serverVars>>
    BY DEF TypeOK, OpenFresh, Goto
  <2>. QED
    BY <2>1, <2>2, RegisterTyped DEF TypeOK
<1>2. PhaseInv'
  BY KeyFacts DEF TypeOK, PhaseInv, KeyInv, RecoverInv, OpenFresh, Goto,
     Register
<1>3. KeyInv'
  BY KeyFacts DEF TypeOK, PhaseInv, KeyInv, RecoverInv, Waiting, Busy,
     OpenFresh, Goto, Register
<1>4. WaitInv'
  BY KeyFacts DEF TypeOK, KeyInv, RecoverInv, WaitInv, TakenOver, Waiting,
     Busy, OpenFresh, Goto, Register
<1>5. RecoverInv'
  BY KeyFacts DEF TypeOK, KeyInv, RecoverInv, ChainInv, PhaseInv, Reached,
     Busy, OpenFresh, Goto, Register
<1>6. ChainInv'
  BY KeyFacts DEF TypeOK, KeyInv, RecoverInv, ChainInv, RunInv, Reached,
     Busy, Alive, Later, Waiting, OpenFresh, Goto, Register
<1>7. RunInv'
  BY KeyFacts DEF TypeOK, KeyInv, RecoverInv, ChainInv, RunInv, Reached,
     Busy, Alive, Later, Waiting, OpenFresh, Goto, Register
<1>8. StreamInv'
  <2>1. /\ UNCHANGED <<at, ch, table, streamID, recovering, up, closed>>
        /\ \A k \in Keys \ {OpenOf(a)} :
              UNCHANGED <<target[k], sending[k], ret[k]>>
        /\ \A d \in Attempts \ {a} : gor'[d] = gor[d]
        /\ gor[a] = "closing" /\ gor'[a] = "opening"
    BY DEF TypeOK, OpenFresh, Register, Goto
  <2>2. \A d \in Attempts :
           /\ UNCHANGED <<target[CloseOf(d)], sending[CloseOf(d)]>>
           /\ d # a => UNCHANGED <<sending[OpenOf(d)], ret[OpenOf(d)]>>
    BY KeyFacts, <2>1
  <2>3. ret[OpenOf(a)] = None
    BY KeyFacts, <2>1 DEF RecoverInv, KeyInv
  <2>4. NoStreamLeak'
    <3>1. \A s \in Keys : ret[s] = "cancelled" => ret'[s] = "cancelled"
      BY KeyFacts, <2>1, <2>3 DEF Results
    <3>2. \A s \in table : s \in Keys
      BY DEF TypeOK
    <3>3. \A s, d : s = OpenOf(d) /\ gor[d] = "opening" /\ d \in Attempts
             => gor'[d] = "opening"
      BY <2>1
    <3>. QED
      BY <2>1, <2>2, <3>1, <3>2, <3>3 DEF StreamInv, NoStreamLeak
  <2>5. ASSUME NEW d \in Attempts
        PROVE  sending'[OpenOf(d)] # "new" =>
                  gor'[d] = "opening" \/ ret'[OpenOf(d)] # None
    BY <2>1, <2>2 DEF StreamInv
  <2>. QED
    BY <2>1, <2>2, <2>4, <2>5 DEF StreamInv
<1>. QED
  BY <1>1, <1>2, <1>3, <1>4, <1>5, <1>6, <1>7, <1>8

\* The fresh stream becomes current when the old one's close_stream has
\* been sent: no stream is forgotten.
LEMMA AdoptFreshKeeps ==
    ASSUME IInv, NEW a \in Attempts, AdoptFresh(a)
    PROVE  IInv'
<1>. USE DEF IInv, vars, connVars, sendVars, recoveryVars,
       serverVars, clientVars, Answers, Results
<1>1. TypeOK'
  BY KeyFacts DEF TypeOK, PhaseInv, RecoverInv, StreamInv, AdoptFresh,
     Release
<1>2. PhaseInv'
  BY KeyFacts DEF TypeOK, PhaseInv, KeyInv, RecoverInv, AdoptFresh, Release
<1>3. KeyInv'
  BY KeyFacts DEF TypeOK, PhaseInv, KeyInv, RecoverInv, Waiting, Busy,
     AdoptFresh, Release
<1>4. WaitInv'
  BY KeyFacts DEF TypeOK, KeyInv, RecoverInv, WaitInv, TakenOver, Waiting,
     Busy, AdoptFresh, Release
<1>5. RecoverInv'
  BY KeyFacts DEF TypeOK, KeyInv, RecoverInv, ChainInv, PhaseInv, Reached,
     Busy, AdoptFresh, Release
<1>6. ChainInv'
  BY KeyFacts DEF TypeOK, KeyInv, RecoverInv, ChainInv, RunInv, Reached,
     Busy, Alive, Later, Waiting, AdoptFresh, Release
<1>7. RunInv'
  BY KeyFacts DEF TypeOK, KeyInv, RecoverInv, ChainInv, RunInv, Reached,
     Busy, Alive, Later, Waiting, AdoptFresh, Release
<1>8. StreamInv'
  <2>1. /\ UNCHANGED <<ch, at, table, up, closed, target, sending, ret>>
        /\ streamID' = OpenOf(a) /\ recovering = a /\ recovering' = None
        /\ ret[OpenOf(a)] = "ok"
    BY DEF AdoptFresh, Release, RecoverInv
  <2>2. at[OpenOf(a)] = "read"
    BY KeyFacts, <2>1 DEF KeyInv, TypeOK
  <2>3. \A d \in Attempts \ {a} :
           gor[d] # "opening" /\ gor'[d] # "opening"
    BY <2>1 DEF AdoptFresh, Release, RecoverInv
  <2>4. NoStreamLeak'
    <3>. SUFFICES ASSUME up, ~closed, NEW s \in table
                  PROVE  \/ s = OpenOf(a)
                         \/ \E d \in Attempts :
                               /\ target[CloseOf(d)] = s
                               /\ at[CloseOf(d)] \in {"none", "wire"}
                         \/ ret[s] = "cancelled"
      BY <2>1 DEF NoStreamLeak
    <3>1. CASE s = streamID
      <4>1. target[CloseOf(a)] = s
        BY <2>1, <3>1 DEF StreamInv
      <4>2. sending[CloseOf(a)] # "new"
        BY KeyFacts, <4>1 DEF StreamInv, TypeOK
      <4>. QED
        BY <4>1, <4>2 DEF StreamInv
    <3>2. CASE \E d \in Attempts : s = OpenOf(d) /\ gor[d] = "opening"
      BY <2>3, <3>2
    <3>. QED
      BY <3>1, <3>2 DEF StreamInv, NoStreamLeak
  <2>5. ASSUME NEW d \in Attempts
        PROVE  /\ recovering' = d => target'[CloseOf(d)] = streamID'
               /\ sending'[OpenOf(d)] # "new" =>
                     gor'[d] = "opening" \/ ret'[OpenOf(d)] # None
    BY KeyFacts, <2>1, <2>3 DEF StreamInv, Results, Answers
  <2>. QED
    BY <2>1, <2>2, <2>4, <2>5 DEF StreamInv
<1>. QED
  BY <1>1, <1>2, <1>3, <1>4, <1>5, <1>6, <1>7, <1>8

\* A failed recovery delivers its error to its own caller, whose statement
\* has not been run.
LEMMA RecoveryFailsKeeps ==
    ASSUME IInv, NEW a \in Attempts, RecoveryFails(a)
    PROVE  IInv'
<1>. USE DEF IInv, vars, connVars, sendVars, recoveryVars,
       serverVars, clientVars, Answers, Results
<1>1. TypeOK'
  BY KeyFacts DEF TypeOK, PhaseInv, RecoverInv, StreamInv, RecoveryFails,
     Release, Deliver
<1>2. PhaseInv'
  BY KeyFacts DEF TypeOK, PhaseInv, KeyInv, RecoverInv, RecoveryFails,
     Release, Deliver
<1>3. KeyInv'
  BY KeyFacts DEF TypeOK, PhaseInv, KeyInv, RecoverInv, Waiting, Busy,
     RecoveryFails, Release, Deliver
<1>4. WaitInv'
  BY KeyFacts DEF TypeOK, KeyInv, RecoverInv, WaitInv, TakenOver, Waiting,
     Busy, RecoveryFails, Release, Deliver
<1>5. RecoverInv'
  BY KeyFacts DEF TypeOK, KeyInv, RecoverInv, ChainInv, PhaseInv, Reached,
     Busy, RecoveryFails, Release, Deliver
<1>6. ChainInv'
  BY KeyFacts DEF TypeOK, KeyInv, RecoverInv, ChainInv, RunInv, Reached,
     Busy, Alive, Later, Waiting, RecoveryFails, Release, Deliver
<1>7. RunInv'
  BY KeyFacts DEF TypeOK, KeyInv, RecoverInv, ChainInv, RunInv, Reached,
     Busy, Alive, Later, Waiting, RecoveryFails, Release, Deliver
<1>8. StreamInv'
  BY KeyFacts DEF TypeOK, PhaseInv, KeyInv, RecoverInv, StreamInv,
     NoStreamLeak, Busy, Waiting, RecoveryFails, Release, Deliver
<1>. QED
  BY <1>1, <1>2, <1>3, <1>4, <1>5, <1>6, <1>7, <1>8

\* A retry is sent by the goroutine of the attempt before it, and that one
\* was refused.
LEMMA ResendKeeps ==
    ASSUME IInv, NEW a \in Attempts, Resend(a)
    PROVE  IInv'
<1>. USE DEF IInv, vars, connVars, sendVars, recoveryVars,
       serverVars, clientVars, Answers, Results
<1>1. TypeOK'
  <2>1. Retry(a) \in Keys
    BY KeyFacts DEF RecoverInv, Resend
  <2>2. CASE closed
    BY <2>1, <2>2 DEF TypeOK, Resend, Register, Goto
  <2>3. CASE ~closed
    BY <2>1, <2>3 DEF TypeOK, Resend, Register, Goto
  <2>. QED
    BY <2>2, <2>3
<1>2. PhaseInv'
  BY KeyFacts DEF TypeOK, PhaseInv, KeyInv, RecoverInv, Resend, Goto,
     Register
<1>3. KeyInv'
  <2>1. Retry(a) \in Keys /\ sending[Retry(a)] = "new"
    BY KeyFacts DEF Resend, RecoverInv, ChainInv, Later, Reached
  <2>2. CASE closed
    BY <2>1, <2>2 DEF TypeOK, KeyInv, Resend, Register, Goto
  <2>3. CASE ~closed
    BY <2>1, <2>3 DEF TypeOK, KeyInv, Resend, Register, Goto
  <2>. QED
    BY <2>2, <2>3
<1>4. WaitInv'
  BY KeyFacts DEF TypeOK, KeyInv, RecoverInv, WaitInv, TakenOver, Waiting,
     Busy, Resend, Goto, Register
<1>5. RecoverInv'
  <2>1. PICK b \in Attempts : Retry(a) = Execute(b) /\ Later(a, b)
    BY KeyFacts DEF Resend, RecoverInv, Later
  <2>2. gor[b] = "none"
    BY <2>1 DEF Resend, RecoverInv, ChainInv
  <2>3. \A d \in Attempts : sending'[CloseOf(d)] = sending[CloseOf(d)]
    BY KeyFacts, <2>1 DEF TypeOK, Resend, Register
  <2>4. \A d \in Attempts : sending'[OpenOf(d)] = sending[OpenOf(d)]
    BY KeyFacts, <2>1 DEF TypeOK, Resend, Register
  <2>5. \A d \in Attempts : d # b =>
           /\ sending'[Execute(d)] = sending[Execute(d)]
           /\ Execute(d) \in pending' => Execute(d) \in pending
    BY KeyFacts, <2>1 DEF TypeOK, Resend, Register
  <2>6. /\ \A d \in Attempts \ {a} : gor'[d] = gor[d]
        /\ gor[a] = "resend" /\ gor'[a] = "await"
        /\ UNCHANGED <<at, ch, recovering>>
    BY DEF TypeOK, Resend, Register, Goto
  <2>. QED
    BY <2>2, <2>3, <2>4, <2>5, <2>6 DEF RecoverInv, Reached, Busy
<1>6. ChainInv'
  <2>1. PICK b \in Attempts :
           Retry(a) = Execute(b) /\ b[1] = a[1] /\ b[2] = a[2] + 1
    BY KeyFacts DEF Resend, RecoverInv
  <2>2. /\ \A d \in Attempts \ {a} : gor'[d] = gor[d]
        /\ gor[a] = "resend" /\ gor'[a] = "await"
        /\ \A d \in Attempts \ {b} :
              /\ sending'[Execute(d)] = sending[Execute(d)]
              /\ ret'[Execute(d)] = ret[Execute(d)]
        /\ UNCHANGED <<at, ran>>
    BY KeyFacts, <2>1 DEF TypeOK, Resend, Register, Goto
  <2>3. ASSUME NEW d \in Attempts, Later(d, b)
        PROVE  d = a \/ Later(d, a)
    <3>1. d[1] = a[1] /\ d[2] < a[2] + 1
      BY <2>1, <2>3 DEF Later
    <3>2. d[2] \in Nat /\ a[2] \in Nat
      BY KeyFacts
    <3>3. d[2] = a[2] => d = a
      BY <3>1, KeyFacts
    <3>. QED
      BY <3>1, <3>2, <3>3 DEF Later
  <2>4. \A d \in Attempts : Later(d, a) => gor[d] = "await"
    BY <2>2 DEF ChainInv, RecoverInv, Busy
  <2>5. gor[b] = "none"
    BY <2>1, <2>2, KeyFacts DEF RecoverInv, ChainInv, Later
  <2>6. ASSUME NEW d \in Attempts, NEW e \in Attempts, Later(d, e)
        PROVE  /\ Reached(e)' => gor'[d] \in {"await", "dead"}
               /\ gor'[d] = "dead" => ~Alive(e)' /\ ~Busy(e)'
    <3>1. CASE e = b
      BY <2>2, <2>3, <2>4, <2>6, <3>1
    <3>2. CASE e = a
      BY <2>2, <2>4, <2>6, <3>2 DEF Later
    <3>3. CASE e # b /\ e # a
      BY <2>2, <2>6, <3>3 DEF ChainInv, Reached, Alive, Busy
    <3>. QED
      BY <3>1, <3>2, <3>3
  <2>7. \A c \in Calls : ran'[c] # <<>> => sending'[Call(c)] # "new"
    BY KeyFacts, <2>2 DEF ChainInv, TypeOK, Resend, Register
  <2>. QED
    BY <2>6, <2>7 DEF ChainInv, Later
<1>7. RunInv'
  BY KeyFacts DEF TypeOK, KeyInv, RecoverInv, ChainInv, RunInv, Reached,
     Busy, Alive, Later, Waiting, Resend, Goto, Register
<1>8. StreamInv'
  <2>1. PICK b \in Attempts : Retry(a) = Execute(b)
    BY KeyFacts DEF Resend, RecoverInv
  <2>2. /\ UNCHANGED <<at, ch, table, streamID, recovering, up, closed>>
        /\ \A k \in Keys \ {Execute(b)} :
              UNCHANGED <<target[k], sending[k], ret[k]>>
        /\ \A d \in Attempts : gor'[d] = "opening" <=> gor[d] = "opening"
    BY <2>1 DEF TypeOK, Resend, Register, Goto
  <2>3. \A d \in Attempts :
           UNCHANGED <<target[CloseOf(d)], sending[CloseOf(d)],
                       sending[OpenOf(d)], ret[OpenOf(d)]>>
    BY KeyFacts, <2>1, <2>2
  <2>4. \A s \in table : ret'[s] = ret[s]
    BY KeyFacts, <2>2 DEF TypeOK, StreamInv
  <2>5. NoStreamLeak'
    BY <2>2, <2>3, <2>4 DEF StreamInv, NoStreamLeak
  <2>. QED
    BY <2>2, <2>3, <2>5 DEF StreamInv
<1>. QED
  BY <1>1, <1>2, <1>3, <1>4, <1>5, <1>6, <1>7, <1>8

\* The goroutine hands the retry's answer on; what holds of the retry holds
\* of the call.
LEMMA ForwardKeeps ==
    ASSUME IInv, NEW a \in Attempts, Forward(a)
    PROVE  IInv'
<1>. USE DEF IInv, vars, connVars, sendVars, recoveryVars,
       serverVars, clientVars, Answers, Results
<1>1. TypeOK'
  <2>1. Retry(a) \in Keys
    BY KeyFacts DEF RecoverInv, Forward
  <2>2. ch' \in [Keys -> Results \cup {None}]
    BY <2>1 DEF TypeOK, Forward, Deliver
  <2>. QED
    BY <2>2 DEF TypeOK, Forward, Goto, Deliver
<1>2. PhaseInv'
  BY KeyFacts DEF TypeOK, PhaseInv, KeyInv, RecoverInv, Forward, Goto,
     Deliver
<1>3. KeyInv'
  BY KeyFacts DEF TypeOK, PhaseInv, KeyInv, RecoverInv, Waiting, Busy,
     Forward, Goto, Deliver
<1>4. WaitInv'
  BY KeyFacts DEF TypeOK, KeyInv, RecoverInv, WaitInv, TakenOver, Waiting,
     Busy, Forward, Goto, Deliver
<1>5. RecoverInv'
  BY KeyFacts DEF TypeOK, KeyInv, RecoverInv, ChainInv, PhaseInv, Reached,
     Busy, Forward, Goto, Deliver
<1>6. ChainInv'
  <2>1. PICK b \in Attempts :
           Retry(a) = Execute(b) /\ b[1] = a[1] /\ b[2] = a[2] + 1
    BY KeyFacts DEF Forward, RecoverInv
  <2>2. /\ \A d \in Attempts \ {a} : gor'[d] = gor[d]
        /\ gor[a] = "await" /\ gor'[a] = "dead"
        /\ ret[Execute(b)] # None
        /\ UNCHANGED <<at, ran, ret, sending>>
    BY <2>1 DEF TypeOK, Forward, Deliver, Goto
  <2>3. ~Busy(b)
    <3>1. b[2] # 0
      BY KeyFacts, <2>1
    <3>2. ret[Execute(b)] \in Results /\ ~HasContext(Execute(b))
      BY KeyFacts, <2>2, <3>1 DEF TypeOK
    <3>3. SUFFICES ASSUME Busy(b) PROVE FALSE
      OBVIOUS
    <3>4. ch[Execute(b)] = None /\ at[Execute(b)] = "read"
      BY <3>3 DEF RecoverInv, Busy
    <3>. QED
      BY KeyFacts, <3>2, <3>4 DEF KeyInv
  <2>4. ~Alive(b)
    <3>1. b[2] # 0
      BY KeyFacts, <2>1
    <3>2. ret[Execute(b)] \in Results /\ ~HasContext(Execute(b))
      BY KeyFacts, <2>2, <3>1 DEF TypeOK
    <3>3. ch[Execute(b)] # None \/ at[Execute(b)] = "none"
      BY KeyFacts, <3>2 DEF KeyInv
    <3>4. at[Execute(b)] \in {"none", "read"}
      BY KeyFacts, <3>3 DEF KeyInv
    <3>. QED
      BY <2>2, <3>4 DEF Alive
  <2>5. ASSUME NEW e \in Attempts, Later(a, e)
        PROVE  ~Alive(e) /\ ~Busy(e)
    <3>1. CASE e = b
      BY <2>3, <2>4, <3>1
    <3>2. CASE Later(b, e) /\ Reached(e)
      BY <2>3, <3>2 DEF ChainInv, Busy
    <3>3. CASE ~Reached(e)
      BY KeyFacts, <3>3 DEF RecoverInv, KeyInv, Reached, Alive, Busy
    <3>4. e = b \/ Later(b, e)
      <4>1. a[2] \in Nat /\ e[2] \in Nat /\ b[2] = a[2] + 1 /\ a[2] < e[2]
        BY KeyFacts, <2>1, <2>5 DEF Later
      <4>2. e[2] = b[2] \/ b[2] < e[2]
        BY <4>1
      <4>3. e[1] = b[1] /\ (e[2] = b[2] => e = b)
        BY KeyFacts, <2>1, <2>5 DEF Later
      <4>. QED
        BY <4>2, <4>3 DEF Later
    <3>. QED
      BY <3>1, <3>2, <3>3, <3>4
  <2>6. ASSUME NEW d \in Attempts, NEW e \in Attempts, Later(d, e)
        PROVE  /\ Reached(e)' => gor'[d] \in {"await", "dead"}
               /\ gor'[d] = "dead" => ~Alive(e)' /\ ~Busy(e)'
    BY <2>2, <2>5, <2>6 DEF ChainInv, Reached, Alive, Busy
  <2>. QED
    BY <2>2, <2>6 DEF ChainInv, Later
<1>7. RunInv'
  BY KeyFacts DEF TypeOK, KeyInv, RecoverInv, ChainInv, RunInv, Reached,
     Busy, Alive, Later, Waiting, Forward, Goto, Deliver
<1>8. StreamInv'
  BY KeyFacts DEF TypeOK, PhaseInv, KeyInv, RecoverInv, StreamInv,
     NoStreamLeak, Busy, Waiting, Forward, Goto, Deliver
<1>. QED
  BY <1>1, <1>2, <1>3, <1>4, <1>5, <1>6, <1>7, <1>8

\* wsExecute looks the stream up.
LEMMA ServeLookupKeeps ==
    ASSUME IInv, NEW a \in Attempts, ServeLookup(a)
    PROVE  IInv'
<1>. USE DEF IInv, vars, connVars, sendVars, recoveryVars,
       serverVars, clientVars, Answers, Results
<1>1. TypeOK'
  BY DEF TypeOK, PhaseInv, RecoverInv, StreamInv, ServeLookup, Serves, Reply
<1>2. PhaseInv'
  BY KeyFacts DEF TypeOK, PhaseInv, KeyInv, RecoverInv, ServeLookup, Serves,
     Reply
<1>3. KeyInv'
  BY KeyFacts DEF TypeOK, PhaseInv, KeyInv, RecoverInv, Waiting, Busy,
     ServeLookup, Serves, Reply
<1>4. WaitInv'
  BY KeyFacts DEF TypeOK, KeyInv, RecoverInv, WaitInv, TakenOver, Waiting,
     Busy, ServeLookup, Serves, Reply
<1>5. RecoverInv'
  BY KeyFacts DEF TypeOK, KeyInv, RecoverInv, ChainInv, PhaseInv, Reached,
     Busy, ServeLookup, Serves, Reply
<1>6. ChainInv'
  BY KeyFacts DEF TypeOK, KeyInv, RecoverInv, ChainInv, RunInv, Reached,
     Busy, Alive, Later, Waiting, ServeLookup, Serves, Reply
<1>7. RunInv'
  BY KeyFacts DEF TypeOK, KeyInv, RecoverInv, ChainInv, RunInv, Reached,
     Busy, Alive, Later, Waiting, ServeLookup, Serves, Reply
<1>8. StreamInv'
  BY KeyFacts DEF TypeOK, PhaseInv, KeyInv, RecoverInv, StreamInv,
     NoStreamLeak, Busy, Waiting, ServeLookup, Serves, Reply
<1>. QED
  BY <1>1, <1>2, <1>3, <1>4, <1>5, <1>6, <1>7, <1>8

\* A refused statement has not been run.
LEMMA ServeRefuseKeeps ==
    ASSUME IInv, NEW a \in Attempts, ServeRefuse(a)
    PROVE  IInv'
<1>. USE DEF IInv, vars, connVars, sendVars, recoveryVars,
       serverVars, clientVars, Answers, Results
<1>1. TypeOK'
  BY DEF TypeOK, PhaseInv, RecoverInv, StreamInv, ServeRefuse, Serves, Reply
<1>2. PhaseInv'
  BY KeyFacts DEF TypeOK, PhaseInv, KeyInv, RecoverInv, ServeRefuse, Serves,
     Reply
<1>3. KeyInv'
  BY KeyFacts DEF TypeOK, PhaseInv, KeyInv, RecoverInv, Waiting, Busy,
     ServeRefuse, Serves, Reply
<1>4. WaitInv'
  BY KeyFacts DEF TypeOK, KeyInv, RecoverInv, WaitInv, TakenOver, Waiting,
     Busy, ServeRefuse, Serves, Reply
<1>5. RecoverInv'
  BY KeyFacts DEF TypeOK, KeyInv, RecoverInv, ChainInv, PhaseInv, Reached,
     Busy, ServeRefuse, Serves, Reply
<1>6. ChainInv'
  BY KeyFacts DEF TypeOK, KeyInv, RecoverInv, ChainInv, RunInv, Reached,
     Busy, Alive, Later, Waiting, ServeRefuse, Serves, Reply
<1>7. RunInv'
  BY KeyFacts DEF TypeOK, KeyInv, RecoverInv, ChainInv, RunInv, Reached,
     Busy, Alive, Later, Waiting, ServeRefuse, Serves, Reply
<1>8. StreamInv'
  BY KeyFacts DEF TypeOK, PhaseInv, KeyInv, RecoverInv, StreamInv,
     NoStreamLeak, Busy, Waiting, ServeRefuse, Serves, Reply
<1>. QED
  BY <1>1, <1>2, <1>3, <1>4, <1>5, <1>6, <1>7, <1>8

\* A statement that waits for its stream's mutex has not been run either.
LEMMA ServePassKeeps ==
    ASSUME IInv, NEW a \in Attempts, ServePass(a)
    PROVE  IInv'
<1>. USE DEF IInv, vars, connVars, sendVars, recoveryVars,
       serverVars, clientVars, Answers, Results
<1>1. TypeOK'
  BY DEF TypeOK, PhaseInv, RecoverInv, StreamInv, ServePass, Serves, Reply
<1>2. PhaseInv'
  BY KeyFacts DEF TypeOK, PhaseInv, KeyInv, RecoverInv, ServePass, Serves,
     Reply
<1>3. KeyInv'
  BY KeyFacts DEF TypeOK, PhaseInv, KeyInv, RecoverInv, Waiting, Busy,
     ServePass, Serves, Reply
<1>4. WaitInv'
  BY KeyFacts DEF TypeOK, KeyInv, RecoverInv, WaitInv, TakenOver, Waiting,
     Busy, ServePass, Serves, Reply
<1>5. RecoverInv'
  BY KeyFacts DEF TypeOK, KeyInv, RecoverInv, ChainInv, PhaseInv, Reached,
     Busy, ServePass, Serves, Reply
<1>6. ChainInv'
  BY KeyFacts DEF TypeOK, KeyInv, RecoverInv, ChainInv, RunInv, Reached,
     Busy, Alive, Later, Waiting, ServePass, Serves, Reply
<1>7. RunInv'
  BY KeyFacts DEF TypeOK, KeyInv, RecoverInv, ChainInv, RunInv, Reached,
     Busy, Alive, Later, Waiting, ServePass, Serves, Reply
<1>8. StreamInv'
  BY KeyFacts DEF TypeOK, PhaseInv, KeyInv, RecoverInv, StreamInv,
     NoStreamLeak, Busy, Waiting, ServePass, Serves, Reply
<1>. QED
  BY <1>1, <1>2, <1>3, <1>4, <1>5, <1>6, <1>7, <1>8

\* The attempt the server runs is the only one of its call that can be: the
\* ones before it were refused, the ones after it have not been sent.
LEMMA ServeRunKeeps ==
    ASSUME IInv, NEW a \in Attempts, NEW answer \in Answers,
           ServeRun(a, answer)
    PROVE  IInv'
<1>. USE DEF IInv, vars, connVars, sendVars, recoveryVars,
       serverVars, clientVars, Answers, Results
<1>1. TypeOK'
  <2>1. ran' \in [Calls -> Seq(Keys)]
    <3>1. CASE target[Execute(a)] \in table
      <4>1. target[Execute(a)] \in Keys
        BY <3>1 DEF TypeOK
      <4>2. Append(ran[a[1]], target[Execute(a)]) \in Seq(Keys)
        BY KeyFacts, <4>1 DEF TypeOK
      <4>. QED
        BY <3>1, <4>2 DEF TypeOK, ServeRun
    <3>2. CASE target[Execute(a)] \notin table
      BY <3>2 DEF TypeOK, ServeRun
    <3>. QED
      BY <3>1, <3>2
  <2>2. at' \in [Keys -> {"none", "wire", "found", "passed", "superseded",
                          "read", "ok", "error"}]
    BY DEF TypeOK, ServeRun, Reply
  <2>. QED
    BY <2>1, <2>2 DEF TypeOK, ServeRun
<1>2. PhaseInv'
  BY KeyFacts DEF TypeOK, PhaseInv, KeyInv, RecoverInv, ServeRun, Serves,
     Reply
<1>3. KeyInv'
  BY KeyFacts DEF TypeOK, PhaseInv, KeyInv, RecoverInv, Waiting, Busy,
     ServeRun, Serves, Reply
<1>4. WaitInv'
  BY KeyFacts DEF TypeOK, KeyInv, RecoverInv, WaitInv, TakenOver, Waiting,
     Busy, ServeRun, Serves, Reply
<1>5. RecoverInv'
  BY KeyFacts DEF TypeOK, KeyInv, RecoverInv, ChainInv, PhaseInv, Reached,
     Busy, ServeRun, Serves, Reply
<1>6. ChainInv'
  <2>1. /\ UNCHANGED <<gor, sending, ret, ch>>
        /\ at[Execute(a)] = "passed" /\ at'[Execute(a)] \in {"ok", "error"}
        /\ \A d \in Attempts \ {a} : at'[Execute(d)] = at[Execute(d)]
        /\ \A c \in Calls \ {a[1]} : ran'[c] = ran[c]
    BY KeyFacts DEF TypeOK, ServeRun, Serves, Reply
  <2>2. \A d \in Attempts : (Alive(d))' => Alive(d)
    BY <2>1 DEF Alive
  <2>3. \A d \in Attempts :
           UNCHANGED <<Reached(d), Busy(d), gor[d]>>
    BY <2>1 DEF Reached, Busy
  <2>4. sending[Call(a[1])] # "new"
    <3>1. PICK d \in Attempts :
             Call(a[1]) = Execute(d) /\ d[1] = a[1] /\ d[2] = 0
      BY KeyFacts
    <3>2. Reached(a)
      BY KeyFacts, <2>1 DEF KeyInv, Reached
    <3>3. CASE d = a
      BY <3>1, <3>2, <3>3 DEF Reached
    <3>4. CASE d # a
      <4>1. Later(d, a)
        BY KeyFacts, <3>1, <3>4 DEF Later
      <4>. QED
        BY <3>1, <3>2, <4>1 DEF ChainInv, RecoverInv, Reached
    <3>. QED
      BY <3>3, <3>4
  <2>5. \A c \in Calls : ran'[c] # <<>> => sending'[Call(c)] # "new"
    BY <2>1, <2>4 DEF ChainInv
  <2>. QED
    BY <2>1, <2>2, <2>3, <2>5 DEF ChainInv, Later
<1>7. RunInv'
  <2>1. /\ UNCHANGED <<gor, sending, ret, ch>>
        /\ at[Execute(a)] = "passed" /\ at'[Execute(a)] = answer
        /\ \A d \in Attempts \ {a} : at'[Execute(d)] = at[Execute(d)]
        /\ \A c \in Calls \ {a[1]} : ran'[c] = ran[c]
    BY KeyFacts DEF TypeOK, ServeRun, Serves, Reply
  <2>2. gor[a] = "none" /\ Reached(a) /\ Alive(a)
    BY KeyFacts, <2>1 DEF KeyInv, RecoverInv, Reached, Alive
  <2>3. ran[a[1]] = <<>> /\ a[1] \in Calls
    BY KeyFacts, <2>2 DEF RunInv
  <2>4. /\ Len(ran'[a[1]]) <= 1
        /\ answer = "ok" => Len(ran'[a[1]]) = 1
    <3>1. CASE target[Execute(a)] \in table
      <4>1. ran'[a[1]] = Append(<<>>, target[Execute(a)])
        BY <2>3, <3>1 DEF ServeRun, TypeOK
      <4>. QED
        BY <4>1
    <3>2. CASE target[Execute(a)] \notin table
      BY <2>3, <3>2 DEF ServeRun
    <3>. QED
      BY <3>1, <3>2
  <2>5. ASSUME NEW d \in Attempts, d[1] = a[1]
        PROVE  /\ d # a => at[Execute(d)] \in {"none", "read"} /\ ~Alive(d)
               /\ Busy(d) => gor[d] = "await"
               /\ ch[Execute(d)] = None
               /\ at[Execute(d)] = "none" => ret[Execute(d)] = None
    <3>1. CASE d = a
      BY KeyFacts, <2>1, <2>2, <3>1 DEF KeyInv, Busy
    <3>2. CASE Later(a, d)
      <4>1. sending[Execute(d)] = "new"
        BY <2>2, <3>2 DEF ChainInv, Reached
      <4>. QED
        BY KeyFacts, <4>1 DEF KeyInv, RecoverInv, Alive, Busy, Reached
    <3>3. CASE Later(d, a)
      <4>1. gor[d] = "await"
        BY <2>2, <3>3 DEF ChainInv
      <4>. QED
        BY KeyFacts, <4>1 DEF KeyInv, RecoverInv, Alive, Busy
    <3>4. d = a \/ Later(a, d) \/ Later(d, a)
      <4>1. a[2] \in Nat /\ d[2] \in Nat
        BY KeyFacts
      <4>2. a[2] = d[2] \/ a[2] < d[2] \/ d[2] < a[2]
        BY <4>1
      <4>3. a[2] = d[2] => a = d
        BY KeyFacts, <2>5
      <4>. QED
        BY <2>5, <4>2, <4>3 DEF Later
    <3>. QED
      BY <3>1, <3>2, <3>3, <3>4
  <2>6. ASSUME NEW d \in Attempts, d[1] = a[1]
        PROVE  ret[Execute(d)] \notin {"ok", "refused", "unsent"}
    BY KeyFacts, <2>1, <2>5, <2>6 DEF KeyInv, Results
  <2>7. ASSUME NEW d \in Attempts, d[1] = a[1]
        PROVE  /\ ~(Alive(d))'
               /\ (Busy(d))' => gor'[d] = "await"
               /\ ch'[Execute(d)] = None
               /\ "ok" = at'[Execute(d)] => d = a /\ answer = "ok"
    <3>1. CASE d = a
      <4>1. sending[Execute(a)] # "registered"
        BY KeyFacts, <2>1 DEF KeyInv
      <4>2. answer \notin {"wire", "found", "passed", "superseded"}
        BY DEF Answers
      <4>3. ~(Alive(a))'
        BY <2>1, <4>1, <4>2 DEF Alive
      <4>. QED
        BY <2>1, <2>2, <2>5, <3>1, <4>3 DEF Busy
    <3>2. CASE d # a
      BY <2>1, <2>5, <2>7, <3>2 DEF Alive, Busy
    <3>. QED
      BY <3>1, <3>2
  <2>9. None \notin {"ok", "refused", "unsent"}
    BY KeyFacts DEF Results, Answers
  <2>10. ASSUME NEW d \in Attempts
         PROVE  /\ (Alive(d))' \/ ((Busy(d))' /\ gor'[d] # "await")
                   => ran'[d[1]] = <<>>
                /\ ch'[Execute(d)] \in {"refused", "unsent"}
                   => ran'[d[1]] = <<>>
                /\ ret'[Execute(d)] \in {"refused", "unsent"}
                   => ran'[d[1]] = <<>>
                /\ "ok" \in {at'[Execute(d)], ch'[Execute(d)],
                            ret'[Execute(d)]} => Len(ran'[d[1]]) = 1
                /\ Len(ran'[d[1]]) <= 1
    <3>1. CASE d[1] = a[1]
      BY <2>1, <2>4, <2>6, <2>7, <2>9, <3>1
    <3>2. CASE d[1] # a[1]
      <4>1. /\ ran'[d[1]] = ran[d[1]] /\ at'[Execute(d)] = at[Execute(d)]
            /\ ch' = ch /\ ret' = ret /\ gor' = gor /\ sending' = sending
        BY KeyFacts, <2>1, <3>2
      <4>2. (Alive(d))' => Alive(d)
        BY <4>1 DEF Alive
      <4>3. (Busy(d))' /\ gor'[d] # "await" => Busy(d) /\ gor[d] # "await"
        BY <4>1 DEF Busy
      <4>4. (Alive(d))' \/ ((Busy(d))' /\ gor'[d] # "await")
               => ran'[d[1]] = <<>>
        BY <4>1, <4>2, <4>3 DEF RunInv
      <4>5. "ok" \in {at'[Execute(d)], ch'[Execute(d)], ret'[Execute(d)]}
               => Len(ran'[d[1]]) = 1
        BY <4>1 DEF RunInv
      <4>6. /\ ch'[Execute(d)] \in {"refused", "unsent"}
               => ran'[d[1]] = <<>>
            /\ ret'[Execute(d)] \in {"refused", "unsent"}
               => ran'[d[1]] = <<>>
            /\ Len(ran'[d[1]]) <= 1
        BY <4>1 DEF RunInv
      <4>. QED
        BY <4>4, <4>5, <4>6
    <3>. QED
      BY <3>1, <3>2
  <2>. QED
    BY <2>10 DEF RunInv
<1>8. StreamInv'
  BY KeyFacts DEF TypeOK, PhaseInv, KeyInv, RecoverInv, StreamInv,
     NoStreamLeak, Busy, Waiting, ServeRun, Serves, Reply
<1>. QED
  BY <1>1, <1>2, <1>3, <1>4, <1>5, <1>6, <1>7, <1>8

\* close_stream removes the stream the recovery is replacing.
LEMMA ServeCloseKeeps ==
    ASSUME IInv, NEW a \in Attempts, ServeClose(a)
    PROVE  IInv'
<1>. USE DEF IInv, vars, connVars, sendVars, recoveryVars,
       serverVars, clientVars, Answers, Results
<1>1. TypeOK'
  BY DEF TypeOK, PhaseInv, RecoverInv, StreamInv, ServeClose, Serves, Reply
<1>2. PhaseInv'
  BY KeyFacts DEF TypeOK, PhaseInv, KeyInv, RecoverInv, ServeClose, Serves,
     Reply
<1>3. KeyInv'
  BY KeyFacts DEF TypeOK, PhaseInv, KeyInv, RecoverInv, Waiting, Busy,
     ServeClose, Serves, Reply
<1>4. WaitInv'
  BY KeyFacts DEF TypeOK, KeyInv, RecoverInv, WaitInv, TakenOver, Waiting,
     Busy, ServeClose, Serves, Reply
<1>5. RecoverInv'
  BY KeyFacts DEF TypeOK, KeyInv, RecoverInv, ChainInv, PhaseInv, Reached,
     Busy, ServeClose, Serves, Reply
<1>6. ChainInv'
  BY KeyFacts DEF TypeOK, KeyInv, RecoverInv, ChainInv, RunInv, Reached,
     Busy, Alive, Later, Waiting, ServeClose, Serves, Reply
<1>7. RunInv'
  BY KeyFacts DEF TypeOK, KeyInv, RecoverInv, ChainInv, RunInv, Reached,
     Busy, Alive, Later, Waiting, ServeClose, Serves, Reply
<1>8. StreamInv'
  BY KeyFacts DEF TypeOK, PhaseInv, KeyInv, RecoverInv, StreamInv,
     NoStreamLeak, Busy, Waiting, ServeClose, Serves, Reply
<1>. QED
  BY <1>1, <1>2, <1>3, <1>4, <1>5, <1>6, <1>7, <1>8

\* A stream enters the table when its opening is answered.
LEMMA ServeOpenKeeps ==
    ASSUME IInv, NEW k \in Keys, NEW answer \in Answers, ServeOpen(k, answer)
    PROVE  IInv'
<1>. USE DEF IInv, vars, connVars, sendVars, recoveryVars,
       serverVars, clientVars, Answers, Results
<1>1. TypeOK'
  BY DEF TypeOK, PhaseInv, RecoverInv, StreamInv, ServeOpen, Serves, Reply
<1>2. PhaseInv'
  BY KeyFacts DEF TypeOK, PhaseInv, KeyInv, RecoverInv, ServeOpen, Serves,
     Reply
<1>3. KeyInv'
  BY KeyFacts DEF TypeOK, PhaseInv, KeyInv, RecoverInv, Waiting, Busy,
     ServeOpen, Serves, Reply
<1>4. WaitInv'
  BY KeyFacts DEF TypeOK, KeyInv, RecoverInv, WaitInv, TakenOver, Waiting,
     Busy, ServeOpen, Serves, Reply
<1>5. RecoverInv'
  BY KeyFacts DEF TypeOK, KeyInv, RecoverInv, ChainInv, PhaseInv, Reached,
     Busy, ServeOpen, Serves, Reply
<1>6. ChainInv'
  BY KeyFacts DEF TypeOK, KeyInv, RecoverInv, ChainInv, RunInv, Reached,
     Busy, Alive, Later, Waiting, ServeOpen, Serves, Reply
<1>7. RunInv'
  BY KeyFacts DEF TypeOK, KeyInv, RecoverInv, ChainInv, RunInv, Reached,
     Busy, Alive, Later, Waiting, ServeOpen, Serves, Reply
<1>8. StreamInv'
  <2>1. /\ at[k] = "wire" /\ up
        /\ at'[k] = answer /\ \A q \in Keys \ {k} : at'[q] = at[q]
        /\ table' = IF answer = "ok" THEN table \cup {k} ELSE table
        /\ UNCHANGED <<clientVars, superseded, evolves, ran>>
        /\ answer \in {"ok", "error"}
    BY DEF TypeOK, ServeOpen, Serves, Reply
  <2>2. ch[k] = None /\ ret[k] \in {None, "cancelled"} /\ sending[k] # "new"
    BY <2>1 DEF KeyInv, TypeOK
  <2>3. k = First \/ \E a \in Attempts : k = OpenOf(a)
    BY KeyFacts DEF ServeOpen
  <2>4. \A a \in Attempts : CloseOf(a) # k
    BY <2>3, KeyFacts
  <2>5. k = First => streamID = First
    BY <2>1 DEF PhaseInv, TypeOK
  <2>6. \A a \in Attempts : k = OpenOf(a) =>
           gor[a] = "opening" \/ ret[k] = "cancelled"
    BY <2>2 DEF StreamInv
  <2>7. \A a \in Attempts : target[CloseOf(a)] # k
    BY <2>1, <2>2, KeyFacts DEF StreamInv
  <2>8. NoStreamLeak'
    BY <2>1, <2>2, <2>3, <2>4, <2>5, <2>6, KeyFacts
       DEF StreamInv, NoStreamLeak
  <2>. QED
    BY <2>1, <2>2, <2>3, <2>4, <2>7, <2>8, KeyFacts DEF StreamInv
<1>. QED
  BY <1>1, <1>2, <1>3, <1>4, <1>5, <1>6, <1>7, <1>8

\* EvolveDatabase marks streams; it sends nothing.
LEMMA EvolveKeeps ==
    ASSUME IInv, Evolve
    PROVE  IInv'
<1>. USE DEF IInv, vars, connVars, sendVars, recoveryVars,
       serverVars, clientVars, Answers, Results
<1>1. TypeOK'
  <2>1. evolves' \in 0..MaxEvolves
    BY ClientAssumption DEF TypeOK, Evolve
  <2>. QED
    BY <2>1 DEF TypeOK, Evolve
<1>2. PhaseInv'
  BY KeyFacts DEF TypeOK, PhaseInv, KeyInv, RecoverInv, Evolve
<1>3. KeyInv'
  BY KeyFacts DEF TypeOK, PhaseInv, KeyInv, RecoverInv, Waiting, Busy,
     Evolve
<1>4. WaitInv'
  BY KeyFacts DEF TypeOK, KeyInv, RecoverInv, WaitInv, TakenOver, Waiting,
     Busy, Evolve
<1>5. RecoverInv'
  BY KeyFacts DEF TypeOK, KeyInv, RecoverInv, ChainInv, PhaseInv, Reached,
     Busy, Evolve
<1>6. ChainInv'
  BY KeyFacts DEF TypeOK, KeyInv, RecoverInv, ChainInv, RunInv, Reached,
     Busy, Alive, Later, Waiting, Evolve
<1>7. RunInv'
  BY KeyFacts DEF TypeOK, KeyInv, RecoverInv, ChainInv, RunInv, Reached,
     Busy, Alive, Later, Waiting, Evolve
<1>8. StreamInv'
  BY KeyFacts DEF TypeOK, PhaseInv, KeyInv, RecoverInv, StreamInv,
     NoStreamLeak, Busy, Waiting, Evolve
<1>. QED
  BY <1>1, <1>2, <1>3, <1>4, <1>5, <1>6, <1>7, <1>8

\* A lost connection loses requests and answers, and empties the server's
\* table.
LEMMA DisconnectKeeps ==
    ASSUME IInv, Disconnect
    PROVE  IInv'
<1>. USE DEF IInv, vars, connVars, sendVars, recoveryVars,
       serverVars, clientVars, Answers, Results
<1>1. TypeOK'
  BY DEF TypeOK, PhaseInv, RecoverInv, StreamInv, Disconnect
<1>2. PhaseInv'
  BY KeyFacts DEF TypeOK, PhaseInv, KeyInv, RecoverInv, Disconnect
<1>3. KeyInv'
  BY KeyFacts DEF TypeOK, PhaseInv, KeyInv, RecoverInv, Waiting, Busy,
     Disconnect
<1>4. WaitInv'
  BY KeyFacts DEF TypeOK, KeyInv, RecoverInv, WaitInv, TakenOver, Waiting,
     Busy, Disconnect
<1>5. RecoverInv'
  BY KeyFacts DEF TypeOK, KeyInv, RecoverInv, ChainInv, PhaseInv, Reached,
     Busy, Disconnect
<1>6. ChainInv'
  BY KeyFacts DEF TypeOK, KeyInv, RecoverInv, ChainInv, RunInv, Reached,
     Busy, Alive, Later, Waiting, Disconnect
<1>7. RunInv'
  BY KeyFacts DEF TypeOK, KeyInv, RecoverInv, ChainInv, RunInv, Reached,
     Busy, Alive, Later, Waiting, Disconnect
<1>8. StreamInv'
  BY KeyFacts DEF TypeOK, PhaseInv, KeyInv, RecoverInv, StreamInv,
     NoStreamLeak, Busy, Waiting, Disconnect
<1>. QED
  BY <1>1, <1>2, <1>3, <1>4, <1>5, <1>6, <1>7, <1>8

-----------------------------------------------------------------------------
(* Theorems *)

\* Every step of the client, the server and the network, one lemma for each.
LEMMA NextKeeps == IInv /\ [Next]_vars => IInv'
<1>. SUFFICES ASSUME IInv, [Next]_vars PROVE IInv'
  OBVIOUS
<1>1. CASE Owner
  BY <1>1, ConnectKeeps, HelloAcceptedKeeps, HelloFailsKeeps, OpenedKeeps,
     StartCallKeeps, CloseKeeps, CloseSocketKeeps DEF Owner
<1>2. CASE \E k \in Keys : Send(k) \/ Cancel(k)
  BY <1>2, WriteKeeps, WriteFailsKeeps, ReceiveKeeps, CancelKeeps DEF Send
<1>3. CASE Read
  BY <1>3, DispatchKeeps, HandleSupersededKeeps, ReadLoopEndsKeeps,
     HandleCloseKeeps DEF Read
<1>4. CASE \E a \in Attempts : Recover(a)
  BY <1>4, CheckRetriesKeeps, StartRecoveryKeeps, JoinRecoveryKeeps,
     OpenFreshKeeps, AdoptFreshKeeps, RecoveryFailsKeeps, ResendKeeps,
     ForwardKeeps DEF Recover
<1>5. CASE Serve
  BY <1>5, ServeLookupKeeps, ServeRefuseKeeps, ServePassKeeps,
     ServeCloseKeeps, ServeRunKeeps, ServeOpenKeeps DEF Serve
<1>6. CASE Evolve
  BY <1>6, EvolveKeeps
<1>7. CASE Disconnect
  BY <1>7, DisconnectKeeps
<1>8. CASE UNCHANGED vars
  <2>. USE <1>8 DEF IInv, vars, connVars, sendVars, recoveryVars, serverVars
  <2>1. TypeOK' /\ PhaseInv'
    BY DEF TypeOK, PhaseInv
  <2>2. KeyInv' /\ WaitInv'
    BY DEF KeyInv, WaitInv, Waiting, TakenOver, Busy
  <2>3. RecoverInv' /\ ChainInv' /\ RunInv'
    BY DEF RecoverInv, ChainInv, RunInv, Reached, Busy, Alive
  <2>4. StreamInv'
    BY DEF StreamInv, NoStreamLeak
  <2>. QED
    BY <2>1, <2>2, <2>3, <2>4
<1>. QED
  BY <1>1, <1>2, <1>3, <1>4, <1>5, <1>6, <1>7, <1>8 DEF Next

\* The invariant holds in every reachable state.
LEMMA Invariance == Spec => []IInv
<1>. QED
  BY InitIInv, NextKeeps, PTL DEF Spec

\* Every variable of the client and of what it sees of the server keeps its
\* type.
THEOREM TypeCorrect == Spec => []TypeOK
<1>1. IInv => TypeOK
  BY DEF IInv
<1>. QED
  BY Invariance, <1>1, PTL

\* AtMostOnce: however often a refused statement is sent again, the server
\* runs it at most once, and the caller is told the truth about it
\* (ws_conn.go:383-410).
THEOREM RunAtMostOnce == Spec => []AtMostOnce
<1>1. IInv => AtMostOnce
  <2>. SUFFICES ASSUME IInv, NEW c \in Calls
                PROVE  /\ Len(ran[c]) <= 1
                       /\ ret[Call(c)] = "ok" => Len(ran[c]) = 1
                       /\ ret[Call(c)] \in {"refused", "unsent"} =>
                             ran[c] = <<>>
    BY DEF AtMostOnce
  <2>1. PICK a \in Attempts : Call(c) = Execute(a) /\ a[1] = c
    BY KeyFacts
  <2>. QED
    BY <2>1 DEF IInv, RunInv
<1>. QED
  BY Invariance, <1>1, PTL

\* NoStreamLeak: whatever is superseded, refused or timed out, the server
\* holds no stream for the connection that the client has lost track of
\* (recoverStream, ws_conn.go:413-456).
THEOREM StreamsNotLeaked == Spec => []NoStreamLeak
<1>1. IInv => NoStreamLeak
  BY DEF IInv, StreamInv
<1>. QED
  BY Invariance, <1>1, PTL

\* OneAnswer: pending, the goroutine of a retry and the channel hand a
\* request on to each other; it is never with two of them, and as long as
\* its caller waits it is with one (ws_conn.go:303-320, 370-410, 458-468).
THEOREM OneAnswerEach == Spec => []OneAnswer
<1>1. ASSUME IInv, NEW k \in Keys
      PROVE  Cardinality(Sources(k)) <= 1
  <2>1. ASSUME NEW s \in Sources(k), NEW t \in Sources(k)
        PROVE  s = t
    <3>1. k \in pending => ch[k] = None
      BY <1>1 DEF IInv, KeyInv
    <3>2. ASSUME NEW a \in Attempts, Execute(a) = k, Busy(a)
          PROVE  k \notin pending /\ ch[k] = None
      BY <1>1, <3>2 DEF IInv, RecoverInv, Busy
    <3>. QED
      BY <2>1, <3>1, <3>2 DEF Sources, Busy
  <2>2. CASE Sources(k) = {}
    BY <2>2, FS_EmptySet
  <2>3. CASE Sources(k) # {}
    <3>1. PICK s \in Sources(k) : TRUE
      BY <2>3
    <3>2. Sources(k) = {s}
      BY <2>1, <3>1
    <3>. QED
      BY <3>2, FS_Singleton
  <2>. QED
    BY <2>2, <2>3
<1>2. ASSUME IInv, NEW k \in Keys, Waiting(k)
      PROVE  Sources(k) # {}
  <2>1. k \in pending \/ ch[k] # None \/ TakenOver(k)
    BY <1>2 DEF IInv, WaitInv
  <2>2. \/ "pending" \in Sources(k)
        \/ "channel" \in Sources(k)
        \/ "goroutine" \in Sources(k)
    BY <2>1 DEF Sources, TakenOver, Busy
  <2>. QED
    BY <2>2
<1>3. IInv => OneAnswer
  BY <1>1, <1>2 DEF OneAnswer, IInv, PhaseInv
<1>. QED
  BY Invariance, <1>3, PTL

=============================================================================
