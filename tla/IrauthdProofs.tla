--------------------------- MODULE IrauthdProofs ---------------------------
(***************************************************************************)
(* Proofs about the daemon, for any number of connections, workers, users   *)
(* and cameras, any queue capacity and any bound on changes and crashes.    *)
(***************************************************************************)
EXTENDS Irauthd, SequenceTheorems, FiniteSetTheorems, TLAPS

USE DEF clientVars, socketVars, workerVars, lockVars, worldVars, helperVars,
        runVars

-----------------------------------------------------------------------------
(* Type correctness.                                                        *)

\* The type invariant holds initially.
LEMMA InitTypeOK == Init => TypeOK
<1> SUFFICES ASSUME Init PROVE TypeOK
  OBVIOUS
<1> USE IrauthdAssumption DEF Init, Steps, Replies
<1>1. TypeClients /\ TypeLocks
  BY DEF TypeClients, TypeLocks
<1>2. TypeSockets
  BY DEF TypeSockets
<1>3. TypeWorkers
  BY DEF TypeWorkers
<1>4. TypeWorld /\ TypeHelpers /\ TypeRun
  BY DEF TypeWorld, TypeHelpers, TypeRun
<1> QED
  BY <1>1, <1>2, <1>3, <1>4 DEF TypeOK

\* Only clients change what a client has sent and come to.
LEMMA NextTypeClients == TypeOK /\ [Next]_vars => TypeClients'
<1> SUFFICES ASSUME TypeOK, [Next]_vars PROVE TypeClients'
  OBVIOUS
<1>1. ASSUME NEW c \in Conns, Talk(c) PROVE TypeClients'
  <2> USE DEF TypeOK, TypeClients
  <2>1. ASSUME NEW r \in Requests, Connect(c, r) PROVE TypeClients'
    BY <2>1 DEF Connect
  <2>2. CASE ConnectRefused(c)
    BY <2>2 DEF ConnectRefused
  <2>3. CASE Send(c)
    BY <2>3 DEF Send
  <2>4. CASE Receive(c)
    BY <2>4 DEF Receive
  <2>5. CASE GiveUp(c)
    BY <2>5 DEF GiveUp
  <2> QED
    BY <1>1, <2>1, <2>2, <2>3, <2>4, <2>5 DEF Talk
<1>2. CASE UNCHANGED clientVars
  BY <1>2 DEF TypeOK, TypeClients
<1>3. ASSUME NEW w \in Workers, Work(w) PROVE UNCHANGED clientVars
  BY <1>3 DEF Work, TakeRequest, ReadRequest, ReadFails, Admit, LockCamera,
    ReadCamera, CheckCamera, Reap, BackendTimeout, Drain, OutputPanics, Respond
<1>4. ASSUME NEW w \in Workers, Helper(w) PROVE UNCHANGED clientVars
  BY <1>4 DEF Helper, OpenLens, FaceMatches, FaceFails, OrphanExits
<1>5. World => UNCHANGED clientVars
  BY DEF World, Reconfigure, Replug, IntervalPasses, Crash, Restart
<1>6. Accept \/ UNCHANGED vars => UNCHANGED clientVars
  BY DEF Accept, vars
<1> QED
  BY <1>1, <1>2, <1>3, <1>4, <1>5, <1>6 DEF Next

\* The accept loop, the hand-over to workers and what closes a connection.
LEMMA NextTypeSockets == TypeOK /\ [Next]_vars => TypeSockets'
<1> SUFFICES ASSUME TypeOK, [Next]_vars PROVE TypeSockets'
  OBVIOUS
<1> USE DEF TypeOK, TypeSockets, Replies
<1>1. CASE Accept
  <2>1. Head(backlog) \in Conns /\ Tail(backlog) \in Seq(Conns)
    BY <1>1 DEF Accept
  <2>2. CASE QueueFull
    BY <1>1, <2>1, <2>2 DEF Accept
  <2>3. CASE ~QueueFull
    <3>1. /\ queue' = Append(queue, Head(backlog))
          /\ backlog' = Tail(backlog) /\ reply' = reply
      BY <1>1, <2>3 DEF Accept
    <3>2. /\ Append(queue, Head(backlog)) \in Seq(Conns)
          /\ Len(Append(queue, Head(backlog))) = Len(queue) + 1
      BY <2>1, AppendProperties
    <3>3. QueueCap \in Nat /\ Len(queue) \in Nat
      BY IrauthdAssumption
    <3>4. Len(queue) + 1 <= QueueCap
      BY <2>3, <3>3 DEF QueueFull
    <3> QED
      BY <2>1, <3>1, <3>2, <3>4
  <2> QED
    BY <2>2, <2>3
<1>2. ASSUME NEW w \in Workers, Work(w) PROVE TypeSockets'
  <2>1. CASE TakeRequest(w)
    <3>1. Tail(queue) \in Seq(Conns) /\ Len(Tail(queue)) = Len(queue) - 1
      BY <2>1, HeadTailProperties DEF TakeRequest
    <3>2. Len(queue) \in Nat
      OBVIOUS
    <3> QED
      BY <2>1, <3>1, <3>2, IrauthdAssumption DEF TakeRequest, Rest
  <2>2. CASE ReadFails(w)
    BY <2>2 DEF ReadFails
  <2>3. CASE OutputPanics(w)
    BY <2>3 DEF OutputPanics
  <2>4. CASE Respond(w)
    BY <2>4 DEF Respond, TypeWorkers
  <2>5. \/ TakeRequest(w) \/ ReadFails(w) \/ OutputPanics(w) \/ Respond(w)
        \/ UNCHANGED socketVars
    BY <1>2 DEF Work, ReadRequest, Admit, LockCamera, ReadCamera, CheckCamera,
      Reap, BackendTimeout, Drain
  <2> QED
    BY <2>1, <2>2, <2>3, <2>4, <2>5
<1>3. ASSUME NEW c \in Conns, NEW r \in Requests, Connect(c, r)
      PROVE  TypeSockets'
  BY <1>3 DEF Connect
<1>4. CASE Crash
  BY <1>4, IrauthdAssumption DEF Crash
<1>5. CASE UNCHANGED socketVars
  BY <1>5
<1>6. ASSUME NEW w \in Workers, Helper(w) PROVE UNCHANGED socketVars
  BY <1>6 DEF Helper, OpenLens, FaceMatches, FaceFails, OrphanExits
<1>7. ASSUME NEW c \in Conns, Talk(c)
      PROVE  (\E r \in Requests : Connect(c, r)) \/ UNCHANGED socketVars
  BY <1>7 DEF Talk, ConnectRefused, Send, Receive, GiveUp
<1>8. World => Crash \/ UNCHANGED socketVars
  BY DEF World, Reconfigure, Replug, IntervalPasses, Restart
<1> QED
  BY <1>1, <1>2, <1>3, <1>4, <1>5, <1>6, <1>7, <1>8 DEF Next, vars

\* The steps of a worker.
LEMMA NextTypeWorkers == TypeOK /\ [Next]_vars => TypeWorkers'
<1> SUFFICES ASSUME TypeOK, [Next]_vars PROVE TypeWorkers'
  OBVIOUS
<1> USE DEF TypeOK, TypeWorkers, Steps, Replies
<1>1. ASSUME NEW w \in Workers, Work(w) PROVE TypeWorkers'
  <2>1. CASE TakeRequest(w)
    <3>1. Head(queue) \in Conns
      BY <2>1 DEF TakeRequest, TypeSockets
    <3> QED
      BY <2>1, <3>1 DEF TakeRequest
  <2>2. CASE ReadRequest(w)
    <3>1. StatusReplies \subseteq Replies
      BY DEF StatusReplies
    <3> QED
      BY <2>2, <3>1 DEF ReadRequest, Answer
  <2>3. CASE ReadFails(w)
    BY <2>3 DEF ReadFails
  <2>4. CASE Admit(w)
    <3>1. Answer(w, "err") \/ (pc' = [pc EXCEPT ![w] = "camera"] /\ UNCHANGED resp)
      BY <2>4 DEF Admit
    <3>2. UNCHANGED <<job, seen>>
      BY <2>4 DEF Admit
    <3> QED
      BY <3>1, <3>2 DEF Answer
  <2>5. CASE LockCamera(w)
    BY <2>5 DEF LockCamera, Answer
  <2>6. CASE ReadCamera(w)
    BY <2>6 DEF ReadCamera, Answer, TypeWorld
  <2>7. CASE CheckCamera(w)
    BY <2>7 DEF CheckCamera, Answer
  <2>8. CASE Reap(w)
    BY <2>8 DEF Reap
  <2>9. CASE BackendTimeout(w)
    BY <2>9 DEF BackendTimeout
  <2>10. CASE Drain(w)
    BY <2>10 DEF Drain, Answer, Verdict
  <2>11. CASE OutputPanics(w)
    BY <2>11 DEF OutputPanics
  <2>12. CASE Respond(w)
    BY <2>12 DEF Respond
  <2> QED
    BY <1>1, <2>1, <2>2, <2>3, <2>4, <2>5, <2>6, <2>7, <2>8, <2>9, <2>10,
       <2>11, <2>12 DEF Work
<1>2. CASE Crash
  BY <1>2 DEF Crash
<1>3. CASE UNCHANGED workerVars
  BY <1>3
<1>4. ASSUME NEW w \in Workers, Helper(w) PROVE UNCHANGED workerVars
  BY <1>4 DEF Helper, OpenLens, FaceMatches, FaceFails, OrphanExits
<1>5. ASSUME NEW c \in Conns, Talk(c) PROVE UNCHANGED workerVars
  BY <1>5 DEF Talk, Connect, ConnectRefused, Send, Receive, GiveUp
<1>6. World => Crash \/ UNCHANGED workerVars
  BY DEF World, Reconfigure, Replug, IntervalPasses, Restart
<1>7. Accept \/ UNCHANGED vars => UNCHANGED workerVars
  BY DEF Accept, vars
<1> QED
  BY <1>1, <1>2, <1>3, <1>4, <1>5, <1>6, <1>7 DEF Next

\* The camera lock, its poison and the rate limiter.  That the limiter keys on
\* a uid needs the invariant: an admitted connection has a request.
LEMMA NextTypeLocks == IInv /\ [Next]_vars => TypeLocks'
<1> SUFFICES ASSUME IInv, [Next]_vars PROVE TypeLocks'
  OBVIOUS
<1> USE DEF IInv, TypeOK, TypeLocks
<1>1. ASSUME NEW w \in Workers, Work(w) PROVE TypeLocks'
  <2>1. CASE Admit(w)
    <3>1. req[job[w]] \in Requests
      BY <2>1 DEF Admit, JobInv, HeldInv, Waiting
    <3>2. req[job[w]].peer \in Uids
      BY <3>1, IrauthdAssumption
    <3> QED
      BY <2>1, <3>2 DEF Admit
  <2>2. CASE LockCamera(w)
    BY <2>2 DEF LockCamera
  <2>3. CASE ReadCamera(w)
    BY <2>3 DEF ReadCamera, ReleaseCamera
  <2>4. CASE CheckCamera(w)
    BY <2>4 DEF CheckCamera, ReleaseCamera
  <2>5. CASE Drain(w)
    BY <2>5 DEF Drain, ReleaseCamera
  <2>6. CASE OutputPanics(w)
    BY <2>6 DEF OutputPanics, ReleaseCamera, Poison
  <2>7. \/ Admit(w) \/ LockCamera(w) \/ ReadCamera(w) \/ CheckCamera(w)
        \/ Drain(w) \/ OutputPanics(w) \/ UNCHANGED lockVars
    BY <1>1 DEF Work, TakeRequest, ReadRequest, ReadFails, Reap,
      BackendTimeout, Respond
  <2> QED
    BY <2>1, <2>2, <2>3, <2>4, <2>5, <2>6, <2>7
<1>2. CASE Crash
  BY <1>2 DEF Crash
<1>3. ASSUME NEW u \in Uids, IntervalPasses(u) PROVE TypeLocks'
  BY <1>3 DEF IntervalPasses
<1>4. CASE UNCHANGED lockVars
  BY <1>4
<1>5. ASSUME NEW w \in Workers, Helper(w) PROVE UNCHANGED lockVars
  BY <1>5 DEF Helper, OpenLens, FaceMatches, FaceFails, OrphanExits
<1>6. ASSUME NEW c \in Conns, Talk(c) PROVE UNCHANGED lockVars
  BY <1>6 DEF Talk, Connect, ConnectRefused, Send, Receive, GiveUp
<1>7. World => Crash \/ (\E u \in Uids : IntervalPasses(u)) \/ UNCHANGED lockVars
  BY DEF World, Reconfigure, Replug, Restart
<1>8. Accept \/ UNCHANGED vars => UNCHANGED lockVars
  BY DEF Accept, vars
<1> QED
  BY <1>1, <1>2, <1>3, <1>4, <1>5, <1>6, <1>7, <1>8 DEF Next

\* The cameras.
LEMMA NextTypeWorld == TypeOK /\ [Next]_vars => TypeWorld'
<1> SUFFICES ASSUME TypeOK, [Next]_vars PROVE TypeWorld'
  OBVIOUS
<1> USE DEF TypeOK, TypeWorld
<1>1. ASSUME NEW d \in Cameras \cup {NoCamera}, Reconfigure(d) PROVE TypeWorld'
  BY <1>1, IrauthdAssumption DEF Reconfigure
<1>2. ASSUME NEW t \in SUBSET Cameras, Replug(t) PROVE TypeWorld'
  BY <1>2, IrauthdAssumption DEF Replug
<1>3. CASE UNCHANGED worldVars
  BY <1>3
<1>4. ASSUME NEW w \in Workers, Work(w) PROVE UNCHANGED worldVars
  BY <1>4 DEF Work, TakeRequest, ReadRequest, ReadFails, Admit, LockCamera,
    ReadCamera, CheckCamera, Reap, BackendTimeout, Drain, OutputPanics, Respond
<1>5. ASSUME NEW w \in Workers, Helper(w) PROVE UNCHANGED worldVars
  BY <1>5 DEF Helper, OpenLens, FaceMatches, FaceFails, OrphanExits
<1>6. ASSUME NEW c \in Conns, Talk(c) PROVE UNCHANGED worldVars
  BY <1>6 DEF Talk, Connect, ConnectRefused, Send, Receive, GiveUp
<1>7. World => \/ \E d \in Cameras \cup {NoCamera} : Reconfigure(d)
               \/ \E t \in SUBSET Cameras : Replug(t)
               \/ UNCHANGED worldVars
  BY DEF World, IntervalPasses, Crash, Restart
<1>8. Accept \/ UNCHANGED vars => UNCHANGED worldVars
  BY DEF Accept, vars
<1> QED
  BY <1>1, <1>2, <1>3, <1>4, <1>5, <1>6, <1>7, <1>8 DEF Next

\* The children, their helpers and the history of ceremonies.
LEMMA NextTypeHelpers == TypeOK /\ [Next]_vars => TypeHelpers'
<1> SUFFICES ASSUME TypeOK, [Next]_vars PROVE TypeHelpers'
  OBVIOUS
<1> USE DEF TypeOK, TypeHelpers
<1>1. ASSUME NEW w \in Workers, Work(w) PROVE TypeHelpers'
  <2>1. CASE CheckCamera(w)
    BY <2>1 DEF CheckCamera
  <2>2. CASE BackendTimeout(w)
    BY <2>2 DEF BackendTimeout, Kill
  <2>3. CASE Drain(w)
    BY <2>3 DEF Drain
  <2>4. CASE OutputPanics(w)
    BY <2>4 DEF OutputPanics
  <2>5. \/ CheckCamera(w) \/ BackendTimeout(w) \/ Drain(w) \/ OutputPanics(w)
        \/ UNCHANGED helperVars
    BY <1>1 DEF Work, TakeRequest, ReadRequest, ReadFails, Admit, LockCamera,
      ReadCamera, Reap, Respond
  <2> QED
    BY <2>1, <2>2, <2>3, <2>4, <2>5
<1>2. ASSUME NEW w \in Workers, Helper(w) PROVE TypeHelpers'
  <2>1. CASE OpenLens(w)
    BY <2>1 DEF OpenLens, TypeWorld
  <2>2. CASE FaceMatches(w)
    BY <2>2 DEF FaceMatches
  <2>3. CASE FaceFails(w)
    BY <2>3 DEF FaceFails
  <2>4. CASE OrphanExits(w)
    BY <2>4 DEF OrphanExits
  <2> QED
    BY <1>2, <2>1, <2>2, <2>3, <2>4 DEF Helper
<1>3. CASE Crash
  BY <1>3 DEF Crash
<1>4. CASE UNCHANGED helperVars
  BY <1>4
<1>5. ASSUME NEW c \in Conns, Talk(c) PROVE UNCHANGED helperVars
  BY <1>5 DEF Talk, Connect, ConnectRefused, Send, Receive, GiveUp
<1>6. World => Crash \/ UNCHANGED helperVars
  BY DEF World, Reconfigure, Replug, IntervalPasses, Restart
<1>7. Accept \/ UNCHANGED vars => UNCHANGED helperVars
  BY DEF Accept, vars
<1> QED
  BY <1>1, <1>2, <1>3, <1>4, <1>5, <1>6, <1>7 DEF Next

\* Whether the daemon runs, and the history of camera reads.
LEMMA NextTypeRun == TypeOK /\ [Next]_vars => TypeRun'
<1> SUFFICES ASSUME TypeOK, [Next]_vars PROVE TypeRun'
  OBVIOUS
<1> USE DEF TypeOK, TypeRun
<1>1. ASSUME NEW w \in Workers, Work(w) PROVE TypeRun'
  BY <1>1 DEF Work, TakeRequest, ReadRequest, ReadFails, Admit, LockCamera,
    ReadCamera, CheckCamera, Reap, BackendTimeout, Drain, OutputPanics, Respond
<1>2. CASE World
  <2>1. CASE Crash
    <3>1. crashes < MaxCrashes /\ crashes' = crashes + 1 /\ MaxCrashes \in Nat
      BY <2>1, IrauthdAssumption DEF Crash
    <3>2. crashes' \in 0..MaxCrashes
      BY <3>1
    <3> QED
      BY <2>1, <3>2 DEF Crash
  <2>5. CASE Restart
    BY <2>5 DEF Restart
  <2>2. ASSUME NEW d \in Cameras \cup {NoCamera}, Reconfigure(d) PROVE TypeRun'
    BY <2>2 DEF Reconfigure
  <2>3. ASSUME NEW t \in SUBSET Cameras, Replug(t) PROVE TypeRun'
    BY <2>3 DEF Replug
  <2>4. ASSUME NEW u \in Uids, IntervalPasses(u) PROVE TypeRun'
    BY <2>4 DEF IntervalPasses
  <2> QED
    BY <1>2, <2>1, <2>2, <2>3, <2>4, <2>5 DEF World
<1>3. CASE UNCHANGED <<runVars, settled>>
  BY <1>3
<1>4. ASSUME NEW w \in Workers, Helper(w) PROVE UNCHANGED <<runVars, settled>>
  BY <1>4 DEF Helper, OpenLens, FaceMatches, FaceFails, OrphanExits
<1>5. ASSUME NEW c \in Conns, Talk(c) PROVE UNCHANGED <<runVars, settled>>
  BY <1>5 DEF Talk, Connect, ConnectRefused, Send, Receive, GiveUp
<1>6. Accept \/ UNCHANGED vars => UNCHANGED <<runVars, settled>>
  BY DEF Accept, vars
<1> QED
  BY <1>1, <1>2, <1>3, <1>4, <1>5, <1>6 DEF Next

\* Every step keeps every variable in its type.
LEMMA NextTypeOK == IInv /\ [Next]_vars => TypeOK'
  BY NextTypeClients, NextTypeSockets, NextTypeWorkers, NextTypeLocks,
    NextTypeWorld, NextTypeHelpers, NextTypeRun DEF IInv, TypeOK

-----------------------------------------------------------------------------
(* The lock, the child and the worker go together.                          *)

\* camera_lock is acquired in LockCamera and released on every way out.
LEMMA NextLockInv == IInv /\ [Next]_vars => LockInv'
<1> SUFFICES ASSUME IInv, [Next]_vars PROVE LockInv'
  OBVIOUS
<1>0. /\ NoWorker \notin Workers /\ pc \in [Workers -> Steps]
      /\ LockInv
  BY IrauthdAssumption DEF IInv, TypeOK, TypeWorkers
<1> USE <1>0 DEF LockInv, Locked
<1>1. ASSUME NEW w \in Workers, Work(w) PROVE LockInv'
  <2>1. CASE TakeRequest(w)
    BY <2>1 DEF TakeRequest
  <2>2. CASE ReadRequest(w)
    <3>1. \E s \in {"admit", "respond"} : pc' = [pc EXCEPT ![w] = s]
      BY <2>2 DEF ReadRequest, Answer
    <3> QED
      BY <2>2, <3>1 DEF ReadRequest
  <2>3. CASE ReadFails(w)
    BY <2>3 DEF ReadFails
  <2>4. CASE Admit(w)
    <3>1. \E s \in {"camera", "respond"} : pc' = [pc EXCEPT ![w] = s]
      BY <2>4 DEF Admit, Answer
    <3> QED
      BY <2>4, <3>1 DEF Admit
  <2>5. CASE LockCamera(w)
    BY <2>5 DEF LockCamera, Answer, CameraFree
  <2>6. CASE ReadCamera(w)
    BY <2>6 DEF ReadCamera, Answer, ReleaseCamera
  <2>7. CASE CheckCamera(w)
    BY <2>7 DEF CheckCamera, Answer, ReleaseCamera
  <2>8. CASE Reap(w)
    BY <2>8 DEF Reap
  <2>9. CASE BackendTimeout(w)
    BY <2>9 DEF BackendTimeout
  <2>10. CASE Drain(w)
    BY <2>10 DEF Drain, Answer, ReleaseCamera
  <2>11. CASE OutputPanics(w)
    BY <2>11 DEF OutputPanics, ReleaseCamera
  <2>12. CASE Respond(w)
    BY <2>12 DEF Respond
  <2> QED
    BY <1>1, <2>1, <2>2, <2>3, <2>4, <2>5, <2>6, <2>7, <2>8, <2>9, <2>10,
       <2>11, <2>12 DEF Work
<1>2. CASE Crash
  BY <1>2 DEF Crash
<1>3. CASE UNCHANGED <<pc, camera>>
  BY <1>3
<1>4. ASSUME NEW w \in Workers, Helper(w) PROVE UNCHANGED <<pc, camera>>
  BY <1>4 DEF Helper, OpenLens, FaceMatches, FaceFails, OrphanExits
<1>5. ASSUME NEW c \in Conns, Talk(c) PROVE UNCHANGED <<pc, camera>>
  BY <1>5 DEF Talk, Connect, ConnectRefused, Send, Receive, GiveUp
<1>6. World => Crash \/ UNCHANGED <<pc, camera>>
  BY DEF World, Reconfigure, Replug, IntervalPasses, Restart
<1>7. Accept \/ UNCHANGED vars => UNCHANGED <<pc, camera>>
  BY DEF Accept, vars
<1> QED
  BY <1>1, <1>2, <1>3, <1>4, <1>5, <1>6, <1>7 DEF Next

\* A child is spawned, reaped or killed by its worker only, and its pipes end
\* before the worker forgets it.
LEMMA NextHelperInv == IInv /\ [Next]_vars => HelperInv'
<1> SUFFICES ASSUME IInv, [Next]_vars PROVE HelperInv'
  OBVIOUS
<1>0. /\ pc \in [Workers -> Steps] /\ HelperInv /\ TypeHelpers
  BY DEF IInv, TypeOK, TypeWorkers
<1> USE <1>0 DEF HelperInv, Ceremony, TypeHelpers
<1>1. ASSUME NEW w \in Workers, Work(w) PROVE HelperInv'
  <2>1. CASE TakeRequest(w)
    BY <2>1 DEF TakeRequest
  <2>2. CASE ReadRequest(w)
    <3>1. \E s \in {"admit", "respond"} : pc' = [pc EXCEPT ![w] = s]
      BY <2>2 DEF ReadRequest, Answer
    <3> QED
      BY <2>2, <3>1 DEF ReadRequest
  <2>3. CASE ReadFails(w)
    BY <2>3 DEF ReadFails
  <2>4. CASE Admit(w)
    <3>1. \E s \in {"camera", "respond"} : pc' = [pc EXCEPT ![w] = s]
      BY <2>4 DEF Admit, Answer
    <3> QED
      BY <2>4, <3>1 DEF Admit
  <2>5. CASE LockCamera(w)
    BY <2>5 DEF LockCamera, Answer
  <2>6. CASE ReadCamera(w)
    BY <2>6 DEF ReadCamera, Answer
  <2>7. CASE CheckCamera(w)
    BY <2>7 DEF CheckCamera, Answer
  <2>8. CASE Reap(w)
    BY <2>8 DEF Reap
  <2>9. CASE BackendTimeout(w)
    BY <2>9 DEF BackendTimeout, Kill
  <2>10. CASE Drain(w)
    BY <2>10 DEF Drain, Answer, PipeClosed
  <2>11. CASE OutputPanics(w)
    BY <2>11 DEF OutputPanics, PipeClosed
  <2>12. CASE Respond(w)
    BY <2>12 DEF Respond
  <2> QED
    BY <1>1, <2>1, <2>2, <2>3, <2>4, <2>5, <2>6, <2>7, <2>8, <2>9, <2>10,
       <2>11, <2>12 DEF Work
<1>2. ASSUME NEW w \in Workers, Helper(w) PROVE HelperInv'
  <2>1. CASE OpenLens(w)
    BY <2>1 DEF OpenLens
  <2>2. CASE FaceMatches(w)
    BY <2>2 DEF FaceMatches
  <2>3. CASE FaceFails(w)
    BY <2>3 DEF FaceFails
  <2>4. CASE OrphanExits(w)
    BY <2>4 DEF OrphanExits
  <2> QED
    BY <1>2, <2>1, <2>2, <2>3, <2>4 DEF Helper
<1>3. CASE Crash
  BY <1>3 DEF Crash
<1>4. CASE UNCHANGED <<pc, child, lens>>
  BY <1>4
<1>5. ASSUME NEW c \in Conns, Talk(c) PROVE UNCHANGED <<pc, child, lens>>
  BY <1>5 DEF Talk, Connect, ConnectRefused, Send, Receive, GiveUp
<1>6. World => Crash \/ UNCHANGED <<pc, child, lens>>
  BY DEF World, Reconfigure, Replug, IntervalPasses, Restart
<1>7. Accept \/ UNCHANGED vars => UNCHANGED <<pc, child, lens>>
  BY DEF Accept, vars
<1> QED
  BY <1>1, <1>2, <1>3, <1>4, <1>5, <1>6, <1>7 DEF Next

\* A worker picks up a connection when it leaves the loop's head and puts it
\* down when it is back there, or dead.
LEMMA NextJobInv == IInv /\ [Next]_vars => JobInv'
<1> SUFFICES ASSUME IInv, [Next]_vars PROVE JobInv'
  OBVIOUS
<1>0. TypeWorkers /\ NoConn \notin Conns /\ JobInv
  BY IrauthdAssumption DEF IInv, TypeOK
<1> USE <1>0 DEF JobInv, TypeWorkers
<1>1. ASSUME NEW w \in Workers, Work(w) PROVE JobInv'
  <2>1. CASE TakeRequest(w)
    <3>1. Head(queue) \in Conns
      BY <2>1 DEF TakeRequest, IInv, TypeOK, TypeSockets
    <3> QED
      BY <2>1, <3>1 DEF TakeRequest
  <2>2. CASE ReadFails(w) \/ OutputPanics(w) \/ Respond(w)
    BY <2>2 DEF ReadFails, OutputPanics, Respond
  <2>3. CASE /\ pc[w] \notin {"idle", "dead"} /\ UNCHANGED job
             /\ \E s \in Steps \ {"idle", "dead"} : pc' = [pc EXCEPT ![w] = s]
    BY <2>3
  <2>4. CASE ReadRequest(w) \/ Admit(w) \/ LockCamera(w)
    BY <2>3, <2>4 DEF ReadRequest, Admit, LockCamera, Answer, Steps
  <2>5. CASE ReadCamera(w) \/ CheckCamera(w) \/ Reap(w) \/ BackendTimeout(w)
             \/ Drain(w)
    BY <2>3, <2>5 DEF ReadCamera, CheckCamera, Reap, BackendTimeout, Drain,
      Answer, Steps
  <2> QED
    BY <1>1, <2>1, <2>2, <2>4, <2>5 DEF Work
<1>2. CASE Crash
  BY <1>2 DEF Crash
<1>3. CASE UNCHANGED <<pc, job>>
  BY <1>3
<1>4. ASSUME NEW w \in Workers, Helper(w) PROVE UNCHANGED <<pc, job>>
  BY <1>4 DEF Helper, OpenLens, FaceMatches, FaceFails, OrphanExits
<1>5. ASSUME NEW c \in Conns, Talk(c) PROVE UNCHANGED <<pc, job>>
  BY <1>5 DEF Talk, Connect, ConnectRefused, Send, Receive, GiveUp
<1>6. World => Crash \/ UNCHANGED <<pc, job>>
  BY DEF World, Reconfigure, Replug, IntervalPasses, Restart
<1>7. Accept \/ UNCHANGED vars => UNCHANGED <<pc, job>>
  BY DEF Accept, vars
<1> QED
  BY <1>1, <1>2, <1>3, <1>4, <1>5, <1>6, <1>7 DEF Next

\* A panic happens only under the lock, and nobody gets the lock after it.
LEMMA NextPanicContained == IInv /\ [Next]_vars => PanicContained'
<1> SUFFICES ASSUME IInv, [Next]_vars PROVE PanicContained'
  OBVIOUS
<1>0. pc \in [Workers -> Steps] /\ LockInv /\ PanicContained
  BY DEF IInv, TypeOK, TypeWorkers
<1> USE <1>0 DEF PanicContained, Locked
<1>1. ASSUME NEW w \in Workers, Work(w) PROVE PanicContained'
  <2>1. CASE OutputPanics(w)
    <3>1. ~poisoned /\ \A v \in Workers \ {w} : pc[v] \notin Locked
      BY <2>1 DEF OutputPanics, LockInv
    <3> QED
      BY <2>1, <3>1 DEF OutputPanics, Poison
  <2>2. CASE LockCamera(w)
    BY <2>2 DEF LockCamera, Answer
  <2>3. CASE /\ pc[w] # "dead" /\ UNCHANGED poisoned
             /\ \E s \in Steps \ {"dead"} :
                  /\ pc' = [pc EXCEPT ![w] = s]
                  /\ s \in Locked => pc[w] \in Locked
    BY <2>3
  <2>4. CASE TakeRequest(w) \/ ReadFails(w) \/ Respond(w)
    BY <2>3, <2>4 DEF TakeRequest, ReadFails, Respond, Steps
  <2>5. CASE ReadRequest(w) \/ Admit(w)
    BY <2>3, <2>5 DEF ReadRequest, Admit, Answer, Steps
  <2>6. CASE ReadCamera(w) \/ CheckCamera(w) \/ Reap(w) \/ BackendTimeout(w)
             \/ Drain(w)
    BY <2>3, <2>6 DEF ReadCamera, CheckCamera, Reap, BackendTimeout, Drain,
      Answer, Steps
  <2> QED
    BY <1>1, <2>1, <2>2, <2>4, <2>5, <2>6 DEF Work
<1>2. CASE Crash
  BY <1>2 DEF Crash
<1>3. CASE UNCHANGED <<pc, poisoned>>
  BY <1>3
<1>4. ASSUME NEW w \in Workers, Helper(w) PROVE UNCHANGED <<pc, poisoned>>
  BY <1>4 DEF Helper, OpenLens, FaceMatches, FaceFails, OrphanExits
<1>5. ASSUME NEW c \in Conns, Talk(c) PROVE UNCHANGED <<pc, poisoned>>
  BY <1>5 DEF Talk, Connect, ConnectRefused, Send, Receive, GiveUp
<1>6. World => Crash \/ UNCHANGED <<pc, poisoned>>
  BY DEF World, Reconfigure, Replug, IntervalPasses, Restart
<1>7. Accept \/ UNCHANGED vars => UNCHANGED <<pc, poisoned>>
  BY DEF Accept, vars
<1> QED
  BY <1>1, <1>2, <1>3, <1>4, <1>5, <1>6, <1>7 DEF Next

-----------------------------------------------------------------------------
(* Connections.                                                             *)

\* Where the elements of a queue are after it gave its first one away.
LEMMA TailAt ==
  ASSUME NEW S, NEW s \in Seq(S), s # <<>>
  PROVE  /\ Head(s) = s[1] /\ 1 \in DOMAIN s
         /\ \A i \in DOMAIN Tail(s) : i + 1 \in DOMAIN s /\ i + 1 # 1
                                     /\ Tail(s)[i] = s[i + 1]
         /\ DOMAIN Tail(s) \subseteq Int
  OBVIOUS

\* Where the elements of a queue are after it got a new last one.
LEMMA AppendAt ==
  ASSUME NEW S, NEW s \in Seq(S), NEW e \in S
  PROVE  /\ \A i \in DOMAIN Append(s, e) :
              \/ i \in DOMAIN s /\ Append(s, e)[i] = s[i]
              \/ i = Len(s) + 1 /\ Append(s, e)[i] = e
         /\ Len(s) + 1 \notin DOMAIN s
  OBVIOUS

\* The hand-over moves a connection from one place to the next.
LEMMA NextPlaceInv == IInv /\ [Next]_vars => PlaceInv'
<1> SUFFICES ASSUME IInv, [Next]_vars PROVE PlaceInv'
  OBVIOUS
<1>0. /\ backlog \in Seq(Conns) /\ queue \in Seq(Conns)
      /\ job \in [Workers -> Conns \cup {NoConn}]
      /\ PlaceInv /\ HeldInv /\ NoConn \notin Conns
  BY IrauthdAssumption DEF IInv, TypeOK, TypeSockets, TypeWorkers
<1> USE <1>0 DEF PlaceInv
<1>1. ASSUME NEW c \in Conns, NEW r \in Requests, Connect(c, r) PROVE PlaceInv'
  <2>1. /\ \A i \in DOMAIN backlog : backlog[i] # c
        /\ \A i \in DOMAIN queue : queue[i] # c
        /\ \A w \in Workers : job[w] # c
    BY <1>1 DEF Connect, HeldInv, Waiting
  <2>2. backlog' = Append(backlog, c) /\ queue' = queue /\ job' = job
    BY <1>1 DEF Connect
  <2> QED
    BY <2>1, <2>2, AppendAt
<1>2. CASE Accept
  <2>1. /\ backlog # <<>> /\ backlog' = Tail(backlog) /\ job' = job
        /\ queue' \in {queue, Append(queue, Head(backlog))}
    BY <1>2 DEF Accept
  <2>2. Head(backlog) = backlog[1] /\ 1 \in DOMAIN backlog /\ backlog[1] \in Conns
    BY <2>1, TailAt
  <2>3. \A i \in DOMAIN backlog' : /\ i + 1 \in DOMAIN backlog /\ i + 1 # 1
                                  /\ backlog'[i] = backlog[i + 1]
    BY <2>1, TailAt
  <2>4. \A i, j \in DOMAIN backlog' : backlog'[i] = backlog'[j] => i = j
    <3> SUFFICES ASSUME NEW i \in DOMAIN backlog', NEW j \in DOMAIN backlog',
                        backlog'[i] = backlog'[j]
                 PROVE  i = j
      OBVIOUS
    <3>1. i + 1 = j + 1
      BY <2>3
    <3>2. i \in Int /\ j \in Int
      BY <2>1, TailAt
    <3> QED
      BY <3>1, <3>2
  <2>5. CASE queue' = queue
    BY <2>1, <2>3, <2>4, <2>5
  <2>6. CASE queue' = Append(queue, backlog[1])
    <3>1. \A i \in DOMAIN queue' :
            \/ i \in DOMAIN queue /\ queue'[i] = queue[i]
            \/ i = Len(queue) + 1 /\ queue'[i] = backlog[1]
      BY <2>2, <2>6, AppendAt
    <3> QED
      BY <2>1, <2>2, <2>3, <2>4, <3>1
  <2> QED
    BY <2>1, <2>2, <2>5, <2>6
<1>3. ASSUME NEW w \in Workers, Work(w) PROVE PlaceInv'
  <2>1. CASE TakeRequest(w)
    <3>1. /\ queue # <<>> /\ queue' = Tail(queue) /\ backlog' = backlog
          /\ job' = [job EXCEPT ![w] = Head(queue)]
      BY <2>1 DEF TakeRequest, Rest
    <3>2. Head(queue) = queue[1] /\ 1 \in DOMAIN queue
      BY <3>1, TailAt
    <3>3. \A i \in DOMAIN queue' : /\ i + 1 \in DOMAIN queue /\ i + 1 # 1
                                  /\ queue'[i] = queue[i + 1]
      BY <3>1, TailAt
    <3>4. \A i, j \in DOMAIN queue' : queue'[i] = queue'[j] => i = j
      <4> SUFFICES ASSUME NEW i \in DOMAIN queue', NEW j \in DOMAIN queue',
                          queue'[i] = queue'[j]
                   PROVE  i = j
        OBVIOUS
      <4>1. i + 1 = j + 1
        BY <3>3
      <4>2. i \in Int /\ j \in Int
        BY <3>1, TailAt
      <4> QED
        BY <4>1, <4>2
    <3> QED
      BY <3>1, <3>2, <3>3, <3>4
  <2>2. CASE ReadFails(w) \/ OutputPanics(w) \/ Respond(w)
    BY <2>2 DEF ReadFails, OutputPanics, Respond
  <2>3. \/ TakeRequest(w) \/ ReadFails(w) \/ OutputPanics(w) \/ Respond(w)
        \/ UNCHANGED <<backlog, queue, job>>
    BY <1>3 DEF Work, ReadRequest, Admit, LockCamera, ReadCamera, CheckCamera,
      Reap, BackendTimeout, Drain
  <2> QED
    BY <2>1, <2>2, <2>3
<1>4. CASE Crash
  BY <1>4 DEF Crash
<1>5. CASE UNCHANGED <<backlog, queue, job>>
  BY <1>5
<1>6. ASSUME NEW w \in Workers, Helper(w) PROVE UNCHANGED <<backlog, queue, job>>
  BY <1>6 DEF Helper, OpenLens, FaceMatches, FaceFails, OrphanExits
<1>7. ASSUME NEW c \in Conns, Talk(c)
      PROVE  (\E r \in Requests : Connect(c, r)) \/ UNCHANGED <<backlog, queue, job>>
  BY <1>7 DEF Talk, ConnectRefused, Send, Receive, GiveUp
<1>8. World => Crash \/ UNCHANGED <<backlog, queue, job>>
  BY DEF World, Reconfigure, Replug, IntervalPasses, Restart
<1> QED
  BY <1>1, <1>2, <1>3, <1>4, <1>5, <1>6, <1>7, <1>8 DEF Next, vars

\* A ceremony's outcome is written only for the connection of a worker, so it
\* disturbs nothing that still waits.
LEMMA CeremonyAtJob ==
  ASSUME IInv, NEW w \in Workers, job[w] # NoConn, NEW o,
         ceremony' = [ceremony EXCEPT ![job[w]] = o],
         UNCHANGED <<client, req, reply, backlog, queue, job>>
  PROVE  HeldInv'
<1>1. /\ ceremony \in [Conns -> {"none", "running", "matched", "missed", "cut"}]
      /\ backlog \in Seq(Conns) /\ queue \in Seq(Conns)
      /\ job \in [Workers -> Conns \cup {NoConn}]
      /\ PlaceInv /\ HeldInv
  BY DEF IInv, TypeOK, TypeHelpers, TypeSockets, TypeWorkers
<1>2. Waiting(job[w])
  BY <1>1 DEF HeldInv
<1> QED
  BY <1>1, <1>2 DEF HeldInv, PlaceInv, Waiting

\* A worker that has put its connection down has answered or closed it; nothing
\* else the daemon holds is touched.
LEMMA JobPutDown ==
  ASSUME IInv, NEW w \in Workers, job[w] # NoConn, NEW r,
         job' = [job EXCEPT ![w] = NoConn],
         reply' = [reply EXCEPT ![job[w]] = r],
         UNCHANGED <<client, req, ceremony, backlog, queue>>
  PROVE  HeldInv'
<1>1. /\ reply \in [Conns -> Replies]
      /\ backlog \in Seq(Conns) /\ queue \in Seq(Conns)
      /\ job \in [Workers -> Conns \cup {NoConn}]
      /\ PlaceInv /\ HeldInv
  BY DEF IInv, TypeOK, TypeSockets, TypeWorkers
<1>2. Waiting(job[w])
  BY <1>1 DEF HeldInv
<1> QED
  BY <1>1, <1>2 DEF HeldInv, PlaceInv, Waiting

\* What the daemon holds waits for its answer.
LEMMA NextHeldInv == IInv /\ [Next]_vars => HeldInv'
<1> SUFFICES ASSUME IInv, [Next]_vars PROVE HeldInv'
  OBVIOUS
<1> DEFINE heldVars == <<client, req, reply, ceremony, backlog, queue, job>>
<1>0. /\ backlog \in Seq(Conns) /\ queue \in Seq(Conns)
      /\ job \in [Workers -> Conns \cup {NoConn}]
      /\ reply \in [Conns -> Replies]
      /\ ceremony \in [Conns -> {"none", "running", "matched", "missed", "cut"}]
      /\ TypeClients
      /\ PlaceInv /\ HeldInv /\ JobInv /\ HelperInv
      /\ NoConn \notin Conns /\ NoRequest \notin Requests
  BY IrauthdAssumption DEF IInv, TypeOK, TypeSockets, TypeWorkers, TypeHelpers
<1>1. ASSUME NEW c \in Conns, NEW r \in Requests, Connect(c, r) PROVE HeldInv'
  <2>1. /\ backlog' = Append(backlog, c) /\ client[c] = "idle"
        /\ client' = [client EXCEPT ![c] = "open"]
        /\ req' = [req EXCEPT ![c] = r]
        /\ UNCHANGED <<reply, ceremony, queue, job>>
    BY <1>1 DEF Connect
  <2>2. \A i \in DOMAIN backlog' :
          \/ i \in DOMAIN backlog /\ backlog'[i] = backlog[i]
          \/ backlog'[i] = c
    BY <1>0, <2>1, AppendAt
  <2>3. Waiting(c)' /\ ceremony'[c] = "none"
    BY <1>0, <2>1 DEF Waiting, HeldInv, TypeClients
  <2>4. \A d \in Conns : Waiting(d) => d # c /\ Waiting(d)'
    BY <1>0, <2>1 DEF Waiting, TypeClients
  <2> QED
    BY <1>0, <2>1, <2>2, <2>3, <2>4 DEF HeldInv, TypeClients
<1>2. ASSUME NEW c \in Conns,
             ConnectRefused(c) \/ Send(c) \/ Receive(c) \/ GiveUp(c)
      PROVE  HeldInv'
  <2>1. \E s \in {"sent", "granted", "denied"} : client' = [client EXCEPT ![c] = s]
    BY <1>2 DEF ConnectRefused, Send, Receive, GiveUp
  <2>2. UNCHANGED <<req, reply, ceremony, backlog, queue, job>>
    BY <1>2 DEF ConnectRefused, Send, Receive, GiveUp
  <2>3. \A d \in Conns : client'[d] = "idle" => client[d] = "idle"
    BY <1>0, <2>1, <2>2 DEF TypeClients
  <2>4. /\ \A i \in DOMAIN backlog : backlog[i] \in Conns
        /\ \A i \in DOMAIN queue : queue[i] \in Conns
        /\ \A w \in Workers : job[w] # NoConn => job[w] \in Conns
    BY <1>0
  <2>5. HeldInv
    BY <1>0
  <2>6. \A d \in Conns : client'[d] = "idle" =>
          req[d] = NoRequest /\ reply[d] = "none" /\ ceremony[d] = "none"
    BY <2>3, <2>5 DEF HeldInv
  <2> QED
    BY <2>2, <2>3, <2>4, <2>5, <2>6 DEF HeldInv, Waiting
<1>3. CASE Accept
  <2>1. /\ backlog # <<>> /\ backlog' = Tail(backlog)
        /\ UNCHANGED <<client, req, ceremony, job>>
        /\ \/ reply' = [reply EXCEPT ![Head(backlog)] = "eof"] /\ queue' = queue
           \/ queue' = Append(queue, Head(backlog)) /\ reply' = reply
    BY <1>3 DEF Accept
  <2>2. Head(backlog) = backlog[1] /\ 1 \in DOMAIN backlog /\ backlog[1] \in Conns
    BY <1>0, <2>1, TailAt
  <2>3. \A i \in DOMAIN backlog' : /\ i + 1 \in DOMAIN backlog /\ i + 1 # 1
                                  /\ backlog'[i] = backlog[i + 1]
    BY <1>0, <2>1, TailAt
  <2>4. CASE reply' = [reply EXCEPT ![backlog[1]] = "eof"] /\ queue' = queue
    BY <1>0, <2>1, <2>2, <2>3, <2>4 DEF HeldInv, PlaceInv, Waiting
  <2>5. CASE queue' = Append(queue, backlog[1]) /\ reply' = reply
    <3>1. \A i \in DOMAIN queue' :
            \/ i \in DOMAIN queue /\ queue'[i] = queue[i]
            \/ queue'[i] = backlog[1]
      BY <1>0, <2>2, <2>5, AppendAt
    <3> QED
      BY <1>0, <2>1, <2>2, <2>3, <2>5, <3>1 DEF HeldInv, Waiting
  <2> QED
    BY <2>1, <2>2, <2>4, <2>5
<1>4. ASSUME NEW w \in Workers, Work(w) PROVE HeldInv'
  <2>1. CASE TakeRequest(w)
    <3>1. /\ queue # <<>> /\ queue' = Tail(queue) /\ backlog' = backlog
          /\ job' = [job EXCEPT ![w] = Head(queue)]
          /\ UNCHANGED <<client, req, reply, ceremony>>
      BY <2>1 DEF TakeRequest, Rest
    <3>2. Head(queue) = queue[1] /\ 1 \in DOMAIN queue
      BY <1>0, <3>1, TailAt
    <3>3. \A i \in DOMAIN queue' : /\ i + 1 \in DOMAIN queue
                                  /\ queue'[i] = queue[i + 1]
      BY <1>0, <3>1, TailAt
    <3> QED
      BY <1>0, <3>1, <3>2, <3>3 DEF HeldInv, Waiting
  <2>2. CASE ReadFails(w)
    BY <1>0, <2>2, JobPutDown DEF ReadFails, JobInv
  <2>3. CASE Respond(w)
    BY <1>0, <2>3, JobPutDown DEF Respond, JobInv
  <2>4. CASE OutputPanics(w)
    <3>1. /\ job[w] # NoConn /\ job' = [job EXCEPT ![w] = NoConn]
          /\ reply' = [reply EXCEPT ![job[w]] = "eof"]
          /\ ceremony' = [ceremony EXCEPT ![job[w]] = "cut"]
          /\ UNCHANGED <<client, req, backlog, queue>>
      BY <1>0, <2>4 DEF OutputPanics, JobInv
    <3>2. Waiting(job[w])
      BY <1>0, <3>1 DEF HeldInv
    <3> QED
      BY <1>0, <3>1, <3>2 DEF HeldInv, PlaceInv, Waiting
  <2>5. CASE CheckCamera(w)
    <3>1. CASE ceremony' = [ceremony EXCEPT ![job[w]] = "running"]
      BY <1>0, <2>5, <3>1, CeremonyAtJob DEF CheckCamera, JobInv
    <3>2. CASE UNCHANGED ceremony
      BY <1>0, <2>5, <3>2 DEF CheckCamera, HeldInv, Waiting
    <3> QED
      BY <2>5, <3>1, <3>2 DEF CheckCamera
  <2>6. CASE BackendTimeout(w)
    BY <1>0, <2>6, CeremonyAtJob DEF BackendTimeout, JobInv
  <2>7. CASE UNCHANGED heldVars
    BY <1>0, <2>7 DEF HeldInv, Waiting
  <2>8. \/ TakeRequest(w) \/ ReadFails(w) \/ Respond(w) \/ OutputPanics(w)
        \/ CheckCamera(w) \/ BackendTimeout(w) \/ UNCHANGED heldVars
    BY <1>4 DEF Work, ReadRequest, Admit, LockCamera, ReadCamera, Reap, Drain
  <2> QED
    BY <2>1, <2>2, <2>3, <2>4, <2>5, <2>6, <2>7, <2>8
<1>5. ASSUME NEW w \in Workers, Helper(w) PROVE HeldInv'
  <2>1. child[w] = "running" => job[w] # NoConn
    BY <1>0 DEF HelperInv, JobInv
  <2>2. CASE FaceMatches(w)
    BY <2>1, <2>2, CeremonyAtJob DEF FaceMatches
  <2>3. CASE FaceFails(w)
    BY <2>1, <2>3, CeremonyAtJob DEF FaceFails
  <2>4. CASE OpenLens(w) \/ OrphanExits(w)
    BY <1>0, <2>4 DEF OpenLens, OrphanExits, HeldInv, Waiting
  <2> QED
    BY <1>5, <2>2, <2>3, <2>4 DEF Helper
<1>6. CASE Crash
  <2>1. /\ backlog' = <<>> /\ queue' = <<>> /\ UNCHANGED <<client, req>>
        /\ job' = [w \in Workers |-> NoConn]
        /\ reply' = [c \in Conns |-> IF c \in Held THEN "eof" ELSE reply[c]]
    BY <1>6 DEF Crash
  <2>2. \A c \in Conns : client[c] = "idle" => c \notin Held
    BY <1>0 DEF Held, InHand, HeldInv, Waiting
  <2>3. \A c \in Conns : client[c] = "idle" => ceremony'[c] = ceremony[c]
    BY <1>0, <1>6 DEF Crash, HeldInv, Waiting
  <2> QED
    BY <1>0, <2>1, <2>2, <2>3 DEF HeldInv
<1>7. CASE UNCHANGED heldVars
  BY <1>0, <1>7 DEF HeldInv, Waiting
<1>8. World => Crash \/ UNCHANGED heldVars
  BY DEF World, Reconfigure, Replug, IntervalPasses, Restart
<1> QED
  BY <1>1, <1>2, <1>3, <1>4, <1>5, <1>6, <1>7, <1>8 DEF Next, Talk, vars

-----------------------------------------------------------------------------
(* Entitlement and matches.                                                 *)

\* authenticate() tests the peer before anything else, and neither the peer nor
\* the user changes until the ceremony.
LEMMA NextEntitledInv == IInv /\ [Next]_vars => EntitledInv'
<1> SUFFICES ASSUME IInv, [Next]_vars PROVE EntitledInv'
  OBVIOUS
<1> DEFINE theVars == <<pc, job, req, ceremony>>
<1>0. /\ TypeWorkers /\ TypeHelpers /\ TypeClients
      /\ HeldInv /\ JobInv /\ HelperInv /\ EntitledInv
  BY DEF IInv, TypeOK
<1> USE DEF EntitledInv, Locked, TypeWorkers, TypeHelpers
<1>1. ASSUME NEW w \in Workers, Work(w) PROVE EntitledInv'
  <2>1. CASE Admit(w)
    <3>1. CASE Answer(w, "err")
      BY <1>0, <2>1, <3>1 DEF Admit, Answer
    <3>2. CASE /\ UidOf[req[job[w]].user] # NoUid
               /\ MayAuthenticate(req[job[w]].peer, UidOf[req[job[w]].user])
               /\ pc' = [pc EXCEPT ![w] = "camera"]
      <4>1. req[job[w]] \in Requests /\ req[job[w]].kind = "auth"
        BY <1>0, <2>1 DEF Admit, JobInv, HeldInv, Waiting
      <4>2. req[job[w]] \in Entitled
        BY <3>2, <4>1 DEF Entitled, MayAuthenticate
      <4> QED
        BY <1>0, <2>1, <3>2, <4>2 DEF Admit
    <3> QED
      BY <2>1, <3>1, <3>2 DEF Admit
  <2>2. CASE TakeRequest(w)
    <3>1. /\ pc' = [pc EXCEPT ![w] = "read"]
          /\ job' = [job EXCEPT ![w] = Head(queue)]
          /\ UNCHANGED <<req, ceremony>>
      BY <2>2 DEF TakeRequest
    <3> QED
      BY <1>0, <3>1
  <2>3. CASE ReadFails(w) \/ Respond(w)
    BY <1>0, <2>3 DEF ReadFails, Respond
  <2>4. CASE OutputPanics(w)
    BY <1>0, <2>4 DEF OutputPanics
  <2>5. CASE ReadRequest(w)
    <3>1. \/ pc' = [pc EXCEPT ![w] = "respond"]
          \/ pc' = [pc EXCEPT ![w] = "admit"] /\ req[job[w]].kind = "auth"
      BY <2>5 DEF ReadRequest, Answer
    <3> QED
      BY <1>0, <2>5, <3>1 DEF ReadRequest
  <2>6. CASE /\ pc[w] \in Locked \cup {"camera"}
             /\ \E s \in Steps \ {"admit"} : pc' = [pc EXCEPT ![w] = s]
             /\ UNCHANGED <<job, req>>
             /\ \/ UNCHANGED ceremony
                \/ \E o : ceremony' = [ceremony EXCEPT ![job[w]] = o]
    BY <1>0, <2>6
  <2>7. CASE LockCamera(w) \/ ReadCamera(w) \/ Reap(w) \/ Drain(w)
    BY <2>6, <2>7 DEF LockCamera, ReadCamera, Reap, Drain, Answer, Steps
  <2>8. CASE CheckCamera(w)
    BY <2>6, <2>8 DEF CheckCamera, Answer, Steps
  <2>9. CASE BackendTimeout(w)
    BY <2>6, <2>9 DEF BackendTimeout, Steps
  <2> QED
    BY <1>1, <2>1, <2>2, <2>3, <2>4, <2>5, <2>7, <2>8, <2>9 DEF Work
<1>2. ASSUME NEW w \in Workers, Helper(w) PROVE EntitledInv'
  <2>1. child[w] = "running" => pc[w] = "verify"
    BY <1>0 DEF HelperInv
  <2> QED
    BY <1>0, <1>2, <2>1 DEF Helper, OpenLens, FaceMatches, FaceFails, OrphanExits
<1>3. ASSUME NEW c \in Conns, NEW r \in Requests, Connect(c, r) PROVE EntitledInv'
  <2>1. /\ ceremony[c] = "none" /\ req' = [req EXCEPT ![c] = r]
        /\ UNCHANGED <<pc, job, ceremony>>
        /\ \A w \in Workers : job[w] # c
    BY <1>0, <1>3, IrauthdAssumption DEF Connect, HeldInv, Waiting
  <2>2. \A w \in Workers : job[w] # NoConn => req'[job[w]] = req[job[w]]
    BY <1>0, <2>1 DEF TypeClients
  <2>3. \A w \in Workers :
          pc[w] \in Locked \cup {"camera", "admit"} => job[w] # NoConn
    BY <1>0 DEF JobInv
  <2>4. \A d \in Conns : ceremony[d] # "none" => req'[d] = req[d]
    BY <1>0, <2>1 DEF TypeClients
  <2> QED
    BY <1>0, <2>1, <2>2, <2>3, <2>4
<1>4. CASE Crash
  <2>1. \A c \in Conns : ceremony'[c] # "none" => req[c] \in Entitled
    BY <1>0, <1>4 DEF Crash, Ceremony
  <2> QED
    BY <1>4, <2>1 DEF Crash
<1>5. CASE UNCHANGED theVars
  BY <1>0, <1>5
<1>6. ASSUME NEW c \in Conns, Talk(c)
      PROVE  (\E r \in Requests : Connect(c, r)) \/ UNCHANGED theVars
  BY <1>6 DEF Talk, ConnectRefused, Send, Receive, GiveUp
<1>7. World => Crash \/ UNCHANGED theVars
  BY DEF World, Reconfigure, Replug, IntervalPasses, Restart
<1>8. Accept \/ UNCHANGED vars => UNCHANGED theVars
  BY DEF Accept, vars
<1> QED
  BY <1>1, <1>2, <1>3, <1>4, <1>5, <1>6, <1>7, <1>8 DEF Next

\* A worker's child stands for its own connection: results, answers and replies
\* are about the ceremony of the connection they are written on.
LEMMA NextMatchInv == IInv /\ [Next]_vars => MatchInv'
<1> SUFFICES ASSUME IInv, [Next]_vars PROVE MatchInv'
  OBVIOUS
<1> DEFINE theVars == <<pc, job, resp, reply, client, child, ceremony>>
<1>0. /\ TypeWorkers /\ TypeHelpers /\ TypeClients /\ reply \in [Conns -> Replies]
      /\ HeldInv /\ JobInv /\ HelperInv /\ MatchInv /\ NoConn \notin Conns
  BY IrauthdAssumption DEF IInv, TypeOK, TypeSockets
<1>a. \A v, w \in Workers : job[v] # NoConn /\ job[v] = job[w] => v = w
  BY DEF IInv, PlaceInv
<1>b. \A w \in Workers : job[w] # NoConn => reply[job[w]] = "none"
  BY <1>0 DEF HeldInv, Waiting
<1>c. \A w \in Workers : pc[w] \notin {"idle", "dead"} => job[w] # NoConn
  BY <1>0 DEF JobInv
<1> USE DEF MatchInv, TypeWorkers, TypeHelpers
<1>1. ASSUME NEW w \in Workers, Work(w) PROVE MatchInv'
  <2>1. CASE TakeRequest(w)
    <3>1. /\ pc[w] = "idle" /\ pc' = [pc EXCEPT ![w] = "read"]
          /\ job' = [job EXCEPT ![w] = Head(queue)]
          /\ UNCHANGED <<resp, reply, client, child, ceremony>>
      BY <2>1 DEF TakeRequest
    <3> QED
      BY <1>0, <3>1
  <2>2. CASE ReadFails(w)
    BY <1>0, <1>b, <1>c, <2>2 DEF ReadFails
  <2>3. CASE /\ pc[w] \in {"read", "admit", "camera", "config"}
             /\ \/ \E r \in Replies \ {"ok"} : Answer(w, r)
                \/ /\ \E s \in {"admit", "camera", "config", "check"} :
                        pc' = [pc EXCEPT ![w] = s]
                   /\ UNCHANGED resp
             /\ UNCHANGED <<job, reply, client, child, ceremony>>
    BY <1>0, <2>3 DEF Answer
  <2>4. CASE ReadRequest(w)
    <3>1. StatusReplies \subseteq Replies \ {"ok"}
      BY DEF StatusReplies, Replies
    <3> QED
      BY <2>3, <2>4, <3>1 DEF ReadRequest, Replies
  <2>5. CASE Admit(w) \/ LockCamera(w) \/ ReadCamera(w)
    BY <2>3, <2>5 DEF Admit, LockCamera, ReadCamera, Replies
  <2>6. CASE CheckCamera(w)
    <3>1. pc[w] = "check" /\ job[w] # NoConn /\ reply[job[w]] = "none"
      BY <1>b, <1>c, <2>6 DEF CheckCamera
    <3>2. CASE Answer(w, "err") /\ UNCHANGED <<child, ceremony>>
      BY <1>0, <2>6, <3>2 DEF CheckCamera, Answer
    <3>3. CASE /\ child' = [child EXCEPT ![w] = "running"]
               /\ ceremony' = [ceremony EXCEPT ![job[w]] = "running"]
               /\ pc' = [pc EXCEPT ![w] = "verify"]
               /\ UNCHANGED <<resp, job, reply, client>>
      BY <1>0, <1>a, <1>c, <3>1, <3>3
    <3> QED
      BY <2>6, <3>2, <3>3 DEF CheckCamera
  <2>7. CASE Reap(w)
    BY <1>0, <2>7 DEF Reap
  <2>8. CASE BackendTimeout(w)
    <3>1. /\ pc[w] = "verify" /\ job[w] # NoConn /\ reply[job[w]] = "none"
          /\ child' \in [Workers -> {"none", "running", "passed", "failed", "killed"}]
          /\ \A v \in Workers : v # w => child'[v] = child[v]
          /\ ceremony' = [ceremony EXCEPT ![job[w]] = "cut"]
          /\ pc' = [pc EXCEPT ![w] = "abort"]
          /\ UNCHANGED <<job, resp, reply, client>>
      BY <1>0, <1>b, <1>c, <2>8 DEF BackendTimeout, Kill
    <3> QED
      BY <1>0, <1>a, <1>c, <3>1
  <2>9. CASE Drain(w)
    BY <1>0, <2>9 DEF Drain, Answer, Verdict
  <2>10. CASE OutputPanics(w)
    <3>1. /\ pc[w] \in {"drain", "abort"} /\ job[w] # NoConn
          /\ reply[job[w]] = "none"
      BY <1>b, <1>c, <2>10 DEF OutputPanics
    <3> QED
      BY <1>0, <1>a, <1>c, <2>10, <3>1 DEF OutputPanics
  <2>11. CASE Respond(w)
    <3>1. pc[w] = "respond" /\ job[w] # NoConn /\ reply[job[w]] = "none"
      BY <1>b, <1>c, <2>11 DEF Respond
    <3> QED
      BY <1>0, <2>11, <3>1 DEF Respond
  <2> QED
    BY <1>1, <2>1, <2>2, <2>4, <2>5, <2>6, <2>7, <2>8, <2>9, <2>10, <2>11 DEF Work
<1>2. ASSUME NEW w \in Workers, Helper(w) PROVE MatchInv'
  <2>1. child[w] = "running" =>
          pc[w] = "verify" /\ job[w] # NoConn /\ reply[job[w]] = "none"
    BY <1>0, <1>b, <1>c DEF HelperInv
  <2>2. CASE FaceMatches(w)
    BY <1>0, <1>a, <1>c, <2>1, <2>2 DEF FaceMatches
  <2>3. CASE FaceFails(w)
    BY <1>0, <1>a, <1>c, <2>1, <2>3 DEF FaceFails
  <2>4. CASE UNCHANGED theVars
    BY <1>0, <2>4
  <2> QED
    BY <1>2, <2>2, <2>3, <2>4 DEF Helper, OpenLens, OrphanExits
<1>3. ASSUME NEW c \in Conns, Talk(c) PROVE MatchInv'
  <2>1. UNCHANGED <<pc, job, resp, reply, child, ceremony>>
    BY <1>3 DEF Talk, Connect, ConnectRefused, Send, Receive, GiveUp
  <2>2. CASE Receive(c)
    BY <1>0, <2>1, <2>2 DEF Receive, Success, TypeClients
  <2>3. CASE \E s \in {"open", "sent", "denied"} : client' = [client EXCEPT ![c] = s]
    BY <1>0, <2>1, <2>3 DEF TypeClients
  <2> QED
    BY <1>3, <2>2, <2>3 DEF Talk, Connect, ConnectRefused, Send, GiveUp
<1>4. CASE Accept
  <2>1. /\ UNCHANGED <<pc, job, resp, client, child, ceremony>>
        /\ \/ reply' = reply
           \/ /\ reply' = [reply EXCEPT ![Head(backlog)] = "eof"]
              /\ reply[Head(backlog)] = "none" /\ Head(backlog) \in Conns
    <3>1. /\ Head(backlog) = backlog[1] /\ 1 \in DOMAIN backlog
          /\ Head(backlog) \in Conns
      BY <1>4, TailAt DEF Accept, IInv, TypeOK, TypeSockets
    <3>2. reply[Head(backlog)] = "none"
      BY <1>0, <3>1 DEF HeldInv, Waiting
    <3> QED
      BY <1>4, <3>1, <3>2 DEF Accept
  <2> QED
    BY <1>0, <2>1
<1>5. CASE Crash
  <2>1. /\ pc' = [w \in Workers |-> "idle"] /\ resp' = [w \in Workers |-> "none"]
        /\ reply' = [c \in Conns |-> IF c \in Held THEN "eof" ELSE reply[c]]
        /\ UNCHANGED client
    BY <1>5 DEF Crash
  <2>2. \A c \in Conns : reply[c] = "ok" => c \notin Held
    BY <1>0 DEF HeldInv, Waiting, Held, InHand
  <2>3. \A c \in Conns : reply[c] = "ok" => ceremony'[c] = ceremony[c]
    BY <1>0, <1>5, <1>b, <1>c DEF Crash, Ceremony
  <2> QED
    BY <1>0, <2>1, <2>2, <2>3
<1>6. CASE UNCHANGED theVars
  BY <1>0, <1>6
<1>7. World => Crash \/ UNCHANGED theVars
  BY DEF World, Reconfigure, Replug, IntervalPasses, Restart
<1> QED
  BY <1>1, <1>2, <1>3, <1>4, <1>5, <1>6, <1>7 DEF Next, vars

-----------------------------------------------------------------------------
(* The theorems.                                                            *)

\* The inductive invariant holds initially ...
LEMMA InitIInv == Init => IInv
<1> SUFFICES ASSUME Init PROVE IInv
  OBVIOUS
<1>1. TypeOK
  BY InitTypeOK
<1>2. LockInv /\ HelperInv /\ JobInv /\ PanicContained
  BY IrauthdAssumption
    DEF Init, LockInv, HelperInv, JobInv, PanicContained, Locked, Ceremony
<1>3. PlaceInv /\ HeldInv /\ EntitledInv /\ MatchInv
  BY DEF Init, PlaceInv, HeldInv, EntitledInv, MatchInv, Locked
<1> QED
  BY <1>1, <1>2, <1>3 DEF IInv

\* ... and every step keeps it.
LEMMA NextIInv == IInv /\ [Next]_vars => IInv'
  BY NextTypeOK, NextLockInv, NextHelperInv, NextJobInv, NextPlaceInv,
    NextHeldInv, NextEntitledInv, NextMatchInv, NextPanicContained DEF IInv

\* The invariant behind the theorems below.
THEOREM Invariance == Spec => []IInv
  BY InitIInv, NextIInv, PTL DEF Spec

\* Every variable keeps its type; the request channel never exceeds its
\* capacity.
THEOREM TypeCorrect == Spec => []TypeOK
<1>1. IInv => TypeOK
  BY DEF IInv
<1> QED
  BY <1>1, Invariance, PTL

\* pam_irauth reports success only for an entitled request whose own ceremony
\* ended in a match, whatever times out, panics, crashes or interleaves.
THEOREM GrantIsJustified == Spec => []GrantJustified
<1>1. IInv => GrantJustified
  BY DEF IInv, EntitledInv, MatchInv, GrantJustified
<1> QED
  BY <1>1, Invariance, PTL

\* At most one camera is open, by the helper of the worker that holds the lock,
\* also while a killed pamtester leaves its helper behind.
THEOREM CameraIsSerialized == Spec => []SerializedCamera
<1>1. IInv => SerializedCamera
  BY DEF IInv, LockInv, HelperInv, TypeOK, TypeHelpers, SerializedCamera,
    Ceremony, Locked
<1> QED
  BY <1>1, Invariance, PTL

\* A panic ends one worker and closes the gate until a restart.
THEOREM PanicIsContained == Spec => []PanicContained
<1>1. IInv => PanicContained
  BY DEF IInv
<1> QED
  BY <1>1, Invariance, PTL

-----------------------------------------------------------------------------
(* The camera of a settled ceremony.                                        *)

\* As long as nothing was changed since its worker read the configuration, the
\* check is about the configured camera, and after the check it is strict.
SettledInv == \A w \in settled :
  /\ pc[w] \in {"check"} \cup Ceremony
  /\ pc[w] = "check" => seen[w] = device
  /\ pc[w] \in Ceremony => device \in strict
  /\ lens[w] # NoCamera => lens[w] = device

LEMMA NextSettledInv == IInv /\ SettledInv /\ [Next]_vars => SettledInv'
<1> SUFFICES ASSUME IInv, SettledInv, [Next]_vars PROVE SettledInv'
  OBVIOUS
<1>0. /\ pc \in [Workers -> Steps] /\ seen \in [Workers -> Cameras \cup {NoCamera}]
      /\ lens \in [Workers -> Cameras \cup {NoCamera}] /\ settled \subseteq Workers
      /\ HelperInv
  BY DEF IInv, TypeOK, TypeWorkers, TypeHelpers, TypeRun
<1> USE <1>0 DEF SettledInv, Ceremony
<1>1. ASSUME NEW w \in Workers, Work(w) PROVE SettledInv'
  <2>1. CASE ReadCamera(w)
    <3>1. lens[w] = NoCamera
      BY <2>1 DEF ReadCamera, HelperInv
    <3> QED
      BY <2>1, <3>1 DEF ReadCamera, Answer
  <2>2. CASE CheckCamera(w)
    BY <2>2 DEF CheckCamera, Answer, StrictDevice
  <2>3. CASE Drain(w) \/ OutputPanics(w)
    BY <2>3 DEF Drain, OutputPanics, Answer
  <2>4. CASE Reap(w) \/ BackendTimeout(w)
    BY <2>4 DEF Reap, BackendTimeout
  <2>5. ASSUME NEW s \in Steps, pc[w] \notin {"check"} \cup Ceremony,
               pc' = [pc EXCEPT ![w] = s],
               UNCHANGED <<seen, lens, device, strict, settled>>
        PROVE  SettledInv'
    BY <2>5
  <2>6. CASE TakeRequest(w) \/ ReadFails(w) \/ Respond(w)
    BY <2>5, <2>6 DEF TakeRequest, ReadFails, Respond, Steps
  <2>7. CASE ReadRequest(w) \/ Admit(w) \/ LockCamera(w)
    <3>1. \E s \in Steps : pc' = [pc EXCEPT ![w] = s]
      BY <2>7 DEF ReadRequest, Admit, LockCamera, Answer, Steps
    <3> QED
      BY <2>5, <2>7, <3>1 DEF ReadRequest, Admit, LockCamera
  <2> QED
    BY <1>1, <2>1, <2>2, <2>3, <2>4, <2>6, <2>7 DEF Work
<1>2. ASSUME NEW w \in Workers, Helper(w) PROVE SettledInv'
  BY <1>2 DEF Helper, OpenLens, FaceMatches, FaceFails, OrphanExits
<1>3. CASE World
  BY <1>3 DEF World, Reconfigure, Replug, IntervalPasses, Crash, Restart
<1>4. ASSUME NEW c \in Conns, Talk(c) PROVE SettledInv'
  BY <1>4 DEF Talk, Connect, ConnectRefused, Send, Receive, GiveUp
<1>5. CASE Accept \/ UNCHANGED vars
  BY <1>5 DEF Accept, vars
<1> QED
  BY <1>1, <1>2, <1>3, <1>4, <1>5 DEF Next

\* The camera a helper opens is strict, unless a camera was reconfigured or
\* replugged since the daemon read the configuration (SettledScanIsStrict).
THEOREM SettledScansAreStrict == Spec => []SettledScanIsStrict
<1>1. Init => SettledInv
  BY DEF Init, SettledInv
<1>2. IInv /\ SettledInv => SettledScanIsStrict
  BY DEF IInv, HelperInv, SettledInv, SettledScanIsStrict
<1> QED
  BY <1>1, <1>2, InitIInv, NextIInv, NextSettledInv, PTL DEF Spec

-----------------------------------------------------------------------------
(* The hand-over loses nothing.                                             *)

\* A queue that holds nothing twice has as many connections as its length.
LEMMA QueueCount ==
  ASSUME NEW S, NEW s \in Seq(S), \A i, j \in DOMAIN s : s[i] = s[j] => i = j
  PROVE  LET R == {s[i] : i \in DOMAIN s}
         IN  IsFiniteSet(R) /\ Cardinality(R) = Len(s)
<1> DEFINE R == {s[i] : i \in DOMAIN s}
<1>1. Len(s) \in Nat /\ DOMAIN s = 1..Len(s)
  OBVIOUS
<1>2. s \in Bijection(1..Len(s), R)
  BY <1>1 DEF Bijection, Injection, Surjection, IsInjective
<1>3. IsFiniteSet(1..Len(s)) /\ Cardinality(1..Len(s)) = Len(s)
  <2>1. 1 \in Int /\ Len(s) \in Int
    BY <1>1
  <2> QED
    BY SMTT(30), <1>1, <2>1, FS_Interval
<1>4. ExistsBijection(1..Len(s), R)
  BY <1>2 DEF ExistsBijection
<1> QED
  BY <1>3, <1>4, FS_Bijection

\* So have the workers that hold different ones.
LEMMA InHandCount ==
  ASSUME TypeWorkers, PlaceInv
  PROVE  /\ IsFiniteSet(InHand)
         /\ Cardinality(InHand) = Cardinality({w \in Workers : job[w] # NoConn})
<1> DEFINE B == {w \in Workers : job[w] # NoConn}
           f == [w \in B |-> job[w]]
<1>1. IsFiniteSet(B)
  BY IrauthdAssumption, FS_Subset
<1>2. f \in Bijection(B, InHand)
  <2>1. \A v, w \in B : job[v] = job[w] => v = w
    BY DEF PlaceInv
  <2>2. \A c \in InHand : \E w \in B : job[w] = c
    BY DEF InHand
  <2>3. \A w \in B : job[w] \in InHand
    BY DEF InHand
  <2> QED
    BY <2>1, <2>2, <2>3 DEF Bijection, Injection, Surjection, IsInjective
<1>3. ExistsBijection(B, InHand)
  BY <1>2 DEF ExistsBijection
<1> QED
  BY <1>1, <1>3, FS_Bijection

\* Together they have as many as the daemon holds.
LEMMA HeldCount ==
  ASSUME TypeSockets, TypeWorkers, PlaceInv
  PROVE  Len(backlog) + Len(queue) + Cardinality({w \in Workers : job[w] # NoConn})
           = Cardinality(Held)
<1> DEFINE B == {backlog[i] : i \in DOMAIN backlog}
           Q == {queue[i] : i \in DOMAIN queue}
<1>1. IsFiniteSet(B) /\ Cardinality(B) = Len(backlog)
  BY QueueCount DEF TypeSockets, PlaceInv
<1>2. IsFiniteSet(Q) /\ Cardinality(Q) = Len(queue)
  BY QueueCount DEF TypeSockets, PlaceInv
<1>3. /\ IsFiniteSet(InHand)
      /\ Cardinality(InHand) = Cardinality({w \in Workers : job[w] # NoConn})
  BY InHandCount
<1>4. B \cap Q = {} /\ (B \cup Q) \cap InHand = {}
  BY DEF PlaceInv, InHand
<1>5. Held = (B \cup Q) \cup InHand
  BY DEF Held
<1> HIDE DEF B, Q
<1>6. IsFiniteSet(B \cup Q) /\ Cardinality(B \cup Q) = Len(backlog) + Len(queue)
  <2>1. Cardinality(B \cap Q) = 0
    BY <1>4, FS_EmptySet
  <2>2. Len(backlog) \in Nat /\ Len(queue) \in Nat
    BY DEF TypeSockets
  <2>3. /\ IsFiniteSet(B \cup Q)
        /\ Cardinality(B \cup Q) = Cardinality(B) + Cardinality(Q) - Cardinality(B \cap Q)
    BY <1>1, <1>2, FS_Union
  <2> QED
    BY <1>1, <1>2, <2>1, <2>2, <2>3
<1>7. /\ IsFiniteSet(Held)
      /\ Cardinality(Held) = Cardinality(B \cup Q) + Cardinality(InHand) - 0
  <2>1. Cardinality((B \cup Q) \cap InHand) = 0
    BY <1>4, FS_EmptySet
  <2> QED
    BY <1>3, <1>5, <1>6, <2>1, FS_Union
<1>8. Cardinality(InHand) \in Nat /\ Cardinality(B \cup Q) \in Nat
  BY <1>3, <1>6, FS_CardinalityType
<1> QED
  BY <1>3, <1>6, <1>7, <1>8

\* A connection without an answer is somewhere.
NothingLost ==
  \A c \in Conns : req[c] # NoRequest /\ reply[c] = "none" => c \in Held

\* A worker about to respond has something to say.
SpeaksInv == \A w \in Workers : pc[w] = "respond" => resp[w] # "none"

LEMMA NextSpeaksInv == IInv /\ SpeaksInv /\ [Next]_vars => SpeaksInv'
<1> SUFFICES ASSUME IInv, SpeaksInv, [Next]_vars PROVE SpeaksInv'
  OBVIOUS
<1>0. pc \in [Workers -> Steps] /\ resp \in [Workers -> Replies]
  BY DEF IInv, TypeOK, TypeWorkers
<1> USE <1>0 DEF SpeaksInv
<1>1. ASSUME NEW w \in Workers, Work(w) PROVE SpeaksInv'
  <2>1. CASE /\ \E s \in Steps \ {"respond"} : pc' = [pc EXCEPT ![w] = s]
             /\ \A v \in Workers : v # w => resp'[v] = resp[v]
    BY <2>1
  <2>2. CASE \E r \in Replies \ {"none"} : Answer(w, r)
    BY <2>2 DEF Answer
  <2>3. CASE ReadRequest(w)
    <3>1. StatusReplies \subseteq Replies \ {"none"}
      BY DEF StatusReplies, Replies
    <3> QED
      BY <2>1, <2>2, <2>3, <3>1 DEF ReadRequest, Replies, Steps
  <2>4. CASE TakeRequest(w) \/ ReadFails(w) \/ OutputPanics(w) \/ Respond(w)
    BY <2>1, <2>4 DEF TakeRequest, ReadFails, OutputPanics, Respond, Steps
  <2>5. CASE Admit(w) \/ LockCamera(w) \/ ReadCamera(w) \/ CheckCamera(w)
    BY <2>1, <2>2, <2>5 DEF Admit, LockCamera, ReadCamera, CheckCamera, Replies, Steps
  <2>6. CASE Reap(w) \/ BackendTimeout(w) \/ Drain(w)
    BY <2>1, <2>2, <2>6 DEF Reap, BackendTimeout, Drain, Verdict, Replies, Steps
  <2> QED
    BY <1>1, <2>3, <2>4, <2>5, <2>6 DEF Work
<1>2. CASE Crash
  BY <1>2 DEF Crash
<1>3. CASE UNCHANGED <<pc, resp>>
  BY <1>3
<1>4. ASSUME NEW w \in Workers, Helper(w) PROVE UNCHANGED <<pc, resp>>
  BY <1>4 DEF Helper, OpenLens, FaceMatches, FaceFails, OrphanExits
<1>5. ASSUME NEW c \in Conns, Talk(c) PROVE UNCHANGED <<pc, resp>>
  BY <1>5 DEF Talk, Connect, ConnectRefused, Send, Receive, GiveUp
<1>6. World => Crash \/ UNCHANGED <<pc, resp>>
  BY DEF World, Reconfigure, Replug, IntervalPasses, Restart
<1>7. Accept \/ UNCHANGED vars => UNCHANGED <<pc, resp>>
  BY DEF Accept, vars
<1> QED
  BY <1>1, <1>2, <1>3, <1>4, <1>5, <1>6, <1>7 DEF Next

LEMMA NextNothingLost == IInv /\ SpeaksInv /\ NothingLost /\ [Next]_vars => NothingLost'
<1> SUFFICES ASSUME IInv, SpeaksInv, NothingLost, [Next]_vars PROVE NothingLost'
  OBVIOUS
<1> DEFINE theVars == <<req, reply, backlog, queue, job>>
<1>0. /\ backlog \in Seq(Conns) /\ queue \in Seq(Conns)
      /\ job \in [Workers -> Conns \cup {NoConn}]
      /\ reply \in [Conns -> Replies] /\ req \in [Conns -> Requests \cup {NoRequest}]
      /\ JobInv /\ NoConn \notin Conns
  BY IrauthdAssumption DEF IInv, TypeOK, TypeSockets, TypeWorkers, TypeClients
<1>h. \A c : c \in Held <=> \/ \E i \in DOMAIN backlog : c = backlog[i]
                            \/ \E i \in DOMAIN queue : c = queue[i]
                            \/ c # NoConn /\ \E w \in Workers : c = job[w]
  BY DEF Held, InHand
<1>i. \A c : c \in Held' <=> \/ \E i \in DOMAIN backlog' : c = backlog'[i]
                             \/ \E i \in DOMAIN queue' : c = queue'[i]
                             \/ c # NoConn /\ \E w \in Workers : c = job'[w]
  BY DEF Held, InHand
<1>1. ASSUME NEW c \in Conns, NEW r \in Requests, Connect(c, r) PROVE NothingLost'
  <2>1. /\ backlog' = Append(backlog, c) /\ req' = [req EXCEPT ![c] = r]
        /\ UNCHANGED <<reply, queue, job>>
    BY <1>1 DEF Connect
  <2>2. /\ \A i \in DOMAIN backlog : i \in DOMAIN backlog' /\ backlog'[i] = backlog[i]
        /\ Len(backlog) + 1 \in DOMAIN backlog' /\ backlog'[Len(backlog) + 1] = c
    BY <1>0, <2>1
  <2> QED
    BY <1>0, <1>h, <1>i, <2>1, <2>2 DEF NothingLost
<1>2. CASE Accept
  <2>1. /\ backlog # <<>> /\ backlog' = Tail(backlog)
        /\ UNCHANGED <<req, job>>
        /\ \/ reply' = [reply EXCEPT ![Head(backlog)] = "eof"] /\ queue' = queue
           \/ queue' = Append(queue, Head(backlog)) /\ reply' = reply
    BY <1>2 DEF Accept
  <2>2. \A i \in DOMAIN backlog : \/ backlog[i] = Head(backlog)
                                  \/ i - 1 \in DOMAIN backlog' /\ backlog'[i - 1] = backlog[i]
    BY <1>0, <2>1
  <2>3. Head(backlog) \in Conns
    BY <1>0, <2>1
  <2>4. CASE reply' = [reply EXCEPT ![Head(backlog)] = "eof"] /\ queue' = queue
    <3> SUFFICES ASSUME NEW c \in Conns, req'[c] # NoRequest, reply'[c] = "none"
                 PROVE  c \in Held'
      BY DEF NothingLost
    <3>1. c # Head(backlog) /\ c \in Held
      BY <1>0, <2>1, <2>3, <2>4 DEF NothingLost
    <3> QED
      BY <1>h, <1>i, <2>1, <2>2, <2>4, <3>1
  <2>5. CASE queue' = Append(queue, Head(backlog)) /\ reply' = reply
    <3>1. /\ \A i \in DOMAIN queue : i \in DOMAIN queue' /\ queue'[i] = queue[i]
          /\ Len(queue) + 1 \in DOMAIN queue' /\ queue'[Len(queue) + 1] = Head(backlog)
      BY <1>0, <2>3, <2>5
    <3> QED
      <4> SUFFICES ASSUME NEW c \in Conns, req'[c] # NoRequest, reply'[c] = "none"
                   PROVE  c \in Held'
        BY DEF NothingLost
      <4>1. c \in Held
        BY <2>1, <2>5 DEF NothingLost
      <4> QED
        <5>1. ASSUME NEW i \in DOMAIN backlog, c = backlog[i] PROVE c \in Held'
          BY <1>i, <2>2, <3>1, <5>1
        <5>2. ASSUME NEW i \in DOMAIN queue, c = queue[i] PROVE c \in Held'
          BY <1>i, <3>1, <5>2
        <5>3. ASSUME NEW w \in Workers, c = job[w], c # NoConn PROVE c \in Held'
          BY <1>i, <2>1, <5>3
        <5> QED
          BY <1>h, <4>1, <5>1, <5>2, <5>3
  <2> QED
    BY <2>1, <2>4, <2>5
<1>3. ASSUME NEW w \in Workers, Work(w) PROVE NothingLost'
  <2>1. CASE TakeRequest(w)
    <3>1. /\ queue # <<>> /\ queue' = Tail(queue) /\ job[w] = NoConn
          /\ job' = [job EXCEPT ![w] = Head(queue)]
          /\ UNCHANGED <<req, reply, backlog>>
      BY <1>0, <2>1 DEF TakeRequest, Rest, JobInv
    <3>2. \A i \in DOMAIN queue : \/ queue[i] = Head(queue)
                                  \/ i - 1 \in DOMAIN queue' /\ queue'[i - 1] = queue[i]
      BY <1>0, <3>1
    <3>3. job'[w] = Head(queue) /\ \A v \in Workers : job[v] # NoConn => job'[v] = job[v]
      BY <1>0, <3>1
    <3> QED
      <4> SUFFICES ASSUME NEW c \in Conns, req'[c] # NoRequest, reply'[c] = "none"
                   PROVE  c \in Held'
        BY DEF NothingLost
      <4>1. c \in Held /\ c # NoConn
        BY <1>0, <3>1 DEF NothingLost
      <4> QED
        BY <1>h, <1>i, <3>1, <3>2, <3>3, <4>1
  <2>2. CASE ReadFails(w) \/ OutputPanics(w) \/ Respond(w)
    <3>1. /\ job[w] # NoConn /\ job' = [job EXCEPT ![w] = NoConn]
          /\ \E a : a # "none" /\ reply' = [reply EXCEPT ![job[w]] = a]
          /\ UNCHANGED <<req, backlog, queue>>
      <4>1. CASE ReadFails(w) \/ OutputPanics(w)
        BY <1>0, <4>1 DEF ReadFails, OutputPanics, JobInv
      <4>2. CASE Respond(w)
        BY <1>0, <4>2 DEF Respond, JobInv, SpeaksInv
      <4> QED
        BY <2>2, <4>1, <4>2
    <3>2. \A c \in Conns : reply'[c] = "none" => c # job[w] /\ reply[c] = "none"
      BY <1>0, <3>1
    <3>3. \A v \in Workers : v # w => job'[v] = job[v]
      BY <1>0, <3>1
    <3> QED
      <4> SUFFICES ASSUME NEW c \in Conns, req'[c] # NoRequest, reply'[c] = "none"
                   PROVE  c \in Held'
        BY DEF NothingLost
      <4>1. c \in Held /\ c # job[w]
        BY <3>1, <3>2 DEF NothingLost
      <4> QED
        BY <1>h, <1>i, <3>1, <3>3, <4>1
  <2>3. \/ TakeRequest(w) \/ ReadFails(w) \/ OutputPanics(w) \/ Respond(w)
        \/ UNCHANGED theVars
    BY <1>3 DEF Work, ReadRequest, Admit, LockCamera, ReadCamera, CheckCamera,
      Reap, BackendTimeout, Drain
  <2> QED
    BY <2>1, <2>2, <2>3 DEF NothingLost, Held, InHand
<1>4. CASE Crash
  BY <1>0, <1>4 DEF Crash, NothingLost
<1>5. CASE UNCHANGED theVars
  BY <1>5 DEF NothingLost, Held, InHand
<1>6. ASSUME NEW w \in Workers, Helper(w) PROVE UNCHANGED theVars
  BY <1>6 DEF Helper, OpenLens, FaceMatches, FaceFails, OrphanExits
<1>7. ASSUME NEW c \in Conns, Talk(c)
      PROVE  (\E r \in Requests : Connect(c, r)) \/ UNCHANGED theVars
  BY <1>7 DEF Talk, ConnectRefused, Send, Receive, GiveUp
<1>8. World => Crash \/ UNCHANGED theVars
  BY DEF World, Reconfigure, Replug, IntervalPasses, Restart
<1> QED
  BY <1>1, <1>2, <1>3, <1>4, <1>5, <1>6, <1>7, <1>8 DEF Next, vars

\* Between accept(), the channel and the workers no connection is lost, kept
\* after its answer, or held twice (HandedOverOnce).
THEOREM HandOverIsExact == Spec => []HandedOverOnce
<1>1. Init => SpeaksInv /\ NothingLost
  BY DEF Init, SpeaksInv, NothingLost
<1>2. IInv /\ NothingLost => HandedOverOnce
  <2> SUFFICES ASSUME IInv, NothingLost PROVE HandedOverOnce
    OBVIOUS
  <2>1. \A c \in Held : c \in Conns /\ Waiting(c)
    BY DEF IInv, TypeOK, TypeSockets, TypeWorkers, HeldInv, Held, InHand
  <2>2. Held = {c \in Conns : req[c] # NoRequest /\ reply[c] = "none"}
    BY <2>1, IrauthdAssumption DEF Waiting, NothingLost
  <2> QED
    BY <2>2, HeldCount DEF HandedOverOnce, IInv, TypeOK
<1> QED
  BY <1>1, <1>2, InitIInv, NextIInv, NextSpeaksInv, NextNothingLost,
    PTL DEF Spec

-----------------------------------------------------------------------------
(* The daemon implements the face gate.                                     *)

\* How far the ceremony of a worker's connection has come: not begun before the
\* check of the camera, running as long as its child runs, and decided after it.
OutcomeInv == \A w \in Workers :
  /\ pc[w] \in {"read", "admit", "camera", "config", "check"}
       => ceremony[job[w]] = "none"
  /\ pc[w] \in Ceremony => (child[w] = "running" <=> ceremony[job[w]] = "running")

LEMMA NextOutcomeInv == IInv /\ OutcomeInv /\ [Next]_vars => OutcomeInv'
<1> SUFFICES ASSUME IInv, OutcomeInv, [Next]_vars PROVE OutcomeInv'
  OBVIOUS
<1> DEFINE theVars == <<pc, job, child, ceremony>>
<1>0. /\ TypeWorkers /\ TypeHelpers /\ JobInv /\ HelperInv /\ NoConn \notin Conns
      /\ queue \in Seq(Conns)
  BY IrauthdAssumption DEF IInv, TypeOK, TypeSockets
<1>a. \A v, w \in Workers : job[v] # NoConn /\ job[v] = job[w] => v = w
  BY DEF IInv, PlaceInv
<1>c. \A w \in Workers : pc[w] \notin {"idle", "dead"} => job[w] \in Conns
  BY <1>0 DEF JobInv, TypeWorkers
<1> USE DEF OutcomeInv, Ceremony, TypeWorkers, TypeHelpers
<1>1. ASSUME NEW w \in Workers, Work(w) PROVE OutcomeInv'
  <2>1. CASE TakeRequest(w)
    <3>1. /\ queue # <<>> /\ pc[w] = "idle" /\ pc' = [pc EXCEPT ![w] = "read"]
          /\ job' = [job EXCEPT ![w] = Head(queue)]
          /\ UNCHANGED <<child, ceremony>>
      BY <2>1 DEF TakeRequest
    <3>2. Head(queue) = queue[1] /\ 1 \in DOMAIN queue
      BY <1>0, <3>1, TailAt
    <3>3. ceremony[Head(queue)] = "none"
      BY <3>2 DEF IInv, HeldInv
    <3> QED
      BY <1>0, <3>1, <3>3
  <2>2. CASE ReadFails(w) \/ Respond(w)
    BY <1>0, <2>2 DEF ReadFails, Respond
  <2>3. CASE /\ pc[w] \in {"read", "admit", "camera", "config", "check"}
             /\ \E s \in {"admit", "camera", "config", "check", "respond"} :
                  pc' = [pc EXCEPT ![w] = s]
             /\ UNCHANGED <<job, child, ceremony>>
    BY <1>0, <2>3
  <2>4. CASE ReadRequest(w) \/ Admit(w)
    BY <2>3, <2>4 DEF ReadRequest, Admit, Answer
  <2>5. CASE LockCamera(w) \/ ReadCamera(w)
    BY <2>3, <2>5 DEF LockCamera, ReadCamera, Answer
  <2>6. CASE CheckCamera(w)
    <3>1. CASE Answer(w, "err") /\ UNCHANGED <<child, ceremony>>
      BY <2>3, <2>6, <3>1 DEF CheckCamera, Answer
    <3>2. CASE /\ child' = [child EXCEPT ![w] = "running"]
               /\ ceremony' = [ceremony EXCEPT ![job[w]] = "running"]
               /\ pc' = [pc EXCEPT ![w] = "verify"]
      <4>1. pc[w] = "check" /\ job' = job /\ job[w] \in Conns
        BY <1>c, <2>6 DEF CheckCamera
      <4>2. \A v \in Workers : v # w => /\ pc'[v] = pc[v] /\ child'[v] = child[v]
                                        /\ ceremony'[job[v]] = ceremony[job[v]]
        BY <1>0, <1>a, <3>2, <4>1
      <4> QED
        BY <1>0, <3>2, <4>1, <4>2
    <3> QED
      BY <2>6, <3>1, <3>2 DEF CheckCamera
  <2>7. CASE Reap(w)
    BY <1>0, <2>7 DEF Reap
  <2>8. CASE BackendTimeout(w)
    <3>1. /\ pc[w] = "verify" /\ job[w] \in Conns /\ job' = job
          /\ pc' = [pc EXCEPT ![w] = "abort"]
          /\ ceremony' = [ceremony EXCEPT ![job[w]] = "cut"]
          /\ child'[w] # "running" /\ \A v \in Workers : v # w => child'[v] = child[v]
      BY <1>0, <1>c, <2>8 DEF BackendTimeout, Kill
    <3>2. \A v \in Workers : v # w => /\ pc'[v] = pc[v]
                                      /\ ceremony'[job[v]] = ceremony[job[v]]
      BY <1>0, <1>a, <3>1
    <3> QED
      BY <1>0, <3>1, <3>2
  <2>9. CASE Drain(w)
    BY <1>0, <2>9 DEF Drain, Answer
  <2>10. CASE OutputPanics(w)
    <3>1. /\ job[w] \in Conns /\ pc' = [pc EXCEPT ![w] = "dead"]
          /\ job' = [job EXCEPT ![w] = NoConn]
          /\ child' = [child EXCEPT ![w] = "none"]
          /\ ceremony' = [ceremony EXCEPT ![job[w]] = "cut"]
      BY <1>c, <2>10 DEF OutputPanics
    <3>2. \A v \in Workers : v # w => /\ pc'[v] = pc[v] /\ job'[v] = job[v]
                                      /\ child'[v] = child[v]
                                      /\ ceremony'[job[v]] = ceremony[job[v]]
      BY <1>0, <1>a, <3>1
    <3> QED
      BY <1>0, <3>1, <3>2
  <2> QED
    BY <1>1, <2>1, <2>2, <2>4, <2>5, <2>6, <2>7, <2>8, <2>9, <2>10 DEF Work
<1>2. ASSUME NEW w \in Workers, Helper(w) PROVE OutcomeInv'
  <2>1. CASE FaceMatches(w) \/ FaceFails(w)
    <3>1. /\ pc[w] = "verify" /\ job[w] \in Conns /\ UNCHANGED <<pc, job>>
          /\ child'[w] # "running" /\ \A v \in Workers : v # w => child'[v] = child[v]
          /\ \E o \in {"matched", "missed"} :
               ceremony' = [ceremony EXCEPT ![job[w]] = o]
      BY <1>0, <1>c, <2>1 DEF FaceMatches, FaceFails, HelperInv
    <3>2. \A v \in Workers : v # w => ceremony'[job[v]] = ceremony[job[v]]
      BY <1>0, <1>a, <3>1
    <3> QED
      BY <1>0, <3>1, <3>2
  <2>2. CASE OpenLens(w) \/ OrphanExits(w)
    BY <2>2 DEF OpenLens, OrphanExits
  <2> QED
    BY <1>2, <2>1, <2>2 DEF Helper
<1>3. CASE Crash
  BY <1>3 DEF Crash
<1>4. CASE UNCHANGED theVars
  BY <1>4
<1>5. ASSUME NEW c \in Conns, Talk(c) PROVE UNCHANGED theVars
  BY <1>5 DEF Talk, Connect, ConnectRefused, Send, Receive, GiveUp
<1>6. World => Crash \/ UNCHANGED theVars
  BY DEF World, Reconfigure, Replug, IntervalPasses, Restart
<1>7. Accept \/ UNCHANGED vars => UNCHANGED theVars
  BY DEF Accept, vars
<1> QED
  BY <1>1, <1>2, <1>3, <1>4, <1>5, <1>6, <1>7 DEF Next

\* What the gate sees of the workers and of the clients.
Scanned == {job[w] : w \in {v \in Workers : pc[v] \in Ceremony \/ lens[v] # NoCamera}}
Verdicts == [c \in Conns |-> IF client[c] \in {"granted", "denied"}
                               THEN client[c] ELSE "none"]

\* There is a scan exactly while a worker is in its ceremony, and it is that one's.
ScanFacts ==
  /\ \A w \in Workers : pc[w] \in Ceremony =>
       /\ Scanned = {job[w]} /\ job[w] \in Conns
       /\ reply[job[w]] = "none" /\ client[job[w]] # "granted"
  /\ (\A w \in Workers : pc[w] \notin Ceremony) => Scanned = {}

LEMMA ScannedIs == IInv => ScanFacts
<1> SUFFICES ASSUME IInv PROVE ScanFacts
  OBVIOUS
<1>1. \A w \in Workers : lens[w] # NoCamera => pc[w] \in Ceremony
  BY DEF IInv, HelperInv
<1>2. \A v, w \in Workers : pc[v] \in Ceremony /\ pc[w] \in Ceremony => v = w
  BY DEF IInv, LockInv, Locked, Ceremony
<1>3. \A w \in Workers : pc[w] \in Ceremony => job[w] # NoConn /\ job[w] \in Conns
  BY DEF IInv, JobInv, TypeOK, TypeWorkers, Ceremony
<1>4. \A w \in Workers : job[w] # NoConn => reply[job[w]] = "none"
  BY DEF IInv, HeldInv, Waiting
<1>5. \A c \in Conns : client[c] = "granted" => reply[c] = "ok"
  BY DEF IInv, MatchInv
<1> QED
  BY <1>1, <1>2, <1>3, <1>4, <1>5 DEF Scanned, ScanFacts

LEMMA ScannedIsNext == IInv' => ScanFacts'
  BY ScannedIs, PTL

\* A worker that enters no ceremony and leaves none changes no scan.
LEMMA ScanStays ==
  ASSUME ScanFacts, ScanFacts', NEW w \in Workers,
         pc[w] \in Ceremony <=> pc'[w] \in Ceremony,
         \A v \in Workers : v # w => pc'[v] = pc[v],
         \A v \in Workers : pc[v] \in Ceremony => job'[v] = job[v]
  PROVE  Scanned' = Scanned
<1>1. CASE \E v \in Workers : pc[v] \in Ceremony
  <2>1. PICK v \in Workers : pc[v] \in Ceremony
    BY <1>1
  <2>2. pc'[v] \in Ceremony
    BY <2>1
  <2>3. Scanned = {job[v]} /\ Scanned' = {job'[v]}
    BY <2>1, <2>2 DEF ScanFacts
  <2>4. CASE v = w
    BY <2>1, <2>3, <2>4
  <2>5. CASE v # w
    BY <2>1, <2>3, <2>5
  <2> QED
    BY <2>4, <2>5
<1>2. CASE \A v \in Workers : pc[v] \notin Ceremony
  BY <1>2 DEF ScanFacts
<1> QED
  BY <1>1, <1>2

\* The actions of the gate, said of the daemon.
LEMMA GateActions ==
  ASSUME NEW c \in Conns
  PROVE  /\ Gate!Ask(c) <=>
              /\ req[c] = NoRequest /\ Verdicts[c] = "none"
              /\ \E r \in Requests : req' = [req EXCEPT ![c] = r]
              /\ UNCHANGED <<Scanned, ceremony, Verdicts>>
         /\ Gate!StartScan(c) <=>
              /\ req[c] \in Entitled /\ ceremony[c] = "none" /\ Scanned = {}
              /\ Scanned' = {c} /\ ceremony' = [ceremony EXCEPT ![c] = "running"]
              /\ UNCHANGED <<req, Verdicts>>
         /\ Gate!Look(c) <=>
              /\ c \in Scanned /\ ceremony[c] = "running"
              /\ \E o \in {"matched", "missed"} : ceremony' = [ceremony EXCEPT ![c] = o]
              /\ UNCHANGED <<req, Scanned, Verdicts>>
         /\ Gate!Cut(c) <=>
              /\ c \in Scanned /\ Verdicts[c] # "granted"
              /\ ceremony' = [ceremony EXCEPT ![c] = "cut"]
              /\ Scanned' \in {Scanned, Scanned \ {c}}
              /\ UNCHANGED <<req, Verdicts>>
         /\ Gate!EndScan(c) <=>
              /\ c \in Scanned /\ ceremony[c] # "running"
              /\ Scanned' = Scanned \ {c}
              /\ UNCHANGED <<req, ceremony, Verdicts>>
         /\ Gate!Grant(c) <=>
              /\ Verdicts[c] = "none" /\ ceremony[c] = "matched" /\ c \notin Scanned
              /\ Verdicts' = [Verdicts EXCEPT ![c] = "granted"]
              /\ UNCHANGED <<req, Scanned, ceremony>>
         /\ Gate!Deny(c) <=>
              /\ Verdicts[c] = "none"
              /\ Verdicts' = [Verdicts EXCEPT ![c] = "denied"]
              /\ UNCHANGED <<req, Scanned, ceremony>>
  BY DEF Gate!Ask, Gate!StartScan, Gate!Look, Gate!Cut, Gate!EndScan, Gate!Grant,
    Gate!Deny, Scanned, Verdicts

\* What a step of the gate is, and what it is to it when nothing happens.
GateStep == (\E c \in Conns : \/ Gate!Ask(c) \/ Gate!StartScan(c) \/ Gate!Look(c)
                              \/ Gate!Cut(c) \/ Gate!EndScan(c) \/ Gate!Grant(c)
                              \/ Gate!Deny(c))
            \/ UNCHANGED <<req, Scanned, ceremony, Verdicts>>

LEMMA GateStepIs == GateStep <=> [Gate!Next]_(Gate!vars)
  BY DEF GateStep, Gate!Next, Gate!vars, Scanned, Verdicts

\* What a worker does is nothing to the gate, or the begin, the end or the cut of
\* its own scan.
LEMMA WorkGateStep ==
  ASSUME IInv, OutcomeInv, IInv', NEW w \in Workers, Work(w)
  PROVE  GateStep
<1>0. TypeWorkers /\ TypeHelpers /\ LockInv /\ JobInv /\ EntitledInv /\ HelperInv
  BY DEF IInv, TypeOK
<1>1. ScanFacts /\ ScanFacts'
  BY ScannedIs, ScannedIsNext
<1>2. UNCHANGED <<req, Verdicts>>
  BY DEF Work, TakeRequest, ReadRequest, ReadFails, Admit, LockCamera, ReadCamera,
    CheckCamera, Reap, BackendTimeout, Drain, OutputPanics, Respond, Verdicts
<1>3. CASE /\ UNCHANGED ceremony
           /\ pc[w] \in Ceremony <=> pc'[w] \in Ceremony
           /\ \A v \in Workers : v # w => pc'[v] = pc[v]
           /\ \A v \in Workers : pc[v] \in Ceremony => job'[v] = job[v]
  <2>1. Scanned' = Scanned
    BY <1>1, <1>3, ScanStays
  <2> QED
    BY <1>2, <1>3, <2>1 DEF GateStep
<1>4. CASE TakeRequest(w) \/ ReadFails(w) \/ Respond(w)
  BY <1>0, <1>3, <1>4 DEF TakeRequest, ReadFails, Respond, TypeWorkers, Ceremony
<1>5. CASE ReadRequest(w) \/ Admit(w)
  BY <1>0, <1>3, <1>5 DEF ReadRequest, Admit, Answer, TypeWorkers, Ceremony
<1>6. CASE LockCamera(w) \/ ReadCamera(w) \/ Reap(w)
  BY <1>0, <1>3, <1>6 DEF LockCamera, ReadCamera, Reap, Answer, TypeWorkers, Ceremony
<1>7. CASE CheckCamera(w)
  <2>1. pc[w] = "check" /\ job' = job /\ job[w] \in Conns
    BY <1>0, <1>7 DEF CheckCamera, JobInv, TypeWorkers
  <2>2. CASE Answer(w, "err") /\ UNCHANGED ceremony
    BY <1>0, <1>3, <2>1, <2>2 DEF Answer, TypeWorkers, Ceremony
  <2>3. CASE /\ ceremony' = [ceremony EXCEPT ![job[w]] = "running"]
             /\ pc' = [pc EXCEPT ![w] = "verify"]
    <3>1. \A v \in Workers : pc[v] \notin Ceremony
      BY <1>0, <2>1 DEF LockInv, Locked, Ceremony
    <3>2. Scanned = {} /\ Scanned' = {job[w]}
      BY <1>0, <1>1, <2>1, <2>3, <3>1 DEF ScanFacts, TypeWorkers, Ceremony
    <3>3. req[job[w]] \in Entitled /\ ceremony[job[w]] = "none"
      BY <1>0, <2>1 DEF EntitledInv, Locked, OutcomeInv
    <3>4. PICK c \in Conns : c = job[w]
      BY <1>2, <2>1, <2>3, <3>2, <3>3
    <3>5. Gate!StartScan(c)
      BY <1>2, <2>1, <2>3, <3>2, <3>3, <3>4, GateActions
    <3> QED
      BY <3>5 DEF GateStep
  <2> QED
    BY <1>7, <2>2, <2>3 DEF CheckCamera
<1>8. CASE BackendTimeout(w)
  <2>1. /\ pc[w] = "verify" /\ pc' = [pc EXCEPT ![w] = "abort"] /\ job' = job
        /\ ceremony' = [ceremony EXCEPT ![job[w]] = "cut"]
    BY <1>8 DEF BackendTimeout
  <2>2. Scanned' = Scanned
    BY <1>0, <1>1, <2>1, ScanStays DEF TypeWorkers, Ceremony
  <2>3. /\ Scanned = {job[w]} /\ job[w] \in Conns /\ Verdicts[job[w]] # "granted"
    BY <1>1, <2>1 DEF ScanFacts, Ceremony, Verdicts
  <2>4. PICK c \in Conns : c = job[w]
    BY <1>2, <2>1, <2>2, <2>3
  <2>5. /\ c \in Scanned /\ Verdicts[c] # "granted"
        /\ ceremony' = [ceremony EXCEPT ![c] = "cut"]
        /\ Scanned' \in {Scanned, Scanned \ {c}}
        /\ UNCHANGED <<req, Verdicts>>
    BY <1>2, <2>1, <2>2, <2>3, <2>4
  <2>6. Gate!Cut(c)
    BY <2>5, GateActions
  <2> QED
    BY <2>6 DEF GateStep
<1>9. CASE Drain(w) \/ OutputPanics(w)
  <2>1. /\ pc[w] \in {"drain", "abort"}
        /\ \E s \in {"respond", "dead"} : pc' = [pc EXCEPT ![w] = s]
    BY <1>9 DEF Drain, OutputPanics, Answer
  <2>2. /\ Scanned = {job[w]} /\ job[w] \in Conns /\ Verdicts[job[w]] # "granted"
    BY <1>1, <2>1 DEF ScanFacts, Ceremony, Verdicts
  <2>3. \A v \in Workers : pc'[v] \notin Ceremony
    BY <1>0, <2>1 DEF LockInv, Locked, Ceremony, TypeWorkers
  <2>4. Scanned' = {} /\ Scanned' = Scanned \ {job[w]}
    BY <1>1, <2>2, <2>3 DEF ScanFacts
  <2>5. CASE Drain(w)
    <3>1. ceremony' = ceremony /\ ceremony[job[w]] # "running"
      BY <1>0, <2>1, <2>5 DEF Drain, OutcomeInv, HelperInv, Ceremony
    <3>2. PICK c \in Conns : c = job[w]
      BY <1>2, <2>2, <2>4, <3>1
    <3>3. Gate!EndScan(c)
      BY <1>2, <2>2, <2>4, <3>1, <3>2, GateActions
    <3> QED
      BY <3>3 DEF GateStep
  <2>6. CASE OutputPanics(w)
    <3>1. ceremony' = [ceremony EXCEPT ![job[w]] = "cut"]
      BY <2>6 DEF OutputPanics
    <3>2. PICK c \in Conns : c = job[w]
      BY <1>2, <2>2, <2>4, <3>1
    <3>3. Gate!Cut(c)
      BY <1>2, <2>2, <2>4, <3>1, <3>2, GateActions
    <3> QED
      BY <3>3 DEF GateStep
  <2> QED
    BY <1>9, <2>5, <2>6
<1> QED
  BY <1>4, <1>5, <1>6, <1>7, <1>8, <1>9 DEF Work

\* What a child's helper does is a look, or nothing.
LEMMA HelperGateStep ==
  ASSUME IInv, OutcomeInv, IInv', NEW w \in Workers, Helper(w)
  PROVE  GateStep
<1>0. HelperInv /\ ScanFacts /\ ScanFacts'
  BY ScannedIs, ScannedIsNext DEF IInv
<1>1. UNCHANGED <<req, Verdicts, pc, job>>
  BY DEF Helper, OpenLens, FaceMatches, FaceFails, OrphanExits, Verdicts
<1>2. Scanned' = Scanned
  BY <1>0, <1>1, ScanStays
<1>3. CASE FaceMatches(w) \/ FaceFails(w)
  <2>1. /\ pc[w] = "verify" /\ ceremony[job[w]] = "running"
        /\ \E o \in {"matched", "missed"} : ceremony' = [ceremony EXCEPT ![job[w]] = o]
    BY <1>0, <1>3 DEF FaceMatches, FaceFails, HelperInv, OutcomeInv, Ceremony
  <2>2. Scanned = {job[w]} /\ job[w] \in Conns
    BY <1>0, <2>1 DEF ScanFacts, Ceremony
  <2>3. PICK c \in Conns : c = job[w]
    BY <1>1, <1>2, <2>1, <2>2
  <2>4. /\ c \in Scanned /\ ceremony[c] = "running"
        /\ \E o \in {"matched", "missed"} : ceremony' = [ceremony EXCEPT ![c] = o]
        /\ UNCHANGED <<req, Scanned, Verdicts>>
    BY <1>1, <1>2, <2>1, <2>2, <2>3
  <2>5. Gate!Look(c)
    BY <2>4, GateActions
  <2> QED
    BY <2>5 DEF GateStep
<1>4. CASE OpenLens(w) \/ OrphanExits(w)
  BY <1>1, <1>2, <1>4 DEF OpenLens, OrphanExits, GateStep
<1> QED
  BY <1>3, <1>4 DEF Helper

\* What a client does is its question, its conclusion, or nothing.
LEMMA TalkGateStep ==
  ASSUME IInv, IInv', NEW c \in Conns, Talk(c)
  PROVE  GateStep
<1>0. TypeClients /\ HeldInv /\ MatchInv /\ ScanFacts /\ ScanFacts'
  BY ScannedIs, ScannedIsNext DEF IInv, TypeOK
<1>1. UNCHANGED <<pc, job, ceremony>>
  BY DEF Talk, Connect, ConnectRefused, Send, Receive, GiveUp
<1>2. Scanned' = Scanned
  <2>1. CASE \E w \in Workers : TRUE
    BY <1>0, <1>1, <2>1, ScanStays
  <2>2. CASE ~ \E w \in Workers : TRUE
    BY <2>2 DEF Scanned
  <2> QED
    BY <2>1, <2>2
<1>3. ASSUME NEW s \in {"open", "sent"}, client[c] \in {"idle", "open", "sent"},
             client' = [client EXCEPT ![c] = s]
      PROVE  Verdicts' = Verdicts
  BY <1>0, <1>3 DEF Verdicts, TypeClients
<1>4. ASSUME NEW s \in {"granted", "denied"}, client[c] \in {"idle", "open", "sent"},
             client' = [client EXCEPT ![c] = s]
      PROVE  Verdicts[c] = "none" /\ Verdicts' = [Verdicts EXCEPT ![c] = s]
  BY <1>0, <1>4 DEF Verdicts, TypeClients
<1>5. ASSUME NEW r \in Requests, Connect(c, r) PROVE GateStep
  <2>1. /\ client[c] = "idle" /\ Verdicts' = Verdicts
        /\ req[c] = NoRequest /\ req' = [req EXCEPT ![c] = r]
    BY <1>0, <1>3, <1>5 DEF Connect, HeldInv
  <2>2. Verdicts[c] = "none"
    BY <2>1 DEF Verdicts
  <2>3. Gate!Ask(c)
    BY <1>1, <1>2, <2>1, <2>2, GateActions
  <2> QED
    BY <2>3 DEF GateStep
<1>6. CASE ConnectRefused(c) \/ GiveUp(c) \/ (Receive(c) /\ ~Success(reply[c]))
  <2>1. /\ client[c] \in {"idle", "open", "sent"} /\ UNCHANGED req
        /\ client' = [client EXCEPT ![c] = "denied"]
    BY <1>6 DEF ConnectRefused, GiveUp, Receive
  <2>2. Verdicts[c] = "none" /\ Verdicts' = [Verdicts EXCEPT ![c] = "denied"]
    BY <1>4, <2>1
  <2>3. Gate!Deny(c)
    BY <1>1, <1>2, <2>1, <2>2, GateActions
  <2> QED
    BY <2>3 DEF GateStep
<1>7. CASE Receive(c) /\ Success(reply[c])
  <2>1. /\ client[c] \in {"open", "sent"} /\ UNCHANGED req /\ reply[c] = "ok"
        /\ client' = [client EXCEPT ![c] = "granted"]
    BY <1>7 DEF Receive, Success
  <2>2. Verdicts[c] = "none" /\ Verdicts' = [Verdicts EXCEPT ![c] = "granted"]
    BY <1>4, <2>1
  <2>3. ceremony[c] = "matched"
    BY <1>0, <2>1 DEF MatchInv
  <2>4. c \notin Scanned
    BY <1>0, <2>1 DEF ScanFacts
  <2>5. Gate!Grant(c)
    BY <1>1, <1>2, <2>1, <2>2, <2>3, <2>4, GateActions
  <2> QED
    BY <2>5 DEF GateStep
<1>8. CASE Send(c)
  <2>1. UNCHANGED <<req, Verdicts>>
    BY <1>3, <1>8 DEF Send
  <2> QED
    BY <1>1, <1>2, <2>1 DEF GateStep
<1> QED
  BY <1>5, <1>6, <1>7, <1>8 DEF Talk

\* A crash cuts the scan there is; to everything else the gate is blind.
LEMMA WorldGateStep ==
  ASSUME IInv, IInv', World \/ Accept \/ UNCHANGED vars
  PROVE  GateStep
<1>0. TypeHelpers /\ LockInv /\ JobInv /\ ScanFacts /\ ScanFacts'
  BY ScannedIs, ScannedIsNext DEF IInv, TypeOK
<1>1. UNCHANGED <<req, Verdicts>>
  BY DEF World, Reconfigure, Replug, IntervalPasses, Crash, Restart, Accept, vars,
    Verdicts
<1>2. CASE Crash
  <2>1. Scanned' = {}
    BY <1>0, <1>2 DEF Crash, ScanFacts, Ceremony
  <2>2. CASE \E w \in Workers : pc[w] \in Ceremony
    <3>1. PICK w \in Workers : pc[w] \in Ceremony
      BY <2>2
    <3>2. Scanned = {job[w]} /\ job[w] \in Conns /\ Verdicts[job[w]] # "granted"
      BY <1>0, <3>1 DEF ScanFacts, Verdicts
    <3>3. \A v \in Workers : pc[v] \in Ceremony => v = w
      BY <1>0, <3>1 DEF LockInv, Locked, Ceremony
    <3>4. ceremony' = [ceremony EXCEPT ![job[w]] = "cut"]
      BY <1>0, <1>2, <3>1, <3>2, <3>3 DEF Crash, TypeHelpers
    <3>5. PICK c \in Conns : c = job[w]
      BY <1>1, <2>1, <3>2, <3>4
    <3>6. Gate!Cut(c)
      BY <1>1, <2>1, <3>2, <3>4, <3>5, GateActions
    <3> QED
      BY <3>6 DEF GateStep
  <2>3. CASE \A w \in Workers : pc[w] \notin Ceremony
    <3>1. Scanned = {}
      BY <1>0, <2>3 DEF ScanFacts
    <3>2. ceremony' = ceremony
      BY <1>0, <1>2, <2>3 DEF Crash, TypeHelpers
    <3> QED
      BY <1>1, <2>1, <3>1, <3>2 DEF GateStep
  <2> QED
    BY <2>2, <2>3
<1>3. CASE UNCHANGED <<pc, job, lens, ceremony>>
  BY <1>1, <1>3 DEF GateStep, Scanned
<1>4. Crash \/ UNCHANGED <<pc, job, lens, ceremony>>
  BY DEF World, Reconfigure, Replug, IntervalPasses, Restart, Accept, vars
<1> QED
  BY <1>2, <1>3, <1>4

LEMMA NextGateStep ==
  IInv /\ OutcomeInv /\ IInv' /\ [Next]_vars => [Gate!Next]_(Gate!vars)
<1> SUFFICES ASSUME IInv, OutcomeInv, IInv', [Next]_vars PROVE GateStep
  BY GateStepIs
<1> QED
  BY WorkGateStep, HelperGateStep, TalkGateStep, WorldGateStep DEF Next

\* Seen through the requests, the scans, their outcomes and the clients' verdicts
\* every behaviour of the daemon is one of the face gate (IsFaceGate): one scan at
\* a time, only for a request entitled to it, none twice for a connection, and
\* success only after that connection's match has been read to its end.
THEOREM ImplementsFaceGate == Spec => IsFaceGate
<1>1. Init => Gate!Init
  <2> SUFFICES ASSUME Init PROVE Gate!Init
    OBVIOUS
  <2>1. Scanned = {}
    BY DEF Init, Scanned, Ceremony
  <2>2. Verdicts = [c \in Conns |-> "none"]
    BY DEF Init, Verdicts
  <2> QED
    BY <2>1, <2>2 DEF Init, Gate!Init, Scanned, Verdicts
<1>2. Init => OutcomeInv
  BY DEF Init, OutcomeInv, Ceremony
<1> QED
  BY <1>1, <1>2, InitIInv, NextIInv, NextOutcomeInv, NextGateStep, PTL
    DEF Spec, IsFaceGate, Gate!Spec
=============================================================================
