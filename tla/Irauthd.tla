------------------------------ MODULE Irauthd ------------------------------
(***************************************************************************)
(* The irauthd daemon with the programs around it: PAM clients that        *)
(* connect to its socket, the accept loop with its bounded queue, the      *)
(* worker threads, the camera lock, the pamtester child each ceremony      *)
(* spawns, the Howdy helper that holds the camera open under that child,   *)
(* the administrator who may rebind or replug the camera at any time, and  *)
(* crashes with systemd's restart.                                         *)
(*                                                                         *)
(* One action is one step between two points where another thread,         *)
(* process or file can be observed: a lock, a file read, a process spawn   *)
(* or wait, a socket operation.  A conversation ("connection") is used     *)
(* once.  Texts are reduced to what the code tells apart: the kind of a    *)
(* request, its peer and its user; a camera is its canonical device node.  *)
(***************************************************************************)
EXTENDS Integers, Sequences, FiniteSets

CONSTANTS
  Conns,        \* connections clients may open, each used once
  Workers,      \* request worker threads (REQUEST_WORKERS)
  QueueCap,     \* capacity of the request channel (REQUEST_QUEUE)
  Uids,         \* numeric user ids
  Root,         \* uid 0
  Names,        \* user names a request may carry
  UidOf,        \* /etc/passwd: the uid of a name, NoUid for an unknown one
  OddNames,     \* names valid_username refuses although the protocol allows them
  Requests,     \* the lines clients may send, with the uid of the peer
  Cameras,      \* canonical device nodes
  NoUid, NoConn, NoWorker, NoCamera, NoRequest,
  MaxChanges,   \* bound: camera reconfigurations and replugs
  MaxCrashes    \* bound: crashes of the daemon

Kinds == {"auth", "ping", "status", "bad"}

ASSUME IrauthdAssumption ==
  /\ QueueCap \in Nat \ {0} /\ IsFiniteSet(Workers)
  /\ Root \in Uids
  /\ UidOf \in [Names -> Uids \cup {NoUid}]
  /\ OddNames \subseteq Names
  /\ Requests \subseteq [kind : Kinds, peer : Uids, user : Names]
  /\ MaxChanges \in Nat /\ MaxCrashes \in Nat
  /\ NoUid \notin Uids /\ NoConn \notin Conns /\ NoWorker \notin Workers
  /\ NoCamera \notin Cameras /\ NoRequest \notin Requests

VARIABLES
  client,    \* what each PAM client has come to
  req,       \* the request of each connection, fixed when it connects
  sent,      \* connections whose request line is in the socket
  reply,     \* what the daemon wrote on, or did to, each connection
  backlog,   \* connections the kernel holds for accept()
  queue,     \* the bounded channel from the accept loop to the workers
  pc, job, resp,   \* per worker: where it stands, its connection, its answer
  seen,      \* per worker: the camera it read from Howdy's configuration
  camera,    \* who holds camera_lock
  poisoned,  \* camera_lock was poisoned by a panic
  recent,    \* uids admitted less than MIN_REQUEST_INTERVAL ago
  device,    \* camera in Howdy's configuration, NoCamera when none
  strict,    \* cameras that strict_devices() returns at this moment
  child,     \* per worker: its pamtester process
  lens,      \* per worker: camera its Howdy helper holds open
  up,        \* the daemon runs
  crashes, changes,    \* counters for the two bounds
  ceremony,  \* history: outcome of each connection's face ceremony
  settled    \* history: workers since whose camera read nothing was changed

clientVars == <<client, req, sent>>
socketVars == <<reply, backlog, queue>>
workerVars == <<pc, job, resp, seen>>
lockVars   == <<camera, poisoned, recent>>
worldVars  == <<device, strict, changes>>
helperVars == <<child, lens, ceremony>>
runVars    == <<up, crashes>>
vars == <<clientVars, socketVars, workerVars, lockVars, worldVars, helperVars,
          runVars, settled>>

Steps == {"idle", "read", "admit", "camera", "config", "check",
          "verify", "drain", "abort", "respond", "dead"}
Replies == {"none", "ok", "err", "pong", "ready", "incomplete", "eof"}

\* Steps a worker takes with the camera_lock guard alive, and the ones among
\* them in which its child process exists.
Locked    == {"config", "check", "verify", "drain", "abort"}
Ceremony  == {"verify", "drain", "abort"}

TypeClients ==
  /\ client \in [Conns -> {"idle", "open", "sent", "granted", "denied"}]
  /\ req \in [Conns -> Requests \cup {NoRequest}]
  /\ sent \subseteq Conns
TypeSockets ==
  /\ reply \in [Conns -> Replies]
  /\ backlog \in Seq(Conns)
  /\ queue \in Seq(Conns) /\ Len(queue) <= QueueCap
TypeWorkers ==
  /\ pc \in [Workers -> Steps]
  /\ job \in [Workers -> Conns \cup {NoConn}]
  /\ resp \in [Workers -> Replies]
  /\ seen \in [Workers -> Cameras \cup {NoCamera}]
TypeLocks ==
  /\ camera \in Workers \cup {NoWorker}
  /\ poisoned \in BOOLEAN
  /\ recent \subseteq Uids
TypeWorld ==
  /\ device \in Cameras \cup {NoCamera}
  /\ strict \subseteq Cameras
  /\ changes \in 0..MaxChanges
TypeHelpers ==
  /\ child \in [Workers -> {"none", "running", "passed", "failed", "killed"}]
  /\ lens \in [Workers -> Cameras \cup {NoCamera}]
  /\ ceremony \in [Conns -> {"none", "running", "matched", "missed", "cut"}]
TypeRun ==
  /\ up \in BOOLEAN
  /\ crashes \in 0..MaxCrashes
  /\ settled \subseteq Workers

TypeOK == /\ TypeClients /\ TypeSockets /\ TypeWorkers /\ TypeLocks
          /\ TypeWorld /\ TypeHelpers /\ TypeRun

Init ==
  /\ client = [c \in Conns |-> "idle"]
  /\ req = [c \in Conns |-> NoRequest]
  /\ sent = {}
  /\ reply = [c \in Conns |-> "none"]
  /\ backlog = <<>> /\ queue = <<>>
  /\ pc = [w \in Workers |-> "idle"]
  /\ job = [w \in Workers |-> NoConn]
  /\ resp = [w \in Workers |-> "none"]
  /\ seen = [w \in Workers |-> NoCamera]
  /\ camera = NoWorker /\ poisoned = FALSE /\ recent = {}
  /\ device \in Cameras \cup {NoCamera}
  /\ strict \in SUBSET Cameras
  /\ child = [w \in Workers |-> "none"]
  /\ lens = [w \in Workers |-> NoCamera]
  /\ up = TRUE /\ crashes = 0 /\ changes = 0
  /\ ceremony = [c \in Conns |-> "none"]
  /\ settled = {}

-----------------------------------------------------------------------------
(* Clients: request_auth of pam_irauth, daemon_request of irauthctl.        *)

\* The client connects; the kernel records its uid and queues it for accept().
Connect(c, r) ==
  /\ up /\ client[c] = "idle"
  /\ client' = [client EXCEPT ![c] = "open"]
  /\ req' = [req EXCEPT ![c] = r]
  /\ backlog' = Append(backlog, c)
  /\ UNCHANGED <<sent, reply, queue, workerVars, lockVars, worldVars,
                 helperVars, runVars, settled>>

\* Nobody listens: connect() fails and the module answers PAM_AUTH_ERR.
ConnectRefused(c) ==
  /\ ~up /\ client[c] = "idle"
  /\ client' = [client EXCEPT ![c] = "denied"]
  /\ UNCHANGED <<req, sent, socketVars, workerVars, lockVars, worldVars,
                 helperVars, runVars, settled>>

\* The request line is written before the daemon has accepted or read.
Send(c) ==
  /\ client[c] = "open" /\ reply[c] # "eof"
  /\ client' = [client EXCEPT ![c] = "sent"]
  /\ sent' = sent \cup {c}
  /\ UNCHANGED <<req, socketVars, workerVars, lockVars, worldVars, helperVars,
                 runVars, settled>>

\* Only a line that starts with OK lets the PAM module return PAM_SUCCESS.
Success(answer) == answer = "ok"

Receive(c) ==
  /\ client[c] \in {"open", "sent"} /\ reply[c] # "none"
  /\ client' = [client EXCEPT ![c] =
                  IF Success(reply[c]) THEN "granted" ELSE "denied"]
  /\ UNCHANGED <<req, sent, socketVars, workerVars, lockVars, worldVars,
                 helperVars, runVars, settled>>

\* The 35 s read timeout, or the end of the process that carries the module.
\* What the daemon holds of the connection is not withdrawn.
GiveUp(c) ==
  /\ client[c] \in {"open", "sent"}
  /\ client' = [client EXCEPT ![c] = "denied"]
  /\ UNCHANGED <<req, sent, socketVars, workerVars, lockVars, worldVars,
                 helperVars, runVars, settled>>

-----------------------------------------------------------------------------
(* The accept loop of run().                                                *)

QueueFull == Len(queue) >= QueueCap

\* accept() then try_send(): a connection that does not fit is dropped.  The
\* Disconnected branch is unreachable: run() itself keeps the receiver alive.
Accept ==
  /\ up /\ backlog # <<>>
  /\ backlog' = Tail(backlog)
  /\ IF QueueFull
       THEN /\ reply' = [reply EXCEPT ![Head(backlog)] = "eof"]
            /\ UNCHANGED queue
       ELSE /\ queue' = Append(queue, Head(backlog))
            /\ UNCHANGED reply
  /\ UNCHANGED <<clientVars, workerVars, lockVars, worldVars, helperVars,
                 runVars, settled>>

-----------------------------------------------------------------------------
(* A worker thread: receiver.recv(), handle(), authenticate().              *)

RestPeeked(q) == q
Rest(q) == Tail(q)

\* lock() and recv(): the receiver lock is dropped before handle() starts.
TakeRequest(w) ==
  /\ up /\ pc[w] = "idle" /\ queue # <<>>
  /\ pc' = [pc EXCEPT ![w] = "read"]
  /\ job' = [job EXCEPT ![w] = Head(queue)]
  /\ queue' = Rest(queue)
  /\ UNCHANGED <<clientVars, reply, backlog, resp, seen, lockVars, worldVars,
                 helperVars, runVars, settled>>

\* The worker has its answer and goes on to write it.
Answer(w, r) ==
  /\ pc' = [pc EXCEPT ![w] = "respond"]
  /\ resp' = [resp EXCEPT ![w] = r]

\* status(): advisory, read without the camera lock.
StatusReplies ==
  IF device \in strict THEN {"ready", "incomplete"} ELSE {"incomplete"}

\* read_line() and decode_request(): the reply to everything but AUTH is ready
\* at once.  A peer that has closed without a line reads as an unterminated
\* request.
ReadRequest(w) ==
  /\ pc[w] = "read"
  /\ LET c == job[w] IN
       \/ /\ c \in sent /\ req[c].kind = "auth"
          /\ pc' = [pc EXCEPT ![w] = "admit"] /\ UNCHANGED resp
       \/ c \in sent /\ req[c].kind = "ping" /\ Answer(w, "pong")
       \/ /\ c \in sent /\ req[c].kind = "status"
          /\ \E r \in StatusReplies : Answer(w, r)
       \/ c \in sent /\ req[c].kind = "bad" /\ Answer(w, "err")
       \/ c \notin sent /\ client[c] = "denied" /\ Answer(w, "err")
  /\ UNCHANGED <<clientVars, socketVars, job, seen, lockVars, worldVars,
                 helperVars, runVars, settled>>

\* The 5 s read timeout, or a line that is not UTF-8: handle() returns an error
\* and drops the stream without a reply.
ReadFails(w) ==
  /\ pc[w] = "read"
  /\ job[w] \in sent => req[job[w]].kind = "bad"
  /\ reply' = [reply EXCEPT ![job[w]] = "eof"]
  /\ pc' = [pc EXCEPT ![w] = "idle"]
  /\ job' = [job EXCEPT ![w] = NoConn]
  /\ UNCHANGED <<clientVars, backlog, queue, resp, seen, lockVars, worldVars,
                 helperVars, runVars, settled>>

MayAuthenticateAnyone(peer, target) == peer \in Uids
MayAuthenticate(peer, target) == peer = Root \/ peer = target

\* authenticate() up to the camera lock; the rate limiter keys on the peer.
Admit(w) ==
  /\ pc[w] = "admit"
  /\ LET r == req[job[w]]
         target == UidOf[r.user]
     IN \/ /\ target = NoUid \/ ~MayAuthenticate(r.peer, target)
           /\ Answer(w, "err") /\ UNCHANGED recent
        \/ /\ target # NoUid /\ MayAuthenticate(r.peer, target)
           /\ r.peer \in recent
           /\ Answer(w, "err") /\ UNCHANGED recent
        \/ /\ target # NoUid /\ MayAuthenticate(r.peer, target)
           /\ r.peer \notin recent
           /\ recent' = recent \cup {r.peer}
           /\ pc' = [pc EXCEPT ![w] = "camera"] /\ UNCHANGED resp
  /\ UNCHANGED <<clientVars, socketVars, job, seen, camera, poisoned,
                 worldVars, helperVars, runVars, settled>>

CameraFree == camera = NoWorker

\* camera_lock.lock(): a poisoned lock is an error to whoever takes it.
LockCamera(w) ==
  /\ pc[w] = "camera" /\ CameraFree
  /\ \/ poisoned /\ Answer(w, "err") /\ UNCHANGED camera
     \/ /\ ~poisoned
        /\ camera' = w
        /\ pc' = [pc EXCEPT ![w] = "config"] /\ UNCHANGED resp
  /\ UNCHANGED <<clientVars, socketVars, job, seen, poisoned, recent,
                 worldVars, helperVars, runVars, settled>>

\* The guard is dropped when authenticate() returns.
ReleaseForgotten == UNCHANGED camera
ReleaseCamera == camera' = NoWorker

\* configured_camera(): nothing configured, or a configuration that cannot be
\* read, ends the request.
ReadCamera(w) ==
  /\ pc[w] = "config"
  /\ \/ Answer(w, "err") /\ ReleaseCamera /\ UNCHANGED <<seen, settled>>
     \/ /\ device # NoCamera
        /\ seen' = [seen EXCEPT ![w] = device]
        /\ settled' = settled \cup {w}
        /\ pc' = [pc EXCEPT ![w] = "check"] /\ UNCHANGED <<resp, camera>>
  /\ UNCHANGED <<clientVars, socketVars, job, poisoned, recent, worldVars,
                 helperVars, runVars>>

StrictDeviceAny(d) == d \in Cameras
StrictDevice(d) == d \in strict

\* strict_device_for_path() and, when it finds a strict device,
\* Backend::authenticate up to the spawn of pamtester.  Both may fail.
CheckCamera(w) ==
  /\ pc[w] = "check"
  /\ seen' = [seen EXCEPT ![w] = NoCamera]    \* not used any more
  /\ \/ /\ Answer(w, "err") /\ ReleaseCamera
        /\ settled' = settled \ {w}
        /\ UNCHANGED <<child, ceremony>>
     \/ /\ StrictDevice(seen[w]) /\ req[job[w]].user \notin OddNames
        /\ child' = [child EXCEPT ![w] = "running"]
        /\ ceremony' = [ceremony EXCEPT ![job[w]] = "running"]
        /\ pc' = [pc EXCEPT ![w] = "verify"]
        /\ UNCHANGED <<resp, camera, settled>>
  /\ UNCHANGED <<clientVars, socketVars, job, poisoned, recent,
                 worldVars, lens, runVars>>

\* try_wait() sees that pamtester has exited.  Assumed: neither it nor the read of
\* the pipes fails, for their `?` would release the lock before the helper is done.
Reap(w) ==
  /\ pc[w] = "verify" /\ child[w] \in {"passed", "failed"}
  /\ pc' = [pc EXCEPT ![w] = "drain"]
  /\ UNCHANGED <<clientVars, socketVars, job, resp, seen, lockVars, worldVars,
                 helperVars, runVars, settled>>

KillForgotten(w) == UNCHANGED child
Kill(w) == child' = [child EXCEPT ![w] = IF @ = "running" THEN "killed" ELSE @]

\* 30 s have passed since the last try_wait() saw it running: kill it.  It may
\* have exited in between; its result is not looked at any more.
BackendTimeout(w) ==
  /\ pc[w] = "verify"
  /\ Kill(w)
  /\ ceremony' = [ceremony EXCEPT ![job[w]] = "cut"]
  /\ pc' = [pc EXCEPT ![w] = "abort"]
  /\ UNCHANGED <<clientVars, socketVars, job, resp, seen, lockVars, worldVars,
                 lens, runVars, settled>>

\* wait_with_output() reads the pipes to their end, and the helper inherited
\* them: only when nothing holds them does the worker go on.
PipeClosedByKill(w) == lens[w] = NoCamera \/ child[w] = "killed"
PipeClosed(w) == lens[w] = NoCamera

VerdictLate(w) == IF child[w] = "passed" THEN "ok" ELSE "err"
Verdict(w) == IF pc[w] = "drain" /\ child[w] = "passed" THEN "ok" ELSE "err"

Drain(w) ==
  /\ pc[w] \in {"drain", "abort"} /\ PipeClosed(w)
  /\ Answer(w, Verdict(w)) /\ ReleaseCamera
  /\ child' = [child EXCEPT ![w] = "none"]
  /\ settled' = settled \ {w}
  /\ UNCHANGED <<clientVars, socketVars, job, seen, poisoned, recent,
                 worldVars, lens, ceremony, runVars>>

\* The state of a lock whose holder panics.
PoisonIgnored == UNCHANGED poisoned
Poison == poisoned' = TRUE

\* combined_output() cuts at byte 512 and panics inside a character.  The
\* thread ends; unwinding drops the stream and poisons the camera lock.
OutputPanics(w) ==
  /\ pc[w] \in {"drain", "abort"} /\ PipeClosed(w)
  /\ pc' = [pc EXCEPT ![w] = "dead"]
  /\ reply' = [reply EXCEPT ![job[w]] = "eof"]
  /\ job' = [job EXCEPT ![w] = NoConn]
  /\ child' = [child EXCEPT ![w] = "none"]
  /\ ceremony' = [ceremony EXCEPT ![job[w]] = "cut"]
  /\ ReleaseCamera /\ Poison
  /\ settled' = settled \ {w}
  /\ UNCHANGED <<clientVars, backlog, queue, resp, seen, recent, worldVars,
                 lens, runVars>>

\* write_all() of the encoded response, then the stream is dropped.
Respond(w) ==
  /\ pc[w] = "respond"
  /\ reply' = [reply EXCEPT ![job[w]] = resp[w]]
  /\ pc' = [pc EXCEPT ![w] = "idle"]
  /\ job' = [job EXCEPT ![w] = NoConn]
  /\ resp' = [resp EXCEPT ![w] = "none"]
  /\ UNCHANGED <<clientVars, backlog, queue, seen, lockVars, worldVars,
                 helperVars, runVars, settled>>

-----------------------------------------------------------------------------
(* pamtester and the Howdy helper below it (external).                      *)

\* The helper reads Howdy's configuration itself and opens that camera.
OpenLens(w) ==
  /\ child[w] = "running" /\ lens[w] = NoCamera /\ device # NoCamera
  /\ lens' = [lens EXCEPT ![w] = device]
  /\ UNCHANGED <<clientVars, socketVars, workerVars, lockVars, worldVars,
                 child, ceremony, runVars, settled>>

\* The helper recognises the face and exits, then pamtester exits with 0.
FaceMatches(w) ==
  /\ child[w] = "running" /\ lens[w] # NoCamera
  /\ child' = [child EXCEPT ![w] = "passed"]
  /\ lens' = [lens EXCEPT ![w] = NoCamera]
  /\ ceremony' = [ceremony EXCEPT ![job[w]] = "matched"]
  /\ UNCHANGED <<clientVars, socketVars, workerVars, lockVars, worldVars,
                 runVars, settled>>

\* No match, or the PAM stack fails before or after the camera is opened.
FaceFails(w) ==
  /\ child[w] = "running"
  /\ child' = [child EXCEPT ![w] = "failed"]
  /\ lens' = [lens EXCEPT ![w] = NoCamera]
  /\ ceremony' = [ceremony EXCEPT ![job[w]] = "missed"]
  /\ UNCHANGED <<clientVars, socketVars, workerVars, lockVars, worldVars,
                 runVars, settled>>

\* child.kill() reaches pamtester only: its helper ends in its own time.
OrphanExits(w) ==
  /\ child[w] = "killed" /\ lens[w] # NoCamera
  /\ lens' = [lens EXCEPT ![w] = NoCamera]
  /\ UNCHANGED <<clientVars, socketVars, workerVars, lockVars, worldVars,
                 child, ceremony, runVars, settled>>

-----------------------------------------------------------------------------
(* The world.                                                               *)

\* Howdy's configuration is edited, by hand or by bind_camera().
Reconfigure(d) ==
  /\ changes < MaxChanges /\ d # device
  /\ device' = d /\ settled' = {} /\ changes' = changes + 1
  /\ UNCHANGED <<clientVars, socketVars, workerVars, lockVars, strict,
                 helperVars, runVars>>

\* Cameras come and go, or a node comes back as another camera.
Replug(s) ==
  /\ changes < MaxChanges /\ s # strict
  /\ strict' = s /\ settled' = {} /\ changes' = changes + 1
  /\ UNCHANGED <<clientVars, socketVars, workerVars, lockVars, device,
                 helperVars, runVars>>

\* MIN_REQUEST_INTERVAL has passed since the last admission of u.
IntervalPasses(u) ==
  /\ u \in recent
  /\ recent' = recent \ {u}
  /\ UNCHANGED <<clientVars, socketVars, workerVars, camera, poisoned,
                 worldVars, helperVars, runVars, settled>>

InHand == {job[w] : w \in Workers} \ {NoConn}
Held == {backlog[i] : i \in DOMAIN backlog} \cup {queue[i] : i \in DOMAIN queue}
          \cup InHand

\* The process dies; every stream closes, and systemd ends what is left of
\* its control group, the helpers included.
Crash ==
  /\ up /\ crashes < MaxCrashes
  /\ up' = FALSE /\ crashes' = crashes + 1
  /\ reply' = [c \in Conns |-> IF c \in Held THEN "eof" ELSE reply[c]]
  /\ backlog' = <<>> /\ queue' = <<>>
  /\ ceremony' = [c \in Conns |->
       IF \E w \in Workers : job[w] = c /\ pc[w] \in Ceremony
         THEN "cut" ELSE ceremony[c]]
  /\ pc' = [w \in Workers |-> "idle"]
  /\ job' = [w \in Workers |-> NoConn]
  /\ resp' = [w \in Workers |-> "none"]
  /\ child' = [w \in Workers |-> "none"]
  /\ lens' = [w \in Workers |-> NoCamera]
  /\ seen' = [w \in Workers |-> NoCamera]
  /\ camera' = NoWorker /\ poisoned' = FALSE /\ recent' = {}
  /\ settled' = {}
  /\ UNCHANGED <<clientVars, worldVars>>

\* Restart=on-failure: run() removes the old socket and binds a new one.
Restart ==
  /\ ~up /\ up' = TRUE
  /\ UNCHANGED <<clientVars, socketVars, workerVars, lockVars, worldVars,
                 helperVars, crashes, settled>>

-----------------------------------------------------------------------------
Work(w) ==
  \/ TakeRequest(w) \/ ReadRequest(w) \/ ReadFails(w) \/ Admit(w)
  \/ LockCamera(w) \/ ReadCamera(w) \/ CheckCamera(w) \/ Reap(w)
  \/ BackendTimeout(w) \/ Drain(w) \/ OutputPanics(w) \/ Respond(w)

Helper(w) == OpenLens(w) \/ FaceMatches(w) \/ FaceFails(w) \/ OrphanExits(w)

Talk(c) ==
  \/ \E r \in Requests : Connect(c, r)
  \/ ConnectRefused(c) \/ Send(c) \/ Receive(c) \/ GiveUp(c)

World ==
  \/ \E d \in Cameras \cup {NoCamera} : Reconfigure(d)
  \/ \E s \in SUBSET Cameras : Replug(s)
  \/ \E u \in Uids : IntervalPasses(u)
  \/ Crash \/ Restart

Next ==
  \/ Accept
  \/ \E w \in Workers : Work(w) \/ Helper(w)
  \/ \E c \in Conns : Talk(c)
  \/ World

Spec == Init /\ [][Next]_vars

\* The threads of the daemon run: the accept loop, every worker once it has a
\* request, and some waiting worker whenever the queue or the camera lock can
\* be had (neither Mutex is fair to one thread).  Timeouts fire.
DaemonFairness ==
  /\ WF_vars(Accept)
  /\ WF_vars(\E w \in Workers : TakeRequest(w))
  /\ WF_vars(\E w \in Workers : LockCamera(w))
  /\ \A w \in Workers :
       /\ WF_vars(ReadRequest(w) \/ ReadFails(w))
       /\ WF_vars(Admit(w)) /\ WF_vars(ReadCamera(w)) /\ WF_vars(CheckCamera(w))
       /\ WF_vars(Reap(w) \/ BackendTimeout(w))
       /\ WF_vars(Drain(w) \/ OutputPanics(w)) /\ WF_vars(Respond(w))

\* A client that has sent its request reads what comes back.
ClientFairness == \A c \in Conns : WF_vars(Receive(c))

\* A helper whose pamtester was killed ends by itself: Howdy's own timeout,
\* which nothing in this repository sets or checks.
HelperFairness == \A w \in Workers : WF_vars(OrphanExits(w))

FairSpec == Spec /\ DaemonFairness /\ ClientFairness /\ HelperFairness
-----------------------------------------------------------------------------
(* What the daemon promises.                                                *)

\* A request may open a session only for the account that makes it, or for
\* root's own use of any account (SECURITY.md).
Entitled == {r \in Requests : /\ r.kind = "auth" /\ UidOf[r.user] # NoUid
                              /\ r.peer \in {Root, UidOf[r.user]}}

\* pam_irauth answers PAM_SUCCESS only for a request its peer was entitled to
\* make, whose own ceremony ended in a recognised face: not another
\* connection's ceremony, not one that was cut short by the 30 s timeout, a
\* panic or a crash, and not one still running.
GrantJustified ==
  \A c \in Conns : client[c] = "granted" =>
    req[c] \in Entitled /\ ceremony[c] = "matched"

\* camera_lock serialises ceremonies: at any time at most one helper started by
\* the daemon has a camera open, and it belongs to the worker that holds the
\* lock.  A pamtester that was killed leaves its helper behind, so this rests
\* on wait_with_output() and not on kill().
SerializedCamera ==
  \A w \in Workers : lens[w] # NoCamera => camera = w

\* Between the policy check in authenticate() and the capture, as long as
\* nobody reconfigures or replugs a camera, the helper opens only a camera that
\* strict_devices() returns.
SettledScanIsStrict ==
  \A w \in Workers : lens[w] # NoCamera /\ w \in settled => lens[w] \in strict

\* A panic in a ceremony fails closed and stops at one worker: whoever takes
\* camera_lock after it gets an error, so no further ceremony runs before a
\* restart, and the other workers live on to answer.
PanicContained ==
  /\ poisoned => \A w \in Workers : pc[w] \notin Locked
  /\ \A v, w \in Workers : pc[v] = "dead" /\ pc[w] = "dead" => v = w
  /\ (\E w \in Workers : pc[w] = "dead") => poisoned

\* The hand-over from accept() through the channel to a worker neither loses a
\* connection nor serves one twice: what the daemon holds are exactly the
\* connections that were made and have no answer, each in one place.
HandedOverOnce ==
  /\ Held = {c \in Conns : req[c] # NoRequest /\ reply[c] = "none"}
  /\ Len(backlog) + Len(queue) + Cardinality({w \in Workers : job[w] # NoConn})
       = Cardinality(Held)

\* Every connection the daemon holds is answered, dropped or closed in the end,
\* also when the ceremony before it is cut, a worker panics or the daemon dies.
EveryConnectionServed == \A c \in Conns : c \in Held ~> reply[c] # "none"

\* A client that has sent its request gets to a verdict.
EveryClientDecided ==
  \A c \in Conns : client[c] = "sent" ~> client[c] \in {"granted", "denied"}

\* SECURITY.md, item 1, without its unwritten premise that the configuration
\* stays the same: whatever camera a helper opens is strict when it opens it.
EveryScanIsStrict ==
  [][\A w \in Workers : lens[w] = NoCamera /\ lens'[w] # NoCamera
       => lens'[w] \in strict]_vars

\* The abstract face gate (FaceGate.tla) that the daemon implements.
Gate == INSTANCE FaceGate WITH
  asked    <- req,
  scanning <- {job[w] : w \in {v \in Workers : pc[v] \in Ceremony
                                             \/ lens[v] # NoCamera}},
  outcome  <- ceremony,
  verdict  <- [c \in Conns |-> IF client[c] \in {"granted", "denied"}
                                 THEN client[c] ELSE "none"]

\* The daemon with its clients is a face gate: one scan at a time, only for a
\* request entitled to it, at most one scan per connection, and a verdict that
\* is never taken back and positive only after a match.
IsFaceGate == Gate!Spec
-----------------------------------------------------------------------------
(* An inductive invariant.  GrantJustified is not inductive: that an answer   *)
(* belongs to the connection it is written on rests on every connection being *)
(* in one place, and that a result belongs to the child it is read from on    *)
(* the lock, the child and the worker going together.                         *)

\* camera_lock is held exactly by the worker inside the guarded part.
LockInv == \A w \in Workers : pc[w] \in Locked <=> camera = w

\* A child exists only during its worker's ceremony, a helper only under a
\* child that runs or was killed, and one that runs has not been given up.
HelperInv == \A w \in Workers :
  /\ child[w] # "none" => pc[w] \in Ceremony
  /\ child[w] = "running" => pc[w] = "verify"
  /\ lens[w] # NoCamera => child[w] \in {"running", "killed"}

\* A worker has a connection exactly when it is busy with one.
JobInv == \A w \in Workers : pc[w] \in {"idle", "dead"} <=> job[w] = NoConn

\* Every connection is in at most one place.
PlaceInv ==
  /\ \A i, j \in DOMAIN backlog : backlog[i] = backlog[j] => i = j
  /\ \A i, j \in DOMAIN queue : queue[i] = queue[j] => i = j
  /\ \A i \in DOMAIN backlog, j \in DOMAIN queue : backlog[i] # queue[j]
  /\ \A i \in DOMAIN backlog, w \in Workers : backlog[i] # job[w]
  /\ \A i \in DOMAIN queue, w \in Workers : queue[i] # job[w]
  /\ \A v, w \in Workers : job[v] # NoConn /\ job[v] = job[w] => v = w

\* What the daemon holds has a request and no answer yet.
Waiting(c) == req[c] \in Requests /\ reply[c] = "none" /\ client[c] # "idle"
HeldInv ==
  /\ \A i \in DOMAIN backlog : Waiting(backlog[i]) /\ ceremony[backlog[i]] = "none"
  /\ \A i \in DOMAIN queue : Waiting(queue[i]) /\ ceremony[queue[i]] = "none"
  /\ \A w \in Workers : job[w] # NoConn => Waiting(job[w])
  /\ \A c \in Conns : client[c] = "idle" =>
       req[c] = NoRequest /\ reply[c] = "none" /\ ceremony[c] = "none"

\* Who is past Admit is entitled to a ceremony; the peer's uid and the user do
\* not change afterwards.
EntitledInv ==
  /\ \A w \in Workers : pc[w] = "admit" => req[job[w]].kind = "auth"
  /\ \A w \in Workers : pc[w] \in Locked \cup {"camera"} => req[job[w]] \in Entitled
  /\ \A c \in Conns : ceremony[c] # "none" => req[c] \in Entitled

\* A positive result, wherever it is on its way to the client, stands for the
\* matched ceremony of that connection.
MatchInv ==
  /\ \A w \in Workers :
       /\ pc[w] \in {"verify", "drain"} /\ child[w] = "passed"
            => ceremony[job[w]] = "matched"
       /\ resp[w] = "ok" => pc[w] = "respond" /\ ceremony[job[w]] = "matched"
  /\ \A c \in Conns : reply[c] = "ok" => ceremony[c] = "matched"
  /\ \A c \in Conns : client[c] = "granted" => reply[c] = "ok"

IInv == /\ TypeOK /\ LockInv /\ HelperInv /\ JobInv /\ PlaceInv /\ HeldInv
        /\ EntitledInv /\ MatchInv /\ PanicContained
=============================================================================
