---------------------------- MODULE JobLifecycle ----------------------------
(***************************************************************************)
(* The job lifecycle and dispatch protocol of the control plane and one    *)
(* agent, end to end:                                                      *)
(*                                                                         *)
(*   control  JOB_CREATED  -> ResourceRepository locks the targets,        *)
(*                            JobService saves the job, AgentGateway       *)
(*                            pushes it on the agent socket (job:new);     *)
(*   agent    'new.job'    -> AgentCommandService de-duplicates and        *)
(*                            queues it; ExecutorService.runSerial (cron,  *)
(*                            every second, not awaited) takes the next    *)
(*                            admissible job, reports PROCESSING, runs the *)
(*                            playbook and reports the outcome (job:save); *)
(*            runScan      -> a SCAN job created on the agent, run at once;*)
(*   control  job:save     -> JobService.handleReturned saves the copy;    *)
(*                            a done job fires JOB_DONE, which unlocks its *)
(*                            targets;                                     *)
(*            triggerRun   -> (cron, every 5 s) expired jobs are FAILED.   *)
(*                                                                         *)
(* The socket may drop (the messages on the wire are lost, the agent's     *)
(* emits while it is down are buffered by reference until it reconnects)  *)
(* and the agent process                                                   *)
(* may restart (its queue, busy list and running children are lost).      *)
(* Time is abstracted to one event per job: its TTL elapses.              *)
(***************************************************************************)
EXTENDS Naturals, Sequences, SequencesExt, FiniteSets

CONSTANTS
  CtlJobs,         \* ids of jobs created by the API services
  TestJobs,        \* ids of TEST jobs started by TestService.start
  ScanJobs,        \* ids of SCAN jobs created by the agent's runScan cron
  Res,             \* resource ids a job may target
  Tgt,             \* Tgt[j]: the resource ids in job j's `tgt`; {} = no tgt
  Type,            \* Type[j]: job j's JobType
  TestOf,          \* TestOf[j]: the TEST job started when j returns OK, or NONE
  MaxDisconnects,  \* bound on socket drops
  MaxRestarts,     \* bound on agent process restarts
  NONE             \* absent entry of a map

Jobs == CtlJobs \cup TestJobs \cup ScanJobs

\* JobType (IJob.ts).
JobTypes == {"UNKNOWN", "SCAN", "EXPORT_ADD_NVME", "EXPORT_RM_NVME", "EXPORT_ADD_SCST",
             "EXPORT_RM_SCST", "EXPORT_ADD_NFS", "EXPORT_RM_NFS", "EXPORT_ADD_ISCSI",
             "TEST", "EXPORT_RM_ISCSI", "FS", "NETDEV_CONF"}

\* The job types the API services create: IscsiService.connect/disconnect,
\* NvmeofService.connect/disconnect, NfsService.mount/unmount and
\* FsService.mount. (NetworkService.configure has no caller.)
IscsiJobTypes == {"EXPORT_ADD_ISCSI", "EXPORT_RM_ISCSI"}
NvmeJobTypes  == {"EXPORT_ADD_NVME", "EXPORT_RM_NVME"}
NfsJobTypes   == {"EXPORT_ADD_NFS", "EXPORT_RM_NFS"}
FsJobTypes    == {"FS"}
ApiJobTypes   == IscsiJobTypes \cup NvmeJobTypes \cup NfsJobTypes \cup FsJobTypes

\* toDomain: the types it turns back into a Job; any other throws.
DomainTypes == JobTypes \ {"UNKNOWN", "EXPORT_ADD_SCST", "EXPORT_RM_SCST", "NETDEV_CONF"}

\* The type events with a listener that starts a TEST job on an OK job:
\* IscsiService and NvmeofService.handleExportAddIscsiEvent.
StartsTest == {"EXPORT_ADD_ISCSI", "EXPORT_ADD_NVME"}

ASSUME CtlJobs \cap TestJobs = {} /\ (CtlJobs \cup TestJobs) \cap ScanJobs = {}
ASSUME Tgt \in [Jobs -> SUBSET Res]
ASSUME \A s \in ScanJobs \cup TestJobs : Tgt[s] = {}
ASSUME Type \in [Jobs -> DomainTypes]
ASSUME /\ \A j \in CtlJobs : Type[j] \in ApiJobTypes
       /\ \A t \in TestJobs : Type[t] = "TEST"
       /\ \A s \in ScanJobs : Type[s] = "SCAN"
ASSUME /\ TestOf \in [CtlJobs -> TestJobs \cup {NONE}]
       /\ \A j \in CtlJobs : (TestOf[j] # NONE) <=> Type[j] \in StartsTest
       /\ \A j, k \in CtlJobs : j # k /\ TestOf[j] # NONE => TestOf[j] # TestOf[k]
ASSUME MaxDisconnects \in Nat /\ MaxRestarts \in Nat

\* JobStatus (IJob.ts); done() holds of the last two.
Status == {"NEW", "PROCESSING", "OK", "FAILED"}
Done   == {"OK", "FAILED"}

Msg == [id : Jobs, st : Status]   \* a job copy on the wire: only its status matters here

VARIABLES
  active,      \* JobRepository.jobs_     : job id -> status, or NONE
  archive,     \* JobRepository.jobsDone_ : job id -> status, or NONE
  locked,      \* StorageResource.locked  for every resource id
  created,     \* the jobs that exist (constructed on control or agent)
  expired,     \* the jobs whose created + ttl < Date.now()
  sock,        \* the agent's current socket (numbered in order of creation), 0 if none
  agents,      \* AgentGateway.agents: the sockets on the gateway's list, in order
  closing,     \* sockets closed on the agent whose server-side disconnect is pending
  toAgent,     \* job:new packets in flight, control -> agent
  toControl,   \* job:save packets encoded and in flight, agent -> control
  sendBuffer,  \* socket.io-client Socket.sendBuffer: the job objects of the
               \* job:save emits made while disconnected, not yet encoded
  queue,       \* AgentCommandService.newCommands
  busy,        \* AgentCommandService.busyResources
  running,     \* jobs whose playbook child process is running on the agent
  exitedOk,    \* history: jobs whose playbook exited with status 0
  disconnects, \* number of socket drops so far
  restarts     \* number of agent restarts so far

ctlVars   == <<active, archive, locked>>
agentVars == <<queue, busy, running>>
sockVars  == <<sock, agents, closing>>
netVars   == <<sockVars, toAgent, toControl, sendBuffer>>
histVars  == <<created, expired, exitedOk, disconnects, restarts>>
\* The agent's socket is up.
Connected == sock # 0

\* Each reconnection opens a new socket, after a drop or a restart.
MaxSockets == 1 + MaxDisconnects + MaxRestarts
NextSock   == 1 + disconnects + restarts

vars      == <<ctlVars, agentVars, netVars, histVars>>

TypeOK ==
  /\ active  \in [Jobs -> Status \cup {NONE}]
  /\ archive \in [Jobs -> Status \cup {NONE}]
  /\ locked  \in [Res -> BOOLEAN]
  /\ created \subseteq Jobs /\ expired \subseteq created
  /\ sock \in 0..MaxSockets /\ agents \in Seq(1..MaxSockets) /\ closing \subseteq 1..MaxSockets
  /\ toAgent \in Seq(CtlJobs \cup TestJobs) /\ toControl \in Seq(Msg)
  /\ sendBuffer \in Seq(Jobs)
  /\ queue \in Seq(Jobs) /\ busy \subseteq Res /\ running \subseteq Jobs
  /\ exitedOk \subseteq Jobs
  /\ disconnects \in 0..MaxDisconnects /\ restarts \in 0..MaxRestarts

Init ==
  /\ active = [j \in Jobs |-> NONE]
  /\ archive = [j \in Jobs |-> NONE]
  /\ locked = [r \in Res |-> FALSE]
  /\ created = {} /\ expired = {}
  /\ sock = 1 /\ agents = <<1>> /\ closing = {}
  /\ toAgent = <<>> /\ toControl = <<>> /\ sendBuffer = <<>>
  /\ queue = <<>> /\ busy = {} /\ running = {}
  /\ exitedOk = {}
  /\ disconnects = 0 /\ restarts = 0

-----------------------------------------------------------------------------
(***************************************************************************)
(* Control plane                                                           *)
(***************************************************************************)

\* JobRepository.save: a done job moves to the archive, any other is upserted.
SaveActive(a, j, st)  == [a EXCEPT ![j] = IF st \in Done THEN NONE ELSE st]
SaveArchive(z, j, st) == IF st \in Done THEN [z EXCEPT ![j] = st] ELSE z

SaveJob(j, st) ==
  /\ active'  = SaveActive(active, j, st)
  /\ archive' = SaveArchive(archive, j, st)

\* ResourceRepository.handle_JOB_CREATED / handle_JOB_DONE: the `locked` flag
\* of every target of j is set to v (a job without tgt changes nothing).
SetLocked(j, v) == [r \in Res |-> IF r \in Tgt[j] THEN v ELSE locked[r]]

LockTargets(j)   == locked' = SetLocked(j, TRUE)
UnlockTargets(j) == locked' = SetLocked(j, FALSE)

\* AgentGateway.pushNewJob on JOB_NEW: job:new is written to every socket in
\* AgentGateway.agents. The agent receives it if its current socket is
\* listed; what is written to a socket it has closed is lost.
Broadcast(js) == toAgent' = IF sock \in Range(agents) THEN toAgent \o js ELSE toAgent

PushNewJob(j) == Broadcast(<<j>>)

\* A service (iscsi/nvme/nfs/fs/network/test) emits JOB_CREATED. Both of its
\* listeners run in the same tick: the resource repository locks the
\* targets, JobService.handle_JOB_CREATED saves the job and emits JOB_NEW.
CreateJob(j) ==
  /\ j \notin created
  /\ created' = created \cup {j}
  /\ LockTargets(j)
  /\ SaveJob(j, "NEW")
  /\ PushNewJob(j)
  /\ UNCHANGED <<expired, sockVars, toControl, sendBuffer, agentVars,
                 exitedOk, disconnects, restarts>>

\* The TEST job the type event of a returned copy starts: the listener of
\* EXPORT_ADD_ISCSI / EXPORT_ADD_NVME calls TestService.start when the job
\* is OK, which emits JOB_CREATED for a new TEST job (no tgt).
\* Mutant: the listener tests done() instead of status == OK.
TestStartedOnDone(m) ==
  IF m.id \in CtlJobs /\ m.st \in Done /\ Type[m.id] \in StartsTest
    THEN {TestOf[m.id]} ELSE {}

TestStarted(m) ==
  IF m.id \in CtlJobs /\ m.st = "OK" /\ Type[m.id] \in StartsTest
    THEN {TestOf[m.id]} ELSE {}

\* TestService.start for each job of T: a TEST job is constructed and
\* JOB_CREATED emitted, and handle_JOB_CREATED saves it NEW in jobs_ (it has
\* no tgt, so nothing is locked) before it is pushed.
StartTests(a, T) == [j \in Jobs |-> IF j \in T THEN "NEW" ELSE a[j]]

\* AgentGateway.jobSave -> JobService.handleReturned: the copy, turned into
\* its Job class by toDomain, is saved; a done copy fires JOB_DONE, on which
\* ResourceRepository.handle_JOB_DONE unlocks every target of the job, and
\* then the event of its type (SCAN: the reconciliation, modelled in
\* Reconciliation; TEST: a DbService save, modelled in DbStore; EXPORT_ADD_*:
\* a TEST job is created, locked, saved and pushed, all in this tick).
HandleReturned ==
  /\ toControl # <<>>
  /\ LET m == Head(toControl)
         T == TestStarted(m) \ created
     IN  /\ active' = StartTests(SaveActive(active, m.id, m.st), T)
         /\ archive' = SaveArchive(archive, m.id, m.st)
         /\ IF m.st \in Done THEN UnlockTargets(m.id) ELSE UNCHANGED locked
         /\ created' = created \cup T
         /\ Broadcast(SetToSeq(T))
  /\ toControl' = Tail(toControl)
  /\ UNCHANGED <<expired, sockVars, sendBuffer, agentVars,
                 exitedOk, disconnects, restarts>>

\* JobService.triggerRun: every active job that is not done and has expired
\* is set FAILED (with a JobExpired error), JOB_EXPIRED is emitted (it has no
\* listener) and the job is saved, which moves it to the archive.
\* JobRepository.getArray: the jobs held in jobs_ (the active map).
ActiveJobs == {j \in Jobs : active[j] # NONE}

\* Mutant: the sweep's filter loses its negation (c.done() && c.expired()).
ExpiredActiveDoneOnly == {j \in ActiveJobs : active[j] \in Done /\ j \in expired}

ExpiredActive == {j \in ActiveJobs : active[j] \notin Done /\ j \in expired}

\* Mutant: expire writes a status that is not a JobStatus (JobStatus['EXPIRED']).
ExpiredStatusBad == "EXPIRED"

\* JobService.expire: the status an expired job gets.
ExpiredStatus == "FAILED"

ExpireSweep ==
  /\ ExpiredActive # {}
  /\ active'  = [j \in Jobs |-> IF j \in ExpiredActive THEN NONE ELSE active[j]]
  /\ archive' = [j \in Jobs |-> IF j \in ExpiredActive THEN ExpiredStatus ELSE archive[j]]
  /\ UNCHANGED <<locked, created, expired, netVars, agentVars,
                 exitedOk, disconnects, restarts>>

-----------------------------------------------------------------------------
(***************************************************************************)
(* Agent                                                                   *)
(***************************************************************************)

\* AgentCommandService.preventDuplicates on 'new.job' (AgentClient relays
\* job:new): the job is queued unless a queued job has the same id.
ReceiveNew ==
  /\ Connected /\ toAgent # <<>>
  /\ LET j == Head(toAgent) IN
       queue' = IF Contains(queue, j) THEN queue ELSE Append(queue, j)
  /\ toAgent' = Tail(toAgent)
  /\ UNCHANGED <<ctlVars, sockVars, toControl, sendBuffer, busy, running,
                 histVars>>

\* AgentCommandService.getNewCommands. With no busy resource the head of the
\* queue is taken and nothing is marked busy. Otherwise the first job whose
\* targets are all free is taken and its targets become busy; the scan stops
\* with a TypeError at a job without tgt (tgt.map of undefined).
GetNewCommands(q, b) ==
  IF b = {}
    THEN IF q = <<>> THEN [job |-> NONE, queue |-> q, busy |-> b]
                     ELSE [job |-> Head(q), queue |-> Tail(q), busy |-> b]
    ELSE LET i == SelectInSeq(q, LAMBDA j : Tgt[j] = {} \/ Tgt[j] \cap b = {})
         IN IF i = 0 \/ Tgt[q[i]] = {}
              THEN [job |-> NONE, queue |-> q, busy |-> b]
              ELSE [job |-> q[i], queue |-> RemoveAt(q, i), busy |-> b \cup Tgt[q[i]]]

\* AgentClientService.jobSave: io.emit(job:save, job). While connected the
\* packet is encoded at once; while disconnected socket.io-client pushes it
\* to its sendBuffer holding the job object itself, encoded only when the
\* buffer is flushed on reconnection.
SendJobSave(m) ==
  IF Connected THEN toControl' = Append(toControl, m) /\ UNCHANGED sendBuffer
               ELSE sendBuffer' = Append(sendBuffer, m.id) /\ UNCHANGED toControl

\* AgentCommandService.save of the job object whose status has just been
\* set to st: the copy is sent, then removeFromQueue drops every queued job
\* with its id from the queue q.
AgentSave(j, st, q) ==
  /\ SendJobSave([id |-> j, st |-> st])
  /\ queue' = SelectSeq(q, LAMBDA c : c # j)

\* ExecutorService.handle up to its first await: the job is set PROCESSING
\* and saved, and execute spawns the playbook.
Handle(j, q) ==
  /\ AgentSave(j, "PROCESSING", q)
  /\ running' = running \cup {j}

\* ExecutorService.runSerial (every second; the handle it starts is not
\* awaited, so several jobs may run at once).
RunSerial ==
  LET r == GetNewCommands(queue, busy) IN
    /\ r.job # NONE
    /\ busy' = r.busy
    /\ Handle(r.job, r.queue)
    /\ UNCHANGED <<ctlVars, created, expired, sockVars, toAgent,
                   exitedOk, disconnects, restarts>>

\* ExecutorService.runScan (every 17 s): a new SCAN job is handled directly,
\* bypassing the queue and the busy list.
RunScan(s) ==
  /\ s \notin created
  /\ created' = created \cup {s}
  /\ Handle(s, queue)
  /\ UNCHANGED <<ctlVars, expired, sockVars, toAgent, busy,
                 exitedOk, disconnects, restarts>>

\* ExecutorService.execute after the await, and the final save of handle:
\* the status is OK if the shell exited with 0 and FAILED otherwise. Whether
\* the output parses only adds a ParseError to the result, never changes
\* the status, and so is not modelled.
\* Mutant: the catch branch of execute forgets to set FAILED.
ExecStatusNoFail(exitOk) == "OK"

ExecStatus(exitOk) == IF exitOk THEN "OK" ELSE "FAILED"

ExecDone(j) ==
  /\ j \in running
  /\ \E exitOk \in BOOLEAN :
       /\ AgentSave(j, ExecStatus(exitOk), queue)
       /\ exitedOk' = IF exitOk THEN exitedOk \cup {j} ELSE exitedOk
  /\ running' = running \ {j}
  /\ UNCHANGED <<ctlVars, created, expired, sockVars, toAgent, busy,
                 disconnects, restarts>>

-----------------------------------------------------------------------------
(***************************************************************************)
(* Environment: time, the socket, agent restarts                           *)
(***************************************************************************)

\* Date.now() passes created + ttl of job j.
Elapse(j) ==
  /\ j \in created \ expired
  /\ expired' = expired \cup {j}
  /\ UNCHANGED <<ctlVars, agentVars, netVars, created, exitedOk,
                 disconnects, restarts>>

\* Of the job:save packets encoded on a connection that drops, the server
\* has received a prefix (and handles it); engine.io discards the rest.
ReceivedPrefix(msgs) == {SubSeq(msgs, 1, k) : k \in 0..Len(msgs)}

\* The agent's client notices the drop: job:new packets on the wire are
\* lost, and so are the job:save packets the server has not received.
Disconnect ==
  /\ Connected /\ disconnects < MaxDisconnects
  /\ sock' = 0 /\ closing' = closing \cup {sock}
  /\ toAgent' = <<>>
  /\ toControl' \in ReceivedPrefix(toControl)
  /\ disconnects' = disconnects + 1
  /\ UNCHANGED <<ctlVars, agentVars, agents, sendBuffer, created, expired, exitedOk,
                 restarts>>

\* socket.io-client reconnects with a new socket; AgentGateway.handleConnection
\* -> addAgent appends it unless listed.
AddAgent(as, s) == IF s \in Range(as) THEN as ELSE Append(as, s)

\* The status of the agent's object of job j, one handled since the agent
\* last started (handle set PROCESSING, execute's outcome OK or FAILED).
ObjectStatus(j) ==
  IF j \in running THEN "PROCESSING" ELSE IF j \in exitedOk THEN "OK" ELSE "FAILED"

\* On the connect of the new socket, emitBuffered encodes and sends every
\* buffered packet in order, each with its job object as it is now.
Flushed(buf) == [i \in 1..Len(buf) |-> [id |-> buf[i], st |-> ObjectStatus(buf[i])]]

Reconnect ==
  /\ ~Connected
  /\ sock' = NextSock
  /\ agents' = AddAgent(agents, NextSock)
  /\ toControl' = toControl \o Flushed(sendBuffer)
  /\ sendBuffer' = <<>>
  /\ UNCHANGED <<ctlVars, agentVars, closing, toAgent, histVars>>

\* The server notices a closed socket (close packet or ping timeout):
\* handleDisconnect -> removeAgent, whose splice(index) has no count and
\* so removes the socket and every socket listed after it.
RemoveAgent(as, s) ==
  IF s \in Range(as) THEN SubSeq(as, 1, SelectInSeq(as, LAMBDA x : x = s) - 1) ELSE as

ServerDisconnect(s) ==
  /\ s \in closing
  /\ agents' = RemoveAgent(agents, s)
  /\ closing' = closing \ {s}
  /\ UNCHANGED <<ctlVars, agentVars, sock, toAgent, toControl, sendBuffer, histVars>>

\* The agent process restarts: its queue, busy list, job objects, running
\* children and send buffer are gone; the packets it wrote to the socket
\* still reach the server (the kernel sends them before closing the
\* connection); its socket is re-established later.
AgentRestart ==
  /\ restarts < MaxRestarts
  /\ queue' = <<>> /\ busy' = {} /\ running' = {}
  /\ sock' = 0 /\ closing' = IF Connected THEN closing \cup {sock} ELSE closing
  /\ toAgent' = <<>> /\ sendBuffer' = <<>>
  /\ restarts' = restarts + 1
  /\ UNCHANGED <<ctlVars, agents, toControl, created, expired, exitedOk, disconnects>>

-----------------------------------------------------------------------------
Next ==
  \/ \E j \in CtlJobs : CreateJob(j)
  \/ HandleReturned
  \/ ExpireSweep
  \/ ReceiveNew
  \/ RunSerial
  \/ \E s \in ScanJobs : RunScan(s)
  \/ \E j \in Jobs : ExecDone(j)
  \/ \E j \in Jobs : Elapse(j)
  \/ Disconnect
  \/ Reconnect
  \/ \E s \in closing : ServerDisconnect(s)
  \/ AgentRestart

\* The crons (runSerial, triggerRun), socket delivery and reconnection, and
\* the clock are fair. Job creation, playbook completion (no timeout bounds
\* it), socket drops and restarts are not.
Fairness ==
  /\ WF_vars(HandleReturned)
  /\ WF_vars(ExpireSweep)
  /\ WF_vars(ReceiveNew)
  /\ WF_vars(RunSerial)
  /\ WF_vars(Reconnect)
  /\ WF_vars(\E s \in closing : ServerDisconnect(s))
  /\ \A j \in Jobs : WF_vars(Elapse(j))

Spec == Init /\ [][Next]_vars /\ Fairness

-----------------------------------------------------------------------------
(***************************************************************************)
(* Properties                                                              *)
(***************************************************************************)

\* The archive agrees with what the agent's playbook did: a job archived OK
\* exited with 0, and a job archived before its TTL elapsed has finished on
\* the agent and is FAILED only if its playbook failed. (handleReturned saves
\* the agent's copies in order; only the expiry sweep archives on its own.)
ArchiveMatchesExecution ==
  \A j \in Jobs : archive[j] # NONE =>
    /\ archive[j] = "OK" => j \in exitedOk
    /\ j \notin expired => /\ j \notin running
                           /\ archive[j] = "FAILED" => j \notin exitedOk

\* Every job the control plane knows of eventually leaves JobRepository.jobs_
\* for good (and so stays in jobsDone_), whatever the socket and the agent
\* do: either the agent's answer or the triggerRun expiry sweep settles it.
EverySettles ==
  \A j \in Jobs : <>[](active[j] = NONE)

\* Spec 8, lock exclusivity: the agent never runs two jobs whose targets
\* overlap (AgentCommandService.getNewCommands is the gate).
AgentTargetsExclusive ==
  \A j, k \in running : j # k => Tgt[j] \cap Tgt[k] = {}

\* Spec 5 and 8: a resource is locked exactly while some in-flight job (one
\* in JobRepository.jobs_) targets it. Locks are taken on JOB_CREATED and
\* released on JOB_DONE; reconciliation relies on the flag to leave a
\* resource alone, and a stale lock blocks it for ever.
LockReflectsInFlight ==
  \A r \in Res : locked[r] <=> \E j \in Jobs : active[j] # NONE /\ r \in Tgt[j]

\* The EXPORT_ADD_ISCSI / EXPORT_ADD_NVME listeners start the TEST job of an
\* export only after the export succeeded: a TEST job exists only for an
\* export whose playbook exited 0 and which the control plane holds as OK.
TestFollowsOk ==
  \A j \in CtlJobs : TestOf[j] \in created => j \in exitedOk /\ archive[j] = "OK"

\* AgentGateway keeps the agent reachable: while the agent is connected,
\* its socket is on the gateway's list, so pushNewJob reaches it. A drop
\* whose server-side disconnect is handled after the agent has reconnected
\* must not take the new socket off the list (removeAgent).
AgentListed ==
  Connected => sock \in Range(agents)

\* Spec 3, a job's lifecycle ends once: the control plane persists its
\* terminal state, unlocks its targets and emits its completion event
\* (JOB_DONE, then the event of its type) once. socket.io-client buffers a
\* job:save emitted while disconnected with a reference to the agent's job
\* object, so a PROCESSING copy buffered before the playbook finished is
\* sent with the final status, after which the final copy is sent too:
\* two done copies of one job on their way to handleReturned each fire
\* JOB_DONE and the type event.
OneFinalCopy ==
  \A j \in Jobs :
    Cardinality({i \in DOMAIN toControl : toControl[i].id = j /\ toControl[i].st \in Done}) <= 1

\* Spec 3, done() is terminal: a job in the archive never changes status and
\* never comes back to the active map.
DoneIsFinal ==
  [][\A j \in Jobs : archive[j] # NONE =>
                        archive'[j] = archive[j] /\ active'[j] = NONE]_vars

=============================================================================
