# TLA+ models of the storage control plane and its agent

This directory holds TLA+ specifications of the control plane in `src/src`. The control plane is a NestJS
process that keeps storage resources (block exports, network ports) and jobs. It talks to an agent process,
which runs Ansible playbooks for those jobs. TLC checks the specifications. Every module is written from the
TypeScript source. `PROJECT.json` maps each definition to the lines it models. It also lists the runs, the
mutants that show each checked property can fail, the findings, and the hazards.

## 1. The system

| Part | Source | State | Operations |
|---|---|---|---|
| Agent scheduler | `agent/command.service.ts`, `agent/AgentClient.ts` | `newCommands` queue, `busyResources` | `preventDuplicates` (on `job:new`), `getNewCommands`, `save` / `removeFromQueue` |
| Agent executor | `agent/executor.service.ts` | running playbook children | `runSerial` (cron 1 s, not awaited), `runScan` (cron 17 s), `handle`, `execute` |
| Job service / repository | `jobs/job.service.ts`, `jobs/job.repository.ts`, `jobs/types/IJob.ts` | `jobs_` (active), `jobsDone_` (archive) | `handle_JOB_CREATED`, `handleReturned`, `triggerRun` / `expire` (cron 5 s), `save` |
| Resource repository | `resources/resource.repository.ts`, `entities/*` | `resources_` (Proxies), `locked`, `state.health` | `add`, `makeId`, `handle_JOB_CREATED` (lock), `handle_JOB_DONE` (unlock), Proxy `set` (emits RESOURCE_UPDATED) |
| Reconciliation | `resources/resource.service.ts` | the repository | `handleScan`, which runs mark-lost and then update-or-create for networks and block exports |
| Agent gateway | `gateways/agent.gateway.ts` | connected agent sockets | `pushNewJob` (broadcast `job:new`), `jobSave`, connect and disconnect |
| Resources gateway | `gateways/resources.gateway.ts` | `eventsQueue` keyed by resource id, `clients` | 1 s batched, coalesced UI events; `addClient`, `removeClient` |
| GUI store | `COMPONENTS/gui/src/stores/ResourceStore.ts` | `resources_` | `fetch` (GET all), `add` (upsert by id) |
| Durable store | `db/db.service.ts` | in-memory namespaces, `<db>`, `<db>.back`, `<db>.bad` | constructor load and quarantine, `save`, `saveToFile` (backup then primary, 3 tries) |
| Services | `resources/{iscsi,nvme,nfs,fs,network,test}.service.ts` | none | create jobs (emit JOB_CREATED); EXPORT_ADD_* OK starts a TEST job; TEST OK saves its result |
| Resource API | `API/v1/resource.controller.ts` | none | `getResources` (toDto of every resource), `getResource` |
| Validation, GUI | `resources/validation/*`, `COMPONENTS/gui` | none on the server side | input checks; UI store; mock APIs |
| Bootstrap | `app.module.ts`, `main.ts` | none | a (re)start builds every module afresh |

How the parts interact:
- **In-process events are synchronous.** EventEmitter2 runs every listener in the same tick. So one
  JOB_CREATED locks the targets, saves the job and pushes it to the agent in one step.
- **The agent is a separate process.** It is reached over a socket.io connection that can drop, and it can restart.
- **Every timer is a cron.** On the agent, `runSerial` starts `handle` without awaiting it, so several jobs
  may be in their playbooks at once.
- **A done job triggers follow-up events.** When a returned copy is done, JOB_DONE unlocks the targets.
  The type's event then fires, in the same tick:
  - a SCAN is merged by reconciliation;
  - an OK EXPORT_ADD_ISCSI or EXPORT_ADD_NVME starts a TEST job (`TestService.start`);
  - an OK TEST saves its result through `DbService.save('jobs', …)`.
- **Every agent reconnection opens a new socket.** The gateway's `agents` list gains it on connection and
  loses the old one when the server handles the old socket's disconnect, which may come later.
- **Environments.** Every job and resource carries an `environment_key`. An agent runs only jobs of its own
  key (`executor.service.ts:65`); the control plane accepts a returned job whose key starts with the
  first `-` segment of its own (`job.service.ts:31`), so the SCAN results of another environment of the
  same site are merged into its repository.
- **An emit while disconnected is buffered by reference.** socket.io-client keeps the job object in its
  send buffer and encodes it when it reconnects, with the status the object has then.
- **UI subscribers** connect to the `resources` namespace and receive the queued events every second. The
  GUI in `src/COMPONENTS/gui` has the store that applies them (`fetch`, `add`), but no socket wiring yet;
  the model's subscriber is a client that applies the events as that store does (spec 4.6).
- **The repository writes but never reads the store.** `add` saves `toDao(r)` (no health, no lock) through
  `DbService.save`; later changes through the Proxy save nothing. `resourceRepositoryFactory` has
  `// await repo.init()` commented out, so a restarted control plane starts with an empty repository.
  `Reconciliation` keeps no copy of the store: the save is `DbStore`'s `Save`, and a restart empties `repo`.
- **A scan is a pair of arrays.** It lists ports and exports in arrays, so one MAC or exportPath can appear
  in several entries. The merge looks each entry up in the domain list it took before its loop, and
  the resources it creates are not added to that list. An export's `proto` is the agent's string:
  `ExportProto[s.proto]` is `undefined` for a string the enum does not name.

What makes the system hard:
- lost and late socket packets;
- expiry racing a late answer;
- the agent's admission gate running against its own concurrent jobs;
- the lock flag shared by several jobs;
- a server-side disconnect handled after the agent has reconnected;
- reconciliation against locks;
- a crash in the middle of a two-file flush;
- results of several environments merged into one repository;
- job copies encoded after the fact, on reconnection.

## 2. Modules

| Module | Models | Correspondence |
|---|---|---|
| `JobLifecycle` | job service, job repository, locking, agent gateway (one agent), agent scheduler and executor | **Control variables:**<br>• `active` / `archive` are `jobs_` / `jobsDone_` (status only).<br>• `locked` is the resources' flag.<br><br>**Socket variables:**<br>• `toAgent` / `toControl` are the `job:new` / `job:save` packets encoded and in flight.<br>• `sendBuffer` is socket.io-client's `sendBuffer`: the job objects of `job:save` emits made while disconnected. They are encoded on reconnection with the object's status then (`ObjectStatus`: PROCESSING while the playbook runs, then its outcome).<br>• `sock` is the agent's current socket (0 if none); `agents` is `AgentGateway.agents`; `closing` holds the sockets the agent closed whose server-side disconnect is still pending.<br><br>**Agent variables:**<br>• `queue` / `busy` / `running` are the agent's queue, busy list and running children.<br><br>**Constants:** `Type` gives each job its JobType; `TestOf` names the TEST job an export starts.<br><br>**Actions:**<br>• `CreateJob` is JOB_CREATED with its two listeners.<br>• `HandleReturned` is `handleReturned` plus the JOB_DONE unlock and the type event; for an OK EXPORT_ADD_* it creates, saves and pushes the TEST job (`StartTests`).<br>• `ExpireSweep` is `triggerRun` over `getArray` (`ActiveJobs`).<br>• `ReceiveNew` is `preventDuplicates`.<br>• `RunSerial` is `getNewCommands` plus `handle` up to its first await.<br>• `RunScan` is the scan cron.<br>• `ExecDone` is `execute` plus the final save.<br>• `Reconnect` is socket.io's reconnection, its flush of the send buffer (`Flushed`), and `handleConnection` / `addAgent`.<br>• `ServerDisconnect` is `handleDisconnect` / `removeAgent`.<br>• `Elapse`, `Disconnect` and `AgentRestart` are the environment. A drop loses the `job:save` packets the server has not received (`ReceivedPrefix`); the server handles those it has, whether or not the agent is connected. A restart loses the send buffer but not what was written to the socket. |
| `Reconciliation` | `ResourceService.handleScan`, the repository's lock events, the resources gateway and a subscriber's store | **Variables:**<br>• `repo` is `resources_`: type, environment, key (mac or qn), proto, health, locked.<br>• `eventsQueue` is the gateway's queue (ids with a pending event).<br>• `clients` is the gateway's list, `connected` / `synced` the subscribers' sockets and fetches, `view` each subscriber's store.<br>• `answer[c]` is the GET answer on its way to subscriber `c`'s store.<br><br>**Scans:** `NetScans` / `ExpScans` give each key reported a sequence of 1..`MaxCopies` entries (`Entries`); an export entry has a proto from `ScanProtos`, which may hold a string `ExportProto` maps to `undefined`.<br><br>**Actions:**<br>• `HandleScan(e, ns, es)` is one whole merge of a SCAN result of environment `e`. It is guarded by `handleReturned`'s prefix check (`Accepted`). It covers networks (every Network, `DomainNetworks`) then exports (those of `e` with proto iscsi or nvmeof, `DomainExports(e)`), `markAsLost` (`LostBy`), one `setState` per entry (the last entry's health stays, `ScannedHealth`; `SetStateFires` are the resources one of whose calls changes the state), and one created resource per entry of a key the domain list lacks (`NewEntries`, `Created`), each under a fresh `makeId` (`FreshIds`).<br>• `SetLock` is the Proxy-set of `locked` by JOB_CREATED / JOB_DONE.<br>• `EmitEvents` is the 1 s cron; `Connect` / `Disconnect` are `addClient` / `removeClient`.<br>• `FetchAnswered` is `getResources` answering the store's GET; `FetchInstalled` is the store's `resources_ = answer` after its await.<br>• `ControlRestart` is a restart of the process: the repository, the gateway's queue and its clients start empty.<br><br>**Refinement:** `InvOf` maps `repo` to `Inventory`'s per-key `inv` (the resource whose key is `k`, without its id; `DUP` when two resources hold `k`), `lastScan` without its environment to `report`. `ImplementsInventory == Abs!Spec`. |
| `Inventory` | what spec 3, 4.5 and 8 promise of the repository, per key | **Variables:**<br>• `inv[k]` is the resource with matching key `k` (proto, health, locked) or NONE.<br>• `report` is the last merged scan.<br><br>**Actions:** `Scan` (a merge: a locked resource is left alone, every other known key takes the reported health or LOST, a new key is created once), `Lock(k, v)`. A restart is no step: resources are persisted. No ids. |
| `DbStore` | `DbService` | **Variables:**<br>• `mem` is the `resources` namespace (the ids saved).<br>• `primary`, `backup` and `bad` are the three files: a snapshot, corrupt (truncated) or absent.<br>• `phase` / `try` are the position in `saveToFile`'s loop.<br><br>**Actions:**<br>• `Start` is the constructor.<br>• `Quarantine` is its fs.access/fs.cp callback.<br>• `Save` is `save` from `ResourceRepository.add`.<br>• `SaveBadPath` is TestService's `save('jobs', …)`.<br>• `WriteBackup` / `WritePrimary` are one try of each write.<br>• `Crash` is the environment. |

Each module has an `MC*.tla` that declares the model values and the symmetry sets.

Abstractions:
- **Time** is one `Elapse(j)` event per job: its TTL passes.
- **A job's targets** are a constant `Tgt`. In the shipped code, no service sets `tgt`, so every real job has
  no targets. The locking and admission code only runs on jobs that carry `tgt`. The runs that give a job
  `{r1}` model that code path: a DTO-driven job with targets, as the spec describes.
- **Payloads** are reduced to what the properties tell apart: a status, a health, a key.
- **Environments:** an environment key is a tuple of its `-`-separated segments. `handleReturned`'s
  `startsWith(split('-')[0])` is modelled as equal first segments; a first segment that only begins with
  the control's one (`lab10` for `lab1`) also passes in the code, which only widens the accepted set.
  `JobLifecycle` has one environment: the agent's own check (`executor.service.ts:65`) passes for every job.

## 3. Runs

| Run | cfg | Expect | What it shows |
|---|---|---|---|
| lifecycle | `MCJobLifecycle.cfg` | pass | `ArchiveMatchesExecution`: a job is archived OK only if its playbook exited 0, and one archived before expiry finished on the agent. `TestFollowsOk`: a TEST job exists only for an export that exited 0 and is held OK. `EverySettles` (liveness): every job, the TEST job included, leaves `jobs_` for good (WF on the crons, socket delivery, reconnection, the server noticing a closed socket, and the clock). |
| lifecycle_exclusive | `JobLifecycle_exclusive.cfg` | violation | Two jobs on one resource run at once: with `busyResources` empty, `getNewCommands` marks nothing busy. |
| lifecycle_lock | `JobLifecycle_lock.cfg` | violation | `LockReflectsInFlight`: an expired job's target stays locked with no job in flight, since `expire` never emits JOB_DONE. With two jobs on one resource, one job's JOB_DONE also unlocks a resource the other still holds. |
| lifecycle_listed | `JobLifecycle_listed.cfg` | violation | `AgentListed`: the agent drops and reconnects, then the server handles the old socket's disconnect; `removeAgent`'s `splice(index)` removes the new socket too, and no `job:new` reaches the connected agent. |
| lifecycle_final | `JobLifecycle_final.cfg` | violation | A late PROCESSING copy brings an expired job back into `jobs_`. |
| lifecycle_once | `JobLifecycle_once.cfg` | violation | `OneFinalCopy`: the socket drops; the agent's SCAN is handled and finishes while it is down, and both of its `job:save` emits wait in the send buffer holding the same object; on reconnection both are encoded as OK. `handleReturned` then fires JOB_DONE and the type event twice. For an EXPORT_ADD job, `TestService.start` runs twice and creates a second TEST job; the model's `TestStarted(m) \ created` does not show that second job. |
| reconcile | `MCReconciliation.cfg` | pass | `ChangesAreAnnounced` (spec 4.2): every step that changes a resource the repository holds leaves RESOURCE_UPDATED queued for it. `markAsLost` writes `state.health` on the nested object, past the Proxy, so only its `refresh()` announces a loss; the mutant without it (`EmitsNoRefresh`) loses the event. |
| reconcile_notify | `Reconciliation_SubscribersSeeRepository.cfg` | violation | `SubscribersSeeRepository`: a subscriber's GET is answered, a scan creates a resource, then the store installs the older answer. Nothing emits RESOURCE_CREATED and the created object is not the Proxy, so the subscriber never learns of the resource. |
| reconcile_env | `Reconciliation_MergeStaysInEnv.cfg` | violation | `MergeStaysInEnv`: the agent of `lab-n1` scans a port, creating its network; the agent of `lab-n2`, whose key passes the control's prefix check, returns an empty scan, and its merge marks `lab-n1`'s network LOST. `handleScannedNetworks` does not filter by environment (exports are filtered, so no export of `lab-n1` is touched). |
| reconcile_inventory | `Reconciliation_ImplementsInventory.cfg` | violation | `ImplementsInventory`: a scan that lists one MAC twice creates two resources for it in one merge (the lookup runs on the domain list taken before the loop). With every key listed once the refinement still fails: a merge after a lock overwrites the locked resource's health (`setState` ignores `locked`), an export of an unknown protocol is created again by every scan, and a restart forgets every resource. |
| db | `MCDbStore.cfg` | pass | With failed writes and crashes, the primary only receives a snapshot the backup already holds. |
| db_silent | `DbStore_NoSilentLoss.cfg` | violation | After three failed backup writes, the flush returns normally and the primary is stale. |

`Inventory` is written from the spec, not from the code: it is the promise the code is checked against,
so the refinement is a violation run. The passing `reconcile` run checks what the code does keep.

Every property of a passing run has a mutant in `PROJECT.json`. The mutant is a plausible bug in the mapped
definition (a dropped negation, a missing `continue`, a missing `refresh()`, an off-by-one loop bound). TLC finds the
property violated when the mutant replaces the definition.

### Bounds

- **lifecycle:**
  - One control job `j1` of type EXPORT_ADD_ISCSI, targeting `r1`, the TEST job `t1` it starts, and one
    agent SCAN.
  - One socket drop and one agent restart (so up to three sockets).

  This reaches the interesting cases: a drop with `job:save` packets lost or buffered by reference, a restart with a running job,
  expiry before or after the answer, a scan racing the control job, a TEST job pushed while the socket is
  being replaced, and the old socket's disconnect handled before or after the reconnection. The run has
  378,519 states and takes about 2 minutes, most of it checking the two liveness properties. The violation configs use no faults, except `lifecycle_listed`
  and `lifecycle_once`, which need one drop. `lifecycle_exclusive` uses two control jobs.
- **Playbook output parsing is left out.** Whether the output parses never changes a job's status in
  `execute`: it only adds a ParseError. Spec 7 says such a job is FAILED. This divergence is recorded as
  a hazard and is not checked by a run.
- **reconcile:**
  - One MAC and one qn.
  - Two ids, interchangeable under `SYMMETRY`: `makeId` draws uniformly.
  - Health in {OK, FAILED}; scanned proto in {iscsi, scst} (`scst` is a string `ExportProto` does not
    name); up to two merges.
  - One subscriber, one control restart.
  - `MaxCopies` = 1 in the passing run and 2 in `reconcile_inventory`: the passing run with two entries
    per key did not finish in 10 minutes, while one entry per key already reaches every branch of the
    merge. The inventory run shows the repeated key within its first step.

  The runs have the control's environment only (`EnvsOne`), except `reconcile_env`, so `Inventory`, keyed by
  MAC or qn, is the abstraction. `reconcile_env` has three environment keys: `lab-n1` (the control's),
  `lab-n2` (same site, accepted) and `prod-n1` (rejected).

  Two merges reach a create followed by a loss, a re-report, a merge against a lock, or a re-creation
  after the restart. The passing run has 1,825,990 states and takes about 1.5 minutes. `reconcile_notify` uses two
  subscribers; a passing run with two took over 10 minutes.
- **db:**
  - Two keys (symmetric).
  - `MAX_WRITE_TRY` = 3, as in the code.
  - Three saves, three failed writes and two crashes.

  Three failures exhaust one flush's tries. The initial files range over every content a previous run can
  leave.

### Fairness

Fairness applies to `JobLifecycle` only. The code drives these steps by `@Cron`, so they are weakly fair:
- the crons `runSerial` and `triggerRun`;
- the clock (`Elapse`);
- delivery of `job:save` while the socket is up (`HandleReturned`);
- delivery of `job:new` (`ReceiveNew`);
- socket.io's automatic reconnect;
- the server's handling of a closed socket (`ServerDisconnect`): socket.io's ping timeout bounds it.

These steps are not fair:
- Job creation (a user).
- Playbook completion (`exec` has no timeout, §9 of the spec).
- Drops and restarts.

`Reconciliation` and `DbStore` check safety only.

## 4. Not modelled, and the plan

Not modelled, by design:
- `getResource` (reads one resource): a stateless read.
- HTTPS, session and Swagger set-up in `main.ts`; configuration loading in `app.module.ts`.
- The GUI's `_mockApis`: canned answers for its development server, no behaviour of the control plane.
- Log text, the shell command string and JSON formatting.

Not modelled yet:
- NETDEV_CONF: its class field sets `type` to EXPORT_ADD_NVME after the constructor, so such a job
  would run the NVMe playbook and, on OK, start a TEST job. `NetworkService.configure`, which creates it,
  has no caller, so no state of the program has one.
- The HTTP validation rules (`ResourceReady`, `ResourceIsType`, `NameAlreadyExists`) are registered, but
  no DTO carries their decorators, so no request runs them.
- The GUI's socket wiring does not exist in `src/`.
- What the quarantine copy keeps: `DbStore` has the copy to `<db>.bad` as a step of its own, racing the
  first flush. No run checks its content: the window, from the constructor to the `fs.access` callback,
  closes before a scan or TEST result can cause a save.
- The two-file write's crash-safety beyond `FlushOrder`: a retry after a failed primary write reopens the
  backup with `'w'` and truncates it, so a second failure in the same flush leaves no intact file
  (spec 2 calls the write crash-safe). No run checks it; it is a hazard in `PROJECT.json`.
- When a scan observed what it reports. `runScan` fires every 17 s without waiting for the previous SCAN,
  so two scans can be in flight and be merged in completion order, the older last. `HandleScan` takes
  every report as input, so every property is checked against stale reports too. A property that a merge
  never goes back in time would need the physical inventory and observation times as state.
- Whether a report is complete. `handleReturned` emits the SCAN event for a FAILED job as well, so the
  stats of a partly failed playbook are merged as the full inventory and what it missed is marked LOST.
  An OK scan whose output did not parse makes `handleScan` throw on `result.resources` (after JOB_DONE
  unlocked the targets). Both are hazards without a property: no state of the code tells a partial report
  from a real loss.
- Spec 8's *idempotent reconciliation* as a property of events. `Emits` queues an event for every resource a merge
  re-marks LOST (`markAsLost` calls `refresh()` without comparing), so a second merge of a scan that misses
  a resource emits again. The model has the event; no run states the property.

Further work, in order:
1. **Several agents.** Distinct agents on the `agents` list, each with its own environment, in
   `JobLifecycle`; and an `Inventory` per environment, so the refinement holds with several.
2. **TEST jobs per copy:** `TestOf` gives an export one TEST job, so the second TEST job that a
   duplicate OK copy starts is not a state of the model.
3. **A composition `ControlPlane`.**
   - SCAN done → reconciliation, on the resource state of `JobLifecycle`.
   - An OK TEST → `DbStore`'s bad-path save.
   - A control restart across all three: `Reconciliation` has it, but `JobLifecycle` and `DbStore` do not
     share it yet, so the jobs whose locks the restart loses are not modelled together with it.
4. **Refinement of the job lifecycle.** An abstract job specification (created → done, done is final, targets locked while
   active), with `JobLifecycle` mapped to it. It can only hold once the findings above are fixed, so it will
   be checked against a fixed variant.
5. **Job ids** `<TYPE>-<ms>` colliding, with the agent's de-duplication then dropping a distinct job.
