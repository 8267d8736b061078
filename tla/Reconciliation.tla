--------------------------- MODULE Reconciliation ---------------------------
(***************************************************************************)
(* ResourceService.handleScan: the merge of a completed SCAN job's         *)
(* inventory into the ResourceRepository, against the locking done by the  *)
(* job lifecycle (ResourceRepository.handle_JOB_CREATED / handle_JOB_DONE).*)
(*                                                                         *)
(* A resource is kept as the fields the merge reads and writes: its type,  *)
(* its matching key (params.mac of a Network, protoParams.qn of a block    *)
(* Export), its export protocol, state.health and `locked`. The rest of    *)
(* `state` (addresses, clients, ...) is folded into health: setState       *)
(* compares whole states, and a changed field is a changed state.          *)
(* RESOURCE_UPDATED (the repository's Proxy emits it on every property    *)
(* set, refresh() included) is queued by ResourcesGateway, coalesced per   *)
(* id, and sent every second to the subscribers on its `clients` list; a   *)
(* subscriber keeps a ResourceStore, filled by a GET of all resources and  *)
(* updated by the events; the GET is answered by the server and installed *)
(* by the store later, after its await. Every resource and scan carries an *)
(* environment_key; JobService.handleReturned accepts the SCAN results of  *)
(* every environment whose key starts with the first path segment of the  *)
(* control plane's own key. A scan lists ports and exports in arrays, so a *)
(* key may appear in several entries of one scan.                          *)
(***************************************************************************)
EXTENDS Naturals, FiniteSets, Sequences, SequencesExt

CONSTANTS
  Macs,        \* MAC addresses of network ports an agent may report
  Qns,         \* qualified names (exportPath / qn) of block exports
  ResIds,      \* ids makeId may return (tid_<2 digits><4 letters>)
  ScanHealth,  \* health strings a scan reports for a port or an export
  ScanProtos,  \* proto strings a scan reports for an export
  MaxScans,    \* bound on the number of merged SCAN results
  MaxRestarts, \* bound on the number of control-plane restarts
  Subs,        \* UI subscribers of the `resources` socket namespace
  Envs,        \* environment keys of the agents whose results reach control,
               \* each a tuple of its '-'-separated path segments
  ControlEnv,  \* TESTLIB_ENVIRONMENT_KEY of the control plane
  MaxCopies,   \* bound on the entries one scan gives for one key
  DUP,         \* the image in Inventory of a key held by several resources
  NONE

ASSUME Macs \cap Qns = {}
ASSUME MaxScans \in Nat /\ MaxRestarts \in Nat /\ MaxCopies \in Nat \ {0}
ASSUME ControlEnv \in Envs /\ \A e \in Envs : Len(e) > 0

\* StatePropHealth (AbstractStorageResource.ts).
Health == {"UNKNOWN", "OK", "DEGRADED", "FAILED", "LOST"}
ASSUME ScanHealth \subseteq Health \ {"LOST"}

\* ExportProto (Export.ts); "undefined" is ExportProto[s] of an unknown s.
BlockProtos == {"iscsi", "nvmeof"}
Protos      == BlockProtos \cup {"nfs", "undefined"}
ExportProto(s) == IF s \in Protos \ {"undefined"} THEN s ELSE "undefined"

\* A Network: its matching key is params.mac; it has no export protocol.
NetworkRes == [type : {"Network"}, env : Envs, key : Macs, proto : {NONE}, health : Health, locked : BOOLEAN]

\* An Export: its matching key is params.protoParams.qn, its protocol params.proto.
ExportRes == [type : {"Export"}, env : Envs, key : Qns, proto : Protos, health : Health, locked : BOOLEAN]

\* AbstractStorageResource: the fields of either kind the merge uses.
Resource == NetworkRes \cup ExportRes

\* The entries of one scan for one key, in array order.
Entries(S) == UNION {[1..n -> S] : n \in 1..MaxCopies}

\* A SCAN result: the ports seen (net_interfaces[].ports[]), by MAC, and the
\* block exports seen (scst_exports ++ nvmeof_exports), by exportPath; a MAC
\* or exportPath may be listed more than once.
NetScans == UNION {[D -> Entries(ScanHealth)] : D \in SUBSET Macs}
ExpScans == UNION {[E -> Entries([proto : ScanProtos, health : ScanHealth])] : E \in SUBSET Qns}

VARIABLES
  repo,        \* ResourceRepository.resources_: id -> resource, or NONE
  eventsQueue, \* ResourcesGateway.eventsQueue: ids with a pending RESOURCE_UPDATED
  lastScan,    \* history: the last merged scan and its environment, or NONE
  scans,       \* number of merges so far
  clients,     \* ResourcesGateway.clients, in order
  connected,   \* subscribers whose socket is connected
  synced,      \* subscribers that fetched the resources since connecting
  view,        \* view[c]: subscriber c's ResourceStore, id -> resource or NONE
  answer,      \* answer[c]: the GET answer on its way to c's store, or NONE
  restarts     \* number of control-plane restarts so far

vars == <<repo, eventsQueue, lastScan, scans, clients, connected, synced, view, answer, restarts>>

Ids == {id \in ResIds : repo[id] # NONE}

\* makeId: draws ids until checkIdExists finds no resource with the id.
FreshIds == ResIds \ Ids

\* ResourcesGateway.emitUpdatedResource (and the CREATED / DELETED twins):
\* eventsQueue.set(resource.id, ...) keeps one pending event per id.
Enqueue(q, ids) == q \cup ids

TypeOK ==
  /\ repo \in [ResIds -> Resource \cup {NONE}]
  /\ eventsQueue \subseteq ResIds
  /\ clients \in Seq(Subs) /\ connected \subseteq Subs /\ synced \subseteq connected
  /\ view \in [Subs -> [ResIds -> Resource \cup {NONE}]]
  /\ answer \in [Subs -> [ResIds -> Resource \cup {NONE}] \cup {NONE}]
  /\ lastScan \in [env : Envs, net : NetScans, exp : ExpScans] \cup {NONE}
  /\ scans \in 0..MaxScans
  /\ restarts \in 0..MaxRestarts

\* The repository starts empty: nothing loads it from the DbService.
Init ==
  /\ repo = [id \in ResIds |-> NONE]
  /\ eventsQueue = {}
  /\ clients = <<>> /\ connected = {} /\ synced = {}
  /\ view = [c \in Subs |-> [id \in ResIds |-> NONE]]
  /\ lastScan = NONE
  /\ scans = 0
  /\ answer = [c \in Subs |-> NONE]
  /\ restarts = 0

-----------------------------------------------------------------------------
\* JobService.handleReturned: a returned job with an environment_key is
\* saved, and when done emitted to its handlers (handleScan for a SCAN),
\* only if the key startsWith TESTLIB_ENVIRONMENT_KEY.split('-')[0]. A key
\* is its segments; the check is modelled as equal first segments (a first
\* segment that merely begins with the control's one passes it too).
Accepted(e) == e[1] = ControlEnv[1]

\* handleScannedNetworks: every Network in the repository, of any environment.
DomainNetworks == {id \in Ids : repo[id].type = "Network"}

\* handleScannedBlockExports: Exports of the scan's environment e whose
\* proto is iscsi or nvmeof.
DomainExports(e) ==
  {id \in Ids : repo[id].type = "Export" /\ repo[id].env = e /\ repo[id].proto \in BlockProtos}

\* Whether the scan reports the key of resource id, and the healths of the
\* entries that report it, in order: setState runs once per entry.
Scanned(id, ns, es) ==
  IF repo[id].type = "Network" THEN repo[id].key \in DOMAIN ns
                               ELSE repo[id].key \in DOMAIN es
ScannedHealths(id, ns, es) ==
  IF repo[id].type = "Network" THEN ns[repo[id].key]
  ELSE [i \in DOMAIN es[repo[id].key] |-> es[repo[id].key][i].health]

\* The health the resource ends with: the last entry's.
ScannedHealth(id, ns, es) == Last(ScannedHealths(id, ns, es))

\* AbstractStorageResource.markAsLost: no-op on a locked resource; otherwise
\* health := LOST and refresh(), which emits even if it was LOST already.
LostBy(e, ns, es) ==
  {id \in DomainNetworks \cup DomainExports(e) : ~Scanned(id, ns, es) /\ ~repo[id].locked}

\* AbstractStorageResource.setState: a no-op when the new state is equal.
\* Resources whose state the merge changes, locked ones included.
ChangedBy(e, ns, es) ==
  {id \in DomainNetworks \cup DomainExports(e) :
     Scanned(id, ns, es) /\ repo[id].health # ScannedHealth(id, ns, es)}

\* Scanned keys no domain resource matches: a resource is created for each
\* of their entries, since the lookup runs on the domain list taken before
\* the loop, which the created resources are not added to.
NewMacs(ns) == DOMAIN ns \ {repo[id].key : id \in DomainNetworks}
NewQns(e, es) == DOMAIN es \ {repo[id].key : id \in DomainExports(e)}

\* new Network(makeId(), env, p.name, {}) with setParams(mac, ...) and the
\* scanned state.
\* Mutant: the port's raw status string is stored as health.
NewNetworkRawStatus(e, mac, h) ==
  [type |-> "Network", env |-> e, key |-> mac, proto |-> NONE, health |-> "up", locked |-> FALSE]

NewNetwork(e, mac, h) ==
  [type |-> "Network", env |-> e, key |-> mac, proto |-> NONE, health |-> h, locked |-> FALSE]

\* new Export(makeId(), env, s.name, s.params) with proto := ExportProto[s.proto],
\* protoParams := {qn: s.exportPath, transport: tcp} and the scanned state.
NewExport(e, qn, s) ==
  [type |-> "Export", env |-> e, key |-> qn, proto |-> ExportProto(s.proto), health |-> s.health, locked |-> FALSE]

\* The merged state of an existing resource.
Merged(e, id, ns, es) ==
  IF id \in LostBy(e, ns, es) THEN [repo[id] EXCEPT !.health = "LOST"]
  ELSE IF id \in ChangedBy(e, ns, es) THEN [repo[id] EXCEPT !.health = ScannedHealth(id, ns, es)]
  ELSE repo[id]

\* Resources one of whose setState calls changes the state: an entry that
\* differs from the state the previous entry left.
SetStateFires(e, ns, es) ==
  {id \in DomainNetworks \cup DomainExports(e) :
     Scanned(id, ns, es) /\
     LET hs == <<repo[id].health>> \o ScannedHealths(id, ns, es)
     IN  \E i \in 2..Len(hs) : hs[i] # hs[i - 1]}

\* The resources for which the merge emits RESOURCE_UPDATED: through the
\* Proxy, markAsLost's refresh() and each changing setState set a field.
\* markAsLost writes state.health on the nested state object, which the
\* Proxy does not see; only its refresh() emits. Created resources are not
\* the Proxy the repository stores, and add() emits nothing.
\* Mutant: markAsLost leaves out its refresh().
EmitsNoRefresh(e, ns, es) == SetStateFires(e, ns, es)

Emits(e, ns, es) == LostBy(e, ns, es) \cup SetStateFires(e, ns, es)

\* The entries that create a resource: <<key, index>> for each entry of a
\* new key.
NewEntries(e, ns, es) ==
  UNION {{<<k, i>> : i \in DOMAIN ns[k]} : k \in NewMacs(ns)} \cup
  UNION {{<<k, i>> : i \in DOMAIN es[k]} : k \in NewQns(e, es)}

\* The resource created for entry x.
Created(e, x, ns, es) ==
  IF x[1] \in Macs THEN NewNetwork(e, x[1], ns[x[1]][x[2]])
                   ELSE NewExport(e, x[1], es[x[1]][x[2]])

\* ResourceService.handleScan for a SCAN job's result: lost detection then
\* update-or-create, first for networks, then for block exports, in one
\* tick (nothing in it awaits). makeId draws ids until it finds an unused
\* one; the created objects are not the Proxy the repository stores, so
\* their setState emits nothing. add() stores the Proxy and saves toDao of
\* the resource through DbService.save (modelled in DbStore); its promise
\* is not awaited.
HandleScan(e, ns, es) ==
  LET new == NewEntries(e, ns, es) IN
  /\ Accepted(e)
  /\ scans < MaxScans
  /\ \E newId \in [new -> FreshIds] :
       /\ IsInjective(newId)
       /\ repo' = [id \in ResIds |->
                     IF id \in Ids THEN Merged(e, id, ns, es)
                     ELSE IF id \in Range(newId)
                       THEN Created(e, CHOOSE x \in new : newId[x] = id, ns, es)
                     ELSE NONE]
  /\ eventsQueue' = Enqueue(eventsQueue, Emits(e, ns, es))
  /\ lastScan' = [env |-> e, net |-> ns, exp |-> es]
  /\ scans' = scans + 1
  /\ UNCHANGED <<clients, connected, synced, view, answer, restarts>>

\* ResourceRepository.handle_JOB_CREATED (`locked = true`) and
\* handle_JOB_DONE (unlock()) on an existing target; through the Proxy, each
\* emits RESOURCE_UPDATED.
SetLock(id, v) ==
  /\ id \in Ids
  /\ repo' = [repo EXCEPT ![id].locked = v]
  /\ eventsQueue' = Enqueue(eventsQueue, {id})
  /\ UNCHANGED <<lastScan, scans, clients, connected, synced, view, answer, restarts>>

-----------------------------------------------------------------------------
(***************************************************************************)
(* ResourcesGateway and its subscribers                                    *)
(***************************************************************************)

scanVars == <<repo, lastScan, scans, restarts>>

\* ResourceStore.add: the received resources replace (Object.assign) or are
\* pushed to the store's entries with the same id.
StoreAdd(v, rs) == [id \in ResIds |-> IF id \in DOMAIN rs THEN rs[id] ELSE v[id]]

\* ResourcesGateway.emitEvents (cron, every second): each queued event is
\* sent to every socket on `clients`, carrying the resource object as it is
\* now; the subscriber's ResourceStore.add upserts it. The queue is cleared.
EmitEvents ==
  /\ eventsQueue # {}
  /\ view' = [c \in Subs |->
               IF c \in Range(clients)
                 THEN StoreAdd(view[c], [id \in eventsQueue |-> repo[id]])
                 ELSE view[c]]
  /\ eventsQueue' = {}
  /\ UNCHANGED <<scanVars, clients, connected, synced, answer>>

\* handleConnection / addClient: the socket is appended unless listed.
Connect(c) ==
  /\ c \notin connected
  /\ connected' = connected \cup {c}
  /\ clients' = IF c \in Range(clients) THEN clients ELSE Append(clients, c)
  /\ UNCHANGED <<scanVars, eventsQueue, synced, view, answer>>

\* handleDisconnect / removeClient: splice(index) with no count removes the
\* socket and every socket after it.
RemoveClient(cs, c) ==
  IF c \in Range(cs) THEN SubSeq(cs, 1, SelectInSeq(cs, LAMBDA x : x = c) - 1) ELSE cs

Disconnect(c) ==
  /\ c \in connected
  /\ connected' = connected \ {c}
  /\ synced' = synced \ {c}
  /\ clients' = RemoveClient(clients, c)
  /\ UNCHANGED <<scanVars, eventsQueue, view, answer>>

\* ResourceController.getResources: resources.map(toDto). The DTO carries
\* every field the model keeps (type, params, state, locked); an id not in
\* the map is absent from the answer.
GetResources == [id \in ResIds |-> IF id \in Ids THEN repo[id] ELSE NONE]

\* ResourceStore.fetch, first half: GET /api/v1/resources is answered by the
\* server with the repository as it is now.
FetchAnswered(c) ==
  /\ c \in connected /\ answer[c] = NONE
  /\ answer' = [answer EXCEPT ![c] = GetResources]
  /\ UNCHANGED <<scanVars, eventsQueue, clients, connected, synced, view>>

\* ResourceStore.fetch, second half: after the await, `resources_ = answer`
\* replaces the store, events applied since the answer was made included.
FetchInstalled(c) ==
  /\ answer[c] # NONE
  /\ view' = [view EXCEPT ![c] = answer[c]]
  /\ answer' = [answer EXCEPT ![c] = NONE]
  /\ synced' = IF c \in connected THEN synced \cup {c} ELSE synced
  /\ UNCHANGED <<scanVars, eventsQueue, clients, connected>>

\* A restart of the control-plane process. DbService reloads its file (the
\* DbStore module models the file), but resourceRepositoryFactory never
\* loads the repository (`// await repo.init()`): it starts empty. The
\* gateway's queue and client list are in memory; every UI socket drops and
\* a subscriber's ResourceStore keeps what it holds until it fetches again.
\* An answer already sent still reaches its store.
ControlRestart ==
  /\ restarts < MaxRestarts
  /\ repo' = [id \in ResIds |-> NONE]
  /\ eventsQueue' = {}
  /\ clients' = <<>> /\ connected' = {} /\ synced' = {}
  /\ restarts' = restarts + 1
  /\ UNCHANGED <<lastScan, scans, view, answer>>

Next ==
  \/ \E e \in Envs, ns \in NetScans, es \in ExpScans : HandleScan(e, ns, es)
  \/ ControlRestart
  \/ \E id \in ResIds : SetLock(id, TRUE)
  \/ \E id \in ResIds : SetLock(id, FALSE)
  \/ EmitEvents
  \/ \E c \in Subs : Connect(c)
  \/ \E c \in Subs : Disconnect(c)
  \/ \E c \in Subs : FetchAnswered(c)
  \/ \E c \in Subs : FetchInstalled(c)

Spec == Init /\ [][Next]_vars

-----------------------------------------------------------------------------
\* Spec 4.2: every change of a resource the repository holds is published:
\* a step that changes a held resource leaves RESOURCE_UPDATED queued for
\* it. markAsLost writes state.health on the nested state object, past the
\* Proxy; only its refresh() announces the loss.
ChangesAreAnnounced ==
  [][\A id \in ResIds :
       repo[id] # NONE /\ repo'[id] # NONE /\ repo'[id] # repo[id] => id \in eventsQueue']_vars

\* Spec 4.6: the resource channel keeps every connected subscriber up to
\* date: once it has fetched, it differs from the repository only in
\* resources with a queued event (created resources included).
SubscribersSeeRepository ==
  \A c \in synced : \A id \in ResIds \ eventsQueue : view[c][id] = repo[id]

\* The inventory per key (Inventory.tla) that the repository represents: the
\* resource whose matching key is k, without its id; a key held by two
\* resources has no image in the inventory (DUP).
InvOf ==
  [k \in Macs \cup Qns |->
     LET held == {id \in Ids : repo[id].key = k}
     IN  CASE held = {} -> NONE
           [] Cardinality(held) = 1 ->
                LET r == repo[CHOOSE id \in held : TRUE]
                IN  [proto |-> r.proto, health |-> r.health, locked |-> r.locked]
           [] OTHER -> DUP]

\* The scan report without its environment.
ReportOf == IF lastScan = NONE THEN NONE ELSE [net |-> lastScan.net, exp |-> lastScan.exp]

Abs == INSTANCE Inventory WITH inv <- InvOf, report <- ReportOf

\* Spec 3, 4.5 and 8: the repository, with its id-keyed map, the key lookup
\* among the domain resources and makeId, implements the inventory the
\* spec describes: a merge is a Scan of it (a locked resource keeps its
\* state, one resource per key), a lock change a Lock, and every gateway
\* step and every restart leave it alone.
ImplementsInventory == Abs!Spec

\* Spec 4.1 (resources belong to an environment) and 4.5 (a merge marks
\* lost, updates or creates the domain resources of the scan's
\* environment): merging the SCAN result of environment e, accepted by
\* handleReturned's prefix check, changes or creates only resources of e.
\* It relates the prefix check, handleScannedNetworks' unfiltered domain
\* and markAsLost across two agents' scans.
MergeStaysInEnv ==
  [][scans' = scans + 1 =>
       \A id \in ResIds : repo'[id] # repo[id] =>
         repo'[id] # NONE /\ repo'[id].env = lastScan'.env]_vars

=============================================================================
