------------------------------ MODULE DbStore ------------------------------
(***************************************************************************)
(* DbService: the control plane's durable key-value store. All namespaces  *)
(* are held in memory; every save flushes the whole snapshot to disk,      *)
(* first to <dbPath>.back and then to <dbPath>, each write retried up to   *)
(* MAX_WRITE_TRY times. On start the primary file is parsed; if that fails *)
(* the store starts empty and the file is copied to <dbPath>.bad by an     *)
(* asynchronous fs.access / fs.cp callback.                                *)
(*                                                                         *)
(* Only the `resources` namespace is ever written (ResourceRepository.add  *)
(* saves the DAO of a newly created resource under its id, once); a       *)
(* snapshot is therefore the set of resource ids it holds. A file holds a  *)
(* complete snapshot, or is CORRUPT (truncated: open(..., 'w') empties it  *)
(* before the write), or is ABSENT.                                        *)
(*                                                                         *)
(* The process may crash at any point of a flush; the file being written   *)
(* is then either untouched or truncated. A write may fail before the     *)
(* truncation (openSync throws) or after it (writeSync/fsyncSync throw).  *)
(***************************************************************************)
EXTENDS Naturals, FiniteSets

CONSTANTS
  Keys,          \* resource ids that ResourceRepository.add may save
  MaxWriteTry,   \* DbService.MAX_WRITE_TRY
  MaxSaves,      \* bound on the number of saves
  MaxFailures,   \* bound on failed file writes
  MaxCrashes     \* bound on process crashes

ASSUME MaxWriteTry \in Nat \ {0}
ASSUME {MaxSaves, MaxFailures, MaxCrashes} \subseteq Nat

Snapshots == SUBSET Keys

\* The content of a file: a complete snapshot, truncated, or no file.
Files   == [st : {"snap"}, ids : Snapshots] \cup [st : {"corrupt", "absent"}, ids : {{}}]
File(s) == [st |-> "snap", ids |-> s]
CORRUPT == [st |-> "corrupt", ids |-> {}]
ABSENT  == [st |-> "absent", ids |-> {}]
Intact(f) == f.st = "snap"

\* The ways one write of a file can end.
Outcomes == {"ok", "openFail", "writeFail"}

VARIABLES
  up,          \* the process is running (DbService constructed)
  mem,         \* DbService.db.resources: the ids held in memory
  primary,     \* content of <dbPath>
  backup,      \* content of <dbPath>.back
  bad,         \* content of <dbPath>.bad
  phase,       \* saveToFile: "idle", writing "back" or writing "prim"
  try,         \* saveToFile: tryNum
  cpPending,   \* the constructor's fs.access / fs.cp callback has not run
  lastReturn,  \* history: how the last flush ended: "none", "ok", "thrown"
  saves, failures, crashes

vars == <<up, mem, primary, backup, bad, phase, try, cpPending, lastReturn,
          saves, failures, crashes>>

TypeOK ==
  /\ up \in BOOLEAN
  /\ mem \in Snapshots
  /\ {primary, backup, bad} \subseteq Files
  /\ phase \in {"idle", "back", "prim"}
  /\ try \in 1..MaxWriteTry
  /\ cpPending \in BOOLEAN
  /\ lastReturn \in {"none", "ok", "thrown"}
  /\ saves \in 0..MaxSaves /\ failures \in 0..MaxFailures /\ crashes \in 0..MaxCrashes

\* Before the process starts, the files are whatever an earlier run (or an
\* operator) left on disk; nothing has ever written .bad.
Init ==
  /\ up = FALSE
  /\ mem = {}
  /\ primary \in Files
  /\ backup \in Files
  /\ bad = ABSENT
  /\ phase = "idle" /\ try = 1
  /\ cpPending = FALSE
  /\ lastReturn = "none"
  /\ saves = 0 /\ failures = 0 /\ crashes = 0

-----------------------------------------------------------------------------
\* The constructor: the snapshot parsed from the primary file, or an empty
\* store when readFileSync or JSON.parse throws.
Loaded(f) == IF Intact(f) THEN f.ids ELSE {}

Start ==
  /\ ~up
  /\ up' = TRUE
  /\ mem' = Loaded(primary)
  /\ cpPending' = ~Intact(primary)
  /\ lastReturn' = "none"
  /\ UNCHANGED <<primary, backup, bad, phase, try, saves, failures, crashes>>

\* The fs.access callback of the constructor, run later by the event loop:
\* fs.cp copies whatever <dbPath> holds by then (nothing if it is absent).
Quarantine ==
  /\ up /\ cpPending /\ phase = "idle"
  /\ bad' = IF primary = ABSENT THEN bad ELSE primary
  /\ cpPending' = FALSE
  /\ UNCHANGED <<up, mem, primary, backup, phase, try, lastReturn,
                 saves, failures, crashes>>

\* DbService.save('/resources/<id>', dao): the in-memory map is updated and
\* saveToFile starts (synchronously, so nothing else runs until it ends).
Save(k) ==
  /\ up /\ phase = "idle" /\ saves < MaxSaves
  /\ k \notin mem
  /\ mem' = mem \cup {k}
  /\ phase' = "back" /\ try' = 1
  /\ saves' = saves + 1
  /\ UNCHANGED <<up, primary, backup, bad, cpPending, lastReturn, failures, crashes>>

\* TestService's DbService.save('jobs', ...): the path has no '/', so the
\* value lands in a namespace the snapshot does not contain; the flush runs.
SaveBadPath ==
  /\ up /\ phase = "idle" /\ saves < MaxSaves
  /\ phase' = "back" /\ try' = 1
  /\ saves' = saves + 1
  /\ UNCHANGED <<up, mem, primary, backup, bad, cpPending, lastReturn, failures, crashes>>

\* The content of a file after one write of snapshot s that ended with o.
Written(f, s, o) == CASE o = "ok"       -> File(s)
                      [] o = "openFail" -> f
                      [] o = "writeFail" -> CORRUPT

\* Where the loop goes after the backup write failed: `continue` to the next
\* try, or out of the loop (saveToFile returns normally) after the last.
\* Mutant: without the `continue`, the primary is written anyway.
AfterBackupFailFallThrough(t) == [phase |-> "prim", try |-> t]

\* Mutant: the loop bound is off by one, so a try past MAX_WRITE_TRY runs.
AfterBackupFailOffByOne(t) ==
  IF t <= MaxWriteTry THEN [phase |-> "back", try |-> t + 1]
                      ELSE [phase |-> "idle", try |-> t]

AfterBackupFail(t) ==
  IF t < MaxWriteTry THEN [phase |-> "back", try |-> t + 1]
                     ELSE [phase |-> "idle", try |-> t]

\* One try of writing <dbPath>.back (open, ftruncate, write, fsync, close).
WriteBackup ==
  /\ up /\ phase = "back"
  /\ \E o \in Outcomes :
       /\ o # "ok" => failures < MaxFailures
       /\ backup' = Written(backup, mem, o)
       /\ failures' = IF o = "ok" THEN failures ELSE failures + 1
       /\ IF o = "ok"
            THEN /\ phase' = "prim" /\ UNCHANGED <<try, lastReturn>>
            ELSE /\ phase' = AfterBackupFail(try).phase
                 /\ try' = AfterBackupFail(try).try
                 /\ lastReturn' = IF phase' = "idle" THEN "ok" ELSE lastReturn
  /\ UNCHANGED <<up, mem, primary, bad, cpPending, saves, crashes>>

\* One try of writing <dbPath>: success returns; a failure on the last try
\* throws 'Cannot write db', any other goes round the loop again.
WritePrimary ==
  /\ up /\ phase = "prim"
  /\ \E o \in Outcomes :
       /\ o # "ok" => failures < MaxFailures
       /\ primary' = Written(primary, mem, o)
       /\ failures' = IF o = "ok" THEN failures ELSE failures + 1
       /\ CASE o = "ok" ->
                 phase' = "idle" /\ lastReturn' = "ok" /\ UNCHANGED try
            [] try = MaxWriteTry ->
                 phase' = "idle" /\ lastReturn' = "thrown" /\ UNCHANGED try
            [] OTHER ->
                 phase' = "back" /\ try' = try + 1 /\ UNCHANGED lastReturn
  /\ UNCHANGED <<up, mem, backup, bad, cpPending, saves, crashes>>

\* The process dies: memory and pending callbacks are gone; the file being
\* written is left untouched or truncated.
Crash ==
  /\ up /\ crashes < MaxCrashes
  /\ up' = FALSE /\ mem' = {} /\ cpPending' = FALSE
  /\ phase' = "idle" /\ try' = 1
  /\ backup'  \in IF phase = "back" THEN {backup, CORRUPT} ELSE {backup}
  /\ primary' \in IF phase = "prim" THEN {primary, CORRUPT} ELSE {primary}
  /\ crashes' = crashes + 1
  /\ UNCHANGED <<bad, lastReturn, saves, failures>>

Next ==
  \/ Start
  \/ Quarantine
  \/ \E k \in Keys : Save(k)
  \/ SaveBadPath
  \/ WriteBackup
  \/ WritePrimary
  \/ Crash

Spec == Init /\ [][Next]_vars

-----------------------------------------------------------------------------
\* The backup-then-primary order of saveToFile: <dbPath> is overwritten with
\* a complete snapshot only when <dbPath>.back already holds that snapshot.
FlushOrder ==
  [][primary' # primary /\ Intact(primary') => backup' = primary']_vars

\* Spec 4.1: a save whose flush returned without throwing is on disk: while
\* the store is idle after such a flush, the primary file holds memory.
NoSilentLoss ==
  up /\ phase = "idle" /\ lastReturn = "ok" => primary = File(mem)

=============================================================================
