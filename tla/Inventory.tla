------------------------------ MODULE Inventory ------------------------------
(***************************************************************************)
(* What the resource inventory promises (spec 3, 4.2, 4.5, 5), stated per *)
(* matching key and without resource ids. The control plane holds at most  *)
(* one resource per MAC address or qualified name. A merged scan leaves a *)
(* locked resource alone (spec 3: reconciliation must never overwrite the *)
(* state of a locked resource); it gives every other known key it reports *)
(* the reported health, marks every other known key it does not report    *)
(* LOST, and creates each new key it reports, unlocked, with the reported *)
(* protocol and health. A job's lock or unlock changes only the lock of   *)
(* one known resource. Resources and their locks are persisted (spec 3,   *)
(* 4.2, 8: the durability round-trip), so a restart of the control plane  *)
(* changes nothing here: it is not a step of this specification.          *)
(***************************************************************************)
EXTENDS Naturals, Sequences

CONSTANTS Macs, Qns, ScanHealth, ScanProtos, MaxCopies, NONE

Keys == Macs \cup Qns

\* The protocol a reported proto string names (Export.ts ExportProto).
ExportProto(s) == IF s \in {"iscsi", "nvmeof", "nfs"} THEN s ELSE "undefined"

VARIABLES
  inv,     \* inv[k]: the resource with key k, [proto, health, locked], or NONE
  report   \* the last scan merged: [net, exp], or NONE

\* The entries a scan gives for one key, in the order it lists them.
Entries(S) == UNION {[1..n -> S] : n \in 1..MaxCopies}

\* A scan: the entries of each port seen (its health) and of each block
\* export seen (its protocol and health).
NetScan == UNION {[D -> Entries(ScanHealth)] : D \in SUBSET Macs}
ExpScan == UNION {[E -> Entries([proto : ScanProtos, health : ScanHealth])] : E \in SUBSET Qns}

Init ==
  /\ inv = [k \in Keys |-> NONE]
  /\ report = NONE

\* A key reported several times takes its last entry.
LastEntry(s) == s[Len(s)]
Reported(k, r) == k \in DOMAIN r.net \cup DOMAIN r.exp
ReportedHealth(k, r) == IF k \in Macs THEN LastEntry(r.net[k]) ELSE LastEntry(r.exp[k]).health
ReportedProto(k, r) == IF k \in Macs THEN NONE ELSE ExportProto(LastEntry(r.exp[k]).proto)

\* The resource held for key k after merging scan r.
AfterScan(k, r) ==
  CASE inv[k] = NONE /\ Reported(k, r) ->
         [proto |-> ReportedProto(k, r), health |-> ReportedHealth(k, r), locked |-> FALSE]
    [] inv[k] = NONE -> NONE
    [] inv[k].locked -> inv[k]
    [] Reported(k, r) -> [inv[k] EXCEPT !.health = ReportedHealth(k, r)]
    [] OTHER -> [inv[k] EXCEPT !.health = "LOST"]

Scan ==
  /\ report' \in [net : NetScan, exp : ExpScan]
  /\ inv' = [k \in Keys |-> AfterScan(k, report')]

Lock(k, v) ==
  /\ inv[k] # NONE
  /\ inv' = [inv EXCEPT ![k].locked = v]
  /\ UNCHANGED report

Next ==
  \/ \E k \in Keys, v \in BOOLEAN : Lock(k, v)
  \/ Scan

Spec == Init /\ [][Next]_<<inv, report>>

=============================================================================
