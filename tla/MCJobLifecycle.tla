--------------------------- MODULE MCJobLifecycle ---------------------------
(* Model values and target assignments for checking JobLifecycle.          *)
EXTENDS JobLifecycle, TLC

CONSTANTS j1, j2, t1, s1, r1, r2   \* model values

\* One control job on one resource and one agent SCAN (no tgt).
TgtOne == [j \in Jobs |-> IF j = j1 THEN {r1} ELSE {}]

\* Two control jobs on different resources and one agent SCAN (no tgt).
TgtDisjoint == (j1 :> {r1}) @@ (j2 :> {r2}) @@ (t1 :> {}) @@ (s1 :> {})

\* Two control jobs on the same resource (e.g. EXPORT_ADD then EXPORT_RM of
\* one target) and one agent SCAN.
TgtOverlap == (j1 :> {r1}) @@ (j2 :> {r1}) @@ (t1 :> {}) @@ (s1 :> {})
\* j1 is an iSCSI export (its OK starts the TEST job t1), j2 removes it.
TypeAll == (j1 :> "EXPORT_ADD_ISCSI") @@ (j2 :> "EXPORT_RM_ISCSI")
             @@ (t1 :> "TEST") @@ (s1 :> "SCAN")
TypeMC == [j \in Jobs |-> TypeAll[j]]

TestOfAll == (j1 :> t1) @@ (j2 :> NONE)
TestOfMC  == [j \in CtlJobs |-> TestOfAll[j]]
=============================================================================
