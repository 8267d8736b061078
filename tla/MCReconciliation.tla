-------------------------- MODULE MCReconciliation --------------------------
(* Model values for checking Reconciliation.                                *)
EXTENDS Reconciliation, TLC

CONSTANTS m1, q1, t1, t2, u1, u2   \* model values
CONSTANTS lab, prod, n1, n2        \* path segments of environment keys

\* The control plane's key lab-n1; lab-n2 is another environment of the
\* same site, prod-n1 one of another site.
CtlEnv == <<lab, n1>>
EnvsOne == {CtlEnv}
EnvsShared == {<<lab, n1>>, <<lab, n2>>, <<prod, n1>>}

\* Resource ids are interchangeable (makeId draws them at random), and so
\* are subscribers (the gateway treats every socket alike).
SymIdsSubs == Permutations({t1, t2}) \cup Permutations({u1, u2})
=============================================================================
