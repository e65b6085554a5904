--------------------------- MODULE MCCanaryRollout ---------------------------
(* Small instances of CanaryRollout.                                       *)
EXTENDS CanaryRollout, TLC

CONSTANTS a1, a2, p1, p2, q, i1, i2

\* p1 and p2 belong to the first app and q to none.
MCAppOf == (p1 :> a1) @@ (p2 :> a1) @@ (q :> TenantWide)
MCHomeApp == [i \in Instances |-> IF i = i2 /\ a2 \in Apps THEN a2 ELSE a1]
\* The first bucket is the one an off-by-one would move.
MCBucketOf == [i \in Instances |-> IF i = i1 THEN 0 ELSE 60]
\* Only the policies in use.
MCAppOfUsed == [p \in Policies |-> MCAppOf[p]]
=============================================================================
