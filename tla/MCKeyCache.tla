------------------------------ MODULE MCKeyCache ------------------------------
EXTENDS KeyCache, TLC

CONSTANTS k1, k2, k3, v1, v2, a1, a2, r1, r2

\* Each request presents a key of its own.
AsksApart == (v1 :> {k1}) @@ (v2 :> {k2})

\* The requests present the same keys.
AsksShared == [t \in Verifiers |-> {k1}]

\* One replica, or a second one for the second administrator.
HomeSingle == [p \in Verifiers \cup Admins |-> r1]
HomeDouble == [p \in Verifiers \cup Admins |-> IF p = a2 THEN r2 ELSE r1]

\* Both administrators rotate, and one of them makes the other calls too.
CallsShared == (a1 :> {"rotate"}) @@ (a2 :> {"rotate", "delete", "update"})

\* Every administrator makes every call, or only updates.
CallsAll == [a \in Admins |-> CallKinds]
CallsUpdate == [a \in Admins |-> {"update"}]
=============================================================================
