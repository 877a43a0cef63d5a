------------------------------ MODULE MCBilling ------------------------------
(* Instances of Billing for TLC.                                           *)
EXTENDS Billing, TLC

CONSTANTS KeyCap, UserLimit, OrgLimit, MaxByok, MaxPlain

Limits ==
  [a \in Accounts |-> CASE a \in Keys -> KeyCap [] a \in Users -> UserLimit [] OTHER -> OrgLimit]

\* Stored keys multiply the ways to pay, so fewer requests show as much.
RequestBound == [stores \in BOOLEAN |-> IF stores THEN MaxByok ELSE MaxPlain]

Interchangeable == Permutations(Slots) \cup Permutations(Keys)

=============================================================================
