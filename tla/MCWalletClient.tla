--------------------------- MODULE MCWalletClient ---------------------------
(* Instances of WalletClient for TLC. *)
EXTENDS WalletClient

CONSTANTS d1, d2, r1, r2, a1

\* A wallet restarted with two paired dApps, one of which has a permission.
Paired == [peers |-> {d1, d2}, metadata |-> {d1}, permissions |-> {<<d1, a1>>}]

\* Both dApps ask, one for an operation, the other for permission.
OwnerTwo == [r \in Requests |-> IF r = r1 THEN d1 ELSE d2]
KindTwo == [r \in Requests |-> IF r = r1 THEN "operation" ELSE "permission"]

\* A wallet whose dApps have not asked for anything yet; one asks for permission.
PairedTwo == [peers |-> {d1, d2}, metadata |-> {}, permissions |-> {}]
OwnerOne == [r \in Requests |-> d1]
KindGrants == [r \in Requests |-> "permission"]
=============================================================================
