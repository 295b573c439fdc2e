----------------------------- MODULE MCBroadcast -----------------------------
(* Instances of Broadcast for TLC.                                         *)
EXTENDS Broadcast, TLC

CONSTANTS c1, c2, c3, p1, p2

ThreeCustomers == {c1, c2, c3}
OneCustomer == {c1}
TwoProcs == {p1, p2}

Symmetry == Permutations(ThreeCustomers) \union Permutations(TwoProcs)

=============================================================================
