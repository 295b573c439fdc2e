------------------------------ MODULE MCRewards ------------------------------
(* Small instances of Rewards for TLC. *)
EXTENDS Rewards, TLC

CONSTANTS u1, u2, p1, p2, hat, cap

OneUser  == {u1}
TwoUsers == {u1, u2}
TwoProcs == {p1, p2}

Symmetry == Permutations(Procs) \union Permutations(Users)

\* The wheel: a coin prize and an empty one, as in prisma/seed.ts.
Wheel      == {[type |-> "COINS", coins |-> 3], [type |-> "NOTHING", coins |-> 0]}
CoinWheel  == {[type |-> "COINS", coins |-> 2]}
EmptyWheel == {[type |-> "NOTHING", coins |-> 0]}

NoLadder    == <<>>
ShortLadder == <<1>>

OneItem  == {hat}
TwoItems == {hat, cap}
Prices   == [i \in Items |-> 1]
Unlimited == <<>>
OneEach  == [i \in {hat} |-> 1]
OneCap   == [i \in {cap} |-> 1]
=============================================================================
