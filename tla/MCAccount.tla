------------------------------- MODULE MCAccount ------------------------------
(* An instance of Account for TLC.                                         *)
EXTENDS Account, TLC

SessionSymmetry == Permutations(Sessions)

\* Two resources, of which a mob carries one that fits and one that does not.
TwoKinds == <<"prometium", "endurium">>
SomeDrops == {<<1, 0>>, <<2, 3>>}
ThreeLevels == <<0, 2, 5>>

===============================================================================
