------------------------------ MODULE MCDatabase -------------------------------
(* Instances of Database for TLC. *)
EXTENDS Database, TLC

\* Statements are interchangeable, and so are players.
Symmetry == Permutations(Statements) \union Permutations(Players)

===============================================================================
