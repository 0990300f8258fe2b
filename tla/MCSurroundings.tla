---------------------------- MODULE MCSurroundings ----------------------------
(* An instance of Surroundings for TLC: a row of grids.                    *)
EXTENDS Surroundings

Row == [c \in Cells |-> {d \in Cells : d \in {c - 1, c, c + 1}}]

===============================================================================
