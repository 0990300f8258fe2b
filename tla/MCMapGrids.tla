------------------------------ MODULE MCMapGrids ------------------------------
(* Instances of MapGrids for TLC: two maps joined by their portals. *)
EXTENDS MapGrids, TLC

CONSTANTS m1, m2, near, far

\* Each portal is in the cell "near" and leads to the other map, to the cell of
\* its portal or to the other cell.
Portals == [m \in Maps |-> near]
OtherMap == m1 :> m2 @@ m2 :> m1
Arrivals == m1 :> near @@ m2 :> far

===============================================================================
