------------------------------- MODULE ZoneTick -------------------------------
(***************************************************************************)
(* What Manager::Update promises its caller, World::Update: a tick hands   *)
(* every zone out once, the zones are updated in parallel in any order,    *)
(* and the call does not return before the last of them has finished.      *)
(* Between two ticks only the world thread touches the maps.               *)
(***************************************************************************)
CONSTANT Zones

VARIABLES
  phase,    \* "world": the world thread's own phases; "zones": inside a tick
  todo,     \* the zones of this tick nobody has started
  running   \* the zones being updated at this moment

tickVars == <<phase, todo, running>>

Init ==
  /\ phase = "world"
  /\ todo = {}
  /\ running = {}

BeginTick ==
  /\ phase = "world"
  /\ phase' = "zones"
  /\ todo' = Zones
  /\ UNCHANGED running

StartZone(z) ==
  /\ phase = "zones"
  /\ z \in todo
  /\ todo' = todo \ {z}
  /\ running' = running \union {z}
  /\ UNCHANGED phase

FinishZone(z) ==
  /\ z \in running
  /\ running' = running \ {z}
  /\ UNCHANGED <<phase, todo>>

EndTick ==
  /\ phase = "zones"
  /\ todo = {}
  /\ running = {}
  /\ phase' = "world"
  /\ UNCHANGED <<todo, running>>

Next ==
  \/ BeginTick
  \/ \E z \in Zones : StartZone(z) \/ FinishZone(z)
  \/ EndTick

Spec == Init /\ [][Next]_tickVars

===============================================================================
