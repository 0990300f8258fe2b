------------------------------- MODULE MapGrids -------------------------------
(***************************************************************************)
(* Where the maps keep their players (Game/Map/Map.cpp, Grid.cpp): a map   *)
(* is cut into cells, each a Grid, with one more Grid for the radiation    *)
(* zone around them.  A player carries the index of its cell and a flag    *)
(* for the radiation zone; the map trusts both when it moves the player    *)
(* from grid to grid.  The world thread adds, moves and deletes players,   *)
(* the zone threads update the grids and process the jump queues; the      *)
(* barrier of ZoneUpdater keeps the two apart, so that an operation of one *)
(* of them on one player is a step here.                                   *)
(***************************************************************************)
EXTENDS Naturals, FiniteSets

CONSTANTS
  Maps,
  Cells,       \* the GRID_CELLS x GRID_CELLS cells of a map
  Outside,     \* an index or a position that is not in any cell
  Players,     \* Player objects: an account that logs in again is another
  Positions,   \* the cells the clients fly to, and Outside if they leave the map
  PortalCell,  \* the cell of the one portal of each map
  ToMap,       \* the map it leads to (PortalTemplate::ToMapId)
  ToCell       \* the cell of its ToPosition

ASSUME MapAssumption ==
  /\ Outside \notin Cells
  /\ Positions \subseteq Cells \union {Outside}
  /\ PortalCell \in [Maps -> Cells]
  /\ ToMap \in [Maps -> Maps]
  /\ ToCell \in [Maps -> Cells]

\* m_RadiationGrid, which no index names: GetGrid and Remove reach it through
\* an index that is out of range.
Radiation == Outside

Grids == Cells \union {Radiation}

VARIABLES
  objects,      \* Grid::m_Objects and m_Players of each grid of each map
  active,       \* Grid::m_State = Active
  jumpQueue,    \* Map::m_PlayersToJump, a map from raw pointers
  life,         \* the Player object
  map,          \* Object::m_Map
  position,     \* the cell under the position of its Spline
  index,        \* Object::m_GridIndex
  inRadiation,  \* Unit::m_InRadiationZone
  jumping,      \* Player::m_Jumping
  undefined,    \* a freed player has been used
  strayed       \* history: the players that have been out of bounds

vars == <<objects, active, jumpQueue, life, map, position, index, inRadiation,
          jumping, undefined, strayed>>

Lives ==
  {"loaded",    \* read from the database, not yet in its map
   "alive",     \* AddToMap has been called
   "justDied",  \* m_DeathState = JUST_DIED
   "freed"}     \* deleted

\* A player is loaded where it was saved, which may be out of bounds.
Init ==
  /\ objects = [m \in Maps |-> [g \in Grids |-> {}]]
  /\ active = [m \in Maps |-> [g \in Grids |-> TRUE]]
  /\ jumpQueue = [m \in Maps |-> {}]
  /\ life = [p \in Players |-> "loaded"]
  /\ map \in [Players -> Maps]
  /\ position \in [Players -> Positions]
  /\ index = [p \in Players |-> CHOOSE c \in Cells : TRUE]
  /\ inRadiation = [p \in Players |-> FALSE]
  /\ jumping = [p \in Players |-> FALSE]
  /\ undefined = FALSE
  /\ strayed = {p \in Players : position[p] = Outside}

InTheWorld(p) == life[p] \in {"alive", "justDied"}

\* Grid::Add and Grid::Remove, as functions of the grids of a map.
Put(grids, g, p) == [grids EXCEPT ![g] = @ \union {p}]
Take(grids, g, p) == [grids EXCEPT ![g] = @ \ {p}]

\* Mutant: an idle grid stays idle.
WakeNothing(m, g) == UNCHANGED active

\* Grid::Add wakes an idle grid.
Wake(m, g) == active' = [active EXCEPT ![m][g] = TRUE]

UseAfterFree ==
  /\ undefined' = TRUE
  /\ UNCHANGED <<objects, active, jumpQueue, life, map, position, index,
                 inRadiation, jumping>>

-------------------------------------------------------------------------------
(* Operations of a map *)

\* Mutant: a player added out of bounds is not flagged.
AddUnflagged(grids, m, p, c) ==
  /\ objects' = [grids EXCEPT ![m] = Put(@, c, p)]
  /\ Wake(m, c)
  /\ index' = [index EXCEPT ![p] = c]
  /\ UNCHANGED inRadiation

\* Map::Add at cell c, for a player that `grids` holds as it finds them.
Add(grids, m, p, c) ==
  /\ objects' = [grids EXCEPT ![m] = Put(@, c, p)]
  /\ Wake(m, c)
  /\ index' = [index EXCEPT ![p] = c]
  /\ inRadiation' = [inRadiation EXCEPT ![p] = (c = Outside) \/ @]

\* The grids of all maps after Map::Remove, which goes by the player's index.
Removed(p) == [objects EXCEPT ![map[p]] = Take(@, index[p], p)]

\* Map::Move to a position that is out of bounds: the first time, the player
\* changes to the radiation grid; its index stays.
MoveOutside(p) ==
  /\ IF inRadiation[p]
     THEN UNCHANGED <<objects, active, inRadiation>>
     ELSE /\ objects' = [objects EXCEPT ![map[p]] =
                           Put(Take(@, index[p], p), Radiation, p)]
          /\ Wake(map[p], Radiation)
          /\ inRadiation' = [inRadiation EXCEPT ![p] = TRUE]
  /\ UNCHANGED index

\* Mutant: the player is added to its new grid and stays in the old one.
MoveInsideKeepingGrid(p, c) ==
  IF c = index[p]
  THEN UNCHANGED <<objects, active, index, inRadiation>>
  ELSE /\ objects' = [objects EXCEPT ![map[p]] = Put(@, c, p)]
       /\ Wake(map[p], c)
       /\ index' = [index EXCEPT ![p] = c]
       /\ inRadiation' = [inRadiation EXCEPT ![p] = FALSE]

\* Map::Move to cell c: nothing unless the index changes.
MoveInside(p, c) ==
  IF c = index[p]
  THEN UNCHANGED <<objects, active, index, inRadiation>>
  ELSE LET old == IF inRadiation[p] THEN Radiation ELSE index[p]
       IN /\ objects' = [objects EXCEPT ![map[p]] = Put(Take(@, old, p), c, p)]
          /\ Wake(map[p], c)
          /\ index' = [index EXCEPT ![p] = c]
          /\ inRadiation' = [inRadiation EXCEPT ![p] = FALSE]

-------------------------------------------------------------------------------
(* The world thread *)

\* HandleLogin: AddToMap.
HandleLogin(p) ==
  /\ life[p] = "loaded"
  /\ life' = [life EXCEPT ![p] = "alive"]
  /\ Add(objects, map[p], p, position[p])
  /\ UNCHANGED <<jumpQueue, map, position, jumping, undefined>>

\* HandleObjectMove: the spline catches up with the time that has passed, which
\* brings the player to c, and the map follows.  Nobody asks whether it is dead.
HandleObjectMove(p, c) ==
  /\ InTheWorld(p)
  /\ position' = [position EXCEPT ![p] = c]
  /\ IF c = Outside THEN MoveOutside(p) ELSE MoveInside(p, c)
  /\ UNCHANGED <<jumpQueue, life, map, jumping, undefined>>

\* Mutant: m_Jumping is set before AddToJumpQueue, which then turns away.
HandlePortalJumpFlagFirst(p) ==
  /\ InTheWorld(p)
  /\ index[p] = PortalCell[map[p]] /\ position[p] = PortalCell[map[p]]
  /\ jumping' = [jumping EXCEPT ![p] = TRUE]
  /\ UNCHANGED <<objects, active, jumpQueue, life, map, position, index,
                 inRadiation, undefined>>

\* HandlePortalJump near the portal: AddToJumpQueue, then m_Jumping.
HandlePortalJump(p) ==
  /\ InTheWorld(p)
  /\ index[p] = PortalCell[map[p]] /\ position[p] = PortalCell[map[p]]
  /\ jumpQueue' = IF jumping[p] THEN jumpQueue
                  ELSE [jumpQueue EXCEPT ![map[p]] = @ \union {p}]
  /\ jumping' = [jumping EXCEPT ![p] = TRUE]
  /\ UNCHANGED <<objects, active, life, map, position, index, inRadiation,
                 undefined>>

\* ~Player: RemoveFromMap.  The jump queue is not told.
Delete(p) ==
  /\ InTheWorld(p)
  /\ objects' = Removed(p)
  /\ life' = [life EXCEPT ![p] = "freed"]
  /\ UNCHANGED <<active, jumpQueue, map, position, index, inRadiation, jumping,
                 undefined>>

-------------------------------------------------------------------------------
(* The zone thread of map m *)

\* Mutant: the entry stays in the jump queue.
ProcessJumpKeepingEntry(m, p) ==
  /\ p \in jumpQueue[m]
  /\ IF life[p] = "freed"
     THEN UseAfterFree
     ELSE /\ map' = [map EXCEPT ![p] = ToMap[m]]
          /\ position' = [position EXCEPT ![p] = ToCell[m]]
          /\ Add(Removed(p), ToMap[m], p, ToCell[m])
          /\ jumping' = [jumping EXCEPT ![p] = FALSE]
          /\ UNCHANGED <<jumpQueue, life, undefined>>

\* ProcessJumpQueue, when the jump delay of the entry of p has passed.
ProcessJump(m, p) ==
  /\ p \in jumpQueue[m]
  /\ IF life[p] = "freed"
     THEN UseAfterFree
     ELSE /\ map' = [map EXCEPT ![p] = ToMap[m]]
          /\ position' = [position EXCEPT ![p] = ToCell[m]]
          /\ Add(Removed(p), ToMap[m], p, ToCell[m])
          /\ jumping' = [jumping EXCEPT ![p] = FALSE]
          /\ jumpQueue' = [jumpQueue EXCEPT ![m] = @ \ {p}]
          /\ UNCHANGED <<life, undefined>>

\* Grid::CheckForPlayer when its interval has passed.
CheckForPlayer(m, g) ==
  /\ objects[m][g] = {}
  /\ active' = [active EXCEPT ![m][g] = FALSE]
  /\ UNCHANGED <<objects, jumpQueue, life, map, position, index, inRadiation,
                 jumping, undefined>>

\* The grids Map::Update updates: the active ones, and always the radiation grid.
Updated(m, g) == active[m][g] \/ g = Radiation

\* Grid::Update reaches p.  A player that has just died leaves the map, at each
\* update, for its state never becomes DEAD.
UpdatePlayer(m, g, p) ==
  /\ Updated(m, g) /\ p \in objects[m][g]
  /\ \/ /\ life[p] = "freed"
        /\ UseAfterFree
     \/ /\ life[p] = "justDied"
        /\ objects' = Removed(p)
        /\ UNCHANGED <<active, jumpQueue, life, map, position, index,
                       inRadiation, jumping, undefined>>

\* Mutant: Kill uses the DEAD state, which Player::Update does not handle.
KillForGood(p, c) ==
  /\ life[p] = "alive"
  /\ life' = [life EXCEPT ![p] = "dead"]
  /\ position' = [position EXCEPT ![p] = c]
  /\ UNCHANGED <<objects, active, jumpQueue, map, index, inRadiation, jumping,
                 undefined>>

\* Unit::Kill, by an attacker or by the radiation; the spline is brought up to
\* date, to c, and the map is not told.
Kill(p, c) ==
  /\ life[p] = "alive"
  /\ life' = [life EXCEPT ![p] = "justDied"]
  /\ position' = [position EXCEPT ![p] = c]
  /\ UNCHANGED <<objects, active, jumpQueue, map, index, inRadiation, jumping,
                 undefined>>

\* BuildObjectSpawnAndSend shows p to another player: as in Kill, the spline is
\* brought up to date and the map is not told.
UpdatePosition(p, c) ==
  /\ InTheWorld(p)
  /\ position' = [position EXCEPT ![p] = c]
  /\ UNCHANGED <<objects, active, jumpQueue, life, map, index, inRadiation,
                 jumping, undefined>>

-------------------------------------------------------------------------------
WorldStep(p) ==
  \/ HandleLogin(p)
  \/ \E c \in Positions : HandleObjectMove(p, c)
  \/ HandlePortalJump(p)
  \/ Delete(p)

ZoneStep(m) ==
  \/ \E p \in Players : ProcessJump(m, p)
  \/ \E g \in Grids : CheckForPlayer(m, g)
  \/ \E g \in Grids, p \in Players : UpdatePlayer(m, g, p)

Next ==
  /\ ~undefined
  /\ \/ \E p \in Players : WorldStep(p)
     \/ \E m \in Maps : ZoneStep(m)
     \/ \E p \in Players, c \in Positions : Kill(p, c) \/ UpdatePosition(p, c)
  /\ strayed' = strayed \union {p \in Players : position'[p] = Outside}

Spec == Init /\ [][Next]_vars

\* Every tick updates every map, and every update processes its jump queue.
FairSpec ==
  /\ Spec
  /\ \A m \in Maps, p \in Players :
       WF_vars(~undefined /\ ProcessJump(m, p) /\ UNCHANGED strayed)

-------------------------------------------------------------------------------
TypeOK ==
  /\ objects \in [Maps -> [Grids -> SUBSET Players]]
  /\ active \in [Maps -> [Grids -> BOOLEAN]]
  /\ jumpQueue \in [Maps -> SUBSET Players]
  /\ life \in [Players -> Lives]
  /\ map \in [Players -> Maps]
  /\ position \in [Players -> Cells \union {Outside}]
  /\ index \in [Players -> Cells \union {Outside}]
  /\ inRadiation \in [Players -> BOOLEAN]
  /\ jumping \in [Players -> BOOLEAN]
  /\ undefined \in BOOLEAN
  /\ strayed \subseteq Players

\* A player who is alive is never lost: some grid of its own map holds it and
\* will be updated, in a cell that had gone idle as well as in the radiation
\* zone.  Lost, it would send its packets to a ship that nothing updates.
AliveIsUpdated ==
  \A p \in Players : life[p] = "alive" =>
    \E g \in Grids : p \in objects[map[p]][g] /\ Updated(map[p], g)

\* GetGrid is right about a player that is not flagged: the index is in range,
\* or Map::Move would index m_Grids out of bounds (Map.cpp:364 and :385), and the
\* handlers that look for a portal or a cargo box look in the grid that holds the
\* player.
GetGridIsRight ==
  \A p \in Players : InTheWorld(p) /\ ~inRadiation[p] =>
    /\ index[p] \in Cells
    /\ life[p] = "alive" => p \in objects[map[p]][index[p]]

\* A jump is pending in one map at most, the player's own, and only while the
\* player is jumping: ProcessJumpQueue removes the player from the map that
\* processes it, and never jumps it twice.
JumpsFromOwnMap ==
  \A m \in Maps : \A p \in jumpQueue[m] : map[p] = m /\ jumping[p]

\* A grid holds only players that exist, whose map and cell it is, as long as
\* they keep within the bounds of the maps: "Remove Object from map"
\* (Map.cpp:319) leaves no grid that still holds the player.  It does leave one
\* once a player has been out of bounds, see Map.cpp:375.
HeldByOwnGridOnly ==
  \A m \in Maps, g \in Grids : \A p \in objects[m][g] \ strayed :
    /\ InTheWorld(p)
    /\ map[p] = m
    /\ g = index[p]

\* A player who jumps arrives, and can jump again: the flag that turns further
\* requests away is set only with an entry that will clear it.
JumpCompletes ==
  \A p \in Players :
    jumping[p] ~> (~jumping[p] \/ life[p] = "freed" \/ undefined)

===============================================================================
