----------------------------- MODULE Surroundings -----------------------------
(***************************************************************************)
(* What the clients are shown of one map (Game/Map/BuildObjectData.cpp,    *)
(* Grid.cpp, Game/Entity/Player/SurroundingObject.cpp, BonusBox.cpp and    *)
(* the pool of the boxes).  A player keeps an entry for each object that   *)
(* was spawned on its client, m_Surroundings; the scans of the grids add   *)
(* entries, the player's own update despawns what has been out of range    *)
(* for a while, and everybody else only checks whether there is an entry.  *)
(* The grids are updated in a fixed order, in one thread, and the barrier  *)
(* of ZoneUpdater keeps the handlers, which the world thread runs, to the  *)
(* time between two ticks.                                                 *)
(*                                                                         *)
(* The objects are the players' ships, the mobs they destroy, and one cargo*)
(* box, which changes its colour; who is in range of whom is left open at  *)
(* each check.                                                             *)
(***************************************************************************)
EXTENDS Naturals

CONSTANTS
  Players,
  Mobs,
  Box,        \* the cargo box a ship leaves when it is destroyed
  NumCells,   \* how many grids there are
  Adjacent,   \* the grids next to each grid, itself included
  BoxCell,    \* where the mobs are and the box falls; bound: mobs keep to a grid
  Mates,      \* the company of the box's owner, but for the owner
  Stayers,    \* the players who stay on the map and in range of the box
  Settled,    \* the players who do not change their cell
  Leavers,    \* bound: the players who log out
  Targeting,  \* bound: the players who select others
  Hunters,    \* bound: the players who come in range of mobs and of the box
  Away,       \* another map; the box before it has fallen, a mob that is DEAD
  Gone,       \* deleted
  None

\* The grids, in the order in which Map::Update visits them.
Cells == 1..NumCells

\* Before the grids come the pool and the jump queue, after them the world thread.
Jumps == 0
World == NumCells + 1

ASSUME SurroundingsAssumption ==
  /\ Box \notin Players \union Mobs /\ None \notin Players \union Mobs
  /\ Players \intersect Mobs = {}
  /\ NumCells \in Nat \ {0}
  /\ Adjacent \in [Cells -> SUBSET Cells]
  /\ \A c \in Cells : c \in Adjacent[c]
  /\ \A c \in Cells, d \in Cells : d \in Adjacent[c] => c \in Adjacent[d]
  /\ BoxCell \in Cells
  /\ Mates \union Stayers \union Settled \subseteq Players
  /\ Leavers \union Targeting \union Hunters \subseteq Players
  /\ Stayers \subseteq Hunters
  /\ Stayers \intersect Leavers = {}
  /\ {Away, Gone} \intersect Cells = {} /\ Away # Gone

Objects == Players \union Mobs \union {Box}

VARIABLES
  place,      \* the grid that holds the object
  active,     \* Grid::m_State = Active
  entry,      \* Player::m_Surroundings; "leaving": m_ScheduleForDespawn
  client,     \* what the client shows for each object
  target,     \* Unit::m_Target of the players
  justDied,   \* the mobs whose m_DeathState is JUST_DIED
  friendly,   \* BonusBox::m_IsFriendlyCargo
  flag,       \* Object::m_NeedToBeUpdate of the box
  looted,     \* BonusBox::m_ScheduleForDelete
  turn,       \* the thread or the grid that runs: World, Jumps, a cell
  toScan,     \* the players of that grid UpdateSurroundingObjects has not reached
  todo,       \* the objects of the copy of m_Objects not yet updated
  undefined   \* a deleted object has been used

boxVars == <<friendly, flag, looted>>
showVars == <<entry, client>>
tickVars == <<turn, toScan, todo>>
vars == <<place, active, showVars, target, justDied, boxVars, tickVars, undefined>>

Nothing == [o \in Objects |-> "none"]
Blank == [o \in Objects |-> "absent"]

Init ==
  /\ place = [o \in Objects |-> IF o \in Mobs THEN BoxCell ELSE Away]
  /\ active = [c \in Cells |-> TRUE]
  /\ entry = [p \in Players |-> Nothing]
  /\ client = [p \in Players |-> Blank]
  /\ target = [p \in Players |-> None]
  /\ justDied = {}
  /\ friendly = TRUE /\ flag = FALSE /\ looted = FALSE
  /\ turn = World /\ toScan = {} /\ todo = {}
  /\ undefined = FALSE

\* Mutant: the grid does not look over its border.
OwnGridOnly(c) == {c}

\* GetNearbyGrids.
GetNearbyGrids(c) == Adjacent[c]

Held(c) == {o \in Objects : place[o] = c}
HeldPlayers(c) == Held(c) \intersect Players
Knows(p, o) == entry[p][o] # "none"
Known(p) == {o \in Objects : Knows(p, o)}

\* BuildObjectSpawnAndSend: how the client draws the object.
Look(p, o) ==
  IF o # Box THEN "ship"
  ELSE IF p \in Mates /\ friendly THEN "reserved" ELSE "free"

\* Grid::Add, as a function of m_State: a player wakes the grid.
Woken(c) == [active EXCEPT ![c] = TRUE]

\* Grid::Remove with a packet: the players of the grids around are told, if they
\* have the object in their surroundings; their entries stay.
DespawnNearby(o, cl) ==
  [p \in Players |->
    IF place[p] \in Cells /\ place[p] \in Adjacent[place[o]] /\ Knows(p, o)
    THEN [cl[p] EXCEPT ![o] = "absent"] ELSE cl[p]]

UseAfterFree ==
  /\ undefined' = TRUE
  /\ UNCHANGED <<place, active, showVars, target, justDied, boxVars, tickVars>>

-------------------------------------------------------------------------------
(* The world thread                                                        *)

\* HandleObjectMove: Map::Move carries the player to cell c.
Fly(p, c) ==
  /\ turn = World /\ place[p] \in Cells \ {c}
  /\ p \notin Settled
  /\ p \in Stayers => c \in Adjacent[BoxCell]
  /\ place' = [place EXCEPT ![p] = c]
  /\ active' = Woken(c)
  /\ UNCHANGED <<showVars, target, justDied, boxVars, tickVars, undefined>>

\* Mutant: any object can be selected.
HandleSelectAnything(p, o) ==
  /\ turn = World /\ p \in Targeting /\ o # p
  /\ place[p] \in Cells /\ place[o] \in Cells
  /\ target' = [target EXCEPT ![p] = o]
  /\ UNCHANGED <<place, active, showVars, justDied, boxVars, tickVars, undefined>>

HandleSelectTarget(p, o) ==
  /\ turn = World /\ p \in Targeting /\ o # p
  /\ place[p] \in Cells /\ place[o] \in Cells
  /\ o \in Players \union Mobs
  /\ target' = [target EXCEPT ![p] = o]
  /\ UNCHANGED <<place, active, showVars, justDied, boxVars, tickVars, undefined>>

\* CancelAttack, from a handler or from the attack that has ended.
CancelAttack(p) ==
  /\ target[p] # None
  /\ target' = [target EXCEPT ![p] = None]
  /\ UNCHANGED <<place, active, showVars, justDied, boxVars, tickVars, undefined>>

\* HandleLootCargo takes the last of the cargo.
HandleLootCargo(p) ==
  /\ turn = World /\ place[p] \in Cells /\ place[Box] = place[p]
  /\ looted' = TRUE
  /\ UNCHANGED <<place, active, showVars, target, justDied, friendly, flag, tickVars,
                 undefined>>

\* ~Player: the entries that point to the player are left as they are.
Delete(p) ==
  /\ turn = World /\ p \in Leavers /\ place[p] \in Cells
  /\ place' = [place EXCEPT ![p] = Gone]
  /\ client' = [DespawnNearby(p, client) EXCEPT ![p] = Blank]
  /\ entry' = [entry EXCEPT ![p] = Nothing]
  /\ target' = [target EXCEPT ![p] = None]
  /\ UNCHANGED <<active, justDied, boxVars, tickVars, undefined>>

\* AddToMap, at login and at the end of a jump to this map.
AddToMap(p, c) ==
  /\ turn \in {World, Jumps} /\ place[p] = Away
  /\ p \in Stayers => c \in Adjacent[BoxCell]
  /\ place' = [place EXCEPT ![p] = c]
  /\ active' = Woken(c)
  /\ UNCHANGED <<showVars, target, justDied, boxVars, tickVars, undefined>>

-------------------------------------------------------------------------------
(* Map::Update                                                             *)

\* BonusBoxPool::Update deletes the looted box; ~BonusBox takes it off the map.
BeginTick ==
  /\ turn = World
  /\ turn' = Jumps
  /\ IF looted /\ place[Box] = BoxCell
     THEN /\ place' = [place EXCEPT ![Box] = Gone]
          /\ client' = DespawnNearby(Box, client)
     ELSE UNCHANGED <<place, client>>
  /\ UNCHANGED <<active, entry, target, justDied, boxVars, toScan, todo, undefined>>

\* ProcessJumpQueue to another map: RemoveFromMap, CancelAttack, which clears the
\* target of who attacks it, then ClearSurroundings uses the object of every entry;
\* the new map blanks the client.
ProcessJump(p) ==
  /\ turn = Jumps /\ place[p] \in Cells /\ p \notin Stayers
  /\ IF \E o \in Objects : Knows(p, o) /\ place[o] = Gone
     THEN UseAfterFree
     ELSE /\ place' = [place EXCEPT ![p] = Away]
          /\ client' = [DespawnNearby(p, client) EXCEPT ![p] = Blank]
          /\ entry' = [entry EXCEPT ![p] = Nothing]
          /\ target' \in {target, [target EXCEPT ![p] = None]}
          /\ UNCHANGED <<active, justDied, boxVars, tickVars, undefined>>

\* Map::Update comes to cell c when it has done with the cell before it.
Reaches(c) ==
  /\ turn = c - 1
  /\ toScan = {} /\ todo = {}
  /\ turn' = c

\* An active grid: CheckForPlayer, if its interval has passed, then the scans of
\* the players and a copy of m_Objects.
BeginGrid(c) ==
  /\ Reaches(c) /\ active[c]
  /\ toScan' = HeldPlayers(c)
  /\ todo' = Held(c)
  /\ active' \in {active, [active EXCEPT ![c] = HeldPlayers(c) # {}]}
  /\ UNCHANGED <<place, showVars, target, justDied, boxVars, undefined>>

SkipIdleGrid(c) ==
  /\ Reaches(c) /\ ~active[c]
  /\ UNCHANGED <<place, active, showVars, target, justDied, boxVars, toScan, todo, undefined>>

\* Does the scan spawn o, in range of p, on the client of p?  Another player is
\* spawned also if it does not have p in its own surroundings.
Spawns(p, o) ==
  \/ ~Knows(p, o)
  \/ o = Box /\ flag
  \/ o \in Players /\ ~Knows(o, p)

\* The entry of p for o after the scan; one that is flagged is left as it is.
Scanned(p, o) == IF o = Box /\ flag /\ Knows(p, o) THEN entry[p][o] ELSE "kept"

\* UpdateSurroundingObjects: BuildSurroundingObjects of all nearby grids for p;
\* it finds the objects of `inRange`, and those that know p keep it.
Scan(p, inRange) ==
  /\ inRange \subseteq {o \in Objects \ {p} : place[o] \in GetNearbyGrids(turn)}
  /\ inRange \subseteq Players \/ p \in Hunters
  /\ p \in Stayers /\ place[Box] \in GetNearbyGrids(turn) => Box \in inRange
  /\ toScan' = toScan \ {p}
  /\ client' = [client EXCEPT ![p] = [o \in Objects |->
                  IF o \in inRange /\ Spawns(p, o) THEN Look(p, o) ELSE @[o]]]
  /\ entry' = [q \in Players |->
                 IF q = p
                 THEN [o \in Objects |->
                        IF o \in inRange THEN Scanned(p, o) ELSE entry[p][o]]
                 ELSE IF q \in inRange /\ Knows(q, p)
                 THEN [entry[q] EXCEPT ![p] = "kept"]
                 ELSE entry[q]]
  /\ UNCHANGED <<place, active, target, justDied, boxVars, turn, todo, undefined>>

\* SurroundingObject::Despawn keeps what the player has selected.
Despawns(p, o) == o = Box \/ target[p] # o

\* A mob that is DEAD is in no grid; nobody updates it, and it never respawns.
Dead(o) == o \in Mobs /\ place[o] = Away

\* Mutant: the entry goes with the timer, whatever Despawn says.
UpdateEntryByTimer(p, o, inRange, passed) ==
  CASE Dead(o) \/ (entry[p][o] = "leaving" /\ o \in passed) -> "none"
    [] ~Dead(o) /\ entry[p][o] = "kept" /\ o \notin inRange -> "leaving"
    [] OTHER -> entry[p][o]

\* SurroundingObject::Update: the entry of a dead unit goes, whatever Despawn says;
\* else it is scheduled for despawn, and goes when the object has been despawned.
UpdateEntry(p, o, inRange, passed) ==
  CASE Dead(o) \/ (entry[p][o] = "leaving" /\ o \in passed /\ Despawns(p, o)) -> "none"
    [] ~Dead(o) /\ entry[p][o] = "kept" /\ o \notin inRange -> "leaving"
    [] OTHER -> entry[p][o]

\* The screens after the UpdateSurroundings of p.
Shown(p, passed) ==
  [client EXCEPT ![p] = [o \in Objects |->
    IF Knows(p, o) /\ Despawns(p, o)
       /\ (Dead(o) \/ (entry[p][o] = "leaving" /\ o \in passed))
    THEN "absent" ELSE @[o]]]

\* UpdateSurroundings, which uses the object of every entry.  `passed` are the
\* objects whose delay has passed.
UpdateSurroundings(p, inRange, passed) ==
  /\ toScan = {} /\ p \in todo
  /\ p \in Stayers /\ Knows(p, Box) => Box \in inRange
  /\ \A o \in Objects : Knows(p, o) => place[o] # Gone
  /\ todo' = todo \ {p}
  /\ entry' = [entry EXCEPT ![p] =
                 [o \in Objects |-> UpdateEntry(p, o, inRange, passed)]]
  /\ UNCHANGED <<active, boxVars, turn, toScan, undefined>>

UpdatePlayerDangling(p) ==
  /\ toScan = {} /\ p \in todo
  /\ \E o \in Objects : Knows(p, o) /\ place[o] = Gone
  /\ UseAfterFree

\* Player::Update of a living player: UpdateSurroundings, and an attack, if any,
\* that does not destroy its target.
UpdatePlayer(p, inRange, passed) ==
  /\ UpdateSurroundings(p, inRange, passed)
  /\ client' = Shown(p, passed)
  /\ UNCHANGED <<place, target, justDied>>

\* Where everything is when a box falls; bound: all but the first are left out.
BoxFalls == [place EXCEPT ![Box] = IF @ = Away THEN BoxCell ELSE @]

\* ... or one that does: Kill of a mob, which may have just died before, and the
\* CancelAttack of the player.
UpdatePlayerAndKill(p, inRange, passed) ==
  /\ target[p] \in Mobs /\ ~Dead(target[p])
  /\ UpdateSurroundings(p, inRange, passed)
  /\ client' = DespawnNearby(target[p], Shown(p, passed))
  /\ place' = BoxFalls
  /\ justDied' = justDied \union {target[p]}
  /\ target' = [target EXCEPT ![p] = None]

\* Mob::Update: a mob that has just died leaves its grid, and nobody is told.
UpdateMob(m) ==
  /\ toScan = {} /\ m \in todo
  /\ todo' = todo \ {m}
  /\ place' = IF m \in justDied THEN [place EXCEPT ![m] = Away] ELSE place
  /\ justDied' = justDied \ {m}
  /\ UNCHANGED <<active, showVars, target, boxVars, turn, toScan, undefined>>

\* Mutant: the flag is cleared last.
UpdateBoxClearLast(elapsed) ==
  /\ toScan = {} /\ Box \in todo
  /\ todo' = todo \ {Box}
  /\ flag' = FALSE
  /\ friendly' = (friendly /\ ~elapsed)
  /\ UNCHANGED <<place, active, showVars, target, justDied, looted, turn, toScan, undefined>>

\* BonusBox::Update: the flag of the last update is cleared, and set when the
\* cargo stops being friendly.
UpdateBox(elapsed) ==
  /\ toScan = {} /\ Box \in todo
  /\ todo' = todo \ {Box}
  /\ flag' = (friendly /\ elapsed)
  /\ friendly' = (friendly /\ ~elapsed)
  /\ UNCHANGED <<place, active, showVars, target, justDied, looted, turn, toScan, undefined>>

\* AddBonuxBox: somebody in the middle of its update has destroyed a ship that is
\* none of these.  The grid's copy of its objects does not have the box.
AddBonusBox ==
  /\ turn \in Cells /\ toScan = {} /\ todo \ {Box} # {}
  /\ place[Box] = Away
  /\ place' = BoxFalls
  /\ UNCHANGED <<active, showVars, target, justDied, boxVars, tickVars, undefined>>

EndTick ==
  /\ turn = NumCells
  /\ toScan = {} /\ todo = {}
  /\ turn' = World
  /\ UNCHANGED <<place, active, showVars, target, justDied, boxVars, toScan, todo, undefined>>

-------------------------------------------------------------------------------
Handler(p) ==
  \/ \E c \in Cells : Fly(p, c) \/ AddToMap(p, c)
  \/ \E o \in Objects : HandleSelectTarget(p, o)
  \/ CancelAttack(p)
  \/ HandleLootCargo(p)
  \/ Delete(p)
  \/ ProcessJump(p)

Tick ==
  \/ BeginTick
  \/ \E c \in Cells : BeginGrid(c) \/ SkipIdleGrid(c)
  \/ \E p \in toScan, inRange \in SUBSET Objects : Scan(p, inRange)
  \/ \E p \in todo \intersect Players :
       \E inRange \in SUBSET Known(p), passed \in SUBSET Known(p) :
         UpdatePlayer(p, inRange, passed) \/ UpdatePlayerAndKill(p, inRange, passed)
  \/ \E p \in Players : UpdatePlayerDangling(p)
  \/ \E m \in Mobs : UpdateMob(m)
  \/ \E elapsed \in BOOLEAN : UpdateBox(elapsed)
  \/ EndTick

Next ==
  /\ ~undefined
  /\ \/ \E p \in Players : Handler(p)
     \/ Tick
     \/ AddBonusBox

Spec == Init /\ [][Next]_vars

\* The zone's thread updates the map in every tick, to the end.
FairSpec == Spec /\ WF_vars(~undefined /\ Tick)

-------------------------------------------------------------------------------
TypeOK ==
  /\ place \in [Objects -> Cells \union {Away, Gone}]
  /\ active \in [Cells -> BOOLEAN]
  /\ entry \in [Players -> [Objects -> {"none", "kept", "leaving"}]]
  /\ client \in [Players -> [Objects -> {"absent", "ship", "reserved", "free"}]]
  /\ target \in [Players -> Players \union Mobs \union {None}]
  /\ justDied \subseteq Mobs
  /\ friendly \in BOOLEAN /\ flag \in BOOLEAN /\ looted \in BOOLEAN
  /\ turn \in Jumps..World
  /\ toScan \subseteq Players /\ todo \subseteq Objects
  /\ undefined \in BOOLEAN

\* An object on the screen that nobody will take away.
Orphaned(p, o) == client[p][o] # "absent" /\ ~Knows(p, o)

\* An entry goes with the picture it stands for: whatever sequence of scans,
\* refused despawns, selections, kills and jumps, an object on the screen has an
\* entry, and with it somebody who will take it away.  One object can lose the
\* entry and stay: a dead mob that the player has selected, for which Update does
\* not ask what Despawn says (SurroundingObject.cpp:54).
OnlyDeadAreOrphaned ==
  [][\A p \in Players, o \in Objects :
       Orphaned(p, o)' => Orphaned(p, o) \/ (Dead(o) /\ target[p] = o)]_vars

\* "We want to change the friendly cargo to non friendly" (BuildObjectData.cpp:87):
\* when the update that follows the change is over, no player in range is still
\* shown a box that is reserved to its owner.
ColourReachesStayers ==
  ~friendly /\ ~flag => \A p \in Stayers : client[p][Box] # "reserved"

\* A box that falls in range of a player is shown to it, in whichever of the
\* grids around the player is and whether the grids were idle or not; unless
\* somebody empties it first, or a deleted object is used.
BoxIsShown ==
  \A p \in Stayers :
    (place[Box] = BoxCell /\ place[p] \in Cells)
      ~> (client[p][Box] # "absent" \/ place[Box] = Gone \/ undefined)

===============================================================================
