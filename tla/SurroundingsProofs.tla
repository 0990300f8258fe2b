-------------------------- MODULE SurroundingsProofs ---------------------------
(***************************************************************************)
(* What the clients are shown, for any number of players, mobs and grids.  *)
(* Which objects can stay on a screen without an entry follows from the    *)
(* step that takes the entry.  That the box's change of colour reaches     *)
(* everybody who stays is about the order of a tick: the invariant says    *)
(* which scans still lie between the present moment and the update of the  *)
(* box that clears its flag.                                               *)
(***************************************************************************)
EXTENDS Surroundings, TLAPS

\* The grid of a player is awake, so that the player is scanned.
OccupiedIsActive == \A p \in Players : place[p] \in Cells => active[place[p]]

\* What is left to do belongs to the grid that runs, and nothing is left between
\* two grids or two ticks.
WorkOfTurn ==
  /\ turn \in {World, Jumps} => toScan = {} /\ todo = {}
  /\ \A p \in toScan : place[p] = turn
  /\ Box \in todo => turn = BoxCell

BoxStaysPut == place[Box] \in {Away, BoxCell, Gone}

StayersStayNear ==
  \A p \in Stayers : place[p] = Away \/ place[p] \in Adjacent[BoxCell]

\* Before it arrives a player is shown nothing, and nobody who stays is shown a
\* box that is not there.
AbsentIsUnseen ==
  \A p \in Stayers :
    place[p] = Away \/ place[Box] # BoxCell => client[p][Box] = "absent"

\* No box is orphaned: it never dies, and nobody can select it.
BoxHasEntry == \A p \in Players : ~Orphaned(p, Box)

IInv ==
  /\ TypeOK
  /\ BoxHasEntry
  /\ OccupiedIsActive
  /\ WorkOfTurn
  /\ BoxStaysPut
  /\ StayersStayNear
  /\ AbsentIsUnseen

\* In this tick, the scan of p is still to come; the update of the box is over.
ToBeScanned(p) == turn < place[p] \/ (turn = place[p] /\ p \in toScan)
BoxIsUpdated == turn > BoxCell \/ (turn = BoxCell /\ Box \notin todo)

\* Between the present moment and the next update of the box, p is scanned.
ScannedBeforeBox(p) ==
  IF place[p] > BoxCell THEN BoxIsUpdated /\ ToBeScanned(p)
                        ELSE BoxIsUpdated \/ ToBeScanned(p)

\* Who stays and still sees the box reserved will be scanned while it is flagged.
ColourOnItsWay ==
  \A p \in Stayers :
    ~friendly /\ client[p][Box] = "reserved" => flag /\ ScannedBeforeBox(p)

-------------------------------------------------------------------------------
(* The constants, and what a despawn does to the clients *)

LEMMA Constants ==
  /\ NumCells \in Nat \ {0} /\ Jumps = 0 /\ World = NumCells + 1
  /\ \A c \in Cells : c \in Nat /\ c > 0 /\ c <= NumCells
  /\ \A c \in Nat : c > 0 /\ c <= NumCells => c \in Cells
  /\ BoxCell \in Cells /\ Away \notin Cells /\ Gone \notin Cells /\ Away # Gone
  /\ Box \notin Players /\ Box \in Objects /\ Players \subseteq Objects
  /\ Box \notin Mobs /\ Mobs \subseteq Objects /\ Players \intersect Mobs = {}
  /\ Stayers \subseteq Players /\ Settled \subseteq Players
  /\ \A p \in Leavers : p \notin Stayers
BY SurroundingsAssumption DEF Jumps, World, Cells, Objects

Screens == [Objects -> {"absent", "ship", "reserved", "free"}]

LEMMA DespawnFacts ==
  ASSUME NEW cl \in [Players -> Screens], NEW o \in Objects
  PROVE  /\ DespawnNearby(o, cl) \in [Players -> Screens]
         /\ \A q \in Players, x \in Objects :
              DespawnNearby(o, cl)[q][x] = cl[q][x]
                \/ (x = o /\ DespawnNearby(o, cl)[q][x] = "absent")
         /\ \A q \in Players :
              place[q] \in Cells /\ place[q] \in Adjacent[place[o]] /\ Knows(q, o)
                => DespawnNearby(o, cl)[q][o] = "absent"
<1>1. \A q \in Players : cl[q] \in Screens
  OBVIOUS
<1> DEFINE near(q) == place[q] \in Cells /\ place[q] \in Adjacent[place[o]] /\ Knows(q, o)
<1>2. \A q \in Players : DespawnNearby(o, cl)[q] =
        IF near(q) THEN [cl[q] EXCEPT ![o] = "absent"] ELSE cl[q]
  BY DEF DespawnNearby
<1>3. DespawnNearby(o, cl) = [q \in Players |->
        IF near(q) THEN [cl[q] EXCEPT ![o] = "absent"] ELSE cl[q]]
  BY DEF DespawnNearby
<1> HIDE DEF near
<1>4. \A q \in Players : [cl[q] EXCEPT ![o] = "absent"] \in Screens
  BY <1>1 DEF Screens
<1>5. DespawnNearby(o, cl) \in [Players -> Screens]
  BY <1>1, <1>3, <1>4
<1>6. ASSUME NEW q \in Players, NEW x \in Objects
      PROVE  DespawnNearby(o, cl)[q][x] = cl[q][x]
               \/ (x = o /\ DespawnNearby(o, cl)[q][x] = "absent")
  BY <1>1, <1>2 DEF Screens
<1>7. ASSUME NEW q \in Players, near(q)
      PROVE  DespawnNearby(o, cl)[q][o] = "absent"
  BY <1>1, <1>2, <1>7 DEF Screens
<1>8. QED
  BY <1>5, <1>6, <1>7 DEF near

-------------------------------------------------------------------------------
(* The steps that change what a client shows *)

EntryMaps == [Objects -> {"none", "kept", "leaving"}]

LEMMA RowFacts ==
  ASSUME TypeOK
  PROVE  /\ \A p \in Players : entry[p] \in EntryMaps /\ client[p] \in Screens
         /\ entry \in [Players -> EntryMaps] /\ client \in [Players -> Screens]
         /\ Nothing \in EntryMaps /\ Blank \in Screens
BY DEF TypeOK, EntryMaps, Screens, Nothing, Blank

\* The client of a player who leaves is blanked with its entries, those of the
\* others only lose its ship.
Leaves(p) ==
  /\ client' = [DespawnNearby(p, client) EXCEPT ![p] = Blank]
  /\ entry' = [entry EXCEPT ![p] = Nothing]

LEMMA LeavesFacts ==
  ASSUME TypeOK, NEW p \in Players, Leaves(p)
  PROVE  /\ client' \in [Players -> Screens] /\ entry' \in [Players -> EntryMaps]
         /\ \A q \in Players, x \in Objects :
              client'[q][x] = client[q][x] \/ client'[q][x] = "absent"
         /\ \A x \in Objects : client'[p][x] = "absent"
         /\ \A q \in Players : q # p => entry'[q] = entry[q]
         /\ \A q \in Players : q # p => client'[q][Box] = client[q][Box]
<1> DEFINE D == DespawnNearby(p, client)
<1>1. p \in Objects /\ p # Box /\ Box \in Objects
  BY Constants
<1>2. /\ D \in [Players -> Screens]
      /\ \A q \in Players, x \in Objects :
           D[q][x] = client[q][x] \/ (x = p /\ D[q][x] = "absent")
  BY <1>1, RowFacts, DespawnFacts
<1>3. client' = [D EXCEPT ![p] = Blank]
  BY DEF Leaves
<1> HIDE DEF D
<1>4. \A q \in Players : client'[q] = IF q = p THEN Blank ELSE D[q]
  BY <1>2, <1>3
<1>5. \A x \in Objects : Blank[x] = "absent"
  BY DEF Blank
<1>6. client' \in [Players -> Screens]
  BY <1>2, <1>3, RowFacts
<1>7. entry' \in [Players -> EntryMaps] /\ \A q \in Players : q # p => entry'[q] = entry[q]
  BY RowFacts DEF Leaves
<1>8. \A q \in Players : q # p => client'[q][Box] = client[q][Box]
  BY <1>1, <1>2, <1>4
<1>9. QED
  BY <1>2, <1>4, <1>5, <1>6, <1>7, <1>8

LEMMA ScanFacts ==
  ASSUME TypeOK, NEW p \in Players, NEW inRange \in SUBSET Objects, Scan(p, inRange)
  PROVE  /\ client' \in [Players -> Screens] /\ entry' \in [Players -> EntryMaps]
         /\ \A q \in Players : q # p => client'[q] = client[q]
         /\ \A x \in Objects : client'[p][x] =
              IF x \in inRange /\ Spawns(p, x) THEN Look(p, x) ELSE client[p][x]
         /\ \A x \in Objects :
              IF x \in inRange THEN entry'[p][x] # "none"
                               ELSE entry'[p][x] = entry[p][x]
         /\ \A q \in Players, x \in Objects :
              q # p => entry'[q][x] = entry[q][x] \/ entry'[q][x] = "kept"
<1>1. \A x \in Objects : Look(p, x) \in {"ship", "reserved", "free"}
  BY DEF Look
<1> DEFINE row == [x \in Objects |->
                    IF x \in inRange /\ Spawns(p, x) THEN Look(p, x) ELSE client[p][x]]
<1>2. client' = [client EXCEPT ![p] = row]
  BY DEF Scan
<1>3. row \in Screens
  BY <1>1, RowFacts DEF Screens
<1>4. \A x \in Objects : row[x] =
              IF x \in inRange /\ Spawns(p, x) THEN Look(p, x) ELSE client[p][x]
  OBVIOUS
<1> HIDE DEF row
<1>5. /\ client' \in [Players -> Screens] /\ client'[p] = row
      /\ \A q \in Players : q # p => client'[q] = client[q]
  BY <1>2, <1>3, RowFacts
<1>6. \A x \in Objects : /\ Scanned(p, x) \in {"kept", "leaving"}
  BY RowFacts DEF Scanned, Knows, EntryMaps
<1> DEFINE mine == [x \in Objects |-> IF x \in inRange THEN Scanned(p, x) ELSE entry[p][x]]
           theirs(q) == [entry[q] EXCEPT ![p] = "kept"]
<1>7. entry' = [q \in Players |->
                 IF q = p THEN mine
                 ELSE IF q \in inRange /\ Knows(q, p) THEN theirs(q) ELSE entry[q]]
  BY DEF Scan
<1>8. mine \in EntryMaps /\ \A x \in Objects :
        mine[x] = IF x \in inRange THEN Scanned(p, x) ELSE entry[p][x]
  BY <1>6, RowFacts DEF EntryMaps
<1>9. \A q \in Players : /\ theirs(q) \in EntryMaps
                         /\ \A x \in Objects : theirs(q)[x] \in {entry[q][x], "kept"}
  BY RowFacts DEF EntryMaps
<1> HIDE DEF mine, theirs
<1>10. entry' \in [Players -> EntryMaps]
  BY <1>7, <1>8, <1>9, RowFacts
<1>11. entry'[p] = mine
       /\ \A q \in Players : q # p => entry'[q] = theirs(q) \/ entry'[q] = entry[q]
  BY <1>7
<1>12. \A x \in Objects : IF x \in inRange THEN entry'[p][x] # "none"
                                           ELSE entry'[p][x] = entry[p][x]
  BY <1>6, <1>8, <1>11
<1>13. \A q \in Players, x \in Objects :
              q # p => entry'[q][x] = entry[q][x] \/ entry'[q][x] = "kept"
  BY <1>9, <1>11
<1>14. QED
  BY <1>4, <1>5, <1>10, <1>12, <1>13

\* Only a box falls while the grids are updated.
LEMMA FallFacts ==
  ASSUME TypeOK, place' \in {place, BoxFalls}
  PROVE  /\ place' \in [Objects -> Cells \union {Away, Gone}]
         /\ \A q \in Objects : q # Box => place'[q] = place[q]
         /\ place'[Box] = place[Box] \/ (place[Box] = Away /\ place'[Box] = BoxCell)
<1>1. Box \in Objects /\ BoxCell \in Cells
  BY Constants
<1> DEFINE v == IF place[Box] = Away THEN BoxCell ELSE place[Box]
<1>2. place' = place \/ place' = [place EXCEPT ![Box] = v]
  BY DEF BoxFalls
<1>3. place \in [Objects -> Cells \union {Away, Gone}]
  BY DEF TypeOK
<1>4. v \in Cells \union {Away, Gone}
  BY <1>1, <1>3
<1>5. v = place[Box] \/ (place[Box] = Away /\ v = BoxCell)
  OBVIOUS
<1> HIDE DEF v
<1>6. QED
  BY <1>1, <1>2, <1>3, <1>4, <1>5

\* What the entries and the screen of p are after UpdateSurroundings: an entry
\* goes with the picture, but for a dead mob that p has selected.
LEMMA UpdateFacts ==
  ASSUME TypeOK, NEW p \in Players, NEW inRange \in SUBSET Objects,
         NEW passed \in SUBSET Objects, UpdateSurroundings(p, inRange, passed)
  PROVE  /\ Shown(p, passed) \in [Players -> Screens]
         /\ entry' \in [Players -> EntryMaps]
         /\ \A q \in Players : q # p =>
              Shown(p, passed)[q] = client[q] /\ entry'[q] = entry[q]
         /\ \A x \in Objects :
              /\ Shown(p, passed)[p][x] \in {client[p][x], "absent"}
              /\ entry'[p][x] = "none" =>
                   \/ entry[p][x] = "none"
                   \/ Shown(p, passed)[p][x] = "absent"
                   \/ Dead(x) /\ target[p] = x
         /\ entry[p][Box] # "leaving" /\ (Knows(p, Box) => Box \in inRange) =>
              /\ entry'[p][Box] = entry[p][Box]
              /\ Shown(p, passed)[p][Box] = client[p][Box]
<1> DEFINE goes(x) == /\ Knows(p, x) /\ Despawns(p, x)
                      /\ Dead(x) \/ (entry[p][x] = "leaving" /\ x \in passed)
           screen == [x \in Objects |-> IF goes(x) THEN "absent" ELSE client[p][x]]
           entries == [x \in Objects |-> UpdateEntry(p, x, inRange, passed)]
<1>1. Shown(p, passed) = [client EXCEPT ![p] = screen] /\ entry' = [entry EXCEPT ![p] = entries]
  BY DEF UpdateSurroundings, Shown
<1>2. screen \in Screens
  BY RowFacts DEF Screens
<1>3. \A x \in Objects : UpdateEntry(p, x, inRange, passed) \in {"none", "kept", "leaving"}
  BY RowFacts DEF UpdateEntry, EntryMaps
<1>4. entries \in EntryMaps
  BY <1>3 DEF EntryMaps
<1>5. ASSUME NEW x \in Objects
      PROVE  /\ screen[x] \in {client[p][x], "absent"}
             /\ entries[x] = "none" =>
                  entry[p][x] = "none" \/ screen[x] = "absent" \/ (Dead(x) /\ target[p] = x)
  BY DEF UpdateEntry, Knows, Despawns
<1>6. ASSUME entry[p][Box] # "leaving", Knows(p, Box) => Box \in inRange
      PROVE  entries[Box] = entry[p][Box] /\ screen[Box] = client[p][Box]
  <2>1. ~Dead(Box) /\ Box \in Objects
    BY Constants DEF Dead
  <2>2. entries[Box] = entry[p][Box]
    BY <1>6, <2>1 DEF UpdateEntry, Knows
  <2>3. screen[Box] = client[p][Box]
    BY <1>6, <2>1
  <2>4. QED
    BY <2>2, <2>3
<1> HIDE DEF screen, entries
<1>7. /\ Shown(p, passed) \in [Players -> Screens] /\ entry' \in [Players -> EntryMaps]
      /\ Shown(p, passed)[p] = screen /\ entry'[p] = entries
      /\ \A q \in Players : q # p => Shown(p, passed)[q] = client[q] /\ entry'[q] = entry[q]
  BY <1>1, <1>2, <1>4, RowFacts
<1>8. QED
  BY <1>5, <1>6, <1>7

\* The same of the whole update of p, which may despawn the mob it has destroyed.
PlayerUpdates(p) ==
  \E inRange \in SUBSET Known(p), passed \in SUBSET Known(p) :
    UpdatePlayer(p, inRange, passed) \/ UpdatePlayerAndKill(p, inRange, passed)

LEMMA PlayerUpdateFacts ==
  ASSUME TypeOK, NEW p \in Players, PlayerUpdates(p)
  PROVE  /\ client' \in [Players -> Screens] /\ entry' \in [Players -> EntryMaps]
         /\ \A q \in Players, x \in Objects :
              /\ client'[q][x] \in {client[q][x], "absent"}
              /\ entry'[q][x] = "none" =>
                   \/ entry[q][x] = "none"
                   \/ client'[q][x] = "absent"
                   \/ Dead(x) /\ target[q] = x
         /\ \A q \in Players :
              \/ q # p
              \/ entry[q][Box] # "leaving" /\ (q \in Stayers \/ entry[q][Box] = "none")
              => /\ entry'[q][Box] = entry[q][Box]
                 /\ client'[q][Box] = client[q][Box]
         /\ place' \in {place, BoxFalls}
         /\ UNCHANGED <<active, boxVars, turn, toScan, undefined>>
         /\ todo' = todo \ {p}
         /\ target' \in [Players -> Players \union Mobs \union {None}]
         /\ justDied' \subseteq Mobs
<1>1. PICK inRange \in SUBSET Objects, passed \in SUBSET Objects :
        UpdatePlayer(p, inRange, passed) \/ UpdatePlayerAndKill(p, inRange, passed)
  BY DEF PlayerUpdates, Known
<1>2. UpdateSurroundings(p, inRange, passed)
  BY <1>1 DEF UpdatePlayer, UpdatePlayerAndKill
<1> DEFINE S == Shown(p, passed)
<1>3. /\ S \in [Players -> Screens] /\ entry' \in [Players -> EntryMaps]
      /\ \A q \in Players : q # p => S[q] = client[q] /\ entry'[q] = entry[q]
      /\ \A x \in Objects :
           /\ S[p][x] \in {client[p][x], "absent"}
           /\ entry'[p][x] = "none" =>
                entry[p][x] = "none" \/ S[p][x] = "absent" \/ (Dead(x) /\ target[p] = x)
      /\ entry[p][Box] # "leaving" /\ (Knows(p, Box) => Box \in inRange) =>
           entry'[p][Box] = entry[p][Box] /\ S[p][Box] = client[p][Box]
  BY <1>2, UpdateFacts
<1> HIDE DEF S
<1>4. /\ client' \in [Players -> Screens]
      /\ \A q \in Players, x \in Objects :
           client'[q][x] = S[q][x] \/ (x # Box /\ client'[q][x] = "absent")
  <2>1. CASE UpdatePlayer(p, inRange, passed)
    BY <1>3, <2>1 DEF UpdatePlayer, S
  <2>2. CASE UpdatePlayerAndKill(p, inRange, passed)
    <3>1. target[p] \in Objects /\ target[p] # Box /\ client' = DespawnNearby(target[p], S)
      BY <2>2, Constants DEF UpdatePlayerAndKill, S
    <3>2. PICK m \in Objects : m = target[p] /\ m # Box
      BY <3>1
    <3>3. client' = DespawnNearby(m, S)
      BY <3>1, <3>2
    <3>4. QED
      BY <1>3, <3>2, <3>3, DespawnFacts
  <2>3. QED
    BY <1>1, <2>1, <2>2
<1>5. /\ place' \in {place, BoxFalls}
      /\ UNCHANGED <<active, boxVars, turn, toScan, undefined>>
      /\ todo' = todo \ {p}
  BY <1>1, <1>2 DEF UpdatePlayer, UpdatePlayerAndKill, UpdateSurroundings
<1>6. target' \in [Players -> Players \union Mobs \union {None}] /\ justDied' \subseteq Mobs
  BY <1>1 DEF UpdatePlayer, UpdatePlayerAndKill, TypeOK
<1>7. ASSUME NEW q \in Players, NEW x \in Objects
      PROVE  /\ client'[q][x] \in {client[q][x], "absent"}
             /\ entry'[q][x] = "none" =>
                  entry[q][x] = "none" \/ client'[q][x] = "absent" \/ (Dead(x) /\ target[q] = x)
  <2>1. CASE q = p
    BY <1>3, <1>4, <2>1
  <2>2. CASE q # p
    BY <1>3, <1>4, <2>2
  <2>3. QED
    BY <2>1, <2>2
<1>8. ASSUME NEW q \in Players,
             q # p \/ (entry[q][Box] # "leaving" /\ (q \in Stayers \/ entry[q][Box] = "none"))
      PROVE  entry'[q][Box] = entry[q][Box] /\ client'[q][Box] = client[q][Box]
  <2>1. client'[q][Box] = S[q][Box]
    BY <1>4, Constants
  <2>2. CASE q # p
    BY <1>3, <2>1, <2>2
  <2>3. CASE q = p
    <3>1. entry[p][Box] # "leaving" /\ (Knows(p, Box) => Box \in inRange)
      BY <1>2, <1>8, <2>3 DEF UpdateSurroundings, Knows
    <3>2. QED
      BY <1>3, <2>1, <2>3, <3>1
  <2>4. QED
    BY <2>2, <2>3
<1>9. QED
  BY <1>3, <1>4, <1>5, <1>6, <1>7, <1>8

-------------------------------------------------------------------------------
(* Type correctness, and what an entry goes with *)

\* The step leaves no object on a screen without an entry, but for a dead mob.
NoneOrphaned ==
  \A p \in Players, o \in Objects :
    Orphaned(p, o)' => Orphaned(p, o) \/ (Dead(o) /\ target[p] = o)

LEMMA ShownTypeStep ==
  ASSUME TypeOK, [Next]_vars
  PROVE  /\ client' \in [Players -> Screens] /\ entry' \in [Players -> EntryMaps]
         /\ NoneOrphaned
<1> USE RowFacts DEF NoneOrphaned, Orphaned, Knows
<1>1. ASSUME UNCHANGED showVars
      PROVE  /\ client' \in [Players -> Screens] /\ entry' \in [Players -> EntryMaps]
             /\ NoneOrphaned
  BY <1>1 DEF showVars
<1>2. ASSUME NEW p \in Players, Leaves(p)
      PROVE  /\ client' \in [Players -> Screens] /\ entry' \in [Players -> EntryMaps]
             /\ NoneOrphaned
  BY <1>2, LeavesFacts
<1>3. ASSUME NEW p \in Players, Delete(p)
      PROVE  Leaves(p)
  BY <1>3 DEF Delete, Leaves
<1>4. ASSUME BeginTick
      PROVE  /\ client' \in [Players -> Screens] /\ entry' \in [Players -> EntryMaps]
             /\ NoneOrphaned
  <2>1. CASE looted /\ place[Box] = BoxCell
    <3> DEFINE D == DespawnNearby(Box, client)
    <3>1. Box \in Objects
      BY Constants
    <3>2. /\ D \in [Players -> Screens]
          /\ \A q \in Players, x \in Objects : D[q][x] = client[q][x] \/ D[q][x] = "absent"
      BY <3>1, DespawnFacts
    <3>3. client' = D /\ entry' = entry
      BY <1>4, <2>1 DEF BeginTick
    <3> HIDE DEF D
    <3>4. QED
      BY <3>2, <3>3
  <2>2. CASE ~(looted /\ place[Box] = BoxCell)
    <3>1. client' = client /\ entry' = entry
      BY <1>4, <2>2 DEF BeginTick
    <3>2. QED
      BY <3>1
  <2>3. QED
    BY <2>1, <2>2
<1>5. ASSUME NEW p \in Players, ProcessJump(p)
      PROVE  UNCHANGED showVars \/ Leaves(p)
  BY <1>5 DEF ProcessJump, UseAfterFree, Leaves
<1>6. ASSUME NEW p \in Players, NEW inRange \in SUBSET Objects, Scan(p, inRange)
      PROVE  /\ client' \in [Players -> Screens] /\ entry' \in [Players -> EntryMaps]
             /\ NoneOrphaned
  <2>1. /\ client' \in [Players -> Screens] /\ entry' \in [Players -> EntryMaps]
        /\ \A q \in Players : q # p => client'[q] = client[q]
        /\ \A x \in Objects : client'[p][x] =
             IF x \in inRange /\ Spawns(p, x) THEN Look(p, x) ELSE client[p][x]
        /\ \A x \in Objects :
             IF x \in inRange THEN entry'[p][x] # "none"
                              ELSE entry'[p][x] = entry[p][x]
        /\ \A q \in Players, x \in Objects :
             q # p => entry'[q][x] = entry[q][x] \/ entry'[q][x] = "kept"
    BY <1>6, ScanFacts
  <2>2. ASSUME NEW q \in Players, NEW x \in Objects,
               client'[q][x] # "absent", entry'[q][x] = "none"
        PROVE  client[q][x] # "absent" /\ entry[q][x] = "none"
    <3>1. CASE q = p
      <4>1. x \notin inRange
        BY <2>1, <2>2, <3>1
      <4>2. QED
        BY <2>1, <2>2, <3>1, <4>1
    <3>2. CASE q # p
      BY <2>1, <2>2, <3>2
    <3>3. QED
      BY <3>1, <3>2
  <2>3. QED
    BY <2>1, <2>2
<1>7. ASSUME NEW p \in Players, PlayerUpdates(p)
      PROVE  /\ client' \in [Players -> Screens] /\ entry' \in [Players -> EntryMaps]
             /\ NoneOrphaned
  <2>1. /\ client' \in [Players -> Screens] /\ entry' \in [Players -> EntryMaps]
        /\ \A q \in Players, x \in Objects :
              /\ client'[q][x] \in {client[q][x], "absent"}
              /\ entry'[q][x] = "none" =>
                   \/ entry[q][x] = "none"
                   \/ client'[q][x] = "absent"
                   \/ Dead(x) /\ target[q] = x
    BY <1>7, PlayerUpdateFacts
  <2>2. QED
    BY <2>1
<1>8. ASSUME NEW p \in Players,
             \/ \E c \in Cells : Fly(p, c) \/ AddToMap(p, c)
             \/ \E o \in Objects : HandleSelectTarget(p, o)
             \/ CancelAttack(p)
             \/ HandleLootCargo(p)
             \/ UpdatePlayerDangling(p)
      PROVE  UNCHANGED showVars
  BY <1>8 DEF Fly, AddToMap, HandleSelectTarget, CancelAttack, HandleLootCargo,
     UpdatePlayerDangling, UseAfterFree
<1>9. ASSUME \/ \E c \in Cells : BeginGrid(c) \/ SkipIdleGrid(c)
             \/ \E m \in Mobs : UpdateMob(m)
             \/ \E elapsed \in BOOLEAN : UpdateBox(elapsed)
             \/ EndTick
             \/ AddBonusBox
             \/ UNCHANGED vars
      PROVE  UNCHANGED showVars
  BY <1>9 DEF BeginGrid, SkipIdleGrid, UpdateMob, UpdateBox, EndTick, AddBonusBox, vars
<1>10. CASE \/ \E p \in todo \intersect Players : PlayerUpdates(p)
            \/ \E p \in toScan, inRange \in SUBSET Objects : Scan(p, inRange)
  <2>1. toScan \subseteq Players
    BY DEF TypeOK
  <2>2. QED
    BY <1>6, <1>7, <1>10, <2>1
<1>11. QED
  BY <1>1, <1>2, <1>3, <1>4, <1>5, <1>8, <1>9, <1>10
     DEF Next, Handler, Tick, PlayerUpdates

LEMMA TypeStep ==
  ASSUME TypeOK, [Next]_vars
  PROVE  TypeOK'
<1> USE Constants
<1>0. client' \in [Players -> Screens] /\ entry' \in [Players -> EntryMaps]
  BY ShownTypeStep
<1> DEFINE Rest ==
      /\ place' \in [Objects -> Cells \union {Away, Gone}]
      /\ active' \in [Cells -> BOOLEAN]
      /\ target' \in [Players -> Players \union Mobs \union {None}]
      /\ justDied' \subseteq Mobs
      /\ friendly' \in BOOLEAN /\ flag' \in BOOLEAN /\ looted' \in BOOLEAN
      /\ turn' \in Jumps..World
      /\ toScan' \subseteq Players /\ todo' \subseteq Objects
      /\ undefined' \in BOOLEAN
<1>1. ASSUME NEW p \in Players, NEW c \in Cells, Fly(p, c) \/ AddToMap(p, c)
      PROVE  Rest
  <2>1. active' \in [Cells -> BOOLEAN]
    BY <1>1 DEF Fly, AddToMap, Woken, TypeOK
  <2>2. place' \in [Objects -> Cells \union {Away, Gone}]
    BY <1>1 DEF Fly, AddToMap, TypeOK
  <2>3. QED
    BY <1>1, <2>1, <2>2 DEF Fly, AddToMap, TypeOK, boxVars, tickVars
<1>2. ASSUME NEW p \in Players, NEW o \in Objects, HandleSelectTarget(p, o)
      PROVE  Rest
  BY <1>2 DEF HandleSelectTarget, TypeOK, boxVars, tickVars
<1>3. ASSUME NEW p \in Players, CancelAttack(p) \/ HandleLootCargo(p)
      PROVE  Rest
  BY <1>3 DEF CancelAttack, HandleLootCargo, TypeOK, boxVars, tickVars
<1>4. ASSUME NEW p \in Players, Delete(p)
      PROVE  Rest
  <2>1. place' \in [Objects -> Cells \union {Away, Gone}]
    BY <1>4 DEF Delete, TypeOK
  <2>2. target' \in [Players -> Players \union Mobs \union {None}]
    BY <1>4 DEF Delete, TypeOK
  <2>3. QED
    BY <1>4, <2>1, <2>2 DEF Delete, TypeOK, boxVars, tickVars
<1>5. ASSUME UseAfterFree
      PROVE  Rest
  BY <1>5 DEF UseAfterFree, TypeOK, boxVars, tickVars
<1>6. ASSUME NEW p \in Players, ProcessJump(p)
      PROVE  Rest
  <2>1. CASE UseAfterFree
    BY <1>5, <2>1
  <2>2. CASE ~UseAfterFree
    <3>1. /\ place' = [place EXCEPT ![p] = Away]
          /\ target' \in {target, [target EXCEPT ![p] = None]}
          /\ UNCHANGED <<active, justDied, boxVars, tickVars, undefined>>
      BY <1>6, <2>2 DEF ProcessJump
    <3>2. place' \in [Objects -> Cells \union {Away, Gone}]
      BY <3>1 DEF TypeOK
    <3>3. target' \in [Players -> Players \union Mobs \union {None}]
      BY <3>1 DEF TypeOK
    <3>4. QED
      BY <3>1, <3>2, <3>3 DEF TypeOK, boxVars, tickVars
  <2>3. QED
    BY <2>1, <2>2
<1>7. ASSUME BeginTick
      PROVE  Rest
  <2>1. place' \in [Objects -> Cells \union {Away, Gone}]
    BY <1>7 DEF BeginTick, TypeOK
  <2>2. QED
    BY <1>7, <2>1 DEF BeginTick, TypeOK, boxVars
<1>8. ASSUME NEW c \in Cells, BeginGrid(c)
      PROVE  Rest
  <2>1. active' \in [Cells -> BOOLEAN]
    BY <1>8 DEF BeginGrid, TypeOK
  <2>2. turn' = c /\ c \in Jumps..World
    BY <1>8 DEF BeginGrid, Reaches
  <2>3. toScan' \subseteq Players /\ todo' \subseteq Objects
    BY <1>8 DEF BeginGrid, HeldPlayers, Held, Objects
  <2>4. QED
    BY <1>8, <2>1, <2>2, <2>3 DEF BeginGrid, TypeOK, boxVars
<1>9. ASSUME NEW c \in Cells, SkipIdleGrid(c)
      PROVE  Rest
  BY <1>9 DEF SkipIdleGrid, Reaches, TypeOK, boxVars
<1>10. ASSUME NEW p \in Players, NEW inRange \in SUBSET Objects, Scan(p, inRange)
      PROVE  Rest
  BY <1>10 DEF Scan, TypeOK, boxVars
<1>11. ASSUME NEW p \in Players, PlayerUpdates(p)
      PROVE  Rest
  <2>1. /\ place' \in {place, BoxFalls}
        /\ UNCHANGED <<active, boxVars, turn, toScan, undefined>>
        /\ todo' = todo \ {p}
        /\ target' \in [Players -> Players \union Mobs \union {None}]
        /\ justDied' \subseteq Mobs
    BY <1>11, PlayerUpdateFacts
  <2>2. QED
    BY <2>1, FallFacts DEF TypeOK, boxVars
<1>12. ASSUME NEW elapsed \in BOOLEAN, UpdateBox(elapsed)
      PROVE  Rest
  BY <1>12 DEF UpdateBox, TypeOK
<1>13. ASSUME EndTick
       PROVE  Rest
  BY <1>13 DEF EndTick, TypeOK, boxVars
<1>14. ASSUME AddBonusBox
       PROVE  Rest
  BY <1>14, FallFacts DEF AddBonusBox, TypeOK, boxVars, tickVars
<1>15. ASSUME UNCHANGED vars
       PROVE  Rest
  BY <1>15 DEF vars, TypeOK, boxVars, tickVars
<1>16. ASSUME NEW m \in Mobs, UpdateMob(m)
       PROVE  Rest
  <2>1. place' \in [Objects -> Cells \union {Away, Gone}]
    BY <1>16 DEF UpdateMob, TypeOK
  <2>2. QED
    BY <1>16, <2>1 DEF UpdateMob, TypeOK, boxVars
<1>17. ASSUME NEW p \in Players, UpdatePlayerDangling(p)
       PROVE  Rest
  BY <1>5, <1>17 DEF UpdatePlayerDangling
<1>18. Rest
  <2>1. CASE \/ \E p \in todo \intersect Players : PlayerUpdates(p)
             \/ \E p \in toScan, inRange \in SUBSET Objects : Scan(p, inRange)
    <3>1. toScan \subseteq Players
      BY DEF TypeOK
    <3>2. QED
      BY <1>10, <1>11, <2>1, <3>1
  <2>2. QED
    BY <1>1, <1>2, <1>3, <1>4, <1>6, <1>7, <1>8, <1>9, <1>12, <1>13, <1>14, <1>15,
       <1>16, <1>17, <2>1 DEF Next, Handler, Tick, PlayerUpdates
<1>19. QED
  BY <1>0, <1>18 DEF TypeOK, Screens, EntryMaps

-------------------------------------------------------------------------------
(* Where everybody is, and whose turn it is *)

Scene == OccupiedIsActive /\ WorkOfTurn /\ BoxStaysPut /\ StayersStayNear

\* A player arrives at a cell, at a time when no grid is at work.
Arrives(p, c) ==
  /\ turn \in {World, Jumps}
  /\ p \in Stayers => c \in Adjacent[BoxCell]
  /\ p \in Settled => place[p] = Away
  /\ place' = [place EXCEPT ![p] = c]
  /\ active' = Woken(c)
  /\ UNCHANGED <<showVars, boxVars, tickVars>>

\* A player leaves the map, at such a time.
Departs(p) ==
  /\ turn \in {World, Jumps}
  /\ p \notin Stayers
  /\ \E v \in {Away, Gone} : place' = [place EXCEPT ![p] = v]
  /\ Leaves(p)
  /\ UNCHANGED <<active, boxVars, tickVars>>

\* What no step but these and those of the tick touches.
Still == UNCHANGED <<place, active, showVars, friendly, flag, tickVars>>

LEMMA HandlerFacts ==
  ASSUME NEW p \in Players, Handler(p)
  PROVE  (\E c \in Cells : Arrives(p, c)) \/ Departs(p) \/ Still
<1> USE Constants
<1>1. ASSUME NEW c \in Cells, Fly(p, c) \/ AddToMap(p, c)
      PROVE  Arrives(p, c)
  BY <1>1 DEF Fly, AddToMap, Arrives
<1>2. ASSUME NEW o \in Objects, HandleSelectTarget(p, o)
      PROVE  Still
  BY <1>2 DEF HandleSelectTarget, Still, boxVars
<1>3. ASSUME CancelAttack(p) \/ HandleLootCargo(p)
      PROVE  Still
  BY <1>3 DEF CancelAttack, HandleLootCargo, Still, boxVars
<1>4. ASSUME Delete(p)
      PROVE  Departs(p)
  BY <1>4 DEF Delete, Departs, Leaves
<1>5. ASSUME ProcessJump(p)
      PROVE  Departs(p) \/ Still
  BY <1>5 DEF ProcessJump, UseAfterFree, Departs, Leaves, Still, boxVars
<1>6. QED
  BY <1>1, <1>2, <1>3, <1>4, <1>5 DEF Handler

\* A player or a mob of the grid at work is updated, or somebody's death drops the
\* box: the tick does not move, and the screens only lose something.
Serves ==
  /\ \A q \in Players : place'[q] = place[q]
  /\ place'[Box] = place[Box] \/ (place[Box] = Away /\ place'[Box] = BoxCell)
  /\ UNCHANGED <<active, friendly, flag, turn, toScan>>
  /\ todo' \subseteq todo
  /\ \A q \in Players : client'[q][Box] \in {client[q][Box], "absent"}
  /\ \A q \in Players :
       \/ entry'[q][Box] = entry[q][Box] /\ client'[q][Box] = client[q][Box]
       \/ entry[q][Box] = "leaving" \/ (q \notin Stayers /\ Knows(q, Box))

LEMMA ServesFacts ==
  ASSUME TypeOK,
         \/ \E p \in todo \intersect Players : PlayerUpdates(p)
         \/ \E p \in Players : UpdatePlayerDangling(p)
         \/ \E m \in Mobs : UpdateMob(m)
         \/ AddBonusBox
  PROVE  Serves
<1> USE Constants
<1>1. ASSUME NEW p \in Players, PlayerUpdates(p)
      PROVE  Serves
  <2>1. /\ \A q \in Players, x \in Objects : client'[q][x] \in {client[q][x], "absent"}
        /\ \A q \in Players :
             \/ q # p
             \/ entry[q][Box] # "leaving" /\ (q \in Stayers \/ entry[q][Box] = "none")
             => /\ entry'[q][Box] = entry[q][Box]
                /\ client'[q][Box] = client[q][Box]
        /\ place' \in {place, BoxFalls}
        /\ UNCHANGED <<active, boxVars, turn, toScan>>
        /\ todo' = todo \ {p}
    BY <1>1, PlayerUpdateFacts
  <2>2. /\ \A q \in Objects : q # Box => place'[q] = place[q]
        /\ place'[Box] = place[Box] \/ (place[Box] = Away /\ place'[Box] = BoxCell)
    BY <2>1, FallFacts
  <2>3. QED
    BY <2>1, <2>2 DEF Serves, boxVars, Knows
<1>2. ASSUME NEW p \in Players, UpdatePlayerDangling(p)
      PROVE  Serves
  BY <1>2 DEF UpdatePlayerDangling, UseAfterFree, Serves, showVars, boxVars, tickVars
<1>3. ASSUME NEW m \in Mobs, UpdateMob(m)
      PROVE  Serves
  <2>1. \A q \in Objects : q # m => place'[q] = place[q]
    BY <1>3 DEF UpdateMob, TypeOK
  <2>2. place'[Box] = place[Box] /\ \A q \in Players : place'[q] = place[q]
    BY <2>1
  <2>3. UNCHANGED <<active, showVars, boxVars, turn, toScan>> /\ todo' = todo \ {m}
    BY <1>3 DEF UpdateMob
  <2>4. QED
    BY <2>2, <2>3 DEF Serves, showVars, boxVars
<1>4. ASSUME AddBonusBox
      PROVE  Serves
  <2>1. /\ \A q \in Objects : q # Box => place'[q] = place[q]
        /\ place'[Box] = place[Box] \/ (place[Box] = Away /\ place'[Box] = BoxCell)
    BY <1>4, FallFacts DEF AddBonusBox
  <2>2. UNCHANGED <<active, showVars, boxVars, tickVars>>
    BY <1>4 DEF AddBonusBox
  <2>3. QED
    BY <2>1, <2>2 DEF Serves, showVars, boxVars, tickVars
<1>5. QED
  BY <1>1, <1>2, <1>3, <1>4

\* Every step of the model is one of these.
LEMMA Steps ==
  ASSUME TypeOK, [Next]_vars
  PROVE  \/ \E p \in Players, c \in Cells : Arrives(p, c)
         \/ \E p \in Players : Departs(p)
         \/ Still \/ UNCHANGED vars
         \/ BeginTick
         \/ \E c \in Cells : BeginGrid(c) \/ SkipIdleGrid(c)
         \/ \E p \in Players, inRange \in SUBSET Objects : p \in toScan /\ Scan(p, inRange)
         \/ Serves
         \/ \E elapsed \in BOOLEAN : UpdateBox(elapsed)
         \/ EndTick
<1>1. ASSUME \E p \in Players : Handler(p)
      PROVE  \/ \E p \in Players, c \in Cells : Arrives(p, c)
             \/ \E p \in Players : Departs(p)
             \/ Still
  BY <1>1, HandlerFacts
<1>2. ASSUME \E p \in toScan, inRange \in SUBSET Objects : Scan(p, inRange)
      PROVE  \E p \in Players, inRange \in SUBSET Objects : p \in toScan /\ Scan(p, inRange)
  BY <1>2 DEF TypeOK
<1>3. QED
  BY <1>1, <1>2, ServesFacts DEF Next, Tick, PlayerUpdates

LEMMA ArrivesFacts ==
  ASSUME TypeOK, NEW p \in Players, NEW c \in Cells, Arrives(p, c)
  PROVE  /\ \A q \in Objects : place'[q] = IF q = p THEN c ELSE place[q]
         /\ \A d \in Cells : d = c \/ active[d] => active'[d]
<1>1. \A q \in Objects : place'[q] = IF q = p THEN c ELSE place[q]
  BY DEF Arrives, TypeOK
<1>2. \A d \in Cells : d = c \/ active[d] => active'[d]
  BY DEF Arrives, Woken, TypeOK
<1>3. QED
  BY <1>1, <1>2

LEMMA SceneStep ==
  ASSUME TypeOK, Scene, [Next]_vars
  PROVE  Scene'
<1> USE Constants
<1>1. ASSUME Still
      PROVE  Scene'
  BY <1>1 DEF Still, tickVars, Scene, OccupiedIsActive, WorkOfTurn, BoxStaysPut, StayersStayNear
<1>2. ASSUME NEW p \in Players, NEW c \in Cells, Arrives(p, c)
      PROVE  Scene'
  <2>1. /\ \A q \in Objects : place'[q] = IF q = p THEN c ELSE place[q]
        /\ \A d \in Cells : d = c \/ active[d] => active'[d]
    BY <1>2, ArrivesFacts
  <2>2. turn \in {World, Jumps} /\ UNCHANGED tickVars
        /\ (p \in Stayers => c \in Adjacent[BoxCell])
    BY <1>2 DEF Arrives
  <2>3. toScan' = {} /\ todo' = {}
    BY <2>2 DEF Scene, WorkOfTurn, tickVars
  <2>4. OccupiedIsActive'
    BY <2>1 DEF Scene, OccupiedIsActive
  <2>5. WorkOfTurn'
    BY <2>3 DEF WorkOfTurn
  <2>6. BoxStaysPut' /\ StayersStayNear'
    BY <2>1, <2>2 DEF Scene, BoxStaysPut, StayersStayNear
  <2>7. QED
    BY <2>4, <2>5, <2>6 DEF Scene
<1>3. ASSUME NEW p \in Players, Departs(p)
      PROVE  Scene'
  <2>1. PICK v \in {Away, Gone} : place' = [place EXCEPT ![p] = v]
    BY <1>3 DEF Departs
  <2>2. \A q \in Objects : place'[q] = IF q = p THEN v ELSE place[q]
    BY <2>1 DEF TypeOK
  <2>3. turn \in {World, Jumps} /\ UNCHANGED <<active, tickVars>> /\ p \notin Stayers
    BY <1>3 DEF Departs
  <2>4. toScan' = {} /\ todo' = {}
    BY <2>3 DEF Scene, WorkOfTurn, tickVars
  <2>5. OccupiedIsActive'
    BY <2>2, <2>3 DEF Scene, OccupiedIsActive
  <2>6. WorkOfTurn'
    BY <2>4 DEF WorkOfTurn
  <2>7. BoxStaysPut' /\ StayersStayNear'
    BY <2>2, <2>3 DEF Scene, BoxStaysPut, StayersStayNear
  <2>8. QED
    BY <2>5, <2>6, <2>7 DEF Scene
<1>4. ASSUME BeginTick
      PROVE  Scene'
  <2>1. \A q \in Objects : place'[q] = place[q] \/ (q = Box /\ place'[q] = Gone)
    BY <1>4 DEF BeginTick, TypeOK
  <2>2. turn = World /\ turn' = Jumps /\ UNCHANGED <<active, toScan, todo>>
    BY <1>4 DEF BeginTick
  <2>3. QED
    BY <2>1, <2>2 DEF Scene, OccupiedIsActive, WorkOfTurn, BoxStaysPut, StayersStayNear
<1>5. ASSUME NEW c \in Cells, BeginGrid(c)
      PROVE  Scene'
  <2>1. turn' = c /\ toScan' = HeldPlayers(c) /\ todo' = Held(c) /\ UNCHANGED place
        /\ active' \in {active, [active EXCEPT ![c] = HeldPlayers(c) # {}]}
    BY <1>5 DEF BeginGrid, Reaches
  <2>2. \A p \in toScan' : place'[p] = c
    BY <2>1 DEF HeldPlayers, Held
  <2>3. Box \in todo' => c = BoxCell
    BY <2>1 DEF Held, Scene, BoxStaysPut
  <2>4. c \notin {World, Jumps}
    OBVIOUS
  <2>5. ASSUME NEW p \in Players, place[p] \in Cells
        PROVE  active'[place[p]]
    <3>1. active[place[p]]
      BY <2>5 DEF Scene, OccupiedIsActive
    <3>2. place[p] = c => HeldPlayers(c) # {}
      BY DEF HeldPlayers, Held
    <3>3. CASE active' = active
      BY <3>1, <3>3
    <3>4. CASE active' = [active EXCEPT ![c] = HeldPlayers(c) # {}]
      <4> DEFINE b == HeldPlayers(c) # {}
      <4>1. \A d \in Cells : active'[d] = IF d = c THEN b ELSE active[d]
        BY <3>4 DEF TypeOK
      <4>2. QED
        BY <2>5, <3>1, <3>2, <4>1
    <3>5. QED
      BY <2>1, <3>3, <3>4
  <2>6. QED
    BY <2>1, <2>2, <2>3, <2>4, <2>5
       DEF Scene, OccupiedIsActive, WorkOfTurn, BoxStaysPut, StayersStayNear
<1>6. ASSUME \/ \E c \in Cells : SkipIdleGrid(c)
             \/ EndTick
      PROVE  Scene'
  <2>1. toScan' = {} /\ todo' = {} /\ UNCHANGED <<place, active>>
    BY <1>6 DEF SkipIdleGrid, Reaches, EndTick
  <2>2. QED
    BY <2>1 DEF Scene, OccupiedIsActive, WorkOfTurn, BoxStaysPut, StayersStayNear
<1>7. ASSUME UNCHANGED <<place, active, turn>>, toScan' \subseteq toScan, todo' \subseteq todo
      PROVE  Scene'
  BY <1>7 DEF Scene, OccupiedIsActive, WorkOfTurn, BoxStaysPut, StayersStayNear
<1>8. ASSUME NEW p \in Players, NEW inRange \in SUBSET Objects, Scan(p, inRange)
      PROVE  Scene'
  BY <1>7, <1>8 DEF Scan
<1>9. ASSUME Serves
      PROVE  Scene'
  <2>1. toScan \subseteq Players
    BY DEF TypeOK
  <2>2. QED
    BY <1>9, <2>1 DEF Serves, Scene, OccupiedIsActive, WorkOfTurn, BoxStaysPut, StayersStayNear
<1>10. ASSUME NEW elapsed \in BOOLEAN, UpdateBox(elapsed)
       PROVE  Scene'
  BY <1>7, <1>10 DEF UpdateBox
<1>11. ASSUME UNCHANGED vars
       PROVE  Scene'
  BY <1>1, <1>11 DEF vars, Still, boxVars
<1>12. QED
  BY <1>1, <1>2, <1>3, <1>4, <1>5, <1>6, <1>8, <1>9, <1>10, <1>11, Steps

-------------------------------------------------------------------------------
(* What those who stay see of the box *)

LEMMA SeenBox ==
  ASSUME TypeOK, BoxStaysPut, StayersStayNear, AbsentIsUnseen,
         NEW p \in Stayers, client[p][Box] # "absent"
  PROVE  /\ place[p] \in Cells /\ place[Box] = BoxCell
         /\ BoxCell \in Adjacent[place[p]]
<1>1. place[p] # Away /\ place[Box] = BoxCell
  BY DEF AbsentIsUnseen
<1>2. place[p] \in Adjacent[BoxCell]
  BY <1>1 DEF StayersStayNear
<1>3. place[p] \in Cells
  BY <1>2, SurroundingsAssumption
<1>4. QED
  BY <1>1, <1>2, <1>3, SurroundingsAssumption

\* When the box is deleted, everybody who stays and has it loses it.
LEMMA BeginTickFacts ==
  ASSUME IInv, BeginTick
  PROVE  /\ \A q \in Players, x \in Objects :
              client'[q][x] = client[q][x] \/ client'[q][x] = "absent"
         /\ \A q \in Players : place'[q] = place[q]
         /\ place'[Box] # place[Box] =>
              \A q \in Stayers : client'[q][Box] = "absent"
<1> USE Constants
<1>1. CASE looted /\ place[Box] = BoxCell
  <2> DEFINE D == DespawnNearby(Box, client)
  <2>1. /\ \A q \in Players, x \in Objects : D[q][x] = client[q][x] \/ D[q][x] = "absent"
        /\ \A q \in Players :
             place[q] \in Cells /\ place[q] \in Adjacent[place[Box]] /\ Knows(q, Box)
               => D[q][Box] = "absent"
    BY RowFacts, DespawnFacts DEF IInv
  <2>2. client' = D /\ place' = [place EXCEPT ![Box] = Gone]
    BY <1>1 DEF BeginTick
  <2> HIDE DEF D
  <2>3. \A q \in Players : place'[q] = place[q]
    BY <2>2 DEF IInv, TypeOK
  <2>4. ASSUME NEW q \in Stayers
        PROVE  D[q][Box] = "absent"
    <3>1. CASE client[q][Box] = "absent"
      BY <2>1, <3>1
    <3>2. CASE client[q][Box] # "absent"
      <4>1. place[q] \in Cells /\ place[q] # Away
        BY <3>2, SeenBox DEF IInv
      <4>2. place[q] \in Adjacent[place[Box]]
        BY <1>1, <4>1 DEF IInv, StayersStayNear
      <4>3. Knows(q, Box)
        BY <3>2 DEF IInv, BoxHasEntry, Orphaned
      <4>4. QED
        BY <2>1, <4>1, <4>2, <4>3
    <3>3. QED
      BY <3>1, <3>2
  <2>5. QED
    BY <2>1, <2>2, <2>3, <2>4
<1>2. CASE ~(looted /\ place[Box] = BoxCell)
  BY <1>2 DEF BeginTick
<1>3. QED
  BY <1>1, <1>2

LEMMA ScanOfTurn ==
  ASSUME IInv, NEW p \in Players, NEW inRange \in SUBSET Objects,
         p \in toScan, Scan(p, inRange)
  PROVE  /\ turn \in Cells /\ place[p] = turn
         /\ Box \in inRange => place[Box] = BoxCell
<1> USE Constants
<1>1. place[p] = turn /\ turn \notin {World, Jumps}
  BY DEF IInv, WorkOfTurn
<1>2. turn \in Cells
  BY <1>1 DEF IInv, TypeOK
<1>3. Adjacent[turn] \subseteq Cells
  BY <1>2, SurroundingsAssumption
<1>4. Box \in inRange => place[Box] \in Cells
  BY <1>3 DEF Scan, GetNearbyGrids
<1>5. QED
  BY <1>1, <1>2, <1>4 DEF IInv, BoxStaysPut

LEMMA UnseenStep ==
  ASSUME IInv, [Next]_vars
  PROVE  AbsentIsUnseen'
<1> USE Constants
<1>1. ASSUME UNCHANGED place,
             \A q \in Stayers : client'[q][Box] \in {client[q][Box], "absent"}
      PROVE  AbsentIsUnseen'
  BY <1>1 DEF IInv, AbsentIsUnseen
<1>2. ASSUME Still
      PROVE  AbsentIsUnseen'
  BY <1>1, <1>2 DEF Still, showVars
<1>3. ASSUME NEW p \in Players, NEW c \in Cells, Arrives(p, c)
      PROVE  AbsentIsUnseen'
  <2>1. /\ \A q \in Objects : place'[q] = IF q = p THEN c ELSE place[q]
        /\ client' = client
    BY <1>3, ArrivesFacts DEF IInv, Arrives, showVars
  <2>2. QED
    BY <2>1 DEF IInv, AbsentIsUnseen
<1>4. ASSUME NEW p \in Players, Departs(p)
      PROVE  AbsentIsUnseen'
  <2>1. PICK v \in {Away, Gone} : place' = [place EXCEPT ![p] = v]
    BY <1>4 DEF Departs
  <2>2. \A q \in Objects : q # p => place'[q] = place[q]
    BY <2>1 DEF IInv, TypeOK
  <2>3. p \notin Stayers /\ Leaves(p)
    BY <1>4 DEF Departs
  <2>4. \A q \in Players, x \in Objects :
          client'[q][x] = client[q][x] \/ client'[q][x] = "absent"
    BY <2>3, LeavesFacts DEF IInv
  <2>5. QED
    BY <2>2, <2>3, <2>4 DEF IInv, AbsentIsUnseen
<1>5. ASSUME BeginTick
      PROVE  AbsentIsUnseen'
  BY <1>5, BeginTickFacts DEF IInv, AbsentIsUnseen
<1>6. ASSUME \/ \E c \in Cells : BeginGrid(c) \/ SkipIdleGrid(c)
             \/ \E elapsed \in BOOLEAN : UpdateBox(elapsed)
             \/ EndTick
             \/ UNCHANGED vars
      PROVE  AbsentIsUnseen'
  BY <1>1, <1>6 DEF BeginGrid, SkipIdleGrid, UpdateBox, EndTick, vars, showVars
<1>7. ASSUME NEW p \in Players, NEW inRange \in SUBSET Objects,
             p \in toScan, Scan(p, inRange)
      PROVE  AbsentIsUnseen'
  <2>1. /\ \A q \in Players : q # p => client'[q] = client[q]
        /\ \A x \in Objects : client'[p][x] =
             IF x \in inRange /\ Spawns(p, x) THEN Look(p, x) ELSE client[p][x]
    BY <1>7, ScanFacts DEF IInv
  <2>2. /\ turn \in Cells /\ place[p] = turn
        /\ Box \in inRange => place[Box] = BoxCell
    BY <1>7, ScanOfTurn
  <2>3. place' = place
    BY <1>7 DEF Scan
  <2>4. QED
    BY <2>1, <2>2, <2>3 DEF IInv, AbsentIsUnseen
<1>8. ASSUME Serves
      PROVE  AbsentIsUnseen'
  BY <1>8 DEF Serves, IInv, AbsentIsUnseen
<1>9. QED
  BY <1>2, <1>3, <1>4, <1>5, <1>6, <1>7, <1>8, Steps DEF IInv

LEMMA InitInv ==
  ASSUME Init
  PROVE  IInv
<1> USE Constants
<1>1. TypeOK
  <2>1. /\ entry \in [Players -> EntryMaps] /\ client \in [Players -> Screens]
        /\ target \in [Players -> Players \union Mobs \union {None}]
    BY DEF Init, Nothing, Blank, EntryMaps, Screens
  <2>2. /\ place \in [Objects -> Cells \union {Away, Gone}]
        /\ active \in [Cells -> BOOLEAN]
    BY DEF Init
  <2>3. turn \in Jumps..World
    BY DEF Init
  <2>4. QED
    BY <2>1, <2>2, <2>3 DEF Init, TypeOK, EntryMaps, Screens
<1>2. BoxHasEntry /\ AbsentIsUnseen
  BY DEF Init, BoxHasEntry, Orphaned, AbsentIsUnseen, Blank
<1>3. OccupiedIsActive /\ WorkOfTurn /\ BoxStaysPut /\ StayersStayNear
  BY DEF Init, OccupiedIsActive, WorkOfTurn, BoxStaysPut, StayersStayNear
<1>4. QED
  BY <1>1, <1>2, <1>3 DEF IInv

LEMMA NextInv ==
  ASSUME IInv, [Next]_vars
  PROVE  IInv'
<1>1. TypeOK'
  BY TypeStep DEF IInv
<1>2. BoxHasEntry'
  <2>1. NoneOrphaned
    BY ShownTypeStep DEF IInv
  <2>2. ~Dead(Box) /\ Box \in Objects
    BY Constants DEF Dead
  <2>3. QED
    BY <2>1, <2>2 DEF IInv, BoxHasEntry, NoneOrphaned
<1>3. Scene'
  BY SceneStep DEF IInv, Scene
<1>4. AbsentIsUnseen'
  BY UnseenStep
<1>5. QED
  BY <1>1, <1>2, <1>3, <1>4 DEF IInv, Scene

LEMMA InvAlways == Spec => []IInv
<1>1. Init => IInv
  BY InitInv
<1>2. IInv /\ [Next]_vars => IInv'
  BY NextInv
<1>3. QED
  BY <1>1, <1>2, PTL DEF Spec

\* The variables keep their types.
THEOREM TypeCorrect == Spec => []TypeOK
<1>1. IInv => TypeOK
  BY DEF IInv
<1>2. QED
  BY <1>1, InvAlways, PTL

\* No step takes the entry of an object that stays on the screen, but for a dead mob
\* that the player has selected (SurroundingObject.cpp, BuildObjectData.cpp,
\* Grid::UnBuildObjectAndSend): scans, despawns, kills and departures, with any
\* number of players and mobs, leave nothing else that nobody will take away.
THEOREM ShownCorrect == Spec => OnlyDeadAreOrphaned
<1>1. TypeOK /\ [Next]_vars => [NoneOrphaned]_vars
  BY ShownTypeStep
<1>2. QED
  BY <1>1, TypeCorrect, PTL DEF Spec, OnlyDeadAreOrphaned, NoneOrphaned

-------------------------------------------------------------------------------
(* The change of colour.  Between the update of the box that raises the    *)
(* flag and the one that clears it, every grid before the box's own is     *)
(* visited in the next tick and every grid after it in this one.           *)

\* A step that neither shows the box nor moves the tick.
ColourFrame(p) ==
  /\ place'[p] = place[p] /\ client'[p][Box] \in {client[p][Box], "absent"}
  /\ p \in toScan => p \in toScan'

LEMMA ColourKept ==
  ASSUME ColourOnItsWay, UNCHANGED <<friendly, flag, turn>>, Box \in todo' => Box \in todo,
         \A p \in Stayers : ColourFrame(p) \/ client'[p][Box] = "absent"
  PROVE  ColourOnItsWay'
BY DEF ColourOnItsWay, ColourFrame, ScannedBeforeBox, ToBeScanned, BoxIsUpdated

\* The tick goes on: a player to be scanned is still to be scanned.
LEMMA ColourOnward ==
  ASSUME ColourOnItsWay, UNCHANGED <<friendly, flag>>,
         BoxIsUpdated => BoxIsUpdated',
         \A p \in Stayers :
           /\ place'[p] = place[p] /\ client'[p][Box] = client[p][Box]
           /\ client[p][Box] = "reserved" => (ToBeScanned(p) => ToBeScanned(p)')
  PROVE  ColourOnItsWay'
BY DEF ColourOnItsWay, ScannedBeforeBox

LEMMA ColourStep ==
  ASSUME Stayers \subseteq Settled, IInv, ColourOnItsWay, [Next]_vars
  PROVE  ColourOnItsWay'
<1> USE Constants
<1>0. /\ turn \in Nat /\ turn <= NumCells + 1
      /\ \A p \in Stayers : client[p][Box] = "reserved" =>
           /\ place[p] \in Cells /\ place[Box] = BoxCell
           /\ BoxCell \in Adjacent[place[p]]
  <2>1. turn \in Nat /\ turn <= NumCells + 1
    BY DEF IInv, TypeOK
  <2>2. ASSUME NEW p \in Stayers, client[p][Box] = "reserved"
        PROVE  /\ place[p] \in Cells /\ place[Box] = BoxCell
               /\ BoxCell \in Adjacent[place[p]]
    BY <2>2, SeenBox DEF IInv
  <2>3. QED
    BY <2>1, <2>2
<1>1. ASSUME Still \/ UNCHANGED vars
      PROVE  ColourOnItsWay'
  BY <1>1, ColourKept DEF Still, vars, ColourFrame, showVars, tickVars, boxVars
<1>2. ASSUME NEW p \in Players, NEW c \in Cells, Arrives(p, c)
      PROVE  ColourOnItsWay'
  <2>1. \A q \in Objects : place'[q] = IF q = p THEN c ELSE place[q]
    BY <1>2, ArrivesFacts DEF IInv
  <2>2. UNCHANGED <<client, friendly, flag, turn, toScan, todo>>
    BY <1>2 DEF Arrives, showVars, boxVars, tickVars
  <2>3. ASSUME NEW q \in Stayers
        PROVE  ColourFrame(q) \/ client'[q][Box] = "absent"
    <3>1. CASE q = p
      <4>1. place[p] = Away
        BY <1>2, <3>1 DEF Arrives
      <4>2. client[q][Box] = "absent"
        BY <3>1, <4>1 DEF IInv, AbsentIsUnseen
      <4>3. QED
        BY <2>2, <4>2
    <3>2. CASE q # p
      BY <2>1, <2>2, <3>2 DEF ColourFrame
    <3>3. QED
      BY <3>1, <3>2
  <2>4. QED
    BY <2>2, <2>3, ColourKept
<1>3. ASSUME NEW p \in Players, Departs(p)
      PROVE  ColourOnItsWay'
  <2>1. PICK v \in {Away, Gone} : place' = [place EXCEPT ![p] = v]
    BY <1>3 DEF Departs
  <2>2. \A q \in Objects : q # p => place'[q] = place[q]
    BY <2>1 DEF IInv, TypeOK
  <2>3. p \notin Stayers /\ Leaves(p) /\ UNCHANGED <<friendly, flag, turn, toScan, todo>>
    BY <1>3 DEF Departs, boxVars, tickVars
  <2>4. \A q \in Players, x \in Objects :
          client'[q][x] = client[q][x] \/ client'[q][x] = "absent"
    BY <2>3, LeavesFacts DEF IInv
  <2>5. \A q \in Stayers : ColourFrame(q)
    BY <2>2, <2>3, <2>4 DEF ColourFrame
  <2>6. QED
    BY <2>3, <2>5, ColourKept
<1>4. ASSUME BeginTick
      PROVE  ColourOnItsWay'
  <2>1. /\ turn = World /\ turn' = 0 /\ toScan = {} /\ UNCHANGED <<friendly, flag>>
    BY <1>4 DEF BeginTick, IInv, WorkOfTurn, boxVars
  <2>2. ASSUME NEW p \in Stayers, ~friendly', client'[p][Box] = "reserved"
        PROVE  flag' /\ ScannedBeforeBox(p)'
    <3>1. client[p][Box] = "reserved" /\ place'[p] = place[p]
      BY <1>4, <2>2, BeginTickFacts
    <3>2. place[p] \in Cells
      BY <1>0, <3>1
    <3>3. flag /\ ScannedBeforeBox(p)
      BY <2>1, <2>2, <3>1 DEF ColourOnItsWay
    <3>4. ~ToBeScanned(p) /\ ToBeScanned(p)'
      BY <2>1, <3>1, <3>2 DEF ToBeScanned
    <3>5. place'[p] <= BoxCell
      BY <3>1, <3>2, <3>3, <3>4 DEF ScannedBeforeBox
    <3>6. QED
      BY <2>1, <3>1, <3>2, <3>3, <3>4, <3>5 DEF ScannedBeforeBox
  <2>3. QED
    BY <2>2 DEF ColourOnItsWay
<1>5. ASSUME NEW c \in Cells, BeginGrid(c) \/ SkipIdleGrid(c)
      PROVE  ColourOnItsWay'
  <2>1. /\ turn = c - 1 /\ turn' = c /\ toScan = {}
        /\ UNCHANGED <<friendly, flag, client, place>>
    BY <1>5 DEF BeginGrid, SkipIdleGrid, Reaches, boxVars, showVars
  <2>2. BoxIsUpdated => BoxIsUpdated'
    BY <2>1 DEF BoxIsUpdated
  <2>3. ASSUME NEW p \in Stayers, client[p][Box] = "reserved", ToBeScanned(p)
        PROVE  ToBeScanned(p)'
    <3>1. place[p] \in Cells /\ place[p] >= c
      BY <1>0, <2>1, <2>3 DEF ToBeScanned
    <3>2. CASE place[p] = c
      <4>1. active[c]
        BY <3>1, <3>2 DEF IInv, OccupiedIsActive
      <4>2. toScan' = HeldPlayers(c)
        BY <1>5, <4>1 DEF BeginGrid, SkipIdleGrid
      <4>3. p \in toScan'
        BY <3>2, <4>2 DEF HeldPlayers, Held
      <4>4. QED
        BY <2>1, <3>2, <4>3 DEF ToBeScanned
    <3>3. CASE place[p] # c
      BY <2>1, <3>1, <3>3 DEF ToBeScanned
    <3>4. QED
      BY <3>2, <3>3
  <2>4. QED
    BY <2>1, <2>2, <2>3, ColourOnward
<1>6. ASSUME EndTick
      PROVE  ColourOnItsWay'
  <2>1. /\ turn = NumCells /\ turn' = NumCells + 1 /\ toScan = {}
        /\ UNCHANGED <<friendly, flag, client, place>>
    BY <1>6 DEF EndTick, boxVars, showVars
  <2>2. BoxIsUpdated'
    BY <2>1 DEF BoxIsUpdated
  <2>3. ASSUME NEW p \in Stayers, client[p][Box] = "reserved"
        PROVE  ~ToBeScanned(p)
    BY <1>0, <2>1, <2>3 DEF ToBeScanned
  <2>4. QED
    BY <2>1, <2>2, <2>3, ColourOnward
<1>7. ASSUME NEW p \in Players, NEW inRange \in SUBSET Objects,
             p \in toScan, Scan(p, inRange)
      PROVE  ColourOnItsWay'
  <2>1. /\ \A q \in Players : q # p => client'[q] = client[q]
        /\ \A x \in Objects : client'[p][x] =
             IF x \in inRange /\ Spawns(p, x) THEN Look(p, x) ELSE client[p][x]
    BY <1>7, ScanFacts DEF IInv
  <2>2. turn \in Cells /\ place[p] = turn
    BY <1>7, ScanOfTurn
  <2>3. UNCHANGED <<place, friendly, flag, turn, todo>> /\ toScan' = toScan \ {p}
    BY <1>7 DEF Scan, boxVars
  <2>4. ASSUME p \in Stayers, ~friendly
        PROVE  client'[p][Box] # "reserved"
    <3>1. CASE client[p][Box] = "reserved"
      <4>1. flag /\ BoxCell \in Adjacent[turn] /\ place[Box] = BoxCell
        BY <1>0, <2>2, <2>4, <3>1 DEF ColourOnItsWay
      <4>2. Box \in inRange
        BY <1>7, <2>4, <4>1 DEF Scan, GetNearbyGrids
      <4>3. Spawns(p, Box)
        BY <4>1 DEF Spawns
      <4>4. client'[p][Box] = Look(p, Box)
        BY <2>1, <4>2, <4>3
      <4>5. QED
        BY <2>4, <4>4 DEF Look
    <3>2. CASE client[p][Box] # "reserved"
      BY <2>1, <2>4, <3>2 DEF Look
    <3>3. QED
      BY <3>1, <3>2
  <2>5. ASSUME NEW q \in Stayers, ~friendly', client'[q][Box] = "reserved"
        PROVE  flag' /\ ScannedBeforeBox(q)'
    <3>1. q # p
      BY <2>3, <2>4, <2>5
    <3>2. flag /\ ScannedBeforeBox(q)
      BY <2>1, <2>3, <2>5, <3>1 DEF ColourOnItsWay
    <3>3. QED
      BY <2>3, <3>1, <3>2 DEF ScannedBeforeBox, ToBeScanned, BoxIsUpdated
  <2>6. QED
    BY <2>5 DEF ColourOnItsWay
<1>8. ASSUME Serves
      PROVE  ColourOnItsWay'
  <2>1. \A q \in Stayers : ColourFrame(q)
    BY <1>8 DEF Serves, ColourFrame
  <2>2. QED
    BY <1>8, <2>1, ColourKept DEF Serves
<1>9. ASSUME NEW elapsed \in BOOLEAN, UpdateBox(elapsed)
      PROVE  ColourOnItsWay'
  <2>1. /\ turn = BoxCell /\ toScan = {} /\ Box \in todo /\ Box \notin todo'
        /\ UNCHANGED <<place, client, turn, toScan>>
    BY <1>9 DEF UpdateBox, IInv, WorkOfTurn, showVars
  <2>2. ASSUME NEW p \in Stayers, ~friendly', client'[p][Box] = "reserved"
        PROVE  flag' /\ ScannedBeforeBox(p)'
    <3>1. client[p][Box] = "reserved" /\ place[p] \in Cells
      BY <1>0, <2>1, <2>2
    <3>2. friendly
      <4>1. SUFFICES ASSUME ~friendly
                     PROVE  FALSE
        BY DEF IInv, TypeOK
      <4>2. ScannedBeforeBox(p)
        BY <3>1, <4>1 DEF ColourOnItsWay
      <4>3. ~BoxIsUpdated
        BY <2>1 DEF BoxIsUpdated
      <4>4. QED
        BY <2>1, <3>1, <4>2, <4>3 DEF ScannedBeforeBox, ToBeScanned
    <3>3. flag'
      BY <1>9, <2>2, <3>2 DEF UpdateBox
    <3>4. BoxIsUpdated'
      BY <2>1 DEF BoxIsUpdated
    <3>5. place[p] > BoxCell => ToBeScanned(p)'
      BY <2>1 DEF ToBeScanned
    <3>6. QED
      BY <2>1, <3>3, <3>4, <3>5 DEF ScannedBeforeBox
  <2>3. QED
    BY <2>2 DEF ColourOnItsWay
<1>10. QED
  BY <1>1, <1>2, <1>3, <1>4, <1>5, <1>6, <1>7, <1>8, <1>9, Steps DEF IInv

\* A player who stays in its cell, in range of the box, is shown the box anew when
\* its cargo stops being friendly (BuildObjectData.cpp:87): when the update after
\* the change is over, the client does not show it as reserved.  A player who
\* changes its cell between the grids' turns may miss the one tick of the flag.
THEOREM ColourCorrect ==
  ASSUME Stayers \subseteq Settled
  PROVE  Spec => []ColourReachesStayers
<1>1. Init => ColourOnItsWay
  BY DEF Init, ColourOnItsWay
<1>2. IInv /\ ColourOnItsWay /\ [Next]_vars => ColourOnItsWay'
  BY ColourStep
<1>3. IInv /\ ColourOnItsWay => ColourReachesStayers
  BY DEF ColourOnItsWay, ColourReachesStayers
<1>4. QED
  BY <1>1, <1>2, <1>3, InvAlways, PTL DEF Spec

-------------------------------------------------------------------------------
(* The box that has fallen.  Every scan of a player who stays finds it, so *)
(* that the player is shown it in the first tick that passes over its grid *)
(* from the beginning, and keeps it on its screen until it is deleted.     *)

\* For who stays, an entry of the box on the map is not about to be despawned and
\* stands for a box on the screen; before the box falls there is none.
EntriesOfBox ==
  \A p \in Stayers :
    /\ entry[p][Box] # "leaving"
    /\ Knows(p, Box) /\ place[Box] # Gone =>
         place[Box] = BoxCell /\ client[p][Box] # "absent"

\* The box is on the screen of p, or p's scan of this tick is still to come.
BoxIsDue(p) ==
  /\ place[Box] = BoxCell /\ place[p] \in Cells
  /\ client[p][Box] # "absent" \/ ToBeScanned(p)

\* A tick owes the box to everybody who stays and is on the map before its grids
\* are updated; what is owed is paid before the tick ends, and nobody loses a box
\* that is not deleted.
BoxIsNotMissed ==
  \A p \in Stayers :
    /\ turn' = Jumps /\ place'[Box] = BoxCell /\ place'[p] \in Cells => BoxIsDue(p)'
    /\ BoxIsDue(p) => BoxIsDue(p)' \/ place'[Box] = Gone
    /\ BoxIsDue(p) /\ EndTick => client'[p][Box] # "absent"
    /\ client[p][Box] # "absent" => client'[p][Box] # "absent" \/ place'[Box] = Gone

\* A scan touches no entry of the box but that of the player it is for.
LEMMA ScanOfBox ==
  ASSUME IInv, NEW p \in Players, NEW inRange \in SUBSET Objects,
         p \in toScan, Scan(p, inRange)
  PROVE  /\ \A q \in Players : q # p => entry'[q][Box] = entry[q][Box]
         /\ entry'[p][Box] \in {entry[p][Box], "kept"}
         /\ Box \notin inRange => entry'[p][Box] = entry[p][Box]
<1> USE Constants
<1>1. TypeOK
  BY DEF IInv
<1> DEFINE mine == [x \in Objects |-> IF x \in inRange THEN Scanned(p, x) ELSE entry[p][x]]
           theirs(q) == [entry[q] EXCEPT ![p] = "kept"]
<1>2. entry' = [q \in Players |->
                 IF q = p THEN mine
                 ELSE IF q \in inRange /\ Knows(q, p) THEN theirs(q) ELSE entry[q]]
  BY DEF Scan
<1>3. mine[Box] = IF Box \in inRange THEN Scanned(p, Box) ELSE entry[p][Box]
  OBVIOUS
<1>4. \A q \in Players : theirs(q)[Box] = entry[q][Box]
  BY <1>1, RowFacts DEF EntryMaps
<1> HIDE DEF mine, theirs
<1>5. entry'[p] = mine
      /\ \A q \in Players : q # p => entry'[q] = theirs(q) \/ entry'[q] = entry[q]
  BY <1>2
<1>6. Scanned(p, Box) \in {entry[p][Box], "kept"}
  BY DEF Scanned
<1>7. QED
  BY <1>3, <1>4, <1>5, <1>6

\* The updates leave the box as it is, for those who stay.
LEMMA ServesOfBox ==
  ASSUME EntriesOfBox, Serves
  PROVE  \A q \in Stayers : /\ entry'[q][Box] = entry[q][Box]
                            /\ client'[q][Box] = client[q][Box]
BY Constants DEF EntriesOfBox, Serves

\* What a scan does to the screens: a player who stays, next to the box, sees it.
LEMMA ScanShowsBox ==
  ASSUME IInv, EntriesOfBox, NEW p \in Players, NEW inRange \in SUBSET Objects,
         p \in toScan, Scan(p, inRange)
  PROVE  /\ \A q \in Players : q # p => client'[q] = client[q]
         /\ client[p][Box] # "absent" => client'[p][Box] # "absent"
         /\ p \in Stayers /\ Box \in inRange => client'[p][Box] # "absent"
         /\ p \in Stayers /\ place[Box] = BoxCell => Box \in inRange
<1> USE Constants
<1>1. /\ \A q \in Players : q # p => client'[q] = client[q]
      /\ client'[p][Box] =
           IF Box \in inRange /\ Spawns(p, Box) THEN Look(p, Box) ELSE client[p][Box]
  BY ScanFacts DEF IInv
<1>2. Look(p, Box) # "absent"
  BY DEF Look
<1>3. turn \in Cells /\ place[p] = turn /\ (Box \in inRange => place[Box] = BoxCell)
  BY ScanOfTurn
<1>4. ASSUME p \in Stayers, Box \in inRange
      PROVE  client'[p][Box] # "absent"
  <2>1. CASE Knows(p, Box)
    <3>1. client[p][Box] # "absent"
      BY <1>3, <1>4, <2>1 DEF EntriesOfBox
    <3>2. QED
      BY <1>1, <1>2, <3>1
  <2>2. CASE ~Knows(p, Box)
    BY <1>1, <1>2, <1>4, <2>2 DEF Spawns
  <2>3. QED
    BY <2>1, <2>2
<1>5. ASSUME p \in Stayers, place[Box] = BoxCell
      PROVE  Box \in inRange
  <2>1. turn \in Adjacent[BoxCell]
    BY <1>3, <1>5 DEF IInv, StayersStayNear
  <2>2. BoxCell \in Adjacent[turn]
    BY <1>3, <2>1, SurroundingsAssumption
  <2>3. QED
    BY <1>5, <2>2 DEF Scan, GetNearbyGrids
<1>6. QED
  BY <1>1, <1>2, <1>4, <1>5

\* The deletion of the box takes it off the screens of those who have it, and
\* nothing else does.
LEMMA BeginTickOfBox ==
  ASSUME IInv, BeginTick
  PROVE  /\ entry' = entry
         /\ place'[Box] = Gone \/ (place'[Box] = place[Box] /\ client' = client)
<1>1. entry' = entry
  BY DEF BeginTick
<1>2. CASE looted /\ place[Box] = BoxCell
  BY <1>2, Constants DEF BeginTick, IInv, TypeOK
<1>3. CASE ~(looted /\ place[Box] = BoxCell)
  BY <1>3 DEF BeginTick
<1>4. QED
  BY <1>1, <1>2, <1>3

LEMMA EntriesStep ==
  ASSUME IInv, EntriesOfBox, [Next]_vars
  PROVE  EntriesOfBox'
<1> USE Constants
<1>1. ASSUME place'[Box] = place[Box],
             \A q \in Stayers : entry'[q][Box] = entry[q][Box] /\ client'[q][Box] = client[q][Box]
      PROVE  EntriesOfBox'
  BY <1>1 DEF EntriesOfBox, Knows
<1>2. ASSUME Still \/ UNCHANGED vars
      PROVE  EntriesOfBox'
  BY <1>1, <1>2 DEF Still, vars, showVars
<1>3. ASSUME NEW p \in Players, NEW c \in Cells, Arrives(p, c)
      PROVE  EntriesOfBox'
  <2>1. place'[Box] = place[Box] /\ UNCHANGED showVars
    BY <1>3, ArrivesFacts DEF IInv, Arrives
  <2>2. QED
    BY <1>1, <2>1 DEF showVars
<1>4. ASSUME NEW p \in Players, Departs(p)
      PROVE  EntriesOfBox'
  <2>1. PICK v \in {Away, Gone} : place' = [place EXCEPT ![p] = v]
    BY <1>4 DEF Departs
  <2>2. place'[Box] = place[Box]
    BY <2>1 DEF IInv, TypeOK
  <2>3. p \notin Stayers /\ Leaves(p)
    BY <1>4 DEF Departs
  <2>4. \A q \in Players, x \in Objects :
          client'[q][x] = client[q][x] \/ client'[q][x] = "absent"
    BY <2>3, LeavesFacts DEF IInv
  <2>5. ASSUME NEW q \in Stayers
        PROVE  entry'[q] = entry[q] /\ client'[q][Box] = client[q][Box]
    <3>1. q # p
      BY <2>3
    <3>2. entry'[q] = entry[q]
      BY <2>3, <3>1, LeavesFacts DEF IInv
    <3>3. client'[q][Box] = client[q][Box]
      BY <2>3, <3>1, LeavesFacts DEF IInv
    <3>4. QED
      BY <3>2, <3>3
  <2>6. QED
    BY <1>1, <2>2, <2>5
<1>5. ASSUME BeginTick
      PROVE  EntriesOfBox'
  BY <1>1, <1>5, BeginTickOfBox DEF EntriesOfBox, Knows
<1>6. ASSUME \/ \E c \in Cells : BeginGrid(c) \/ SkipIdleGrid(c)
             \/ \E elapsed \in BOOLEAN : UpdateBox(elapsed)
             \/ EndTick
      PROVE  EntriesOfBox'
  BY <1>1, <1>6 DEF BeginGrid, SkipIdleGrid, UpdateBox, EndTick, showVars
<1>7. ASSUME NEW p \in Players, NEW inRange \in SUBSET Objects,
             p \in toScan, Scan(p, inRange)
      PROVE  EntriesOfBox'
  <2>1. place' = place
    BY <1>7 DEF Scan
  <2>2. ASSUME NEW q \in Stayers, q # p
        PROVE  entry'[q][Box] = entry[q][Box] /\ client'[q][Box] = client[q][Box]
    BY <1>7, <2>2, ScanOfBox, ScanShowsBox
  <2>3. ASSUME p \in Stayers
        PROVE  /\ entry'[p][Box] # "leaving"
               /\ entry'[p][Box] # "none" /\ place[Box] # Gone =>
                    place[Box] = BoxCell /\ client'[p][Box] # "absent"
    <3>1. entry'[p][Box] # "leaving"
      BY <1>7, <2>3, ScanOfBox DEF EntriesOfBox
    <3>2. CASE Box \in inRange
      BY <1>7, <2>3, <3>1, <3>2, ScanShowsBox, ScanOfTurn
    <3>3. CASE Box \notin inRange
      <4>1. entry'[p][Box] = entry[p][Box]
        BY <1>7, <3>3, ScanOfBox
      <4>2. client[p][Box] # "absent" => client'[p][Box] # "absent"
        BY <1>7, ScanShowsBox
      <4>3. QED
        BY <2>3, <3>1, <4>1, <4>2 DEF EntriesOfBox, Knows
    <3>4. QED
      BY <3>2, <3>3
  <2>4. QED
    BY <2>1, <2>2, <2>3 DEF EntriesOfBox, Knows
<1>8. ASSUME Serves
      PROVE  EntriesOfBox'
  <2>1. CASE place'[Box] = place[Box]
    BY <1>1, <1>8, <2>1, ServesOfBox
  <2>2. CASE place[Box] = Away
    <3>1. \A q \in Stayers : entry[q][Box] = "none"
      BY <2>2 DEF EntriesOfBox, Knows
    <3>2. QED
      BY <1>8, <3>1, ServesOfBox DEF EntriesOfBox, Knows
  <2>3. QED
    BY <1>8, <2>1, <2>2 DEF Serves
<1>9. QED
  BY <1>2, <1>3, <1>4, <1>5, <1>6, <1>7, <1>8, Steps DEF IInv

\* The step leaves p what it has of the box.
BoxFrame(p) ==
  /\ place'[Box] = place[Box] /\ place'[p] = place[p]
  /\ client'[p][Box] = client[p][Box]
  /\ ToBeScanned(p) => ToBeScanned(p)'

\* What is owed stays owed, and what is shown stays shown.
BoxIsKept(p) ==
  /\ BoxIsDue(p) => BoxIsDue(p)' \/ place'[Box] = Gone
  /\ client[p][Box] # "absent" => client'[p][Box] # "absent" \/ place'[Box] = Gone

LEMMA KeptByFrame ==
  ASSUME NEW p \in Stayers, BoxFrame(p)
  PROVE  BoxIsKept(p)
BY DEF BoxFrame, BoxIsKept, BoxIsDue

LEMMA BoxStep ==
  ASSUME IInv, EntriesOfBox, Next
  PROVE  \A q \in Stayers : BoxIsKept(q)
<1> USE Constants
<1>0. turn \in Nat /\ turn <= NumCells + 1
  BY DEF IInv, TypeOK
<1>1. ASSUME Still \/ UNCHANGED vars
      PROVE  \A q \in Stayers : BoxIsKept(q)
  BY <1>1, KeptByFrame DEF Still, vars, showVars, tickVars, BoxFrame, ToBeScanned
<1>2. ASSUME NEW p \in Players, NEW c \in Cells, Arrives(p, c)
      PROVE  \A q \in Stayers : BoxIsKept(q)
  <2>1. \A q \in Objects : place'[q] = IF q = p THEN c ELSE place[q]
    BY <1>2, ArrivesFacts DEF IInv
  <2>2. UNCHANGED <<client, turn, toScan>> /\ turn \in {World, Jumps}
    BY <1>2 DEF Arrives, showVars, tickVars
  <2>3. ASSUME NEW q \in Stayers, q # p
        PROVE  BoxIsKept(q)
    BY <2>1, <2>2, <2>3, KeptByFrame DEF BoxFrame, ToBeScanned
  <2>4. ASSUME p \in Stayers, BoxIsDue(p)
        PROVE  BoxIsDue(p)'
    <3>1. toScan = {}
      BY <2>2 DEF IInv, WorkOfTurn
    <3>2. CASE turn = World
      <4>1. ~ToBeScanned(p)
        BY <2>4, <3>1, <3>2 DEF ToBeScanned, BoxIsDue
      <4>2. QED
        BY <2>1, <2>2, <2>4, <4>1 DEF BoxIsDue
    <3>3. CASE turn = Jumps
      <4>1. ToBeScanned(p)'
        BY <2>1, <2>2, <3>3 DEF ToBeScanned
      <4>2. QED
        BY <2>1, <2>4, <4>1 DEF BoxIsDue
    <3>4. QED
      BY <2>2, <3>2, <3>3
  <2>5. QED
    BY <2>2, <2>3, <2>4 DEF BoxIsKept
<1>3. ASSUME NEW p \in Players, Departs(p)
      PROVE  \A q \in Stayers : BoxIsKept(q)
  <2>1. PICK v \in {Away, Gone} : place' = [place EXCEPT ![p] = v]
    BY <1>3 DEF Departs
  <2>2. \A q \in Objects : q # p => place'[q] = place[q]
    BY <2>1 DEF IInv, TypeOK
  <2>3. p \notin Stayers /\ Leaves(p) /\ UNCHANGED <<turn, toScan>>
    BY <1>3 DEF Departs, tickVars
  <2>4. \A q \in Stayers : client'[q][Box] = client[q][Box]
    BY <2>3, LeavesFacts DEF IInv
  <2>5. \A q \in Stayers : BoxFrame(q)
    BY <2>2, <2>3, <2>4 DEF BoxFrame, ToBeScanned
  <2>6. QED
    BY <2>5, KeptByFrame
<1>4. ASSUME BeginTick
      PROVE  \A q \in Stayers : BoxIsKept(q)
  <2>1. turn' = Jumps /\ \A q \in Players : place'[q] = place[q]
    BY <1>4, BeginTickFacts DEF BeginTick
  <2>2. CASE place'[Box] = Gone
    BY <2>2 DEF BoxIsKept
  <2>3. CASE place'[Box] # Gone
    <3>1. place'[Box] = place[Box] /\ client' = client
      BY <1>4, <2>3, BeginTickOfBox
    <3>2. ASSUME NEW q \in Stayers, BoxIsDue(q)
          PROVE  BoxIsDue(q)'
      BY <2>1, <3>1, <3>2 DEF BoxIsDue, ToBeScanned
    <3>3. QED
      BY <3>1, <3>2 DEF BoxIsKept
  <2>4. QED
    BY <2>2, <2>3
<1>5. ASSUME NEW c \in Cells, BeginGrid(c) \/ SkipIdleGrid(c)
      PROVE  \A q \in Stayers : BoxIsKept(q)
  <2>1. /\ turn = c - 1 /\ turn' = c /\ toScan = {} /\ UNCHANGED <<client, place>>
    BY <1>5 DEF BeginGrid, SkipIdleGrid, Reaches, showVars
  <2>2. ASSUME NEW q \in Stayers, BoxIsDue(q)
        PROVE  BoxIsDue(q)'
    <3>1. CASE client[q][Box] # "absent"
      BY <2>1, <2>2, <3>1 DEF BoxIsDue
    <3>2. CASE ToBeScanned(q)
      <4>1. place[q] \in Cells /\ place[q] >= c
        BY <2>1, <2>2, <3>2 DEF BoxIsDue, ToBeScanned
      <4>2. CASE place[q] = c
        <5>1. active[c]
          BY <4>1, <4>2 DEF IInv, OccupiedIsActive
        <5>2. toScan' = HeldPlayers(c)
          BY <1>5, <5>1 DEF BeginGrid, SkipIdleGrid
        <5>3. q \in toScan'
          BY <4>2, <5>2 DEF HeldPlayers, Held
        <5>4. QED
          BY <2>1, <2>2, <4>2, <5>3 DEF BoxIsDue, ToBeScanned
      <4>3. CASE place[q] # c
        BY <2>1, <2>2, <4>1, <4>3 DEF BoxIsDue, ToBeScanned
      <4>4. QED
        BY <4>2, <4>3
    <3>3. QED
      BY <2>2, <3>1, <3>2 DEF BoxIsDue
  <2>3. QED
    BY <2>1, <2>2 DEF BoxIsKept
<1>6. ASSUME NEW p \in Players, NEW inRange \in SUBSET Objects,
             p \in toScan, Scan(p, inRange)
      PROVE  \A q \in Stayers : BoxIsKept(q)
  <2>1. UNCHANGED <<place, turn>> /\ toScan' = toScan \ {p}
    BY <1>6 DEF Scan
  <2>2. ASSUME NEW q \in Stayers, q # p
        PROVE  BoxIsKept(q)
    <3>1. client'[q] = client[q]
      BY <1>6, <2>2, ScanShowsBox
    <3>2. QED
      BY <2>1, <2>2, <3>1, KeptByFrame DEF BoxFrame, ToBeScanned
  <2>3. ASSUME p \in Stayers
        PROVE  BoxIsKept(p)
    <3>1. place[Box] = BoxCell => client'[p][Box] # "absent"
      BY <1>6, <2>3, ScanShowsBox
    <3>2. client[p][Box] # "absent" => client'[p][Box] # "absent"
      BY <1>6, ScanShowsBox
    <3>3. QED
      BY <2>1, <3>1, <3>2 DEF BoxIsKept, BoxIsDue
  <2>4. QED
    BY <2>2, <2>3
<1>7. ASSUME Serves
      PROVE  \A q \in Stayers : BoxIsKept(q)
  <2>1. ASSUME NEW q \in Stayers, place[Box] = Away
        PROVE  BoxIsKept(q)
    <3>1. ~BoxIsDue(q)
      BY <2>1 DEF BoxIsDue
    <3>2. client'[q][Box] = client[q][Box]
      BY <1>7, ServesOfBox
    <3>3. QED
      BY <3>1, <3>2 DEF BoxIsKept
  <2>2. ASSUME NEW q \in Stayers, place'[Box] = place[Box]
        PROVE  BoxIsKept(q)
    <3>1. client'[q][Box] = client[q][Box]
      BY <1>7, ServesOfBox
    <3>2. BoxFrame(q)
      BY <1>7, <2>2, <3>1 DEF Serves, BoxFrame, ToBeScanned
    <3>3. QED
      BY <3>2, KeptByFrame
  <2>3. QED
    BY <1>7, <2>1, <2>2 DEF Serves
<1>8. ASSUME NEW elapsed \in BOOLEAN, UpdateBox(elapsed)
      PROVE  \A q \in Stayers : BoxIsKept(q)
  BY <1>8, KeptByFrame DEF UpdateBox, showVars, BoxFrame, ToBeScanned
<1>9. ASSUME EndTick
      PROVE  \A q \in Stayers : BoxIsKept(q)
  <2>1. /\ turn = NumCells /\ toScan = {} /\ UNCHANGED <<client, place>>
    BY <1>9 DEF EndTick, showVars
  <2>2. \A q \in Stayers : BoxIsDue(q) => client[q][Box] # "absent"
    BY <2>1 DEF BoxIsDue, ToBeScanned
  <2>3. QED
    BY <2>1, <2>2 DEF BoxIsKept, BoxIsDue
<1>10. QED
  BY <1>1, <1>2, <1>3, <1>4, <1>5, <1>6, <1>7, <1>8, <1>9, Steps DEF IInv

\* The safety half of BoxIsShown (Map::Update, Grid.cpp, BuildObjectData.cpp): a
\* tick that begins with the box on the map shows it, before it ends, to everybody
\* who stays in range, also to a player who is put into a cell during that tick's
\* jumps; and the client keeps it until the box is deleted.  The players may change
\* their cells between the ticks: a move cannot carry anybody past a scan.
THEOREM BoxReachesStayers == Spec => [][BoxIsNotMissed]_vars
<1>1. Init => EntriesOfBox
  <2>1. Nothing[Box] = "none"
    BY Constants DEF Nothing
  <2>2. Init => \A p \in Stayers : entry[p] = Nothing
    BY Constants DEF Init
  <2>3. QED
    BY <2>1, <2>2 DEF EntriesOfBox, Knows
<1>2. IInv /\ EntriesOfBox /\ [Next]_vars => EntriesOfBox'
  BY EntriesStep
<1>3. IInv /\ EntriesOfBox /\ [Next]_vars => [BoxIsNotMissed]_vars
  <2> SUFFICES ASSUME IInv, EntriesOfBox, Next
               PROVE  BoxIsNotMissed
    OBVIOUS
  <2> USE Constants
  <2>1. \A p \in Stayers : BoxIsKept(p)
    BY BoxStep
  <2>2. ASSUME NEW p \in Stayers, turn' = Jumps, place'[Box] = BoxCell, place'[p] \in Cells
        PROVE  BoxIsDue(p)'
    BY <2>2 DEF BoxIsDue, ToBeScanned
  <2>3. ASSUME NEW p \in Stayers, BoxIsDue(p), EndTick
        PROVE  client'[p][Box] # "absent"
    BY <2>3 DEF EndTick, BoxIsDue, ToBeScanned, showVars
  <2>4. QED
    BY <2>1, <2>2, <2>3 DEF BoxIsNotMissed, BoxIsKept
<1>4. QED
  BY <1>1, <1>2, <1>3, InvAlways, PTL DEF Spec

===============================================================================
