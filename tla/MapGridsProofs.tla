---------------------------- MODULE MapGridsProofs ----------------------------
(***************************************************************************)
(* Where a map keeps its players, for any number of maps, cells and        *)
(* players.  The inductive invariant says of each player which grids may   *)
(* hold it, in terms of the two things Map::Move and Map::Remove go by:    *)
(* the index and the radiation flag.  It speaks of one player at a time,   *)
(* and every operation is about one player: the others are left alone.     *)
(***************************************************************************)
EXTENDS MapGrids, TLAPS

GridsOfMaps == [Maps -> [Grids -> SUBSET Players]]

\* Only the grid its index names holds a player who has kept within bounds.
HeldOnlyAtHome(p) ==
  \A m \in Maps, g \in Grids :
    p \in objects[m][g] /\ p \notin strayed =>
      InTheWorld(p) /\ map[p] = m /\ g = index[p]

\* A live player is in the grid Map::Move will take it from.  A flagged one may
\* have jumped here out of the radiation zone: it keeps the flag and is in its
\* cell.
HeldWhereSought(p) ==
  life[p] = "alive" =>
    \/ p \in objects[map[p]][index[p]]
    \/ inRadiation[p] /\ p \in objects[map[p]][Radiation]

UnflaggedIndexInRange(p) == inRadiation[p] \/ index[p] \in Cells

\* The entry of a jump and m_Jumping come and go together.
JumpingIsQueued(p) ==
  /\ \A m \in Maps : p \in jumpQueue[m] <=> (map[p] = m /\ jumping[p])
  /\ jumping[p] => life[p] # "loaded"

FlaggedHasStrayed(p) == position[p] = Outside \/ inRadiation[p] => p \in strayed

Placed(p) ==
  /\ HeldOnlyAtHome(p)
  /\ HeldWhereSought(p)
  /\ UnflaggedIndexInRange(p)
  /\ JumpingIsQueued(p)
  /\ FlaggedHasStrayed(p)

\* Grid::Add wakes the grid and CheckForPlayer only puts an empty one to sleep.
OccupiedIsActive ==
  \A m \in Maps, g \in Grids : objects[m][g] # {} => active[m][g]

IInv ==
  /\ TypeOK
  /\ OccupiedIsActive
  /\ \A p \in Players : Placed(p)

-------------------------------------------------------------------------------
(* What the operations of a map do, grid by grid *)

LEMMA PlaceTypes ==
  ASSUME TypeOK, NEW p \in Players
  PROVE  /\ map[p] \in Maps
         /\ index[p] \in Grids /\ position[p] \in Grids
         /\ inRadiation[p] \in BOOLEAN /\ jumping[p] \in BOOLEAN
         /\ Radiation \in Grids /\ Cells \subseteq Grids
         /\ \A m \in Maps : PortalCell[m] \in Cells /\ ToMap[m] \in Maps
                              /\ ToCell[m] \in Cells
         /\ Positions \subseteq Grids
BY MapAssumption DEF TypeOK, Grids, Radiation

LEMMA RemovedFacts ==
  ASSUME TypeOK, NEW p \in Players
  PROVE  /\ Removed(p) \in GridsOfMaps
         /\ \A m \in Maps, g \in Grids : Removed(p)[m][g] =
              IF m = map[p] /\ g = index[p]
              THEN objects[m][g] \ {p} ELSE objects[m][g]
<1>1. map[p] \in Maps /\ index[p] \in Grids /\ objects \in GridsOfMaps
  BY PlaceTypes DEF TypeOK, GridsOfMaps
<1>2. objects[map[p]] \in [Grids -> SUBSET Players]
  BY <1>1 DEF GridsOfMaps
<1>3. Removed(p) = [objects EXCEPT ![map[p]] = Take(objects[map[p]], index[p], p)]
  BY DEF Removed
<1>4. /\ Take(objects[map[p]], index[p], p) \in [Grids -> SUBSET Players]
      /\ \A g \in Grids : Take(objects[map[p]], index[p], p)[g] =
           IF g = index[p] THEN objects[map[p]][g] \ {p} ELSE objects[map[p]][g]
  BY <1>1, <1>2 DEF Take
<1>5. \A m \in Maps : Removed(p)[m] =
        IF m = map[p] THEN Take(objects[map[p]], index[p], p) ELSE objects[m]
  BY <1>1, <1>3 DEF GridsOfMaps
<1>6. Removed(p) \in GridsOfMaps
  BY <1>1, <1>3, <1>4 DEF GridsOfMaps
<1>7. QED
  BY <1>4, <1>5, <1>6

\* A grid that got a player is awake; every other one is as it was, or awake.
LEMMA WakeKeepsOccupiedActive ==
  ASSUME TypeOK, OccupiedIsActive, NEW m \in Maps, NEW c \in Grids, Wake(m, c),
         \A n \in Maps, g \in Grids :
           objects'[n][g] \subseteq objects[n][g] \/ (n = m /\ g = c)
  PROVE  OccupiedIsActive' /\ active' \in [Maps -> [Grids -> BOOLEAN]]
<1>1. active' \in [Maps -> [Grids -> BOOLEAN]]
  BY DEF TypeOK, Wake
<1>2. ASSUME NEW n \in Maps, NEW g \in Grids, objects'[n][g] # {}
      PROVE  active'[n][g]
  <2>1. CASE n = m /\ g = c
    BY <2>1 DEF TypeOK, Wake
  <2>2. CASE ~(n = m /\ g = c)
    <3>1. active'[n][g] = active[n][g]
      BY <2>2 DEF TypeOK, Wake
    <3>2. objects[n][g] # {}
      BY <1>2, <2>2
    <3>3. active[n][g]
      BY <3>2 DEF OccupiedIsActive
    <3>4. QED
      BY <3>1, <3>3
  <2>3. QED
    BY <2>1, <2>2
<1>3. QED
  BY <1>1, <1>2 DEF OccupiedIsActive

LEMMA SleepKeepsOccupiedActive ==
  ASSUME OccupiedIsActive, active' = active,
         \A n \in Maps, g \in Grids : objects'[n][g] \subseteq objects[n][g]
  PROVE  OccupiedIsActive'
BY DEF OccupiedIsActive

-------------------------------------------------------------------------------
(* An operation on one player *)

\* The history variable of Next.
Strays == strayed' = strayed \union {p \in Players : position'[p] = Outside}

\* What an operation on another player leaves to q.
LeftAlone(q) ==
  /\ \A m \in Maps, g \in Grids : q \in objects'[m][g] <=> q \in objects[m][g]
  /\ \A m \in Maps : q \in jumpQueue'[m] <=> q \in jumpQueue[m]
  /\ life'[q] = life[q] /\ map'[q] = map[q]
  /\ position'[q] = position[q] /\ index'[q] = index[q]
  /\ inRadiation'[q] = inRadiation[q] /\ jumping'[q] = jumping[q]

LEMMA LeftAloneStaysPlaced ==
  ASSUME TypeOK, TypeOK', Strays, NEW q \in Players, Placed(q), LeftAlone(q)
  PROVE  Placed(q)'
<1>1. q \in strayed => q \in strayed'
  BY DEF Strays
<1>2. map[q] \in Maps /\ index[q] \in Grids /\ Radiation \in Grids
  BY PlaceTypes
<1>3. HeldOnlyAtHome(q)'
  BY <1>1 DEF Placed, HeldOnlyAtHome, LeftAlone, InTheWorld
<1>4. HeldWhereSought(q)'
  BY <1>2 DEF Placed, HeldWhereSought, LeftAlone
<1>5. UnflaggedIndexInRange(q)' /\ JumpingIsQueued(q)'
  BY DEF Placed, UnflaggedIndexInRange, JumpingIsQueued, LeftAlone
<1>6. FlaggedHasStrayed(q)'
  BY <1>1 DEF Placed, FlaggedHasStrayed, LeftAlone
<1>7. QED
  BY <1>3, <1>4, <1>5, <1>6 DEF Placed

LEMMA OnePlayerStep ==
  ASSUME IInv, Strays, NEW p \in Players, TypeOK', OccupiedIsActive', Placed(p)',
         \A q \in Players \ {p} : LeftAlone(q)
  PROVE  IInv'
<1>1. ASSUME NEW q \in Players
      PROVE  Placed(q)'
  <2>1. CASE q = p
    BY <2>1
  <2>2. CASE q # p
    <3>1. LeftAlone(q) /\ Placed(q) /\ TypeOK
      BY <2>2 DEF IInv
    <3>2. QED
      BY <3>1, LeftAloneStaysPlaced
  <2>3. QED
    BY <2>1, <2>2
<1>2. QED
  BY <1>1 DEF IInv

LEMMA StraysFacts ==
  ASSUME TypeOK, Strays
  PROVE  /\ strayed' \subseteq Players
         /\ \A p \in Players : p \in strayed' <=> p \in strayed \/ position'[p] = Outside
BY DEF Strays, TypeOK

LEMMA LoginStep ==
  ASSUME IInv, Strays, NEW p \in Players, HandleLogin(p)
  PROVE  IInv'
<1>0. TypeOK /\ Placed(p) /\ OccupiedIsActive
  BY DEF IInv
<1>1. PICK m \in Maps, c \in Grids : m = map[p] /\ c = position[p]
  BY <1>0, PlaceTypes
<1>2. /\ objects' = [objects EXCEPT ![m] = Put(objects[m], c, p)]
      /\ Wake(m, c)
      /\ index' = [index EXCEPT ![p] = c]
      /\ inRadiation' = [inRadiation EXCEPT ![p] = c = Outside \/ inRadiation[p]]
      /\ life[p] = "loaded" /\ life' = [life EXCEPT ![p] = "alive"]
      /\ UNCHANGED <<jumpQueue, map, position, jumping, undefined>>
  BY <1>1 DEF HandleLogin, Add
<1>3. objects \in GridsOfMaps
  BY <1>0 DEF TypeOK, GridsOfMaps
<1>4. /\ objects' \in GridsOfMaps
      /\ \A n \in Maps, g \in Grids : objects'[n][g] =
              IF n = m /\ g = c THEN objects[n][g] \union {p} ELSE objects[n][g]
  BY <1>2, <1>3 DEF Put, GridsOfMaps
<1>5. OccupiedIsActive' /\ active' \in [Maps -> [Grids -> BOOLEAN]]
  <2>1. \A n \in Maps, g \in Grids :
          objects'[n][g] \subseteq objects[n][g] \/ (n = m /\ g = c)
    BY <1>4
  <2>2. QED
    BY <1>0, <1>2, <2>1, WakeKeepsOccupiedActive
<1>6. TypeOK'
  BY <1>0, <1>2, <1>4, <1>5, StraysFacts
  DEF TypeOK, GridsOfMaps, Grids, Radiation, Lives
<1>7. \A q \in Players \ {p} : LeftAlone(q)
  BY <1>0, <1>2, <1>4 DEF LeftAlone, TypeOK
<1>8. Placed(p)'
  <2>1. /\ life'[p] = "alive" /\ index'[p] = c /\ map'[p] = m /\ position'[p] = c
        /\ inRadiation'[p] = (c = Outside \/ inRadiation[p])
        /\ jumping'[p] = jumping[p] /\ jumpQueue' = jumpQueue
    BY <1>0, <1>1, <1>2 DEF TypeOK
  <2>2. HeldOnlyAtHome(p)'
    <3>1. p \notin strayed => \A n \in Maps, g \in Grids : p \notin objects[n][g]
      BY <1>0, <1>2 DEF Placed, HeldOnlyAtHome, InTheWorld
    <3>2. p \notin strayed' => p \notin strayed
      BY DEF Strays
    <3>3. QED
      BY <1>4, <2>1, <3>1, <3>2 DEF HeldOnlyAtHome, InTheWorld
  <2>3. HeldWhereSought(p)'
    BY <1>4, <2>1 DEF HeldWhereSought
  <2>4. UnflaggedIndexInRange(p)'
    BY <1>0, <1>1, <2>1 DEF Placed, UnflaggedIndexInRange, Grids, Radiation
  <2>5. JumpingIsQueued(p)'
    BY <1>0, <1>2, <2>1 DEF Placed, JumpingIsQueued
  <2>6. FlaggedHasStrayed(p)'
    BY <1>0, <1>1, <2>1, StraysFacts DEF Placed, FlaggedHasStrayed
  <2>7. QED
    BY <2>2, <2>3, <2>4, <2>5, <2>6 DEF Placed
<1>9. QED
  BY <1>5, <1>6, <1>7, <1>8, OnePlayerStep

\* Map::Move to another grid of the player's map.
Transfer(m, old, c, p) ==
  objects' = [objects EXCEPT ![m] = Put(Take(objects[m], old, p), c, p)]

LEMMA TransferFacts ==
  ASSUME TypeOK, NEW p \in Players, NEW old \in Grids, NEW c \in Grids,
         NEW m \in Maps, Transfer(m, old, c, p)
  PROVE  /\ objects' \in GridsOfMaps
         /\ \A n \in Maps, g \in Grids, q \in Players : q \in objects'[n][g] <=>
              \/ q \in objects[n][g] /\ ~(q = p /\ n = m /\ g = old)
              \/ q = p /\ n = m /\ g = c
<1>1. objects \in GridsOfMaps /\ objects[m] \in [Grids -> SUBSET Players]
  BY DEF TypeOK, GridsOfMaps
<1> DEFINE T == Take(objects[m], old, p)
<1>2. /\ T \in [Grids -> SUBSET Players]
      /\ \A g \in Grids : T[g] = IF g = old THEN objects[m][g] \ {p}
                                 ELSE objects[m][g]
  BY <1>1 DEF Take
<1>3. objects' = [objects EXCEPT ![m] = Put(T, c, p)]
  BY DEF Transfer
<1> HIDE DEF T
<1>4. /\ Put(T, c, p) \in [Grids -> SUBSET Players]
      /\ \A g \in Grids : Put(T, c, p)[g] = IF g = c THEN T[g] \union {p} ELSE T[g]
  BY <1>2 DEF Put
<1>5. objects' \in GridsOfMaps
  BY <1>1, <1>3, <1>4 DEF GridsOfMaps
<1>6. \A n \in Maps : objects'[n] = IF n = m THEN Put(T, c, p) ELSE objects[n]
  BY <1>1, <1>3 DEF GridsOfMaps
<1>7. ASSUME NEW n \in Maps, NEW g \in Grids, NEW q \in Players
      PROVE  q \in objects'[n][g] <=>
               \/ q \in objects[n][g] /\ ~(q = p /\ n = m /\ g = old)
               \/ q = p /\ n = m /\ g = c
  <2>1. CASE n = m /\ g = c
    BY <1>2, <1>4, <1>6, <2>1
  <2>2. CASE n = m /\ g # c
    BY <1>2, <1>4, <1>6, <2>2
  <2>3. CASE n # m
    BY <1>6, <2>3
  <2>4. QED
    BY <2>1, <2>2, <2>3
<1>8. QED
  BY <1>5, <1>7

LEMMA MoveOutsideStep ==
  ASSUME IInv, Strays, NEW p \in Players, HandleObjectMove(p, Outside)
  PROVE  IInv'
<1>0. TypeOK /\ Placed(p) /\ OccupiedIsActive
  BY DEF IInv
<1>1. PICK m \in Maps, old \in Grids, c \in Grids :
        m = map[p] /\ old = index[p] /\ c = Radiation
  BY <1>0, PlaceTypes
<1>2. /\ position' = [position EXCEPT ![p] = Outside] /\ index' = index
      /\ UNCHANGED <<jumpQueue, life, map, jumping, undefined>>
  BY DEF HandleObjectMove, MoveOutside
<1>3. p \in strayed'
  BY <1>0, <1>2, StraysFacts DEF TypeOK
<1>4. HeldOnlyAtHome(p)' /\ FlaggedHasStrayed(p)'
  BY <1>3 DEF HeldOnlyAtHome, FlaggedHasStrayed
<1>5. JumpingIsQueued(p)'
  BY <1>0, <1>2 DEF Placed, JumpingIsQueued
<1>6. CASE inRadiation[p]
  <2>1. UNCHANGED <<objects, active, inRadiation>>
    BY <1>6 DEF HandleObjectMove, MoveOutside
  <2>2. TypeOK'
    BY <1>0, <1>2, <2>1, StraysFacts DEF TypeOK
  <2>3. OccupiedIsActive'
    BY <1>0, <2>1 DEF OccupiedIsActive
  <2>4. \A q \in Players \ {p} : LeftAlone(q)
    BY <1>0, <1>2, <2>1 DEF LeftAlone, TypeOK
  <2>5. HeldWhereSought(p)' /\ UnflaggedIndexInRange(p)'
    BY <1>0, <1>2, <2>1 DEF Placed, HeldWhereSought, UnflaggedIndexInRange
  <2>6. QED
    BY <1>4, <1>5, <2>2, <2>3, <2>4, <2>5, OnePlayerStep DEF Placed
<1>7. CASE ~inRadiation[p]
  <2>1. /\ Transfer(m, old, c, p)
        /\ Wake(m, c)
        /\ inRadiation' = [inRadiation EXCEPT ![p] = TRUE]
    BY <1>1, <1>7 DEF HandleObjectMove, MoveOutside, Transfer
  <2>3. /\ objects' \in GridsOfMaps
        /\ \A n \in Maps, g \in Grids, q \in Players : q \in objects'[n][g] <=>
             \/ q \in objects[n][g] /\ ~(q = p /\ n = m /\ g = old)
             \/ q = p /\ n = m /\ g = c
    BY <1>0, <2>1, TransferFacts
  <2>4. OccupiedIsActive' /\ active' \in [Maps -> [Grids -> BOOLEAN]]
    <3>1. \A n \in Maps, g \in Grids :
            objects'[n][g] \subseteq objects[n][g] \/ (n = m /\ g = c)
      BY <2>3 DEF GridsOfMaps
    <3>2. QED
      BY <1>0, <2>1, <3>1, WakeKeepsOccupiedActive
  <2>5. TypeOK'
    BY <1>0, <1>2, <2>1, <2>3, <2>4, StraysFacts DEF TypeOK, GridsOfMaps
  <2>6. \A q \in Players \ {p} : LeftAlone(q)
    BY <1>0, <1>2, <2>1, <2>3 DEF LeftAlone, TypeOK
  <2>a. inRadiation'[p] /\ map'[p] = m
    BY <1>0, <1>1, <1>2, <2>1 DEF TypeOK
  <2>7. HeldWhereSought(p)' /\ UnflaggedIndexInRange(p)'
    BY <1>1, <2>3, <2>a DEF HeldWhereSought, UnflaggedIndexInRange
  <2>8. QED
    BY <1>4, <1>5, <2>4, <2>5, <2>6, <2>7, OnePlayerStep DEF Placed
<1>8. QED
  BY <1>6, <1>7

LEMMA MoveInsideStep ==
  ASSUME IInv, Strays, NEW p \in Players, NEW c \in Positions, c # Outside,
         HandleObjectMove(p, c)
  PROVE  IInv'
<1>0. TypeOK /\ Placed(p) /\ OccupiedIsActive
  BY DEF IInv
<1>1. PICK m \in Maps, old \in Grids :
        m = map[p] /\ old = IF inRadiation[p] THEN Radiation ELSE index[p]
  BY <1>0, PlaceTypes
<1>2. /\ position' = [position EXCEPT ![p] = c] /\ InTheWorld(p)
      /\ UNCHANGED <<jumpQueue, life, map, jumping, undefined>>
  BY DEF HandleObjectMove
<1>3. c \in Cells /\ c \in Grids
  BY MapAssumption DEF Grids
<1>4. JumpingIsQueued(p)'
  BY <1>0, <1>2 DEF Placed, JumpingIsQueued
<1>5. p \notin strayed' => p \notin strayed /\ ~inRadiation[p]
  BY <1>0 DEF Strays, Placed, FlaggedHasStrayed
<1>6. CASE c = index[p]
  <2>1. UNCHANGED <<objects, active, index, inRadiation>>
    BY <1>6 DEF HandleObjectMove, MoveInside
  <2>2. TypeOK'
    BY <1>0, <1>2, <1>3, <2>1, StraysFacts DEF TypeOK
  <2>3. OccupiedIsActive'
    BY <1>0, <2>1 DEF OccupiedIsActive
  <2>4. \A q \in Players \ {p} : LeftAlone(q)
    BY <1>0, <1>2, <2>1 DEF LeftAlone, TypeOK
  <2>5. HeldWhereSought(p)' /\ UnflaggedIndexInRange(p)'
    BY <1>0, <1>2, <2>1 DEF Placed, HeldWhereSought, UnflaggedIndexInRange
  <2>6. HeldOnlyAtHome(p)'
    BY <1>0, <1>2, <1>5, <2>1 DEF Placed, HeldOnlyAtHome, InTheWorld
  <2>7. FlaggedHasStrayed(p)'
    BY <1>0, <1>2, <1>5, <2>1, MapAssumption DEF FlaggedHasStrayed, TypeOK
  <2>8. QED
    BY <1>4, <2>2, <2>3, <2>4, <2>5, <2>6, <2>7, OnePlayerStep DEF Placed
<1>7. CASE c # index[p]
  <2>1. /\ Transfer(m, old, c, p)
        /\ Wake(m, c)
        /\ index' = [index EXCEPT ![p] = c]
        /\ inRadiation' = [inRadiation EXCEPT ![p] = FALSE]
    BY <1>1, <1>7 DEF HandleObjectMove, MoveInside, Transfer
  <2>3. /\ objects' \in GridsOfMaps
        /\ \A n \in Maps, g \in Grids, q \in Players : q \in objects'[n][g] <=>
             \/ q \in objects[n][g] /\ ~(q = p /\ n = m /\ g = old)
             \/ q = p /\ n = m /\ g = c
    BY <1>0, <1>3, <2>1, TransferFacts
  <2>4. OccupiedIsActive' /\ active' \in [Maps -> [Grids -> BOOLEAN]]
    <3>1. \A n \in Maps, g \in Grids :
            objects'[n][g] \subseteq objects[n][g] \/ (n = m /\ g = c)
      BY <2>3 DEF GridsOfMaps
    <3>2. QED
      BY <1>0, <1>3, <2>1, <3>1, WakeKeepsOccupiedActive
  <2>5. TypeOK'
    BY <1>0, <1>2, <1>3, <2>1, <2>3, <2>4, StraysFacts DEF TypeOK, GridsOfMaps
  <2>6. \A q \in Players \ {p} : LeftAlone(q)
    BY <1>0, <1>2, <2>1, <2>3 DEF LeftAlone, TypeOK
  <2>7. /\ index'[p] = c /\ map'[p] = m /\ position'[p] = c /\ ~inRadiation'[p]
        /\ life'[p] = life[p]
    BY <1>0, <1>1, <1>2, <2>1 DEF TypeOK
  <2>8. HeldWhereSought(p)' /\ UnflaggedIndexInRange(p)'
    BY <1>3, <2>3, <2>7 DEF HeldWhereSought, UnflaggedIndexInRange
  <2>9. HeldOnlyAtHome(p)'
    <3> SUFFICES ASSUME NEW n \in Maps, NEW g \in Grids, p \in objects'[n][g],
                        p \notin strayed'
                 PROVE  InTheWorld(p)' /\ n = m /\ g = c
      BY <2>7 DEF HeldOnlyAtHome
    <3>1. InTheWorld(p)'
      BY <1>2, <2>7 DEF InTheWorld
    <3>2. old = index[p] /\ p \notin strayed
      BY <1>1, <1>5
    <3>3. p \in objects[n][g] => n = m /\ g = old
      BY <1>0, <1>1, <3>2 DEF Placed, HeldOnlyAtHome
    <3>4. QED
      BY <2>3, <3>1, <3>3
  <2>10. FlaggedHasStrayed(p)'
    BY <1>3, <2>7, MapAssumption DEF FlaggedHasStrayed
  <2>11. QED
    BY <1>4, <2>4, <2>5, <2>6, <2>8, <2>9, <2>10, OnePlayerStep DEF Placed
<1>8. QED
  BY <1>6, <1>7

LEMMA PortalJumpStep ==
  ASSUME IInv, Strays, NEW p \in Players, HandlePortalJump(p)
  PROVE  IInv'
<1>0. TypeOK /\ Placed(p) /\ OccupiedIsActive
  BY DEF IInv
<1>1. /\ UNCHANGED <<objects, active, life, map, position, index, inRadiation,
                     undefined>>
      /\ jumping' = [jumping EXCEPT ![p] = TRUE] /\ InTheWorld(p)
  BY DEF HandlePortalJump
<1>2. PICK m \in Maps : m = map[p]
  BY <1>0, PlaceTypes
<1>3. jumpQueue' \in [Maps -> SUBSET Players]
  BY <1>0, <1>2 DEF HandlePortalJump, TypeOK
<1>4. ASSUME NEW n \in Maps, NEW q \in Players
      PROVE  q \in jumpQueue'[n] <=> q \in jumpQueue[n] \/ (q = p /\ n = m)
  <2>1. CASE jumping[p]
    <3>1. p \in jumpQueue[m]
      BY <1>0, <1>2, <2>1 DEF Placed, JumpingIsQueued
    <3>2. jumpQueue' = jumpQueue
      BY <2>1 DEF HandlePortalJump
    <3>3. QED
      BY <3>1, <3>2
  <2>2. CASE ~jumping[p]
    <3>1. jumpQueue' = [jumpQueue EXCEPT ![m] = @ \union {p}]
      BY <1>2, <2>2 DEF HandlePortalJump
    <3>2. QED
      BY <1>0, <3>1 DEF TypeOK
  <2>3. QED
    BY <2>1, <2>2
<1>5. TypeOK'
  BY <1>0, <1>1, <1>3, StraysFacts DEF TypeOK
<1>6. OccupiedIsActive'
  BY <1>0, <1>1 DEF OccupiedIsActive
<1>7. \A q \in Players \ {p} : LeftAlone(q)
  BY <1>0, <1>1, <1>4 DEF LeftAlone, TypeOK
<1>8. p \notin strayed' => p \notin strayed
  BY DEF Strays
<1>9. HeldOnlyAtHome(p)' /\ HeldWhereSought(p)' /\ UnflaggedIndexInRange(p)'
  BY <1>0, <1>1, <1>8
  DEF Placed, HeldOnlyAtHome, HeldWhereSought, UnflaggedIndexInRange, InTheWorld
<1>10. JumpingIsQueued(p)'
  <2>1. jumping'[p] /\ life'[p] # "loaded" /\ map'[p] = m
    BY <1>0, <1>1, <1>2 DEF TypeOK, InTheWorld
  <2>2. p \in jumpQueue[m] \/ p \notin jumpQueue[m]
    OBVIOUS
  <2>3. \A n \in Maps : p \in jumpQueue[n] => n = m
    BY <1>0, <1>2 DEF Placed, JumpingIsQueued
  <2>4. QED
    BY <1>2, <1>4, <2>1, <2>3 DEF JumpingIsQueued
<1>11. FlaggedHasStrayed(p)'
  BY <1>0, <1>1, StraysFacts DEF Placed, FlaggedHasStrayed
<1>12. QED
  BY <1>5, <1>6, <1>7, <1>9, <1>10, <1>11, OnePlayerStep DEF Placed

\* RemoveFromMap: by the destructor, or by the update of a player that has died.
LEMMA RemovalStep ==
  ASSUME IInv, Strays, NEW p \in Players, InTheWorld(p),
         objects' = Removed(p),
         UNCHANGED <<active, jumpQueue, map, position, index, inRadiation,
                     jumping, undefined>>,
         \/ life' = [life EXCEPT ![p] = "freed"]
         \/ life[p] = "justDied" /\ life' = life
  PROVE  IInv'
<1>0. TypeOK /\ Placed(p) /\ OccupiedIsActive
  BY DEF IInv
<1>1. /\ objects' \in GridsOfMaps
      /\ \A m \in Maps, g \in Grids : objects'[m][g] =
           IF m = map[p] /\ g = index[p]
           THEN objects[m][g] \ {p} ELSE objects[m][g]
  BY <1>0, RemovedFacts
<1>2. life' \in [Players -> Lives] /\ life'[p] \in {"freed", "justDied"}
      /\ \A q \in Players : q # p => life'[q] = life[q]
  BY <1>0 DEF TypeOK, Lives
<1>3. TypeOK'
  BY <1>0, <1>1, <1>2, StraysFacts DEF TypeOK, GridsOfMaps
<1>4. OccupiedIsActive'
  <2>1. \A m \in Maps, g \in Grids : objects'[m][g] \subseteq objects[m][g]
    BY <1>1
  <2>2. QED
    BY <1>0, <2>1, SleepKeepsOccupiedActive
<1>5. \A q \in Players \ {p} : LeftAlone(q)
  BY <1>1, <1>2 DEF LeftAlone
<1>6. HeldOnlyAtHome(p)'
  <2>1. p \notin strayed' => p \notin strayed
    BY DEF Strays
  <2>2. \A m \in Maps, g \in Grids :
          p \in objects'[m][g] => p \in objects[m][g] /\ ~(m = map[p] /\ g = index[p])
    BY <1>1
  <2>3. QED
    BY <1>0, <2>1, <2>2 DEF Placed, HeldOnlyAtHome
<1>7. HeldWhereSought(p)' /\ UnflaggedIndexInRange(p)'
  BY <1>0, <1>2 DEF Placed, HeldWhereSought, UnflaggedIndexInRange
<1>8. JumpingIsQueued(p)' /\ FlaggedHasStrayed(p)'
  BY <1>0, <1>2, StraysFacts DEF Placed, JumpingIsQueued, FlaggedHasStrayed
<1>9. QED
  BY <1>3, <1>4, <1>5, <1>6, <1>7, <1>8, OnePlayerStep DEF Placed

LEMMA ProcessJumpStep ==
  ASSUME IInv, Strays, NEW m \in Maps, NEW p \in Players, ProcessJump(m, p),
         life[p] # "freed"
  PROVE  IInv'
<1>0. TypeOK /\ Placed(p) /\ OccupiedIsActive
  BY DEF IInv
<1> DEFINE R == Removed(p)
<1>1. PICK n \in Maps, c \in Grids : n = ToMap[m] /\ c = ToCell[m] /\ c \in Cells
  BY <1>0, PlaceTypes
<1>2. /\ R \in GridsOfMaps
      /\ \A k \in Maps, g \in Grids : R[k][g] =
           IF k = map[p] /\ g = index[p]
           THEN objects[k][g] \ {p} ELSE objects[k][g]
  BY <1>0, RemovedFacts
<1>3. /\ objects' = [R EXCEPT ![n] = Put(R[n], c, p)]
      /\ Wake(n, c)
      /\ index' = [index EXCEPT ![p] = c]
      /\ inRadiation' = [inRadiation EXCEPT ![p] = c = Outside \/ inRadiation[p]]
      /\ map' = [map EXCEPT ![p] = n]
      /\ position' = [position EXCEPT ![p] = c]
      /\ jumping' = [jumping EXCEPT ![p] = FALSE]
      /\ jumpQueue' = [jumpQueue EXCEPT ![m] = @ \ {p}]
      /\ p \in jumpQueue[m] /\ life' = life /\ undefined' = undefined
  BY <1>1 DEF ProcessJump, Add
<1> HIDE DEF R
<1>4. objects' \in GridsOfMaps
  BY <1>2, <1>3 DEF Put, GridsOfMaps
<1>5. ASSUME NEW k \in Maps, NEW g \in Grids, NEW q \in Players
      PROVE  q \in objects'[k][g] <=>
               \/ q \in objects[k][g] /\ ~(q = p /\ k = map[p] /\ g = index[p])
               \/ q = p /\ k = n /\ g = c
  <2>1. q \in R[k][g] <=>
          q \in objects[k][g] /\ ~(q = p /\ k = map[p] /\ g = index[p])
    BY <1>2
  <2>2. objects'[k][g] = IF k = n /\ g = c THEN R[k][g] \union {p} ELSE R[k][g]
    BY <1>2, <1>3 DEF Put, GridsOfMaps
  <2>3. QED
    BY <2>1, <2>2
<1>6. map[p] = m /\ life[p] # "loaded"
  BY <1>0, <1>3 DEF Placed, JumpingIsQueued
<1>7. OccupiedIsActive' /\ active' \in [Maps -> [Grids -> BOOLEAN]]
  <2>1. \A k \in Maps, g \in Grids :
          objects'[k][g] \subseteq objects[k][g] \/ (k = n /\ g = c)
    BY <1>4, <1>5 DEF GridsOfMaps
  <2>2. QED
    BY <1>0, <1>3, <2>1, WakeKeepsOccupiedActive
<1>8. TypeOK'
  BY <1>0, <1>1, <1>3, <1>4, <1>7, StraysFacts DEF TypeOK, GridsOfMaps
<1>9. \A q \in Players \ {p} : LeftAlone(q)
  BY <1>0, <1>3, <1>5 DEF LeftAlone, TypeOK
<1>10. /\ index'[p] = c /\ map'[p] = n /\ position'[p] = c /\ ~jumping'[p]
       /\ life'[p] = life[p]
       /\ inRadiation'[p] <=> (c = Outside \/ inRadiation[p])
  BY <1>0, <1>3 DEF TypeOK
<1>11. HeldOnlyAtHome(p)'
  <2> SUFFICES ASSUME NEW k \in Maps, NEW g \in Grids, p \in objects'[k][g],
                      p \notin strayed'
               PROVE  InTheWorld(p)' /\ k = n /\ g = c
    BY <1>10 DEF HeldOnlyAtHome
  <2>1. InTheWorld(p)'
    BY <1>0, <1>6, <1>10 DEF InTheWorld, TypeOK, Lives
  <2>2. p \notin strayed
    BY DEF Strays
  <2>3. p \in objects[k][g] => k = map[p] /\ g = index[p]
    BY <1>0, <2>2 DEF Placed, HeldOnlyAtHome
  <2>4. QED
    BY <1>5, <2>1, <2>3
<1>12. HeldWhereSought(p)'
  BY <1>5, <1>10 DEF HeldWhereSought
<1>13. UnflaggedIndexInRange(p)'
  BY <1>1, <1>10 DEF UnflaggedIndexInRange
<1>14. JumpingIsQueued(p)'
  <2>1. \A k \in Maps : p \notin jumpQueue'[k]
    BY <1>0, <1>3, <1>6 DEF Placed, JumpingIsQueued, TypeOK
  <2>2. QED
    BY <1>10, <2>1 DEF JumpingIsQueued
<1>15. FlaggedHasStrayed(p)'
  BY <1>0, <1>1, <1>10, StraysFacts, MapAssumption DEF Placed, FlaggedHasStrayed
<1>16. QED
  BY <1>7, <1>8, <1>9, <1>11, <1>12, <1>13, <1>14, <1>15, OnePlayerStep DEF Placed

\* What the spline does to a position behind the map's back, and a death.
LEMMA PositionStep ==
  ASSUME IInv, Strays, NEW p \in Players, NEW c \in Positions,
         Kill(p, c) \/ UpdatePosition(p, c)
  PROVE  IInv'
<1>0. TypeOK /\ Placed(p) /\ OccupiedIsActive
  BY DEF IInv
<1>1. /\ UNCHANGED <<objects, active, jumpQueue, map, index, inRadiation, jumping,
                     undefined>>
      /\ position' = [position EXCEPT ![p] = c] /\ InTheWorld(p)
      /\ life' = [life EXCEPT ![p] = "justDied"] \/ life' = life
  BY DEF Kill, UpdatePosition, InTheWorld
<1>2. TypeOK'
  BY <1>0, <1>1, PlaceTypes, StraysFacts DEF TypeOK, Lives, Grids, Radiation
<1>3. OccupiedIsActive'
  BY <1>0, <1>1 DEF OccupiedIsActive
<1>4. \A q \in Players \ {p} : LeftAlone(q)
  BY <1>0, <1>1 DEF LeftAlone, TypeOK
<1>5. life'[p] \in {life[p], "justDied"}
  BY <1>0, <1>1 DEF TypeOK
<1>6. p \notin strayed' => p \notin strayed
  BY DEF Strays
<1>7. HeldOnlyAtHome(p)'
  BY <1>0, <1>1, <1>5, <1>6 DEF Placed, HeldOnlyAtHome, InTheWorld
<1>8. HeldWhereSought(p)' /\ UnflaggedIndexInRange(p)'
  BY <1>0, <1>1, <1>5 DEF Placed, HeldWhereSought, UnflaggedIndexInRange
<1>9. JumpingIsQueued(p)'
  BY <1>0, <1>1, <1>5 DEF Placed, JumpingIsQueued, InTheWorld
<1>10. FlaggedHasStrayed(p)'
  BY <1>0, <1>1, StraysFacts DEF Placed, FlaggedHasStrayed
<1>11. QED
  BY <1>2, <1>3, <1>4, <1>7, <1>8, <1>9, <1>10, OnePlayerStep DEF Placed

-------------------------------------------------------------------------------
(* Steps that leave every player where it is *)

LEMMA NobodyMoves ==
  ASSUME IInv, TypeOK', OccupiedIsActive', Strays,
         UNCHANGED <<objects, jumpQueue, life, map, position, index, inRadiation,
                     jumping>>
  PROVE  IInv'
<1>1. ASSUME NEW q \in Players
      PROVE  Placed(q)'
  <2>1. Placed(q) /\ TypeOK /\ LeftAlone(q)
    BY DEF IInv, LeftAlone
  <2>2. QED
    BY <2>1, LeftAloneStaysPlaced
<1>2. QED
  BY <1>1 DEF IInv

LEMMA UseAfterFreeStep ==
  ASSUME IInv, Strays, UseAfterFree
  PROVE  IInv'
<1>1. TypeOK'
  BY StraysFacts DEF IInv, UseAfterFree, TypeOK
<1>2. OccupiedIsActive'
  BY DEF IInv, UseAfterFree, OccupiedIsActive
<1>3. QED
  BY <1>1, <1>2, NobodyMoves DEF UseAfterFree

LEMMA CheckForPlayerStep ==
  ASSUME IInv, Strays, NEW m \in Maps, NEW g \in Grids, CheckForPlayer(m, g)
  PROVE  IInv'
<1>1. TypeOK'
  BY StraysFacts DEF IInv, CheckForPlayer, TypeOK
<1>2. ASSUME NEW n \in Maps, NEW h \in Grids, objects'[n][h] # {}
      PROVE  active'[n][h]
  <2>1. objects[n][h] # {} /\ ~(n = m /\ h = g)
    BY <1>2 DEF CheckForPlayer
  <2>2. active'[n][h] = active[n][h]
    BY <2>1 DEF IInv, CheckForPlayer, TypeOK
  <2>3. active[n][h]
    BY <2>1 DEF IInv, OccupiedIsActive
  <2>4. QED
    BY <2>2, <2>3
<1>3. OccupiedIsActive'
  BY <1>2 DEF OccupiedIsActive
<1>4. QED
  BY <1>1, <1>3, NobodyMoves DEF CheckForPlayer

-------------------------------------------------------------------------------
(* The theorems *)

LEMMA InitInv == Init => IInv
<1> SUFFICES ASSUME Init PROVE IInv
  OBVIOUS
<1>1. ASSUME NEW p \in Players
      PROVE  index[p] \in Cells
  <2>1. PortalCell[map[p]] \in Cells
    BY MapAssumption DEF Init
  <2>2. QED
    BY <2>1 DEF Init
<1>2. TypeOK
  <2>1. objects \in [Maps -> [Grids -> SUBSET Players]]
        /\ active \in [Maps -> [Grids -> BOOLEAN]]
        /\ jumpQueue \in [Maps -> SUBSET Players]
    BY DEF Init
  <2>2. index \in [Players -> Cells \union {Outside}]
    <3>1. index = [p \in Players |-> CHOOSE c \in Cells : TRUE]
      BY DEF Init
    <3>2. \A p \in Players : index[p] = CHOOSE c \in Cells : TRUE
      BY <3>1
    <3>3. \A p \in Players : (CHOOSE c \in Cells : TRUE) \in Cells
      BY <1>1, <3>2
    <3>4. QED
      BY <3>1, <3>3
  <2>3. position \in [Players -> Cells \union {Outside}]
    BY MapAssumption DEF Init
  <2>4. QED
    BY <2>1, <2>2, <2>3 DEF Init, TypeOK, Lives
<1>3. OccupiedIsActive
  BY DEF Init, OccupiedIsActive
<1>4. ASSUME NEW p \in Players
      PROVE  Placed(p)
  <2>1. HeldOnlyAtHome(p) /\ HeldWhereSought(p)
    BY DEF Init, HeldOnlyAtHome, HeldWhereSought
  <2>2. UnflaggedIndexInRange(p)
    BY <1>1 DEF UnflaggedIndexInRange
  <2>3. JumpingIsQueued(p) /\ FlaggedHasStrayed(p)
    BY DEF Init, JumpingIsQueued, FlaggedHasStrayed
  <2>4. QED
    BY <2>1, <2>2, <2>3 DEF Placed
<1>5. QED
  BY <1>2, <1>3, <1>4 DEF IInv

LEMMA NextInv == IInv /\ [Next]_vars => IInv'
<1> SUFFICES ASSUME IInv, [Next]_vars PROVE IInv'
  OBVIOUS
<1>1. CASE UNCHANGED vars
  <2>1. TypeOK' /\ OccupiedIsActive'
    BY <1>1 DEF vars, IInv, TypeOK, OccupiedIsActive
  <2>2. ASSUME NEW p \in Players
        PROVE  Placed(p)'
    BY <1>1 DEF vars, IInv, Placed, HeldOnlyAtHome, HeldWhereSought,
       UnflaggedIndexInRange, JumpingIsQueued, FlaggedHasStrayed, InTheWorld
  <2>3. QED
    BY <2>1, <2>2 DEF IInv
<1>2. CASE Next
  <2>0. Strays
    BY <1>2 DEF Next, Strays
  <2>1. ASSUME NEW p \in Players, WorldStep(p)
        PROVE  IInv'
    <3>1. CASE HandleLogin(p)
      BY <2>0, <3>1, LoginStep
    <3>2. ASSUME NEW c \in Positions, HandleObjectMove(p, c)
          PROVE  IInv'
      <4>1. CASE c = Outside
        BY <2>0, <3>2, <4>1, MoveOutsideStep
      <4>2. CASE c # Outside
        BY <2>0, <3>2, <4>2, MoveInsideStep
      <4>3. QED
        BY <4>1, <4>2
    <3>3. CASE HandlePortalJump(p)
      BY <2>0, <3>3, PortalJumpStep
    <3>4. CASE Delete(p)
      BY <2>0, <3>4, RemovalStep DEF Delete
    <3>5. QED
      BY <2>1, <3>1, <3>2, <3>3, <3>4 DEF WorldStep
  <2>2. ASSUME NEW m \in Maps, ZoneStep(m)
        PROVE  IInv'
    <3>1. ASSUME NEW p \in Players, ProcessJump(m, p)
          PROVE  IInv'
      <4>1. CASE life[p] = "freed"
        <5>1. UseAfterFree
          BY <3>1, <4>1 DEF ProcessJump
        <5>2. QED
          BY <2>0, <5>1, UseAfterFreeStep
      <4>2. CASE life[p] # "freed"
        BY <2>0, <3>1, <4>2, ProcessJumpStep
      <4>3. QED
        BY <4>1, <4>2
    <3>2. ASSUME NEW g \in Grids, CheckForPlayer(m, g)
          PROVE  IInv'
      BY <2>0, <3>2, CheckForPlayerStep
    <3>3. ASSUME NEW g \in Grids, NEW p \in Players, UpdatePlayer(m, g, p)
          PROVE  IInv'
      <4>1. CASE UseAfterFree
        BY <2>0, <4>1, UseAfterFreeStep
      <4>2. CASE ~UseAfterFree
        <5>1. /\ life[p] = "justDied" /\ objects' = Removed(p)
              /\ UNCHANGED <<active, jumpQueue, life, map, position, index,
                             inRadiation, jumping, undefined>>
          BY <3>3, <4>2 DEF UpdatePlayer
        <5>2. QED
          BY <2>0, <5>1, RemovalStep DEF InTheWorld
      <4>3. QED
        BY <4>1, <4>2
    <3>4. QED
      BY <2>2, <3>1, <3>2, <3>3 DEF ZoneStep
  <2>3. ASSUME NEW p \in Players, NEW c \in Positions,
               Kill(p, c) \/ UpdatePosition(p, c)
        PROVE  IInv'
    BY <2>0, <2>3, PositionStep
  <2>4. QED
    BY <1>2, <2>1, <2>2, <2>3 DEF Next
<1>3. QED
  BY <1>1, <1>2

LEMMA InvAlways == Spec => []IInv
<1>1. QED
  BY InitInv, NextInv, PTL DEF Spec

\* Every variable keeps its type: Map::Remove and Map::Move never work on an
\* index that names no grid at all.
THEOREM TypeCorrect == Spec => []TypeOK
<1>1. IInv => TypeOK
  BY DEF IInv
<1>2. QED
  BY <1>1, InvAlways, PTL

\* A live player is in a grid of its own map that Map::Update updates, whatever
\* it and the others do, out of bounds or between maps.
THEOREM AliveCorrect == Spec => []AliveIsUpdated
<1>1. IInv => AliveIsUpdated
  <2> SUFFICES ASSUME IInv, NEW p \in Players, life[p] = "alive"
               PROVE  \E g \in Grids : p \in objects[map[p]][g] /\ Updated(map[p], g)
    BY DEF AliveIsUpdated
  <2>1. map[p] \in Maps /\ index[p] \in Grids /\ Radiation \in Grids
    BY PlaceTypes DEF IInv
  <2>2. PICK g \in Grids : p \in objects[map[p]][g]
    BY <2>1 DEF IInv, Placed, HeldWhereSought
  <2>3. active[map[p]][g]
    BY <2>1, <2>2 DEF IInv, OccupiedIsActive
  <2>4. QED
    BY <2>2, <2>3 DEF Updated
<1>2. QED
  BY <1>1, InvAlways, PTL

\* The array of grids is never indexed out of range on behalf of a player who is
\* not flagged, and the grid that GetGrid returns for a live one holds it.
THEOREM GetGridCorrect == Spec => []GetGridIsRight
<1>1. IInv => GetGridIsRight
  BY DEF IInv, Placed, UnflaggedIndexInRange, HeldWhereSought, GetGridIsRight
<1>2. QED
  BY <1>1, InvAlways, PTL

\* An entry of a jump queue is for a player of that map who is jumping, so
\* ProcessJumpQueue always removes the player from the map that processes it.
THEOREM JumpsCorrect == Spec => []JumpsFromOwnMap
<1>1. IInv => JumpsFromOwnMap
  BY DEF IInv, TypeOK, Placed, JumpingIsQueued, JumpsFromOwnMap
<1>2. QED
  BY <1>1, InvAlways, PTL

\* The safety half of JumpCompletes: as long as m_Jumping turns requests away,
\* the queue of the player's map has the entry that will clear it.
JumperHasEntry ==
  \A p \in Players : jumping[p] => p \in jumpQueue[map[p]]

THEOREM JumperIsQueued == Spec => []JumperHasEntry
<1>1. IInv => JumperHasEntry
  BY DEF IInv, TypeOK, Placed, JumpingIsQueued, JumperHasEntry
<1>2. QED
  BY <1>1, InvAlways, PTL

\* Removing a player leaves no grid that holds it, unless the player has been out
\* of bounds: only its own grid ever holds one that has not.
THEOREM HeldCorrect == Spec => []HeldByOwnGridOnly
<1>1. IInv => HeldByOwnGridOnly
  BY DEF IInv, TypeOK, Placed, HeldOnlyAtHome, HeldByOwnGridOnly
<1>2. QED
  BY <1>1, InvAlways, PTL

===============================================================================
