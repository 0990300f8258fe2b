----------------------------- MODULE PlayerProofs -----------------------------
(***************************************************************************)
(* What happens to a player and what it owns: the theorems on Combat, then *)
(* those on Account.  The modules share no state; the names they would     *)
(* both define begin with Account in the second.                           *)
(*                                                                         *)
(* Combat: the pointers between units, for any number of players and mobs. *)
(* The assertions of the code about targets and tags hold, and a dead mob  *)
(* is out of every fight.  The three invariants are proved together.  A    *)
(* dead mob is rid of its tag because CancelAttack clears it, but          *)
(* CancelAttack does nothing for a mob that does not attack: that such a   *)
(* mob has no tag is TaggedFightsTagger.  And a mob that picks a new       *)
(* player to follow keeps TaggedFightsTagger because only a mob without a  *)
(* target picks one.                                                       *)
(*                                                                         *)
(* Account: what is owned, for any resources, drops, levels and width of   *)
(* the integers.  The cargo in use is the sum of the resources because     *)
(* every turn of RewardCredit's loop adds the same to both, modulo Word.   *)
(* A session finds what the last one left because a save that is still     *)
(* queued when nobody is in the world makes no claim, and because whoever  *)
(* loads while nobody else is about is the first in the queue.  Its level  *)
(* is no higher because a player is never below the level that its         *)
(* experience gives, which is the level the next session computes.         *)
(***************************************************************************)
EXTENDS Combat, Account, FiniteSetTheorems, WellFoundedInduction,
        SequenceTheorems, TLAPS

-----------------------------------------------------------------------------
(* Combat: type correctness, in three parts.                               *)

Fights ==
  /\ target \in [Units -> Units \union {None}]
  /\ \A m \in Mobs : target[m] \in Players \union {None}
  /\ attack \in [Units -> {"none", "in", "out"}]
  /\ tagger \in [Mobs -> Players \union {None}]

Bodies ==
  /\ life \in [Units -> {"alive", "justDied", "dead", "deleted"}]
  /\ \A p \in Players : life[p] # "dead"
  /\ \A m \in Mobs : life[m] # "deleted"
  /\ place \in [Units -> Places]

Rest ==
  /\ recent \in [Mobs -> BOOLEAN]
  /\ event \in [Players -> {"none", "portal", "radiation"}]
  /\ jumping \in [Players -> BOOLEAN]
  /\ undefined \in BOOLEAN

LEMMA TypeParts == TypeOK <=> Fights /\ Bodies /\ Rest
  BY Zenon DEF TypeOK, Fights, Bodies, Rest

LEMMA TypeInit == Init => TypeOK
<1> SUFFICES ASSUME Init PROVE Fights /\ Bodies /\ Rest
  BY TypeParts
<1>1. Fights
  BY DEF Init, Fights, Units
<1>2. Bodies
  BY DEF Init, Bodies, Units, Places, Grids
<1>3. Rest
  BY DEF Init, Rest
<1>4. QED
  BY <1>1, <1>2, <1>3

\* What CancelAttack leaves has the types it finds.
LEMMA CancelFights ==
  ASSUME Fights, NEW S,
         NEW tgt \in [Units -> Units \union {None}],
         \A m \in Mobs : tgt[m] \in Players \union {None},
         CancelAttack(S, tgt)
  PROVE  Fights'
  BY DEF Fights, CancelAttack, Units

LEMMA CancelOwnFights ==
  ASSUME Fights, NEW S, CancelAttack(S, target)
  PROVE  Fights'
  BY CancelFights DEF Fights

LEMMA AttackFights ==
  ASSUME Fights, NEW p \in Players, NEW v \in Units, Attack(p, v)
  PROVE  Fights'
  BY CombatAssumption DEF Fights, Attack, Units

LEMMA FightsShoot ==
  ASSUME Fights, NEW u \in Units, AttackerStateUpdate(u)
  PROVE  Fights'
<1>1. CASE TargetIsDead(u)
  BY <1>1, CancelOwnFights DEF TargetIsDead
<1>2. CASE OutOfRange(u)
  BY <1>2 DEF OutOfRange, Fights
<1>3. CASE InRange(u)
  BY <1>3 DEF InRange, Fights
<1>4. CASE Shoot(u)
  BY <1>4, CancelOwnFights DEF Shoot, Kill, Fights, fightVars
<1>5. QED
  BY <1>1, <1>2, <1>3, <1>4 DEF AttackerStateUpdate

LEMMA FightsMob ==
  ASSUME Fights, NEW m \in Mobs, MobUpdate(m)
  PROVE  Fights'
<1>1. CASE UpdateMovement(m)
  <2> PICK p \in Players : Follows(m, p) /\ (Leave(m, p) \/ Chase(m, p))
    BY <1>1 DEF UpdateMovement
  <2>1. /\ [target EXCEPT ![m] = p] \in [Units -> Units \union {None}]
        /\ \A n \in Mobs : [target EXCEPT ![m] = p][n] \in Players \union {None}
    BY DEF Fights, Units
  <2>2. CASE Leave(m, p)
    BY <2>1, <2>2, CancelFights DEF Leave
  <2>3. CASE Chase(m, p)
    BY <2>1, <2>3 DEF Chase, Fights, Units
  <2>4. QED
    BY <2>2, <2>3
<1>2. CASE AttackerStateUpdate(m)
  BY <1>2, FightsShoot DEF Units
<1>3. CASE Bury(m)
  BY <1>3, CancelOwnFights DEF Bury
<1>4. CASE Respawn(m)
  BY <1>4 DEF Respawn, fightVars, Fights
<1>5. QED
  BY <1>1, <1>2, <1>3, <1>4 DEF MobUpdate

LEMMA FightsPlayer ==
  ASSUME Fights, NEW p \in Players, PlayerUpdate(p)
  PROVE  Fights'
<1>1. CASE AttackerStateUpdate(p)
  BY <1>1, FightsShoot DEF Units
<1>2. CASE LeaveMap(p)
  BY <1>2, CancelOwnFights DEF LeaveMap
<1>3. CASE LoseSight(p)
  BY <1>3, CancelOwnFights DEF LoseSight
<1>4. CASE UpdateInteractiveEvents(p) \/ EnterRadiation(p) \/ LeaveRadiation(p)
  BY <1>4 DEF UpdateInteractiveEvents, EnterRadiation, LeaveRadiation, fightVars, Fights
<1>5. CASE Radiate(p)
  BY <1>5, CancelOwnFights DEF Radiate, Kill
<1>6. QED
  BY <1>1, <1>2, <1>3, <1>4, <1>5 DEF PlayerUpdate

LEMMA FightsHandler ==
  ASSUME Fights, NEW p \in Players, Handler(p)
  PROVE  Fights'
<1>1. CASE HandleObjectMove(p) \/ HandlePortalJump(p)
  BY <1>1 DEF HandleObjectMove, HandlePortalJump, fightVars, Fights
<1>2. CASE HandleAbortLaser(p)
  BY <1>2, CancelOwnFights DEF HandleAbortLaser
<1>3. ASSUME NEW v \in Units, HandleSelectTarget(p, v) PROVE Fights'
  BY <1>3, CombatAssumption DEF HandleSelectTarget, Fights, Units
<1>4. ASSUME NEW v \in Units, HandleLaserShoot(p, v) PROVE Fights'
  BY <1>4, AttackFights DEF HandleLaserShoot
<1>5. CASE ProcessJump(p)
  BY <1>5, CancelOwnFights DEF ProcessJump
<1>6. CASE Delete(p)
  BY <1>6, CombatAssumption DEF Delete, Fights, Units
<1>7. QED
  BY <1>1, <1>2, <1>3, <1>4, <1>5, <1>6 DEF Handler

LEMMA FightsStep == ASSUME Fights, [Next]_vars PROVE Fights'
<1>1. ASSUME NEW m \in Mobs, CombatEnds(m) PROVE Fights'
  BY <1>1 DEF CombatEnds, fightVars, Fights
<1>2. ASSUME NEW u \in Units, UseAfterFree(u) PROVE Fights'
  BY <1>2 DEF UseAfterFree, fightVars, Fights
<1>3. CASE UNCHANGED vars
  BY <1>3 DEF vars, fightVars, Fights
<1>4. QED
  BY <1>1, <1>2, <1>3, FightsMob, FightsPlayer, FightsHandler DEF Next

LEMMA BodiesShoot ==
  ASSUME Bodies, Fights, NEW u \in Units, AttackerStateUpdate(u)
  PROVE  Bodies'
<1>1. CASE TargetIsDead(u) \/ OutOfRange(u) \/ InRange(u)
  BY <1>1 DEF TargetIsDead, OutOfRange, InRange, unitVars, Bodies
<1>2. CASE Shoot(u)
  BY <1>2 DEF Shoot, Kill, Bodies, Fights, Units
<1>3. QED
  BY <1>1, <1>2 DEF AttackerStateUpdate

LEMMA BodiesMob ==
  ASSUME Bodies, Fights, NEW m \in Mobs, MobUpdate(m)
  PROVE  Bodies'
<1>1. CASE UpdateMovement(m)
  <2>1. \E g \in Places : place' \in {place, [place EXCEPT ![m] = g]}
    BY <1>1 DEF UpdateMovement, Leave, Chase, Places
  <2>2. QED
    BY <1>1, <2>1 DEF UpdateMovement, Bodies, Units
<1>2. CASE AttackerStateUpdate(m)
  BY <1>2, BodiesShoot DEF Units
<1>3. CASE Bury(m)
  BY <1>3, CombatAssumption DEF Bury, Bodies, Units, Places
<1>4. CASE Respawn(m)
  BY <1>4, CombatAssumption DEF Respawn, Bodies, Units, Places
<1>5. QED
  BY <1>1, <1>2, <1>3, <1>4 DEF MobUpdate

LEMMA BodiesPlayer ==
  ASSUME Bodies, Fights, NEW p \in Players, PlayerUpdate(p)
  PROVE  Bodies'
<1>1. CASE AttackerStateUpdate(p)
  BY <1>1, BodiesShoot DEF Units
<1>2. CASE LeaveMap(p)
  BY <1>2 DEF LeaveMap, Bodies, Units, Places
<1>3. CASE LoseSight(p) \/ UpdateInteractiveEvents(p) \/ EnterRadiation(p) \/ LeaveRadiation(p)
  BY <1>3 DEF LoseSight, UpdateInteractiveEvents, EnterRadiation, LeaveRadiation, unitVars, Bodies
<1>4. CASE Radiate(p)
  BY <1>4, CombatAssumption DEF Radiate, Kill, Bodies, Units
<1>5. QED
  BY <1>1, <1>2, <1>3, <1>4 DEF PlayerUpdate

LEMMA BodiesHandler ==
  ASSUME Bodies, NEW p \in Players, Handler(p)
  PROVE  Bodies'
<1>1. CASE HandleObjectMove(p)
  BY <1>1 DEF HandleObjectMove, Bodies, Units, Places
<1>2. CASE HandleAbortLaser(p) \/ HandlePortalJump(p)
  BY <1>2 DEF HandleAbortLaser, HandlePortalJump, unitVars, Bodies
<1>3. ASSUME NEW v \in Units, HandleSelectTarget(p, v) \/ HandleLaserShoot(p, v) PROVE Bodies'
  BY <1>3 DEF HandleSelectTarget, HandleLaserShoot, unitVars, Bodies
<1>4. CASE ProcessJump(p)
  BY <1>4 DEF ProcessJump, Bodies, Units, Places, Grids
<1>5. CASE Delete(p)
  BY <1>5, CombatAssumption DEF Delete, Bodies, Units, Places
<1>6. QED
  BY <1>1, <1>2, <1>3, <1>4, <1>5 DEF Handler

LEMMA BodiesStep == ASSUME Bodies, Fights, [Next]_vars PROVE Bodies'
<1>1. ASSUME NEW m \in Mobs, CombatEnds(m) PROVE Bodies'
  BY <1>1 DEF CombatEnds, Bodies
<1>2. ASSUME NEW u \in Units, UseAfterFree(u) PROVE Bodies'
  BY <1>2 DEF UseAfterFree, unitVars, Bodies
<1>3. CASE UNCHANGED vars
  BY <1>3 DEF vars, unitVars, Bodies
<1>4. QED
  BY <1>1, <1>2, <1>3, BodiesMob, BodiesPlayer, BodiesHandler DEF Next

LEMMA RestShoot ==
  ASSUME Rest, NEW u \in Units, AttackerStateUpdate(u)
  PROVE  Rest'
<1>1. CASE TargetIsDead(u) \/ OutOfRange(u) \/ InRange(u)
  BY <1>1 DEF TargetIsDead, OutOfRange, InRange, unitVars, playerVars, Rest
<1>2. CASE Shoot(u)
  BY <1>2 DEF Shoot, Kill, Rest, playerVars
<1>3. QED
  BY <1>1, <1>2 DEF AttackerStateUpdate

LEMMA RestMob ==
  ASSUME Rest, NEW m \in Mobs, MobUpdate(m)
  PROVE  Rest'
<1>1. CASE UpdateMovement(m)
  <2>1. recent' \in [Mobs -> BOOLEAN]
    BY <1>1 DEF UpdateMovement, Leave, Chase, Rest
  <2>2. QED
    BY <1>1, <2>1 DEF UpdateMovement, Rest, playerVars
<1>2. CASE AttackerStateUpdate(m)
  BY <1>2, RestShoot DEF Units
<1>3. CASE Bury(m) \/ Respawn(m)
  BY <1>3 DEF Bury, Respawn, Rest, playerVars
<1>4. QED
  BY <1>1, <1>2, <1>3 DEF MobUpdate

LEMMA RestPlayer ==
  ASSUME Rest, NEW p \in Players, PlayerUpdate(p)
  PROVE  Rest'
<1>1. CASE AttackerStateUpdate(p)
  BY <1>1, RestShoot DEF Units
<1>2. CASE LeaveMap(p) \/ LoseSight(p) \/ Radiate(p)
  BY <1>2 DEF LeaveMap, LoseSight, Radiate, Kill, unitVars, playerVars, Rest
<1>3. CASE UpdateInteractiveEvents(p) \/ EnterRadiation(p) \/ LeaveRadiation(p)
  BY <1>3 DEF UpdateInteractiveEvents, EnterRadiation, LeaveRadiation, unitVars, Rest
<1>4. QED
  BY <1>1, <1>2, <1>3 DEF PlayerUpdate

LEMMA RestHandler ==
  ASSUME Rest, NEW p \in Players, Handler(p)
  PROVE  Rest'
<1>1. CASE HandleObjectMove(p) \/ HandleAbortLaser(p)
  BY <1>1 DEF HandleObjectMove, HandleAbortLaser, unitVars, playerVars, Rest
<1>2. CASE HandlePortalJump(p) \/ ProcessJump(p) \/ Delete(p)
  BY <1>2 DEF HandlePortalJump, ProcessJump, Delete, unitVars, Rest
<1>3. ASSUME NEW v \in Units, HandleSelectTarget(p, v) PROVE Rest'
  BY <1>3 DEF HandleSelectTarget, unitVars, playerVars, Rest
<1>4. ASSUME NEW v \in Units, HandleLaserShoot(p, v) PROVE Rest'
  BY <1>4 DEF HandleLaserShoot, Attack, playerVars, Rest
<1>5. QED
  BY <1>1, <1>2, <1>3, <1>4 DEF Handler

LEMMA RestStep == ASSUME Rest, [Next]_vars PROVE Rest'
<1>1. ASSUME NEW m \in Mobs, CombatEnds(m) PROVE Rest'
  BY <1>1 DEF CombatEnds, playerVars, Rest
<1>2. ASSUME NEW u \in Units, UseAfterFree(u) PROVE Rest'
  BY <1>2 DEF UseAfterFree, unitVars, playerVars, Rest
<1>3. CASE UNCHANGED vars
  BY <1>3 DEF vars, unitVars, playerVars, Rest
<1>4. QED
  BY <1>1, <1>2, <1>3, RestMob, RestPlayer, RestHandler DEF Next

LEMMA TypeStep == ASSUME TypeOK, [Next]_vars PROVE TypeOK'
<1>1. Fights' /\ Bodies' /\ Rest'
  BY TypeParts, FightsStep, BodiesStep, RestStep
<1>2. QED
  BY <1>1 DEF TypeOK, Fights, Bodies, Rest

\* Type correctness; a player never becomes DEAD, and mobs only ever attack
\* players.
THEOREM TypeCorrect == Spec => []TypeOK
  BY TypeInit, TypeStep, PTL DEF Spec

-----------------------------------------------------------------------------
(* Combat: the pointers.                                                   *)

Inv == TypeOK /\ TaggedFightsTagger /\ AttackersHaveTargets /\ DeadMobsAreLeft

Pointers == TaggedFightsTagger /\ AttackersHaveTargets

\* CancelAttack keeps both, and rids each unit of S of its fight.
LEMMA CancelPointers ==
  ASSUME Fights, Pointers, NEW S, CancelAttack(S, target)
  PROVE  /\ Pointers'
         /\ \A u \in S \intersect Units : ~Attacking(u)'
         /\ \A m \in S \intersect Mobs : tagger'[m] = None
<1>1. TaggedFightsTagger'
  BY CombatAssumption DEF Fights, Pointers, TaggedFightsTagger, CancelAttack, Attacking, Units
<1>2. AttackersHaveTargets'
  BY DEF Fights, Pointers, AttackersHaveTargets, CancelAttack, Attacking, Units
<1>3. \A u \in S \intersect Units : ~Attacking(u)'
  BY DEF Fights, CancelAttack, Attacking, Units
<1>4. \A m \in S \intersect Mobs : tagger'[m] = None
  BY DEF Fights, Pointers, TaggedFightsTagger, CancelAttack, Attacking, Units
<1>5. QED
  BY <1>1, <1>2, <1>3, <1>4 DEF Pointers

\* The same for a mob that lets go of the player it has just picked: if it
\* attacks, it has not picked one.
LEMMA LeavePointers ==
  ASSUME Fights, Pointers, NEW m \in Mobs, NEW p \in Players,
         Follows(m, p), CancelAttack({m}, [target EXCEPT ![m] = p])
  PROVE  Pointers'
<1>1. TaggedFightsTagger'
  BY CombatAssumption DEF Fights, Pointers, TaggedFightsTagger, CancelAttack, Attacking,
     Units, Follows
<1>2. AttackersHaveTargets'
  BY CombatAssumption DEF Fights, Pointers, AttackersHaveTargets, CancelAttack, Attacking,
     Units
<1>3. QED
  BY <1>1, <1>2 DEF Pointers

LEMMA ChasePointers ==
  ASSUME Fights, Pointers, NEW m \in Mobs, NEW p \in Players,
         Follows(m, p), Chase(m, p)
  PROVE  Pointers'
<1>1. TaggedFightsTagger'
  BY CombatAssumption DEF Fights, Pointers, TaggedFightsTagger, Chase, Attacking, Units,
     Follows
<1>2. AttackersHaveTargets'
  BY CombatAssumption DEF Fights, Pointers, AttackersHaveTargets, Chase, Attacking, Units
<1>3. QED
  BY <1>1, <1>2 DEF Pointers

LEMMA AttackPointers ==
  ASSUME Fights, Pointers, NEW p \in Players, NEW v \in Units, p # v, Attack(p, v)
  PROVE  Pointers'
<1>1. TaggedFightsTagger'
  BY CombatAssumption DEF Fights, Pointers, TaggedFightsTagger, Attack, Attacking, Units
<1>2. AttackersHaveTargets'
  BY CombatAssumption DEF Fights, Pointers, AttackersHaveTargets, Attack, Attacking, Units
<1>3. QED
  BY <1>1, <1>2 DEF Pointers

LEMMA PointersUnchanged == ASSUME Pointers, UNCHANGED fightVars PROVE Pointers'
  BY DEF Pointers, TaggedFightsTagger, AttackersHaveTargets, Attacking, fightVars

LEMMA PointersShoot ==
  ASSUME Fights, Pointers, NEW u \in Units, AttackerStateUpdate(u)
  PROVE  Pointers'
<1>1. CASE TargetIsDead(u)
  BY <1>1, CancelPointers DEF TargetIsDead
<1>2. CASE OutOfRange(u) \/ InRange(u)
  BY <1>2 DEF OutOfRange, InRange, Fights, Pointers, TaggedFightsTagger,
     AttackersHaveTargets, Attacking, Units
<1>3. CASE Shoot(u)
  BY <1>3, CancelPointers, PointersUnchanged DEF Shoot, Kill
<1>4. QED
  BY <1>1, <1>2, <1>3 DEF AttackerStateUpdate

LEMMA PointersMob ==
  ASSUME Fights, Pointers, NEW m \in Mobs, MobUpdate(m)
  PROVE  Pointers'
<1>1. CASE UpdateMovement(m)
  BY <1>1, LeavePointers, ChasePointers DEF UpdateMovement, Leave
<1>2. CASE AttackerStateUpdate(m)
  BY <1>2, PointersShoot DEF Units
<1>3. CASE Bury(m)
  BY <1>3, CancelPointers DEF Bury
<1>4. CASE Respawn(m)
  BY <1>4, PointersUnchanged DEF Respawn
<1>5. QED
  BY <1>1, <1>2, <1>3, <1>4 DEF MobUpdate

LEMMA PointersPlayer ==
  ASSUME Fights, Pointers, NEW p \in Players, PlayerUpdate(p)
  PROVE  Pointers'
<1>1. CASE AttackerStateUpdate(p)
  BY <1>1, PointersShoot DEF Units
<1>2. CASE LeaveMap(p)
  BY <1>2, CancelPointers DEF LeaveMap
<1>3. CASE LoseSight(p)
  BY <1>3, CancelPointers DEF LoseSight
<1>4. CASE UpdateInteractiveEvents(p) \/ EnterRadiation(p) \/ LeaveRadiation(p)
  BY <1>4, PointersUnchanged DEF UpdateInteractiveEvents, EnterRadiation, LeaveRadiation
<1>5. CASE Radiate(p)
  BY <1>5, CancelPointers DEF Radiate, Kill
<1>6. QED
  BY <1>1, <1>2, <1>3, <1>4, <1>5 DEF PlayerUpdate

LEMMA PointersHandler ==
  ASSUME Fights, Pointers, NEW p \in Players, Handler(p)
  PROVE  Pointers'
<1>1. CASE HandleObjectMove(p) \/ HandlePortalJump(p)
  BY <1>1, PointersUnchanged DEF HandleObjectMove, HandlePortalJump
<1>2. CASE HandleAbortLaser(p)
  BY <1>2, CancelPointers DEF HandleAbortLaser
<1>3. ASSUME NEW v \in Units, HandleSelectTarget(p, v) PROVE Pointers'
  BY <1>3, CombatAssumption DEF HandleSelectTarget, Fights, Pointers, TaggedFightsTagger,
     AttackersHaveTargets, Attacking, Units
<1>4. ASSUME NEW v \in Units, HandleLaserShoot(p, v) PROVE Pointers'
  BY <1>4, AttackPointers DEF HandleLaserShoot, Found
<1>5. CASE ProcessJump(p)
  BY <1>5, CancelPointers DEF ProcessJump
<1>6. CASE Delete(p)
  BY <1>6, CombatAssumption DEF Delete, Fights, Pointers, TaggedFightsTagger,
     AttackersHaveTargets, Attacking, Units
<1>7. QED
  BY <1>1, <1>2, <1>3, <1>4, <1>5, <1>6 DEF Handler

LEMMA PointersStep == ASSUME Fights, Pointers, [Next]_vars PROVE Pointers'
<1>1. ASSUME NEW m \in Mobs, CombatEnds(m) PROVE Pointers'
  BY <1>1, PointersUnchanged DEF CombatEnds
<1>2. ASSUME NEW u \in Units, UseAfterFree(u) PROVE Pointers'
  BY <1>2, PointersUnchanged DEF UseAfterFree
<1>3. CASE UNCHANGED vars
  BY <1>3, PointersUnchanged DEF vars
<1>4. QED
  BY <1>1, <1>2, <1>3, PointersMob, PointersPlayer, PointersHandler DEF Next

-----------------------------------------------------------------------------
(* Combat: the dead.                                                       *)

\* Cancelling attacks, and a step that takes neither life nor place from the
\* mobs, leave the dead as they are.
LEMMA DeadCancel ==
  ASSUME Fights, Bodies, DeadMobsAreLeft, NEW S, CancelAttack(S, target),
         \A m \in Mobs : life'[m] = "dead" => life[m] = "dead" /\ place'[m] = place[m]
  PROVE  DeadMobsAreLeft'
  BY DEF Fights, Bodies, DeadMobsAreLeft, CancelAttack, Attacking, Units

LEMMA DeadUnchanged ==
  ASSUME DeadMobsAreLeft, UNCHANGED fightVars,
         \A m \in Mobs : life'[m] = "dead" => life[m] = "dead" /\ place'[m] = place[m]
  PROVE  DeadMobsAreLeft'
  BY DEF DeadMobsAreLeft, Attacking, fightVars

LEMMA DeadShoot ==
  ASSUME Fights, Bodies, DeadMobsAreLeft, NEW u \in Units, AttackerStateUpdate(u)
  PROVE  DeadMobsAreLeft'
<1>1. CASE TargetIsDead(u)
  BY <1>1, DeadCancel DEF TargetIsDead, unitVars
<1>2. CASE OutOfRange(u) \/ InRange(u)
  BY <1>2 DEF OutOfRange, InRange, Engaged, Fights, DeadMobsAreLeft, Attacking, Units, unitVars
<1>3. CASE Shoot(u)
  <2>1. \A m \in Mobs : life'[m] = "dead" => life[m] = "dead" /\ place'[m] = place[m]
    BY <1>3 DEF Shoot, Kill, Bodies, Units
  <2>2. QED
    BY <1>3, <2>1, DeadCancel, DeadUnchanged DEF Shoot, Kill
<1>4. QED
  BY <1>1, <1>2, <1>3 DEF AttackerStateUpdate

LEMMA DeadMob ==
  ASSUME Fights, Bodies, Pointers, DeadMobsAreLeft, NEW m \in Mobs, MobUpdate(m)
  PROVE  DeadMobsAreLeft'
<1>1. CASE UpdateMovement(m)
  <2> PICK p \in Players : Leave(m, p) \/ Chase(m, p)
    BY <1>1 DEF UpdateMovement
  <2>1. life[m] # "dead" /\ life' = life
    BY <1>1 DEF UpdateMovement
  <2>2. ASSUME NEW n \in Mobs, n # m
        PROVE  /\ place'[n] = place[n] /\ attack'[n] = attack[n] /\ tagger'[n] = tagger[n]
    BY <2>2 DEF Leave, Chase, CancelAttack, Fights, Bodies, Units
  <2>3. QED
    BY <2>1, <2>2 DEF DeadMobsAreLeft, Attacking
<1>2. CASE AttackerStateUpdate(m)
  BY <1>2, DeadShoot DEF Units
<1>3. CASE Bury(m)
  <2>1. ~Attacking(m)' /\ tagger'[m] = None
    BY <1>3, CancelPointers DEF Bury, Units
  <2>2. place'[m] \notin Cells
    BY <1>3, CombatAssumption DEF Bury, Bodies, Units
  <2>3. ASSUME NEW n \in Mobs, n # m
        PROVE  /\ life'[n] = life[n] /\ place'[n] = place[n]
               /\ attack'[n] = attack[n] /\ tagger'[n] = tagger[n]
    BY <1>3, <2>3 DEF Bury, CancelAttack, Fights, Bodies, Units
  <2>4. QED
    BY <2>1, <2>2, <2>3 DEF DeadMobsAreLeft, Attacking
<1>4. CASE Respawn(m)
  BY <1>4, DeadUnchanged DEF Respawn, Bodies, Units
<1>5. QED
  BY <1>1, <1>2, <1>3, <1>4 DEF MobUpdate

LEMMA DeadPlayer ==
  ASSUME Fights, Bodies, DeadMobsAreLeft, NEW p \in Players, PlayerUpdate(p)
  PROVE  DeadMobsAreLeft'
<1>1. CASE AttackerStateUpdate(p)
  BY <1>1, DeadShoot DEF Units
<1>2. CASE LeaveMap(p)
  BY <1>2, CombatAssumption, DeadCancel DEF LeaveMap, Bodies, Units
<1>3. CASE LoseSight(p)
  BY <1>3, DeadCancel DEF LoseSight, unitVars
<1>4. CASE UpdateInteractiveEvents(p) \/ EnterRadiation(p) \/ LeaveRadiation(p)
  BY <1>4, DeadUnchanged DEF UpdateInteractiveEvents, EnterRadiation, LeaveRadiation, unitVars
<1>5. CASE Radiate(p)
  BY <1>5, CombatAssumption, DeadCancel DEF Radiate, Kill, Bodies, Units
<1>6. QED
  BY <1>1, <1>2, <1>3, <1>4, <1>5 DEF PlayerUpdate

LEMMA DeadHandler ==
  ASSUME Fights, Bodies, DeadMobsAreLeft, NEW p \in Players, Handler(p)
  PROVE  DeadMobsAreLeft'
<1>1. CASE HandleObjectMove(p)
  BY <1>1, CombatAssumption, DeadUnchanged DEF HandleObjectMove, Bodies, Units
<1>2. CASE HandlePortalJump(p)
  BY <1>2, DeadUnchanged DEF HandlePortalJump, unitVars
<1>3. CASE HandleAbortLaser(p)
  BY <1>3, DeadCancel DEF HandleAbortLaser, unitVars
<1>4. ASSUME NEW v \in Units, HandleSelectTarget(p, v) PROVE DeadMobsAreLeft'
  BY <1>4 DEF HandleSelectTarget, DeadMobsAreLeft, Attacking, unitVars
<1>5. ASSUME NEW v \in Units, HandleLaserShoot(p, v) PROVE DeadMobsAreLeft'
  BY <1>5, CombatAssumption DEF HandleLaserShoot, Attack, DeadMobsAreLeft, Attacking,
     Fights, Units
<1>6. CASE ProcessJump(p)
  BY <1>6, CombatAssumption, DeadCancel DEF ProcessJump, Bodies, Units
<1>7. CASE Delete(p)
  BY <1>7, CombatAssumption DEF Delete, DeadMobsAreLeft, Attacking, Fights, Bodies, Units
<1>8. QED
  BY <1>1, <1>2, <1>3, <1>4, <1>5, <1>6, <1>7 DEF Handler

LEMMA DeadStep ==
  ASSUME Fights, Bodies, Pointers, DeadMobsAreLeft, [Next]_vars
  PROVE  DeadMobsAreLeft'
<1>1. ASSUME NEW m \in Mobs, CombatEnds(m) PROVE DeadMobsAreLeft'
  BY <1>1, DeadUnchanged DEF CombatEnds
<1>2. ASSUME NEW u \in Units, UseAfterFree(u) PROVE DeadMobsAreLeft'
  BY <1>2, DeadUnchanged DEF UseAfterFree, unitVars
<1>3. CASE UNCHANGED vars
  BY <1>3, DeadUnchanged DEF vars, unitVars
<1>4. QED
  BY <1>1, <1>2, <1>3, DeadMob, DeadPlayer, DeadHandler DEF Next

-----------------------------------------------------------------------------

LEMMA InvInit == Init => Inv
<1> SUFFICES ASSUME Init PROVE Inv
  OBVIOUS
<1>1. TypeOK
  BY TypeInit
<1>2. TaggedFightsTagger /\ AttackersHaveTargets /\ DeadMobsAreLeft
  BY DEF Init, TaggedFightsTagger, AttackersHaveTargets, DeadMobsAreLeft, Attacking, Units
<1>3. QED
  BY <1>1, <1>2 DEF Inv

LEMMA InvStep == ASSUME Inv, [Next]_vars PROVE Inv'
<1>1. TypeOK /\ Fights /\ Bodies /\ Pointers /\ DeadMobsAreLeft
  BY TypeParts DEF Inv, Pointers
<1>2. TypeOK' /\ Pointers' /\ DeadMobsAreLeft'
  BY <1>1, TypeStep, PointersStep, DeadStep
<1>3. QED
  BY <1>2 DEF Inv, Pointers

LEMMA InvAlways == Spec => []Inv
  BY InvInit, InvStep, PTL DEF Spec

\* The assertions at Mob.cpp:160 and Mob.cpp:261 never fail: a tagged mob attacks
\* its tagger.
THEOREM TagsHold == Spec => []TaggedFightsTagger
<1>1. Inv => TaggedFightsTagger
  BY DEF Inv
<1>2. QED
  BY <1>1, InvAlways, PTL

\* The assertion at Unit.cpp:306 never fails: a unit that attacks has a target.
THEOREM TargetsHold == Spec => []AttackersHaveTargets
<1>1. Inv => AttackersHaveTargets
  BY DEF Inv
<1>2. QED
  BY <1>1, InvAlways, PTL

\* A dead mob is in no cell and in no fight, as Mob.cpp:76 relies on.
THEOREM TheDeadAreLeft == Spec => []DeadMobsAreLeft
<1>1. Inv => DeadMobsAreLeft
  BY DEF Inv
<1>2. QED
  BY <1>1, InvAlways, PTL

-------------------------------------------------------------------------------
(* Account: arithmetic and loops *)

LEMMA Minimum ==
  ASSUME NEW S \in SUBSET Nat, S # {}
  PROVE  \E m \in S : \A n \in S : m <= n
<1>1. PICK m \in S : \A n \in S : ~(<<n, m>> \in OpToRel(<, Nat))
  BY NatLessThanWellFounded, WFMin, Zenon
<1>2. \A n \in S : ~(n < m)
  BY <1>1 DEF OpToRel
<1>3. \A n \in S : m <= n
  BY <1>2
<1>4. QED
  BY <1>3

LEMMA LastKind == Len(Kinds) \in Nat \ {0} /\ Word \in Nat \ {0}
<1>1. Kinds \in Seq(STRING) /\ Kinds # <<>>
  BY AccountAssumption
<1>2. QED
  BY <1>1, AccountAssumption, EmptySeq, LenProperties

\* A loop over 1..last runs: whatever its turns are, there is the function of what
\* each of them leaves.
IsRun(f, last, S, start, turn) ==
  /\ f \in [0..last -> S]
  /\ f[0] = start
  /\ \A n \in 1..last : f[n] = turn[n][f[n - 1]]

LEMMA LoopRuns ==
  ASSUME NEW last \in Nat, NEW S, NEW start \in S,
         NEW turn \in [1..last -> [S -> S]]
  PROVE  \E f : IsRun(f, last, S, start, turn)
<1> DEFINE Runs(m) == \E f \in [0..m -> S] :
             f[0] = start /\ \A n \in 1..m : f[n] = turn[n][f[n - 1]]
<1>1. Runs(0)
  <2>1. PICK f : f = [i \in 0..0 |-> start]
    OBVIOUS
  <2>2. f \in [0..0 -> S] /\ f[0] = start /\ \A n \in 1..0 : f[n] = turn[n][f[n - 1]]
    BY <2>1
  <2>3. QED
    BY <2>2
<1>2. ASSUME NEW m \in 1..last, Runs(m - 1) PROVE Runs(m)
  <2>1. PICK f \in [0..m - 1 -> S] :
          f[0] = start /\ \A n \in 1..m - 1 : f[n] = turn[n][f[n - 1]]
    BY <1>2
  <2>2. f[m - 1] \in S /\ turn[m][f[m - 1]] \in S
    BY <2>1
  <2>3. PICK g : g = [n \in 0..m |-> IF n = m THEN turn[m][f[m - 1]] ELSE f[n]]
    OBVIOUS
  <2>4. g \in [0..m -> S]
    BY <2>1, <2>2, <2>3
  <2>5. g[0] = start
    BY <2>1, <2>3
  <2>6. ASSUME NEW n \in 1..m PROVE g[n] = turn[n][g[n - 1]]
    BY <2>1, <2>3
  <2>7. QED
    BY <2>4, <2>5, <2>6
<1> HIDE DEF Runs
<1> DEFINE stuck == {m \in 0..last : ~Runs(m)}
<1>3. stuck = {}
  <2>1. SUFFICES ASSUME stuck # {} PROVE FALSE
    OBVIOUS
  <2>2. stuck \in SUBSET Nat
    OBVIOUS
  <2>3. PICK m \in stuck : \A n \in stuck : m <= n
    BY <2>1, <2>2, Minimum
  <2>4. m \in 1..last /\ m - 1 \in 0..last
    BY <2>3, <1>1
  <2>5. Runs(m - 1)
    BY <2>3, <2>4
  <2>6. QED
    BY <2>3, <2>4, <2>5, <1>2
<1>4. Runs(last)
  BY <1>3
<1>5. QED
  BY <1>4 DEF Runs, IsRun

\* And what each turn leaves is in S, if it is when its turn begins with such a thing.
LEMMA LoopStays ==
  ASSUME NEW last \in Nat, NEW S, NEW g, g[0] \in S,
         \A n \in 1..last : g[n - 1] \in S => g[n] \in S
  PROVE  \A n \in 0..last : g[n] \in S
<1> DEFINE out == {n \in 0..last : g[n] \notin S}
<1>1. CASE out = {}
  BY <1>1
<1>2. CASE out # {}
  <2> out \in SUBSET Nat
    OBVIOUS
  <2>1. PICK m \in out : \A n \in out : m <= n
    BY <1>2, Minimum
  <2>2. m \in 1..last /\ m - 1 \in 0..last
    BY <2>1
  <2>3. g[m - 1] \in S
    BY <2>1, <2>2
  <2>4. QED
    BY <2>1, <2>2, <2>3
<1>3. QED
  BY <1>1, <1>2

LEMMA PlusFacts ==
  ASSUME NEW a \in 0..Word - 1, NEW b \in 0..Word - 1
  PROVE  /\ Plus(a, b) \in 0..Word - 1
         /\ Plus(a, b) = IF a + b < Word THEN a + b ELSE a + b - Word
<1>1. Word \in Nat \ {0}
  BY LastKind
<1>2. a + b < Word => (a + b) % Word = a + b
  BY <1>1
<1>3. a + b >= Word => (a + b) % Word = a + b - Word
  BY <1>1
<1>4. QED
  BY <1>1, <1>2, <1>3 DEF Plus

LEMMA PlusAssociates ==
  ASSUME NEW a \in 0..Word - 1, NEW b \in 0..Word - 1, NEW c \in 0..Word - 1
  PROVE  /\ Plus(a, Plus(b, c)) = Plus(Plus(a, b), c)
         /\ Plus(Plus(a, c), b) = Plus(Plus(a, b), c)
<1>1. Word \in Nat \ {0}
  BY LastKind
<1>2. PICK d \in 0..Word - 1 : d = Plus(b, c)
  BY PlusFacts
<1>3. PICK e \in 0..Word - 1 : e = Plus(a, b)
  BY PlusFacts
<1>4. PICK h \in 0..Word - 1 : h = Plus(a, c)
  BY PlusFacts
<1>5. /\ d = IF b + c < Word THEN b + c ELSE b + c - Word
      /\ e = IF a + b < Word THEN a + b ELSE a + b - Word
      /\ h = IF a + c < Word THEN a + c ELSE a + c - Word
  BY <1>2, <1>3, <1>4, PlusFacts
<1>6. /\ Plus(a, d) = IF a + d < Word THEN a + d ELSE a + d - Word
      /\ Plus(e, c) = IF e + c < Word THEN e + c ELSE e + c - Word
      /\ Plus(h, b) = IF h + b < Word THEN h + b ELSE h + b - Word
  BY PlusFacts
<1>7. Plus(a, d) = Plus(e, c)
  BY <1>1, <1>5, <1>6
<1>8. Plus(h, b) = Plus(e, c)
  BY <1>1, <1>5, <1>6
<1>9. QED
  BY <1>2, <1>3, <1>4, <1>7, <1>8

LEMMA MinusFacts ==
  ASSUME NEW a \in 0..Word - 1, NEW b \in 0..Word - 1
  PROVE  Minus(a, b) \in 0..Word - 1
BY LastKind DEF Minus

\* The function that Total reads.
UpTo(r) ==
  CHOOSE f : f = [n \in 0..Len(Kinds) |-> IF n = 0 THEN 0 ELSE Plus(f[n - 1], r[n])]

LEMMA TotalIsUpTo ==
  ASSUME NEW r PROVE Total(r) = UpTo(r)[Len(Kinds)]
BY DEF Total, UpTo

LEMMA UpToFacts ==
  ASSUME NEW r \in Resources
  PROVE  /\ UpTo(r) \in [0..Len(Kinds) -> 0..Word - 1]
         /\ UpTo(r)[0] = 0
         /\ \A n \in 1..Len(Kinds) : UpTo(r)[n] = Plus(UpTo(r)[n - 1], r[n])
<1> DEFINE Sums(f) == f = [n \in 0..Len(Kinds) |-> IF n = 0 THEN 0 ELSE Plus(f[n - 1], r[n])]
<1>1. PICK turn : turn = [n \in 1..Len(Kinds) |-> [a \in 0..Word - 1 |-> Plus(a, r[n])]]
  OBVIOUS
<1>2. \A n \in 1..Len(Kinds) : r[n] \in 0..Word - 1
  BY DEF Resources
<1>3. turn \in [1..Len(Kinds) -> [0..Word - 1 -> 0..Word - 1]]
  BY <1>1, <1>2, PlusFacts
<1>4. 0 \in 0..Word - 1
  BY LastKind
<1>5. PICK f \in [0..Len(Kinds) -> 0..Word - 1] :
        f[0] = 0 /\ \A n \in 1..Len(Kinds) : f[n] = turn[n][f[n - 1]]
  <2>1. PICK last \in Nat : last = Len(Kinds)
    BY LastKind
  <2>2. PICK S : S = 0..Word - 1
    OBVIOUS
  <2>3. turn \in [1..last -> [S -> S]] /\ 0 \in S
    BY <1>3, <1>4, <2>1, <2>2
  <2>4. PICK start \in S : start = 0
    BY <2>3
  <2>5. \E f : IsRun(f, last, S, start, turn)
    BY <2>3, LoopRuns
  <2>6. QED
    BY <2>1, <2>2, <2>4, <2>5 DEF IsRun
<1>6. ASSUME NEW n \in 1..Len(Kinds)
      PROVE  n - 1 \in 0..Len(Kinds) /\ f[n] = Plus(f[n - 1], r[n])
  <2>1. n - 1 \in 0..Len(Kinds)
    BY LastKind
  <2>2. f[n - 1] \in 0..Word - 1
    BY <1>5, <2>1
  <2>3. turn[n][f[n - 1]] = Plus(f[n - 1], r[n])
    BY <1>1, <2>2
  <2>4. QED
    BY <1>5, <2>1, <2>3
<1>7. Sums(f)
  BY <1>5, <1>6, LastKind
<1>8. Sums(UpTo(r))
  BY <1>7 DEF UpTo
<1>9. PICK g : g = UpTo(r)
  OBVIOUS
<1>10. g = [n \in 0..Len(Kinds) |-> IF n = 0 THEN 0 ELSE Plus(g[n - 1], r[n])]
  BY <1>8, <1>9
<1>11. \A n \in 1..Len(Kinds) : g[n] = Plus(g[n - 1], r[n])
  BY <1>10, LastKind
<1>12. g[0] = 0
  BY <1>10, LastKind
<1>13. \A n \in 0..Len(Kinds) : g[n] \in 0..Word - 1
  <2>1. \A n \in 1..Len(Kinds) : g[n - 1] \in 0..Word - 1 => g[n] \in 0..Word - 1
    BY <1>2, <1>11, PlusFacts
  <2>2. QED
    BY <2>1, <1>4, <1>12, LastKind, LoopStays
<1>14. g \in [0..Len(Kinds) -> 0..Word - 1]
  BY <1>10, <1>13
<1>15. QED
  BY <1>9, <1>11, <1>12, <1>14

-------------------------------------------------------------------------------
(* Account: the total *)

\* A total gains what one of its resources gains.
LEMMA TotalGains ==
  ASSUME NEW r \in Resources, NEW s \in Resources, NEW k \in 1..Len(Kinds),
         NEW t \in 0..Word - 1, s[k] = Plus(r[k], t),
         \A j \in 1..Len(Kinds) : j # k => s[j] = r[j]
  PROVE  Total(s) = Plus(Total(r), t)
<1>1. PICK last \in Nat \ {0} : last = Len(Kinds)
  BY LastKind
<1>2. PICK f : f = UpTo(r)
  OBVIOUS
<1>3. PICK g : g = UpTo(s)
  OBVIOUS
<1>4. /\ f \in [0..last -> 0..Word - 1] /\ f[0] = 0
      /\ \A n \in 1..last : f[n] = Plus(f[n - 1], r[n])
  BY <1>1, <1>2, UpToFacts
<1>5. /\ g \in [0..last -> 0..Word - 1] /\ g[0] = 0
      /\ \A n \in 1..last : g[n] = Plus(g[n - 1], s[n])
  BY <1>1, <1>3, UpToFacts
<1> DEFINE off == {n \in 0..last : g[n] # IF n < k THEN f[n] ELSE Plus(f[n], t)}
<1>6. off = {}
  <2>1. SUFFICES ASSUME off # {} PROVE FALSE
    OBVIOUS
  <2>2. off \in SUBSET Nat
    OBVIOUS
  <2>3. PICK n \in off : \A m \in off : n <= m
    BY <2>1, <2>2, Minimum
  <2>4. n # 0
    BY <1>4, <1>5, <2>3
  <2>5. n \in 1..last /\ n - 1 \in 0..last /\ n - 1 \notin off
    BY <2>3, <2>4
  <2>6. g[n - 1] = IF n - 1 < k THEN f[n - 1] ELSE Plus(f[n - 1], t)
    BY <2>5
  <2>7. f[n] = Plus(f[n - 1], r[n]) /\ g[n] = Plus(g[n - 1], s[n])
    BY <1>4, <1>5, <2>5
  <2>8. f[n - 1] \in 0..Word - 1 /\ r[n] \in 0..Word - 1
    BY <1>1, <1>4, <2>5 DEF Resources
  <2>9. CASE n < k
    <3>1. s[n] = r[n]
      BY <1>1, <2>5, <2>9
    <3>2. g[n] = f[n]
      BY <2>5, <2>6, <2>7, <2>9, <3>1
    <3>3. QED
      BY <2>3, <2>9, <3>2
  <2>10. CASE n = k
    <3>1. g[n] = Plus(f[n - 1], Plus(r[n], t))
      BY <2>5, <2>6, <2>7, <2>10
    <3>2. g[n] = Plus(f[n], t)
      BY <2>7, <2>8, <3>1, PlusAssociates
    <3>3. QED
      BY <2>3, <2>10, <3>2
  <2>11. CASE n > k
    <3>1. s[n] = r[n]
      BY <1>1, <2>5, <2>11
    <3>2. g[n] = Plus(Plus(f[n - 1], t), r[n])
      BY <2>5, <2>6, <2>7, <2>11, <3>1
    <3>3. g[n] = Plus(f[n], t)
      BY <2>7, <2>8, <3>2, PlusAssociates
    <3>4. QED
      BY <2>3, <2>11, <3>3
  <2>12. QED
    BY <1>1, <2>5, <2>9, <2>10, <2>11
<1>7. last \in 0..last /\ ~(last < k)
  BY <1>1
<1>8. g[last] = Plus(f[last], t)
  BY <1>6, <1>7
<1>9. Total(r) = f[last] /\ Total(s) = g[last]
  BY <1>1, <1>2, <1>3, TotalIsUpTo
<1>10. QED
  BY <1>8, <1>9

LEMMA TotalOfNothing == Nothing \in Resources /\ Total(Nothing) = 0
<1>1. 0 \in 0..Word - 1
  BY LastKind
<1>2. Nothing \in Resources
  BY <1>1 DEF Nothing, Resources
<1>3. PICK f : f = UpTo(Nothing)
  OBVIOUS
<1>4. PICK last \in Nat \ {0} : last = Len(Kinds)
  BY LastKind
<1>5. /\ f \in [0..last -> 0..Word - 1] /\ f[0] = 0
      /\ \A n \in 1..last : f[n] = Plus(f[n - 1], Nothing[n])
  BY <1>2, <1>3, <1>4, UpToFacts
<1>6. ASSUME NEW n \in 1..last, f[n - 1] \in {0} PROVE f[n] \in {0}
  <2>1. f[n] = Plus(0, 0)
    BY <1>4, <1>5, <1>6 DEF Nothing
  <2>2. PICK z \in 0..Word - 1 : z = 0
    BY <1>1
  <2>3. Plus(z, z) = IF z + z < Word THEN z + z ELSE z + z - Word
    BY PlusFacts
  <2>4. QED
    BY <2>1, <2>2, <2>3, LastKind
<1>7. \A n \in 0..last : f[n] \in {0}
  <2>1. PICK S : S = {0}
    OBVIOUS
  <2>2. f[0] \in S /\ \A n \in 1..last : f[n - 1] \in S => f[n] \in S
    BY <1>5, <1>6, <2>1
  <2>3. \A n \in 0..last : f[n] \in S
    BY <2>2, LoopStays
  <2>4. QED
    BY <2>1, <2>3
<1>8. QED
  BY <1>2, <1>3, <1>4, <1>7, TotalIsUpTo

-------------------------------------------------------------------------------
(* Account: the loot *)

Loots == [box : Resources, player : Member]

\* The cargo in use of a player, or of a row, is the sum of its resources.
Balanced(m) == m.cargo = Total(m.resources)

\* The level is never below the one that the experience gives.
Reached(m) == CalculateLevel(m.experience) <= m.level

LEMMA SetResourceFacts ==
  ASSUME NEW r \in Resources, NEW k \in 1..Len(Kinds), NEW t \in 0..Word - 1
  PROVE  /\ SetResource(r, k, t) \in Resources
         /\ t # 0 => Total(SetResource(r, k, t)) = Plus(Total(r), t)
<1>1. r[k] \in 0..Word - 1
  BY DEF Resources
<1>2. PICK v : v = IF t = 0 THEN 0 ELSE Plus(r[k], t)
  OBVIOUS
<1>3. v \in 0..Word - 1
  BY <1>1, <1>2, PlusFacts, LastKind
<1>4. PICK s : s = SetResource(r, k, t)
  OBVIOUS
<1>5. s = [r EXCEPT ![k] = v]
  BY <1>2, <1>4 DEF SetResource
<1>6. s \in Resources
  BY <1>3, <1>5 DEF Resources
<1>7. s[k] = v /\ \A j \in 1..Len(Kinds) : j # k => s[j] = r[j]
  BY <1>5 DEF Resources
<1>8. ASSUME t # 0 PROVE Total(s) = Plus(Total(r), t)
  <2>1. s[k] = Plus(r[k], t)
    BY <1>2, <1>7, <1>8
  <2>2. QED
    BY <1>6, <1>7, <2>1, TotalGains
<1>9. QED
  BY <1>4, <1>6, <1>8

LEMMA LootKindFacts ==
  ASSUME NEW loot \in Loots, NEW k \in 1..Len(Kinds)
  PROVE  /\ LootKind(loot, k) \in Loots
         /\ Balanced(loot.player) => Balanced(LootKind(loot, k).player)
         /\ Reached(loot.player) => Reached(LootKind(loot, k).player)
<1> USE DEF Loots
<1>1. PICK m \in Member : m = loot.player
  OBVIOUS
<1>2. PICK space \in 0..Word - 1 : space = Minus(MaxCargo, m.cargo)
  BY MinusFacts, AccountAssumption DEF Member
<1>3. PICK held \in 0..Word - 1 : held = loot.box[k]
  BY DEF Resources
<1>4. PICK taken : taken = IF held > space THEN held - space ELSE held
  OBVIOUS
<1>5. /\ taken \in 0..Word - 1 /\ held - taken \in 0..Word - 1
      /\ held # 0 => taken # 0
  BY <1>4, LastKind
<1>6. CASE space = 0 \/ held = 0
  BY <1>1, <1>2, <1>3, <1>6 DEF LootKind
<1>7. CASE ~(space = 0 \/ held = 0)
  <2>1. PICK rest : rest = SetResource(loot.box, k, held - taken)
    OBVIOUS
  <2>2. PICK owned : owned = SetResource(m.resources, k, taken)
    OBVIOUS
  <2>3. PICK sum : sum = Plus(m.cargo, taken)
    OBVIOUS
  <2>4. LootKind(loot, k) = [box |-> rest,
                             player |-> [m EXCEPT !.resources = owned, !.cargo = sum]]
    BY <1>1, <1>2, <1>3, <1>4, <1>7, <2>1, <2>2, <2>3 DEF LootKind
  <2>5. rest \in Resources
    BY <1>5, <2>1, SetResourceFacts
  <2>6. m.resources \in Resources /\ m.cargo \in 0..Word - 1
    BY DEF Member
  <2>7. owned \in Resources /\ Total(owned) = Plus(Total(m.resources), taken)
    BY <1>5, <1>7, <2>2, <2>6, SetResourceFacts
  <2>8. sum \in 0..Word - 1
    BY <1>5, <2>3, <2>6, PlusFacts
  <2>9. PICK n : n = [m EXCEPT !.resources = owned, !.cargo = sum]
    OBVIOUS
  <2>10. /\ n \in Member /\ n.cargo = sum /\ n.resources = owned
         /\ n.experience = m.experience /\ n.level = m.level
    BY <2>7, <2>8, <2>9 DEF Member
  <2>11. Balanced(m) => Balanced(n)
    BY <2>3, <2>7, <2>10 DEF Balanced
  <2>12. Reached(m) => Reached(n)
    BY <2>10 DEF Reached
  <2>13. QED
    BY <1>1, <2>4, <2>5, <2>9, <2>10, <2>11, <2>12
<1>8. QED
  BY <1>6, <1>7

\* What each turn of the loop keeps, RewardCredit keeps.
LEMMA RewardCreditStays ==
  ASSUME NEW S, NEW start \in S,
         \A l \in S : \A k \in 1..Len(Kinds) : LootKind(l, k) \in S
  PROVE  RewardCredit(start) \in S
<1> DEFINE Looted(f) == f = [n \in 0..Len(Kinds) |->
                               IF n = 0 THEN start ELSE LootKind(f[n - 1], n)]
<1>1. PICK last \in Nat : last = Len(Kinds)
  BY LastKind
<1>2. PICK turn : turn = [n \in 1..last |-> [l \in S |-> LootKind(l, n)]]
  OBVIOUS
<1>3. turn \in [1..last -> [S -> S]]
  BY <1>1, <1>2
<1>4. PICK f : IsRun(f, last, S, start, turn)
  BY <1>3, LoopRuns
<1>5. /\ f \in [0..last -> S] /\ f[0] = start
      /\ \A n \in 1..last : f[n] = turn[n][f[n - 1]]
  BY <1>4 DEF IsRun
<1>6. ASSUME NEW n \in 1..last
      PROVE  n - 1 \in 0..last /\ f[n] = LootKind(f[n - 1], n)
  <2>1. n - 1 \in 0..last
    OBVIOUS
  <2>2. f[n - 1] \in S
    BY <1>5, <2>1
  <2>3. turn[n][f[n - 1]] = LootKind(f[n - 1], n)
    BY <1>2, <2>2
  <2>4. QED
    BY <1>5, <2>1, <2>3
<1>7. Looted(f)
  BY <1>1, <1>5, <1>6
<1>8. PICK g : g = CHOOSE h : Looted(h)
  OBVIOUS
<1>9. Looted(g)
  BY <1>7, <1>8
<1>10. RewardCredit(start) = g[last]
  BY <1>1, <1>8 DEF RewardCredit
<1>11. g[0] = start /\ \A n \in 1..last : g[n] = LootKind(g[n - 1], n)
  BY <1>1, <1>9
<1>12. \A n \in 1..last : g[n - 1] \in S => g[n] \in S
  BY <1>1, <1>11
<1>13. \A n \in 0..last : g[n] \in S
  BY <1>11, <1>12, LoopStays
<1>14. QED
  BY <1>10, <1>13

LEMMA RewardCreditFacts ==
  ASSUME NEW loot \in Loots
  PROVE  /\ RewardCredit(loot) \in Loots
         /\ Balanced(loot.player) => Balanced(RewardCredit(loot).player)
         /\ Reached(loot.player) => Reached(RewardCredit(loot).player)
<1>1. RewardCredit(loot) \in Loots
  <2>1. \A l \in Loots : \A k \in 1..Len(Kinds) : LootKind(l, k) \in Loots
    BY LootKindFacts
  <2>2. QED
    BY <2>1, RewardCreditStays
<1>2. ASSUME Balanced(loot.player) PROVE Balanced(RewardCredit(loot).player)
  <2>1. PICK S : S = {l \in Loots : Balanced(l.player)}
    OBVIOUS
  <2>2. loot \in S
    BY <1>2, <2>1
  <2>3. \A l \in S : \A k \in 1..Len(Kinds) : LootKind(l, k) \in S
    BY <2>1, LootKindFacts
  <2>4. RewardCredit(loot) \in S
    BY <2>2, <2>3, RewardCreditStays
  <2>5. QED
    BY <2>1, <2>4
<1>3. ASSUME Reached(loot.player) PROVE Reached(RewardCredit(loot).player)
  <2>1. PICK S : S = {l \in Loots : Reached(l.player)}
    OBVIOUS
  <2>2. loot \in S
    BY <1>3, <2>1
  <2>3. \A l \in S : \A k \in 1..Len(Kinds) : LootKind(l, k) \in S
    BY <2>1, LootKindFacts
  <2>4. RewardCredit(loot) \in S
    BY <2>2, <2>3, RewardCreditStays
  <2>5. QED
    BY <2>1, <2>4
<1>4. QED
  BY <1>1, <1>2, <1>3

-------------------------------------------------------------------------------
(* Account: levels *)

LEMMA MaxFacts ==
  ASSUME NEW n \in Nat, NEW S \in SUBSET (1..n), S # {}
  PROVE  Max(S) \in S /\ \A x \in S : Max(S) >= x
<1> DEFINE above == {n - x : x \in S}
<1>1. above \in SUBSET Nat /\ above # {}
  <2>1. \A x \in S : n - x \in Nat
    OBVIOUS
  <2>2. QED
    BY <2>1
<1>2. PICK m \in above : \A y \in above : m <= y
  BY <1>1, Minimum
<1>3. PICK x \in S : m = n - x
  BY <1>2
<1>4. ASSUME NEW y \in S PROVE x >= y
  <2>1. n - y \in above
    OBVIOUS
  <2>2. n - x <= n - y
    BY <1>2, <1>3, <2>1
  <2>3. QED
    BY <2>2
<1>5. \E z \in S : \A y \in S : z >= y
  BY <1>4
<1>6. QED
  BY <1>5 DEF Max

LEMMA LevelFacts ==
  ASSUME NEW e
  PROVE  CalculateLevel(e) \in DOMAIN Levels
<1>1. PICK n \in Nat : n = Len(Levels)
  BY AccountAssumption, LenProperties
<1>2. DOMAIN Levels = 1..n /\ 1 \in 1..n
  <2>1. Levels \in Seq(Nat) /\ Levels # <<>>
    BY AccountAssumption
  <2>2. QED
    BY <1>1, <2>1, LenProperties, EmptySeq
<1>3. PICK S : S = {1} \union {l \in DOMAIN Levels : e >= Levels[l]}
  OBVIOUS
<1>4. S \in SUBSET (1..n) /\ S # {}
  BY <1>2, <1>3
<1>5. Max(S) \in 1..n
  BY <1>4, MaxFacts
<1>6. QED
  BY <1>2, <1>3, <1>5 DEF CalculateLevel

LEMMA UpdateExperienceFacts ==
  ASSUME NEW m \in Member
  PROVE  /\ UpdateExperience(m) \in Member
         /\ Balanced(m) => Balanced(UpdateExperience(m))
         /\ Reached(UpdateExperience(m))
<1>1. PICK sum : sum = Plus(m.experience, Reward)
  OBVIOUS
<1>2. sum \in 0..Word - 1
  BY <1>1, PlusFacts, AccountAssumption DEF Member
<1>3. PICK n \in Nat : n = Len(Levels)
  BY AccountAssumption, LenProperties
<1>4. DOMAIN Levels = 1..n
  BY <1>3, AccountAssumption, LenProperties
<1>5. PICK S : S = {m.level, CalculateLevel(sum)}
  OBVIOUS
<1>6. S \in SUBSET (1..n) /\ S # {}
  BY <1>4, <1>5, LevelFacts DEF Member
<1>7. PICK l : l = Max(S)
  OBVIOUS
<1>8. l \in DOMAIN Levels
  BY <1>4, <1>6, <1>7, MaxFacts
<1>9. UpdateExperience(m) = [m EXCEPT !.experience = sum, !.level = l]
  BY <1>1, <1>5, <1>7 DEF UpdateExperience
<1>10. /\ UpdateExperience(m) \in Member
       /\ UpdateExperience(m).experience = sum /\ UpdateExperience(m).level = l
       /\ UpdateExperience(m).cargo = m.cargo
       /\ UpdateExperience(m).resources = m.resources
  BY <1>2, <1>8, <1>9 DEF Member
<1>11. CalculateLevel(sum) <= l
  <2>1. CalculateLevel(sum) \in S /\ CalculateLevel(sum) \in 1..n /\ l \in 1..n
    BY <1>4, <1>5, <1>8, LevelFacts
  <2>2. \A x \in S : l >= x
    BY <1>6, <1>7, MaxFacts
  <2>3. QED
    BY <2>1, <2>2
<1>12. QED
  BY <1>10, <1>11 DEF Balanced, Reached

-------------------------------------------------------------------------------
(* Account: type correctness, in three parts *)

PlayerTypes ==
  /\ phase \in [Sessions ->
                  {"none", "loading", "queued", "listed", "saving", "gone"}]
  /\ queue \in Seq(Sessions)
  /\ memory \in [Sessions -> Member]
  /\ alone \in [Sessions -> BOOLEAN]

StoredTypes ==
  /\ accounts \in AccountRow
  /\ ships \in ShipRow
  /\ pending \in Seq(Save)

OtherTypes ==
  /\ box \in Resources
  /\ left \in Member \union {Unknown}
  /\ changes \in 0..MaxChanges
  /\ crashes \in 0..MaxCrashes

LEMMA AccountTypeParts == AccountTypeOK <=> PlayerTypes /\ StoredTypes /\ OtherTypes
  BY DEF AccountTypeOK, PlayerTypes, StoredTypes, OtherTypes

LEMMA BlankFacts == Blank \in Member /\ Balanced(Blank)
<1>1. 1 \in DOMAIN Levels
  BY AccountAssumption, LenProperties, EmptySeq
<1>2. 0 \in 0..Word - 1 /\ 0 \in 0..Byte - 1
  BY LastKind, AccountAssumption
<1>3. QED
  BY <1>1, <1>2, TotalOfNothing DEF Blank, Member, Balanced

LEMMA AccountTypeInit == AccountInit => AccountTypeOK
<1> SUFFICES ASSUME AccountInit PROVE PlayerTypes /\ StoredTypes /\ OtherTypes
  BY AccountTypeParts
<1>1. 0 \in 0..Word - 1 /\ 1 \in 0..Byte - 1
  BY LastKind, AccountAssumption
<1>2. PlayerTypes
  <2>1. <<>> \in Seq(Sessions)
    BY EmptySeq
  <2>2. QED
    BY <2>1, BlankFacts DEF AccountInit, PlayerTypes
<1>3. StoredTypes
  <2>1. <<>> \in Seq(Save)
    BY EmptySeq
  <2>2. QED
    BY <1>1, <2>1, TotalOfNothing DEF AccountInit, StoredTypes, AccountRow, ShipRow
<1>4. OtherTypes
  <2>1. [Blank EXCEPT !.laser = 1, !.level = CalculateLevel(0)] \in Member
    BY <1>1, BlankFacts, LevelFacts DEF Member
  <2>2. MaxChanges \in Nat /\ MaxCrashes \in Nat
    BY AccountAssumption
  <2>3. QED
    BY <2>1, <2>2, TotalOfNothing DEF AccountInit, OtherTypes
<1>5. QED
  BY <1>2, <1>3, <1>4

\* What a client can select fits the parameter that it is bound to.
LEMMA SetBoolFacts ==
  ASSUME NEW x \in 0..Byte - 1
  PROVE  SetBool(x) = x
BY AccountAssumption DEF SetBool

LEMMA PlayerTypesStep ==
  ASSUME PlayerTypes, StoredTypes, OtherTypes, AccountNext
  PROVE  PlayerTypes'
<1>1. CASE \E s \in Sessions : LoadFromDB(s)
  <2>1. PICK s \in Sessions : LoadFromDB(s)
    BY <1>1
  <2>2. PICK l : l = CalculateLevel(accounts.experience)
    OBVIOUS
  <2>3. l \in DOMAIN Levels
    BY <2>2, LevelFacts
  <2>4. PICK m \in Member : m = memory[s]
    BY DEF PlayerTypes
  <2>5. memory' \in [Sessions -> Member]
    <3>1. accounts.experience \in 0..Word - 1 /\ accounts.laser \in 0..Byte - 1
      BY DEF StoredTypes, AccountRow
    <3>2. [m EXCEPT !.experience = accounts.experience, !.level = l,
                    !.laser = accounts.laser] \in Member
      BY <2>3, <3>1 DEF Member
    <3>3. memory' = [memory EXCEPT ![s] = [m EXCEPT !.experience = accounts.experience,
                                                    !.level = l, !.laser = accounts.laser]]
      BY <2>1, <2>2, <2>4 DEF LoadFromDB
    <3>4. QED
      BY <3>2, <3>3 DEF PlayerTypes
  <2>6. alone' \in [Sessions -> BOOLEAN]
    <3>1. ASSUME NEW t \in Sessions PROVE alone'[t] \in BOOLEAN
      BY <2>1, Zenon DEF LoadFromDB, PlayerTypes
    <3>2. QED
      BY <2>1, <3>1 DEF LoadFromDB
  <2>7. QED
    BY <2>1, <2>5, <2>6 DEF LoadFromDB, PlayerTypes
<1>2. CASE \E s \in Sessions : LoadShipFromDB(s)
  <2>1. PICK s \in Sessions : LoadShipFromDB(s)
    BY <1>2
  <2>2. PICK m \in Member : m = memory[s]
    BY DEF PlayerTypes
  <2>3. memory' \in [Sessions -> Member]
    <3>1. ships.cargo \in 0..Word - 1 /\ ships.resources \in Resources
      BY DEF StoredTypes, ShipRow
    <3>2. [m EXCEPT !.cargo = ships.cargo, !.resources = ships.resources] \in Member
      BY <3>1 DEF Member
    <3>3. memory' = [memory EXCEPT ![s] = [m EXCEPT !.cargo = ships.cargo,
                                                    !.resources = ships.resources]]
      BY <2>1, <2>2 DEF LoadShipFromDB
    <3>4. QED
      BY <3>2, <3>3 DEF PlayerTypes
  <2>4. queue' \in Seq(Sessions)
    BY <2>1, AppendProperties DEF LoadShipFromDB, PlayerTypes
  <2>5. QED
    BY <2>1, <2>3, <2>4 DEF LoadShipFromDB, PlayerTypes
<1>3. CASE \E s \in Sessions : ProcessPlayer(s)
  <2>1. PICK s \in Sessions : ProcessPlayer(s)
    BY <1>3
  <2>2. queue' \in Seq(Sessions)
    BY <2>1, HeadTailProperties DEF ProcessPlayer, PlayerTypes
  <2>3. QED
    BY <2>1, <2>2 DEF ProcessPlayer, PlayerTypes
<1>4. CASE \E s \in Sessions : KillMob(s)
  BY <1>4, UpdateExperienceFacts DEF KillMob, PlayerTypes
<1>5. CASE \E s \in Sessions : HandleLootCargo(s)
  <2>1. PICK s \in Sessions : HandleLootCargo(s)
    BY <1>5
  <2>2. PICK loot : loot = [box |-> box, player |-> memory[s]]
    OBVIOUS
  <2>3. loot \in Loots
    BY <2>2 DEF Loots, PlayerTypes, OtherTypes
  <2>4. PICK r : r = RewardCredit(loot)
    OBVIOUS
  <2>5. r.player \in Member
    BY <2>3, <2>4, RewardCreditFacts DEF Loots
  <2>6. memory' = [memory EXCEPT ![s] = r.player]
    BY <2>1, <2>2, <2>4 DEF HandleLootCargo
  <2>7. QED
    BY <2>1, <2>5, <2>6 DEF HandleLootCargo, PlayerTypes
<1>6. CASE \E s \in Sessions : UpdateClientSettings(s)
  <2>1. PICK s \in Sessions, l \in Selections : /\ UpdateClientSettings(s)
                                                /\ memory' = [memory EXCEPT ![s].laser = l]
    BY <1>6 DEF UpdateClientSettings
  <2>2. [memory[s] EXCEPT !.laser = l] \in Member
    <3>1. l \in 0..Byte - 1
      BY AccountAssumption
    <3>2. QED
      BY <3>1 DEF PlayerTypes, Member
  <2>3. memory' \in [Sessions -> Member]
    BY <2>1, <2>2 DEF PlayerTypes
  <2>4. QED
    BY <2>1, <2>3 DEF UpdateClientSettings, PlayerTypes
<1>7. CASE \E s \in Sessions : SaveToDB(s)
  BY <1>7 DEF SaveToDB, PlayerTypes
<1>8. CASE \E s \in Sessions : DeletePlayer(s)
  BY <1>8 DEF DeletePlayer, PlayerTypes
<1>9. CASE \E s \in Sessions : SaveShipToDB(s)
  BY <1>9, BlankFacts DEF SaveShipToDB, PlayerTypes
<1>10. CASE ExecuteSave
  BY <1>10 DEF ExecuteSave, PlayerTypes
<1>11. CASE Crash
  <2>1. <<>> \in Seq(Sessions)
    BY EmptySeq
  <2>2. QED
    BY <1>11, <2>1, BlankFacts DEF Crash, PlayerTypes
<1>12. QED
  BY <1>1, <1>2, <1>3, <1>4, <1>5, <1>6, <1>7, <1>8, <1>9, <1>10, <1>11, Zenon DEF AccountNext

LEMMA ValuesFacts ==
  ASSUME NEW m \in Member
  PROVE  /\ AccountValues(m) \in AccountRow
         /\ ShipValues(m) \in ShipRow
         /\ [table |-> "accounts", row |-> AccountValues(m)] \in Save
         /\ [table |-> "ships", row |-> ShipValues(m)] \in Save
<1>1. AccountValues(m) \in AccountRow
  <2>1. m.experience \in 0..Word - 1 /\ m.laser \in 0..Byte - 1
    BY DEF Member
  <2>2. SetBool(m.laser) = m.laser
    BY <2>1, SetBoolFacts
  <2>3. QED
    BY <2>1, <2>2 DEF AccountValues, AccountRow
<1>2. ShipValues(m) \in ShipRow
  BY DEF ShipValues, ShipRow, Member
<1>3. QED
  BY <1>1, <1>2 DEF Save

\* Executing a save leaves the others in their order.
LEMMA RemoveAtFacts ==
  ASSUME NEW S, NEW q \in Seq(S), NEW i \in DOMAIN q
  PROVE  /\ RemoveAt(q, i) \in Seq(S)
         /\ \A j \in DOMAIN RemoveAt(q, i) : \E k \in DOMAIN q : RemoveAt(q, i)[j] = q[k]
<1>1. PICK n \in Nat : n = Len(q)
  BY LenProperties
<1>2. DOMAIN q = 1..n /\ i \in 1..n
  BY <1>1, LenProperties
<1>3. PICK a : a = SubSeq(q, 1, i - 1)
  OBVIOUS
<1>4. PICK b : b = SubSeq(q, i + 1, n)
  OBVIOUS
<1>5. RemoveAt(q, i) = a \o b
  BY <1>1, <1>3, <1>4 DEF RemoveAt
<1>6. /\ a \in Seq(S) /\ Len(a) = i - 1
      /\ \A j \in 1..i - 1 : a[j] = q[j]
  BY <1>1, <1>2, <1>3, SubSeqProperties
<1>7. /\ b \in Seq(S) /\ Len(b) = n - i
      /\ \A j \in 1..n - i : b[j] = q[i + j]
  BY <1>1, <1>2, <1>4, SubSeqProperties
<1>8. /\ a \o b \in Seq(S) /\ Len(a \o b) = (i - 1) + (n - i)
      /\ \A j \in 1..(i - 1) + (n - i) :
           (a \o b)[j] = IF j <= i - 1 THEN a[j] ELSE b[j - (i - 1)]
  BY <1>6, <1>7, ConcatProperties
<1>9. ASSUME NEW j \in DOMAIN (a \o b) PROVE \E k \in DOMAIN q : (a \o b)[j] = q[k]
  <2>1. j \in 1..n - 1
    BY <1>2, <1>8, <1>9, LenProperties
  <2>2. CASE j <= i - 1
    <3>1. (a \o b)[j] = q[j] /\ j \in DOMAIN q
      BY <1>2, <1>6, <1>8, <2>1, <2>2
    <3>2. QED
      BY <3>1
  <2>3. CASE ~(j <= i - 1)
    <3>1. j - (i - 1) \in 1..n - i /\ i + (j - (i - 1)) = j + 1 /\ j + 1 \in DOMAIN q
      BY <1>2, <2>1, <2>3
    <3>2. (a \o b)[j] = q[j + 1]
      BY <1>7, <1>8, <2>1, <2>3, <3>1
    <3>3. QED
      BY <3>1, <3>2
  <2>4. QED
    BY <2>2, <2>3
<1>10. QED
  BY <1>5, <1>8, <1>9

LEMMA StoredTypesStep ==
  ASSUME PlayerTypes, StoredTypes, OtherTypes, AccountNext
  PROVE  StoredTypes'
<1>1. CASE \E s \in Sessions : \/ LoadFromDB(s) \/ LoadShipFromDB(s) \/ ProcessPlayer(s)
                               \/ KillMob(s) \/ HandleLootCargo(s)
                               \/ UpdateClientSettings(s)
  BY <1>1 DEF LoadFromDB, LoadShipFromDB, ProcessPlayer, KillMob, HandleLootCargo,
              UpdateClientSettings, rows, StoredTypes
<1>2. CASE \E s \in Sessions : SaveToDB(s)
  <2>1. PICK s \in Sessions : SaveToDB(s)
    BY <1>2
  <2>2. PICK m \in Member : m = memory[s]
    BY DEF PlayerTypes
  <2>3. PICK a \in Save : a = [table |-> "accounts", row |-> AccountValues(m)]
    BY ValuesFacts
  <2>4. PICK b \in Save : b = [table |-> "ships", row |-> ShipValues(m)]
    BY ValuesFacts
  <2>5. pending' = pending \o <<a, b>>
    BY <2>1, <2>2, <2>3, <2>4 DEF SaveToDB
  <2>6. <<a, b>> \in Seq(Save)
    OBVIOUS
  <2>7. pending' \in Seq(Save)
    BY <2>5, <2>6, ConcatProperties DEF StoredTypes
  <2>8. QED
    BY <2>1, <2>7 DEF SaveToDB, rows, StoredTypes
<1>3. CASE \E s \in Sessions : DeletePlayer(s)
  BY <1>3, ValuesFacts DEF DeletePlayer, StoredTypes, PlayerTypes
<1>4. CASE \E s \in Sessions : SaveShipToDB(s)
  BY <1>4, ValuesFacts DEF SaveShipToDB, StoredTypes, PlayerTypes
<1>5. CASE ExecuteSave
  <2>1. PICK i \in DOMAIN pending :
          /\ pending' = RemoveAt(pending, i)
          /\ accounts' = IF pending[i].table = "accounts" THEN pending[i].row ELSE accounts
          /\ ships' = IF pending[i].table = "ships" THEN pending[i].row ELSE ships
    BY <1>5 DEF ExecuteSave
  <2>2. pending[i] \in Save
    BY DEF StoredTypes
  <2>3. /\ pending[i].table = "accounts" => pending[i].row \in AccountRow
        /\ pending[i].table = "ships" => pending[i].row \in ShipRow
    BY <2>2 DEF Save
  <2>4. pending' \in Seq(Save)
    BY <2>1, RemoveAtFacts DEF StoredTypes
  <2>5. QED
    BY <2>1, <2>3, <2>4 DEF StoredTypes
<1>6. CASE Crash
  <2>1. <<>> \in Seq(Save)
    BY EmptySeq
  <2>2. QED
    BY <1>6, <2>1 DEF Crash, rows, StoredTypes
<1>7. QED
  BY <1>1, <1>2, <1>3, <1>4, <1>5, <1>6, Zenon DEF AccountNext

LEMMA OtherTypesStep ==
  ASSUME PlayerTypes, StoredTypes, OtherTypes, AccountNext
  PROVE  OtherTypes'
<1> USE AccountAssumption
<1>1. CASE \E s \in Sessions : \/ LoadFromDB(s) \/ LoadShipFromDB(s) \/ ProcessPlayer(s)
                               \/ SaveToDB(s) \/ SaveShipToDB(s)
  BY <1>1 DEF LoadFromDB, LoadShipFromDB, ProcessPlayer, SaveToDB, SaveShipToDB, OtherTypes
<1>2. CASE \E s \in Sessions : KillMob(s) \/ UpdateClientSettings(s)
  <2>1. changes' \in 0..MaxChanges
    <3>1. changes < MaxChanges /\ changes' = changes + 1
      BY <1>2 DEF KillMob, UpdateClientSettings, Changes
    <3>2. changes \in 0..MaxChanges
      BY DEF OtherTypes
    <3>3. QED
      BY <3>1, <3>2
  <2>2. box' \in Resources
    BY <1>2 DEF KillMob, UpdateClientSettings, OtherTypes
  <2>3. UNCHANGED <<left, crashes>>
    BY <1>2 DEF KillMob, UpdateClientSettings
  <2>4. QED
    BY <2>1, <2>2, <2>3 DEF OtherTypes
<1>3. CASE \E s \in Sessions : HandleLootCargo(s)
  <2>1. PICK s \in Sessions : HandleLootCargo(s)
    BY <1>3
  <2>2. PICK loot : loot = [box |-> box, player |-> memory[s]]
    OBVIOUS
  <2>3. loot \in Loots
    BY <2>2 DEF Loots, PlayerTypes, OtherTypes
  <2>4. PICK r : r = RewardCredit(loot)
    OBVIOUS
  <2>5. r.box \in Resources
    BY <2>3, <2>4, RewardCreditFacts DEF Loots
  <2>6. box' = r.box
    BY <2>1, <2>2, <2>4 DEF HandleLootCargo
  <2>7. QED
    BY <2>1, <2>5, <2>6 DEF HandleLootCargo, Changes, OtherTypes
<1>4. CASE \E s \in Sessions : DeletePlayer(s)
  <2>1. PICK s \in Sessions : DeletePlayer(s)
    BY <1>4
  <2>2. PICK m \in Member : m = memory[s]
    BY DEF PlayerTypes
  <2>3. left' \in Member \union {Unknown}
    BY <2>1, <2>2 DEF DeletePlayer, Leaves
  <2>4. QED
    BY <2>1, <2>3 DEF DeletePlayer, OtherTypes
<1>5. CASE ExecuteSave
  BY <1>5 DEF ExecuteSave, OtherTypes
<1>6. CASE Crash
  BY <1>6, TotalOfNothing DEF Crash, OtherTypes
<1>7. QED
  BY <1>1, <1>2, <1>3, <1>4, <1>5, <1>6, Zenon DEF AccountNext

LEMMA AccountTypeStep ==
  ASSUME AccountTypeOK, [AccountNext]_accountVars
  PROVE  AccountTypeOK'
<1>1. PlayerTypes /\ StoredTypes /\ OtherTypes
  BY AccountTypeParts
<1>2. CASE AccountNext
  <2>1. PlayerTypes' /\ StoredTypes' /\ OtherTypes'
    BY <1>1, <1>2, PlayerTypesStep, StoredTypesStep, OtherTypesStep
  <2>2. QED
    BY <2>1 DEF AccountTypeOK, PlayerTypes, StoredTypes, OtherTypes
<1>3. CASE UNCHANGED accountVars
  BY <1>1, <1>3 DEF accountVars, rows, AccountTypeOK
<1>4. QED
  BY <1>2, <1>3

\* What the members and the rows hold has the width of the code's integers.
THEOREM AccountTypeCorrect == AccountSpec => []AccountTypeOK
BY AccountTypeInit, AccountTypeStep, PTL DEF AccountSpec

-------------------------------------------------------------------------------
(* Account: the cargo in use is the sum of the resources *)

LEMMA CargoInit == AccountInit => CargoIsSum
BY BlankFacts, TotalOfNothing, EmptySeq DEF AccountInit, CargoIsSum, Balanced

\* Every save of a ship on its way is of a player at a moment when its cargo was
\* the sum; executing it gives the row the same.
LEMMA CargoStep ==
  ASSUME AccountTypeOK, CargoIsSum, [AccountNext]_accountVars
  PROVE  CargoIsSum'
<1> USE DEF Balanced
<1>1. PlayerTypes /\ StoredTypes /\ OtherTypes
  BY AccountTypeParts
<1> DEFINE InMemory == \A s \in Sessions : Balanced(memory[s])
           InRow == Balanced(ships)
           InFlight == \A i \in DOMAIN pending :
                         pending[i].table = "ships" => Balanced(pending[i].row)
<1>2. InMemory /\ InRow /\ InFlight
  BY DEF CargoIsSum
<1>3. SUFFICES InMemory' /\ InRow' /\ InFlight'
  BY DEF CargoIsSum
<1>4. CASE \E s \in Sessions : LoadFromDB(s)
  <2>1. PICK s \in Sessions : LoadFromDB(s)
    BY <1>4
  <2>2. ASSUME NEW t \in Sessions
        PROVE  /\ memory'[t].cargo = memory[t].cargo
               /\ memory'[t].resources = memory[t].resources
    <3>1. memory[t] \in Member
      BY <1>1 DEF PlayerTypes
    <3>2. QED
      BY <1>1, <2>1, <3>1 DEF LoadFromDB, PlayerTypes, Member
  <2>3. UNCHANGED rows /\ UNCHANGED pending
    BY <2>1 DEF LoadFromDB
  <2>4. QED
    BY <1>2, <2>2, <2>3 DEF rows
<1>5. CASE \E s \in Sessions : LoadShipFromDB(s)
  <2>1. PICK s \in Sessions : LoadShipFromDB(s)
    BY <1>5
  <2>2. ASSUME NEW t \in Sessions
        PROVE  \/ /\ memory'[t].cargo = ships.cargo
                  /\ memory'[t].resources = ships.resources
               \/ memory'[t] = memory[t]
    <3>1. memory[t] \in Member
      BY <1>1 DEF PlayerTypes
    <3>2. QED
      BY <1>1, <2>1, <3>1 DEF LoadShipFromDB, PlayerTypes, Member
  <2>3. UNCHANGED rows /\ UNCHANGED pending
    BY <2>1 DEF LoadShipFromDB
  <2>4. QED
    BY <1>2, <2>2, <2>3 DEF rows
<1>6. CASE \E s \in Sessions : ProcessPlayer(s)
  BY <1>2, <1>6 DEF ProcessPlayer, rows
<1>7. CASE \E s \in Sessions : KillMob(s)
  <2>1. PICK s \in Sessions : KillMob(s)
    BY <1>7
  <2>2. PICK m \in Member : m = memory[s]
    BY <1>1 DEF PlayerTypes
  <2>3. PICK n : n = UpdateExperience(m)
    OBVIOUS
  <2>4. Balanced(n)
    BY <1>2, <2>2, <2>3, UpdateExperienceFacts
  <2>5. memory' = [memory EXCEPT ![s] = n] /\ UNCHANGED rows /\ UNCHANGED pending
    BY <2>1, <2>2, <2>3 DEF KillMob
  <2>6. QED
    BY <1>1, <1>2, <2>4, <2>5 DEF rows, PlayerTypes
<1>8. CASE \E s \in Sessions : HandleLootCargo(s)
  <2>1. PICK s \in Sessions : HandleLootCargo(s)
    BY <1>8
  <2>2. PICK loot : loot = [box |-> box, player |-> memory[s]]
    OBVIOUS
  <2>3. loot \in Loots /\ Balanced(loot.player)
    BY <1>1, <1>2, <2>2 DEF Loots, PlayerTypes, OtherTypes
  <2>4. PICK n : n = RewardCredit(loot).player
    OBVIOUS
  <2>5. Balanced(n)
    BY <2>3, <2>4, RewardCreditFacts
  <2>6. memory' = [memory EXCEPT ![s] = n] /\ UNCHANGED rows /\ UNCHANGED pending
    BY <2>1, <2>2, <2>4 DEF HandleLootCargo
  <2>7. QED
    BY <1>1, <1>2, <2>5, <2>6 DEF rows, PlayerTypes
<1>9. CASE \E s \in Sessions : UpdateClientSettings(s)
  <2>1. PICK s \in Sessions, l \in Selections : /\ UpdateClientSettings(s)
                                                /\ memory' = [memory EXCEPT ![s].laser = l]
    BY <1>9 DEF UpdateClientSettings
  <2>2. ASSUME NEW t \in Sessions
        PROVE  /\ memory'[t].cargo = memory[t].cargo
               /\ memory'[t].resources = memory[t].resources
    <3>1. memory[t] \in Member
      BY <1>1 DEF PlayerTypes
    <3>2. QED
      BY <1>1, <2>1, <3>1 DEF PlayerTypes, Member
  <2>3. UNCHANGED rows /\ UNCHANGED pending
    BY <2>1 DEF UpdateClientSettings
  <2>4. QED
    BY <1>2, <2>2, <2>3 DEF rows
<1>10. CASE \E s \in Sessions : SaveToDB(s)
  <2>1. PICK s \in Sessions : SaveToDB(s)
    BY <1>10
  <2>2. PICK m \in Member : m = memory[s]
    BY <1>1 DEF PlayerTypes
  <2>3. PICK a \in Save : a = [table |-> "accounts", row |-> AccountValues(m)]
    BY ValuesFacts
  <2>4. PICK b \in Save : b = [table |-> "ships", row |-> ShipValues(m)]
    BY ValuesFacts
  <2>5. Balanced(b.row) /\ a.table # "ships"
    BY <1>2, <2>2, <2>3, <2>4 DEF ShipValues
  <2>6. pending' = pending \o <<a, b>>
    BY <2>1, <2>2, <2>3, <2>4 DEF SaveToDB
  <2>7. pending \in Seq(Save) /\ <<a, b>> \in Seq(Save)
    BY <1>1 DEF StoredTypes
  <2>8. PICK n \in Nat : n = Len(pending)
    BY <2>7, LenProperties
  <2>9. /\ Len(pending') = n + 2
        /\ \A j \in 1..n + 2 : pending'[j] = IF j <= n THEN pending[j] ELSE <<a, b>>[j - n]
        /\ pending' \in Seq(Save)
    BY <2>6, <2>7, <2>8, ConcatProperties
  <2>10. ASSUME NEW j \in DOMAIN pending', pending'[j].table = "ships"
         PROVE  Balanced(pending'[j].row)
    <3>1. j \in 1..n + 2
      BY <2>9, LenProperties
    <3>2. CASE j <= n
      <4>1. j \in DOMAIN pending
        BY <2>7, <2>8, <3>1, <3>2, LenProperties
      <4>2. QED
        BY <1>2, <2>9, <2>10, <3>1, <3>2, <4>1
    <3>3. CASE j = n + 1
      BY <2>5, <2>9, <2>10, <3>1, <3>3
    <3>4. CASE j = n + 2
      BY <2>5, <2>9, <3>1, <3>4
    <3>5. QED
      BY <3>1, <3>2, <3>3, <3>4
  <2>11. UNCHANGED <<memory, rows>>
    BY <2>1 DEF SaveToDB
  <2>12. QED
    BY <1>2, <2>10, <2>11 DEF rows
<1>11. CASE \E s \in Sessions : DeletePlayer(s)
  BY <1>2, <1>11 DEF DeletePlayer
<1>12. CASE \E s \in Sessions : SaveShipToDB(s)
  <2>1. PICK s \in Sessions : SaveShipToDB(s)
    BY <1>12
  <2>2. InRow'
    BY <1>2, <2>1 DEF SaveShipToDB, ShipValues
  <2>3. InMemory'
    BY <1>1, <1>2, <2>1, BlankFacts DEF SaveShipToDB, PlayerTypes
  <2>4. InFlight'
    BY <1>2, <2>1 DEF SaveShipToDB
  <2>5. QED
    BY <2>2, <2>3, <2>4
<1>13. CASE ExecuteSave
  <2>1. PICK i \in DOMAIN pending :
          /\ pending' = RemoveAt(pending, i)
          /\ ships' = IF pending[i].table = "ships" THEN pending[i].row ELSE ships
    BY <1>13 DEF ExecuteSave
  <2>2. InRow'
    BY <1>2, <2>1
  <2>3. InMemory'
    BY <1>2, <1>13 DEF ExecuteSave
  <2>4. \A j \in DOMAIN pending' : \E k \in DOMAIN pending : pending'[j] = pending[k]
    BY <1>1, <2>1, RemoveAtFacts DEF StoredTypes
  <2>5. InFlight'
    BY <1>2, <2>4
  <2>6. QED
    BY <2>2, <2>3, <2>5
<1>14. CASE Crash
  BY <1>2, <1>14, BlankFacts, EmptySeq DEF Crash, rows
<1>15. CASE UNCHANGED accountVars
  BY <1>2, <1>15 DEF accountVars, rows
<1>16. QED
  BY <1>4, <1>5, <1>6, <1>7, <1>8, <1>9, <1>10, <1>11, <1>12, <1>13, <1>14, <1>15, Zenon
     DEF AccountNext

\* The cargo in use is the sum of the resources, in memory, in flight and in the row.
THEOREM CargoCorrect == AccountSpec => []CargoIsSum
BY AccountTypeCorrect, CargoInit, CargoStep, PTL DEF AccountSpec

-------------------------------------------------------------------------------
(* Account: what a session leaves and finds *)

Quiet == \A s \in Sessions : phase[s] \notin {"listed", "saving"}

\* At most one player of the account is in the world.
OneActive ==
  \A s, t \in Sessions :
    phase[s] \in {"listed", "saving"} /\ phase[t] \in {"listed", "saving"} => s = t

\* The queue holds players that are loaded, each once.
QueueIsLoaded ==
  /\ \A i \in DOMAIN queue : phase[queue[i]] = "queued"
  /\ \A i, j \in DOMAIN queue : i # j => queue[i] # queue[j]

\* Who loads while nobody else is about is the first in the queue, and nobody is
\* in the world before it.
AloneIsFirst ==
  \A s \in Sessions : alone[s] =>
    /\ phase[s] = "loading" =>
         \A t \in Sessions : t # s => phase[t] \in {"none", "gone"}
    /\ phase[s] = "queued" => queue # <<>> /\ Head(queue) = s /\ Quiet

\* What a row of the account and one of the ship are read as.
ReadAs(account, ship) ==
  [experience |-> account.experience, level |-> CalculateLevel(account.experience),
   laser |-> account.laser, cargo |-> ship.cargo, resources |-> ship.resources]

\* With nobody in the world, the rows hold what the last session has left.
RowsAsLeft ==
  Quiet /\ left # Unknown =>
    pending = <<>> /\ Recovers(ReadAs(accounts, ships), left)

\* Between the two statements of the destructor the ship is still in memory.
SavingAsLeft ==
  \A s \in Sessions : phase[s] = "saving" /\ left # Unknown =>
    pending = <<>> /\ Recovers(ReadAs(accounts, memory[s]), left)

\* After the first statement of LoadFromDB half of the player is there.
LoadedAsLeft ==
  \A s \in Sessions : phase[s] = "loading" /\ alone[s] /\ left # Unknown =>
    /\ memory[s].experience = left.experience
    /\ memory[s].level <= left.level
    /\ memory[s].laser = left.laser

SessionInv ==
  /\ OneActive /\ QueueIsLoaded /\ AloneIsFirst
  /\ RowsAsLeft /\ SavingAsLeft /\ LoadedAsLeft /\ RestoredAsLeft

\* A player that is loaded has reached the level of its experience.
LevelsReached ==
  \A s \in Sessions : phase[s] \notin {"none", "gone"} => Reached(memory[s])

LEMMA RecoversParts ==
  ASSUME NEW new \in Member, NEW old \in Member
  PROVE  Recovers(new, old) <=>
           /\ new.experience = old.experience /\ new.level <= old.level
           /\ new.laser = old.laser
           /\ new.cargo = old.cargo /\ new.resources = old.resources
BY DEF Recovers, Member

LEMMA ReadAsFacts ==
  ASSUME NEW account \in AccountRow, NEW ship,
         ship.cargo \in 0..Word - 1, ship.resources \in Resources
  PROVE  /\ ReadAs(account, ship) \in Member
         /\ ReadAs(account, ship).experience = account.experience
         /\ ReadAs(account, ship).level = CalculateLevel(account.experience)
         /\ ReadAs(account, ship).laser = account.laser
         /\ ReadAs(account, ship).cargo = ship.cargo
         /\ ReadAs(account, ship).resources = ship.resources
<1>1. PICK l \in DOMAIN Levels : l = CalculateLevel(account.experience)
  BY LevelFacts
<1>2. account.experience \in 0..Word - 1 /\ account.laser \in 0..Byte - 1
  BY DEF AccountRow
<1>3. QED
  BY <1>1, <1>2 DEF ReadAs, Member

\* Levels are numbers.
LEMMA LevelsAreNumbers == DOMAIN Levels \subseteq Nat
BY AccountAssumption, LenProperties

LEMMA SessionInit == AccountInit => SessionInv
<1> SUFFICES ASSUME AccountInit PROVE SessionInv
  OBVIOUS
<1>1. \A s \in Sessions : phase[s] = "none" /\ ~alone[s]
  BY DEF AccountInit
<1>2. queue = <<>> /\ pending = <<>>
  BY DEF AccountInit
<1>3. OneActive /\ AloneIsFirst /\ SavingAsLeft /\ LoadedAsLeft /\ RestoredAsLeft
  BY <1>1 DEF OneActive, AloneIsFirst, SavingAsLeft, LoadedAsLeft, RestoredAsLeft
<1>4. QueueIsLoaded
  BY <1>2, EmptySeq DEF QueueIsLoaded
<1>5. Recovers(ReadAs(accounts, ships), left)
  <2>1. accounts \in AccountRow /\ ships \in ShipRow
    BY AccountTypeInit DEF AccountTypeOK
  <2>2. left = ReadAs(accounts, ships)
    BY DEF AccountInit, Blank, ReadAs
  <2>3. PICK m \in Member : m = ReadAs(accounts, ships)
    BY <2>1, ReadAsFacts DEF ShipRow
  <2>4. m.level \in Nat
    BY LevelsAreNumbers DEF Member
  <2>5. QED
    BY <2>2, <2>3, <2>4, RecoversParts
<1>6. RowsAsLeft
  BY <1>2, <1>5 DEF RowsAsLeft
<1>7. QED
  BY <1>3, <1>4, <1>6 DEF SessionInv

\* Whatever a player in the world does, no other is near it.
LEMMA InTheWorld ==
  ASSUME AccountTypeOK, SessionInv, NEW s \in Sessions, phase[s] = "listed",
         UNCHANGED <<phase, queue, left, alone>>
  PROVE  SessionInv'
<1>1. ~Quiet
  BY DEF Quiet
<1>2. \A t \in Sessions : phase[t] # "saving"
  BY DEF SessionInv, OneActive
<1>3. ASSUME NEW t \in Sessions, alone[t] PROVE phase[t] \notin {"loading", "queued"}
  <2>1. phase[t] = "loading" => \A u \in Sessions : u # t => phase[u] \in {"none", "gone"}
    BY <1>3 DEF SessionInv, AloneIsFirst
  <2>2. phase[t] = "queued" => Quiet
    BY <1>3 DEF SessionInv, AloneIsFirst
  <2>3. QED
    BY <1>1, <2>1, <2>2
<1>4. OneActive' /\ QueueIsLoaded' /\ AloneIsFirst'
  <2>1. Quiet' <=> Quiet
    BY DEF Quiet
  <2>2. OneActive'
    BY DEF SessionInv, OneActive
  <2>3. QueueIsLoaded'
    BY DEF SessionInv, QueueIsLoaded
  <2>4. AloneIsFirst'
    BY <1>3 DEF AloneIsFirst
  <2>5. QED
    BY <2>2, <2>3, <2>4
<1>5. RowsAsLeft'
  BY <1>1 DEF RowsAsLeft, Quiet
<1>6. SavingAsLeft'
  BY <1>2 DEF SavingAsLeft
<1>7. LoadedAsLeft' /\ RestoredAsLeft'
  BY <1>3 DEF LoadedAsLeft, RestoredAsLeft
<1>8. QED
  BY <1>4, <1>5, <1>6, <1>7 DEF SessionInv

LEMMA LoadFromDBStep ==
  ASSUME AccountTypeOK, SessionInv, NEW s \in Sessions, LoadFromDB(s)
  PROVE  SessionInv'
<1> USE DEF SessionInv
<1>1. /\ phase \in [Sessions ->
                      {"none", "loading", "queued", "listed", "saving", "gone"}]
      /\ memory \in [Sessions -> Member]
  BY DEF AccountTypeOK
<1>2. /\ phase[s] = "none" /\ phase' = [phase EXCEPT ![s] = "loading"]
      /\ UNCHANGED <<queue, accounts, ships, pending, left>>
  BY DEF LoadFromDB, rows
<1>3. \A t \in Sessions : t # s => memory'[t] = memory[t] /\ phase'[t] = phase[t]
  BY <1>1, <1>2 DEF LoadFromDB
<1>4. /\ memory'[s].experience = accounts.experience
      /\ memory'[s].level = CalculateLevel(accounts.experience)
      /\ memory'[s].laser = accounts.laser
  <2>1. PICK m \in Member : m = memory[s]
    BY <1>1
  <2>2. PICK l : l = CalculateLevel(accounts.experience)
    OBVIOUS
  <2>3. memory'[s] = [m EXCEPT !.experience = accounts.experience, !.level = l,
                               !.laser = accounts.laser]
    BY <1>1, <2>1, <2>2 DEF LoadFromDB
  <2>4. QED
    BY <2>2, <2>3 DEF Member
<1>5. alone'[s] => \A t \in Sessions : t # s => phase[t] \in {"none", "gone"}
  BY DEF LoadFromDB, Others
<1>6. \A t \in Sessions : t # s /\ alone'[t] => alone[t] /\ phase[t] # "loading"
  BY DEF LoadFromDB
<1>7. Quiet' <=> Quiet
  BY <1>1, <1>2 DEF Quiet
<1>8. OneActive'
  BY <1>1, <1>2 DEF OneActive
<1>9. QueueIsLoaded'
  <2>1. \A i \in DOMAIN queue : queue[i] \in Sessions
    BY LenProperties DEF AccountTypeOK
  <2>2. QED
    BY <1>1, <1>2, <2>1 DEF QueueIsLoaded
<1>10. AloneIsFirst'
  <2>1. ASSUME NEW t \in Sessions, alone'[t], phase'[t] = "loading"
        PROVE  \A u \in Sessions : u # t => phase'[u] \in {"none", "gone"}
    BY <1>3, <1>5, <1>6, <2>1
  <2>2. ASSUME NEW t \in Sessions, alone'[t], phase'[t] = "queued"
        PROVE  queue' # <<>> /\ Head(queue') = t /\ Quiet'
    BY <1>1, <1>2, <1>3, <1>6, <1>7, <2>2 DEF AloneIsFirst
  <2>3. QED
    BY <2>1, <2>2 DEF AloneIsFirst
<1>11. RowsAsLeft'
  BY <1>2, <1>7 DEF RowsAsLeft, ReadAs
<1>12. SavingAsLeft'
  BY <1>1, <1>2, <1>3 DEF SavingAsLeft, ReadAs
<1>13. LoadedAsLeft'
  <2>1. ASSUME NEW t \in Sessions, phase'[t] = "loading", alone'[t], left' # Unknown
        PROVE  /\ memory'[t].experience = left'.experience
               /\ memory'[t].level <= left'.level
               /\ memory'[t].laser = left'.laser
    <3>1. t = s
      BY <1>3, <1>6, <2>1
    <3>2. Quiet
      BY <1>2, <1>5, <2>1, <3>1 DEF Quiet
    <3>3. Recovers(ReadAs(accounts, ships), left)
      BY <1>2, <2>1, <3>2 DEF RowsAsLeft
    <3>4. left \in Member /\ accounts \in AccountRow /\ ships \in ShipRow
      BY <1>2, <2>1 DEF AccountTypeOK
    <3>5. PICK r \in Member : /\ r = ReadAs(accounts, ships)
                              /\ r.experience = accounts.experience
                              /\ r.level = CalculateLevel(accounts.experience)
                              /\ r.laser = accounts.laser
      BY <3>4, ReadAsFacts DEF ShipRow
    <3>6. /\ r.experience = left.experience /\ r.level <= left.level
          /\ r.laser = left.laser
      BY <3>3, <3>4, <3>5, RecoversParts
    <3>7. QED
      BY <1>2, <1>4, <3>1, <3>5, <3>6
  <2>2. QED
    BY <2>1 DEF LoadedAsLeft
<1>14. RestoredAsLeft'
  BY <1>1, <1>2, <1>3, <1>6 DEF RestoredAsLeft
<1>15. QED
  BY <1>8, <1>9, <1>10, <1>11, <1>12, <1>13, <1>14

LEMMA LoadShipFromDBStep ==
  ASSUME AccountTypeOK, SessionInv, NEW s \in Sessions, LoadShipFromDB(s)
  PROVE  SessionInv'
<1> USE DEF SessionInv
<1>1. /\ phase \in [Sessions ->
                      {"none", "loading", "queued", "listed", "saving", "gone"}]
      /\ memory \in [Sessions -> Member]
      /\ queue \in Seq(Sessions)
  BY DEF AccountTypeOK
<1>2. /\ phase[s] = "loading" /\ phase' = [phase EXCEPT ![s] = "queued"]
      /\ queue' = Append(queue, s)
      /\ UNCHANGED <<accounts, ships, pending, left, alone>>
  BY DEF LoadShipFromDB, rows
<1>3. \A t \in Sessions : t # s => memory'[t] = memory[t] /\ phase'[t] = phase[t]
  BY <1>1, <1>2 DEF LoadShipFromDB
<1>4. PICK m \in Member : m = memory[s]
  BY <1>1
<1>5. memory'[s] = [m EXCEPT !.cargo = ships.cargo, !.resources = ships.resources]
  BY <1>1, <1>4 DEF LoadShipFromDB
<1>6. Quiet' <=> Quiet
  BY <1>1, <1>2 DEF Quiet
<1>7. PICK n \in Nat : n = Len(queue)
  BY <1>1, LenProperties
<1>8. /\ DOMAIN queue = 1..n /\ DOMAIN queue' = 1..n + 1
      /\ queue'[n + 1] = s
      /\ \A i \in 1..n : queue'[i] = queue[i] /\ queue[i] \in Sessions
      /\ queue' # <<>>
  <2>1. queue' \in Seq(Sessions) /\ Len(queue') = n + 1
    BY <1>1, <1>2, <1>7, AppendProperties
  <2>2. \A i \in 1..n : queue'[i] = queue[i] /\ queue[i] \in Sessions
    BY <1>1, <1>2, <1>7, AppendProperties, LenProperties
  <2>3. queue'[n + 1] = s
    BY <1>1, <1>2, <1>7, AppendProperties
  <2>4. QED
    BY <1>1, <1>7, <2>1, <2>2, <2>3, LenProperties
<1>9. \A i \in 1..n : queue[i] # s
  BY <1>2, <1>8 DEF QueueIsLoaded
<1>10. OneActive'
  BY <1>1, <1>2 DEF OneActive
<1>11. QueueIsLoaded'
  <2>1. ASSUME NEW i \in 1..n + 1 PROVE phase'[queue'[i]] = "queued"
    <3>1. CASE i \in 1..n
      BY <1>3, <1>8, <1>9, <3>1 DEF QueueIsLoaded
    <3>2. CASE i = n + 1
      BY <1>1, <1>2, <1>8, <3>2
    <3>3. QED
      BY <3>1, <3>2
  <2>2. ASSUME NEW i \in 1..n + 1, NEW j \in 1..n + 1, i # j
        PROVE  queue'[i] # queue'[j]
    <3>1. CASE i \in 1..n /\ j \in 1..n
      BY <1>8, <2>2, <3>1 DEF QueueIsLoaded
    <3>2. CASE i = n + 1
      <4>1. j \in 1..n
        BY <2>2, <3>2
      <4>2. QED
        BY <1>8, <1>9, <3>2, <4>1
    <3>3. CASE j = n + 1
      <4>1. i \in 1..n
        BY <2>2, <3>3
      <4>2. QED
        BY <1>8, <1>9, <3>3, <4>1
    <3>4. QED
      BY <3>1, <3>2, <3>3
  <2>3. QED
    BY <1>8, <2>1, <2>2 DEF QueueIsLoaded
<1>12. ASSUME alone[s]
       PROVE  /\ \A t \in Sessions : t # s => phase[t] \in {"none", "gone"}
              /\ Quiet /\ queue = <<>>
  <2>1. \A t \in Sessions : t # s => phase[t] \in {"none", "gone"}
    BY <1>2, <1>12 DEF AloneIsFirst
  <2>2. Quiet
    BY <1>2, <2>1 DEF Quiet
  <2>3. n = 0
    <3>1. SUFFICES ASSUME 1 \in 1..n PROVE FALSE
      OBVIOUS
    <3>2. queue[1] \in Sessions /\ phase[queue[1]] = "queued"
      BY <1>8, <3>1 DEF QueueIsLoaded
    <3>3. QED
      BY <1>2, <2>1, <3>2
  <2>4. QED
    BY <1>1, <1>7, <2>1, <2>2, <2>3, EmptySeq
<1>13. AloneIsFirst'
  <2>1. ASSUME NEW t \in Sessions, alone[t], phase'[t] = "loading"
        PROVE  \A u \in Sessions : u # t => phase'[u] \in {"none", "gone"}
    <3>1. t # s /\ phase[t] = "loading"
      BY <1>1, <1>2, <2>1
    <3>2. phase[s] \in {"none", "gone"}
      BY <2>1, <3>1 DEF AloneIsFirst
    <3>3. QED
      BY <1>2, <3>2
  <2>2. ASSUME NEW t \in Sessions, alone[t], phase'[t] = "queued"
        PROVE  queue' # <<>> /\ Head(queue') = t /\ Quiet'
    <3>1. CASE t = s
      <4>1. Quiet /\ n = 0
        BY <1>7, <1>12, <2>2, <3>1, EmptySeq
      <4>2. queue'[1] = s /\ Head(queue') = queue'[1]
        BY <1>8, <4>1
      <4>3. QED
        BY <1>6, <1>8, <3>1, <4>1, <4>2
    <3>2. CASE t # s
      <4>1. queue # <<>> /\ Head(queue) = t /\ Quiet
        BY <1>3, <2>2, <3>2 DEF AloneIsFirst
      <4>2. Head(queue') = Head(queue)
        <5>1. 1 \in 1..n
          BY <1>1, <1>7, <4>1, EmptySeq, LenProperties
        <5>2. queue'[1] = queue[1]
          BY <1>8, <5>1
        <5>3. QED
          BY <5>2
      <4>3. QED
        BY <1>6, <1>8, <4>1, <4>2
    <3>3. QED
      BY <3>1, <3>2
  <2>3. QED
    BY <1>2, <2>1, <2>2 DEF AloneIsFirst
<1>14. RowsAsLeft'
  BY <1>2, <1>6 DEF RowsAsLeft, ReadAs
<1>15. SavingAsLeft'
  BY <1>1, <1>2, <1>3 DEF SavingAsLeft, ReadAs
<1>16. LoadedAsLeft'
  BY <1>1, <1>2, <1>3 DEF LoadedAsLeft
<1>17. RestoredAsLeft'
  <2>1. ASSUME alone[s], left # Unknown PROVE Recovers(memory'[s], left)
    <3>1. Recovers(ReadAs(accounts, ships), left)
      BY <1>12, <2>1 DEF RowsAsLeft
    <3>2. left \in Member /\ accounts \in AccountRow /\ ships \in ShipRow
      BY <2>1 DEF AccountTypeOK
    <3>3. ships.cargo \in 0..Word - 1 /\ ships.resources \in Resources
      BY <3>2 DEF ShipRow
    <3>4. ships.cargo = left.cargo /\ ships.resources = left.resources
      BY <3>1, <3>2, <3>3, ReadAsFacts, RecoversParts
    <3>5. /\ m.experience = left.experience /\ m.level <= left.level
          /\ m.laser = left.laser
      BY <1>2, <1>4, <2>1 DEF LoadedAsLeft
    <3>6. PICK new : new = memory'[s]
      OBVIOUS
    <3>7. /\ new \in Member /\ new.experience = m.experience
          /\ new.level = m.level /\ new.laser = m.laser
          /\ new.cargo = ships.cargo /\ new.resources = ships.resources
      BY <1>5, <3>3, <3>6 DEF Member
    <3>8. QED
      BY <3>2, <3>4, <3>5, <3>6, <3>7, RecoversParts
  <2>2. QED
    BY <1>1, <1>2, <1>3, <2>1 DEF RestoredAsLeft
<1>18. QED
  BY <1>10, <1>11, <1>13, <1>14, <1>15, <1>16, <1>17

LEMMA ProcessPlayerStep ==
  ASSUME AccountTypeOK, SessionInv, NEW s \in Sessions, ProcessPlayer(s)
  PROVE  SessionInv'
<1> USE DEF SessionInv
<1>1. /\ phase \in [Sessions ->
                      {"none", "loading", "queued", "listed", "saving", "gone"}]
      /\ queue \in Seq(Sessions)
  BY DEF AccountTypeOK
<1>2. /\ queue # <<>> /\ Head(queue) = s /\ queue' = Tail(queue)
      /\ phase' = [phase EXCEPT ![s] = "listed"]
      /\ UNCHANGED <<memory, accounts, ships, pending, left, alone>>
  BY DEF ProcessPlayer, rows
<1>3. \A t \in Sessions : t # s => phase[t] \notin {"listed", "saving"}
  BY DEF ProcessPlayer, Others
<1>4. PICK n \in Nat : n = Len(queue)
  BY <1>1, LenProperties
<1>5. /\ DOMAIN queue = 1..n /\ 1 \in 1..n /\ queue[1] = s
      /\ DOMAIN queue' = 1..n - 1
      /\ \A i \in 1..n - 1 : queue'[i] = queue[i + 1]
      /\ \A i \in 1..n : queue[i] \in Sessions
  <2>1. queue' \in Seq(Sessions) /\ Len(queue') = n - 1
    BY <1>1, <1>2, <1>4, HeadTailProperties
  <2>2. \A i \in 1..n - 1 : queue'[i] = queue[i + 1]
    BY <1>1, <1>2, <1>4, <2>1, HeadTailProperties, LenProperties
  <2>3. 1 \in 1..n
    BY <1>1, <1>2, <1>4, EmptySeq
  <2>4. queue[1] = s
    BY <1>1, <1>2, HeadTailProperties
  <2>5. QED
    BY <1>1, <1>4, <2>1, <2>2, <2>3, <2>4, LenProperties
<1>6. phase[s] = "queued"
  BY <1>5 DEF QueueIsLoaded
<1>7. ASSUME NEW t \in Sessions, alone[t], t # s
      PROVE  phase[t] \notin {"loading", "queued"}
  <2>1. phase[t] # "loading"
    BY <1>6, <1>7 DEF AloneIsFirst
  <2>2. phase[t] # "queued"
    BY <1>2, <1>7 DEF AloneIsFirst
  <2>3. QED
    BY <2>1, <2>2
<1>8. OneActive'
  BY <1>1, <1>2, <1>3 DEF OneActive
<1>9. QueueIsLoaded'
  <2>1. ASSUME NEW i \in 1..n - 1
        PROVE  i + 1 \in 1..n /\ queue[i + 1] # s /\ phase'[queue'[i]] = "queued"
    <3>1. i + 1 \in 1..n /\ i + 1 # 1
      OBVIOUS
    <3>2. queue[i + 1] # queue[1]
      BY <1>5, <3>1 DEF QueueIsLoaded
    <3>3. phase[queue[i + 1]] = "queued"
      BY <1>5, <3>1 DEF QueueIsLoaded
    <3>4. QED
      BY <1>1, <1>2, <1>5, <3>1, <3>2, <3>3
  <2>2. ASSUME NEW i \in 1..n - 1, NEW j \in 1..n - 1, i # j
        PROVE  queue'[i] # queue'[j]
    <3>1. i + 1 \in 1..n /\ j + 1 \in 1..n /\ i + 1 # j + 1
      BY <2>2
    <3>2. queue[i + 1] # queue[j + 1]
      BY <1>5, <3>1 DEF QueueIsLoaded
    <3>3. QED
      BY <1>5, <3>2
  <2>3. QED
    BY <1>5, <2>1, <2>2 DEF QueueIsLoaded
<1>10. \A t \in Sessions : alone[t] => phase'[t] \notin {"loading", "queued"}
  BY <1>1, <1>2, <1>7
<1>11. AloneIsFirst'
  BY <1>2, <1>10 DEF AloneIsFirst
<1>12. RowsAsLeft'
  <2>1. ~Quiet'
    BY <1>1, <1>2 DEF Quiet
  <2>2. QED
    BY <2>1 DEF RowsAsLeft
<1>13. SavingAsLeft'
  BY <1>1, <1>2, <1>3 DEF SavingAsLeft
<1>14. LoadedAsLeft' /\ RestoredAsLeft'
  BY <1>2, <1>10 DEF LoadedAsLeft, RestoredAsLeft
<1>15. QED
  BY <1>8, <1>9, <1>11, <1>12, <1>13, <1>14

LEMMA DeletePlayerStep ==
  ASSUME AccountTypeOK, SessionInv, LevelsReached, NEW s \in Sessions, DeletePlayer(s)
  PROVE  SessionInv'
<1> USE DEF SessionInv
<1>1. /\ phase \in [Sessions ->
                      {"none", "loading", "queued", "listed", "saving", "gone"}]
      /\ queue \in Seq(Sessions)
  BY DEF AccountTypeOK
<1>2. PICK m \in Member : m = memory[s]
  BY DEF AccountTypeOK
<1>3. /\ phase[s] = "listed" /\ phase' = [phase EXCEPT ![s] = "saving"]
      /\ accounts' = AccountValues(m) /\ left' = Leaves(m)
      /\ UNCHANGED <<queue, memory, ships, pending, alone>>
  BY <1>2 DEF DeletePlayer, Listed
<1>4. ~Quiet /\ ~Quiet'
  BY <1>1, <1>3 DEF Quiet
<1>5. ASSUME NEW t \in Sessions, alone[t]
      PROVE  phase'[t] \notin {"loading", "queued"}
  <2>1. phase[t] # "queued"
    BY <1>4, <1>5 DEF AloneIsFirst
  <2>2. t # s => phase[t] # "loading"
    BY <1>3, <1>5 DEF AloneIsFirst
  <2>3. QED
    BY <1>1, <1>3, <2>1, <2>2
<1>6. OneActive'
  BY <1>1, <1>3 DEF OneActive
<1>7. QueueIsLoaded'
  <2>1. \A i \in DOMAIN queue : queue[i] \in Sessions
    BY <1>1, LenProperties
  <2>2. QED
    BY <1>1, <1>3, <2>1 DEF QueueIsLoaded
<1>8. AloneIsFirst' /\ LoadedAsLeft' /\ RestoredAsLeft'
  BY <1>3, <1>5 DEF AloneIsFirst, LoadedAsLeft, RestoredAsLeft
<1>9. RowsAsLeft'
  BY <1>4 DEF RowsAsLeft
<1>10. SavingAsLeft'
  <2>1. ASSUME NEW t \in Sessions, phase'[t] = "saving" PROVE t = s
    BY <1>1, <1>3, <2>1 DEF OneActive
  <2>2. ASSUME left' # Unknown
        PROVE  pending' = <<>> /\ Recovers(ReadAs(accounts', memory'[s]), left')
    <3>1. pending = <<>> /\ left' = m
      BY <1>3, <2>2 DEF Leaves
    <3>2. m.cargo \in 0..Word - 1 /\ m.resources \in Resources
      BY DEF Member
    <3>3. PICK row \in AccountRow : row = AccountValues(m)
      BY ValuesFacts
    <3>4. row.experience = m.experience /\ row.laser = m.laser
      <4>1. m.laser \in 0..Byte - 1
        BY DEF Member
      <4>2. SetBool(m.laser) = m.laser
        BY <4>1, SetBoolFacts
      <4>3. QED
        BY <3>3, <4>2 DEF AccountValues
    <3>5. PICK r \in Member : /\ r = ReadAs(row, m)
                              /\ r.experience = row.experience
                              /\ r.level = CalculateLevel(row.experience)
                              /\ r.laser = row.laser
                              /\ r.cargo = m.cargo /\ r.resources = m.resources
      BY <3>2, ReadAsFacts
    <3>6. CalculateLevel(m.experience) <= m.level
      BY <1>2, <1>3 DEF LevelsReached, Reached
    <3>7. Recovers(r, m)
      BY <3>4, <3>5, <3>6, RecoversParts
    <3>8. QED
      BY <1>2, <1>3, <3>1, <3>3, <3>5, <3>7
  <2>3. QED
    BY <2>1, <2>2 DEF SavingAsLeft
<1>11. QED
  BY <1>6, <1>7, <1>8, <1>9, <1>10

LEMMA SaveShipToDBStep ==
  ASSUME AccountTypeOK, SessionInv, NEW s \in Sessions, SaveShipToDB(s)
  PROVE  SessionInv'
<1> USE DEF SessionInv
<1>1. /\ phase \in [Sessions ->
                      {"none", "loading", "queued", "listed", "saving", "gone"}]
      /\ memory \in [Sessions -> Member]
      /\ queue \in Seq(Sessions)
  BY DEF AccountTypeOK
<1>2. /\ phase[s] = "saving" /\ phase' = [phase EXCEPT ![s] = "gone"]
      /\ ships' = ShipValues(memory[s])
      /\ UNCHANGED <<queue, accounts, pending, left, alone>>
  BY DEF SaveShipToDB
<1>3. \A t \in Sessions : t # s => memory'[t] = memory[t] /\ phase'[t] = phase[t]
  BY <1>1, <1>2 DEF SaveShipToDB
<1>4. ~Quiet
  BY <1>2 DEF Quiet
<1>5. ASSUME NEW t \in Sessions, alone[t]
      PROVE  phase'[t] \notin {"loading", "queued"}
  <2>1. phase[t] # "queued"
    BY <1>4, <1>5 DEF AloneIsFirst
  <2>2. t # s => phase[t] # "loading"
    BY <1>2, <1>5 DEF AloneIsFirst
  <2>3. QED
    BY <1>1, <1>2, <2>1, <2>2
<1>6. OneActive'
  BY <1>1, <1>2 DEF OneActive
<1>7. QueueIsLoaded'
  <2>1. \A i \in DOMAIN queue : queue[i] \in Sessions
    BY <1>1, LenProperties
  <2>2. QED
    BY <1>1, <1>2, <2>1 DEF QueueIsLoaded
<1>8. AloneIsFirst' /\ LoadedAsLeft' /\ RestoredAsLeft'
  BY <1>2, <1>5 DEF AloneIsFirst, LoadedAsLeft, RestoredAsLeft
<1>9. RowsAsLeft'
  <2>1. ASSUME left # Unknown PROVE pending = <<>> /\ Recovers(ReadAs(accounts, ships'), left)
    <3>1. pending = <<>> /\ Recovers(ReadAs(accounts, memory[s]), left)
      BY <1>2, <2>1 DEF SavingAsLeft
    <3>2. QED
      BY <1>2, <3>1 DEF ReadAs, ShipValues
  <2>2. QED
    BY <1>2, <2>1 DEF RowsAsLeft, ReadAs
<1>10. SavingAsLeft'
  <2>1. \A t \in Sessions : phase'[t] # "saving"
    BY <1>1, <1>2 DEF OneActive
  <2>2. QED
    BY <2>1 DEF SavingAsLeft
<1>11. QED
  BY <1>6, <1>7, <1>8, <1>9, <1>10

LEMMA ExecuteSaveStep ==
  ASSUME AccountTypeOK, SessionInv, ExecuteSave
  PROVE  SessionInv'
<1> USE DEF SessionInv
<1>1. UNCHANGED <<phase, queue, memory, left, alone>>
  BY DEF ExecuteSave
<1>2. pending # <<>>
  BY EmptySeq DEF ExecuteSave
<1>3. OneActive' /\ QueueIsLoaded' /\ AloneIsFirst' /\ LoadedAsLeft' /\ RestoredAsLeft'
  <2>1. Quiet' <=> Quiet
    BY <1>1 DEF Quiet
  <2>2. OneActive'
    BY <1>1 DEF OneActive
  <2>3. QueueIsLoaded'
    BY <1>1 DEF QueueIsLoaded
  <2>4. AloneIsFirst'
    BY <1>1, <2>1 DEF AloneIsFirst
  <2>5. LoadedAsLeft' /\ RestoredAsLeft'
    BY <1>1 DEF LoadedAsLeft, RestoredAsLeft
  <2>6. QED
    BY <2>2, <2>3, <2>4, <2>5
<1>4. RowsAsLeft' /\ SavingAsLeft'
  <2>1. Quiet => left = Unknown
    BY <1>2 DEF RowsAsLeft
  <2>2. \A t \in Sessions : phase[t] = "saving" => left = Unknown
    BY <1>2 DEF SavingAsLeft
  <2>3. RowsAsLeft'
    BY <1>1, <2>1 DEF RowsAsLeft, Quiet
  <2>4. SavingAsLeft'
    BY <1>1, <2>2 DEF SavingAsLeft
  <2>5. QED
    BY <2>3, <2>4
<1>5. QED
  BY <1>3, <1>4

LEMMA CrashStep ==
  ASSUME AccountTypeOK, SessionInv, Crash
  PROVE  SessionInv'
<1>1. \A s \in Sessions : phase'[s] \in {"none", "gone"}
  BY DEF Crash
<1>2. queue' = <<>> /\ left' = Unknown
  BY DEF Crash
<1>3. OneActive' /\ AloneIsFirst'
  BY <1>1 DEF OneActive, AloneIsFirst
<1>4. QueueIsLoaded'
  BY <1>2, EmptySeq DEF QueueIsLoaded
<1>5. RowsAsLeft' /\ SavingAsLeft' /\ LoadedAsLeft' /\ RestoredAsLeft'
  BY <1>2 DEF RowsAsLeft, SavingAsLeft, LoadedAsLeft, RestoredAsLeft
<1>6. QED
  BY <1>3, <1>4, <1>5 DEF SessionInv

\* Only UpdateExperience changes the experience of a player that is loaded, and it
\* raises the level as far.
LEMMA LevelsStep ==
  ASSUME AccountTypeOK, SessionInv, LevelsReached, [AccountNext]_accountVars
  PROVE  LevelsReached'
<1>1. /\ phase \in [Sessions ->
                      {"none", "loading", "queued", "listed", "saving", "gone"}]
      /\ memory \in [Sessions -> Member]
      /\ queue \in Seq(Sessions)
  BY DEF AccountTypeOK
<1>2. SUFFICES ASSUME AccountNext PROVE LevelsReached'
  BY DEF accountVars, LevelsReached
<1>3. ASSUME NEW s \in Sessions, LoadFromDB(s) PROVE LevelsReached'
  <2>1. PICK m \in Member : m = memory[s]
    BY <1>1
  <2>2. PICK l \in DOMAIN Levels : l = CalculateLevel(accounts.experience)
    BY LevelFacts
  <2>3. PICK new : new = [m EXCEPT !.experience = accounts.experience, !.level = l,
                                   !.laser = accounts.laser]
    OBVIOUS
  <2>4. new.experience = accounts.experience /\ new.level = l
    BY <2>3 DEF Member
  <2>5. l \in Nat
    BY LevelsAreNumbers
  <2>6. Reached(new)
    BY <2>2, <2>4, <2>5 DEF Reached
  <2>7. memory' = [memory EXCEPT ![s] = new] /\ phase' = [phase EXCEPT ![s] = "loading"]
    BY <1>3, <2>1, <2>2, <2>3 DEF LoadFromDB
  <2>8. QED
    BY <1>1, <2>6, <2>7 DEF LevelsReached
<1>4. ASSUME NEW s \in Sessions, LoadShipFromDB(s) PROVE LevelsReached'
  <2>1. PICK m \in Member : m = memory[s]
    BY <1>1
  <2>2. PICK new : new = [m EXCEPT !.cargo = ships.cargo, !.resources = ships.resources]
    OBVIOUS
  <2>3. new.experience = m.experience /\ new.level = m.level
    BY <2>2 DEF Member
  <2>4. Reached(new)
    BY <1>4, <2>1, <2>3 DEF LevelsReached, Reached, LoadShipFromDB
  <2>5. memory' = [memory EXCEPT ![s] = new] /\ phase' = [phase EXCEPT ![s] = "queued"]
    BY <1>4, <2>1, <2>2 DEF LoadShipFromDB
  <2>6. QED
    BY <1>1, <2>4, <2>5 DEF LevelsReached
<1>5. ASSUME NEW s \in Sessions, ProcessPlayer(s) PROVE LevelsReached'
  <2>1. 1 \in DOMAIN queue /\ queue[1] = s
    BY <1>1, <1>5, EmptySeq, LenProperties, HeadTailProperties DEF ProcessPlayer
  <2>2. phase[s] = "queued"
    BY <2>1 DEF SessionInv, QueueIsLoaded
  <2>3. QED
    BY <1>1, <1>5, <2>2 DEF ProcessPlayer, LevelsReached
<1>6. ASSUME NEW s \in Sessions, KillMob(s) PROVE LevelsReached'
  <2>1. PICK new : new = UpdateExperience(memory[s])
    OBVIOUS
  <2>2. Reached(new)
    BY <1>1, <2>1, UpdateExperienceFacts
  <2>3. memory' = [memory EXCEPT ![s] = new] /\ UNCHANGED phase
    BY <1>6, <2>1 DEF KillMob
  <2>4. QED
    BY <1>1, <2>2, <2>3 DEF LevelsReached
<1>7. ASSUME NEW s \in Sessions, HandleLootCargo(s) PROVE LevelsReached'
  <2>1. PICK loot : loot = [box |-> box, player |-> memory[s]]
    OBVIOUS
  <2>2. loot \in Loots
    BY <2>1 DEF Loots, AccountTypeOK
  <2>3. PICK r : r = RewardCredit(loot)
    OBVIOUS
  <2>4. phase[s] = "listed"
    BY <1>7 DEF HandleLootCargo, Changes, Listed
  <2>5. Reached(loot.player)
    BY <2>1, <2>4 DEF LevelsReached
  <2>6. Reached(r.player)
    BY <2>2, <2>3, <2>5, RewardCreditFacts
  <2>7. memory' = [memory EXCEPT ![s] = r.player] /\ UNCHANGED phase
    BY <1>7, <2>1, <2>3 DEF HandleLootCargo
  <2>8. QED
    BY <1>1, <2>6, <2>7 DEF LevelsReached
<1>8. ASSUME NEW s \in Sessions, UpdateClientSettings(s) PROVE LevelsReached'
  <2>1. PICK l \in Selections : memory' = [memory EXCEPT ![s].laser = l]
    BY <1>8 DEF UpdateClientSettings
  <2>2. PICK m \in Member : m = memory[s]
    BY <1>1
  <2>3. PICK new : new = [m EXCEPT !.laser = l]
    OBVIOUS
  <2>4. new.experience = m.experience /\ new.level = m.level
    BY <2>3 DEF Member
  <2>5. phase[s] = "listed" /\ UNCHANGED phase
    BY <1>8 DEF UpdateClientSettings, Changes, Listed
  <2>6. Reached(new)
    BY <2>2, <2>4, <2>5 DEF LevelsReached, Reached
  <2>7. memory' = [memory EXCEPT ![s] = new]
    BY <2>1, <2>2, <2>3
  <2>8. QED
    BY <1>1, <2>5, <2>6, <2>7 DEF LevelsReached
<1>9. ASSUME NEW s \in Sessions, SaveToDB(s) \/ DeletePlayer(s) PROVE LevelsReached'
  BY <1>1, <1>9 DEF SaveToDB, DeletePlayer, Listed, LevelsReached
<1>10. ASSUME NEW s \in Sessions, SaveShipToDB(s) PROVE LevelsReached'
  BY <1>1, <1>10 DEF SaveShipToDB, LevelsReached
<1>11. CASE ExecuteSave
  BY <1>11 DEF ExecuteSave, LevelsReached
<1>12. CASE Crash
  <2>1. \A s \in Sessions : phase'[s] \in {"none", "gone"}
    BY <1>12 DEF Crash
  <2>2. QED
    BY <2>1 DEF LevelsReached
<1>13. QED
  BY <1>2, <1>3, <1>4, <1>5, <1>6, <1>7, <1>8, <1>9, <1>10, <1>11, <1>12, Zenon
     DEF AccountNext

LEMMA SessionStep ==
  ASSUME AccountTypeOK, SessionInv, LevelsReached, [AccountNext]_accountVars
  PROVE  SessionInv'
<1>1. CASE \E s \in Sessions : LoadFromDB(s)
  BY <1>1, LoadFromDBStep
<1>2. CASE \E s \in Sessions : LoadShipFromDB(s)
  BY <1>2, LoadShipFromDBStep
<1>3. CASE \E s \in Sessions : ProcessPlayer(s)
  BY <1>3, ProcessPlayerStep
<1>4. CASE \E s \in Sessions : \/ KillMob(s) \/ HandleLootCargo(s)
                               \/ UpdateClientSettings(s) \/ SaveToDB(s)
  <2>1. PICK s \in Sessions : \/ KillMob(s) \/ HandleLootCargo(s)
                              \/ UpdateClientSettings(s) \/ SaveToDB(s)
    BY <1>4
  <2>2. phase[s] = "listed" /\ UNCHANGED <<phase, queue, left, alone>>
    BY <2>1 DEF KillMob, HandleLootCargo, UpdateClientSettings, SaveToDB, Changes, Listed
  <2>3. QED
    BY <2>2, InTheWorld
<1>5. CASE \E s \in Sessions : DeletePlayer(s)
  BY <1>5, DeletePlayerStep
<1>6. CASE \E s \in Sessions : SaveShipToDB(s)
  BY <1>6, SaveShipToDBStep
<1>7. CASE ExecuteSave
  BY <1>7, ExecuteSaveStep
<1>8. CASE Crash
  BY <1>8, CrashStep
<1>9. CASE UNCHANGED accountVars
  BY <1>9 DEF accountVars, rows, SessionInv, OneActive, QueueIsLoaded, AloneIsFirst, Quiet,
              RowsAsLeft, SavingAsLeft, LoadedAsLeft, RestoredAsLeft, ReadAs
<1>10. QED
  BY <1>1, <1>2, <1>3, <1>4, <1>5, <1>6, <1>7, <1>8, <1>9, Zenon DEF AccountNext

\* A session that loads while nobody else is about finds what the last one has left,
\* and a level no higher.
THEOREM RestoredCorrect == AccountSpec => []RestoredAsLeft
<1>1. SessionInv => RestoredAsLeft
  BY DEF SessionInv
<1>2. AccountInit => LevelsReached
  BY DEF AccountInit, LevelsReached
<1>3. QED
  BY <1>1, <1>2, AccountTypeCorrect, SessionInit, SessionStep, LevelsStep, PTL
     DEF AccountSpec

===============================================================================
