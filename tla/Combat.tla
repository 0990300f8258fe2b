-------------------------------- MODULE Combat --------------------------------
(***************************************************************************)
(* Who attacks whom on one map (Game/Entity/Unit/Unit.cpp, Mob/Mob.cpp,    *)
(* the attack handlers and the parts of Player, Grid and Map they use).    *)
(* Units point at each other: an attacker has a target, a mob also the     *)
(* player that has tagged it, and each unit's update follows its pointers  *)
(* whatever has become of the other.  One thread updates the zones, and    *)
(* the barrier keeps it apart from the world thread, which runs the        *)
(* handlers; a step is one handler, or one of the parts of a unit's update *)
(* that have a timer of their own, and the order in which units and parts  *)
(* come is left open.                                                      *)
(*                                                                         *)
(* Positions are cells; whether two units are in range of each other, and   *)
(* whether a shot kills, is left open: hit points only decide that.         *)
(***************************************************************************)
CONSTANTS
  Players,
  Mobs,
  Aggressive,  \* the mobs whose m_Behaviour is BEHAVIOUR_AGGESSIVE
  Residents,   \* the players whose company owns the map
  Travellers,  \* bound: the players that come to a portal, a station or the border
  Cells,
  Outside,     \* the radiation grid
  Away,        \* another map
  Nowhere,     \* in no grid of this map
  None         \* nullptr

ASSUME CombatAssumption ==
  /\ Players \intersect Mobs = {}
  /\ Aggressive \subseteq Mobs
  /\ Residents \subseteq Players
  /\ Travellers \subseteq Players
  /\ None \notin Players \union Mobs
  /\ {Outside, Away, Nowhere} \intersect Cells = {}
  /\ Outside # Away /\ Outside # Nowhere /\ Away # Nowhere

Units == Players \union Mobs
Grids == Cells \union {Outside}
Places == Grids \union {Away, Nowhere}

VARIABLES
  life,       \* m_DeathState, and "deleted"
  place,      \* the grid that holds the unit
  target,     \* Unit::m_Target
  attack,     \* m_Attacking and m_AttackState
  recent,     \* IsInCombat() of the mobs: m_LastTimeAttacked is not 10 seconds ago
  tagger,     \* Mob::m_PlayerTagger
  event,      \* Player::m_Event; "portal" stands for portal and station
  jumping,    \* Player::m_Jumping: the player is in a jump queue
  undefined   \* a deleted player has been used

fightVars == <<target, attack, tagger>>
unitVars == <<life, place, recent>>
playerVars == <<event, jumping>>
vars == <<fightVars, unitVars, playerVars, undefined>>

Init ==
  /\ life = [u \in Units |-> "alive"]
  /\ place \in [Units -> Cells]
  /\ target = [u \in Units |-> None]
  /\ attack = [u \in Units |-> "none"]
  /\ recent = [m \in Mobs |-> FALSE]
  /\ tagger = [m \in Mobs |-> None]
  /\ event = [p \in Players |-> "none"]
  /\ jumping = [p \in Players |-> FALSE]
  /\ undefined = FALSE

Deleted(u) == u # None /\ life[u] = "deleted"
Attacking(u) == attack[u] # "none"

-----------------------------------------------------------------------------
(* Unit                                                                    *)

\* Mutant: the target is cleared, the attack goes on.
CancelAttackTargetOnly(S, tgt) ==
  LET stop == {u \in S : Attacking(u)}
  IN /\ target' = [u \in Units |-> IF u \in stop THEN None ELSE tgt[u]]
     /\ tagger' = [m \in Mobs |-> IF m \in stop THEN None ELSE tagger[m]]
     /\ UNCHANGED attack

\* CancelAttack of each unit of S, with the targets tgt: nothing for a unit
\* that does not attack.
CancelAttack(S, tgt) ==
  LET stop == {u \in S : Attacking(u)}
  IN /\ attack' = [u \in Units |-> IF u \in stop THEN "none" ELSE attack[u]]
     /\ target' = [u \in Units |-> IF u \in stop THEN None ELSE tgt[u]]
     /\ tagger' = [m \in Mobs |-> IF m \in stop THEN None ELSE tagger[m]]

\* CancelAttack sends packets about the target.
CancelsDangling(S) == \E u \in S : Attacking(u) /\ Deleted(target[u])

\* CanAttackTarget, for a player: not at a portal or station of the victim's
\* company, unless the victim attacks.
InDemolitionZone(v) == v \in Residents /\ event[v] = "portal" /\ ~Attacking(v)

\* Mutant: a new attacker takes over the tag, but not the mob.
AttackTakesTag(p, v) ==
  /\ target' = [target EXCEPT ![p] = v]
  /\ attack' = [attack EXCEPT ![p] = "in"]
  /\ UNCHANGED recent
  /\ tagger' = IF v \in Mobs THEN [tagger EXCEPT ![v] = p] ELSE tagger

\* Attack, by a player: a mob that nobody has tagged is tagged and turns on p.
Attack(p, v) ==
  LET turns == {m \in Mobs : m = v /\ tagger[m] = None}
  IN /\ target' = [u \in Units |-> IF u = p THEN v
                                   ELSE IF u \in turns THEN p ELSE target[u]]
     /\ attack' = [u \in Units |-> IF u = p \/ u \in turns THEN "in" ELSE attack[u]]
     /\ recent' = [m \in Mobs |-> recent[m] \/ m \in turns]
     /\ tagger' = [m \in Mobs |-> IF m \in turns THEN p ELSE tagger[m]]

\* Kill: the reward and the box are left out (Account).  A dead unit can be killed.
Kill(k, v) ==
  /\ life' = [life EXCEPT ![v] = "justDied"]
  /\ CancelAttack({k}, target)
  /\ UNCHANGED <<place, playerVars>>

\* A unit that is updated attacks.
Engaged(u) ==
  /\ life[u] = "alive" /\ place[u] # Nowhere
  /\ Attacking(u) /\ target[u] # None /\ ~Deleted(target[u])

\* AttackerStateUpdate, in four parts.
TargetIsDead(u) ==
  /\ Engaged(u) /\ life[target[u]] = "dead"
  /\ CancelAttack({u}, target)
  /\ UNCHANGED <<unitVars, playerVars, undefined>>

OutOfRange(u) ==
  /\ Engaged(u) /\ life[target[u]] # "dead"
  /\ attack[u] = "in"
  /\ attack' = [attack EXCEPT ![u] = "out"]
  /\ UNCHANGED <<target, tagger, unitVars, playerVars, undefined>>

InRange(u) ==
  /\ Engaged(u) /\ life[target[u]] # "dead"
  /\ attack[u] = "out"
  /\ attack' = [attack EXCEPT ![u] = "in"]
  /\ UNCHANGED <<target, tagger, unitVars, playerVars, undefined>>

\* A shot kills, or misses or is survived.
Shoot(u) ==
  /\ Engaged(u) /\ life[target[u]] # "dead"
  /\ attack[u] = "in"
  /\ recent' = [m \in Mobs |-> recent[m] \/ m = u]
  /\ Kill(u, target[u]) \/ UNCHANGED <<fightVars, life, place, playerVars>>
  /\ UNCHANGED undefined

AttackerStateUpdate(u) == TargetIsDead(u) \/ OutOfRange(u) \/ InRange(u) \/ Shoot(u)

\* Ten seconds pass.
CombatEnds(m) ==
  /\ recent[m]
  /\ recent' = [recent EXCEPT ![m] = FALSE]
  /\ UNCHANGED <<fightVars, life, place, playerVars, undefined>>

-----------------------------------------------------------------------------
(* Mob                                                                     *)

\* The target of UpdateMovement: the one it has, or a player near by in its
\* grid (FindNearestPlayer) who is not at a portal or station.
Follows(m, p) ==
  \/ target[m] = p
  \/ target[m] = None /\ place[p] = place[m] /\ event[p] # "portal"

\* Mutant: the passing of time is not looked at.
MustLeaveEvent(m, p) ==
  \/ m \in Aggressive /\ jumping[p]
  \/ event[p] = "radiation"
  \/ event[p] = "portal" /\ tagger[m] = None

\* It has to let p go, however near p is.
MustLeave(m, p) ==
  \/ m \in Aggressive /\ jumping[p]
  \/ event[p] = "radiation"
  \/ event[p] = "portal" /\ tagger[m] = None
  \/ tagger[m] # None /\ ~recent[m]

\* A mob that only follows p does not attack it, and keeps it as its target;
\* one that nobody has tagged leaves p if p is too far.
Leave(m, p) ==
  /\ MustLeave(m, p) \/ tagger[m] = None
  /\ CancelAttack({m}, [target EXCEPT ![m] = p])
  /\ UNCHANGED <<place, recent>>

\* Otherwise an aggressive mob attacks p, and the mob moves.
Chase(m, p) ==
  /\ ~MustLeave(m, p)
  /\ target' = [target EXCEPT ![m] = p]
  /\ IF m \in Aggressive /\ ~Attacking(m)
       THEN attack' = [attack EXCEPT ![m] = "in"] /\ recent' = [recent EXCEPT ![m] = TRUE]
       ELSE UNCHANGED <<attack, recent>>
  /\ \E g \in Grids : place' = [place EXCEPT ![m] = g]
  /\ UNCHANGED tagger

UpdateMovement(m) ==
  /\ life[m] = "alive" /\ place[m] # Nowhere
  /\ \E p \in Players :
       /\ Follows(m, p) /\ ~Deleted(p)
       /\ Leave(m, p) \/ Chase(m, p)
  /\ UNCHANGED <<life, playerVars, undefined>>

\* Mutant: a mob that has died stays in the map.
BuryInMap(m) ==
  /\ life[m] = "justDied" /\ place[m] # Nowhere
  /\ ~CancelsDangling({m})
  /\ life' = [life EXCEPT ![m] = "dead"]
  /\ CancelAttack({m}, target)
  /\ UNCHANGED <<place, recent, playerVars, undefined>>

\* Update of a mob that has just died.  RemoveFromMap goes by its index and
\* leaves it in the radiation grid if that is where it has moved to.
Bury(m) ==
  /\ life[m] = "justDied" /\ place[m] # Nowhere
  /\ ~CancelsDangling({m})
  /\ life' = [life EXCEPT ![m] = "dead"]
  /\ CancelAttack({m}, target)
  /\ \/ place' = [place EXCEPT ![m] = Nowhere]
     \/ place[m] = Outside /\ UNCHANGED place
  /\ UNCHANGED <<recent, playerVars, undefined>>

\* Update of a dead mob, which only a grid calls.
Respawn(m) ==
  /\ life[m] = "dead" /\ place[m] # Nowhere
  /\ life' = [life EXCEPT ![m] = "alive"]
  /\ \E g \in Grids : place' = [place EXCEPT ![m] = g]
  /\ UNCHANGED <<fightVars, recent, playerVars, undefined>>

-----------------------------------------------------------------------------
(* Player                                                                  *)

\* Update of a player that has just died: it never becomes DEAD.
LeaveMap(p) ==
  /\ life[p] = "justDied" /\ place[p] # Nowhere
  /\ ~CancelsDangling({p})
  /\ CancelAttack({p}, target)
  /\ place' = IF place[p] = Away THEN place ELSE [place EXCEPT ![p] = Nowhere]
  /\ UNCHANGED <<life, recent, playerVars, undefined>>

\* UpdateSurroundings: SurroundingObject::Despawn of the mob that p has as its
\* target, which has been out of sight for a while, or is dead.
LoseSight(p) ==
  /\ life[p] = "alive" /\ place[p] # Nowhere
  /\ target[p] \in Mobs
  /\ ~CancelsDangling({target[p]})
  /\ CancelAttack({target[p]}, target)
  /\ UNCHANGED <<unitVars, playerVars, undefined>>

\* UpdateInteractiveEvents; on another map the player may also come to the
\* radiation zone.
UpdateInteractiveEvents(p) ==
  /\ p \in Travellers
  /\ ~Deleted(p) /\ place[p] \in Cells \union {Away}
  /\ \E e \in {"none", "portal", "radiation"} :
       /\ e = "radiation" => place[p] = Away
       /\ event' = [event EXCEPT ![p] = e]
  /\ UNCHANGED <<fightVars, unitVars, jumping, undefined>>

\* UpdateRadiationZone.
EnterRadiation(p) ==
  /\ life[p] = "alive" /\ place[p] = Outside /\ event[p] # "radiation"
  /\ event' = [event EXCEPT ![p] = "radiation"]
  /\ UNCHANGED <<fightVars, unitVars, jumping, undefined>>

LeaveRadiation(p) ==
  /\ life[p] = "alive" /\ place[p] \in Cells /\ event[p] = "radiation"
  /\ event' = [event EXCEPT ![p] = "none"]
  /\ UNCHANGED <<fightVars, unitVars, jumping, undefined>>

\* DealDamage(this, ...): a player that dies there has killed itself.
Radiate(p) ==
  /\ life[p] = "alive" /\ place[p] = Outside /\ event[p] = "radiation"
  /\ ~CancelsDangling({p})
  /\ Kill(p, p)
  /\ UNCHANGED <<recent, undefined>>

-----------------------------------------------------------------------------
(* Handlers: the player may be dead.  FindObject looks in the cells.       *)

Online(p) == ~Deleted(p) /\ place[p] # Away

Found(p, v) == p # v /\ place[v] \in Cells

HandleObjectMove(p) ==
  /\ Online(p)
  /\ \E g \in Grids :
       /\ g = Outside => p \in Travellers
       /\ place' = [place EXCEPT ![p] = g]
  /\ UNCHANGED <<fightVars, life, recent, playerVars, undefined>>

\* Whatever p attacks, and whether it may attack v or not.
HandleSelectTarget(p, v) ==
  /\ Online(p) /\ Found(p, v)
  /\ target' = [target EXCEPT ![p] = v]
  /\ UNCHANGED <<attack, tagger, unitVars, playerVars, undefined>>

HandleLaserShoot(p, v) ==
  /\ Online(p) /\ Found(p, v)
  /\ v \in Players => ~InDemolitionZone(v)
  /\ life[v] # "dead"
  /\ Attack(p, v)
  /\ UNCHANGED <<life, place, playerVars, undefined>>

HandleAbortLaser(p) ==
  /\ ~Deleted(p) /\ Attacking(p)
  /\ ~CancelsDangling({p})
  /\ CancelAttack({p}, target)
  /\ UNCHANGED <<unitVars, playerVars, undefined>>

HandlePortalJump(p) ==
  /\ p \in Travellers
  /\ ~Deleted(p) /\ place[p] \in Cells \union {Away}
  /\ jumping' = [jumping EXCEPT ![p] = TRUE]
  /\ UNCHANGED <<fightVars, unitVars, event, undefined>>

\* ProcessJumpQueue, of this map or of the other one.
ProcessJump(p) ==
  /\ jumping[p] /\ ~Deleted(p) /\ ~Deleted(target[p])
  /\ LET both == {p, target[p]} \ {None}
     IN ~CancelsDangling(both) /\ CancelAttack(both, target)
  /\ \E g \in IF place[p] = Away THEN Cells ELSE {Away} :
       place' = [place EXCEPT ![p] = g]
  /\ jumping' = [jumping EXCEPT ![p] = FALSE]
  /\ UNCHANGED <<life, recent, event, undefined>>

\* ~Player: nobody who points at p is told.  What p held is gone.
Delete(p) ==
  /\ ~Deleted(p)
  /\ life' = [life EXCEPT ![p] = "deleted"]
  /\ place' = [place EXCEPT ![p] = Nowhere]
  /\ target' = [target EXCEPT ![p] = None]
  /\ attack' = [attack EXCEPT ![p] = "none"]
  /\ event' = [event EXCEPT ![p] = "none"]
  /\ jumping' = [jumping EXCEPT ![p] = FALSE]
  /\ UNCHANGED <<tagger, recent, undefined>>

\* A unit whose target has been deleted is updated, or its handler runs.
UseAfterFree(u) ==
  /\ ~Deleted(u) /\ Deleted(target[u])
  /\ u \in Mobs => place[u] # Nowhere /\ (life[u] = "alive" \/ Attacking(u))
  /\ u \in Players => Attacking(u) \/ jumping[u]
  /\ undefined' = TRUE
  /\ UNCHANGED <<fightVars, unitVars, playerVars>>

-----------------------------------------------------------------------------
MobUpdate(m) == UpdateMovement(m) \/ AttackerStateUpdate(m) \/ Bury(m) \/ Respawn(m)

PlayerUpdate(p) ==
  \/ AttackerStateUpdate(p) \/ LeaveMap(p) \/ LoseSight(p)
  \/ UpdateInteractiveEvents(p) \/ EnterRadiation(p) \/ LeaveRadiation(p) \/ Radiate(p)

Handler(p) ==
  \/ HandleObjectMove(p) \/ HandleAbortLaser(p) \/ HandlePortalJump(p)
  \/ \E v \in Units : HandleSelectTarget(p, v) \/ HandleLaserShoot(p, v)
  \/ ProcessJump(p) \/ Delete(p)

Next ==
  /\ ~undefined
  /\ \/ \E m \in Mobs : MobUpdate(m) \/ CombatEnds(m)
     \/ \E p \in Players : PlayerUpdate(p) \/ Handler(p)
     \/ \E u \in Units : UseAfterFree(u)

\* A grid is updated as long as there are players in it, the radiation grid
\* always.
Watched(m) == place[m] = Outside \/ \E p \in Players : place[p] = place[m]

\* Timers expire, and a mob that is watched is updated.
Fairness ==
  \A m \in Mobs :
    /\ WF_vars(~undefined /\ attack[m] # "in" /\ CombatEnds(m))
    /\ SF_vars(~undefined /\ Watched(m) /\ (UpdateMovement(m) \/ UseAfterFree(m)))

Spec == Init /\ [][Next]_vars
FairSpec == Spec /\ Fairness

-----------------------------------------------------------------------------
TypeOK ==
  /\ life \in [Units -> {"alive", "justDied", "dead", "deleted"}]
  /\ \A p \in Players : life[p] # "dead"
  /\ \A m \in Mobs : life[m] # "deleted"
  /\ place \in [Units -> Places]
  /\ target \in [Units -> Units \union {None}]
  /\ \A m \in Mobs : target[m] \in Players \union {None}
  /\ attack \in [Units -> {"none", "in", "out"}]
  /\ recent \in [Mobs -> BOOLEAN]
  /\ tagger \in [Mobs -> Players \union {None}]
  /\ event \in [Players -> {"none", "portal", "radiation"}]
  /\ jumping \in [Players -> BOOLEAN]
  /\ undefined \in BOOLEAN

\* The assertions of UpdateMovement (Mob.cpp:160, 261): a mob that a player has
\* tagged attacks that player and no other, whoever else attacks the mob, jumps
\* away, dies or loses sight of it.
TaggedFightsTagger ==
  \A m \in Mobs : tagger[m] # None => Attacking(m) /\ target[m] = tagger[m]

\* The assertion of CancelAttack (Unit.cpp:306): a unit that attacks has a
\* target, and keeps it until it stops.
AttackersHaveTargets ==
  \A u \in Units : Attacking(u) => target[u] # None

\* "It's easier if we just remove mob from map, so we don't need to do extra
\* checks whether object is dead" (Mob.cpp:76): nothing finds a dead mob in a
\* cell, and it is rid of its fight, though players may attack it between its
\* death and its burial, and its target may jump or lose sight of it then.
DeadMobsAreLeft ==
  \A m \in Mobs : life[m] = "dead" =>
    /\ place[m] \notin Cells
    /\ ~Attacking(m) /\ tagger[m] = None

\* A mob does not chase the player that has tagged it for ever: if it stays
\* alive, watched and out of range of its target it lets go, and others can tag
\* it.
ChaseEnds ==
  \A m \in Mobs :
    ~<>[](/\ ~undefined
          /\ life[m] = "alive" /\ Watched(m)
          /\ tagger[m] # None /\ attack[m] = "out")
=============================================================================
