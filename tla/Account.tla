-------------------------------- MODULE Account -------------------------------
(***************************************************************************)
(* What an account owns, in memory and in the database (Player::LoadFromDB *)
(* and SaveToDB, Unit::SetResource, BonusBox::RewardCredit).  Each login   *)
(* creates a Player that reads the account's row and then its ship's row,  *)
(* on a network thread; the world thread lists it, rewards it and lets it  *)
(* loot; zone workers queue saves for the database workers; the destructor *)
(* writes both rows itself.  The server may crash at any moment and start  *)
(* again from the rows.                                                    *)
(*                                                                         *)
(* Integers have the width of the code's uint32, which is Word values.     *)
(* Names that Combat has too begin with Account: PlayerProofs extends both *)
(* modules about a player, what happens to it and what it owns.            *)
(***************************************************************************)
EXTENDS Integers, Sequences, SequencesExt, FiniteSetsExt

CONSTANTS
  Sessions,     \* the Player objects that log in with the account
  Kinds,        \* the resources, in the order in which they are looted
  Drops,        \* what the mobs that are killed may carry
  Levels,       \* LevelExperience::All: the experience each level needs
  Reward,       \* Mob::m_Experience
  MaxCargo,     \* m_MaxCargoSpace
  Word,         \* 2^32
  Byte,         \* 2^8
  Selections,   \* the lasers a client can select: ReadUInt8 reads them
  MaxChanges,   \* bound: kills, loots and changes of the settings
  MaxSaves,     \* bound: saves in the queues of the database
  MaxCrashes,   \* bound
  Unknown       \* no claim is made about what the next session finds

Resources == [1..Len(Kinds) -> 0..Word - 1]

ASSUME AccountAssumption ==
  /\ Kinds \in Seq(STRING) /\ Kinds # <<>>
  /\ Word \in Nat \ {0} /\ MaxCargo \in 0..Word - 1 /\ Reward \in 0..Word - 1
  /\ Drops \subseteq Resources
  /\ Levels \in Seq(Nat) /\ Levels # <<>> /\ Levels[1] = 0
  /\ Byte \in Nat /\ {0, 1} \subseteq 0..Byte - 1
  /\ Selections \subseteq 0..Byte - 1
  /\ MaxChanges \in Nat /\ MaxSaves \in Nat /\ MaxCrashes \in Nat

VARIABLES
  phase,     \* where each Player object is in its life
  queue,     \* World::m_PlayerQueue
  memory,    \* its members
  accounts,  \* the row of the account, in accounts and account_settings
  ships,     \* its row in account_ship
  pending,   \* the saves that database workers have yet to execute
  box,       \* the resources of the cargo box that has fallen
  left,      \* history: what the last session to leave had, if the next must find it
  alone,     \* history: nobody else was about while the session loaded
  changes,   \* how many kills, loots and changes of the settings there have been
  crashes    \* how often the server has crashed

rows == <<accounts, ships>>
accountVars == <<phase, queue, memory, rows, pending, box, left, alone, changes, crashes>>

Nothing == [k \in 1..Len(Kinds) |-> 0]

\* uint32 arithmetic.
Plus(a, b) == (a + b) % Word
Minus(a, b) == (a - b) % Word

\* CalculateLevel: the last level whose experience has been reached.
CalculateLevel(experience) ==
  Max({1} \union {l \in DOMAIN Levels : experience >= Levels[l]})

\* The constructor's values.
Blank == [experience |-> 0, level |-> 1, laser |-> 0, cargo |-> 0,
          resources |-> Nothing]

AccountInit ==
  /\ phase = [s \in Sessions |-> "none"]
  /\ queue = <<>>
  /\ memory = [s \in Sessions |-> Blank]
  /\ accounts = [experience |-> 0, laser |-> 1]
  /\ ships = [cargo |-> 0, resources |-> Nothing]
  /\ pending = <<>>
  /\ box = Nothing
  /\ left = [Blank EXCEPT !.laser = 1, !.level = CalculateLevel(0)]
  /\ alone = [s \in Sessions |-> FALSE]
  /\ changes = 0
  /\ crashes = 0

\* The world thread is in the destructor of a player and does nothing else.
WorldIsFree == \A s \in Sessions : phase[s] # "saving"

Listed(s) == phase[s] = "listed" /\ WorldIsFree

\* The listed player is rewarded, loots or changes its settings.
Changes(s) ==
  /\ Listed(s)
  /\ changes < MaxChanges
  /\ changes' = changes + 1

Others(s) == {phase[t] : t \in Sessions \ {s}}

-------------------------------------------------------------------------------
(* The network thread: LoadFromDB *)

\* The first statement, and what is computed from it.
LoadFromDB(s) ==
  /\ phase[s] = "none"
  /\ phase' = [phase EXCEPT ![s] = "loading"]
  /\ memory' = [memory EXCEPT ![s].experience = accounts.experience,
                              ![s].level = CalculateLevel(accounts.experience),
                              ![s].laser = accounts.laser]
  /\ alone' = [t \in Sessions |->
                 IF t = s THEN Others(s) \subseteq {"none", "gone"}
                 ELSE alone[t] /\ phase[t] # "loading"]
  /\ UNCHANGED <<queue, rows, pending, box, left, changes, crashes>>

\* The second statement, after which the player is queued for the world thread.
LoadShipFromDB(s) ==
  /\ phase[s] = "loading"
  /\ phase' = [phase EXCEPT ![s] = "queued"]
  /\ queue' = Append(queue, s)
  /\ memory' = [memory EXCEPT ![s].cargo = ships.cargo,
                              ![s].resources = ships.resources]
  /\ UNCHANGED <<rows, pending, box, left, alone, changes, crashes>>

-------------------------------------------------------------------------------
(* The world thread and the zone workers, one at a time *)

\* ProcessPlayer lists the player once that of its account has been deleted.
ProcessPlayer(s) ==
  /\ queue # <<>> /\ Head(queue) = s
  /\ queue' = Tail(queue)
  /\ Others(s) \intersect {"listed", "saving"} = {}
  /\ phase' = [phase EXCEPT ![s] = "listed"]
  /\ UNCHANGED <<memory, rows, pending, box, left, alone, changes, crashes>>

\* Mutant: the experience is added without its width.
UpdateExperienceWide(m) ==
  LET sum == m.experience + Reward
  IN [m EXCEPT !.experience = sum, !.level = Max({@, CalculateLevel(sum)})]

\* The level is only ever raised.
UpdateExperience(m) ==
  LET sum == Plus(m.experience, Reward)
  IN [m EXCEPT !.experience = sum, !.level = Max({@, CalculateLevel(sum)})]

\* RewardKillCredit, and the box that falls where the mob has died: the player
\* loots the last of them only.
KillMob(s) ==
  /\ Changes(s)
  /\ memory' = [memory EXCEPT ![s] = UpdateExperience(@)]
  /\ box' \in Drops
  /\ UNCHANGED <<phase, queue, rows, pending, left, alone, crashes>>

\* Unit::SetResource, which adds unless it is given zero.
SetResource(resources, k, r) ==
  [resources EXCEPT ![k] = IF r = 0 THEN 0 ELSE Plus(@, r)]

\* Mutant: what the box held is counted, not what was taken.
LootKindCountsAll(loot, k) ==
  LET space == Minus(MaxCargo, loot.player.cargo)
      held == loot.box[k]
      taken == IF held > space THEN held - space ELSE held
  IN IF space = 0 \/ held = 0 THEN loot
     ELSE [box |-> SetResource(loot.box, k, held - taken),
           player |->
             [loot.player EXCEPT !.resources = SetResource(@, k, taken),
                                 !.cargo = Plus(@, held)]]

\* One turn of RewardCredit's loop: what is taken of a resource that does not fit
\* is what does not fit, and the rest is added to the box.
LootKind(loot, k) ==
  LET space == Minus(MaxCargo, loot.player.cargo)
      held == loot.box[k]
      taken == IF held > space THEN held - space ELSE held
  IN IF space = 0 \/ held = 0 THEN loot
     ELSE [box |-> SetResource(loot.box, k, held - taken),
           player |->
             [loot.player EXCEPT !.resources = SetResource(@, k, taken),
                                 !.cargo = Plus(@, taken)]]

\* RewardCredit takes of every kind in turn.
RewardCredit(loot) ==
  LET looted[n \in 0..Len(Kinds)] ==
        IF n = 0 THEN loot ELSE LootKind(looted[n - 1], n)
  IN looted[Len(Kinds)]

\* HandleLootCargo, which turns a full ship away.
HandleLootCargo(s) ==
  /\ Changes(s)
  /\ memory[s].cargo # MaxCargo
  /\ box # Nothing
  /\ LET loot == RewardCredit([box |-> box, player |-> memory[s]])
     IN /\ memory' = [memory EXCEPT ![s] = loot.player]
        /\ box' = loot.box
  /\ UNCHANGED <<phase, queue, rows, pending, left, alone, crashes>>

UpdateClientSettings(s) ==
  /\ Changes(s)
  /\ \E l \in Selections : memory' = [memory EXCEPT ![s].laser = l]
  /\ UNCHANGED <<phase, queue, rows, pending, box, left, alone, crashes>>

\* PreparedStatement::SetBool takes a uint8 and binds it as it is.
SetBool(x) == x % Byte

\* The parameters of the two statements of SaveToDB.
AccountValues(m) == [experience |-> m.experience, laser |-> SetBool(m.laser)]
ShipValues(m) == [cargo |-> m.cargo, resources |-> m.resources]

\* SaveToDB(true), from the player's timer or from a jump.
SaveToDB(s) ==
  /\ Listed(s)
  /\ Len(pending) + 2 <= MaxSaves
  /\ pending' = pending \o <<[table |-> "accounts", row |-> AccountValues(memory[s])],
                             [table |-> "ships", row |-> ShipValues(memory[s])]>>
  /\ UNCHANGED <<phase, queue, memory, rows, box, left, alone, changes, crashes>>

\* What the next session finds, unless a save that is still queued undoes it.
Leaves(m) == IF pending = <<>> THEN m ELSE Unknown

\* ~Player: SaveToDB executes its first statement itself.
DeletePlayer(s) ==
  /\ Listed(s)
  /\ phase' = [phase EXCEPT ![s] = "saving"]
  /\ accounts' = AccountValues(memory[s])
  /\ left' = Leaves(memory[s])
  /\ UNCHANGED <<queue, memory, ships, pending, box, alone, changes, crashes>>

\* Mutant: the ship is handed to a database worker.
SaveShipToDBLater(s) ==
  /\ phase[s] = "saving"
  /\ phase' = [phase EXCEPT ![s] = "gone"]
  /\ pending' = Append(pending, [table |-> "ships", row |-> ShipValues(memory[s])])
  /\ memory' = [memory EXCEPT ![s] = Blank]
  /\ UNCHANGED <<queue, rows, box, left, alone, changes, crashes>>

\* And its second one.
SaveShipToDB(s) ==
  /\ phase[s] = "saving"
  /\ phase' = [phase EXCEPT ![s] = "gone"]
  /\ ships' = ShipValues(memory[s])
  /\ memory' = [memory EXCEPT ![s] = Blank]
  /\ UNCHANGED <<queue, accounts, pending, box, left, alone, changes, crashes>>

-------------------------------------------------------------------------------
\* A database worker executes one of the saves: several workers have a queue
\* each, so it may be any of them.
ExecuteSave ==
  /\ \E i \in DOMAIN pending :
       LET save == pending[i]
       IN /\ pending' = RemoveAt(pending, i)
          /\ accounts' = IF save.table = "accounts" THEN save.row ELSE accounts
          /\ ships' = IF save.table = "ships" THEN save.row ELSE ships
  /\ UNCHANGED <<phase, queue, memory, box, left, alone, changes, crashes>>

\* Everything but the rows is lost.
Crash ==
  /\ crashes < MaxCrashes
  /\ crashes' = crashes + 1
  /\ phase' = [s \in Sessions |-> IF phase[s] = "none" THEN "none" ELSE "gone"]
  /\ queue' = <<>>
  /\ pending' = <<>>
  /\ box' = Nothing
  /\ memory' = [s \in Sessions |-> Blank]
  /\ left' = Unknown
  /\ UNCHANGED <<rows, alone, changes>>

-------------------------------------------------------------------------------
AccountNext ==
  \/ \E s \in Sessions :
       \/ LoadFromDB(s) \/ LoadShipFromDB(s)
       \/ ProcessPlayer(s)
       \/ KillMob(s) \/ HandleLootCargo(s) \/ UpdateClientSettings(s)
       \/ SaveToDB(s)
       \/ DeletePlayer(s) \/ SaveShipToDB(s)
  \/ ExecuteSave
  \/ Crash

AccountSpec == AccountInit /\ [][AccountNext]_accountVars

-------------------------------------------------------------------------------
Member == [experience : 0..Word - 1, level : DOMAIN Levels,
           laser : 0..Byte - 1, cargo : 0..Word - 1, resources : Resources]

AccountRow == [experience : 0..Word - 1, laser : 0..Byte - 1]
ShipRow == [cargo : 0..Word - 1, resources : Resources]
Save == [table : {"accounts"}, row : AccountRow]
        \union [table : {"ships"}, row : ShipRow]

\* Every number stays within the width of its column and of its member.
AccountTypeOK ==
  /\ phase \in [Sessions ->
                  {"none", "loading", "queued", "listed", "saving", "gone"}]
  /\ queue \in Seq(Sessions)
  /\ memory \in [Sessions -> Member]
  /\ accounts \in AccountRow
  /\ ships \in ShipRow
  /\ pending \in Seq(Save)
  /\ box \in Resources
  /\ left \in Member \union {Unknown}
  /\ alone \in [Sessions -> BOOLEAN]
  /\ changes \in 0..MaxChanges
  /\ crashes \in 0..MaxCrashes

Total(resources) ==
  LET upTo[n \in 0..Len(Kinds)] ==
        IF n = 0 THEN 0 ELSE Plus(upTo[n - 1], resources[n])
  IN upTo[Len(Kinds)]

\* The cargo space in use, which is counted beside the resources, is their sum: in
\* every player, in every save that is on its way and in the row of the ship,
\* whatever is looted, whether it fits or wraps around.  A row that held one without
\* the other would make the ship full, or bottomless, for ever.
CargoIsSum ==
  /\ \A s \in Sessions : memory[s].cargo = Total(memory[s].resources)
  /\ ships.cargo = Total(ships.resources)
  /\ \A i \in DOMAIN pending :
       pending[i].table = "ships" =>
         pending[i].row.cargo = Total(pending[i].row.resources)

\* The level is in no row: the new player has that of its experience, which is less
\* than the old one reached if the experience has wrapped around.
Recovers(new, old) ==
  /\ new.level <= old.level
  /\ [new EXCEPT !.level = old.level] = old

\* A player finds what it left: when a session was deleted with none of its saves
\* still queued, and its account logs in after that, the new player starts with
\* the experience, the selected laser, the cargo and the resources of the old one,
\* and with no higher level.
RestoredAsLeft ==
  \A s \in Sessions :
    phase[s] = "queued" /\ alone[s] /\ left # Unknown => Recovers(memory[s], left)

===============================================================================
