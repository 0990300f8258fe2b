# SteerStone: a TLA+ model of the game server

SteerStone is an emulator of a browser game's servers: a *game* server that
moves players, mobs and cargo boxes through 29 maps, a *chat* server and a
*policy* server, on a common engine (network, database, threading). This
directory models the parts of the game server and of its engine where threads,
queues, object lifetimes and saved data meet. TLC checks the models on small
instances, and TLAPS proves for every value of the constants each safety and action
property that the passing runs check, with what safety can say of the liveness
properties.

Paths below are relative to `src/src/`.

## Inventory

| Component | State | Operations | Threads | What makes it correct |
| --- | --- | --- | --- | --- |
| Zone updater (`Game/Map/ZoneUpdater.cpp`, `ZoneProducer.hpp`, `ZoneManager.cpp`) | request queue, counter of pending requests, two mutexes, two condition variables | schedule, wait, pop, call, finished, deactivate | world thread, zone workers | every tick updates every zone once, returns after the last, and no worker runs outside a tick |
| World and player lifecycle (`Game/World/World.cpp`, `Game/Server/Socket.cpp`, `Player.cpp`) | queue of new players, table of players, removal queue, each player's packets and logout state | login, queue and execute packets, logout and its cancellation, removal | world thread, network threads | a player is known until it is deleted, an account has one ship, clients that have gone are removed |
| Maps, grids, jumps (`Game/Map/Map.cpp`, `Grid.cpp`) | the grids' members and states, each player's index, flags and map, jump queues | add, remove, move, jump, idle check, death | world thread, zone workers | a live player is in the grid its index names and is updated |
| Database (`Engine/Database`) | statement pool, operator queues, futures | prepare, enqueue, execute, process | database workers and all others | a statement has one user, every operator is executed, saves are applied in order |
| Task manager (`Engine/Threading`) | tasks of each worker, timings | push, pop, update, rebalance | task workers | every task runs, on one worker at a time, until it is popped |
| Combat (`Unit.cpp`, `Mob.cpp`, `MapHandler.cpp`) | targets, attack states, tags, death states, events, timers | select, attack, shoot, cancel, kill, bury, respawn, chase, leave | world thread, zone workers | a tagged mob fights the player who tagged it, no attack without a target, the dead fight nobody, chases end |
| Boxes, pools, surroundings (`BonusBox.cpp`, `PoolManager.cpp`, `SurroundingObject.cpp`, `BuildObjectData.cpp`) | boxes and their owners, each player's entries, what each client shows | scan, spawn, schedule, despawn, change of colour, loot | world thread, zone workers | what a client shows has an entry, what is in range is shown, a change reaches everybody |
| Player data (`Player.cpp`, `Unit.cpp`, `BonusBox.cpp`) | members, rows of the account and of the ship, saves in flight | load, reward, loot, set, save, delete | network threads, world thread, zone and database workers | the rows agree with each other, and a session finds what the last one left |
| Zone layout (`ZoneManager.cpp`, `LoadMaps`) | maps of each zone | `LoadMaps` | at start | every map is in exactly one zone |
| Network (`Engine/Network/Server`) | write state, two buffers, timer, reads; sockets of each thread | write, flush, complete, read, close, accept | network threads and all others | bytes leave once, in the order they were written; a connection never goes deaf |
| Chat and policy servers | sessions | as above | network threads | as above |
| Templates, inventory, packet formats, logger, configuration | tables | load, format | - | no behaviour of their own |

### How the components interact

The world thread runs `World::Update` in a loop: it lists the players whose
login a network thread has queued, executes the packets network threads have
queued on each player, processes the removal queue, and calls
`Map::Manager::Update`. That schedules one request for each zone and waits
until the zone workers have updated all of them; each zone update walks the
grids of its maps and updates mobs and players, which in turn save players to
the database. So there are four kinds of threads that share state:

* network threads and the world thread share the player queue, each player's
  packet queue, and the `Player` object itself, which is deleted by the world
  thread and referred to by a raw pointer in its socket (`World`);
* the world thread and the zone workers share the maps, with no lock: the
  barrier in `ZoneUpdater` is what keeps them apart (`ZoneUpdater`; `MapGrids`
  takes it for granted);
* zone workers and database workers share statements, operators and promises
  (`Database`), and through the rows what one session leaves to the next
  (`Account`);
* network threads and whoever sends a packet share a socket's buffers under its
  lock, and its being open without one (`Socket`);
* all the workers are tasks of one task manager, whose `OptimizeTask` stops and
  restarts the threads of those of type Normal: the zone workers (`TaskManager`).

What makes them hard is the ordering of these threads (a request finished while
another is being scheduled, a wakeup whose request is gone, an operator deleted
before its future is taken), the lifetimes (raw pointers in four tables to
objects that three places delete), the protocols of clients that log in again
at any moment, and several things that must *eventually* happen: a tick ends, a
ghost is removed, a jump completes, a save is written, a task runs, a packet is
sent, a chase stops. Inside a map one thread runs at a time, and what is hard
there is the number of raw pointers between objects that other handlers move,
kill and delete (`Combat`, `Surroundings`). What survives a crash is two rows for
each player, written by two statements (`Account`). No message is resent by the
program, so lossy channels play no role.

## Modules

| Module | Models | Used by |
| --- | --- | --- |
| `ZoneTick` | the abstract promise of a tick: every zone is started and finished once, between two phases of the world | refined by `ZoneUpdater` |
| `ZoneUpdater` | requests, counter, queue, both condition variables, workers, shutdown | `ZoneUpdaterProofs` |
| `ZoneUpdaterProofs` | the inductive invariants of `ZoneUpdater`, seven theorems and the refinement of `ZoneTick` | - |
| `World` | the life of a `Player` between network threads and world thread | `MCWorld` |
| `WorldProofs` | the inductive invariant of `World` and six theorems | - |
| `MapGrids` | where maps keep players: grids, indices, radiation zone, jumps | `MCMapGrids`, `MapGridsProofs` |
| `MapGridsProofs` | the inductive invariant of `MapGrids` and six theorems | - |
| `Database` | statement pool, saves, operators, futures, database workers | `MCDatabase`, `DatabaseProofs` |
| `DatabaseProofs` | the inductive invariants of `Database`, for the statements and for the order of the saves, and five theorems | - |
| `TaskManager` | the tasks of the inclusive workers and `Optimize` | `TaskManagerProofs` |
| `TaskManagerProofs` | lemmas on the lists and the deal, the inductive invariants of `TaskManager` and five theorems | - |
| `Socket` | one connection: writes, flush timer, partial sends, reads, closing | `SocketProofs` |
| `SocketProofs` | the inductive invariant of `Socket` and five theorems | - |
| `Combat` | attackers, targets, tags and deaths on one map | `PlayerProofs` |
| `Surroundings` | what clients are shown: scans, entries, a cargo box | `MCSurroundings`, `SurroundingsProofs` |
| `SurroundingsProofs` | the inductive invariants of `Surroundings` and four theorems | - |
| `Account` | what an account owns, in memory, in flight and in its rows | `MCAccount`, `PlayerProofs` |
| `PlayerProofs` | the inductive invariants of `Combat` and `Account`, four theorems of the one and three of the other | - |

`MC*` modules hold only the values and symmetries TLC needs; an instance that
needs none is run from the module itself. An operator marked "Mutant" is a
deliberately wrong form of the action below it: substituting it must make a
property fail, which shows that the property depends on that line of the code.

### `ZoneUpdater` and `ZoneTick`

State: `queue` and `shutDown` are `ZoneProducer`'s, `pending` and `cancelled`
are `ZoneUpdater`'s. `mainPc` says where the world thread is, `workerPc` where
each worker is and `task` what `WaitAndPop` gave it.

A step is a critical section. `ScheduleUpdate` counts and pushes (the order of
the two mutexes allows another thread in between, but nothing a thread can see
distinguishes the two halves: a worker that could finish a request needs the
push first). `WaitAndPop` is split at the condition variable: a worker that
finds nothing parks, and `Resume` is what it does after it has been notified,
*without testing again*, as the code has an `if`. A notification wakes a parked
thread and is lost if there is none. `crashed` is set when a worker calls
through the null task this can leave it with. `StartWorker` is the task worker
coming to the task: tasks that share a worker wait for each other.

### `World`

A player is named by the connection that created it, because the code has
several objects for one account at a time. `player` says whether the object
exists, `players` is `m_Players`, `removal` is a set of raw pointers and so may
hold freed ones. `netPc` is where a network thread is: it tests the socket and
uses `m_Player` in two steps, and the world thread may delete the player in
between. One action is one turn of each loop of `World::Update`
(`ProcessPlayer`, `BeginPlayer`, `ExecutePacket`, `ProcessRemoval`). Of the maps
the module keeps two bits: `inMap`, the player is in some grid, and `strayed`, the
index that `Map::Remove` goes by does not lead to that grid, because a move has
carried the player out of bounds. `Delete` takes a player out of its map only if it
has not strayed; one that has stays behind in the radiation grid as a dangling
pointer, which the next update of the zones follows. `undefined` is raised by a use
of a freed player and stops the model, for nothing can be said of what follows.
Contents of packets, loading and statistics are left out.

### `MapGrids`

`strayed` is a history variable, the players that have been out of bounds.
`objects[m][g]` are the members of grid `g`; the radiation grid is the index
that is out of range. `position` is where the player is and `index` where the
map thinks it is: moves, kills and the building of spawn packets bring the
spline up to date, and only a move tells the map: a move that leaves the map
keeps the index of the last cell, so that a player removed while it is out of
bounds stays in the radiation grid, and `HeldByOwnGridOnly` excepts those that
have been there. `Add`, `Removed`, `MoveOutside` and `MoveInside` are
`Map::Add`, `Remove` and the two halves of `Move`. Mobs, boxes and surroundings
are not in it (`Combat`, `Surroundings`). An operation on one player is one
step: the barrier excludes the world thread, and two zone workers inside one
map's containers (possible when a jump leads to a map of another zone) is a
data race the model does not cover.

### `Database`

An operator is named by its statement, which is locked as long as the operator
exists. `PlayerStep` is the thread that updates a player, `WorkerStep` a
database worker. The steps between `Push` and `GetFuture`, and between
`SelectWorker` and `Push`, are separate because other threads run there.
`Execute` gives the result to the future or, if none was taken or it has been
destroyed, destroys it with the promise. Saves are numbered, so that `row` shows
which save is in the database. A failed query ends the process (`LOG_ASSERT`) and
is left out, as are `Start` and the shutdown of the workers at process exit.

### `TaskManager`

Tasks of type Normal and the inclusive workers. `PushTask`, `PopTask` and `Deal`
hold the manager's mutex; `Optimize` lets go of it between `PreSuspend` and
`Deal`, where tasks are pushed and popped. `thread` is where `UpdateThread` is,
`copy` the rest of its copy of the list. Timings are reduced to one bit, whether
a worker's average is high or low, chosen freely; the order in which `Deal` deals
is any order. Tasks in `Endless` do not return, as `ZoneUpdater::WorkerThread`.
Moderate and Critical tasks (network, database, the `OptimizeTask` itself) have a
thread of their own and are not modelled.

### `Socket`

A packet is one unit of the stream, numbered in the order of the calls of
`Write`. `writeState`, `outBuffer` and `secondary` are the members of the same
names; `write` is the one `async_write_some` under way with its completion,
`forced` and `forcedDone` those of `ForceSendAndClose`, `reads`, `readsDone` and
`readsFailed` the reads. `net` is where the network thread is: every handler
tests `IsClosed` without the lock and then takes it, so it is split there
(`FlushOut`/`FlushLocked`, `OnWriteComplete`/`WriteCompleted`,
`OnRead`/`Processed`...), and another thread may write or close in between.
`Write` appends to `m_OutBuffer` in every state, because the second test of the
function overrides the first; the comment in it speaks of the secondary buffer,
which stays empty. An append that moves a buffer which is being sent raises
`undefined` and stops the model: `Capacity` is the size up to which it does not.
`ProcessIncomingData` is left open: it returns any of its four results.

### `Combat`

`target`, `attack` and `tagger` are the pointers `m_Target`, `m_Attacking` with
`m_AttackState`, and `m_PlayerTagger`; `life` is `m_DeathState`, or "deleted" for
a player whose object is gone while others point at it. `place` is the grid that
holds the unit. A step is a handler or one part of a unit's update that has a
timer of its own; their order is left open. Hit points only decide whether a
shot kills, positions whether two units are in range: both are free choices.
`CancelAttack` does nothing for a unit that does not attack, so its target and
tag stay: that is the code's first line, and most of what is subtle here. A
player selects another target without ceasing to attack
(`HandleSelectTarget`), a unit that has been killed is "justDied" until its
own update and can be killed again (`Shoot`), and a mob that dies is buried by its
next update only if a grid still updates it (`Watched`). `UseAfterFree` is the
update of a unit whose target has been deleted.

### `Surroundings`

One map whose grids are updated in order, in one tick: `turn` says which grid it
is at, `toScan` which of its players have yet to scan and `todo` which objects of
its copy of `m_Objects` have yet to be updated. `entry` are the
`SurroundingObject`s, "leaving" those with a despawn scheduled; `client` is what
the client draws, which the code nowhere stores: it is the sum of the packets.
Objects are ships, mobs and one cargo box, which is drawn as reserved for the company
mates of its owner while it is friendly. A mob lives until a player destroys it
(`UpdatePlayerAndKill`: the Kill packet, the box, the end of the attack) and is off
the map, for good, at its own next update (`UpdateMob`); `justDied` is the time in
between. `UpdateEntry` and `Shown` are the two halves of `SurroundingObject::Update`:
what becomes of the entry, and what the client sees of it. The first branch of that
function drops the entry of a unit that is DEAD whatever `Despawn` answers. Who is in range of whom is chosen at each check,
except that a *stayer* stays in range of the box; the properties of what must
be shown are about them.

### `Account`

Several `Player` objects of one account, each a session: loaded by a network
thread from two rows, listed by the world thread, changed, saved by its timer
through the database workers (`pending`) and by its destructor in two
synchronous statements, between which the server may crash. The queue of new
players is first in, first out; pending saves are executed in any order, as there
are several workers. `LootKind` is one turn of `BonusBox::RewardCredit`'s loop with
the arithmetic of the code's unsigned integers (`Word` values): of a resource that
does not fit it takes what does *not* fit. A box is the last one that fell.
Two integers have a width of their own: `Word` values for the members, `Byte` values
for the laser, which the client sends as one byte and `SetBool` binds as one.
`left` is what the last session had when it was deleted, unless one of its own
saves was still queued (`Leaves`); the level is in no row, so a session has the level
of the experience it reads, which is lower than the one reached if the experience has
wrapped around (`Recovers`); `alone` says that a session loaded while no other existed.
The loop over the kinds of cargo and the sum of the resources are recursive
functions (`RewardCredit`, `Total`), which can be reasoned about; the module's
specification is `AccountSpec`, because `PlayerProofs` also extends `Combat`.

## What the runs check

Runs expected to pass:

| Run | Instance | Shows |
| --- | --- | --- |
| `zones_tick` | 3 zones, 3 workers, spurious wakeups, unloading | the counter is exact (`PendingAccounting`), no worker runs while the world thread is outside `Manager::Update` (`WorldPhaseExclusive`), no zone is in two hands (`ZoneHasOneUpdater`), `ZoneUpdater` implements `ZoneTick` (`TickSpec`), every tick ends (`TickCompletes`), every worker leaves after shutdown (`WorkersExit`) |
| `world_players` | 2 connections of one account, 3 packets each, logout of 2 updates | players neither leak nor outlive their deletion in the tables (`RegisteredUntilDeleted`), one ship per account, but for that of a player deleted out of bounds (`OneShipPerAccount`), a removal erases its own entry (`RemovesOwnEntry`), after the removal loop the queue and the flag agree and whoever is not logging out has a fresh timer (`LogoutsSettled`), ghosts are removed (`GoneClientsAreDeleted`), no packet holds up those behind it for ever (`PacketsAreExecuted`) |
| `maps_anywhere` | 2 maps of 2 cells, 1 player, anywhere | a live player is held by a grid that is updated (`AliveIsUpdated`), `GetGrid` is right and the grid array never indexed out of range (`GetGridIsRight`), no grid holds a player that is not its own (`HeldByOwnGridOnly`), jumps start in the player's map and complete (`JumpsFromOwnMap`, `JumpCompletes`) |
| `database_pool` | 2 players, 3 statements, 2 workers, 1 asynchronous save and the final one each, spurious wakeups | a statement has one holder while it is locked and none otherwise (`StatementHasOneHolder`), a future is for the player that holds it (`FutureIsForItsPlayer`) |
| `tasks_deal` | 2 tasks that return, 2 workers, 2 rounds of `Optimize` | no task is lost (`RegisteredIsListed`), popped tasks stop (`PoppedTaskStops`), the others run (`RegisteredTaskRuns`) |
| `socket_stream` | 4 packets, a buffer for 3, 3 chunks of data, with and without `p_ForceSendAndClose` | the assertions in `Socket.cpp` hold and the write state names what is under way (`WritesMatchState`), the peer gets the stream that was written (`StreamInOrder`), until it is closed a read is under way (`ListensUntilClosed`), what is written is sent (`WrittenIsSent`) |
| `combat_fights` | 2 players, 1 of whom travels, jumps and owns the map, and 1 aggressive mob; a cell, the radiation grid and another map | the assertion in `Mob.cpp` holds (`TaggedFightsTagger`), so does that of `CancelAttack` (`AttackersHaveTargets`), a dead mob is in no fight (`DeadMobsAreLeft`), a tagged mob that is out of range of its target lets go of it (`ChaseEnds`) |
| `surroundings_shown` | 2 neighbouring grids, 1 mob, 1 box, a settled company mate of its owner who hunts the mob and a player who comes and goes | no object on a screen loses its entry, but for a dead mob that is selected (`OnlyDeadAreOrphaned`), the change of colour reaches those who stay (`ColourReachesStayers`), a box in range is shown (`BoxIsShown`) |
| `account_sessions` | 3 sessions, 2 resources, integers of 8 values, 3 changes, 2 saves in flight, 1 crash | the widths of the integers are kept (`AccountTypeOK`), the cargo in use is the sum of the resources, in memory, in flight and in the rows (`CargoIsSum`), a session finds what the last one left, with no higher level (`RestoredAsLeft`) |

Runs expected to find a violation, each a disagreement between the code and a
comment in it:

| Run | Finds |
| --- | --- |
| `world_reconnect` | `ProcessPlayer` deletes the old player of an account that logs in again and leaves its pointer in the removal queue; the test meant for this case reads the freed object |
| `database_wakeup` | `WaitAndPop` waits whether or not there is anything in the queue: an operator pushed while the worker is busy stays there until the next push |
| `tasks_zones` | the zone workers are Normal tasks that do not return, all dealt to the same task worker: only the first runs, and `Optimize` never gets past it |

### Other disagreements seen

Some wrong steps of the code are in the models without a run of their own,
either because nothing in the repository claims the contrary or because what they
break is said more simply in words. Most are among the hazards of `PROJECT.json`;
the whole list:

* `WaitAndPop` of the zone updater returns without an object after a spurious
  wakeup, and a worker calls through the null task (`ZoneUpdater`, `crashed`).
* `~ZoneUpdater` joins its workers without having told them to stop.
* `OpCodes::StoreClientPacket` drops the declared thread (`Opcodes.hpp:37`), so
  every handler runs on the world thread (`World`, `Process`); the loop over a
  player's packets (`Player.cpp:1138`) has no bound.
* A player that cannot be loaded is leaked (`Server/Socket.cpp:158`), and network
  threads use players the world thread has deleted (`World`, `undefined`).
* A logout, its cancellation and another logout can reach the removal loop as one: a
  cancellation that another logout overtakes within a batch of packets does not rearm
  the timer (`World.cpp:212`), and the second logout has the rest of the first one's
  time (`World`, `CancelRemoval`; `LogoutsSettled` speaks of cancellations that stand).
* A player out of bounds keeps the index of its last cell (`Map.cpp:331`); one that
  comes back to the same cell keeps its radiation flag (`Map.cpp:375`); one that is
  deleted during its jump delay stays in the jump queue (`Map.cpp:450`); one
  that is deleted out of bounds stays in the radiation grid (`World`, `UpdateZones`); a jump to
  a map of another zone enters that zone's containers (`Map.cpp:472`).
* `GetFuture` may run on an operator that a worker has already executed and
  deleted (`Database.cpp:107`); queued saves overwrite the synchronous ones of the
  destructor (`Player.cpp:335`); once all queues are long worker 0 is always chosen
  (`Database.cpp:125`); a `std::mutex` is unlocked by another thread than the one
  that locked it (`PreparedStatement.cpp:53`).
* A task pushed while `Optimize` is between emptying the lists and dealing is
  listed twice, and runs on from the second list after `PopTask`
  (`ThrTaskManager.cpp:352`).
* After `Skip`, `OnRead` starts two reads into one buffer, and from then on every
  answer starts two more (`Socket.cpp:244`); `Write` may move a buffer that is
  being sent (`Socket.cpp:123`). `NetworkThread::CreateSocket` returns the first
  socket of an unordered set, which need not be the one it has just made.
* A unit is killed and rewarded twice between `JUST_DIED` and its next update
  (`Unit.cpp:178`); targets outlive their players (`Combat`, `UseAfterFree`).
* A player that crosses into a grid that is updated later misses the change of
  colour of a box: it is scanned before the flag is set and after it is cleared
  (`BonusBox.cpp:60`). Entries outlive their objects (`SurroundingObject.cpp:49`).
  A mob that dies while a player out of range of the Kill packet has it selected stays
  on that player's screen: `Despawn` refuses, and the entry is dropped all the same
  (`SurroundingObject.cpp:54`; `OnlyDeadAreOrphaned` excepts it, and without the
  exception TLC finds the trace).
* Of a resource that does not fit, looting takes what does not fit and the box
  keeps the rest and grows; the cargo passes its maximum and the space left wraps
  around (`BonusBox.cpp:97`). A login reads the rows before the old session of
  its account is saved (`Server/Socket.cpp:158`, `World.cpp:183`), and loses what
  that one had gained. Hit points and shield are never saved.

### Bounds

* Three zones and three workers are enough for a worker to be late for its own
  wakeup while two others pop and finish; one more of either adds no new kind of
  step, and the theorems cover the rest.
* `Connections` = 2 of one account gives every overlap of an old and a new
  player; `MaxPackets` = 3 lets a client log out, cancel and log out again.
  `LogoutTicks` = 2 has an update in which the timer runs and has not passed.
* Two cells distinguish "the cell it left" from "another cell"; two maps are
  enough for a jump and a jump back. Freed players stay freed, so one player
  suffices for the sequences of a single player, two for sharing a grid.
* `MaxSaves` = 1 asynchronous save of two tables, and the final one, give up to
  four operators and two synchronous executions over three statements, so that
  the pool does run out.
* Four packets through a buffer for three make one append move the buffer; the
  kernel takes any part of a write. Two chunks are enough for two reads at once,
  the third comes after them. Theorems cover any numbers.
* One mob and two players give every triangle of target, tag and attack; one cell
  suffices because range is left open. Theorems cover any sets.
* Two neighbouring grids: a player in the grid that is updated first, or in the one
  with the mob and the box, which comes second. The order and the number of the grids
  are parameters: the theorems cover any of them, and a box in any grid. Only the
  second player leaves, only the first selects others (`Targeting`) and comes in range
  of mobs and of the box (`Hunters`); mobs keep to the box's grid.
* Four values of a byte are more than a flag has; the client selects three of them.
  Eight values let the cargo, the space left and the experience wrap around after
  three changes; `Reward` and the levels pass two level borders. Three sessions
  are one that leaves, one that overlaps and one that follows; two saves in flight
  are one asynchronous save of both rows.
* `MaxOptimize` = 2 lets tasks move twice. A task is pushed once.
* Deadlock is not checked: clients may stop, players are deleted and never
  return, all operators are executed, and the two flags that stand for undefined
  behaviour stop the model. That threads do not wait for each other for ever is
  what the liveness properties say.

### Fairness

* Zone workers and the world thread are scheduled weakly fairly, as the
  operating system does. Of the workers only *one* has to be started, since
  they may all share one task worker; ticks end even so. Spurious wakeups and
  `Deactivate` never have to happen.
* The world thread loops for ever (`WorldTask` always returns true); nothing is
  assumed of clients and network threads. A client sends finitely many packets
  (`MaxPackets`), without which the loop over them need not end and neither
  liveness property of `World` would hold.
* Each tick updates every map, which processes its jump queue: an entry whose
  delay has passed is processed.
* Each database worker is a Moderate task: it gets an idle exclusive worker or,
  failing that, a thread of its own as a Critical task. Players are updated at
  each tick.
* Every task worker is scheduled, and a task whose period is tested again and
  again is due at last (strong fairness of `UpdateTask`). `Optimize` need not
  start, but once it has begun it goes on whenever it can.
* The timer of a socket expires, the kernel takes or refuses what it is given,
  and the network thread runs every completion (`m_Service.run()` in a loop).
  Neither the program has to write nor the peer to send.
* Combat: ten seconds pass unless the mob shoots again, and a mob in a grid that
  is watched again and again moves (strong fairness: players may come and go).
* Surroundings: a zone's thread runs each tick to its end. Players need do nothing.
* `World_reconnect`, `Database_pool` and `Account` state no fairness: only safety is asked of them.

## What is proved

`ZoneUpdaterProofs` proves, assuming only `ZoneAssumption` (at least one zone, a
finite set of at least one worker), for every such number and set, with and
without spurious wakeups and unloading:

* `TypeCorrect`: `Spec => []TypeOK`; `pending` never goes below zero;
* `AccountingCorrect`: `Spec => []PendingAccounting`;
* `BarrierCorrect`: `Spec => []WorldPhaseExclusive`;
* `OneUpdaterCorrect`: `Spec => []ZoneHasOneUpdater`;
* `Refinement`: `Spec => TickSpec`, `ZoneUpdater` implements `ZoneTick`;
* `OneRunnerNeverCrashes`: without spurious wakeups, `Spec /\ []OnlyRuns(r) =>
  []~crashed`;
* `TickIsWorkedOn`: `Spec => []SomebodyWorks`, the safety half of `TickCompletes`:
  while the world thread sleeps in `Wait`, some worker is awake, if any has been
  started;
* `ShutDownReachesAll`: `Spec => []NobodyStaysParked`, the safety half of
  `WorkersExit`: once the producer is shut down nobody is parked.

None of them is inductive by itself. `WorldPhaseExclusive` needs the counter to
be exact, for `Wait` looks only at it; the counter is exact only if a worker is
in the set `Holding` exactly while it has a request in hand, and
`ZoneHasOneUpdater` only survives `ScheduleUpdate` if every zone in the queue or
in a hand is one that the loop has already passed. So the inductive invariant
`IInv` is the conjunction of `TypeOK`, `PendingAccounting`, `ZoneHasOneUpdater`
and three more facts: `HandsMatchPc` (a worker has a request exactly where its
place in the code says so), `CancelledBetweenTicks` (nobody is shut down in the
middle of a tick) and `IteratorAhead` (scheduled zones are behind the
iterator). One lemma per action shows that it preserves `IInv`; lemmas on
cardinality (a finite set with one element more or less) carry the counting.

The refinement maps the zones that are not yet scheduled, are queued, or are popped
and not yet called, to `todo`, those being updated to `running`, and where the world
thread is to `phase`. A worker that calls the request takes a `StartZone`, one that
returns from it a `FinishZone`; `Wait` returning is an `EndTick`, which it is only
because the counter is exact, so that nothing is in `todo` or `running`. Everything
else (counting, pushing, parking, notifying) is shown to change none of the three.

The `if` in `WaitAndPop` lets a worker call through a null task when another has
taken the request it was woken for, or when nobody woke it. `OneRunnerNeverCrashes`
says that these are the only reasons: while no other worker has been started (they
wait for the same task worker, see the finding of `tasks_zones`), whoever wakes
finds a request or the shutdown.

The last two rest on an invariant of their own, `WakeupInv`. A push notifies one
worker, and a worker that has been notified or is awake comes back to the queue
before it parks; so a queue that is not empty never has all its workers parked
(`NoLostWakeup`), which is inductive as it stands. The world thread parks only on
a counter above zero (`ParksForSomething`), and `PendingAccounting` turns that into
a request that is queued or in the hands of a worker who is awake.

`SocketProofs` proves, assuming only that the bounds are natural numbers:

* `TypeCorrect`: `Spec => []TypeOK`;
* `AssertionsHold`: `Spec => []WritesMatchState`, none of the assertions in
  `Socket.cpp` fails and no two writes of `FlushOut` overlap;
* `StreamReachesThePeer`: `Spec => []StreamInOrder`;
* `ListensCorrect`: `Spec => []ListensUntilClosed`;
* `NothingStaysInTheBuffer`: `Spec => []NothingIsStuck`, the safety half of
  `WrittenIsSent`: while the socket is open and a buffer holds a packet, the timer
  runs, a write of it is under way, or a completion waits to be handled.

`WritesMatchState` is not inductive: that `FlushOut` finds something to send needs
the buffer to be full of something whenever the timer runs, that `OnWriteComplete`
finds a length within the buffer needs every write under way to fit it, and both
need that a program uses either the timer or `ForceSendAndClose` and that a closed
socket has nothing under way. `Control` is the conjunction of these. The stream
needs that the wire, the part of the buffer not yet taken and the secondary
buffer together count up to `written`; the steps that take a part of a buffer
rest on lemmas about `SubSeq` and concatenation. That nothing is stuck is decided in
`WriteCompleted`, which after a partial send has to start the next one, and in
`Write`, which starts the timer only in state `Idle`: both are right because the
state names what is under way, which is `Control` again.

`PlayerProofs` proves of `Combat`, assuming `CombatAssumption` (the sets are disjoint and the
special values differ), for any players, mobs and cells:

* `TypeCorrect`: `Spec => []TypeOK`;
* `TagsHold`: `Spec => []TaggedFightsTagger`;
* `TargetsHold`: `Spec => []AttackersHaveTargets`;
* `TheDeadAreLeft`: `Spec => []DeadMobsAreLeft`.

Here the three support each other, through the early return of `CancelAttack`: it
does nothing for a unit that does not attack, so `Bury` clears the tag of a mob
only because a tagged mob attacks, which is `TaggedFightsTagger`; and a mob that
picks a player to follow keeps `TaggedFightsTagger` only because a unit that
attacks has a target, so that a mob without one has no tag. The inductive
invariant is the conjunction of all four; lemmas say what `CancelAttack` of any
set keeps.

The same module proves of `Account`, assuming `AccountAssumption` (there is a
kind of cargo, the values fit the width of the integers, what the client selects fits
a byte, the first level needs no experience),
for any sessions, kinds, widths, levels and bounds:

* `AccountTypeCorrect`: `AccountSpec => []AccountTypeOK`;
* `CargoCorrect`: `AccountSpec => []CargoIsSum`;
* `RestoredCorrect`: `AccountSpec => []RestoredAsLeft`.

`CargoIsSum` speaks of `uint32` arithmetic: a turn of `RewardCredit`'s loop adds the
same amount, modulo `Word`, to the cargo and to one resource, so the difference
between the cargo and the sum of the resources does not change. That the loop and
the sum as a whole keep it needs the turns up to any kind; each is proved without an
induction theorem, by taking the least kind at which it would fail and looking at
the turn before it. What is saved and loaded are copies.

`RestoredAsLeft` is about two sessions at two times. `SessionInv` ties them
together: at most one player of the account is in the world (`OneActive`), the
queue holds loaded players, each once (`QueueIsLoaded`), whoever loaded alone is
first in the queue and finds nobody in the world (`AloneIsFirst`); with nobody in
the world, nothing is in flight and the rows hold what the last session had
(`RowsAsLeft`), between the destructor's two statements the first row does and the
ship is still in memory (`SavingAsLeft`), and between the loader's two statements half of
the player is there (`LoadedAsLeft`). That the new level is no higher needs
`LevelsReached`: a player that is loaded is never below the level of its experience,
for `UpdateExperience` raises the level as far and nothing else changes either. After a crash `left` is unknown until a session
leaves again.

`WorldProofs` proves, assuming `WorldAssumption` (every connection logs in to one
account, the logout interval is positive), for any connections and accounts:

* `TypeCorrect`: `Spec => []TypeOK`;
* `TablesCorrect`: `Spec => []RegisteredUntilDeleted`;
* `ShipsCorrect`: `Spec => []OneShipPerAccount`;
* `RemovalsCorrect`: `Spec => []RemovesOwnEntry`;
* `LogoutsCorrect`: `Spec => []LogoutsSettled`;
* `NoGhosts`: `Spec => []FlaggedIsQueued`, the safety half of `GoneClientsAreDeleted`:
  a player with `m_LoggingOut` set is in the removal queue until it is deleted.

`RemovePlayer` erases the entry of an account without looking at it, so that the
tables stay right only because of `RemovesOwnEntry`; and that holds only because
`ProcessPlayer` deletes the player it replaces, which is in the tables. Both need
that a connection is queued once (`QueuedOnce`, `LoginOnce`), and that the loops of
`World::Update` run over players that are still listed (`LoopsOverKnown`), for a
player is queued for removal from such a loop. `Registered` says
`RegisteredUntilDeleted` player by player, the form the steps preserve. A freed
entry of the removal queue does not disturb the argument: its use stops the model.

`MapGridsProofs` proves, assuming `MapAssumption` (portals and jumps lead to cells
of maps there are), for any maps, cells and players:

* `TypeCorrect`: `Spec => []TypeOK`;
* `AliveCorrect`: `Spec => []AliveIsUpdated`;
* `GetGridCorrect`: `Spec => []GetGridIsRight`;
* `JumpsCorrect`: `Spec => []JumpsFromOwnMap`, and its converse `JumperIsQueued`:
  whoever has `m_Jumping` set is in the queue of its own map;
* `HeldCorrect`: `Spec => []HeldByOwnGridOnly`.

`Placed(p)` says of one player which grids may hold it: only the one its index
names if it has kept within bounds, and if it is alive the one `Map::Move` will take
it from, by its index or by the radiation flag. It survives a jump only because the
entry and `m_Jumping` come and go together, and `HeldByOwnGridOnly` only because a
flagged player has strayed. `AliveIsUpdated` also needs `OccupiedIsActive`: a grid
that holds somebody is awake. Every operation is about one player, so the proof
has one step for that player and one lemma for all the others.

`DatabaseProofs` proves, assuming `DatabaseAssumption`, for any players,
statements, workers and saves, with and without spurious wakeups:

* `TypeCorrect`: `Spec => []TypeOK`;
* `HolderCorrect`: `Spec => []StatementHasOneHolder`;
* `FutureCorrect`: `Spec => []FutureIsForItsPlayer`;
* `QueuesKeepTheOrder`: `Spec => []SavesAreQueuedInOrder`: of two saves of one row
  that one worker has been given, the first to be executed is the one prepared first;
* `RowsNeverGoBack`: if `NumWorkers = 1`, no step takes a row of a player back to an
  older version, until the destructor saves around the queue (`mode`).

`StatementHasOneHolder` counts holders; the proof replaces the count by the
relation `Holds` and says "exactly one" (`OneHolder`), which each step preserves by
leaving the holders of a statement alone, handing it on, or giving it back. Handing
on to a result is right only because a result is kept for a future that somebody
awaits (`ReadyIsAwaited`), and because a future without a result has an operator
that is still to run (`AwaitedIsLive`). That `SelectWorker` finds a worker, with its
nested minima, is `SelectedIsWorker`.

The order of the saves has an invariant of its own, `Order`. A statement is prepared
with the present version of its player and pushed by the same thread before the
next change (`PreparedNow`), and what waits for a worker is not newer than its
player (`WaitingIsOfPlayer`), so a push adds at the end of a queue what is as new as
anything in it. With one worker the row lags behind everything still queued
(`RowsLagBehind`), so that executing the head moves it forward. One worker is the
documented default of `GameWorkerThreads` (`Game/game.conf.dist.in:38`; the code
that reads it is not in the repository). The hypothesis is needed: with two workers,
and two saves of a player, TLC finds the second executed before the first.

`TaskManagerProofs` proves, assuming `TaskAssumption` (finitely many tasks, at
least one worker), for any tasks and any number of workers:

* `TypeCorrect`: `Spec => []TypeOK`;
* `ListedCorrect`: `Spec => []RegisteredIsListed`;
* `PoppedStaysAway`: `Spec => \A t \in Tasks : [](Gone(t) => [](\A w \in Workers :
  ~Executes(w, t)))`, the safety half of `PoppedTaskStops`: `Gone(t)` is a popped task
  in no list and no copy;
* `WorkersResume`: while `Optimize` does not run, every worker is marked as running
  and its thread is in the loop;
* `ThreadsAreJoined`: `Spec => [][Deal => ...]_vars`, the deal, which starts new
  threads, is taken only when the old thread of every worker has been joined.

Here the difficulty is in the operators. `Optimize` deals the sorted tasks with a
stride: `StrideStays` says that it stays inside the order and `StrideReaches` that
every place is reached by the stride of some worker, both from four facts about
division by any number of workers; `OrderFacts` says that an order holds every
task, because an injection between finite sets of the same size is onto; and
`WithoutFirstFacts` that erasing a task costs the list nothing else. With these,
`RegisteredIsListed` is inductive together with `SuspendsWorker`, which keeps
`Suspend` within the workers. `PoppedStaysAway` holds because the deal takes
registered tasks only. `WorkersResume` and `ThreadsAreJoined` follow from
`StoppedInTurn`, which says for each place of `Optimize` who is stopped and whose
thread is gone.

`SurroundingsProofs` proves, assuming `SurroundingsAssumption`, for any players, mobs
and grids:

* `TypeCorrect`: `Spec => []TypeOK`;
* `ShownCorrect`: `Spec => OnlyDeadAreOrphaned`: no step takes the entry of an object that
  stays on the screen, but for a dead mob that the player has selected;
* `ColourCorrect`: if `Stayers \subseteq Settled`, `Spec => []ColourReachesStayers`;
* `BoxReachesStayers`: `Spec => [][BoxIsNotMissed]_vars`, the safety half of
  `BoxIsShown`: a tick that begins with the box on the map has shown it, when it
  ends, to every stayer on the map, and nobody loses it before it is deleted.

`ColourCorrect` is about the order of a tick. The flag of the change is set in one
update of the box and cleared in the next, and `ColourOnItsWay` says for each
stayer who still sees the old colour that its scan lies between the present moment
and the update that clears the flag: in this tick if its grid comes after the
box's, in the next one if it comes before. A player who changes its cell between
the turns of the two grids can slip past its scan, so the theorem has the hypothesis
that those who stay do not change their cell; the run has it too. The other
conjuncts of `IInv` say that what is left to do belongs to the grid whose turn it
is, that nobody is shown a box that is not there, and that no box on a screen lacks an
entry (`BoxHasEntry`): a box is never dead and cannot be selected. `BoxReachesStayers` needs no
such hypothesis: a player moves between the ticks only, and then a whole tick is
before it. Its own invariant, `EntriesOfBox`, says that an entry of the box on the
map stands for a box on the screen and is never scheduled for despawn: a scan that
makes the entry shows the box, and an update that finds it in range keeps both.

`TypeOK` of `ZoneUpdater`, `World`, `Socket` and `Combat` is proved and not among
the properties of a run, which the proofs make superfluous.

Model-checked only:

* liveness and fairness everywhere (`TickCompletes`, `WorkersExit`,
  `GoneClientsAreDeleted`, `PacketsAreExecuted`, `JumpCompletes`, `PoppedTaskStops`
  as a whole, `RegisteredTaskRuns`, `WrittenIsSent`, `ChaseEnds`, `BoxIsShown`): they need ENABLED, which is
  out of the prover's reach;
* the findings, which are single behaviours.

## Not modelled

* Process exit: destructors of singletons and of the database's workers,
  `~ZoneUpdater` (it joins workers that nobody has told to stop). `s_StopWorld`
  is never set, `UnloadAll` is called by nobody; `Deactivate` is in `ZoneUpdater`
  because it is part of its interface.
* Data races on plain fields read without a lock (`m_IsRunning`, averages, the
  maps during a jump between zones): an operation on them is one step.
* Failed queries and failed allocations, which end the process.
* The listener and the distribution of sockets over network threads; the files of
  `Engine/Network/Client`, which nothing includes.
* `LoadMaps` of the zone layout: a sequential loop over 29 maps.
* Mob pools and bonus boxes that are not cargo: they create and place objects.
* The chat and policy servers: a request is answered by one handler; the way
  they write is in `Socket`.
* Templates, inventory, drones, packet formats, logger, configuration, build
  files: no state of their own beyond tables and text.

These are, in lines, most of the repository: the formats of some hundred packets,
loaders of tables, accessors, the database client's result types and vendored
code. What the modules stand for is the code that decides something.

## Plan

In order of importance; all but the last two are done.

1. `ZoneTick`, `ZoneUpdater` and its proofs: everything else relies on the
   barrier.
2. `World`: the lifetime of players.
3. `MapGrids`: where players are.
4. `Database`: what is saved.
5. `TaskManager`: who runs.
6. `Socket` and its proofs: what is sent.
7. `Combat` and its proofs: who fights whom.
8. `Surroundings`: what is shown.
9. `Account`: what is owned, and survives a crash.
10. `Listener`: `CreateSocket`, `async_accept`, `RemoveSocket` on an unordered set;
    every accepted connection is stored until it is closed.
11. `ZoneLayout`: `LoadMaps` as a function of the number of workers, against
    "every map is in one zone".

Abstract specifications worth stating: `ZoneTick` (done), and a register per
player for `Database`, where one worker executes all its saves in order.

Theorems worth proving next: the safety halves of `PacketsAreExecuted` and `ChaseEnds`,
whose progress depends on filters and timers more than on an invariant; and a
register per player as an abstract specification of `Database` with one worker, for
which `QueuesKeepTheOrder` and `RowsLagBehind` are the steps.
