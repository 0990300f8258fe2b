----------------------------- MODULE ZoneUpdater ------------------------------
(***************************************************************************)
(* The zone updater (Game/Map/ZoneUpdater.cpp, ZoneProducer.hpp and        *)
(* Manager::Update in ZoneManager.cpp): once per tick the world thread     *)
(* queues one request per zone and waits until the worker threads have     *)
(* finished them all.  A step is what one thread does while it holds one   *)
(* of the two mutexes (ZoneUpdater::m_Lock, ZoneProducer::m_Lock), or its  *)
(* private work between two of them.                                       *)
(***************************************************************************)
EXTENDS Integers, Sequences, FiniteSets

CONSTANTS
  NumZones,         \* zones created by Manager::LoadMaps, keys 0 .. NumZones - 1
  Workers,          \* the threads that execute ZoneUpdater::WorkerThread
  SpuriousWakeups,  \* whether condition_variable::wait may return unnotified
  Unloads           \* whether the world thread may call Manager::UnloadAll

ASSUME ZoneAssumption ==
  /\ NumZones \in Nat \ {0}
  /\ IsFiniteSet(Workers) /\ Workers # {}
  /\ SpuriousWakeups \in BOOLEAN
  /\ Unloads \in BOOLEAN

Zones == 0 .. NumZones - 1

\* The nullptr a worker's l_ZoneUpdaterTask starts as.
NoTask == -1

VARIABLES
  queue,      \* ZoneProducer::m_Queue: the zone of each queued request
  shutDown,   \* ZoneProducer::m_ShutDown
  pending,    \* ZoneUpdater::m_PendingRequests
  cancelled,  \* ZoneUpdater::m_CancelationToken
  mainPc,     \* where the world thread is
  nextZone,   \* the world thread's iterator over m_Zones in Manager::Update
  workerPc,   \* where each worker is
  task,       \* each worker's l_ZoneUpdaterTask
  crashed     \* a worker has called through a null l_ZoneUpdaterTask

vars == <<queue, shutDown, pending, cancelled, mainPc, nextZone,
          workerPc, task, crashed>>

MainPcs ==
  {"world",      \* outside the zone manager
   "schedule",   \* in the loop of Manager::Update
   "wait",       \* in Wait, about to test m_PendingRequests
   "blocked",    \* in Wait, parked on ZoneUpdater::m_Condition
   "unload",     \* in Deactivate, before m_UpdaterTask.ShutDown
   "unloaded"}   \* Deactivate has returned

WorkerPcs ==
  {"unstarted",  \* a task whose TaskWorker has not come to it yet
   "idle",       \* about to enter WaitAndPop
   "parked",     \* in WaitAndPop, parked on ZoneProducer::m_Condition
   "woken",      \* in WaitAndPop, wakened and waiting for the mutex
   "popped",     \* WaitAndPop has returned
   "updating",   \* in ZoneUpdateRequest::Call
   "exited"}     \* WorkerThread has returned false

Parked == {w \in Workers : workerPc[w] = "parked"}

Init ==
  /\ queue = <<>>
  /\ shutDown = FALSE
  /\ pending = 0
  /\ cancelled = FALSE
  /\ mainPc = "world"
  /\ nextZone = 0
  /\ workerPc = [w \in Workers |-> "unstarted"]
  /\ task = [w \in Workers |-> NoTask]
  /\ crashed = FALSE

-------------------------------------------------------------------------------
(* The world thread *)

\* Manager::Update once its interval timer has passed.
BeginTick ==
  /\ mainPc = "world"
  /\ mainPc' = "schedule"
  /\ nextZone' = 0
  /\ UNCHANGED <<queue, shutDown, pending, cancelled, workerPc, task, crashed>>

\* notify_one on ZoneProducer::m_Condition: one parked worker, if there is one.
NotifyOne ==
  IF Parked = {}
  THEN UNCHANGED workerPc
  ELSE \E w \in Parked : workerPc' = [workerPc EXCEPT ![w] = "woken"]

\* notify_all on the same condition.
NotifyAll ==
  workerPc' = [w \in Workers |->
                 IF w \in Parked THEN "woken" ELSE workerPc[w]]

\* Mutant: ScheduleUpdate pushes the request and does not count it.
ScheduleUpdateUncounted ==
  /\ mainPc = "schedule"
  /\ nextZone < NumZones
  /\ queue' = Append(queue, nextZone)
  /\ NotifyOne
  /\ nextZone' = nextZone + 1
  /\ UNCHANGED <<shutDown, pending, cancelled, mainPc, task, crashed>>

\* ScheduleUpdate of the next zone: count the request and push it.
ScheduleUpdate ==
  /\ mainPc = "schedule"
  /\ nextZone < NumZones
  /\ pending' = pending + 1
  /\ queue' = Append(queue, nextZone)
  /\ NotifyOne
  /\ nextZone' = nextZone + 1
  /\ UNCHANGED <<shutDown, cancelled, mainPc, task, crashed>>

\* Mutant: the loop of Manager::Update may leave out the last zone.
EndScheduleEarly ==
  /\ mainPc = "schedule"
  /\ nextZone >= NumZones - 1
  /\ mainPc' = "wait"
  /\ UNCHANGED <<queue, shutDown, pending, cancelled, nextZone, workerPc,
                 task, crashed>>

\* The loop of Manager::Update is over: call Wait.
EndSchedule ==
  /\ mainPc = "schedule"
  /\ nextZone = NumZones
  /\ mainPc' = "wait"
  /\ UNCHANGED <<queue, shutDown, pending, cancelled, nextZone, workerPc,
                 task, crashed>>

\* Mutant: Wait waits for an empty queue, not for the requests to be finished.
WaitForQueue ==
  /\ mainPc = "wait"
  /\ mainPc' = IF queue # <<>> THEN "blocked"
               ELSE IF cancelled THEN "unload" ELSE "world"
  /\ UNCHANGED <<queue, shutDown, pending, cancelled, nextZone, workerPc,
                 task, crashed>>

\* Wait holds m_Lock: it parks while requests are pending and else returns, to
\* World::Update or, once cancelled, to Deactivate.
Wait ==
  /\ mainPc = "wait"
  /\ mainPc' = IF pending > 0 THEN "blocked"
               ELSE IF cancelled THEN "unload" ELSE "world"
  /\ UNCHANGED <<queue, shutDown, pending, cancelled, nextZone, workerPc,
                 task, crashed>>

\* Manager::UnloadAll calls Deactivate, which cancels and then calls Wait.
Deactivate ==
  /\ Unloads
  /\ mainPc = "world"
  /\ cancelled' = TRUE
  /\ mainPc' = "wait"
  /\ UNCHANGED <<queue, shutDown, pending, nextZone, workerPc, task, crashed>>

\* Mutant: ShutDown wakes nobody.
ShutDownSilently ==
  /\ mainPc = "unload"
  /\ queue' = <<>>
  /\ shutDown' = TRUE
  /\ mainPc' = "unloaded"
  /\ UNCHANGED <<pending, cancelled, nextZone, workerPc, task, crashed>>

\* m_UpdaterTask.ShutDown: delete what is queued, set the flag, wake everyone.
ShutDown ==
  /\ mainPc = "unload"
  /\ queue' = <<>>
  /\ shutDown' = TRUE
  /\ NotifyAll
  /\ mainPc' = "unloaded"
  /\ UNCHANGED <<pending, cancelled, nextZone, task, crashed>>

-------------------------------------------------------------------------------
(* A worker *)

Goto(w, pc) == workerPc' = [workerPc EXCEPT ![w] = pc]

\* The TaskWorker comes to the task of w and calls WorkerThread.  Tasks that were
\* pushed to the same TaskWorker wait for each other, for ever if they have to.
StartWorker(w) ==
  /\ workerPc[w] = "unstarted"
  /\ Goto(w, "idle")
  /\ UNCHANGED <<queue, shutDown, pending, cancelled, mainPc, nextZone, task,
                 crashed>>

\* Mutant: the front is read and not removed.
TakeFrontWithoutPop(w) ==
  /\ Goto(w, "popped")
  /\ UNCHANGED queue
  /\ task' = IF queue = <<>> \/ shutDown THEN task
             ELSE [task EXCEPT ![w] = Head(queue)]

\* The end of WaitAndPop: what it leaves in the caller's l_ZoneUpdaterTask.
TakeFront(w) ==
  /\ Goto(w, "popped")
  /\ IF queue = <<>> \/ shutDown
     THEN UNCHANGED <<queue, task>>
     ELSE /\ task' = [task EXCEPT ![w] = Head(queue)]
          /\ queue' = Tail(queue)

\* WaitAndPop: park once if there is nothing to pop, else take the front.
WaitAndPop(w) ==
  /\ workerPc[w] = "idle"
  /\ IF queue = <<>> /\ ~shutDown
     THEN Goto(w, "parked") /\ UNCHANGED <<queue, task>>
     ELSE TakeFront(w)
  /\ UNCHANGED <<shutDown, pending, cancelled, mainPc, nextZone, crashed>>

\* The rest of WaitAndPop when wait has returned: an if, not a while.
Resume(w) ==
  /\ workerPc[w] = "woken"
  /\ TakeFront(w)
  /\ UNCHANGED <<shutDown, pending, cancelled, mainPc, nextZone, crashed>>

\* WorkerThread after WaitAndPop: leave when cancelled, else call the task.
Dispatch(w) ==
  /\ workerPc[w] = "popped"
  /\ IF cancelled
     THEN Goto(w, "exited") /\ UNCHANGED crashed
     ELSE IF task[w] = NoTask
          THEN crashed' = TRUE /\ UNCHANGED workerPc
          ELSE Goto(w, "updating") /\ UNCHANGED crashed
  /\ UNCHANGED <<queue, shutDown, pending, cancelled, mainPc, nextZone, task>>

\* Mutant: Finished does not notify the world thread.
FinishedSilently(w) ==
  /\ workerPc[w] = "updating"
  /\ pending' = pending - 1
  /\ task' = [task EXCEPT ![w] = NoTask]
  /\ Goto(w, "idle")
  /\ UNCHANGED <<queue, shutDown, cancelled, mainPc, nextZone, crashed>>

\* Call has updated the zone's maps: count the request as finished, wake the
\* world thread, delete the task and go round the loop.
Finished(w) ==
  /\ workerPc[w] = "updating"
  /\ pending' = pending - 1
  /\ mainPc' = IF mainPc = "blocked" THEN "wait" ELSE mainPc
  /\ task' = [task EXCEPT ![w] = NoTask]
  /\ Goto(w, "idle")
  /\ UNCHANGED <<queue, shutDown, cancelled, nextZone, crashed>>

-------------------------------------------------------------------------------
(* The C++ library: a wait may return although nobody notified. *)

SpuriousWorkerWakeup(w) ==
  /\ SpuriousWakeups
  /\ workerPc[w] = "parked"
  /\ Goto(w, "woken")
  /\ UNCHANGED <<queue, shutDown, pending, cancelled, mainPc, nextZone, task,
                 crashed>>

SpuriousMainWakeup ==
  /\ SpuriousWakeups
  /\ mainPc = "blocked"
  /\ mainPc' = "wait"
  /\ UNCHANGED <<queue, shutDown, pending, cancelled, nextZone, workerPc, task,
                 crashed>>

-------------------------------------------------------------------------------
MainStep ==
  \/ BeginTick
  \/ ScheduleUpdate
  \/ EndSchedule
  \/ Wait
  \/ Deactivate
  \/ ShutDown

WorkerStep(w) ==
  \/ WaitAndPop(w)
  \/ Resume(w)
  \/ Dispatch(w)
  \/ Finished(w)

\* A null call ends the process: nothing happens after it.
Next ==
  /\ ~crashed
  /\ \/ MainStep
     \/ \E w \in Workers :
          StartWorker(w) \/ WorkerStep(w) \/ SpuriousWorkerWakeup(w)
     \/ SpuriousMainWakeup

Spec == Init /\ [][Next]_vars

NoneRuns == \A w \in Workers : workerPc[w] \in {"unstarted", "exited"}

\* The operating system schedules every thread that can run, but of the workers
\* only one has to be started: the others may all wait for the same TaskWorker.
\* Deactivate is a choice of the caller and a spurious wakeup never has to
\* happen.
Fairness ==
  /\ WF_vars(~crashed /\ (ScheduleUpdate \/ EndSchedule \/ Wait \/ ShutDown))
  /\ \A w \in Workers : WF_vars(~crashed /\ WorkerStep(w))
  /\ WF_vars(~crashed /\ NoneRuns /\ \E w \in Workers : StartWorker(w))

FairSpec == Spec /\ Fairness

-------------------------------------------------------------------------------
TypeOK ==
  /\ queue \in Seq(Zones)
  /\ shutDown \in BOOLEAN
  /\ pending \in Nat
  /\ cancelled \in BOOLEAN
  /\ mainPc \in MainPcs
  /\ nextZone \in 0 .. NumZones
  /\ workerPc \in [Workers -> WorkerPcs]
  /\ task \in [Workers -> Zones \union {NoTask}]
  /\ crashed \in BOOLEAN

\* The workers that hold a request, from its pop to the end of Call.
Holding == {w \in Workers : task[w] # NoTask}

Updating == {w \in Workers : workerPc[w] = "updating"}

\* m_PendingRequests counts exactly the requests that are queued or in the
\* hands of a worker: it is incremented before the push, under m_Lock, and
\* decremented under m_Lock by another thread, while the queue itself changes
\* under a different mutex.  If the two ever part, Wait returns early or never.
PendingAccounting == pending = Len(queue) + Cardinality(Holding)

\* The barrier World::Update relies on: while the world thread is outside
\* Manager::Update (it adds, removes and deletes players there, touching the
\* maps without a lock) no request is queued and no worker holds one.
WorldPhaseExclusive ==
  mainPc \in {"world", "unload", "unloaded"} => queue = <<>> /\ Holding = {}

\* No zone is in the hands of two workers, or of one worker and the queue at
\* once: Map::Update has no lock of its own, so each zone's maps have at most
\* one updater at any moment.
ZoneHasOneUpdater ==
  /\ \A v, w \in Holding : task[v] = task[w] => v = w
  /\ \A i, j \in DOMAIN queue : queue[i] = queue[j] => i = j
  /\ \A w \in Holding, i \in DOMAIN queue : task[w] # queue[i]

-------------------------------------------------------------------------------
(* A tick of this module is a tick of ZoneTick. *)

InTick == mainPc \in {"schedule", "blocked"} \/ (mainPc = "wait" /\ ~cancelled)

Queued == {queue[i] : i \in DOMAIN queue}

Unstarted ==
  Queued
    \union {task[w] : w \in {v \in Holding : workerPc[v] = "popped"}}
    \union (IF mainPc = "schedule" THEN nextZone .. NumZones - 1 ELSE {})

Tick == INSTANCE ZoneTick WITH
  phase <- IF InTick THEN "zones" ELSE "world",
  todo <- Unstarted,
  running <- {task[w] : w \in Updating}

\* Every tick updates every zone exactly once and Manager::Update returns only
\* after the last one: no request is lost, duplicated or carried into the next
\* tick, whatever the order in which the workers pop and finish.
TickSpec == Tick!Spec

\* Manager::Update always returns, unless the process has crashed: no request
\* stays in the queue with every worker parked, and the last Finished always
\* finds the world thread either parked or about to test the counter.
TickCompletes == mainPc = "schedule" ~> (mainPc = "world" \/ crashed)

\* After Deactivate every worker that runs leaves WorkerThread: none stays parked
\* on the condition of a producer that nobody will notify again.
WorkersExit ==
  mainPc = "unload" ~>
    (crashed \/ NoneRuns)

===============================================================================
