-------------------------- MODULE ZoneUpdaterProofs ---------------------------
(***************************************************************************)
(* The zone updater's handshake, for every number of zones and workers.    *)
(* The inductive invariant adds to the properties what the code relies on  *)
(* silently: which program points hold a request, that cancellation only   *)
(* happens between ticks, and that the loop of Manager::Update has not yet *)
(* handed out the zones in front of its iterator.                          *)
(***************************************************************************)
EXTENDS ZoneUpdater, FiniteSetTheorems, SequenceTheorems, TLAPS

\* A request is in a worker's hands exactly between its pop and its deletion.
HandsMatchPc ==
  \A w \in Workers :
    /\ workerPc[w] = "updating" => task[w] # NoTask
    /\ workerPc[w] \in {"unstarted", "idle", "parked", "woken"} => task[w] = NoTask

\* The updater is cancelled and shut down by the world thread, between ticks.
CancelledBetweenTicks ==
  /\ mainPc \in {"unload", "unloaded"} => cancelled
  /\ mainPc \in {"schedule", "blocked", "world"} => ~cancelled
  /\ shutDown => mainPc = "unloaded"
  /\ cancelled \/ mainPc = "world" => pending = 0

\* The zones from the iterator on have not been queued in this tick.
IteratorAhead ==
  mainPc = "schedule" =>
    /\ \A i \in DOMAIN queue : queue[i] < nextZone
    /\ \A w \in Holding : task[w] < nextZone

IInv ==
  /\ TypeOK
  /\ PendingAccounting
  /\ HandsMatchPc
  /\ CancelledBetweenTicks
  /\ IteratorAhead
  /\ ZoneHasOneUpdater

-------------------------------------------------------------------------------
(* How the operations change what is counted *)

\* A pop moves one request from the queue to a worker: the sum does not change.
LEMMA PopKeepsCount ==
  ASSUME TypeOK, NEW w \in Workers, task[w] = NoTask, queue # <<>>,
         queue' = Tail(queue), task' = [task EXCEPT ![w] = Head(queue)]
  PROVE  Len(queue') + Cardinality(Holding') = Len(queue) + Cardinality(Holding)
<1>1. IsFiniteSet(Holding)
  BY ZoneAssumption, FS_Subset DEF Holding
<1>2. Head(queue) \in Zones /\ Len(Tail(queue)) = Len(queue) - 1
  BY HeadTailProperties DEF TypeOK
<1>3. Head(queue) # NoTask
  BY <1>2, ZoneAssumption DEF Zones, NoTask
<1>4. Holding' = Holding \union {w} /\ w \notin Holding
  BY <1>3 DEF Holding, TypeOK
<1>5. Cardinality(Holding') = Cardinality(Holding) + 1
  BY <1>1, <1>4, FS_AddElement
<1>6. Cardinality(Holding) \in Nat /\ Len(queue) \in Nat
  BY <1>1, FS_CardinalityType DEF TypeOK
<1>7. QED
  BY <1>2, <1>5, <1>6

\* Deleting a worker's request takes one from the number held.
LEMMA DeleteLowersCount ==
  ASSUME TypeOK, NEW w \in Workers, task[w] # NoTask,
         task' = [task EXCEPT ![w] = NoTask]
  PROVE  /\ Cardinality(Holding) \in Nat \ {0}
         /\ Cardinality(Holding') = Cardinality(Holding) - 1
<1>1. IsFiniteSet(Holding) /\ w \in Holding
  BY ZoneAssumption, FS_Subset DEF Holding
<1>2. Holding' = Holding \ {w}
  BY DEF Holding, TypeOK
<1>3. Cardinality(Holding') = Cardinality(Holding) - 1
  BY <1>1, <1>2, FS_RemoveElement
<1>4. Cardinality(Holding) \in Nat /\ Cardinality(Holding) # 0
  BY <1>1, FS_CardinalityType, FS_EmptySet
<1>5. QED
  BY <1>3, <1>4

\* When nothing is pending nothing is queued and nobody holds a request.
LEMMA NothingPending ==
  ASSUME TypeOK, PendingAccounting, pending = 0
  PROVE  queue = <<>> /\ Holding = {}
<1>1. IsFiniteSet(Holding)
  BY ZoneAssumption, FS_Subset DEF Holding
<1>2. Cardinality(Holding) \in Nat /\ Len(queue) \in Nat
  BY <1>1, FS_CardinalityType DEF TypeOK
<1>3. Cardinality(Holding) = 0 /\ Len(queue) = 0
  BY <1>2 DEF PendingAccounting
<1>4. QED
  BY <1>1, <1>3, FS_EmptySet, EmptySeq DEF TypeOK

-------------------------------------------------------------------------------
(* Type correctness *)

LEMMA TakeFrontType ==
  ASSUME TypeOK, NEW w \in Workers, TakeFront(w)
  PROVE  /\ queue' \in Seq(Zones)
         /\ workerPc' \in [Workers -> WorkerPcs]
         /\ task' \in [Workers -> Zones \union {NoTask}]
<1>1. workerPc' \in [Workers -> WorkerPcs]
  BY DEF TakeFront, Goto, TypeOK, WorkerPcs
<1>2. CASE queue = <<>> \/ shutDown
  BY <1>1, <1>2 DEF TakeFront, TypeOK
<1>3. CASE ~(queue = <<>> \/ shutDown)
  <2>1. Head(queue) \in Zones /\ Tail(queue) \in Seq(Zones)
    BY <1>3, HeadTailProperties DEF TypeOK
  <2>2. task' = [task EXCEPT ![w] = Head(queue)] /\ queue' = Tail(queue)
    BY <1>3 DEF TakeFront
  <2>3. QED
    BY <1>1, <2>1, <2>2 DEF TypeOK
<1>4. QED
  BY <1>2, <1>3

LEMMA NotifyType ==
  ASSUME TypeOK, NotifyOne \/ NotifyAll
  PROVE  workerPc' \in [Workers -> WorkerPcs]
BY DEF TypeOK, NotifyOne, NotifyAll, Parked, WorkerPcs

LEMMA TypeStep ==
  ASSUME TypeOK, PendingAccounting, HandsMatchPc, [Next]_vars
  PROVE  TypeOK'
<1> USE ZoneAssumption
<1>1. CASE BeginTick
  BY <1>1 DEF BeginTick, TypeOK, MainPcs
<1>2. CASE ScheduleUpdate
  <2>1. workerPc' \in [Workers -> WorkerPcs]
    BY <1>2, NotifyType DEF ScheduleUpdate
  <2>2. nextZone \in Zones /\ nextZone' \in 0 .. NumZones
    BY <1>2 DEF ScheduleUpdate, TypeOK, Zones
  <2>3. queue' \in Seq(Zones)
    BY <1>2, <2>2 DEF ScheduleUpdate, TypeOK
  <2>4. QED
    BY <1>2, <2>1, <2>2, <2>3 DEF ScheduleUpdate, TypeOK
<1>3. CASE EndSchedule
  BY <1>3 DEF EndSchedule, TypeOK, MainPcs
<1>4. CASE Wait
  BY <1>4 DEF Wait, TypeOK, MainPcs
<1>5. CASE Deactivate
  BY <1>5 DEF Deactivate, TypeOK, MainPcs
<1>6. CASE ShutDown
  BY <1>6, NotifyType DEF ShutDown, TypeOK, MainPcs
<1>7. ASSUME NEW w \in Workers, WaitAndPop(w)
      PROVE  TypeOK'
  <2>1. CASE queue = <<>> /\ ~shutDown
    BY <1>7, <2>1 DEF WaitAndPop, Goto, TypeOK, WorkerPcs
  <2>2. CASE ~(queue = <<>> /\ ~shutDown)
    BY <1>7, <2>2, TakeFrontType DEF WaitAndPop, TypeOK
  <2>3. QED
    BY <2>1, <2>2
<1>8. ASSUME NEW w \in Workers, Resume(w)
      PROVE  TypeOK'
  BY <1>8, TakeFrontType DEF Resume, TypeOK
<1>9. ASSUME NEW w \in Workers, Dispatch(w)
      PROVE  TypeOK'
  BY <1>9 DEF Dispatch, Goto, TypeOK, WorkerPcs
<1>10. ASSUME NEW w \in Workers, Finished(w)
       PROVE  TypeOK'
  <2>1. task[w] # NoTask /\ task' = [task EXCEPT ![w] = NoTask]
    BY <1>10 DEF Finished, HandsMatchPc
  <2>2. Cardinality(Holding) \in Nat \ {0}
    BY <2>1, DeleteLowersCount
  <2>3. pending - 1 \in Nat
    BY <2>2 DEF PendingAccounting, TypeOK
  <2>4. QED
    BY <1>10, <2>3 DEF Finished, Goto, TypeOK, WorkerPcs, MainPcs
<1>11. ASSUME NEW w \in Workers, SpuriousWorkerWakeup(w) \/ StartWorker(w)
       PROVE  TypeOK'
  BY <1>11 DEF SpuriousWorkerWakeup, StartWorker, Goto, TypeOK, WorkerPcs
<1>12. CASE SpuriousMainWakeup
  BY <1>12 DEF SpuriousMainWakeup, TypeOK, MainPcs
<1>13. CASE UNCHANGED vars
  BY <1>13 DEF vars, TypeOK
<1>14. QED
  BY <1>1, <1>2, <1>3, <1>4, <1>5, <1>6, <1>7, <1>8, <1>9, <1>10, <1>11,
     <1>12, <1>13 DEF Next, MainStep, WorkerStep

-------------------------------------------------------------------------------
(* Accounting: the counter, the program points and cancellation *)

LEMMA AccountingStep ==
  ASSUME TypeOK, PendingAccounting, HandsMatchPc, CancelledBetweenTicks,
         [Next]_vars
  PROVE  PendingAccounting'
<1> USE ZoneAssumption
<1>a. IsFiniteSet(Holding)
  BY FS_Subset DEF Holding
<1>b. Cardinality(Holding) \in Nat /\ Len(queue) \in Nat
  BY <1>a, FS_CardinalityType DEF TypeOK
<1>c. ASSUME UNCHANGED task
      PROVE  Holding' = Holding
  BY <1>c DEF Holding
<1>1. ASSUME UNCHANGED <<queue, task, pending>>
      PROVE  PendingAccounting'
  BY <1>1, <1>c DEF PendingAccounting
<1>2. CASE ScheduleUpdate
  <2>1. Len(queue') = Len(queue) + 1 /\ pending' = pending + 1
    BY <1>2 DEF ScheduleUpdate, TypeOK
  <2>2. Holding' = Holding
    BY <1>2, <1>c DEF ScheduleUpdate
  <2>3. QED
    BY <2>1, <2>2, <1>b DEF PendingAccounting
<1>3. CASE ShutDown
  <2>1. pending = 0 /\ pending' = 0
    BY <1>3 DEF ShutDown, CancelledBetweenTicks
  <2>2. Holding' = {} /\ Len(queue') = 0
    BY <1>3, <1>c, <2>1, NothingPending DEF ShutDown
  <2>3. QED
    BY <2>1, <2>2, FS_EmptySet DEF PendingAccounting
<1>4. ASSUME NEW w \in Workers, TakeFront(w), task[w] = NoTask, UNCHANGED pending
      PROVE  PendingAccounting'
  <2>1. CASE queue = <<>> \/ shutDown
    BY <1>1, <1>4, <2>1 DEF TakeFront
  <2>2. CASE ~(queue = <<>> \/ shutDown)
    BY <1>4, <2>2, PopKeepsCount DEF TakeFront, PendingAccounting
  <2>3. QED
    BY <2>1, <2>2
<1>5. ASSUME NEW w \in Workers, WaitAndPop(w)
      PROVE  PendingAccounting'
  <2>1. task[w] = NoTask
    BY <1>5 DEF WaitAndPop, HandsMatchPc
  <2>2. CASE queue = <<>> /\ ~shutDown
    BY <1>1, <1>5, <2>2 DEF WaitAndPop
  <2>3. CASE ~(queue = <<>> /\ ~shutDown)
    BY <1>4, <1>5, <2>1, <2>3 DEF WaitAndPop
  <2>4. QED
    BY <2>2, <2>3
<1>6. ASSUME NEW w \in Workers, Resume(w)
      PROVE  PendingAccounting'
  BY <1>4, <1>6 DEF Resume, HandsMatchPc
<1>7. ASSUME NEW w \in Workers, Finished(w)
      PROVE  PendingAccounting'
  <2>1. task[w] # NoTask /\ task' = [task EXCEPT ![w] = NoTask]
    BY <1>7 DEF Finished, HandsMatchPc
  <2>2. Cardinality(Holding') = Cardinality(Holding) - 1
    BY <2>1, DeleteLowersCount
  <2>3. pending' = pending - 1 /\ queue' = queue
    BY <1>7 DEF Finished
  <2>4. QED
    BY <2>2, <2>3, <1>b DEF PendingAccounting
<1>8. CASE BeginTick \/ EndSchedule \/ Wait \/ Deactivate \/ SpuriousMainWakeup
  BY <1>1, <1>8
  DEF BeginTick, EndSchedule, Wait, Deactivate, SpuriousMainWakeup
<1>9. ASSUME NEW w \in Workers,
             Dispatch(w) \/ SpuriousWorkerWakeup(w) \/ StartWorker(w)
      PROVE  PendingAccounting'
  BY <1>1, <1>9 DEF Dispatch, SpuriousWorkerWakeup, StartWorker
<1>10. CASE UNCHANGED vars
  BY <1>1, <1>10 DEF vars
<1>11. QED
  BY <1>2, <1>3, <1>5, <1>6, <1>7, <1>8, <1>9, <1>10
  DEF Next, MainStep, WorkerStep

LEMMA HandsStep ==
  ASSUME TypeOK, HandsMatchPc, [Next]_vars
  PROVE  HandsMatchPc'
<1> USE DEF HandsMatchPc
<1>1. ASSUME UNCHANGED <<workerPc, task>>
      PROVE  HandsMatchPc'
  BY <1>1
<1>2. CASE ScheduleUpdate \/ ShutDown
  BY <1>2 DEF ScheduleUpdate, ShutDown, NotifyOne, NotifyAll, Parked, TypeOK
<1>3. ASSUME NEW w \in Workers, WaitAndPop(w)
      PROVE  HandsMatchPc'
  BY <1>3 DEF WaitAndPop, TakeFront, Goto, TypeOK
<1>4. ASSUME NEW w \in Workers, Resume(w)
      PROVE  HandsMatchPc'
  BY <1>4 DEF Resume, TakeFront, Goto, TypeOK
<1>5. ASSUME NEW w \in Workers, Dispatch(w)
      PROVE  HandsMatchPc'
  BY <1>5 DEF Dispatch, Goto, TypeOK
<1>6. ASSUME NEW w \in Workers, Finished(w)
      PROVE  HandsMatchPc'
  BY <1>6 DEF Finished, Goto, TypeOK
<1>7. ASSUME NEW w \in Workers, SpuriousWorkerWakeup(w) \/ StartWorker(w)
      PROVE  HandsMatchPc'
  BY <1>7 DEF SpuriousWorkerWakeup, StartWorker, Goto, TypeOK
<1>8. CASE BeginTick \/ EndSchedule \/ Wait \/ Deactivate \/ SpuriousMainWakeup
  BY <1>1, <1>8
  DEF BeginTick, EndSchedule, Wait, Deactivate, SpuriousMainWakeup
<1>9. CASE UNCHANGED vars
  BY <1>1, <1>9 DEF vars
<1>10. QED
  BY <1>2, <1>3, <1>4, <1>5, <1>6, <1>7, <1>8, <1>9
  DEF Next, MainStep, WorkerStep

LEMMA CancelStep ==
  ASSUME TypeOK, PendingAccounting, HandsMatchPc, CancelledBetweenTicks,
         [Next]_vars
  PROVE  CancelledBetweenTicks'
<1> USE DEF CancelledBetweenTicks
<1>1. CASE BeginTick
  BY <1>1 DEF BeginTick
<1>2. CASE ScheduleUpdate
  BY <1>2 DEF ScheduleUpdate
<1>3. CASE EndSchedule
  BY <1>3 DEF EndSchedule
<1>4. CASE Wait
  BY <1>4 DEF Wait, TypeOK
<1>5. CASE Deactivate
  BY <1>5 DEF Deactivate
<1>6. CASE ShutDown
  BY <1>6 DEF ShutDown
<1>7. ASSUME NEW w \in Workers, WaitAndPop(w) \/ Resume(w) \/ Dispatch(w)
                                \/ SpuriousWorkerWakeup(w) \/ StartWorker(w)
      PROVE  CancelledBetweenTicks'
  BY <1>7 DEF WaitAndPop, Resume, Dispatch, SpuriousWorkerWakeup, StartWorker
<1>8. ASSUME NEW w \in Workers, Finished(w)
      PROVE  CancelledBetweenTicks'
  <2>1. w \in Holding
    BY <1>8 DEF Finished, HandsMatchPc, Holding
  <2>2. pending # 0
    BY <2>1, NothingPending
  <2>3. ~cancelled /\ mainPc # "world"
    BY <2>2
  <2>4. QED
    BY <1>8, <2>3 DEF Finished, TypeOK, MainPcs
<1>9. CASE SpuriousMainWakeup
  BY <1>9 DEF SpuriousMainWakeup
<1>10. CASE UNCHANGED vars
  BY <1>10 DEF vars
<1>11. QED
  BY <1>1, <1>2, <1>3, <1>4, <1>5, <1>6, <1>7, <1>8, <1>9, <1>10
  DEF Next, MainStep, WorkerStep

-------------------------------------------------------------------------------
(* One updater per zone *)

\* The zones queued and held are pairwise distinct and behind the iterator.
ZonesApart == IteratorAhead /\ ZoneHasOneUpdater

LEMMA QueueFacts ==
  ASSUME TypeOK
  PROVE  /\ DOMAIN queue = 1 .. Len(queue)
         /\ Len(queue) \in Nat
         /\ \A i \in DOMAIN queue : queue[i] \in Zones /\ queue[i] # NoTask
BY ZoneAssumption, LenProperties, ElementOfSeq DEF TypeOK, Zones, NoTask

LEMMA HoldingFacts ==
  ASSUME TypeOK, NEW w \in Holding
  PROVE  w \in Workers /\ task[w] \in Zones
BY DEF TypeOK, Holding

LEMMA PopKeepsApart ==
  ASSUME TypeOK, ZonesApart, NEW w \in Workers, task[w] = NoTask, queue # <<>>,
         queue' = Tail(queue), task' = [task EXCEPT ![w] = Head(queue)],
         UNCHANGED <<mainPc, nextZone>>
  PROVE  ZonesApart'
<1>1. DOMAIN queue = 1 .. Len(queue) /\ Len(queue) \in Nat \ {0}
  BY QueueFacts, EmptySeq DEF TypeOK
<1>2. /\ DOMAIN queue' = 1 .. Len(queue) - 1
      /\ \A i \in DOMAIN queue' : i + 1 \in DOMAIN queue /\ queue'[i] = queue[i + 1]
  <2>1. Tail(queue) \in Seq(Zones) /\ Len(Tail(queue)) = Len(queue) - 1
    BY HeadTailProperties DEF TypeOK
  <2>2. DOMAIN queue' = 1 .. Len(queue) - 1
    BY <2>1, LenProperties
  <2>3. \A i \in 1 .. Len(Tail(queue)) : Tail(queue)[i] = queue[i + 1]
    BY HeadTailProperties DEF TypeOK
  <2>4. QED
    BY <1>1, <2>1, <2>2, <2>3
<1>3. Head(queue) = queue[1] /\ 1 \in DOMAIN queue
  BY <1>1 DEF TypeOK
<1>4. queue[1] # NoTask
  BY <1>3, QueueFacts
<1>5. Holding' = Holding \union {w} /\ task'[w] = queue[1] /\ w \notin Holding
  BY <1>3, <1>4 DEF Holding, TypeOK
<1>6. \A v \in Holding : task'[v] = task[v]
  BY <1>5 DEF TypeOK, Holding
<1>7. IteratorAhead'
  BY <1>2, <1>3, <1>5, <1>6 DEF ZonesApart, IteratorAhead
<1>8. ZoneHasOneUpdater'
  <2>1. \A u, v \in Holding' : task'[u] = task'[v] => u = v
    BY <1>3, <1>5, <1>6 DEF ZonesApart, ZoneHasOneUpdater
  <2>2. \A i, j \in DOMAIN queue' : queue'[i] = queue'[j] => i = j
    <3>1. \A i, j \in DOMAIN queue' : queue'[i] = queue'[j] => i + 1 = j + 1
      BY <1>2 DEF ZonesApart, ZoneHasOneUpdater
    <3>2. QED
      BY <1>1, <1>2, <3>1
  <2>3. \A v \in Holding', i \in DOMAIN queue' : task'[v] # queue'[i]
    <3>1. \A i \in DOMAIN queue' : i + 1 # 1
      BY <1>1, <1>2
    <3>2. \A i \in DOMAIN queue' : queue'[i] # queue[1]
      BY <1>2, <1>3, <3>1 DEF ZonesApart, ZoneHasOneUpdater
    <3>3. QED
      BY <1>2, <1>5, <1>6, <3>2 DEF ZonesApart, ZoneHasOneUpdater
  <2>4. QED
    BY <2>1, <2>2, <2>3 DEF ZoneHasOneUpdater
<1>9. QED
  BY <1>7, <1>8 DEF ZonesApart

LEMMA ScheduleKeepsApart ==
  ASSUME TypeOK, ZonesApart, ScheduleUpdate
  PROVE  ZonesApart'
<1>1. /\ DOMAIN queue' = 1 .. Len(queue) + 1
      /\ \A i \in DOMAIN queue : queue'[i] = queue[i]
      /\ queue'[Len(queue) + 1] = nextZone
      /\ nextZone' = nextZone + 1 /\ nextZone \in Nat
  BY DEF ScheduleUpdate, TypeOK
<1>2. Holding' = Holding /\ task' = task
  BY DEF ScheduleUpdate, Holding
<1>3. /\ \A i \in DOMAIN queue : queue[i] < nextZone
      /\ \A w \in Holding : task[w] < nextZone
  BY DEF ZonesApart, IteratorAhead, ScheduleUpdate
<1>4. \A i \in DOMAIN queue' : i \in DOMAIN queue \/ i = Len(queue) + 1
  BY <1>1, QueueFacts
<1>5. \A i \in DOMAIN queue : queue[i] \in Int
  BY QueueFacts, ZoneAssumption DEF Zones
<1>6. \A w \in Holding : task[w] \in Int
  BY HoldingFacts, ZoneAssumption DEF Zones
<1>7. IteratorAhead'
  BY <1>1, <1>2, <1>3, <1>4, <1>5, <1>6 DEF IteratorAhead
<1>8. ZoneHasOneUpdater'
  BY <1>1, <1>2, <1>3, <1>4, <1>5, <1>6 DEF ZonesApart, ZoneHasOneUpdater
<1>9. QED
  BY <1>7, <1>8 DEF ZonesApart

LEMMA ApartStep ==
  ASSUME TypeOK, PendingAccounting, HandsMatchPc, CancelledBetweenTicks,
         ZonesApart, [Next]_vars
  PROVE  ZonesApart'
<1>1. ASSUME UNCHANGED <<queue, task>>,
             mainPc' = "schedule" => mainPc = "schedule" /\ nextZone' = nextZone
      PROVE  ZonesApart'
  BY <1>1 DEF ZonesApart, IteratorAhead, ZoneHasOneUpdater, Holding
<1>2. CASE BeginTick
  <2>1. queue = <<>> /\ Holding = {}
    BY <1>2, NothingPending DEF BeginTick, CancelledBetweenTicks
  <2>2. queue' = <<>> /\ Holding' = {}
    BY <1>2, <2>1 DEF BeginTick, Holding
  <2>3. DOMAIN queue' = {}
    BY <2>2
  <2>4. QED
    BY <2>2, <2>3 DEF ZonesApart, IteratorAhead, ZoneHasOneUpdater
<1>3. CASE ScheduleUpdate
  BY <1>3, ScheduleKeepsApart
<1>4. CASE EndSchedule \/ Wait \/ Deactivate \/ SpuriousMainWakeup
  BY <1>1, <1>4 DEF EndSchedule, Wait, Deactivate, SpuriousMainWakeup
<1>5. CASE ShutDown
  <2>1. DOMAIN queue' = {} /\ Holding' = Holding /\ task' = task
    BY <1>5 DEF ShutDown, Holding
  <2>2. mainPc' # "schedule"
    BY <1>5 DEF ShutDown
  <2>3. QED
    BY <2>1, <2>2 DEF ZonesApart, IteratorAhead, ZoneHasOneUpdater
<1>6. ASSUME NEW w \in Workers, TakeFront(w), task[w] = NoTask,
             UNCHANGED <<mainPc, nextZone>>
      PROVE  ZonesApart'
  <2>1. CASE queue = <<>> \/ shutDown
    BY <1>1, <1>6, <2>1 DEF TakeFront
  <2>2. CASE ~(queue = <<>> \/ shutDown)
    BY <1>6, <2>2, PopKeepsApart DEF TakeFront
  <2>3. QED
    BY <2>1, <2>2
<1>7. ASSUME NEW w \in Workers, WaitAndPop(w) \/ Resume(w)
      PROVE  ZonesApart'
  <2>1. task[w] = NoTask /\ UNCHANGED <<mainPc, nextZone>>
    BY <1>7 DEF WaitAndPop, Resume, HandsMatchPc
  <2>2. TakeFront(w) \/ UNCHANGED <<queue, task>>
    BY <1>7 DEF WaitAndPop, Resume
  <2>3. QED
    BY <1>1, <1>6, <2>1, <2>2
<1>8. ASSUME NEW w \in Workers,
             Dispatch(w) \/ SpuriousWorkerWakeup(w) \/ StartWorker(w)
      PROVE  ZonesApart'
  BY <1>1, <1>8 DEF Dispatch, SpuriousWorkerWakeup, StartWorker
<1>9. ASSUME NEW w \in Workers, Finished(w)
      PROVE  ZonesApart'
  <2>1. /\ Holding' = Holding \ {w}
        /\ \A v \in Holding' : task'[v] = task[v]
        /\ queue' = queue /\ nextZone' = nextZone
        /\ mainPc' = "schedule" => mainPc = "schedule"
    BY <1>9 DEF Finished, Holding, TypeOK
  <2>2. QED
    BY <2>1 DEF ZonesApart, IteratorAhead, ZoneHasOneUpdater
<1>10. CASE UNCHANGED vars
  BY <1>1, <1>10 DEF vars
<1>11. QED
  BY <1>2, <1>3, <1>4, <1>5, <1>7, <1>8, <1>9, <1>10
  DEF Next, MainStep, WorkerStep

-------------------------------------------------------------------------------
(* The theorems *)

LEMMA InitInv == Init => IInv
<1> SUFFICES ASSUME Init PROVE IInv
  OBVIOUS
<1> USE ZoneAssumption DEF Init
<1>1. TypeOK
  <2>1. <<>> \in Seq(Zones)
    BY EmptySeq
  <2>2. workerPc \in [Workers -> WorkerPcs]
    BY DEF WorkerPcs
  <2>3. task \in [Workers -> Zones \union {NoTask}]
    OBVIOUS
  <2>4. nextZone \in 0 .. NumZones
    OBVIOUS
  <2>5. QED
    BY <2>1, <2>2, <2>3, <2>4 DEF TypeOK, MainPcs
<1>2. Holding = {} /\ DOMAIN queue = {} /\ Len(queue) = 0
  BY DEF Holding
<1>3. PendingAccounting
  BY <1>2, FS_EmptySet DEF PendingAccounting
<1>4. HandsMatchPc /\ CancelledBetweenTicks
  BY DEF HandsMatchPc, CancelledBetweenTicks
<1>5. IteratorAhead /\ ZoneHasOneUpdater
  BY <1>2 DEF IteratorAhead, ZoneHasOneUpdater
<1>6. QED
  BY <1>1, <1>3, <1>4, <1>5 DEF IInv

LEMMA NextInv == IInv /\ [Next]_vars => IInv'
<1> SUFFICES ASSUME IInv, [Next]_vars PROVE IInv'
  OBVIOUS
<1>1. TypeOK' /\ PendingAccounting' /\ HandsMatchPc' /\ CancelledBetweenTicks'
  BY TypeStep, AccountingStep, HandsStep, CancelStep DEF IInv
<1>2. ZonesApart'
  BY ApartStep DEF IInv, ZonesApart
<1>3. QED
  BY <1>1, <1>2 DEF IInv, ZonesApart

\* The handshake's invariant holds in every reachable state.
THEOREM Invariance == Spec => []IInv
<1>1. QED
  BY InitInv, NextInv, PTL DEF Spec

\* Every variable keeps its type, m_PendingRequests never goes negative and the
\* iterator of Manager::Update never passes the last zone.
THEOREM TypeCorrect == Spec => []TypeOK
<1>1. IInv => TypeOK
  BY DEF IInv
<1>2. QED
  BY <1>1, Invariance, PTL

\* m_PendingRequests is the number of requests queued or held by a worker.
THEOREM AccountingCorrect == Spec => []PendingAccounting
<1>1. IInv => PendingAccounting
  BY DEF IInv
<1>2. QED
  BY <1>1, Invariance, PTL

\* While the world thread is outside Manager::Update no zone is being updated
\* and none is about to be: what it does to the maps there needs no lock
\* against the zone workers.
THEOREM BarrierCorrect == Spec => []WorldPhaseExclusive
<1>1. IInv => WorldPhaseExclusive
  <2> SUFFICES ASSUME IInv, mainPc \in {"world", "unload", "unloaded"}
               PROVE  queue = <<>> /\ Holding = {}
    BY DEF WorldPhaseExclusive
  <2>1. pending = 0
    BY DEF IInv, CancelledBetweenTicks
  <2>2. QED
    BY <2>1, NothingPending DEF IInv
<1>2. QED
  BY <1>1, Invariance, PTL

\* No zone is ever updated by two workers at once, or queued while held.
THEOREM OneUpdaterCorrect == Spec => []ZoneHasOneUpdater
<1>1. IInv => ZoneHasOneUpdater
  BY DEF IInv
<1>2. QED
  BY <1>1, Invariance, PTL

-------------------------------------------------------------------------------
(* Every step is a step of ZoneTick or leaves its variables alone. *)

\* The requests popped and not yet called, and the zones not yet scheduled.
PoppedZones == {task[w] : w \in {v \in Holding : workerPc[v] = "popped"}}
ZonesAhead == IF mainPc = "schedule" THEN nextZone .. NumZones - 1 ELSE {}
RunningZones == {task[w] : w \in Updating}

\* The zones that queue holds, as it grows at the back and shrinks in front.
LEMMA QueuedFacts ==
  ASSUME TypeOK
  PROVE  /\ queue = <<>> => Queued = {}
         /\ \A z : queue' = Append(queue, z) /\ z \in Zones
                     => Queued' = Queued \union {z}
         /\ queue # <<>> /\ queue' = Tail(queue)
              => Queued = Queued' \union {Head(queue)}
<1>1. queue = <<>> => Queued = {}
  BY DEF Queued
<1>2. ASSUME NEW z, queue' = Append(queue, z), z \in Zones
      PROVE  Queued' = Queued \union {z}
  <2>1. /\ DOMAIN queue' = 1 .. Len(queue) + 1
        /\ \A i \in DOMAIN queue : queue'[i] = queue[i]
        /\ queue'[Len(queue) + 1] = z
    BY <1>2 DEF TypeOK
  <2>2. DOMAIN queue' = DOMAIN queue \union {Len(queue) + 1}
    BY <2>1, QueueFacts
  <2>3. QED
    BY <2>1, <2>2 DEF Queued
<1>3. ASSUME queue # <<>>, queue' = Tail(queue)
      PROVE  Queued = Queued' \union {Head(queue)}
  <2>1. DOMAIN queue = 1 .. Len(queue) /\ Len(queue) \in Nat \ {0}
    BY <1>3, QueueFacts, EmptySeq DEF TypeOK
  <2>2. Tail(queue) \in Seq(Zones) /\ Len(Tail(queue)) = Len(queue) - 1
    BY <1>3, HeadTailProperties DEF TypeOK
  <2>3. DOMAIN queue' = 1 .. Len(queue) - 1
    BY <1>3, <2>2, LenProperties
  <2>4. \A i \in DOMAIN queue' : i + 1 \in DOMAIN queue /\ queue'[i] = queue[i + 1]
    <3>1. \A i \in 1 .. Len(Tail(queue)) : Tail(queue)[i] = queue[i + 1]
      BY <1>3, HeadTailProperties DEF TypeOK
    <3>2. QED
      BY <1>3, <2>1, <2>2, <2>3, <3>1
  <2>5. \A i \in DOMAIN queue : i = 1 \/ (i - 1 \in DOMAIN queue' /\ queue'[i - 1] = queue[i])
    <3>1. \A i \in DOMAIN queue : i = 1 \/ (i - 1 \in DOMAIN queue' /\ (i - 1) + 1 = i)
      BY <2>1, <2>3
    <3>2. QED
      BY <2>4, <3>1
  <2>6. Head(queue) = queue[1] /\ 1 \in DOMAIN queue
    BY <1>3, <2>1 DEF TypeOK
  <2>7. Queued \subseteq Queued' \union {Head(queue)}
    BY <2>5, <2>6 DEF Queued
  <2>8. Queued' \union {Head(queue)} \subseteq Queued
    BY <2>4, <2>6 DEF Queued
  <2>9. QED
    BY <2>7, <2>8
<1>4. QED
  BY <1>1, <1>2, <1>3

\* A request is only queued or held inside a tick.
LEMMA RequestsAreInTick ==
  ASSUME IInv, queue # <<>> \/ Holding # {}
  PROVE  InTick /\ ~cancelled
<1>1. pending # 0
  BY NothingPending DEF IInv
<1>2. ~cancelled /\ mainPc # "world"
  BY <1>1 DEF IInv, CancelledBetweenTicks
<1>3. mainPc \in {"schedule", "wait", "blocked"}
  BY <1>2 DEF IInv, CancelledBetweenTicks, TypeOK, MainPcs
<1>4. QED
  BY <1>2, <1>3 DEF InTick

\* What the world thread does while nothing is queued or held.
LEMMA QuietTick ==
  ASSUME IInv, pending = 0
  PROVE  /\ mainPc # "schedule" => Unstarted = {}
         /\ queue = <<>> /\ Holding = {} /\ RunningZones = {}
<1>1. queue = <<>> /\ Holding = {}
  BY NothingPending DEF IInv
<1>2. Queued = {}
  BY <1>1, QueuedFacts DEF IInv
<1>3. Updating \subseteq Holding
  BY DEF IInv, HandsMatchPc, Updating, Holding
<1>4. QED
  BY <1>1, <1>2, <1>3 DEF Unstarted, RunningZones

\* A pop by a worker that holds nothing, the request or nothing.
LEMMA PopStutters ==
  ASSUME IInv, NEW w \in Workers, TakeFront(w), task[w] = NoTask,
         workerPc[w] \in {"idle", "woken"},
         UNCHANGED <<mainPc, cancelled, nextZone>>
  PROVE  UNCHANGED <<InTick, Unstarted, RunningZones>>
<1>0. TypeOK
  BY DEF IInv
<1>1. \A v \in Workers : workerPc'[v] = IF v = w THEN "popped" ELSE workerPc[v]
  BY <1>0 DEF TakeFront, Goto, TypeOK
<1>2. InTick' = InTick /\ ZonesAhead' = ZonesAhead
  BY DEF InTick, ZonesAhead
<1>3. CASE queue = <<>> \/ shutDown
  <2>1. task' = task /\ queue' = queue
    BY <1>3 DEF TakeFront
  <2>2. Holding' = Holding /\ w \notin Holding /\ Queued' = Queued
    BY <2>1 DEF Holding, Queued
  <2>3. Updating' = Updating
    BY <1>1 DEF Updating
  <2>4. PoppedZones' = PoppedZones
    BY <1>1, <2>1, <2>2 DEF PoppedZones, Holding
  <2>5. QED
    BY <1>2, <2>1, <2>2, <2>3, <2>4 DEF Unstarted, PoppedZones, ZonesAhead, RunningZones
<1>4. CASE ~(queue = <<>> \/ shutDown)
  <2>1. task' = [task EXCEPT ![w] = Head(queue)] /\ queue' = Tail(queue)
    BY <1>4 DEF TakeFront
  <2>2. Head(queue) # NoTask
    BY <1>0, <1>4, QueueFacts, HeadTailProperties, ZoneAssumption DEF TypeOK, Zones, NoTask
  <2>3. \A v \in Workers : task'[v] = IF v = w THEN Head(queue) ELSE task[v]
    BY <1>0, <2>1 DEF TypeOK
  <2>4. Queued = Queued' \union {Head(queue)}
    BY <1>0, <1>4, <2>1, QueuedFacts
  <2>5. PoppedZones' = PoppedZones \union {Head(queue)}
    BY <1>1, <2>2, <2>3 DEF PoppedZones, Holding
  <2>6. Updating' = Updating /\ w \notin Updating
    BY <1>1 DEF Updating
  <2>7. RunningZones' = RunningZones
    BY <2>3, <2>6 DEF RunningZones, Updating
  <2>8. QED
    BY <1>2, <2>4, <2>5, <2>7 DEF Unstarted, PoppedZones, ZonesAhead
<1>5. QED
  BY <1>3, <1>4

\* A call starts the zone the worker holds: no other request is for it.
LEMMA CallStartsZone ==
  ASSUME IInv, NEW w \in Workers, Dispatch(w), ~cancelled, task[w] # NoTask
  PROVE  Tick!StartZone(task[w])
<1>0. TypeOK /\ w \in Holding /\ workerPc[w] = "popped"
  BY DEF IInv, Holding, Dispatch
<1>1. InTick
  BY <1>0, RequestsAreInTick
<1>2. /\ UNCHANGED <<queue, cancelled, mainPc, nextZone, task>>
      /\ workerPc' = [workerPc EXCEPT ![w] = "updating"]
  BY DEF Dispatch, Goto
<1>3. \A v \in Workers : workerPc'[v] = IF v = w THEN "updating" ELSE workerPc[v]
  BY <1>0, <1>2 DEF TypeOK
<1>4. InTick' /\ Queued' = Queued /\ ZonesAhead' = ZonesAhead /\ Holding' = Holding
  BY <1>1, <1>2 DEF InTick, Queued, ZonesAhead, Holding
<1>5. task[w] \notin Queued
  BY <1>0 DEF IInv, ZoneHasOneUpdater, Queued
<1>6. task[w] \notin ZonesAhead
  <2> SUFFICES ASSUME mainPc = "schedule" PROVE task[w] \notin nextZone .. NumZones - 1
    BY DEF ZonesAhead
  <2>1. task[w] < nextZone /\ task[w] \in Zones /\ nextZone \in 0 .. NumZones
    BY <1>0, HoldingFacts DEF IInv, IteratorAhead, TypeOK
  <2>2. QED
    BY <2>1, ZoneAssumption DEF Zones
<1>7. PoppedZones' = PoppedZones \ {task[w]} /\ task[w] \in PoppedZones
  <2>1. \A v \in Holding : task[v] = task[w] => v = w
    BY <1>0 DEF IInv, ZoneHasOneUpdater
  <2>2. QED
    BY <1>0, <1>2, <1>3, <1>4, <2>1 DEF PoppedZones, Holding
<1>8. RunningZones' = RunningZones \union {task[w]}
  <2>1. Updating' = Updating \union {w}
    BY <1>3 DEF Updating
  <2>2. QED
    BY <1>2, <2>1 DEF RunningZones
<1>9. Unstarted' = Unstarted \ {task[w]} /\ task[w] \in Unstarted
  BY <1>4, <1>5, <1>6, <1>7 DEF Unstarted, PoppedZones, ZonesAhead
<1>10. QED
  BY <1>1, <1>4, <1>8, <1>9 DEF Tick!StartZone, RunningZones

\* The end of a call finishes the zone the worker holds.
LEMMA FinishedFinishesZone ==
  ASSUME IInv, NEW w \in Workers, Finished(w)
  PROVE  Tick!FinishZone(task[w])
<1>0. TypeOK /\ w \in Holding /\ w \in Updating
  BY DEF IInv, HandsMatchPc, Holding, Updating, Finished
<1>1. InTick /\ ~cancelled
  BY <1>0, RequestsAreInTick
<1>2. \A v \in Workers : /\ workerPc'[v] = IF v = w THEN "idle" ELSE workerPc[v]
                         /\ task'[v] = IF v = w THEN NoTask ELSE task[v]
  BY <1>0 DEF Finished, Goto, TypeOK
<1>3. InTick' /\ Queued' = Queued /\ ZonesAhead' = ZonesAhead
  BY <1>1 DEF Finished, InTick, Queued, ZonesAhead
<1>4. PoppedZones' = PoppedZones
  BY <1>0, <1>2 DEF PoppedZones, Holding, Updating
<1>5. Updating' = Updating \ {w}
  BY <1>2 DEF Updating
<1>6. \A v \in Updating : v \in Holding
  BY DEF IInv, HandsMatchPc, Updating, Holding
<1>7. RunningZones' = RunningZones \ {task[w]} /\ task[w] \in RunningZones
  <2>1. \A v \in Updating : task[v] = task[w] => v = w
    BY <1>0, <1>6 DEF IInv, ZoneHasOneUpdater
  <2>2. \A v \in Updating' : v \in Updating /\ v # w /\ task'[v] = task[v]
    BY <1>2, <1>5 DEF Updating
  <2>3. QED
    BY <1>0, <1>5, <2>1, <2>2 DEF RunningZones
<1>8. QED
  BY <1>1, <1>3, <1>4, <1>7
  DEF Tick!FinishZone, Unstarted, PoppedZones, ZonesAhead, RunningZones

LEMMA TickInit == Init => Tick!Init
<1> SUFFICES ASSUME Init PROVE Tick!Init
  OBVIOUS
<1>1. Holding = {} /\ Updating = {} /\ Queued = {} /\ ~InTick
  BY DEF Init, Holding, Updating, Queued, InTick
<1>2. QED
  BY <1>1 DEF Init, Tick!Init, Unstarted

LEMMA TickStep ==
  ASSUME IInv, [Next]_vars
  PROVE  [Tick!Next]_(Tick!tickVars)
<1> USE ZoneAssumption
<1>0. TypeOK
  BY DEF IInv
<1>s. ASSUME UNCHANGED <<InTick, Unstarted, RunningZones>>
      PROVE  [Tick!Next]_(Tick!tickVars)
  BY <1>s DEF Tick!tickVars, RunningZones
<1>a. ASSUME UNCHANGED <<queue, task>>, UNCHANGED ZonesAhead, UNCHANGED InTick,
             \A v \in Workers : \/ workerPc'[v] = workerPc[v]
                                \/ {workerPc[v], workerPc'[v]} \cap {"popped", "updating"} = {}
      PROVE  UNCHANGED <<InTick, Unstarted, RunningZones>>
  <2>1. Queued' = Queued /\ Holding' = Holding /\ Updating' = Updating
    BY <1>a DEF Queued, Holding, Updating
  <2>2. PoppedZones' = PoppedZones
    BY <1>a, <2>1 DEF PoppedZones, Holding
  <2>3. QED
    BY <1>a, <2>1, <2>2 DEF Unstarted, PoppedZones, ZonesAhead, RunningZones
<1>1. CASE BeginTick
  <2>1. pending = 0 /\ ~cancelled
    BY <1>1 DEF BeginTick, IInv, CancelledBetweenTicks
  <2>2. Unstarted = {} /\ RunningZones = {} /\ ~InTick
    BY <1>1, <2>1, QuietTick DEF BeginTick, InTick
  <2>3. Queued' = {} /\ Holding' = {} /\ Updating' = Updating /\ InTick'
    BY <1>1, <2>1, QuietTick DEF BeginTick, Queued, Holding, Updating, InTick
  <2>4. Unstarted' = Zones
    BY <1>1, <2>3 DEF BeginTick, Unstarted, Zones
  <2>5. RunningZones' = RunningZones
    BY <1>1, <2>3 DEF BeginTick, RunningZones
  <2>6. Tick!BeginTick
    BY <2>2, <2>3, <2>4, <2>5 DEF Tick!BeginTick, RunningZones
  <2>7. QED
    BY <2>6 DEF Tick!Next
<1>2. CASE ScheduleUpdate
  <2>1. nextZone \in Zones /\ nextZone' = nextZone + 1
    BY <1>2, <1>0 DEF ScheduleUpdate, TypeOK, Zones
  <2>2. Queued' = Queued \union {nextZone}
    BY <1>2, <1>0, <2>1, QueuedFacts DEF ScheduleUpdate
  <2>3. ZonesAhead = ZonesAhead' \union {nextZone}
    BY <1>2, <2>1 DEF ScheduleUpdate, ZonesAhead, Zones
  <2>4. \A v \in Workers : workerPc'[v] = workerPc[v]
                             \/ (workerPc[v] = "parked" /\ workerPc'[v] = "woken")
    BY <1>2, <1>0 DEF ScheduleUpdate, NotifyOne, Parked, TypeOK
  <2>5. Holding' = Holding /\ Updating' = Updating /\ InTick' = InTick
    BY <1>2, <2>4 DEF ScheduleUpdate, Holding, Updating, InTick
  <2>6. PoppedZones' = PoppedZones /\ RunningZones' = RunningZones
    BY <1>2, <2>4, <2>5 DEF ScheduleUpdate, PoppedZones, RunningZones, Holding
  <2>7. Unstarted' = Unstarted
    BY <2>2, <2>3, <2>6 DEF Unstarted, PoppedZones, ZonesAhead
  <2>8. QED
    BY <1>s, <2>5, <2>6, <2>7
<1>3. CASE EndSchedule
  <2>1. ~cancelled
    BY <1>3 DEF EndSchedule, IInv, CancelledBetweenTicks
  <2>2. InTick' = InTick /\ ZonesAhead' = ZonesAhead
    BY <1>3, <2>1 DEF EndSchedule, InTick, ZonesAhead
  <2>3. QED
    BY <1>3, <1>a, <1>s, <2>2 DEF EndSchedule
<1>4. CASE Wait
  <2>1. CASE pending > 0
    <3>1. ~cancelled
      BY <2>1 DEF IInv, CancelledBetweenTicks
    <3>2. InTick' = InTick /\ ZonesAhead' = ZonesAhead
      BY <1>4, <2>1, <3>1 DEF Wait, InTick, ZonesAhead
    <3>3. QED
      BY <1>4, <1>a, <1>s, <3>2 DEF Wait
  <2>2. CASE ~(pending > 0) /\ cancelled
    <3>1. InTick' = InTick /\ ZonesAhead' = ZonesAhead
      BY <1>4, <2>2 DEF Wait, InTick, ZonesAhead
    <3>2. QED
      BY <1>4, <1>a, <1>s, <3>1 DEF Wait
  <2>3. CASE ~(pending > 0) /\ ~cancelled
    <3>1. pending = 0
      BY <2>3, <1>0 DEF TypeOK
    <3>2. Unstarted = {} /\ RunningZones = {} /\ InTick
      BY <1>4, <2>3, <3>1, QuietTick DEF Wait, InTick
    <3>3. ~InTick' /\ ZonesAhead' = ZonesAhead
      BY <1>4, <2>3 DEF Wait, InTick, ZonesAhead
    <3>4. Queued' = Queued /\ Holding' = Holding /\ Updating' = Updating
      BY <1>4 DEF Wait, Queued, Holding, Updating
    <3>5. Unstarted' = Unstarted /\ RunningZones' = RunningZones
      BY <1>4, <3>3, <3>4 DEF Wait, Unstarted, ZonesAhead, RunningZones
    <3>6. Tick!EndTick
      BY <3>2, <3>3, <3>5 DEF Tick!EndTick, RunningZones
    <3>7. QED
      BY <3>6 DEF Tick!Next
  <2>4. QED
    BY <2>1, <2>2, <2>3
<1>5. CASE Deactivate
  <2>1. InTick' = InTick /\ ZonesAhead' = ZonesAhead
    BY <1>5 DEF Deactivate, InTick, ZonesAhead
  <2>2. QED
    BY <1>5, <1>a, <1>s, <2>1 DEF Deactivate
<1>6. CASE ShutDown
  <2>1. pending = 0 /\ mainPc = "unload" /\ mainPc' = "unloaded"
    BY <1>6 DEF ShutDown, IInv, CancelledBetweenTicks
  <2>2. queue = <<>>
    BY <2>1, QuietTick
  <2>3. InTick' = InTick /\ ZonesAhead' = ZonesAhead /\ queue' = queue /\ task' = task
    BY <1>6, <2>1, <2>2 DEF ShutDown, InTick, ZonesAhead
  <2>4. \A v \in Workers : workerPc'[v] = workerPc[v]
                             \/ (workerPc[v] = "parked" /\ workerPc'[v] = "woken")
    BY <1>6, <1>0 DEF ShutDown, NotifyAll, Parked, TypeOK
  <2>5. QED
    BY <1>a, <1>s, <2>3, <2>4
<1>7. ASSUME NEW w \in Workers, WaitAndPop(w) \/ Resume(w)
      PROVE  [Tick!Next]_(Tick!tickVars)
  <2>1. /\ task[w] = NoTask /\ UNCHANGED <<mainPc, cancelled, nextZone>>
        /\ workerPc[w] \in {"idle", "woken"}
    BY <1>7 DEF WaitAndPop, Resume, IInv, HandsMatchPc
  <2>2. CASE TakeFront(w)
    BY <1>s, <2>1, <2>2, PopStutters
  <2>3. CASE ~TakeFront(w)
    <3>1. Goto(w, "parked") /\ UNCHANGED <<queue, task>>
      BY <1>7, <2>3 DEF WaitAndPop, Resume
    <3>2. \A v \in Workers : workerPc'[v] = IF v = w THEN "parked" ELSE workerPc[v]
      BY <1>0, <3>1 DEF Goto, TypeOK
    <3>3. InTick' = InTick /\ ZonesAhead' = ZonesAhead
      BY <2>1 DEF InTick, ZonesAhead
    <3>4. QED
      BY <1>a, <1>s, <2>1, <3>1, <3>2, <3>3
  <2>4. QED
    BY <2>2, <2>3
<1>8. ASSUME NEW w \in Workers, Dispatch(w)
      PROVE  [Tick!Next]_(Tick!tickVars)
  <2>0. /\ UNCHANGED <<queue, cancelled, mainPc, nextZone, task>>
        /\ InTick' = InTick /\ ZonesAhead' = ZonesAhead
    BY <1>8 DEF Dispatch, InTick, ZonesAhead
  <2>1. CASE ~cancelled /\ task[w] # NoTask
    <3>1. task[w] \in Zones
      BY <1>0, <2>1 DEF TypeOK
    <3>2. Tick!StartZone(task[w])
      BY <1>8, <2>1, CallStartsZone
    <3>3. QED
      BY <3>1, <3>2 DEF Tick!Next, Tick!StartZone
  <2>2. CASE ~cancelled /\ task[w] = NoTask
    BY <1>8, <1>a, <1>s, <2>0, <2>2 DEF Dispatch
  <2>3. CASE cancelled
    <3>1. queue = <<>> /\ Holding = {}
      BY <2>3, RequestsAreInTick
    <3>2. Updating = {} /\ Queued' = Queued /\ Holding' = {}
      BY <3>1, <2>0 DEF Updating, Queued, Holding, IInv, HandsMatchPc
    <3>3. workerPc' = [workerPc EXCEPT ![w] = "exited"]
      BY <1>8, <2>3 DEF Dispatch, Goto
    <3>4. Updating' = {}
      BY <3>2, <3>3, <1>0 DEF Updating, TypeOK
    <3>5. QED
      BY <1>s, <2>0, <3>1, <3>2, <3>4 DEF Unstarted, ZonesAhead, RunningZones
  <2>4. QED
    BY <2>1, <2>2, <2>3
<1>9. ASSUME NEW w \in Workers, Finished(w)
      PROVE  [Tick!Next]_(Tick!tickVars)
  <2>1. task[w] \in Zones
    BY <1>9, <1>0 DEF Finished, IInv, HandsMatchPc, TypeOK
  <2>2. QED
    BY <1>9, <2>1, FinishedFinishesZone DEF Tick!Next, Tick!FinishZone
<1>10. ASSUME NEW w \in Workers, SpuriousWorkerWakeup(w) \/ StartWorker(w)
       PROVE  [Tick!Next]_(Tick!tickVars)
  <2>1. /\ UNCHANGED <<queue, cancelled, mainPc, nextZone, task>>
        /\ workerPc[w] \in {"unstarted", "parked"}
        /\ workerPc' = [workerPc EXCEPT ![w] = "idle"]
             \/ workerPc' = [workerPc EXCEPT ![w] = "woken"]
    BY <1>10 DEF SpuriousWorkerWakeup, StartWorker, Goto
  <2>2. InTick' = InTick /\ ZonesAhead' = ZonesAhead
    BY <2>1 DEF InTick, ZonesAhead
  <2>3. \A v \in Workers : v # w => workerPc'[v] = workerPc[v]
    BY <1>0, <2>1 DEF TypeOK
  <2>4. workerPc'[w] \in {"idle", "woken"}
    BY <1>0, <2>1 DEF TypeOK
  <2>5. QED
    BY <1>a, <1>s, <2>1, <2>2, <2>3, <2>4
<1>11. CASE SpuriousMainWakeup
  <2>1. ~cancelled
    BY <1>11 DEF SpuriousMainWakeup, IInv, CancelledBetweenTicks
  <2>2. InTick' = InTick /\ ZonesAhead' = ZonesAhead
    BY <1>11, <2>1 DEF SpuriousMainWakeup, InTick, ZonesAhead
  <2>3. QED
    BY <1>11, <1>a, <1>s, <2>2 DEF SpuriousMainWakeup
<1>12. CASE UNCHANGED vars
  BY <1>12, <1>s DEF vars, InTick, Unstarted, RunningZones, Updating, Queued, Holding
<1>13. QED
  BY <1>1, <1>2, <1>3, <1>4, <1>5, <1>6, <1>7, <1>8, <1>9, <1>10, <1>11,
     <1>12 DEF Next, MainStep, WorkerStep

\* Manager::Update implements ZoneTick: a tick hands every zone out exactly once
\* and does not return before the last of them has finished.
THEOREM Refinement == Spec => TickSpec
<1>1. IInv /\ [Next]_vars => [Tick!Next]_(Tick!tickVars)
  BY TickStep
<1>2. QED
  BY TickInit, <1>1, Invariance, PTL DEF Spec, TickSpec, Tick!Spec

-------------------------------------------------------------------------------
(* The if in WaitAndPop: with one worker that runs, and no spurious wakeups, *)
(* nobody can take a request between the notification and the wakeup.        *)

OnlyRuns(r) == \A w \in Workers \ {r} : workerPc[w] = "unstarted"

\* A worker that is awake finds a request or the shutdown, and calls the one or
\* leaves because of the other.
WakesForSomething(r) ==
  /\ ~crashed
  /\ workerPc[r] = "woken" => queue # <<>> \/ shutDown
  /\ workerPc[r] = "popped" => task[r] # NoTask \/ cancelled

LEMMA TakesSomething ==
  ASSUME IInv, NEW r \in Workers, TakeFront(r), queue # <<>> \/ shutDown,
         ~crashed', cancelled' = cancelled
  PROVE  WakesForSomething(r)'
<1>1. workerPc'[r] = "popped"
  BY DEF TakeFront, Goto, IInv, TypeOK
<1>2. CASE shutDown
  BY <1>1, <1>2 DEF WakesForSomething, IInv, CancelledBetweenTicks
<1>3. CASE ~shutDown
  <2>1. Head(queue) \in Zones /\ queue # <<>>
    BY <1>3, HeadTailProperties DEF IInv, TypeOK
  <2>2. task'[r] = Head(queue)
    BY <1>3, <2>1 DEF TakeFront, IInv, TypeOK
  <2>3. Head(queue) # NoTask
    BY <2>1, ZoneAssumption DEF Zones, NoTask
  <2>4. QED
    BY <1>1, <2>2, <2>3 DEF WakesForSomething
<1>4. QED
  BY <1>2, <1>3

LEMMA WakesStep ==
  ASSUME ~SpuriousWakeups, NEW r \in Workers,
         IInv, OnlyRuns(r), WakesForSomething(r), Next
  PROVE  WakesForSomething(r)'
<1>1. workerPc \in [Workers -> WorkerPcs] /\ queue \in Seq(Zones)
  BY DEF IInv, TypeOK
<1>2. CASE ScheduleUpdate
  <2>1. queue' = Append(queue, nextZone)
    BY <1>2 DEF ScheduleUpdate
  <2>2. nextZone \in Zones
    BY <1>2, ZoneAssumption DEF ScheduleUpdate, IInv, TypeOK, Zones
  <2>3. queue' # <<>>
    BY <1>1, <2>1, <2>2, AppendProperties, EmptySeq
  <2>4. workerPc'[r] = "popped" => workerPc[r] = "popped"
    BY <1>1, <1>2 DEF ScheduleUpdate, NotifyOne
  <2>5. UNCHANGED <<task, cancelled, crashed>>
    BY <1>2 DEF ScheduleUpdate
  <2>6. QED
    BY <2>3, <2>4, <2>5 DEF WakesForSomething
<1>3. CASE BeginTick \/ EndSchedule \/ Wait \/ Deactivate
  BY <1>3 DEF BeginTick, EndSchedule, Wait, Deactivate, WakesForSomething
<1>4. CASE ShutDown
  <2>1. workerPc'[r] = "popped" => workerPc[r] = "popped"
    BY <1>1, <1>4 DEF ShutDown, NotifyAll
  <2>2. QED
    BY <1>4, <2>1 DEF ShutDown, WakesForSomething
<1>5. ASSUME NEW w \in Workers, StartWorker(w) PROVE WakesForSomething(r)'
  BY <1>1, <1>5 DEF StartWorker, Goto, WakesForSomething
<1>6. ASSUME NEW w \in Workers, WorkerStep(w) PROVE WakesForSomething(r)'
  <2>1. w = r
    BY <1>6 DEF OnlyRuns, WorkerStep, WaitAndPop, Resume, Dispatch, Finished
  <2>2. CASE WaitAndPop(r) /\ queue = <<>> /\ ~shutDown
    BY <1>1, <2>2 DEF WaitAndPop, Goto, WakesForSomething
  <2>3. CASE WaitAndPop(r) /\ ~(queue = <<>> /\ ~shutDown)
    BY <2>3, TakesSomething DEF WaitAndPop, WakesForSomething
  <2>4. CASE Resume(r)
    BY <2>4, TakesSomething DEF Resume, WakesForSomething
  <2>5. CASE Dispatch(r)
    BY <1>1, <2>5 DEF Dispatch, Goto, WakesForSomething
  <2>6. CASE Finished(r)
    BY <1>1, <2>6 DEF Finished, Goto, WakesForSomething
  <2>7. QED
    BY <1>6, <2>1, <2>2, <2>3, <2>4, <2>5, <2>6 DEF WorkerStep
<1>7. QED
  BY <1>2, <1>3, <1>4, <1>5, <1>6
  DEF Next, MainStep, SpuriousWorkerWakeup, SpuriousMainWakeup

\* WorkerThread never calls through a null task as long as one worker runs and
\* wait returns only when notified: the if at ZoneProducer.hpp:79 is enough for
\* the threads the task manager really starts, and for no more than these.
THEOREM OneRunnerNeverCrashes ==
  ASSUME ~SpuriousWakeups, NEW r \in Workers
  PROVE  Spec /\ []OnlyRuns(r) => []~crashed
<1>1. Init => WakesForSomething(r)
  BY DEF Init, WakesForSomething
<1>2. IInv /\ OnlyRuns(r) /\ WakesForSomething(r) /\ [Next]_vars
        => WakesForSomething(r)'
  <2>1. ASSUME UNCHANGED vars, WakesForSomething(r) PROVE WakesForSomething(r)'
    BY <2>1 DEF vars, WakesForSomething
  <2>2. QED
    BY <2>1, WakesStep
<1>3. WakesForSomething(r) => ~crashed
  BY DEF WakesForSomething
<1>4. QED
  BY <1>1, <1>2, <1>3, Invariance, PTL DEF Spec

-------------------------------------------------------------------------------
(* Notifications: the world thread never waits for workers that all sleep. *)

\* The workers that take a request, or go on with theirs, without being notified.
Awake ==
  {w \in Workers : workerPc[w] \in {"idle", "woken", "popped", "updating"}}

\* While a request is queued not every worker that runs is parked.
NoLostWakeup == queue # <<>> /\ Parked # {} => Awake # {}

\* The world thread parks on a counter that somebody has yet to take down.
ParksForSomething == mainPc = "blocked" => pending > 0

\* A worker returns from WorkerThread only once the updater is cancelled.
LeavesWhenCancelled == \A w \in Workers : workerPc[w] = "exited" => cancelled

\* Once the producer is shut down, and nobody notifies any more, nobody is parked.
NobodyStaysParked == shutDown => Parked = {}

WakeupInv ==
  NoLostWakeup /\ ParksForSomething /\ LeavesWhenCancelled /\ NobodyStaysParked

\* While Wait is parked somebody works, unless no worker has ever been started.
SomebodyWorks ==
  mainPc = "blocked" =>
    Awake # {} \/ \A w \in Workers : workerPc[w] = "unstarted"

LEMMA WakeupInit == Init => WakeupInv
BY DEF Init, WakeupInv, NoLostWakeup, ParksForSomething, LeavesWhenCancelled,
       NobodyStaysParked

\* A worker that has taken a step and is not parked keeps the others from waiting.
LEMMA StaysAwake ==
  ASSUME IInv, NEW w \in Workers, NEW pc \in {"idle", "woken", "popped", "updating"},
         Goto(w, pc)
  PROVE  NoLostWakeup'
<1>1. workerPc'[w] = pc
  BY DEF Goto, IInv, TypeOK
<1>2. w \in Awake'
  BY <1>1 DEF Awake
<1>3. QED
  BY <1>2 DEF NoLostWakeup

LEMMA NotificationWakes ==
  ASSUME IInv, NotifyOne
  PROVE  NoLostWakeup'
<1>1. CASE Parked = {}
  BY <1>1 DEF NotifyOne, NoLostWakeup, Parked
<1>2. CASE Parked # {}
  <2>1. PICK w \in Parked : workerPc' = [workerPc EXCEPT ![w] = "woken"]
    BY <1>2 DEF NotifyOne
  <2>2. w \in Awake'
    BY <2>1 DEF Awake, Parked, IInv, TypeOK
  <2>3. QED
    BY <2>2 DEF NoLostWakeup
<1>3. QED
  BY <1>1, <1>2

LEMMA WakeupStep ==
  ASSUME IInv, WakeupInv, [Next]_vars
  PROVE  WakeupInv'
<1> USE DEF WakeupInv
<1>1. /\ workerPc \in [Workers -> WorkerPcs] /\ queue \in Seq(Zones)
      /\ cancelled => pending = 0
  BY DEF IInv, TypeOK, CancelledBetweenTicks
<1>2. CASE ScheduleUpdate
  <2>1. NoLostWakeup'
    BY <1>2, NotificationWakes DEF ScheduleUpdate
  <2>2. ~shutDown'
    BY <1>2 DEF ScheduleUpdate, IInv, CancelledBetweenTicks
  <2>3. LeavesWhenCancelled'
    BY <1>1, <1>2 DEF ScheduleUpdate, NotifyOne, LeavesWhenCancelled
  <2>4. QED
    BY <1>2, <2>1, <2>2, <2>3 DEF ScheduleUpdate, ParksForSomething, NobodyStaysParked
<1>3. CASE BeginTick \/ EndSchedule \/ Wait \/ Deactivate \/ SpuriousMainWakeup
  <2>1. UNCHANGED <<queue, shutDown, pending, workerPc>> /\ (cancelled => cancelled')
    BY <1>3 DEF BeginTick, EndSchedule, Wait, Deactivate, SpuriousMainWakeup
  <2>2. ParksForSomething'
    BY <1>3 DEF BeginTick, EndSchedule, Wait, Deactivate, SpuriousMainWakeup,
                ParksForSomething
  <2>3. QED
    BY <2>1, <2>2 DEF NoLostWakeup, LeavesWhenCancelled, NobodyStaysParked, Parked, Awake
<1>4. CASE ShutDown
  <2>1. queue' = <<>> /\ mainPc' = "unloaded" /\ UNCHANGED cancelled
    BY <1>4 DEF ShutDown
  <2>2. Parked' = {}
    BY <1>1, <1>4 DEF ShutDown, NotifyAll, Parked
  <2>3. LeavesWhenCancelled'
    BY <1>1, <1>4, <2>1 DEF ShutDown, NotifyAll, LeavesWhenCancelled
  <2>4. QED
    BY <2>1, <2>2, <2>3 DEF NoLostWakeup, ParksForSomething, NobodyStaysParked
<1>5. ASSUME NEW w \in Workers, StartWorker(w) \/ SpuriousWorkerWakeup(w)
      PROVE  WakeupInv'
  <2>1. NoLostWakeup'
    BY <1>5, StaysAwake DEF StartWorker, SpuriousWorkerWakeup
  <2>2. UNCHANGED <<shutDown, pending, mainPc, cancelled>>
    BY <1>5 DEF StartWorker, SpuriousWorkerWakeup
  <2>3. Parked' \subseteq Parked /\ LeavesWhenCancelled'
    BY <1>1, <1>5, <2>2
    DEF StartWorker, SpuriousWorkerWakeup, Goto, Parked, LeavesWhenCancelled
  <2>4. QED
    BY <2>1, <2>2, <2>3 DEF ParksForSomething, NobodyStaysParked
<1>6. ASSUME NEW w \in Workers, WaitAndPop(w) \/ Resume(w)
      PROVE  WakeupInv'
  <2>1. UNCHANGED <<shutDown, pending, mainPc, cancelled>>
    BY <1>6 DEF WaitAndPop, Resume
  <2>2. CASE WaitAndPop(w) /\ queue = <<>> /\ ~shutDown
    <3>1. queue' = <<>> /\ ~shutDown'
      BY <2>2 DEF WaitAndPop
    <3>2. LeavesWhenCancelled'
      BY <1>1, <2>1, <2>2 DEF WaitAndPop, Goto, LeavesWhenCancelled
    <3>3. QED
      BY <2>1, <3>1, <3>2 DEF NoLostWakeup, ParksForSomething, NobodyStaysParked
  <2>3. CASE TakeFront(w)
    <3>1. Goto(w, "popped")
      BY <2>3 DEF TakeFront
    <3>2. NoLostWakeup'
      BY <3>1, StaysAwake
    <3>3. Parked' \subseteq Parked /\ LeavesWhenCancelled'
      BY <1>1, <2>1, <3>1 DEF Goto, Parked, LeavesWhenCancelled
    <3>4. QED
      BY <2>1, <3>2, <3>3 DEF ParksForSomething, NobodyStaysParked
  <2>4. QED
    BY <1>6, <2>2, <2>3 DEF WaitAndPop, Resume
<1>7. ASSUME NEW w \in Workers, Dispatch(w)
      PROVE  WakeupInv'
  <2>1. UNCHANGED <<queue, shutDown, pending, mainPc, cancelled>>
    BY <1>7 DEF Dispatch
  <2>2. CASE cancelled
    <3>1. queue = <<>>
      BY <1>1, <2>2, NothingPending DEF IInv
    <3>2. Parked' \subseteq Parked
      BY <1>1, <1>7, <2>2 DEF Dispatch, Goto, Parked
    <3>3. QED
      BY <2>1, <2>2, <3>1, <3>2
      DEF NoLostWakeup, ParksForSomething, LeavesWhenCancelled, NobodyStaysParked
  <2>3. CASE ~cancelled /\ task[w] = NoTask
    <3>1. UNCHANGED workerPc
      BY <1>7, <2>3 DEF Dispatch
    <3>2. QED
      BY <2>1, <3>1 DEF NoLostWakeup, ParksForSomething, LeavesWhenCancelled,
                        NobodyStaysParked, Parked, Awake
  <2>4. CASE ~cancelled /\ task[w] # NoTask
    <3>1. Goto(w, "updating")
      BY <1>7, <2>4 DEF Dispatch
    <3>2. NoLostWakeup'
      BY <3>1, StaysAwake
    <3>3. Parked' \subseteq Parked /\ LeavesWhenCancelled'
      BY <1>1, <2>1, <3>1 DEF Goto, Parked, LeavesWhenCancelled
    <3>4. QED
      BY <2>1, <3>2, <3>3 DEF ParksForSomething, NobodyStaysParked
  <2>5. QED
    BY <2>2, <2>3, <2>4
<1>8. ASSUME NEW w \in Workers, Finished(w)
      PROVE  WakeupInv'
  <2>1. UNCHANGED <<shutDown, cancelled>> /\ mainPc' # "blocked" /\ Goto(w, "idle")
    BY <1>8 DEF Finished
  <2>2. NoLostWakeup'
    BY <2>1, StaysAwake
  <2>3. Parked' \subseteq Parked /\ LeavesWhenCancelled'
    BY <1>1, <2>1 DEF Goto, Parked, LeavesWhenCancelled
  <2>4. QED
    BY <2>1, <2>2, <2>3 DEF ParksForSomething, NobodyStaysParked
<1>9. CASE UNCHANGED vars
  BY <1>9 DEF vars, NoLostWakeup, ParksForSomething, LeavesWhenCancelled,
              NobodyStaysParked, Parked, Awake
<1>10. QED
  BY <1>2, <1>3, <1>4, <1>5, <1>6, <1>7, <1>8, <1>9
  DEF Next, MainStep, WorkerStep

\* Whoever holds a request, or could take one, is awake.
LEMMA WorkIsDone ==
  ASSUME IInv, WakeupInv
  PROVE  SomebodyWorks
<1> USE DEF WakeupInv
<1>1. SUFFICES ASSUME mainPc = "blocked", Awake = {}
               PROVE  \A w \in Workers : workerPc[w] = "unstarted"
  BY DEF SomebodyWorks
<1>2. \A w \in Workers : workerPc[w] \in {"unstarted", "parked", "exited"}
  BY <1>1 DEF Awake, IInv, TypeOK, WorkerPcs
<1>3. \A w \in Workers : workerPc[w] # "exited"
  BY <1>1 DEF LeavesWhenCancelled, IInv, CancelledBetweenTicks
<1>4. Holding = {}
  BY <1>2, <1>3 DEF Holding, IInv, HandsMatchPc
<1>5. queue # <<>>
  <2>1. SUFFICES ASSUME queue = <<>> PROVE FALSE
    OBVIOUS
  <2>2. Len(queue) = 0 /\ Cardinality(Holding) = 0
    BY <1>4, <2>1, FS_EmptySet, EmptySeq
  <2>3. QED
    BY <1>1, <2>2 DEF IInv, PendingAccounting, ParksForSomething
<1>6. Parked = {}
  BY <1>1, <1>5 DEF NoLostWakeup
<1>7. QED
  BY <1>2, <1>3, <1>6 DEF Parked

\* The safety half of TickCompletes: the barrier never has everyone asleep, the
\* world thread on one condition variable and the workers on the other.
THEOREM TickIsWorkedOn == Spec => []SomebodyWorks
BY WakeupInit, WakeupStep, WorkIsDone, Invariance, PTL DEF Spec

\* The safety half of WorkersExit: after the last notification nobody is parked,
\* however late a worker came to WaitAndPop.
THEOREM ShutDownReachesAll == Spec => []NobodyStaysParked
<1>1. WakeupInv => NobodyStaysParked
  BY DEF WakeupInv
<1>2. QED
  BY <1>1, WakeupInit, WakeupStep, Invariance, PTL DEF Spec

===============================================================================
