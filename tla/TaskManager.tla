----------------------------- MODULE TaskManager ------------------------------
(***************************************************************************)
(* The task manager (Engine/Threading) and its inclusive workers, which    *)
(* share the tasks of type Normal: a thread pushes or pops a task, each    *)
(* worker's thread runs the tasks it has been given, and the OptimizeTask  *)
(* periodically stops all workers and deals the tasks out again.  Tasks of *)
(* the other types have a thread of their own and are not modelled.        *)
(***************************************************************************)
EXTENDS Integers, Sequences, SequencesExt

CONSTANTS
  Tasks,       \* the tasks of type Normal the program pushes
  Endless,     \* those that do not return, as ZoneUpdater::WorkerThread
  NumWorkers,  \* the inclusive workers SetWorkerCount creates at start
  MaxOptimize  \* bound: how often the OptimizeTask's timer goes off

ASSUME TaskAssumption ==
  /\ IsFiniteSet(Tasks)
  /\ Endless \subseteq Tasks
  /\ NumWorkers \in Nat \ {0}
  /\ MaxOptimize \in Nat

Workers == 0 .. NumWorkers - 1

VARIABLES
  pushed,       \* the tasks that have been pushed
  registered,   \* TaskManager::m_Tasks
  workerTasks,  \* TaskWorker::m_Tasks of each worker
  isRunning,    \* its m_IsRunning
  slow,         \* its m_AverageRunTime: high or low
  thread,       \* its m_Thread: "none", or where UpdateThread is
  copy,         \* what is left of its l_Copy
  optimizePc,   \* where Optimize is
  suspending,   \* the worker Optimize suspends next
  optimized     \* how often it has run

workerVars == <<isRunning, slow, thread, copy>>
optimizeVars == <<optimizePc, suspending, optimized>>
vars == <<pushed, registered, workerTasks, workerVars, optimizeVars>>

ThreadPcs ==
  {"none",   \* m_Thread is null
   "top",    \* at the head of the loop
   "run",    \* in the loop over l_Copy
   "task",   \* in UpdateTask of the head of l_Copy
   "ended"}  \* the function has returned and nobody has joined the thread

Init ==
  /\ pushed = {}
  /\ registered = {}
  /\ workerTasks = [w \in Workers |-> <<>>]
  /\ isRunning = [w \in Workers |-> TRUE]
  /\ slow = [w \in Workers |-> FALSE]
  /\ thread = [w \in Workers |-> "top"]
  /\ copy = [w \in Workers |-> <<>>]
  /\ optimizePc = "idle"
  /\ suspending = 0
  /\ optimized = 0

-------------------------------------------------------------------------------
(* Any thread *)

\* The worker PushTask chooses: the last whose average is below that of the
\* first worker, for the minimum stays that of the first.
Chosen ==
  LET faster == {w \in Workers : slow[0] /\ ~slow[w]}
  IN IF faster = {} THEN 0 ELSE CHOOSE w \in faster : \A v \in faster : v <= w

\* PushTask holds the manager's mutex throughout.
PushTask(t) ==
  /\ t \notin pushed
  /\ pushed' = pushed \union {t}
  /\ registered' = registered \union {t}
  /\ workerTasks' = [workerTasks EXCEPT ![Chosen] = Append(@, t)]
  /\ UNCHANGED <<workerVars, optimizeVars>>

\* TaskWorker::PopTask erases the first occurrence.
WithoutFirst(tasks, t) ==
  IF \E i \in DOMAIN tasks : tasks[i] = t
  THEN RemoveAt(tasks, CHOOSE i \in DOMAIN tasks :
                         tasks[i] = t /\ \A j \in 1 .. i - 1 : tasks[j] # t)
  ELSE tasks

\* PopTask, but for its lock.
Pop(t) ==
  /\ registered' = registered \ {t}
  /\ workerTasks' = IF t \in registered
                    THEN [w \in Workers |-> WithoutFirst(workerTasks[w], t)]
                    ELSE workerTasks

PopTask(t) ==
  /\ t \in registered
  /\ Pop(t)
  /\ UNCHANGED <<pushed, workerVars, optimizeVars>>

-------------------------------------------------------------------------------
(* The thread of worker w: UpdateThread *)

\* The loop's test, and the copy of the tasks.
CopyTasks(w) ==
  /\ thread[w] = "top"
  /\ IF isRunning[w]
     THEN /\ thread' = [thread EXCEPT ![w] = "run"]
          /\ copy' = [copy EXCEPT ![w] = workerTasks[w]]
     ELSE /\ thread' = [thread EXCEPT ![w] = "ended"]
          /\ UNCHANGED copy
  /\ UNCHANGED <<pushed, registered, workerTasks, isRunning, slow,
                 optimizeVars>>

\* The worker has been stopped: leave the loop over the copy, and the function.
FastExit(w) ==
  /\ thread[w] = "run"
  /\ ~isRunning[w]
  /\ thread' = [thread EXCEPT ![w] = "ended"]
  /\ copy' = [copy EXCEPT ![w] = <<>>]
  /\ UNCHANGED <<pushed, registered, workerTasks, isRunning, slow,
                 optimizeVars>>

\* The period of the next task has not elapsed.
SkipTask(w) ==
  /\ thread[w] = "run"
  /\ isRunning[w]
  /\ copy[w] # <<>>
  /\ copy' = [copy EXCEPT ![w] = Tail(@)]
  /\ UNCHANGED <<pushed, registered, workerTasks, isRunning, slow, thread,
                 optimizeVars>>

\* Mutant: the task is taken off the copy before it is executed.
UpdateTaskTaken(w, t) ==
  /\ thread[w] = "run"
  /\ isRunning[w]
  /\ copy[w] # <<>>
  /\ Head(copy[w]) = t
  /\ copy' = [copy EXCEPT ![w] = Tail(@)]
  /\ thread' = [thread EXCEPT ![w] = "task"]
  /\ UNCHANGED <<pushed, registered, workerTasks, isRunning, slow,
                 optimizeVars>>

\* It has: start the next task, which is t.
UpdateTask(w, t) ==
  /\ thread[w] = "run"
  /\ isRunning[w]
  /\ copy[w] # <<>>
  /\ Head(copy[w]) = t
  /\ thread' = [thread EXCEPT ![w] = "task"]
  /\ UNCHANGED <<pushed, registered, workerTasks, isRunning, slow, copy,
                 optimizeVars>>

\* The task returns; if it returns false it is popped.
TaskReturns(w, result) ==
  /\ thread[w] = "task"
  /\ Head(copy[w]) \notin Endless
  /\ thread' = [thread EXCEPT ![w] = "run"]
  /\ copy' = [copy EXCEPT ![w] = Tail(@)]
  /\ IF result THEN UNCHANGED <<registered, workerTasks>> ELSE Pop(Head(copy[w]))
  /\ UNCHANGED <<pushed, isRunning, slow, optimizeVars>>

\* All tasks done: compute the average, and sleep.
EndLoop(w) ==
  /\ thread[w] = "run"
  /\ isRunning[w]
  /\ copy[w] = <<>>
  /\ thread' = [thread EXCEPT ![w] = "top"]
  /\ \E s \in BOOLEAN : slow' = [slow EXCEPT ![w] = s]
  /\ UNCHANGED <<pushed, registered, workerTasks, isRunning, copy,
                 optimizeVars>>

-------------------------------------------------------------------------------
(* The thread of the OptimizeTask: Optimize *)

\* Nothing is done if there is no task; else every worker is told to stop.
PreSuspend ==
  /\ optimizePc = "idle"
  /\ registered # {}
  /\ optimized < MaxOptimize
  /\ optimized' = optimized + 1
  /\ optimizePc' = "suspend"
  /\ suspending' = 0
  /\ isRunning' = [w \in Workers |-> FALSE]
  /\ UNCHANGED <<pushed, registered, workerTasks, slow, thread, copy>>

\* Suspend and PopAll of the next worker, which waits for its thread to end.
\* A thread that is past its FastExit writes the average after it was zeroed.
Suspend ==
  /\ optimizePc = "suspend"
  /\ thread[suspending] = "ended"
  /\ thread' = [thread EXCEPT ![suspending] = "none"]
  /\ \E s \in BOOLEAN : slow' = [slow EXCEPT ![suspending] = s]
  /\ workerTasks' = [workerTasks EXCEPT ![suspending] = <<>>]
  /\ suspending' = suspending + 1
  /\ optimizePc' = IF suspending' = NumWorkers THEN "deal" ELSE "suspend"
  /\ UNCHANGED <<pushed, registered, isRunning, copy, optimized>>

\* The tasks that worker w is dealt when they are in this order.
Dealt(order, w) ==
  [i \in 1 .. (Len(order) - w + NumWorkers - 1) \div NumWorkers |->
     order[(i - 1) * NumWorkers + w + 1]]

\* Mutant: the last task is not dealt.
DealButLast ==
  /\ optimizePc = "deal"
  /\ \E order \in SetToSeqs(registered) :
       workerTasks' = [w \in Workers |->
         workerTasks[w] \o Dealt(SubSeq(order, 1, Len(order) - 1), w)]
  /\ isRunning' = [w \in Workers |-> TRUE]
  /\ thread' = [w \in Workers |-> "top"]
  /\ optimizePc' = "idle"
  /\ UNCHANGED <<pushed, registered, slow, copy, suspending, optimized>>

\* Mutant: the threads are started before the workers are marked as running.
DealAndResumeStopped ==
  /\ optimizePc = "deal"
  /\ \E order \in SetToSeqs(registered) :
       workerTasks' = [w \in Workers |-> workerTasks[w] \o Dealt(order, w)]
  /\ thread' = [w \in Workers |-> "top"]
  /\ optimizePc' = "idle"
  /\ UNCHANGED <<pushed, registered, slow, isRunning, copy, suspending,
                 optimized>>

\* Mutant: the tasks that have been popped in the meantime are dealt too.
DealStale ==
  /\ optimizePc = "deal"
  /\ \E order \in SetToSeqs(pushed) :
       workerTasks' = [w \in Workers |-> workerTasks[w] \o Dealt(order, w)]
  /\ isRunning' = [w \in Workers |-> TRUE]
  /\ thread' = [w \in Workers |-> "top"]
  /\ optimizePc' = "idle"
  /\ UNCHANGED <<pushed, registered, slow, copy, suspending, optimized>>

\* Under the mutex again: sort the tasks by their times, deal them to the
\* workers in turn, and resume the workers.
Deal ==
  /\ optimizePc = "deal"
  /\ \E order \in SetToSeqs(registered) :
       workerTasks' = [w \in Workers |-> workerTasks[w] \o Dealt(order, w)]
  /\ isRunning' = [w \in Workers |-> TRUE]
  /\ thread' = [w \in Workers |-> "top"]
  /\ optimizePc' = "idle"
  /\ UNCHANGED <<pushed, registered, slow, copy, suspending, optimized>>

-------------------------------------------------------------------------------
WorkerStep(w) ==
  \/ CopyTasks(w)
  \/ FastExit(w)
  \/ SkipTask(w)
  \/ \E t \in Tasks : UpdateTask(w, t)
  \/ \E result \in BOOLEAN : TaskReturns(w, result)
  \/ EndLoop(w)

OptimizeStep ==
  \/ PreSuspend
  \/ Suspend
  \/ Deal

Next ==
  \/ \E t \in Tasks : PushTask(t) \/ PopTask(t)
  \/ \E w \in Workers : WorkerStep(w)
  \/ OptimizeStep

Spec == Init /\ [][Next]_vars

\* Every thread is scheduled, and time passes: a task that is looked at again
\* and again is due at last.  The OptimizeTask's timer is left to chance.
FairSpec ==
  /\ Spec
  /\ \A w \in Workers : WF_vars(WorkerStep(w))
  /\ \A w \in Workers, t \in Tasks : SF_vars(UpdateTask(w, t))
  /\ WF_vars(Suspend \/ Deal)

-------------------------------------------------------------------------------
TypeOK ==
  /\ pushed \subseteq Tasks
  /\ registered \subseteq pushed
  /\ workerTasks \in [Workers -> Seq(Tasks)]
  /\ isRunning \in [Workers -> BOOLEAN]
  /\ slow \in [Workers -> BOOLEAN]
  /\ thread \in [Workers -> ThreadPcs]
  /\ copy \in [Workers -> Seq(Tasks)]
  /\ \A w \in Workers : thread[w] = "task" => copy[w] # <<>>
  /\ optimizePc \in {"idle", "suspend", "deal"}
  /\ suspending \in 0 .. NumWorkers
  /\ optimized \in 0 .. MaxOptimize

\* No task is lost: outside of Optimize every task of the manager is in the
\* list of a worker, even if it is pushed or popped while Optimize has let go
\* of the mutex (ThrTaskManager.cpp:329 to :340).
RegisteredIsListed ==
  optimizePc = "idle" =>
    \A t \in registered : \E w \in Workers : t \in Range(workerTasks[w])

\* Worker w is in UpdateTask of t.
Executes(w, t) == thread[w] = "task" /\ Head(copy[w]) = t

\* A task that has been popped and is in no list any more stops ("If return
\* false, the task will stop", ThrLambdaTask.cpp:50): once the copies that hold
\* it are used up it is never executed again, for Optimize does not deal it.
PoppedTaskStops ==
  \A t \in Tasks :
    (t \in pushed \ registered /\ \A w \in Workers : t \notin Range(workerTasks[w]))
      ~> [](\A w \in Workers : ~Executes(w, t))

\* A task that has been pushed is executed, unless it is popped: PushTask is to
\* start it ("Number of threads to spawn", ZoneUpdater.cpp:101, one for each
\* task of ZoneUpdater::Activate).
RegisteredTaskRuns ==
  \A t \in Tasks :
    t \in registered ~> (t \notin registered \/ \E w \in Workers : Executes(w, t))

===============================================================================
