------------------------------- MODULE Database --------------------------------
(***************************************************************************)
(* Saving players (Player::SaveToDB, Engine/Database): the thread that     *)
(* updates a player takes a prepared statement from the pool and executes  *)
(* it, or hands it as an operator to one of the database workers and later *)
(* collects the result from a future.  Whoever destroys the result gives   *)
(* the statement back.  An operator is named by its statement, which is    *)
(* locked as long as the operator exists.                                  *)
(***************************************************************************)
EXTENDS Integers, Sequences, FiniteSets

CONSTANTS
  Players,
  Statements,       \* the statements of all pooled connections
  NumWorkers,       \* Base::m_Workers
  MaxSaves,         \* bound: the times a player is saved
  SpuriousWakeups,  \* whether condition_variable::wait may return unnotified
  None              \* no statement, and the player of a statement never used

ASSUME DatabaseAssumption ==
  /\ IsFiniteSet(Players) /\ IsFiniteSet(Statements)
  /\ NumWorkers \in Nat \ {0}
  /\ MaxSaves \in Nat
  /\ SpuriousWakeups \in BOOLEAN
  /\ None \notin Statements \union Players

Workers == 0 .. NumWorkers - 1

\* SaveToDB writes two tables, each with a statement of its own.
Tables == {"accounts", "account_ship"}

VARIABLES
  locked,    \* the statements whose m_Mutex is locked
  job,       \* what each statement was prepared to write
  pc,        \* where the thread is that updates each player
  mode,      \* the save in progress: "async", or "final" for that of ~Player
  table,     \* the table it has reached
  stmt,      \* its statement
  chosen,    \* the worker SelectWorker has chosen for it
  version,   \* how often the player has changed: what a save writes
  futures,   \* Player::m_OperatorProcessor: the statements of its futures
  ready,     \* the statements whose operator has set its promise
  queue,     \* ProducerQueue::m_Queue of each worker
  workerPc,  \* where each worker is
  task,      \* each worker's l_Operator
  row,       \* the database: the version in each player's row of each table
  undefined  \* a deleted operator has been used

saveVars == <<pc, mode, table, stmt, chosen, version>>
workerVars == <<queue, workerPc, task>>
vars == <<locked, job, saveVars, futures, ready, workerVars, row, undefined>>

Jobs == [player : Players \union {None}, table : Tables,
         version : 0 .. MaxSaves + 1]

NoJob == [player |-> None, table |-> "accounts", version |-> 0]

Init ==
  /\ locked = {}
  /\ job = [s \in Statements |-> NoJob]
  /\ pc = [p \in Players |-> "idle"]
  /\ mode = [p \in Players |-> "async"]
  /\ table = [p \in Players |-> "accounts"]
  /\ stmt = [p \in Players |-> None]
  /\ chosen = [p \in Players |-> 0]
  /\ version = [p \in Players |-> 0]
  /\ futures = [p \in Players |-> {}]
  /\ ready = {}
  /\ queue = [w \in Workers |-> <<>>]
  /\ workerPc = [w \in Workers |-> "idle"]
  /\ task = [w \in Workers |-> None]
  /\ row = [t \in Tables |-> [p \in Players |-> 0]]
  /\ undefined = FALSE

-------------------------------------------------------------------------------
(* The thread that updates a player *)

\* SaveToDB of a player that has changed since: from Player::Update and from
\* jumps asynchronously, from ~Player synchronously and for the last time.
BeginSave(p, m) ==
  /\ pc[p] = "idle"
  /\ m # "final" => version[p] < MaxSaves
  /\ version' = [version EXCEPT ![p] = @ + 1]
  /\ mode' = [mode EXCEPT ![p] = m]
  /\ table' = [table EXCEPT ![p] = "accounts"]
  /\ pc' = [pc EXCEPT ![p] = "prepare"]
  /\ UNCHANGED <<locked, job, stmt, chosen, futures, ready, workerVars, row,
                 undefined>>

\* GetPrepareStatement, which goes round the pool until it can lock a statement,
\* and PrepareStatement.
Prepare(p) ==
  /\ pc[p] = "prepare"
  /\ \E s \in Statements \ locked :
       /\ locked' = locked \union {s}
       /\ stmt' = [stmt EXCEPT ![p] = s]
       /\ job' = [job EXCEPT ![s] = [player |-> p, table |-> table[p],
                                     version |-> version[p]]]
  /\ pc' = [pc EXCEPT ![p] = IF mode[p] = "async" THEN "select" ELSE "execute"]
  /\ UNCHANGED <<mode, table, chosen, version, futures, ready, workerVars, row,
                 undefined>>

\* SaveToDB after one table: the other table, or the end of the save.
NextTable(p) ==
  /\ stmt' = [stmt EXCEPT ![p] = None]
  /\ IF table[p] = "accounts"
     THEN /\ table' = [table EXCEPT ![p] = "account_ship"]
          /\ pc' = [pc EXCEPT ![p] = "prepare"]
     ELSE /\ pc' = [pc EXCEPT ![p] = IF mode[p] = "final" THEN "saved"
                                     ELSE "idle"]
          /\ UNCHANGED table

Written(s) == [row EXCEPT ![job[s].table][job[s].player] = job[s].version]

\* ExecuteStatement on the spot; its result is destroyed, which frees the
\* statement.
ExecuteStatement(p) ==
  /\ pc[p] = "execute"
  /\ row' = Written(stmt[p])
  /\ locked' = locked \ {stmt[p]}
  /\ NextTable(p)
  /\ UNCHANGED <<job, mode, chosen, version, futures, ready, workerVars, undefined>>

\* The index SelectWorker returns: of the first of the shortest queues, if that
\* is shorter than the number of workers, for that is where the minimum starts.
Selected(size) ==
  LET short == {w \in Workers : size[w] < NumWorkers}
      shortest == {w \in short : \A v \in short : size[w] <= size[v]}
  IN IF short = {} THEN 0 ELSE CHOOSE w \in shortest : \A v \in shortest : w <= v

\* EnqueueOperator: SelectWorker asks the workers for their sizes, one by one,
\* which no other thread's push is allowed to interrupt here.
SelectWorker(p) ==
  /\ pc[p] = "select"
  /\ chosen' = [chosen EXCEPT ![p] = Selected([w \in Workers |-> Len(queue[w])])]
  /\ pc' = [pc EXCEPT ![p] = "push"]
  /\ UNCHANGED <<locked, job, mode, table, stmt, version, futures, ready,
                 workerVars, row, undefined>>

\* AddOperator: push and notify.
Push(p) ==
  /\ pc[p] = "push"
  /\ LET w == chosen[p]
     IN /\ queue' = [queue EXCEPT ![w] = Append(@, stmt[p])]
        /\ workerPc' = [workerPc EXCEPT ![w] = IF @ = "parked" THEN "woken" ELSE @]
  /\ pc' = [pc EXCEPT ![p] = "future"]
  /\ UNCHANGED <<locked, job, mode, table, stmt, chosen, version, futures, ready,
                 task, row, undefined>>

\* The operator of s exists: it is queued or a worker has it.
Live(s) ==
  \/ \E w \in Workers : \E i \in DOMAIN queue[w] : queue[w][i] = s
  \/ \E w \in Workers : task[w] = s

\* Mutant: PrepareOperator does not give up its statement.
GetFutureKeepingStatement(p) ==
  /\ pc[p] = "future"
  /\ Live(stmt[p])
  /\ futures' = [futures EXCEPT ![p] = @ \union {stmt[p]}]
  /\ pc' = [pc EXCEPT ![p] = "idle"]
  /\ UNCHANGED <<locked, job, mode, table, stmt, chosen, version, ready,
                 workerVars, row, undefined>>

\* PrepareOperator asks the operator it has pushed for its future, and the
\* player keeps it.
GetFuture(p) ==
  /\ pc[p] = "future"
  /\ IF Live(stmt[p]) /\ job[stmt[p]].player = p
     THEN /\ futures' = [futures EXCEPT ![p] = @ \union {stmt[p]}]
          /\ NextTable(p)
          /\ UNCHANGED undefined
     ELSE /\ undefined' = TRUE
          /\ UNCHANGED <<futures, stmt, table, pc>>
  /\ UNCHANGED <<locked, job, mode, chosen, version, ready, workerVars, row>>

\* Mutant: the operators whose results are taken are not forgotten.
ProcessOperatorsKeepingThem(p) ==
  /\ pc[p] = "idle"
  /\ LET done == futures[p] \intersect ready
     IN /\ done # {}
        /\ locked' = locked \ done
  /\ UNCHANGED <<job, saveVars, futures, ready, workerVars, row, undefined>>

\* ProcessOperators: take the results that are there and destroy them.
ProcessOperators(p) ==
  /\ pc[p] = "idle"
  /\ LET done == futures[p] \intersect ready
     IN /\ done # {}
        /\ futures' = [futures EXCEPT ![p] = @ \ done]
        /\ ready' = ready \ done
        /\ locked' = locked \ done
  /\ UNCHANGED <<job, saveVars, workerVars, row, undefined>>

\* The end of ~Player: its futures are destroyed, with the results they have.
DestroyFutures(p) ==
  /\ pc[p] = "saved"
  /\ pc' = [pc EXCEPT ![p] = "gone"]
  /\ futures' = [futures EXCEPT ![p] = {}]
  /\ ready' = ready \ futures[p]
  /\ locked' = locked \ (futures[p] \intersect ready)
  /\ UNCHANGED <<job, mode, table, stmt, chosen, version, workerVars, row,
                 undefined>>

-------------------------------------------------------------------------------
(* A database worker *)

\* WaitAndPop waits whenever the producer has not been shut down, be there
\* operators in the queue or not.
WaitAndPop(w) ==
  /\ workerPc[w] = "idle"
  /\ workerPc' = [workerPc EXCEPT ![w] = "parked"]
  /\ UNCHANGED <<locked, job, saveVars, futures, ready, queue, task, row, undefined>>

\* The rest of WaitAndPop, and the test of l_Operator in Update.
Resume(w) ==
  /\ workerPc[w] = "woken"
  /\ IF queue[w] = <<>>
     THEN /\ workerPc' = [workerPc EXCEPT ![w] = "idle"]
          /\ UNCHANGED <<queue, task>>
     ELSE /\ workerPc' = [workerPc EXCEPT ![w] = "busy"]
          /\ task' = [task EXCEPT ![w] = Head(queue[w])]
          /\ queue' = [queue EXCEPT ![w] = Tail(@)]
  /\ UNCHANGED <<locked, job, saveVars, futures, ready, row, undefined>>

\* Mutant: the statement of an operator is freed by the worker in any case.
ExecuteAndFree(w) ==
  /\ workerPc[w] = "busy"
  /\ row' = Written(task[w])
  /\ ready' = ready \union {task[w]}
  /\ locked' = locked \ {task[w]}
  /\ workerPc' = [workerPc EXCEPT ![w] = "idle"]
  /\ task' = [task EXCEPT ![w] = None]
  /\ UNCHANGED <<job, saveVars, futures, queue, undefined>>

\* Execute the operator, set its promise and delete it.  The result goes to the
\* future, and is destroyed with the promise if there is none (any more).
Execute(w) ==
  /\ workerPc[w] = "busy"
  /\ LET s == task[w]
     IN /\ row' = Written(s)
        /\ IF \E p \in Players : s \in futures[p]
           THEN ready' = ready \union {s} /\ UNCHANGED locked
           ELSE locked' = locked \ {s} /\ UNCHANGED ready
  /\ workerPc' = [workerPc EXCEPT ![w] = "idle"]
  /\ task' = [task EXCEPT ![w] = None]
  /\ UNCHANGED <<job, saveVars, futures, queue, undefined>>

\* The C++ library: a wait may return although nobody notified.
SpuriousWakeup(w) ==
  /\ SpuriousWakeups
  /\ workerPc[w] = "parked"
  /\ workerPc' = [workerPc EXCEPT ![w] = "woken"]
  /\ UNCHANGED <<locked, job, saveVars, futures, ready, queue, task, row, undefined>>

-------------------------------------------------------------------------------
\* What a thread does once it has begun, and in every update of a player.
PlayerStep(p) ==
  \/ Prepare(p)
  \/ ExecuteStatement(p)
  \/ SelectWorker(p)
  \/ Push(p)
  \/ GetFuture(p)
  \/ ProcessOperators(p)
  \/ DestroyFutures(p)

WorkerStep(w) ==
  \/ WaitAndPop(w)
  \/ Resume(w)
  \/ Execute(w)

Next ==
  /\ ~undefined
  /\ \/ \E p \in Players, m \in {"async", "final"} : BeginSave(p, m)
     \/ \E p \in Players : PlayerStep(p)
     \/ \E w \in Workers : WorkerStep(w) \/ SpuriousWakeup(w)

Spec == Init /\ [][Next]_vars

\* Every database worker has a thread of its own, and the world updates its
\* players for ever.
FairSpec ==
  /\ Spec
  /\ \A w \in Workers : WF_vars(~undefined /\ WorkerStep(w))
  /\ \A p \in Players : WF_vars(~undefined /\ PlayerStep(p))

-------------------------------------------------------------------------------
HasStatement(p) == pc[p] \in {"execute", "select", "push", "future"}

TypeOK ==
  /\ locked \subseteq Statements
  /\ job \in [Statements -> Jobs]
  /\ pc \in [Players -> {"idle", "prepare", "execute", "select", "push",
                         "future", "saved", "gone"}]
  /\ mode \in [Players -> {"async", "final"}]
  /\ table \in [Players -> Tables]
  /\ stmt \in [Players -> Statements \union {None}]
  /\ \A p \in Players : stmt[p] # None <=> HasStatement(p)
  /\ chosen \in [Players -> Workers]
  /\ version \in [Players -> 0 .. MaxSaves + 1]
  /\ futures \in [Players -> SUBSET Statements]
  /\ ready \subseteq Statements
  /\ queue \in [Workers -> Seq(Statements)]
  /\ workerPc \in [Workers -> {"idle", "parked", "woken", "busy"}]
  /\ task \in [Workers -> Statements \union {None}]
  /\ row \in [Tables -> [Players -> 0 .. MaxSaves + 1]]
  /\ undefined \in BOOLEAN

\* The places that hold statement s and will use it or give it back: threads
\* that have prepared it, entries of queues, workers, futures with its result.
Holders(s) ==
  {<<"thread", p>> : p \in {q \in Players : stmt[q] = s /\ pc[q] # "future"}}
  \union (UNION {{<<"queue", w, i>> : i \in {j \in DOMAIN queue[w] : queue[w][j] = s}} :
                 w \in Workers})
  \union {<<"worker", w>> : w \in {v \in Workers : task[v] = s}}
  \union {<<"future", p>> : p \in {q \in Players : s \in futures[q] \intersect ready}}

\* A statement of the pool is in the hands of nobody when it is free and of one
\* holder when it is locked: it is never used by two threads, and never lost to
\* the pool (Clear, PreparedStatement.cpp:92).
StatementHasOneHolder ==
  \A s \in Statements : Cardinality(Holders(s)) = IF s \in locked THEN 1 ELSE 0

\* The result in a player's future is that of a query of that player, prepared
\* by it and by nobody since (PrepareStatementOperator::Execute, :46).
FutureIsForItsPlayer ==
  \A p \in Players : \A s \in futures[p] :
    s \in locked /\ job[s].player = p

\* "Execute query on worker thread" (Database.cpp:96): every operator that is
\* queued is executed.
OperatorsAreExecuted ==
  \A s \in Statements :
    (\E w \in Workers : \E i \in DOMAIN queue[w] : queue[w][i] = s)
      ~> (undefined \/ \A w \in Workers : \A i \in DOMAIN queue[w] : queue[w][i] # s)

===============================================================================
