---------------------------- MODULE DatabaseProofs ----------------------------
(***************************************************************************)
(* The pool of statements, for any number of players, statements, workers  *)
(* and saves, with spurious wakeups or without: a statement has one holder *)
(* as long as it is locked, and none when it is free.  A holder is a kind, *)
(* who it is, and the place in the queue; each step either leaves the      *)
(* holders of a statement alone, or hands it on, or gives it back.         *)
(***************************************************************************)
EXTENDS Database, FiniteSetTheorems, WellFoundedInduction, TLAPS

\* The holders of a statement, one by one: what Holders(s) is the set of.
Holds(k, a, i, s) ==
  \/ k = "thread" /\ a \in Players /\ i = 0 /\ stmt[a] = s /\ pc[a] # "future"
  \/ k = "queue" /\ a \in Workers /\ i \in DOMAIN queue[a] /\ queue[a][i] = s
  \/ k = "worker" /\ a \in Workers /\ i = 0 /\ task[a] = s
  \/ k = "future" /\ a \in Players /\ i = 0 /\ s \in futures[a] /\ s \in ready

OneHolder(s) ==
  IF s \in locked
  THEN \E l, b, j : \A k, a, i : Holds(k, a, i, s) <=> k = l /\ a = b /\ i = j
  ELSE \A k, a, i : ~Holds(k, a, i, s)

BusyHasTask == \A w \in Workers : task[w] # None <=> workerPc[w] = "busy"

\* Nothing is saved after the save of ~Player.
SavesAreCounted ==
  \A p \in Players :
    /\ mode[p] = "async" => version[p] <= MaxSaves
    /\ pc[p] = "idle" => mode[p] = "async"

\* A result is kept for a future only, and a future without a result has an
\* operator that will set it.
ReadyIsAwaited == \A s \in ready : \E p \in Players : s \in futures[p]
AwaitedIsLive == \A p \in Players : \A s \in futures[p] : s \in ready \/ Live(s)

IInv ==
  /\ TypeOK
  /\ BusyHasTask
  /\ SavesAreCounted
  /\ FutureIsForItsPlayer
  /\ ReadyIsAwaited
  /\ AwaitedIsLive
  /\ \A s \in Statements : OneHolder(s)

-------------------------------------------------------------------------------
(* The constants, and the worker that is chosen *)

LEMMA Constants ==
  /\ NumWorkers \in Nat \ {0} /\ MaxSaves \in Nat
  /\ 0 \in Workers /\ Workers \subseteq Nat
  /\ None \notin Statements /\ None \notin Players
BY DatabaseAssumption DEF Workers

LEMMA Minimum ==
  ASSUME NEW S \in SUBSET Nat, S # {}
  PROVE  \E m \in S : \A n \in S : m <= n
<1>1. PICK m \in S : \A n \in S : ~(<<n, m>> \in OpToRel(<, Nat))
  BY NatLessThanWellFounded, WFMin, Zenon
<1>2. \A n \in S : ~(n < m)
  BY <1>1 DEF OpToRel
<1>3. \A n \in S : m <= n
  BY <1>2
<1>4. QED
  BY <1>3

LEMMA SelectedIsWorker ==
  ASSUME NEW size \in [Workers -> Nat]
  PROVE  Selected(size) \in Workers
<1> DEFINE short == {w \in Workers : size[w] < NumWorkers}
           shortest == {w \in short : \A v \in short : size[w] <= size[v]}
<1>1. CASE short = {}
  BY <1>1, Constants DEF Selected
<1>2. CASE short # {}
  <2>1. {size[w] : w \in short} \in SUBSET Nat /\ {size[w] : w \in short} # {}
    BY <1>2
  <2>2. PICK m \in {size[w] : w \in short} : \A n \in {size[w] : w \in short} : m <= n
    BY <2>1, Minimum
  <2>3. shortest # {}
    BY <2>2
  <2>4. shortest \in SUBSET Nat
    BY Constants
  <2>5. \E w \in shortest : \A v \in shortest : w <= v
    BY <2>3, <2>4, Minimum
  <2>6. Selected(size) = CHOOSE w \in shortest : \A v \in shortest : w <= v
    BY <1>2 DEF Selected
  <2>7. Selected(size) \in shortest
    BY <2>5, <2>6
  <2>8. QED
    BY <2>7
<1>3. QED
  BY <1>1, <1>2

-------------------------------------------------------------------------------
(* Type correctness *)

\* The fields of a save, but for the version, that NextTable and its callers set.
SaveTypes ==
  /\ pc \in [Players -> {"idle", "prepare", "execute", "select", "push",
                         "future", "saved", "gone"}]
  /\ table \in [Players -> Tables]
  /\ stmt \in [Players -> Statements \union {None}]
  /\ \A p \in Players : stmt[p] # None <=> HasStatement(p)

LEMMA NextTableFacts ==
  ASSUME TypeOK, NEW p \in Players, NextTable(p)
  PROVE  /\ SaveTypes'
         /\ \A q \in Players : q # p => pc'[q] = pc[q] /\ stmt'[q] = stmt[q]
         /\ stmt'[p] = None
         /\ pc'[p] = "idle" => mode[p] # "final"
<1> USE DEF Tables
<1>1. PICK n \in {"prepare", "idle", "saved"} :
        pc' = [pc EXCEPT ![p] = n] /\ (n = "idle" => mode[p] # "final")
  <2>1. CASE table[p] = "accounts"
    BY <2>1 DEF NextTable
  <2>2. CASE table[p] # "accounts"
    <3>1. CASE mode[p] = "final"
      BY <2>2, <3>1 DEF NextTable
    <3>2. CASE mode[p] # "final"
      BY <2>2, <3>2 DEF NextTable
    <3>3. QED
      BY <3>1, <3>2
  <2>3. QED
    BY <2>1, <2>2
<1>2. \A q \in Players : pc'[q] = IF q = p THEN n ELSE pc[q]
  BY <1>1 DEF TypeOK
<1>3. /\ stmt' \in [Players -> Statements \union {None}]
      /\ \A q \in Players : stmt'[q] = IF q = p THEN None ELSE stmt[q]
  BY DEF NextTable, TypeOK
<1>4. pc' \in [Players -> {"idle", "prepare", "execute", "select", "push",
                           "future", "saved", "gone"}]
  BY <1>1 DEF TypeOK
<1>5. table' \in [Players -> Tables]
  <2>1. table' = table \/ table' = [table EXCEPT ![p] = "account_ship"]
    BY DEF NextTable
  <2>2. QED
    BY <2>1 DEF TypeOK
<1>6. \A q \in Players : stmt'[q] # None <=> HasStatement(q)'
  BY <1>2, <1>3 DEF TypeOK, HasStatement
<1>7. QED
  BY <1>1, <1>2, <1>3, <1>4, <1>5, <1>6 DEF SaveTypes

LEMMA WrittenType ==
  ASSUME TypeOK, NEW s \in Statements
  PROVE  Written(s) \in [Tables -> [Players -> 0 .. MaxSaves + 1]]
<1>1. job[s].version \in 0 .. MaxSaves + 1
  BY DEF TypeOK, Jobs
<1>2. QED
  BY <1>1 DEF TypeOK, Written

LEMMA TypeStep ==
  ASSUME IInv, [Next]_vars
  PROVE  TypeOK' /\ BusyHasTask' /\ SavesAreCounted'
<1> USE Constants
<1> DEFINE Goal == TypeOK' /\ BusyHasTask' /\ SavesAreCounted'
<1>0. TypeOK /\ BusyHasTask /\ SavesAreCounted
  BY DEF IInv
<1>1. ASSUME NEW p \in Players, NEW m \in {"async", "final"}, BeginSave(p, m)
      PROVE  Goal
  <2>1. /\ \A q \in Players : version'[q] = IF q = p THEN version[p] + 1 ELSE version[q]
        /\ version[p] + 1 \in 0 .. MaxSaves + 1
        /\ m = "async" => version[p] + 1 <= MaxSaves
    BY <1>0, <1>1 DEF BeginSave, TypeOK, SavesAreCounted
  <2>2. version' \in [Players -> 0 .. MaxSaves + 1]
    BY <1>0, <1>1, <2>1 DEF BeginSave, TypeOK
  <2>3. /\ \A q \in Players : pc'[q] = IF q = p THEN "prepare" ELSE pc[q]
        /\ \A q \in Players : mode'[q] = IF q = p THEN m ELSE mode[q]
        /\ pc[p] = "idle"
    BY <1>0, <1>1 DEF BeginSave, TypeOK
  <2>4. SavesAreCounted'
    BY <1>0, <2>1, <2>3 DEF SavesAreCounted
  <2>5. \A q \in Players : stmt'[q] # None <=> HasStatement(q)'
    BY <1>0, <1>1, <2>3 DEF BeginSave, TypeOK, HasStatement
  <2>6. /\ pc' \in [Players -> {"idle", "prepare", "execute", "select", "push",
                                "future", "saved", "gone"}]
        /\ mode' \in [Players -> {"async", "final"}]
        /\ table' \in [Players -> Tables]
    BY <1>0, <1>1 DEF BeginSave, TypeOK, Tables
  <2>7. BusyHasTask'
    BY <1>0, <1>1 DEF BeginSave, BusyHasTask, workerVars
  <2>8. QED
    BY <1>0, <1>1, <2>2, <2>4, <2>5, <2>6, <2>7 DEF BeginSave, TypeOK, workerVars
<1>2. ASSUME NEW p \in Players, Prepare(p)
      PROVE  Goal
  <2>1. PICK s \in Statements \ locked :
          /\ locked' = locked \union {s}
          /\ stmt' = [stmt EXCEPT ![p] = s]
          /\ job' = [job EXCEPT ![s] = [player |-> p, table |-> table[p],
                                        version |-> version[p]]]
    BY <1>2 DEF Prepare
  <2>2. [player |-> p, table |-> table[p], version |-> version[p]] \in Jobs
    BY <1>0 DEF TypeOK, Jobs
  <2>3. job' \in [Statements -> Jobs]
    BY <1>0, <2>1, <2>2 DEF TypeOK
  <2>4. PICK n \in {"select", "execute"} : pc' = [pc EXCEPT ![p] = n]
    BY <1>2 DEF Prepare
  <2>5. \A q \in Players : pc'[q] = IF q = p THEN n ELSE pc[q]
    BY <1>0, <2>4 DEF TypeOK
  <2>6. \A q \in Players : stmt'[q] = IF q = p THEN s ELSE stmt[q]
    BY <1>0, <2>1 DEF TypeOK
  <2>7. \A q \in Players : stmt'[q] # None <=> HasStatement(q)'
    BY <1>0, <2>5, <2>6 DEF TypeOK, HasStatement
  <2>8. /\ pc' \in [Players -> {"idle", "prepare", "execute", "select", "push",
                                "future", "saved", "gone"}]
        /\ stmt' \in [Players -> Statements \union {None}]
        /\ locked' \subseteq Statements
    BY <1>0, <2>1, <2>4 DEF TypeOK
  <2>9. SavesAreCounted'
    BY <1>0, <1>2, <2>5 DEF Prepare, SavesAreCounted
  <2>10. BusyHasTask'
    BY <1>0, <1>2 DEF Prepare, BusyHasTask, workerVars
  <2>11. QED
    BY <1>0, <1>2, <2>3, <2>7, <2>8, <2>9, <2>10 DEF Prepare, TypeOK, workerVars
<1>3. ASSUME NEW p \in Players, ExecuteStatement(p)
      PROVE  Goal
  <2>1. stmt[p] \in Statements
    BY <1>0, <1>3 DEF ExecuteStatement, TypeOK, HasStatement
  <2>2. row' \in [Tables -> [Players -> 0 .. MaxSaves + 1]]
    BY <1>0, <1>3, <2>1, WrittenType DEF ExecuteStatement
  <2>3. /\ SaveTypes'
        /\ \A q \in Players : q # p => pc'[q] = pc[q]
        /\ pc'[p] = "idle" => mode[p] # "final"
    BY <1>0, <1>3, NextTableFacts DEF ExecuteStatement
  <2>4. SavesAreCounted'
    BY <1>0, <1>3, <2>3 DEF ExecuteStatement, SavesAreCounted, TypeOK
  <2>5. BusyHasTask'
    BY <1>0, <1>3 DEF ExecuteStatement, BusyHasTask, workerVars
  <2>6. QED
    BY <1>0, <1>3, <2>2, <2>3, <2>4, <2>5 DEF ExecuteStatement, TypeOK, SaveTypes, workerVars
<1>4. ASSUME NEW p \in Players, SelectWorker(p)
      PROVE  Goal
  <2>1. [w \in Workers |-> Len(queue[w])] \in [Workers -> Nat]
    BY <1>0 DEF TypeOK
  <2> DEFINE size == [w \in Workers |-> Len(queue[w])]
  <2>2. Selected(size) \in Workers
    BY <2>1, SelectedIsWorker
  <2>3. chosen' = [chosen EXCEPT ![p] = Selected(size)]
    BY <1>4 DEF SelectWorker
  <2> HIDE DEF size
  <2>4. chosen' \in [Players -> Workers]
    BY <1>0, <2>2, <2>3 DEF TypeOK
  <2>5. \A q \in Players : pc'[q] = IF q = p THEN "push" ELSE pc[q]
    BY <1>0, <1>4 DEF SelectWorker, TypeOK
  <2>6. \A q \in Players : stmt'[q] # None <=> HasStatement(q)'
    BY <1>0, <1>4, <2>5 DEF SelectWorker, TypeOK, HasStatement
  <2>7. pc' \in [Players -> {"idle", "prepare", "execute", "select", "push",
                             "future", "saved", "gone"}]
    BY <1>0, <1>4 DEF SelectWorker, TypeOK
  <2>8. SavesAreCounted'
    BY <1>0, <1>4, <2>5 DEF SelectWorker, SavesAreCounted
  <2>9. BusyHasTask'
    BY <1>0, <1>4 DEF SelectWorker, BusyHasTask, workerVars
  <2>10. QED
    BY <1>0, <1>4, <2>4, <2>6, <2>7, <2>8, <2>9 DEF SelectWorker, TypeOK, workerVars
<1>5. ASSUME NEW p \in Players, Push(p)
      PROVE  Goal
  <2>1. stmt[p] \in Statements /\ chosen[p] \in Workers
    BY <1>0, <1>5 DEF Push, TypeOK, HasStatement
  <2>2. queue' \in [Workers -> Seq(Statements)]
    <3>1. PICK w \in Workers : queue' = [queue EXCEPT ![w] = Append(queue[w], stmt[p])]
      BY <1>5, <2>1 DEF Push
    <3>2. queue[w] \in Seq(Statements) /\ queue \in [Workers -> Seq(Statements)]
      BY <1>0 DEF TypeOK
    <3>3. Append(queue[w], stmt[p]) \in Seq(Statements)
      BY <2>1, <3>2
    <3>4. QED
      BY <3>1, <3>2, <3>3
  <2>3. /\ workerPc' \in [Workers -> {"idle", "parked", "woken", "busy"}]
        /\ \A w \in Workers : workerPc'[w] = "busy" <=> workerPc[w] = "busy"
    BY <1>0, <1>5, <2>1 DEF Push, TypeOK
  <2>4. \A q \in Players : pc'[q] = IF q = p THEN "future" ELSE pc[q]
    BY <1>0, <1>5 DEF Push, TypeOK
  <2>5. \A q \in Players : stmt'[q] # None <=> HasStatement(q)'
    BY <1>0, <1>5, <2>4 DEF Push, TypeOK, HasStatement
  <2>6. pc' \in [Players -> {"idle", "prepare", "execute", "select", "push",
                             "future", "saved", "gone"}]
    BY <1>0, <1>5 DEF Push, TypeOK
  <2>7. SavesAreCounted'
    BY <1>0, <1>5, <2>4 DEF Push, SavesAreCounted
  <2>8. BusyHasTask'
    BY <1>0, <1>5, <2>3 DEF Push, BusyHasTask
  <2>9. QED
    BY <1>0, <1>5, <2>2, <2>3, <2>5, <2>6, <2>7, <2>8 DEF Push, TypeOK
<1>6. ASSUME NEW p \in Players, GetFuture(p)
      PROVE  Goal
  <2>1. BusyHasTask'
    BY <1>0, <1>6 DEF GetFuture, BusyHasTask, workerVars
  <2>2. stmt[p] \in Statements
    BY <1>0, <1>6 DEF GetFuture, TypeOK, HasStatement
  <2>3. CASE Live(stmt[p]) /\ job[stmt[p]].player = p
    <3>1. NextTable(p) /\ UNCHANGED undefined
          /\ futures' = [futures EXCEPT ![p] = @ \union {stmt[p]}]
      BY <1>6, <2>3 DEF GetFuture
    <3>2. futures' \in [Players -> SUBSET Statements]
      BY <1>0, <2>2, <3>1 DEF TypeOK
    <3>3. /\ SaveTypes'
          /\ \A q \in Players : q # p => pc'[q] = pc[q]
          /\ pc'[p] = "idle" => mode[p] # "final"
      BY <1>0, <3>1, NextTableFacts
    <3>4. SavesAreCounted'
      BY <1>0, <1>6, <3>3 DEF GetFuture, SavesAreCounted, TypeOK
    <3>5. QED
      BY <1>0, <1>6, <2>1, <3>1, <3>2, <3>3, <3>4 DEF GetFuture, TypeOK, SaveTypes, workerVars
  <2>4. CASE ~(Live(stmt[p]) /\ job[stmt[p]].player = p)
    <3>1. undefined' = TRUE /\ UNCHANGED <<futures, stmt, table, pc>>
      BY <1>6, <2>4 DEF GetFuture
    <3>2. QED
      BY <1>0, <1>6, <2>1, <3>1
         DEF GetFuture, TypeOK, HasStatement, SavesAreCounted, workerVars
  <2>5. QED
    BY <2>3, <2>4
<1>7. ASSUME NEW p \in Players, ProcessOperators(p) \/ DestroyFutures(p)
      PROVE  Goal
  <2>1. locked' \subseteq Statements /\ ready' \subseteq Statements
        /\ UNCHANGED workerVars
    BY <1>0, <1>7 DEF ProcessOperators, DestroyFutures, TypeOK
  <2>2. futures' \in [Players -> SUBSET Statements]
    <3>1. PICK S \in SUBSET Statements : futures' = [futures EXCEPT ![p] = S]
      BY <1>0, <1>7 DEF ProcessOperators, DestroyFutures, TypeOK
    <3>2. QED
      BY <1>0, <3>1 DEF TypeOK
  <2>3. /\ \A q \in Players : pc'[q] = pc[q] \/ (pc[q] = "saved" /\ pc'[q] = "gone")
        /\ pc' \in [Players -> {"idle", "prepare", "execute", "select", "push",
                                "future", "saved", "gone"}]
    BY <1>0, <1>7 DEF ProcessOperators, DestroyFutures, TypeOK, saveVars
  <2>4. UNCHANGED <<job, mode, table, stmt, chosen, version, row, undefined>>
    BY <1>7 DEF ProcessOperators, DestroyFutures, saveVars
  <2>5. \A q \in Players : stmt'[q] # None <=> HasStatement(q)'
    BY <1>0, <2>3, <2>4 DEF TypeOK, HasStatement
  <2>6. QED
    BY <1>0, <2>1, <2>2, <2>3, <2>4, <2>5 DEF TypeOK, BusyHasTask, SavesAreCounted, workerVars
<1>8. ASSUME UNCHANGED <<job, saveVars, futures, undefined>>,
             locked' \subseteq Statements, ready' \subseteq Statements,
             queue' \in [Workers -> Seq(Statements)],
             workerPc' \in [Workers -> {"idle", "parked", "woken", "busy"}],
             task' \in [Workers -> Statements \union {None}],
             row' \in [Tables -> [Players -> 0 .. MaxSaves + 1]],
             BusyHasTask'
      PROVE  Goal
  BY <1>0, <1>8 DEF saveVars, TypeOK, HasStatement, SavesAreCounted
<1>9. ASSUME NEW w \in Workers, WaitAndPop(w) \/ SpuriousWakeup(w)
      PROVE  Goal
  <2>1. BusyHasTask'
    BY <1>0, <1>9 DEF WaitAndPop, SpuriousWakeup, BusyHasTask, TypeOK
  <2>2. workerPc' \in [Workers -> {"idle", "parked", "woken", "busy"}]
    BY <1>0, <1>9 DEF WaitAndPop, SpuriousWakeup, TypeOK
  <2>3. UNCHANGED <<locked, job, saveVars, futures, ready, queue, task, row, undefined>>
    BY <1>9 DEF WaitAndPop, SpuriousWakeup
  <2>4. QED
    BY <1>0, <1>8, <2>1, <2>2, <2>3 DEF TypeOK
<1>10. ASSUME NEW w \in Workers, Resume(w)
       PROVE  Goal
  <2>1. UNCHANGED <<locked, job, saveVars, futures, ready, row, undefined>>
    BY <1>10 DEF Resume
  <2>2. queue[w] \in Seq(Statements)
    BY <1>0 DEF TypeOK
  <2>3. /\ queue' \in [Workers -> Seq(Statements)]
        /\ workerPc' \in [Workers -> {"idle", "parked", "woken", "busy"}]
        /\ task' \in [Workers -> Statements \union {None}]
        /\ BusyHasTask'
    <3>1. CASE queue[w] = <<>>
      BY <1>0, <1>10, <3>1 DEF Resume, TypeOK, BusyHasTask
    <3>2. CASE queue[w] # <<>>
      <4>1. Head(queue[w]) \in Statements /\ Tail(queue[w]) \in Seq(Statements)
        BY <2>2, <3>2
      <4>2. /\ workerPc' = [workerPc EXCEPT ![w] = "busy"]
            /\ task' = [task EXCEPT ![w] = Head(queue[w])]
            /\ queue' = [queue EXCEPT ![w] = Tail(queue[w])]
        BY <1>10, <3>2 DEF Resume
      <4>3. queue' \in [Workers -> Seq(Statements)]
        BY <1>0, <4>1, <4>2 DEF TypeOK
      <4>4. /\ workerPc' \in [Workers -> {"idle", "parked", "woken", "busy"}]
            /\ task' \in [Workers -> Statements \union {None}]
        BY <1>0, <4>1, <4>2 DEF TypeOK
      <4>5. BusyHasTask'
        BY <1>0, <4>1, <4>2 DEF TypeOK, BusyHasTask
      <4>6. QED
        BY <4>3, <4>4, <4>5
    <3>3. QED
      BY <3>1, <3>2
  <2>4. QED
    BY <1>0, <1>8, <2>1, <2>3 DEF TypeOK
<1>11. ASSUME NEW w \in Workers, Execute(w)
       PROVE  Goal
  <2>1. task[w] \in Statements
    BY <1>0, <1>11 DEF Execute, TypeOK, BusyHasTask
  <2>2. row' \in [Tables -> [Players -> 0 .. MaxSaves + 1]]
    BY <1>0, <1>11, <2>1, WrittenType DEF Execute
  <2>3. locked' \subseteq Statements /\ ready' \subseteq Statements
    BY <1>0, <1>11, <2>1 DEF Execute, TypeOK
  <2>4. /\ workerPc' \in [Workers -> {"idle", "parked", "woken", "busy"}]
        /\ task' \in [Workers -> Statements \union {None}]
        /\ BusyHasTask'
    BY <1>0, <1>11 DEF Execute, TypeOK, BusyHasTask
  <2>5. QED
    BY <1>0, <1>8, <1>11, <2>2, <2>3, <2>4 DEF Execute, TypeOK
<1>12. CASE UNCHANGED vars
  <2>1. BusyHasTask'
    BY <1>0, <1>12 DEF BusyHasTask, vars, workerVars
  <2>2. QED
    BY <1>0, <1>8, <1>12, <2>1 DEF vars, workerVars, TypeOK
<1>13. QED
  BY <1>1, <1>2, <1>3, <1>4, <1>5, <1>6, <1>7, <1>9, <1>10, <1>11, <1>12
     DEF Next, PlayerStep, WorkerStep

-------------------------------------------------------------------------------
(* Holders and futures *)

Pool ==
  /\ FutureIsForItsPlayer
  /\ ReadyIsAwaited
  /\ AwaitedIsLive
  /\ \A s \in Statements : OneHolder(s)

\* A statement with a holder is locked, and has no other holder.
LEMMA HolderFacts ==
  ASSUME IInv, NEW s \in Statements, NEW k, NEW a, NEW i, Holds(k, a, i, s)
  PROVE  /\ s \in locked
         /\ \A l, b, j : Holds(l, b, j, s) => l = k /\ b = a /\ j = i
<1>1. OneHolder(s)
  BY DEF IInv
<1>2. s \in locked
  BY <1>1 DEF OneHolder
<1>3. PICK l, b, j : \A m, c, n : Holds(m, c, n, s) <=> m = l /\ c = b /\ n = j
  BY <1>1, <1>2 DEF OneHolder
<1>4. QED
  BY <1>2, <1>3

LEMMA HeldByOther ==
  ASSUME NEW s \in Statements, s \in locked', NEW l, NEW b, NEW j,
         \A k, a, i : Holds(k, a, i, s)' <=> k = l /\ a = b /\ i = j
  PROVE  OneHolder(s)'
<1>1. SUFFICES ASSUME ~OneHolder(s)'
               PROVE  FALSE
  OBVIOUS
<1>2. ASSUME NEW m, NEW c, NEW n
      PROVE  ~(\A k, a, i : Holds(k, a, i, s)' <=> k = m /\ a = c /\ i = n)
  BY <1>1, <1>2 DEF OneHolder
<1>3. ~(\A k, a, i : Holds(k, a, i, s)' <=> k = l /\ a = b /\ i = j)
  BY <1>2
<1>4. QED
  BY <1>3

LEMMA HeldUnchanged ==
  ASSUME NEW s \in Statements, OneHolder(s), s \in locked' <=> s \in locked,
         \A k, a, i : Holds(k, a, i, s)' <=> Holds(k, a, i, s)
  PROVE  OneHolder(s)'
BY DEF OneHolder

LEMMA LiveFacts ==
  ASSUME IInv, NEW s \in Statements, Live(s)
  PROVE  /\ s \in locked /\ s \notin ready
         /\ \A p \in Players : stmt[p] = s => pc[p] = "future"
<1>1. PICK k, a, i : Holds(k, a, i, s) /\ k \in {"queue", "worker"}
  <2>1. CASE \E w \in Workers : task[w] = s
    BY <2>1 DEF Holds
  <2>2. CASE \E w \in Workers : \E j \in DOMAIN queue[w] : queue[w][j] = s
    BY <2>2 DEF Holds
  <2>3. QED
    BY <2>1, <2>2 DEF Live
<1>2. /\ s \in locked
      /\ \A l, b, j : Holds(l, b, j, s) => l = k
  BY <1>1, HolderFacts
<1>3. s \notin ready
  <2>1. SUFFICES ASSUME s \in ready
                 PROVE  FALSE
    OBVIOUS
  <2>2. PICK p \in Players : s \in futures[p]
    BY <2>1 DEF IInv, ReadyIsAwaited
  <2>3. Holds("future", p, 0, s)
    BY <2>1, <2>2 DEF Holds
  <2>4. QED
    BY <1>1, <1>2, <2>3
<1>4. ASSUME NEW p \in Players, stmt[p] = s, pc[p] # "future"
      PROVE  FALSE
  <2>1. Holds("thread", p, 0, s)
    BY <1>4 DEF Holds
  <2>2. QED
    BY <1>1, <1>2, <2>1
<1>5. QED
  BY <1>2, <1>3, <1>4

\* What a thread has before it pushes belongs to no operator and no future.
LEMMA ThreadFacts ==
  ASSUME IInv, NEW p \in Players, pc[p] \in {"execute", "select", "push"}
  PROVE  /\ stmt[p] \in Statements /\ stmt[p] \in locked
         /\ Holds("thread", p, 0, stmt[p])
         /\ ~Live(stmt[p]) /\ \A q \in Players : stmt[p] \notin futures[q]
<1>1. stmt[p] \in Statements
  BY DEF IInv, TypeOK, HasStatement
<1>2. Holds("thread", p, 0, stmt[p])
  BY DEF Holds
<1>3. ~Live(stmt[p])
  BY <1>1, LiveFacts
<1>4. ASSUME NEW q \in Players, stmt[p] \in futures[q]
      PROVE  FALSE
  <2>1. stmt[p] \in ready
    BY <1>3, <1>4 DEF IInv, AwaitedIsLive
  <2>2. Holds("future", q, 0, stmt[p])
    BY <1>4, <2>1 DEF Holds
  <2>3. "future" = "thread"
    BY <1>1, <1>2, <2>2, HolderFacts
  <2>4. QED
    BY <2>3
<1>5. QED
  BY <1>1, <1>2, <1>3, <1>4, HolderFacts

LEMMA QuietStep ==
  ASSUME IInv, UNCHANGED <<locked, job, stmt, futures, ready, queue, task>>,
         \A p \in Players : stmt[p] # None => (pc'[p] = "future" <=> pc[p] = "future")
  PROVE  Pool'
<1>1. ASSUME NEW s \in Statements
      PROVE  OneHolder(s)'
  <2>1. s # None
    BY Constants
  <2>2. \A k, a, i : Holds(k, a, i, s)' <=> Holds(k, a, i, s)
    BY <2>1 DEF Holds
  <2>3. QED
    BY <2>2, HeldUnchanged DEF IInv
<1>2. FutureIsForItsPlayer' /\ ReadyIsAwaited' /\ AwaitedIsLive'
  BY DEF IInv, FutureIsForItsPlayer, ReadyIsAwaited, AwaitedIsLive, Live
<1>3. QED
  BY <1>1, <1>2 DEF Pool

LEMMA PrepareStep ==
  ASSUME IInv, NEW p \in Players, Prepare(p)
  PROVE  Pool'
<1>1. PICK t \in Statements \ locked :
        /\ locked' = locked \union {t}
        /\ stmt' = [stmt EXCEPT ![p] = t]
        /\ job' = [job EXCEPT ![t] = [player |-> p, table |-> table[p],
                                      version |-> version[p]]]
  BY DEF Prepare
<1>2. PICK n \in {"select", "execute"} : pc' = [pc EXCEPT ![p] = n]
  BY DEF Prepare
<1>3. /\ \A q \in Players : pc'[q] = IF q = p THEN n ELSE pc[q]
      /\ \A q \in Players : stmt'[q] = IF q = p THEN t ELSE stmt[q]
      /\ stmt[p] = None
  BY <1>1, <1>2 DEF Prepare, IInv, TypeOK, HasStatement
<1>4. UNCHANGED <<queue, task, futures, ready>>
  BY DEF Prepare, workerVars
<1>5. ASSUME NEW s \in Statements
      PROVE  OneHolder(s)'
  <2>1. \A k, a, i : ~Holds(k, a, i, t)
    BY HolderFacts
  <2>2. CASE s = t
    <3>1. \A k, a, i : Holds(k, a, i, t)' <=> k = "thread" /\ a = p /\ i = 0
      BY <1>2, <1>3, <1>4, <2>1 DEF Holds
    <3>2. QED
      BY <1>1, <2>2, <3>1, HeldByOther
  <2>3. CASE s # t
    <3>1. s # None
      BY Constants
    <3>2. \A k, a, i : Holds(k, a, i, s)' <=> Holds(k, a, i, s)
      BY <1>3, <1>4, <2>3, <3>1 DEF Holds
    <3>3. QED
      BY <1>1, <2>3, <3>2, HeldUnchanged DEF IInv
  <2>4. QED
    BY <2>2, <2>3
<1>6. FutureIsForItsPlayer'
  <2>1. \A s \in Statements : s # t => job'[s] = job[s]
    BY <1>1 DEF IInv, TypeOK
  <2>2. \A q \in Players : futures[q] \subseteq Statements
    BY DEF IInv, TypeOK
  <2>3. QED
    BY <1>1, <1>4, <2>1, <2>2 DEF IInv, FutureIsForItsPlayer
<1>7. ReadyIsAwaited' /\ AwaitedIsLive'
  BY <1>4 DEF IInv, ReadyIsAwaited, AwaitedIsLive, Live
<1>8. QED
  BY <1>5, <1>6, <1>7 DEF Pool

LEMMA ExecuteStatementStep ==
  ASSUME IInv, NEW p \in Players, ExecuteStatement(p)
  PROVE  Pool'
<1> DEFINE t == stmt[p]
<1>1. /\ t \in Statements /\ Holds("thread", p, 0, t)
      /\ \A q \in Players : t \notin futures[q]
  BY ThreadFacts DEF ExecuteStatement
<1>2. locked' = locked \ {t} /\ UNCHANGED <<job, futures, ready, queue, task>>
  BY DEF ExecuteStatement, workerVars
<1>3. /\ \A q \in Players : q # p => pc'[q] = pc[q] /\ stmt'[q] = stmt[q]
      /\ stmt'[p] = None
  BY NextTableFacts DEF ExecuteStatement, IInv
<1> HIDE DEF t
<1>4. ASSUME NEW s \in Statements
      PROVE  OneHolder(s)'
  <2>1. s # None
    BY Constants
  <2>2. \A k, a, i : Holds(k, a, i, s)' <=>
          Holds(k, a, i, s) /\ ~(k = "thread" /\ a = p)
    BY <1>2, <1>3, <2>1 DEF Holds
  <2>3. CASE s = t
    <3>1. \A k, a, i : ~Holds(k, a, i, s)'
      BY <1>1, <2>2, <2>3, HolderFacts
    <3>2. QED
      BY <1>2, <2>3, <3>1 DEF OneHolder
  <2>4. CASE s # t
    <3>1. \A i : ~Holds("thread", p, i, s)
      BY <2>4 DEF Holds, t
    <3>2. QED
      BY <1>2, <2>2, <2>4, <3>1, HeldUnchanged DEF IInv
  <2>5. QED
    BY <2>3, <2>4
<1>5. FutureIsForItsPlayer' /\ ReadyIsAwaited' /\ AwaitedIsLive'
  BY <1>1, <1>2 DEF IInv, FutureIsForItsPlayer, ReadyIsAwaited, AwaitedIsLive, Live
<1>6. QED
  BY <1>4, <1>5 DEF Pool

LEMMA PushStep ==
  ASSUME IInv, NEW p \in Players, Push(p)
  PROVE  Pool'
<1>0. PICK t, w, n : t = stmt[p] /\ w = chosen[p] /\ n = Len(queue[w]) + 1
  OBVIOUS
<1>1. /\ t \in Statements /\ Holds("thread", p, 0, t) /\ t \in locked
      /\ ~Live(t) /\ \A q \in Players : t \notin futures[q]
  BY <1>0, ThreadFacts DEF Push
<1>2. w \in Workers /\ queue[w] \in Seq(Statements)
  BY <1>0 DEF IInv, TypeOK
<1>3. queue' = [queue EXCEPT ![w] = Append(queue[w], t)]
  BY <1>0 DEF Push
<1>4. /\ UNCHANGED <<locked, job, stmt, futures, ready, task>>
      /\ \A q \in Players : pc'[q] = IF q = p THEN "future" ELSE pc[q]
  BY DEF Push, IInv, TypeOK
<1>5. \A v \in Workers : queue'[v] = IF v = w THEN Append(queue[w], t) ELSE queue[v]
  BY <1>2, <1>3 DEF IInv, TypeOK
<1>6. \A j : j \in DOMAIN Append(queue[w], t) <=> j \in DOMAIN queue[w] \/ j = n
  BY <1>0, <1>1, <1>2
<1>7. /\ n \notin DOMAIN queue[w] /\ Append(queue[w], t)[n] = t
      /\ \A j \in DOMAIN queue[w] : Append(queue[w], t)[j] = queue[w][j]
  BY <1>0, <1>1, <1>2
<1> DEFINE At(v, j, s) == j \in DOMAIN queue[v] /\ queue[v][j] = s
<1>13. ASSUME NEW v \in Workers, NEW j, NEW s
       PROVE  At(v, j, s)' <=> At(v, j, s) \/ (v = w /\ j = n /\ s = t)
  <2>1. CASE v = w
    <3>1. queue'[v] = Append(queue[w], t)
      BY <1>5, <2>1
    <3>2. QED
      BY <1>6, <1>7, <2>1, <3>1
  <2>2. CASE v # w
    <3>1. queue'[v] = queue[v]
      BY <1>5, <2>2
    <3>2. QED
      BY <2>2, <3>1
  <2>3. QED
    BY <2>1, <2>2
<1>14. /\ \A k, a, i, s : Holds(k, a, i, s) <=>
            \/ k = "thread" /\ a \in Players /\ i = 0 /\ stmt[a] = s /\ pc[a] # "future"
            \/ k = "queue" /\ a \in Workers /\ At(a, i, s)
            \/ k = "worker" /\ a \in Workers /\ i = 0 /\ task[a] = s
            \/ k = "future" /\ a \in Players /\ i = 0 /\ s \in futures[a] /\ s \in ready
       /\ \A k, a, i, s : Holds(k, a, i, s)' <=>
            \/ k = "thread" /\ a \in Players /\ i = 0 /\ stmt[a] = s /\ pc'[a] # "future"
            \/ k = "queue" /\ a \in Workers /\ At(a, i, s)'
            \/ k = "worker" /\ a \in Workers /\ i = 0 /\ task[a] = s
            \/ k = "future" /\ a \in Players /\ i = 0 /\ s \in futures[a] /\ s \in ready
  BY <1>4 DEF Holds
<1>15. /\ \A s : Live(s) <=> \/ \E v \in Workers : \E j : At(v, j, s)
                             \/ \E v \in Workers : task[v] = s
       /\ \A s : Live(s)' <=> \/ \E v \in Workers : \E j : At(v, j, s)'
                              \/ \E v \in Workers : task[v] = s
  BY <1>4 DEF Live
<1> HIDE DEF At
<1>8. ASSUME NEW s \in Statements
      PROVE  OneHolder(s)'
  <2>1. CASE s = t
    <3>1. \A k, a, i : ~(Holds(k, a, i, s) /\ ~(k = "thread" /\ a = p))
      BY <1>1, <2>1, HolderFacts
    <3>2. \A k, a, i : Holds(k, a, i, s)' <=> k = "queue" /\ a = w /\ i = n
      <4>1. ASSUME NEW k, NEW a, NEW i, Holds(k, a, i, s)'
            PROVE  k = "queue" /\ a = w /\ i = n
        BY <1>4, <1>13, <1>14, <3>1, <4>1
      <4>2. Holds("queue", w, n, s)'
        BY <1>2, <1>13, <1>14, <2>1
      <4>3. QED
        BY <4>1, <4>2
    <3>3. QED
      BY <1>1, <1>4, <2>1, <3>2, HeldByOther
  <2>2. CASE s # t
    <3>1. \A k, a, i : Holds(k, a, i, s)' <=> Holds(k, a, i, s)
      BY <1>0, <1>4, <1>13, <1>14, <2>2
    <3>2. QED
      BY <1>4, <3>1, HeldUnchanged DEF IInv
  <2>3. QED
    BY <2>1, <2>2
<1>9. \A s : Live(s) => Live(s)'
  BY <1>13, <1>15
<1>10. FutureIsForItsPlayer' /\ ReadyIsAwaited' /\ AwaitedIsLive'
  BY <1>4, <1>9 DEF IInv, FutureIsForItsPlayer, ReadyIsAwaited, AwaitedIsLive
<1>11. QED
  BY <1>8, <1>10 DEF Pool

LEMMA GetFutureStep ==
  ASSUME IInv, NEW p \in Players, GetFuture(p)
  PROVE  Pool'
<1>1. PICK t : t = stmt[p]
  OBVIOUS
<1>2. UNCHANGED <<locked, job, ready, queue, task>> /\ pc[p] = "future"
  BY DEF GetFuture, workerVars
<1>3. CASE Live(t) /\ job[t].player = p
  <2>1. t \in Statements
    BY <1>1, <1>2 DEF IInv, TypeOK, HasStatement
  <2>2. t \in locked /\ t \notin ready
    BY <1>3, <2>1, LiveFacts
  <2>3. NextTable(p) /\ futures' = [futures EXCEPT ![p] = @ \union {t}]
    BY <1>1, <1>3 DEF GetFuture
  <2>4. /\ \A q \in Players : q # p => pc'[q] = pc[q] /\ stmt'[q] = stmt[q]
        /\ stmt'[p] = None
    BY <2>3, NextTableFacts DEF IInv
  <2>5. \A q \in Players : \A s :
          s \in futures'[q] <=> s \in futures[q] \/ (q = p /\ s = t)
    BY <2>3 DEF IInv, TypeOK
  <2>6. ASSUME NEW s \in Statements
        PROVE  OneHolder(s)'
    <3>1. s # None
      BY Constants
    <3>2. \A k, a, i : Holds(k, a, i, s)' <=> Holds(k, a, i, s)
      BY <1>2, <2>2, <2>4, <2>5, <3>1 DEF Holds
    <3>3. QED
      BY <1>2, <3>2, HeldUnchanged DEF IInv
  <2>7. FutureIsForItsPlayer'
    BY <1>2, <1>3, <2>2, <2>5 DEF IInv, FutureIsForItsPlayer
  <2>8. ReadyIsAwaited'
    BY <1>2, <2>5 DEF IInv, ReadyIsAwaited
  <2>9. \A s : Live(s)' <=> Live(s)
    BY <1>2 DEF Live
  <2>10. AwaitedIsLive'
    BY <1>2, <1>3, <2>5, <2>9 DEF IInv, AwaitedIsLive
  <2>11. QED
    BY <2>6, <2>7, <2>8, <2>10 DEF Pool
<1>4. CASE ~(Live(t) /\ job[t].player = p)
  BY <1>1, <1>2, <1>4, QuietStep DEF GetFuture
<1>5. QED
  BY <1>3, <1>4

\* Results are destroyed, some of the futures of p with them.
LEMMA ResultsDestroyed ==
  ASSUME IInv, NEW p \in Players, NEW done, done = futures[p] \intersect ready,
         \A q \in Players \ {p} : futures'[q] = futures[q],
         \A s \in futures'[p] : s \in futures[p] /\ s \notin done,
         locked' = locked \ done, \A s : s \in ready' <=> s \in ready /\ s \notin done,
         UNCHANGED <<job, stmt, queue, task>>,
         \A q \in Players : stmt[q] # None => pc'[q] = pc[q]
  PROVE  Pool'
<1>1. ASSUME NEW s \in Statements
      PROVE  OneHolder(s)'
  <2>1. s # None
    BY Constants
  <2>2. \A k, a, i : Holds(k, a, i, s)' <=> Holds(k, a, i, s) /\ s \notin done
    <3>1. CASE s \in done
      <4>1. Holds("future", p, 0, s)
        BY <3>1 DEF Holds
      <4>2. \A k, a, i : Holds(k, a, i, s) => k = "future"
        BY <4>1, HolderFacts
      <4>3. \A k, a, i : Holds(k, a, i, s)' => k = "future" \/ Holds(k, a, i, s)
        BY <2>1 DEF Holds
      <4>4. \A a, i : ~Holds("future", a, i, s)'
        BY <3>1 DEF Holds
      <4>5. QED
        BY <3>1, <4>2, <4>3, <4>4
    <3>2. CASE s \notin done
      BY <2>1, <3>2 DEF Holds
    <3>3. QED
      BY <3>1, <3>2
  <2>3. CASE s \in done
    BY <2>2, <2>3 DEF OneHolder
  <2>4. CASE s \notin done
    BY <2>2, <2>4, HeldUnchanged DEF IInv
  <2>5. QED
    BY <2>3, <2>4
<1>2. ASSUME NEW q \in Players, NEW s \in futures'[q]
      PROVE  s \in futures[q] /\ s \notin done
  BY DEF IInv, FutureIsForItsPlayer
<1>3. FutureIsForItsPlayer'
  BY <1>2 DEF IInv, FutureIsForItsPlayer
<1>4. ReadyIsAwaited'
  BY DEF IInv, ReadyIsAwaited
<1>5. \A s : Live(s)' <=> Live(s)
  BY DEF Live
<1>6. AwaitedIsLive'
  BY <1>2, <1>5 DEF IInv, AwaitedIsLive
<1>7. QED
  BY <1>1, <1>3, <1>4, <1>6 DEF Pool

LEMMA ProcessOperatorsStep ==
  ASSUME IInv, NEW p \in Players, ProcessOperators(p)
  PROVE  Pool'
<1>1. PICK done : done = futures[p] \intersect ready
  OBVIOUS
<1>2. /\ futures' = [futures EXCEPT ![p] = @ \ done]
      /\ ready' = ready \ done /\ locked' = locked \ done
      /\ UNCHANGED <<job, stmt, queue, task, pc>>
  BY <1>1 DEF ProcessOperators, saveVars, workerVars
<1>3. \A q \in Players : futures'[q] = IF q = p THEN futures[p] \ done ELSE futures[q]
  BY <1>2 DEF IInv, TypeOK
<1>4. QED
  BY <1>1, <1>2, <1>3, ResultsDestroyed

LEMMA DestroyFuturesStep ==
  ASSUME IInv, NEW p \in Players, DestroyFutures(p)
  PROVE  Pool'
<1>1. PICK done : done = futures[p] \intersect ready
  OBVIOUS
<1>2. /\ futures' = [futures EXCEPT ![p] = {}]
      /\ ready' = ready \ futures[p] /\ locked' = locked \ done
      /\ UNCHANGED <<job, stmt, queue, task>>
  BY <1>1 DEF DestroyFutures, workerVars
<1>3. \A q \in Players : futures'[q] = IF q = p THEN {} ELSE futures[q]
  BY <1>2 DEF IInv, TypeOK
<1>4. \A s : s \in ready' <=> s \in ready /\ s \notin done
  BY <1>1, <1>2
<1>5. \A q \in Players : stmt[q] # None => pc'[q] = pc[q]
  BY DEF DestroyFutures, IInv, TypeOK, HasStatement
<1>6. QED
  BY <1>1, <1>2, <1>3, <1>4, <1>5, ResultsDestroyed

LEMMA ResumeStep ==
  ASSUME IInv, NEW w \in Workers, Resume(w)
  PROVE  Pool'
<1>1. /\ UNCHANGED <<locked, job, stmt, pc, futures, ready>>
      /\ workerPc[w] = "woken"
  BY DEF Resume, saveVars
<1>2. CASE queue[w] = <<>>
  BY <1>1, <1>2, QuietStep DEF Resume
<1>3. CASE queue[w] # <<>>
  <2>1. PICK h, n : h = Head(queue[w]) /\ n = Len(queue[w])
    OBVIOUS
  <2>2. queue[w] \in Seq(Statements) /\ task[w] = None
    BY <1>1 DEF IInv, TypeOK, BusyHasTask
  <2>3. /\ \A v \in Workers : queue'[v] = IF v = w THEN Tail(queue[w]) ELSE queue[v]
        /\ \A v \in Workers : task'[v] = IF v = w THEN h ELSE task[v]
    BY <1>3, <2>1 DEF Resume, IInv, TypeOK
  <2>4. n \in Nat /\ n > 0 /\ DOMAIN queue[w] = 1 .. n /\ h = queue[w][1]
    BY <1>3, <2>1, <2>2
  <2>5. /\ DOMAIN Tail(queue[w]) = 1 .. n - 1
        /\ \A j \in 1 .. n - 1 : Tail(queue[w])[j] = queue[w][j + 1]
    BY <1>3, <2>1, <2>2
  <2> DEFINE At(v, j, s) == j \in DOMAIN queue[v] /\ queue[v][j] = s
  <2>6. \A j, s : At(w, j, s) <=> j \in 1 .. n /\ queue[w][j] = s
    BY <2>4
  <2>7. \A j, s : At(w, j, s)' <=> j \in 1 .. n - 1 /\ queue[w][j + 1] = s
    BY <2>3, <2>5
  <2>8. \A v \in Workers \ {w} : \A j, s : At(v, j, s)' <=> At(v, j, s)
    BY <2>3
  <2>9. /\ \A k, a, i, s : Holds(k, a, i, s) <=>
             \/ k = "thread" /\ a \in Players /\ i = 0 /\ stmt[a] = s /\ pc[a] # "future"
             \/ k = "queue" /\ a \in Workers /\ At(a, i, s)
             \/ k = "worker" /\ a \in Workers /\ i = 0 /\ task[a] = s
             \/ k = "future" /\ a \in Players /\ i = 0 /\ s \in futures[a] /\ s \in ready
        /\ \A k, a, i, s : Holds(k, a, i, s)' <=>
             \/ k = "thread" /\ a \in Players /\ i = 0 /\ stmt[a] = s /\ pc[a] # "future"
             \/ k = "queue" /\ a \in Workers /\ At(a, i, s)'
             \/ k = "worker" /\ a \in Workers /\ i = 0 /\ task'[a] = s
             \/ k = "future" /\ a \in Players /\ i = 0 /\ s \in futures[a] /\ s \in ready
    BY <1>1 DEF Holds
  <2>10. /\ \A s : Live(s) <=> \/ \E v \in Workers : \E j : At(v, j, s)
                               \/ \E v \in Workers : task[v] = s
         /\ \A s : Live(s)' <=> \/ \E v \in Workers : \E j : At(v, j, s)'
                                \/ \E v \in Workers : task'[v] = s
    BY DEF Live
  <2> HIDE DEF At
  <2>11. ASSUME NEW s \in Statements
         PROVE  OneHolder(s)'
    <3>1. s # None
      BY Constants
    <3>2. CASE At(w, 1, s)
      <4>1. s = h
        BY <2>4, <2>6, <3>2
      <4>2. Holds("queue", w, 1, s)
        BY <2>9, <3>2
      <4>3. s \in locked /\ \A k, a, i : Holds(k, a, i, s) => k = "queue" /\ a = w /\ i = 1
        BY <4>2, HolderFacts
      <4>4. \A j : ~At(w, j, s)'
        <5>1. SUFFICES ASSUME NEW j \in 1 .. n - 1, queue[w][j + 1] = s
                       PROVE  FALSE
          BY <2>7
        <5>2. Holds("queue", w, j + 1, s)
          BY <2>4, <2>6, <2>9, <5>1
        <5>3. j + 1 = 1
          BY <4>3, <5>2
        <5>4. QED
          BY <5>3
      <4>5. ASSUME NEW k, NEW a, NEW i, Holds(k, a, i, s)'
            PROVE  k = "worker" /\ a = w /\ i = 0
        BY <2>3, <2>8, <2>9, <4>3, <4>4, <4>5
      <4>6. Holds("worker", w, 0, s)'
        BY <2>3, <2>9, <4>1
      <4>7. \A k, a, i : Holds(k, a, i, s)' <=> k = "worker" /\ a = w /\ i = 0
        BY <4>5, <4>6
      <4>8. QED
        BY <1>1, <4>3, <4>7, HeldByOther
    <3>3. CASE \E j \in 2 .. n : At(w, j, s)
      <4>1. PICK j \in 2 .. n : At(w, j, s)
        BY <3>3
      <4>2. Holds("queue", w, j, s)
        BY <2>9, <4>1
      <4>3. s \in locked /\ \A k, a, i : Holds(k, a, i, s) => k = "queue" /\ a = w /\ i = j
        BY <4>2, HolderFacts
      <4>4. s # h
        <5>1. SUFFICES ASSUME s = h
                       PROVE  FALSE
          OBVIOUS
        <5>2. Holds("queue", w, 1, s)
          BY <2>4, <2>6, <2>9, <5>1
        <5>3. 1 = j
          BY <4>3, <5>2
        <5>4. QED
          BY <5>3
      <4>5. PICK m \in 1 .. n - 1 : j = m + 1
        <5>1. j - 1 \in 1 .. n - 1 /\ j = (j - 1) + 1
          BY <2>4
        <5>2. QED
          BY <5>1
      <4>6. ASSUME NEW i, At(w, i, s)'
            PROVE  i = m
        <5>1. i \in 1 .. n - 1 /\ queue[w][i + 1] = s
          BY <2>7, <4>6
        <5>2. Holds("queue", w, i + 1, s)
          BY <2>4, <2>6, <2>9, <5>1
        <5>3. i + 1 = j
          BY <4>3, <5>2
        <5>4. QED
          BY <4>5, <5>1, <5>3
      <4>7. ASSUME NEW k, NEW a, NEW i, Holds(k, a, i, s)'
            PROVE  k = "queue" /\ a = w /\ i = m
        <5>1. k # "worker"
          <6>1. SUFFICES ASSUME k = "worker"
                         PROVE  FALSE
            OBVIOUS
          <6>2. a # w
            BY <2>3, <2>9, <4>4, <4>7, <6>1
          <6>3. Holds("worker", a, 0, s)
            BY <2>3, <2>9, <4>7, <6>1, <6>2
          <6>4. QED
            BY <4>3, <6>3
        <5>2. k \notin {"thread", "future"}
          BY <2>9, <4>3, <4>7
        <5>3. k = "queue" /\ a \in Workers /\ At(a, i, s)'
          BY <2>9, <4>7, <5>1, <5>2
        <5>4. a = w
          <6>1. SUFFICES ASSUME a # w
                         PROVE  FALSE
            OBVIOUS
          <6>2. At(a, i, s)
            BY <2>8, <5>3, <6>1
          <6>3. Holds("queue", a, i, s)
            BY <2>9, <5>3, <6>2
          <6>4. QED
            BY <4>3, <6>1, <6>3
        <5>5. QED
          BY <4>6, <5>3, <5>4
      <4>8. At(w, m, s)'
        BY <2>4, <2>6, <2>7, <4>1, <4>5
      <4>9. Holds("queue", w, m, s)'
        BY <2>9, <4>8
      <4>10. \A k, a, i : Holds(k, a, i, s)' <=> k = "queue" /\ a = w /\ i = m
        BY <4>7, <4>9
      <4>11. QED
        BY <1>1, <4>3, <4>10, HeldByOther
    <3>4. CASE \A j : ~At(w, j, s)
      <4>1. s # h
        BY <2>4, <2>6, <3>4
      <4>2. \A j : ~At(w, j, s)'
        <5>1. SUFFICES ASSUME NEW j \in 1 .. n - 1, queue[w][j + 1] = s
                       PROVE  FALSE
          BY <2>7
        <5>2. At(w, j + 1, s)
          BY <2>4, <2>6, <5>1
        <5>3. QED
          BY <3>4, <5>2
      <4>3. \A k, a, i : Holds(k, a, i, s)' <=> Holds(k, a, i, s)
        BY <2>2, <2>3, <2>8, <2>9, <3>1, <3>4, <4>1, <4>2
      <4>4. QED
        BY <1>1, <4>3, HeldUnchanged DEF IInv
    <3>5. QED
      BY <2>4, <2>6, <3>2, <3>3, <3>4
  <2>12. ASSUME NEW s \in Statements, Live(s)
         PROVE  Live(s)'
    <3>1. CASE \E j : At(w, j, s)
      <4>1. PICK j : At(w, j, s)
        BY <3>1
      <4>2. CASE j = 1
        BY <2>3, <2>4, <2>6, <2>10, <4>1, <4>2
      <4>3. CASE j # 1
        <5>1. j - 1 \in 1 .. n - 1 /\ queue[w][(j - 1) + 1] = s
          BY <2>4, <2>6, <4>1, <4>3
        <5>2. PICK m : m = j - 1
          OBVIOUS
        <5>3. At(w, m, s)'
          BY <2>7, <5>1, <5>2
        <5>4. QED
          BY <2>10, <5>3
      <4>4. QED
        BY <4>2, <4>3
    <3>2. CASE \A j : ~At(w, j, s)
      <4>1. s # None
        BY Constants
      <4>2. QED
        BY <2>2, <2>3, <2>8, <2>10, <2>12, <3>2, <4>1
    <3>3. QED
      BY <3>1, <3>2
  <2>13. \A q \in Players : futures[q] \subseteq Statements
    BY DEF IInv, TypeOK
  <2>14. FutureIsForItsPlayer' /\ ReadyIsAwaited' /\ AwaitedIsLive'
    BY <1>1, <2>12, <2>13 DEF IInv, FutureIsForItsPlayer, ReadyIsAwaited, AwaitedIsLive
  <2>15. QED
    BY <2>11, <2>14 DEF Pool
<1>4. QED
  BY <1>2, <1>3

LEMMA ExecuteStep ==
  ASSUME IInv, NEW w \in Workers, Execute(w)
  PROVE  Pool'
<1>1. PICK t : t = task[w]
  OBVIOUS
<1>2. t \in Statements /\ Holds("worker", w, 0, t)
  BY <1>1 DEF Execute, IInv, TypeOK, BusyHasTask, Holds
<1>3. /\ t \in locked /\ t \notin ready
      /\ \A k, a, i : Holds(k, a, i, t) => k = "worker" /\ a = w /\ i = 0
  <2>1. Live(t)
    BY <1>1 DEF Live
  <2>2. QED
    BY <1>2, <2>1, HolderFacts, LiveFacts
<1>4. /\ UNCHANGED <<job, stmt, pc, futures, queue>>
      /\ \A v \in Workers : task'[v] = IF v = w THEN None ELSE task[v]
  BY DEF Execute, saveVars, IInv, TypeOK
<1>5. ASSUME NEW s \in Statements, s # t, s \in ready' <=> s \in ready,
             s \in locked' <=> s \in locked
      PROVE  OneHolder(s)'
  <2>1. s # None
    BY Constants
  <2>2. \A k, a, i : Holds(k, a, i, s)' <=> Holds(k, a, i, s)
    BY <1>1, <1>4, <1>5, <2>1 DEF Holds
  <2>3. QED
    BY <1>5, <2>2, HeldUnchanged DEF IInv
<1>6. \A s \in Statements : s # t /\ Live(s) => Live(s)'
  BY <1>1, <1>4 DEF Live
<1>7. \A q \in Players : futures[q] \subseteq Statements
  BY DEF IInv, TypeOK
<1>8. t # None
  BY <1>2, Constants
<1>9. CASE \E p \in Players : t \in futures[p]
  <2>1. PICK p \in Players : t \in futures[p]
    BY <1>9
  <2>2. ready' = ready \union {t} /\ UNCHANGED locked
    BY <1>1, <1>9 DEF Execute
  <2>3. \A q \in Players : t \in futures[q] => q = p
    BY <2>1 DEF IInv, FutureIsForItsPlayer
  <2>4. \A k, a, i : Holds(k, a, i, t)' <=> k = "future" /\ a = p /\ i = 0
    <3>1. \A k, a, i : ~(Holds(k, a, i, t) /\ k # "worker")
      BY <1>3
    <3>2. ASSUME NEW k, NEW a, NEW i, Holds(k, a, i, t)'
          PROVE  k = "future" /\ a = p /\ i = 0
      <4>1. k # "worker"
        BY <1>3, <1>4, <1>8, <3>2 DEF Holds
      <4>2. Holds(k, a, i, t) \/ k = "future"
        BY <1>4, <3>2, <4>1 DEF Holds
      <4>3. QED
        BY <1>4, <2>3, <3>1, <3>2, <4>1, <4>2 DEF Holds
    <3>3. Holds("future", p, 0, t)'
      BY <1>4, <2>1, <2>2 DEF Holds
    <3>4. QED
      BY <3>2, <3>3
  <2>5. \A s \in Statements : OneHolder(s)'
    BY <1>2, <1>3, <1>5, <2>2, <2>4, HeldByOther
  <2>6. FutureIsForItsPlayer' /\ ReadyIsAwaited' /\ AwaitedIsLive'
    BY <1>4, <1>6, <1>7, <2>1, <2>2
       DEF IInv, FutureIsForItsPlayer, ReadyIsAwaited, AwaitedIsLive
  <2>7. QED
    BY <2>5, <2>6 DEF Pool
<1>10. CASE ~(\E p \in Players : t \in futures[p])
  <2>1. locked' = locked \ {t} /\ UNCHANGED ready
    BY <1>1, <1>10 DEF Execute
  <2>2. \A k, a, i : ~Holds(k, a, i, t)'
    <3>1. SUFFICES ASSUME NEW k, NEW a, NEW i, Holds(k, a, i, t)'
                   PROVE  FALSE
      OBVIOUS
    <3>2. k # "worker"
      BY <1>3, <1>4, <1>8, <3>1 DEF Holds
    <3>3. Holds(k, a, i, t)
      BY <1>4, <2>1, <3>1, <3>2 DEF Holds
    <3>4. QED
      BY <1>3, <3>2, <3>3
  <2>3. \A s \in Statements : OneHolder(s)'
    <3>1. OneHolder(t)'
      BY <2>1, <2>2 DEF OneHolder
    <3>2. QED
      BY <1>5, <2>1, <3>1
  <2>4. FutureIsForItsPlayer' /\ ReadyIsAwaited' /\ AwaitedIsLive'
    BY <1>4, <1>6, <1>7, <1>10, <2>1
       DEF IInv, FutureIsForItsPlayer, ReadyIsAwaited, AwaitedIsLive
  <2>5. QED
    BY <2>3, <2>4 DEF Pool
<1>11. QED
  BY <1>9, <1>10

-------------------------------------------------------------------------------
(* The invariant, and what it says of the sets of holders *)

LEMMA PoolStep ==
  ASSUME IInv, [Next]_vars
  PROVE  Pool'
<1>1. ASSUME NEW p \in Players, NEW m \in {"async", "final"}, BeginSave(p, m)
      PROVE  Pool'
  <2>1. UNCHANGED <<locked, job, stmt, futures, ready, queue, task>>
    BY <1>1 DEF BeginSave, workerVars
  <2>2. \A q \in Players : pc'[q] = "future" <=> pc[q] = "future"
    BY <1>1 DEF BeginSave, IInv, TypeOK
  <2>3. QED
    BY <2>1, <2>2, QuietStep
<1>2. ASSUME NEW p \in Players, SelectWorker(p)
      PROVE  Pool'
  <2>1. UNCHANGED <<locked, job, stmt, futures, ready, queue, task>>
    BY <1>2 DEF SelectWorker, workerVars
  <2>2. \A q \in Players : pc'[q] = "future" <=> pc[q] = "future"
    BY <1>2 DEF SelectWorker, IInv, TypeOK
  <2>3. QED
    BY <2>1, <2>2, QuietStep
<1>3. ASSUME NEW w \in Workers, WaitAndPop(w) \/ SpuriousWakeup(w)
      PROVE  Pool'
  BY <1>3, QuietStep DEF WaitAndPop, SpuriousWakeup, saveVars
<1>4. CASE UNCHANGED vars
  BY <1>4, QuietStep DEF vars, saveVars, workerVars
<1>5. QED
  BY <1>1, <1>2, <1>3, <1>4, PrepareStep, ExecuteStatementStep, PushStep,
     GetFutureStep, ProcessOperatorsStep, DestroyFuturesStep, ResumeStep, ExecuteStep
     DEF Next, PlayerStep, WorkerStep

LEMMA InitInv ==
  ASSUME Init
  PROVE  IInv
<1> USE Constants
<1>1. job \in [Statements -> Jobs]
  <2>1. NoJob \in Jobs
    BY DEF NoJob, Jobs, Tables
  <2>2. QED
    BY <2>1 DEF Init
<1>2. queue \in [Workers -> Seq(Statements)] /\ task \in [Workers -> Statements \union {None}]
  BY DEF Init
<1>3. row \in [Tables -> [Players -> 0 .. MaxSaves + 1]]
  BY DEF Init
<1>4. TypeOK
  BY <1>1, <1>2, <1>3 DEF Init, TypeOK, HasStatement, Tables
<1>5. BusyHasTask /\ SavesAreCounted
  BY DEF Init, BusyHasTask, SavesAreCounted
<1>6. FutureIsForItsPlayer /\ ReadyIsAwaited /\ AwaitedIsLive
  BY DEF Init, FutureIsForItsPlayer, ReadyIsAwaited, AwaitedIsLive
<1>7. \A s \in Statements : OneHolder(s)
  BY DEF Init, OneHolder, Holds
<1>8. QED
  BY <1>4, <1>5, <1>6, <1>7 DEF IInv

LEMMA InvAlways == Spec => []IInv
<1>1. Init => IInv
  BY InitInv
<1>2. IInv /\ [Next]_vars => IInv'
  BY TypeStep, PoolStep DEF IInv, Pool
<1>3. QED
  BY <1>1, <1>2, PTL DEF Spec

\* The holders of s of each kind, and the sets that Holders puts together.
Threads(s) == {q \in Players : stmt[q] = s /\ pc[q] # "future"}
Slots(w, s) == {j \in DOMAIN queue[w] : queue[w][j] = s}
Runners(s) == {v \in Workers : task[v] = s}
Awaiters(s) == {q \in Players : s \in futures[q] \intersect ready}

ThreadHolders(s) == {<<"thread", p>> : p \in Threads(s)}
SlotHolders(w, s) == {<<"queue", w, i>> : i \in Slots(w, s)}
QueueHolders(s) == UNION {SlotHolders(w, s) : w \in Workers}
RunnerHolders(s) == {<<"worker", w>> : w \in Runners(s)}
AwaiterHolders(s) == {<<"future", p>> : p \in Awaiters(s)}

LEMMA QueueHoldersAre ==
  ASSUME NEW s
  PROVE  \A h : h \in QueueHolders(s) <=>
           \E w \in Workers : \E i \in Slots(w, s) : h = <<"queue", w, i>>
<1>1. \A h : h \in QueueHolders(s) <=> \E w \in Workers : h \in SlotHolders(w, s)
  BY DEF QueueHolders
<1>2. \A w, h : h \in SlotHolders(w, s) <=> \E i \in Slots(w, s) : h = <<"queue", w, i>>
  BY DEF SlotHolders
<1>3. QED
  BY <1>1, <1>2

LEMMA HoldersAre ==
  ASSUME NEW s
  PROVE  \A h : h \in Holders(s) <=>
           \/ \E p \in Threads(s) : h = <<"thread", p>>
           \/ \E w \in Workers : \E i \in Slots(w, s) : h = <<"queue", w, i>>
           \/ \E w \in Runners(s) : h = <<"worker", w>>
           \/ \E p \in Awaiters(s) : h = <<"future", p>>
<1>1. Holders(s) = ThreadHolders(s) \union QueueHolders(s) \union RunnerHolders(s)
                   \union AwaiterHolders(s)
  BY DEF Holders, Threads, Slots, Runners, Awaiters,
         ThreadHolders, SlotHolders, QueueHolders, RunnerHolders, AwaiterHolders
<1>2. \A h : h \in Holders(s) <=> \/ h \in ThreadHolders(s) \/ h \in QueueHolders(s)
                                  \/ h \in RunnerHolders(s) \/ h \in AwaiterHolders(s)
  BY <1>1
<1>3. \A h : h \in ThreadHolders(s) <=> \E p \in Threads(s) : h = <<"thread", p>>
  BY DEF ThreadHolders
<1>4. \A h : h \in RunnerHolders(s) <=> \E w \in Runners(s) : h = <<"worker", w>>
  BY DEF RunnerHolders
<1>5. \A h : h \in AwaiterHolders(s) <=> \E p \in Awaiters(s) : h = <<"future", p>>
  BY DEF AwaiterHolders
<1>6. QED
  BY <1>2, <1>3, <1>4, <1>5, QueueHoldersAre

LEMMA KindsAre ==
  ASSUME NEW s
  PROVE  /\ \A p : p \in Threads(s) <=> Holds("thread", p, 0, s)
         /\ \A w \in Workers : \A i : i \in Slots(w, s) <=> Holds("queue", w, i, s)
         /\ \A w : w \in Runners(s) <=> Holds("worker", w, 0, s)
         /\ \A p : p \in Awaiters(s) <=> Holds("future", p, 0, s)
         /\ \A k, a, i : Holds(k, a, i, s) =>
              \/ k = "thread" /\ i = 0
              \/ k = "queue" /\ a \in Workers
              \/ k = "worker" /\ i = 0
              \/ k = "future" /\ i = 0
BY DEF Holds, Threads, Slots, Runners, Awaiters

LEMMA OneHolderIsOne ==
  ASSUME NEW s \in Statements, OneHolder(s)
  PROVE  Cardinality(Holders(s)) = IF s \in locked THEN 1 ELSE 0
<1>1. CASE s \notin locked
  <2>1. \A k, a, i : ~Holds(k, a, i, s)
    BY <1>1 DEF OneHolder
  <2>2. /\ \A p : p \notin Threads(s) /\ p \notin Awaiters(s) /\ p \notin Runners(s)
        /\ \A w \in Workers : \A i : i \notin Slots(w, s)
    BY <2>1, KindsAre
  <2>3. Holders(s) = {}
    BY <2>2, HoldersAre
  <2>4. QED
    BY <1>1, <2>3, FS_EmptySet
<1>2. CASE s \in locked
  <2>1. PICK l, b, j : \A k, a, i : Holds(k, a, i, s) <=> k = l /\ a = b /\ i = j
    BY <1>2 DEF OneHolder
  <2>2. Holds(l, b, j, s)
    BY <2>1
  <2>3. /\ \A p : p \in Threads(s) <=> l = "thread" /\ p = b /\ j = 0
        /\ \A w \in Workers : \A i : i \in Slots(w, s) <=> l = "queue" /\ w = b /\ i = j
        /\ \A w : w \in Runners(s) <=> l = "worker" /\ w = b /\ j = 0
        /\ \A p : p \in Awaiters(s) <=> l = "future" /\ p = b /\ j = 0
    BY <2>1, KindsAre
  <2>4. \E h : Holders(s) = {h}
    <3>1. CASE l = "thread" /\ j = 0
      <4>1. Holders(s) = {<<"thread", b>>}
        BY <2>3, <3>1, HoldersAre
      <4>2. QED
        BY <4>1
    <3>2. CASE l = "queue" /\ b \in Workers
      <4>1. Holders(s) = {<<"queue", b, j>>}
        BY <2>3, <3>2, HoldersAre
      <4>2. QED
        BY <4>1
    <3>3. CASE l = "worker" /\ j = 0
      <4>1. Holders(s) = {<<"worker", b>>}
        BY <2>3, <3>3, HoldersAre
      <4>2. QED
        BY <4>1
    <3>4. CASE l = "future" /\ j = 0
      <4>1. Holders(s) = {<<"future", b>>}
        BY <2>3, <3>4, HoldersAre
      <4>2. QED
        BY <4>1
    <3>5. \/ l = "thread" /\ j = 0
          \/ l = "queue" /\ b \in Workers
          \/ l = "worker" /\ j = 0
          \/ l = "future" /\ j = 0
      BY <2>2, KindsAre
    <3>6. QED
      BY <3>1, <3>2, <3>3, <3>4, <3>5, Zenon
  <2>5. QED
    BY <1>2, <2>4, FS_Singleton
<1>3. QED
  BY <1>1, <1>2

\* The variables keep their types; a thread has a statement where it should.
THEOREM TypeCorrect == Spec => []TypeOK
<1>1. IInv => TypeOK
  BY DEF IInv
<1>2. QED
  BY <1>1, InvAlways, PTL

\* A statement that is locked is in the hands of one thread, operator or result,
\* and one that is free in nobody's (GetPrepareStatement, Clear,
\* PreparedStatement.cpp:92): none is used twice or lost to the pool.
THEOREM HolderCorrect == Spec => []StatementHasOneHolder
<1>1. IInv => StatementHasOneHolder
  BY OneHolderIsOne DEF IInv, StatementHasOneHolder
<1>2. QED
  BY <1>1, InvAlways, PTL

\* The result a future of a player will have is that of a query of this player
\* (PrepareStatementOperator::Execute, :46).
THEOREM FutureCorrect == Spec => []FutureIsForItsPlayer
<1>1. IInv => FutureIsForItsPlayer
  BY DEF IInv
<1>2. QED
  BY <1>1, InvAlways, PTL


-------------------------------------------------------------------------------
(* The order of the saves.  A worker executes what it is given in the order *)
(* in which it was prepared; and if there is one worker, the documented     *)
(* default of GameWorkerThreads (game.conf.dist.in:38), no row of the       *)
(* database goes back to an older save until ~Player saves on the spot.     *)

\* Statement s is the i-th worker w will execute, the 0-th if it has begun.
Waits(w, i, s) ==
  \/ i = 0 /\ task[w] = s
  \/ i \in DOMAIN queue[w] /\ queue[w][i] = s

\* If both save the same row, u saves what is not older.
Later(s, u) ==
  job[s].player = job[u].player /\ job[s].table = job[u].table
    => job[s].version <= job[u].version

\* A statement is prepared with the last change of its player.
PreparedNow ==
  \A p \in Players :
    pc[p] \in {"execute", "select", "push"} =>
      job[stmt[p]] = [player |-> p, table |-> table[p], version |-> version[p]]

FinalOnTheSpot == \A p \in Players : pc[p] = "execute" => mode[p] = "final"

WaitingIsOfPlayer ==
  \A w \in Workers, i \in Nat, s \in Statements : Waits(w, i, s) =>
    job[s].player \in Players /\ job[s].version <= version[job[s].player]

SavesAreQueuedInOrder ==
  \A w \in Workers, i, j \in Nat, s, u \in Statements :
    i < j /\ Waits(w, i, s) /\ Waits(w, j, u) => Later(s, u)

Order == PreparedNow /\ FinalOnTheSpot /\ WaitingIsOfPlayer /\ SavesAreQueuedInOrder

LEMMA WaitingFacts ==
  ASSUME IInv, NEW w \in Workers, NEW i \in Nat, NEW s \in Statements, Waits(w, i, s)
  PROVE  Live(s) /\ s \in locked /\ i <= Len(queue[w])
<1>1. queue[w] \in Seq(Statements)
  BY DEF IInv, TypeOK
<1>2. i <= Len(queue[w])
  BY <1>1 DEF Waits
<1>3. Live(s)
  BY DEF Waits, Live
<1>4. QED
  BY <1>2, <1>3, LiveFacts

LEMMA QuietPlaces ==
  ASSUME UNCHANGED <<queue, task>>
  PROVE  \A w \in Workers, i \in Nat, s \in Statements : Waits(w, i, s)' <=> Waits(w, i, s)
BY DEF Waits

LEMMA PushPlaces ==
  ASSUME IInv, NEW p \in Players, Push(p)
  PROVE  \A w \in Workers, i \in Nat, s \in Statements :
           Waits(w, i, s)' <=>
             \/ Waits(w, i, s)
             \/ w = chosen[p] /\ i = Len(queue[w]) + 1 /\ s = stmt[p]
<1>1. SUFFICES ASSUME NEW w \in Workers, NEW i \in Nat, NEW s \in Statements
               PROVE  Waits(w, i, s)' <=>
                        \/ Waits(w, i, s)
                        \/ w = chosen[p] /\ i = Len(queue[w]) + 1 /\ s = stmt[p]
  OBVIOUS
<1>2. task' = task /\ queue[w] \in Seq(Statements) /\ Len(queue[w]) \in Nat
  BY DEF Push, IInv, TypeOK
<1>3. CASE w # chosen[p]
  <2>1. queue'[w] = queue[w]
    BY <1>3 DEF Push, IInv, TypeOK
  <2>2. QED
    BY <1>2, <1>3, <2>1 DEF Waits
<1>4. CASE w = chosen[p]
  <2>1. PICK t \in Statements : t = stmt[p]
    BY ThreadFacts DEF Push
  <2>2. queue'[w] = Append(queue[w], t)
    BY <1>4, <2>1 DEF Push, IInv, TypeOK
  <2>3. PICK q \in Seq(Statements) : q = queue[w]
    BY <1>2
  <2>4. PICK n \in Nat : n = Len(q)
    OBVIOUS
  <2>5. PICK r : r = Append(q, t)
    OBVIOUS
  <2>6. /\ DOMAIN r = 1 .. n + 1 /\ DOMAIN q = 1 .. n
        /\ r[n + 1] = t /\ \A j \in 1 .. n : r[j] = q[j]
    BY <2>4, <2>5
  <2>7. Waits(w, i, s)' <=> (i = 0 /\ task[w] = s) \/ (i \in 1 .. n + 1 /\ r[i] = s)
    BY <1>2, <2>2, <2>3, <2>5, <2>6 DEF Waits
  <2>8. Waits(w, i, s) <=> (i = 0 /\ task[w] = s) \/ (i \in 1 .. n /\ q[i] = s)
    BY <2>3, <2>6 DEF Waits
  <2>9. i \in 1 .. n + 1 <=> i \in 1 .. n \/ i = n + 1
    OBVIOUS
  <2>10. n + 1 \notin 1 .. n
    OBVIOUS
  <2>11. i \in 1 .. n + 1 /\ r[i] = s <=> (i \in 1 .. n /\ q[i] = s) \/ (i = n + 1 /\ s = t)
    BY <2>6, <2>9, <2>10
  <2>12. QED
    BY <1>4, <2>1, <2>3, <2>4, <2>7, <2>8, <2>11
<1>5. QED
  BY <1>3, <1>4

LEMMA ResumePlaces ==
  ASSUME IInv, NEW v \in Workers, Resume(v), NEW w \in Workers
  PROVE  \E d \in {0, 1} : \A i \in Nat, s \in Statements :
           Waits(w, i, s)' => Waits(w, i + d, s)
<1>1. CASE queue[v] = <<>> \/ w # v
  <2>1. queue'[w] = queue[w] /\ task'[w] = task[w]
    BY <1>1 DEF Resume, IInv, TypeOK
  <2>2. \A i \in Nat, s \in Statements : Waits(w, i, s)' => Waits(w, i + 0, s)
    BY <2>1 DEF Waits
  <2>3. QED
    BY <2>2
<1>2. CASE queue[v] # <<>> /\ w = v
  <2>1. PICK q \in Seq(Statements) : q = queue[w]
    BY DEF IInv, TypeOK
  <2>2. PICK r : r = Tail(q)
    OBVIOUS
  <2>3. PICK n \in Nat : n = Len(q)
    OBVIOUS
  <2>4. queue'[w] = r /\ task'[w] = Head(q)
    BY <1>2, <2>1, <2>2 DEF Resume, IInv, TypeOK
  <2>5. n # 0 /\ Head(q) = q[1] /\ DOMAIN q = 1 .. n
    BY <1>2, <2>1, <2>3
  <2>6. DOMAIN r = 1 .. n - 1 /\ \A j \in 1 .. n - 1 : r[j] = q[j + 1]
    BY <1>2, <2>1, <2>2, <2>3
  <2>7. ASSUME NEW i \in Nat, NEW s \in Statements, Waits(w, i, s)'
        PROVE  Waits(w, i + 1, s)
    <3>1. CASE i = 0 /\ s = q[1]
      <4>1. 1 \in 1 .. n /\ i + 1 = 1
        BY <2>5, <3>1
      <4>2. QED
        BY <2>1, <2>5, <3>1, <4>1 DEF Waits
    <3>2. CASE i \in 1 .. n - 1 /\ r[i] = s
      <4>1. q[i + 1] = s /\ i + 1 \in 1 .. n
        BY <2>6, <3>2
      <4>2. QED
        BY <2>1, <2>5, <4>1 DEF Waits
    <3>3. QED
      BY <2>4, <2>5, <2>6, <2>7, <3>1, <3>2 DEF Waits
  <2>8. QED
    BY <2>7
<1>3. QED
  BY <1>1, <1>2

\* The worker forgets the statement it has executed, and no other.
LEMMA ExecutePlaces ==
  ASSUME IInv, NEW v \in Workers, Execute(v)
  PROVE  \A w \in Workers, i \in Nat, s \in Statements :
           Waits(w, i, s)' => Waits(w, i, s) /\ (w = v => 0 < i)
<1>1. SUFFICES ASSUME NEW w \in Workers, NEW i \in Nat, NEW s \in Statements,
                      Waits(w, i, s)'
               PROVE  Waits(w, i, s) /\ (w = v => 0 < i)
  OBVIOUS
<1>2. queue' = queue /\ task'[w] = (IF w = v THEN None ELSE task[w]) /\ s # None
  BY Constants DEF Execute, IInv, TypeOK
<1>3. \A j \in DOMAIN queue[w] : 0 < j
  <2>1. queue[w] \in Seq(Statements)
    BY DEF IInv, TypeOK
  <2>2. QED
    BY <2>1
<1>4. QED
  BY <1>1, <1>2, <1>3 DEF Waits

\* Moving up in the queue keeps the order.
LEMMA OrderKept ==
  ASSUME IInv, Order,
         \A w \in Workers : \E d \in {0, 1} : \A i \in Nat, s \in Statements :
           Waits(w, i, s)' => Waits(w, i + d, s),
         \A s \in Statements : s \in locked => job'[s] = job[s],
         \A p \in Players : version[p] <= version'[p],
         version' \in [Players -> 0 .. MaxSaves + 1]
  PROVE  WaitingIsOfPlayer' /\ SavesAreQueuedInOrder'
<1>1. version \in [Players -> 0 .. MaxSaves + 1] /\ job \in [Statements -> Jobs]
  BY DEF IInv, TypeOK
<1>2. ASSUME NEW w \in Workers, NEW i \in Nat, NEW s \in Statements, Waits(w, i, s)'
      PROVE  job'[s].player \in Players /\ job'[s].version <= version'[job'[s].player]
  <2>1. PICK j \in Nat : Waits(w, j, s)
    BY <1>2
  <2>2. job'[s] = job[s]
    BY <2>1, WaitingFacts
  <2>3. PICK p \in Players : p = job[s].player /\ job[s].version <= version[p]
    BY <2>1 DEF Order, WaitingIsOfPlayer
  <2>4. job[s].version \in Nat /\ version[p] \in Nat /\ version'[p] \in Nat
    BY <1>1, Constants DEF Jobs
  <2>5. QED
    BY <2>2, <2>3, <2>4
<1>3. ASSUME NEW w \in Workers, NEW i \in Nat, NEW j \in Nat,
             NEW s \in Statements, NEW u \in Statements,
             i < j, Waits(w, i, s)', Waits(w, j, u)'
      PROVE  Later(s, u)'
  <2>1. PICK d \in {0, 1} : Waits(w, i + d, s) /\ Waits(w, j + d, u)
    BY <1>3
  <2>2. i + d \in Nat /\ j + d \in Nat /\ i + d < j + d
    BY <1>3
  <2>3. Later(s, u)
    BY <2>1, <2>2 DEF Order, SavesAreQueuedInOrder
  <2>4. job'[s] = job[s] /\ job'[u] = job[u]
    BY <2>1, <2>2, WaitingFacts
  <2>5. QED
    BY <2>3, <2>4 DEF Later
<1>4. WaitingIsOfPlayer'
  BY <1>2 DEF WaitingIsOfPlayer
<1>5. SavesAreQueuedInOrder'
  BY <1>3 DEF SavesAreQueuedInOrder
<1>6. QED
  BY <1>4, <1>5

LEMMA OrderQuiet ==
  ASSUME IInv, Order, UNCHANGED <<queue, task>>,
         \A s \in Statements : s \in locked => job'[s] = job[s],
         \A p \in Players : version[p] <= version'[p],
         version' \in [Players -> 0 .. MaxSaves + 1]
  PROVE  WaitingIsOfPlayer' /\ SavesAreQueuedInOrder'
<1>1. ASSUME NEW w \in Workers
      PROVE  \E d \in {0, 1} : \A i \in Nat, s \in Statements :
               Waits(w, i, s)' => Waits(w, i + d, s)
  <2>1. \A i \in Nat, s \in Statements : Waits(w, i, s)' => Waits(w, i + 0, s)
    BY QuietPlaces
  <2>2. QED
    BY <2>1
<1>2. QED
  BY <1>1, OrderKept

LEMMA PushKeepsOrder ==
  ASSUME IInv, Order, NEW p \in Players, Push(p)
  PROVE  WaitingIsOfPlayer' /\ SavesAreQueuedInOrder'
<1>1. UNCHANGED <<job, version>>
  BY DEF Push
<1>2. PICK t \in Statements : t = stmt[p]
  BY ThreadFacts DEF Push
<1>3. job[t] = [player |-> p, table |-> table[p], version |-> version[p]]
  BY <1>2 DEF Push, Order, PreparedNow
<1>4. job[t].player = p /\ job[t].version = version[p] /\ version[p] \in Nat
  BY <1>3, Constants DEF IInv, TypeOK
<1>5. \A w \in Workers, i \in Nat, s \in Statements :
        Waits(w, i, s)' <=>
          \/ Waits(w, i, s)
          \/ w = chosen[p] /\ i = Len(queue[w]) + 1 /\ s = t
  BY <1>2, PushPlaces
<1>6. ASSUME NEW w \in Workers, NEW i \in Nat, NEW s \in Statements, Waits(w, i, s)'
      PROVE  job[s].player \in Players /\ job[s].version <= version[job[s].player]
  BY <1>4, <1>5, <1>6 DEF Order, WaitingIsOfPlayer
<1>7. ASSUME NEW w \in Workers, NEW i \in Nat, NEW j \in Nat,
             NEW s \in Statements, NEW u \in Statements,
             i < j, Waits(w, i, s)', Waits(w, j, u)'
      PROVE  Later(s, u)
  <2>1. Len(queue[w]) \in Nat
    BY DEF IInv, TypeOK
  <2>2. CASE Waits(w, i, s) /\ Waits(w, j, u)
    BY <1>7, <2>2 DEF Order, SavesAreQueuedInOrder
  <2>3. CASE Waits(w, j, u) /\ i = Len(queue[w]) + 1
    BY <1>7, <2>1, <2>3, WaitingFacts
  <2>4. CASE u = t
    <3>1. job[s].player \in Players /\ job[s].version <= version[job[s].player]
      BY <1>6, <1>7
    <3>2. QED
      BY <1>4, <2>4, <3>1 DEF Later
  <2>5. CASE i = Len(queue[w]) + 1 /\ j = Len(queue[w]) + 1
    BY <1>7, <2>1, <2>5
  <2>6. QED
    BY <1>5, <1>7, <2>2, <2>3, <2>4, <2>5
<1>8. WaitingIsOfPlayer'
  BY <1>1, <1>6 DEF WaitingIsOfPlayer
<1>9. \A s, u : Later(s, u)' <=> Later(s, u)
  BY <1>1 DEF Later
<1>10. SavesAreQueuedInOrder'
  BY <1>7, <1>9 DEF SavesAreQueuedInOrder
<1>11. QED
  BY <1>8, <1>10

LEMMA OrderInit == Init => Order
<1> SUFFICES ASSUME Init PROVE Order
  OBVIOUS
<1>1. PreparedNow /\ FinalOnTheSpot
  BY DEF Init, PreparedNow, FinalOnTheSpot
<1>2. \A w \in Workers, i \in Nat, s \in Statements : ~Waits(w, i, s)
  BY Constants DEF Init, Waits
<1>3. QED
  BY <1>1, <1>2 DEF Order, WaitingIsOfPlayer, SavesAreQueuedInOrder

LEMMA OrderStep ==
  ASSUME IInv, Order, [Next]_vars
  PROVE  Order'
<1> DEFINE Goal == PreparedNow' /\ FinalOnTheSpot'
           Rest == WaitingIsOfPlayer' /\ SavesAreQueuedInOrder'
<1>0. /\ version \in [Players -> 0 .. MaxSaves + 1]
      /\ \A p \in Players : version[p] \in Nat /\ version[p] <= version[p]
  BY Constants DEF IInv, TypeOK
<1>1. ASSUME NEW p \in Players, NEW m \in {"async", "final"}, BeginSave(p, m)
      PROVE  Goal /\ Rest
  <2>1. /\ \A q \in Players : version'[q] = IF q = p THEN version[p] + 1 ELSE version[q]
        /\ \A q \in Players : pc'[q] = IF q = p THEN "prepare" ELSE pc[q]
        /\ \A q \in Players : table'[q] = IF q = p THEN "accounts" ELSE table[q]
        /\ \A q \in Players : mode'[q] = IF q = p THEN m ELSE mode[q]
        /\ UNCHANGED <<job, stmt, queue, task>>
    BY <1>1 DEF BeginSave, IInv, TypeOK, workerVars
  <2>2. Goal
    BY <2>1 DEF Order, PreparedNow, FinalOnTheSpot
  <2>3. version' \in [Players -> 0 .. MaxSaves + 1]
    BY <1>1, TypeStep, Zenon DEF TypeOK, Next
  <2>4. \A q \in Players : version[q] <= version'[q]
    BY <1>0, <2>1
  <2>5. QED
    BY <2>1, <2>2, <2>3, <2>4, OrderQuiet
<1>2. ASSUME NEW p \in Players, Prepare(p)
      PROVE  Goal /\ Rest
  <2>1. PICK t \in Statements \ locked :
          /\ stmt' = [stmt EXCEPT ![p] = t]
          /\ job' = [job EXCEPT ![t] = [player |-> p, table |-> table[p],
                                        version |-> version[p]]]
    BY <1>2 DEF Prepare
  <2>2. /\ \A q \in Players :
             pc'[q] = IF q = p THEN (IF mode[p] = "async" THEN "select" ELSE "execute")
                               ELSE pc[q]
        /\ \A q \in Players : stmt'[q] = IF q = p THEN t ELSE stmt[q]
        /\ UNCHANGED <<mode, table, version, queue, task>>
    BY <1>2, <2>1 DEF Prepare, IInv, TypeOK, workerVars
  <2>3. /\ \A s \in Statements : s # t => job'[s] = job[s]
        /\ job'[t] = [player |-> p, table |-> table[p], version |-> version[p]]
    BY <2>1 DEF IInv, TypeOK
  <2>4. \A q \in Players : pc[q] \in {"execute", "select", "push"} =>
          stmt[q] \in Statements /\ stmt[q] # t
    BY <2>1, ThreadFacts
  <2>5. PreparedNow'
    BY <2>2, <2>3, <2>4 DEF Order, PreparedNow
  <2>6. FinalOnTheSpot'
    <3>1. mode[p] \in {"async", "final"}
      BY DEF IInv, TypeOK
    <3>2. QED
      BY <2>2, <3>1 DEF Order, FinalOnTheSpot
  <2>7. \A s \in Statements : s \in locked => job'[s] = job[s]
    BY <2>1, <2>3
  <2>8. QED
    BY <1>0, <2>2, <2>5, <2>6, <2>7, OrderQuiet
\* A step that goes on with the save of p, or with the next table.
<1>3. ASSUME NEW p \in Players, NextTable(p), UNCHANGED <<job, mode, version>>
      PROVE  Goal
  <2>1. /\ pc'[p] \notin {"execute", "select", "push"}
        /\ \A q \in Players : q # p => pc'[q] = pc[q] /\ stmt'[q] = stmt[q]
        /\ \A q \in Players : q # p => table'[q] = table[q]
    <3>1. table' = table \/ table' = [table EXCEPT ![p] = "account_ship"]
      BY <1>3 DEF NextTable
    <3>2. stmt'[p] = None /\ (stmt'[p] # None <=> HasStatement(p)')
          /\ \A q \in Players : q # p => pc'[q] = pc[q] /\ stmt'[q] = stmt[q]
      BY <1>3, NextTableFacts DEF IInv, SaveTypes
    <3>3. QED
      BY <3>1, <3>2 DEF HasStatement, IInv, TypeOK
  <2>2. PreparedNow'
    BY <1>3, <2>1 DEF Order, PreparedNow
  <2>3. FinalOnTheSpot'
    BY <1>3, <2>1 DEF Order, FinalOnTheSpot
  <2>4. QED
    BY <2>2, <2>3
<1>4. ASSUME NEW p \in Players, ExecuteStatement(p)
      PROVE  Goal /\ Rest
  <2>1. NextTable(p) /\ UNCHANGED <<job, mode, version, queue, task>>
    BY <1>4 DEF ExecuteStatement, workerVars
  <2>2. QED
    BY <1>0, <1>3, <2>1, OrderQuiet
<1>5. ASSUME NEW p \in Players, SelectWorker(p)
      PROVE  Goal /\ Rest
  <2>1. /\ \A q \in Players : pc'[q] = IF q = p THEN "push" ELSE pc[q]
        /\ pc[p] = "select"
        /\ UNCHANGED <<job, stmt, mode, table, version, queue, task>>
    BY <1>5 DEF SelectWorker, IInv, TypeOK, workerVars
  <2>2. Goal
    BY <2>1 DEF Order, PreparedNow, FinalOnTheSpot
  <2>3. QED
    BY <1>0, <2>1, <2>2, OrderQuiet
<1>6. ASSUME NEW p \in Players, Push(p)
      PROVE  Goal /\ Rest
  <2>1. /\ \A q \in Players : pc'[q] = IF q = p THEN "future" ELSE pc[q]
        /\ UNCHANGED <<job, stmt, mode, table, version>>
    BY <1>6 DEF Push, IInv, TypeOK
  <2>2. Goal
    BY <2>1 DEF Order, PreparedNow, FinalOnTheSpot
  <2>3. QED
    BY <1>6, <2>2, PushKeepsOrder
<1>7. ASSUME NEW p \in Players, GetFuture(p)
      PROVE  Goal /\ Rest
  <2>1. UNCHANGED <<job, mode, version, queue, task>>
    BY <1>7 DEF GetFuture, workerVars
  <2>2. NextTable(p) \/ UNCHANGED <<stmt, table, pc>>
    BY <1>7 DEF GetFuture
  <2>3. ASSUME UNCHANGED <<stmt, table, pc>> PROVE Goal
    BY <2>1, <2>3 DEF Order, PreparedNow, FinalOnTheSpot
  <2>4. QED
    BY <1>0, <1>3, <2>1, <2>2, <2>3, OrderQuiet
<1>8. ASSUME NEW p \in Players, DestroyFutures(p)
      PROVE  Goal /\ Rest
  <2>1. /\ \A q \in Players : pc'[q] = IF q = p THEN "gone" ELSE pc[q]
        /\ UNCHANGED <<job, stmt, mode, table, version, queue, task>>
    BY <1>8 DEF DestroyFutures, IInv, TypeOK, workerVars
  <2>2. Goal
    BY <2>1 DEF Order, PreparedNow, FinalOnTheSpot
  <2>3. QED
    BY <1>0, <2>1, <2>2, OrderQuiet
<1>9. ASSUME UNCHANGED <<job, saveVars>>
      PROVE  Goal
  BY <1>9 DEF saveVars, Order, PreparedNow, FinalOnTheSpot
<1>10. ASSUME NEW p \in Players, ProcessOperators(p)
       PROVE  Goal /\ Rest
  <2>1. UNCHANGED <<job, saveVars, queue, task>>
    BY <1>10 DEF ProcessOperators, workerVars
  <2>2. QED
    BY <1>0, <1>9, <2>1, OrderQuiet DEF saveVars
<1>11. ASSUME NEW w \in Workers, WaitAndPop(w) \/ SpuriousWakeup(w)
       PROVE  Goal /\ Rest
  <2>1. UNCHANGED <<job, saveVars, queue, task>>
    BY <1>11 DEF WaitAndPop, SpuriousWakeup
  <2>2. QED
    BY <1>0, <1>9, <2>1, OrderQuiet DEF saveVars
<1>12. ASSUME NEW w \in Workers, Resume(w)
       PROVE  Goal /\ Rest
  <2>1. UNCHANGED <<job, saveVars>>
    BY <1>12 DEF Resume
  <2>2. Rest
    BY <1>0, <1>12, <2>1, ResumePlaces, OrderKept DEF saveVars
  <2>3. QED
    BY <1>9, <2>1, <2>2
<1>13. ASSUME NEW w \in Workers, Execute(w)
       PROVE  Goal /\ Rest
  <2>1. UNCHANGED <<job, saveVars>>
    BY <1>13 DEF Execute
  <2>2. ASSUME NEW v \in Workers
        PROVE  \E d \in {0, 1} : \A i \in Nat, s \in Statements :
                 Waits(v, i, s)' => Waits(v, i + d, s)
    <3>1. \A i \in Nat, s \in Statements : Waits(v, i, s)' => Waits(v, i, s)
      BY <1>13, ExecutePlaces
    <3>2. \A i \in Nat : i + 0 = i
      OBVIOUS
    <3>3. \A i \in Nat, s \in Statements : Waits(v, i, s)' => Waits(v, i + 0, s)
      BY <3>1, <3>2
    <3>4. QED
      BY <3>3
  <2>3. Rest
    BY <1>0, <2>1, <2>2, OrderKept DEF saveVars
  <2>4. QED
    BY <1>9, <2>1, <2>3
<1>14. CASE UNCHANGED vars
  <2>1. UNCHANGED <<job, saveVars, queue, task>>
    BY <1>14 DEF vars, workerVars
  <2>2. QED
    BY <1>0, <1>9, <2>1, OrderQuiet DEF saveVars, Order
<1>15. QED
  BY <1>1, <1>2, <1>4, <1>5, <1>6, <1>7, <1>8, <1>10, <1>11, <1>12, <1>13, <1>14
     DEF Next, PlayerStep, WorkerStep, Order

LEMMA OrderAlways == Spec => []Order
BY OrderInit, OrderStep, InvAlways, PTL DEF Spec

\* What a worker is given to save of a player it saves in the order in which the
\* player changed, for any number of workers (EnqueueOperator, Database.cpp:96).
THEOREM QueuesKeepTheOrder == Spec => []SavesAreQueuedInOrder
<1>1. Order => SavesAreQueuedInOrder
  BY DEF Order
<1>2. QED
  BY <1>1, OrderAlways, PTL

-------------------------------------------------------------------------------
(* One worker *)

RowsLagBehind ==
  \A p \in Players : mode[p] = "async" =>
    \A t \in Tables :
      /\ row[t][p] <= version[p]
      /\ \A w \in Workers, i \in Nat, s \in Statements :
           Waits(w, i, s) /\ job[s].player = p /\ job[s].table = t
             => row[t][p] <= job[s].version

\* A step moves the rows of the players that save asynchronously forward only.
RowsMoveForward ==
  \A p \in Players : mode[p] = "async" =>
    \A t \in Tables : row[t][p] <= row'[t][p]

LEMMA NumbersAre ==
  ASSUME TypeOK
  PROVE  /\ \A p \in Players : version[p] \in Nat
         /\ \A s \in Statements : job[s].version \in Nat /\ job[s].table \in Tables
         /\ \A t \in Tables, p \in Players : row[t][p] \in Nat
BY Constants DEF TypeOK, Jobs

LEMMA WrittenIs ==
  ASSUME TypeOK, NEW s \in Statements, job[s].player \in Players, row' = Written(s)
  PROVE  \A t \in Tables, p \in Players :
           row'[t][p] = IF t = job[s].table /\ p = job[s].player
                        THEN job[s].version ELSE row[t][p]
<1>1. job[s].table \in Tables
  BY NumbersAre
<1>2. QED
  BY <1>1 DEF TypeOK, Written

\* What is written by no step but the last two does not change, and what waits
\* has waited before.
LEMMA LagKept ==
  ASSUME IInv, RowsLagBehind, row' = row,
         \A p \in Players : mode'[p] = "async" => mode[p] = "async",
         \A p \in Players : version[p] <= version'[p] /\ version'[p] \in Nat,
         \A s \in Statements : s \in locked => job'[s] = job[s],
         \A w \in Workers : \E d \in {0, 1} : \A i \in Nat, s \in Statements :
           Waits(w, i, s)' => Waits(w, i + d, s)
  PROVE  RowsLagBehind' /\ RowsMoveForward
<1>1. TypeOK
  BY DEF IInv
<1>2. ASSUME NEW p \in Players, mode'[p] = "async", NEW t \in Tables
      PROVE  row'[t][p] <= version'[p]
  BY <1>1, <1>2, NumbersAre DEF RowsLagBehind
<1>3. ASSUME NEW p \in Players, mode'[p] = "async", NEW t \in Tables,
             NEW w \in Workers, NEW i \in Nat, NEW s \in Statements,
             Waits(w, i, s)', job'[s].player = p, job'[s].table = t
      PROVE  row'[t][p] <= job'[s].version
  <2>1. PICK j \in Nat : Waits(w, j, s)
    BY <1>3
  <2>2. job'[s] = job[s]
    BY <2>1, WaitingFacts
  <2>3. QED
    BY <1>3, <2>1, <2>2 DEF RowsLagBehind
<1>4. RowsLagBehind'
  BY <1>2, <1>3 DEF RowsLagBehind
<1>5. RowsMoveForward
  BY <1>1, NumbersAre DEF RowsMoveForward
<1>6. QED
  BY <1>4, <1>5

LEMMA LagQuiet ==
  ASSUME IInv, RowsLagBehind, UNCHANGED <<row, queue, task>>,
         \A p \in Players : mode'[p] = "async" => mode[p] = "async",
         \A p \in Players : version[p] <= version'[p] /\ version'[p] \in Nat,
         \A s \in Statements : s \in locked => job'[s] = job[s]
  PROVE  RowsLagBehind' /\ RowsMoveForward
<1>1. ASSUME NEW w \in Workers
      PROVE  \E d \in {0, 1} : \A i \in Nat, s \in Statements :
               Waits(w, i, s)' => Waits(w, i + d, s)
  <2>1. \A i \in Nat, s \in Statements : Waits(w, i, s)' => Waits(w, i + 0, s)
    BY QuietPlaces
  <2>2. QED
    BY <2>1
<1>2. QED
  BY <1>1, LagKept

LEMMA LagPush ==
  ASSUME IInv, Order, RowsLagBehind, NEW p \in Players, Push(p)
  PROVE  RowsLagBehind' /\ RowsMoveForward
<1>1. UNCHANGED <<job, version, mode, row>>
  BY DEF Push
<1>2. PICK u \in Statements : u = stmt[p]
  BY ThreadFacts DEF Push
<1>3. job[u] = [player |-> p, table |-> table[p], version |-> version[p]]
  BY <1>2 DEF Push, Order, PreparedNow
<1>4. job[u].player = p /\ job[u].version = version[p]
  BY <1>3
<1>5. \A w \in Workers, i \in Nat, s \in Statements :
        Waits(w, i, s)' => Waits(w, i, s) \/ s = u
  BY <1>2, PushPlaces
<1>6. ASSUME NEW q \in Players, mode[q] = "async", NEW t \in Tables,
             NEW w \in Workers, NEW i \in Nat, NEW s \in Statements,
             Waits(w, i, s)', job[s].player = q, job[s].table = t
      PROVE  row[t][q] <= job[s].version
  BY <1>4, <1>5, <1>6 DEF RowsLagBehind
<1>7. RowsLagBehind'
  BY <1>1, <1>6 DEF RowsLagBehind
<1>8. RowsMoveForward
  BY <1>1, NumbersAre DEF RowsMoveForward, IInv
<1>9. QED
  BY <1>7, <1>8

\* ~Player saves a player that does not save asynchronously any more.
LEMMA LagExecuteStatement ==
  ASSUME IInv, Order, RowsLagBehind, NEW p \in Players, ExecuteStatement(p)
  PROVE  RowsLagBehind' /\ RowsMoveForward
<1>1. UNCHANGED <<job, version, mode, queue, task>> /\ mode[p] = "final"
  BY DEF ExecuteStatement, workerVars, Order, FinalOnTheSpot
<1>2. PICK u \in Statements : u = stmt[p]
  BY ThreadFacts DEF ExecuteStatement
<1>3. job[u] = [player |-> p, table |-> table[p], version |-> version[p]]
  BY <1>2 DEF ExecuteStatement, Order, PreparedNow
<1>4. job[u].player = p
  BY <1>3
<1>5. row' = Written(u)
  BY <1>2 DEF ExecuteStatement
<1>6. \A t \in Tables, q \in Players : mode[q] = "async" => row'[t][q] = row[t][q]
  BY <1>1, <1>4, <1>5, WrittenIs DEF IInv
<1>7. \A w \in Workers, i \in Nat, s \in Statements : Waits(w, i, s)' <=> Waits(w, i, s)
  BY <1>1, QuietPlaces
<1>8. RowsLagBehind'
  BY <1>1, <1>6, <1>7 DEF RowsLagBehind
<1>9. RowsMoveForward
  BY <1>6, NumbersAre DEF RowsMoveForward, IInv
<1>10. QED
  BY <1>8, <1>9

\* The only worker executes the oldest save of the row.
LEMMA LagExecute ==
  ASSUME NumWorkers = 1, IInv, Order, RowsLagBehind, NEW w \in Workers, Execute(w)
  PROVE  RowsLagBehind' /\ RowsMoveForward
<1>1. UNCHANGED <<job, version, mode>>
  BY DEF Execute, saveVars
<1>2. PICK u \in Statements : u = task[w]
  BY DEF Execute, IInv, TypeOK, BusyHasTask
<1>3. Waits(w, 0, u) /\ 0 \in Nat
  BY <1>2 DEF Waits
<1>4. row' = Written(u)
  BY <1>2 DEF Execute
<1>5. job[u].player \in Players /\ job[u].version <= version[job[u].player]
  BY <1>3 DEF Order, WaitingIsOfPlayer
<1>6. \A t \in Tables, p \in Players :
        row'[t][p] = IF t = job[u].table /\ p = job[u].player
                     THEN job[u].version ELSE row[t][p]
  BY <1>4, <1>5, WrittenIs DEF IInv
<1>7. \A v \in Workers : v = w
  BY DEF Workers
<1>8. \A v \in Workers, i \in Nat, s \in Statements :
        Waits(v, i, s)' => Waits(v, i, s) /\ Later(u, s)
  <2>1. SUFFICES ASSUME NEW v \in Workers, NEW i \in Nat, NEW s \in Statements,
                        Waits(v, i, s)'
                 PROVE  Waits(v, i, s) /\ Later(u, s)
    OBVIOUS
  <2>2. Waits(v, i, s) /\ 0 < i /\ v = w
    BY <2>1, <1>7, ExecutePlaces
  <2>3. QED
    BY <1>3, <2>2 DEF Order, SavesAreQueuedInOrder
<1>9. ASSUME NEW p \in Players, mode[p] = "async", NEW t \in Tables
      PROVE  row[t][p] <= row'[t][p] /\ row'[t][p] <= version[p]
  <2>1. CASE t = job[u].table /\ p = job[u].player
    BY <1>3, <1>5, <1>6, <1>9, <2>1 DEF RowsLagBehind
  <2>2. CASE ~(t = job[u].table /\ p = job[u].player)
    BY <1>6, <1>9, <2>2, NumbersAre DEF RowsLagBehind, IInv
  <2>3. QED
    BY <2>1, <2>2
<1>10. ASSUME NEW p \in Players, mode[p] = "async", NEW t \in Tables,
              NEW v \in Workers, NEW i \in Nat, NEW s \in Statements,
              Waits(v, i, s)', job[s].player = p, job[s].table = t
       PROVE  row'[t][p] <= job[s].version
  <2>1. Waits(v, i, s) /\ Later(u, s)
    BY <1>8, <1>10
  <2>2. CASE t = job[u].table /\ p = job[u].player
    BY <1>6, <1>10, <2>1, <2>2 DEF Later
  <2>3. CASE ~(t = job[u].table /\ p = job[u].player)
    BY <1>6, <1>10, <2>1, <2>3 DEF RowsLagBehind
  <2>4. QED
    BY <2>2, <2>3
<1>11. RowsLagBehind'
  BY <1>1, <1>9, <1>10 DEF RowsLagBehind
<1>12. RowsMoveForward
  BY <1>9 DEF RowsMoveForward
<1>13. QED
  BY <1>11, <1>12

LEMMA LagInit == Init => RowsLagBehind
<1> SUFFICES ASSUME Init PROVE RowsLagBehind
  OBVIOUS
<1>1. \A w \in Workers, i \in Nat, s \in Statements : ~Waits(w, i, s)
  BY Constants DEF Init, Waits
<1>2. \A p \in Players, t \in Tables : row[t][p] <= version[p]
  BY DEF Init
<1>3. QED
  BY <1>1, <1>2 DEF RowsLagBehind

LEMMA LagStep ==
  ASSUME NumWorkers = 1, IInv, Order, RowsLagBehind, [Next]_vars
  PROVE  RowsLagBehind' /\ RowsMoveForward
<1> DEFINE Goal == RowsLagBehind' /\ RowsMoveForward
<1>1. \A p \in Players : version[p] \in Nat /\ version[p] <= version[p]
  BY NumbersAre DEF IInv
<1>2. ASSUME UNCHANGED <<row, queue, task, mode, version, job>>
      PROVE  Goal
  BY <1>1, <1>2, LagQuiet
<1>3. ASSUME NEW p \in Players, NEW m \in {"async", "final"}, BeginSave(p, m)
      PROVE  Goal
  <2>1. /\ \A q \in Players : version'[q] = IF q = p THEN version[p] + 1 ELSE version[q]
        /\ \A q \in Players : mode'[q] = IF q = p THEN m ELSE mode[q]
        /\ pc[p] = "idle"
        /\ UNCHANGED <<job, row, queue, task>>
    BY <1>3 DEF BeginSave, IInv, TypeOK, workerVars
  <2>2. mode[p] = "async"
    BY <2>1 DEF IInv, SavesAreCounted
  <2>3. \A q \in Players : version[q] <= version'[q] /\ version'[q] \in Nat
    BY <1>1, <2>1
  <2>4. QED
    BY <2>1, <2>2, <2>3, LagQuiet
<1>4. ASSUME NEW p \in Players, Prepare(p)
      PROVE  Goal
  <2>1. UNCHANGED <<mode, version, row, queue, task>>
    BY <1>4 DEF Prepare, workerVars
  <2>2. \A s \in Statements : s \in locked => job'[s] = job[s]
    BY <1>4 DEF Prepare, IInv, TypeOK
  <2>3. QED
    BY <1>1, <2>1, <2>2, LagQuiet
<1>5. ASSUME NEW p \in Players, SelectWorker(p) \/ GetFuture(p) \/ ProcessOperators(p)
                                \/ DestroyFutures(p)
      PROVE  Goal
  <2>1. UNCHANGED <<row, queue, task, mode, version, job>>
    BY <1>5 DEF SelectWorker, GetFuture, ProcessOperators, DestroyFutures, saveVars, workerVars
  <2>2. QED
    BY <1>2, <2>1
<1>6. ASSUME NEW w \in Workers, WaitAndPop(w) \/ SpuriousWakeup(w)
      PROVE  Goal
  <2>1. UNCHANGED <<row, queue, task, mode, version, job>>
    BY <1>6 DEF WaitAndPop, SpuriousWakeup, saveVars
  <2>2. QED
    BY <1>2, <2>1
<1>7. ASSUME NEW w \in Workers, Resume(w)
      PROVE  Goal
  <2>1. UNCHANGED <<row, mode, version, job>>
    BY <1>7 DEF Resume, saveVars
  <2>2. QED
    BY <1>1, <1>7, <2>1, ResumePlaces, LagKept
<1>8. CASE UNCHANGED vars
  BY <1>2, <1>8 DEF vars, saveVars, workerVars
<1>9. QED
  BY <1>3, <1>4, <1>5, <1>6, <1>7, <1>8, LagPush, LagExecuteStatement, LagExecute
     DEF Next, PlayerStep, WorkerStep

\* With one worker (GameWorkerThreads, game.conf.dist.in:38) no save overtakes
\* another: the rows of a player never go back to an older version, as long as
\* ~Player has not begun the save that does not go through the queue.
THEOREM RowsNeverGoBack ==
  ASSUME NumWorkers = 1
  PROVE  Spec => [][\A p \in Players : mode[p] = "async" =>
                      \A t \in Tables : row[t][p] <= row'[t][p]]_vars
<1>1. IInv /\ Order /\ RowsLagBehind /\ [Next]_vars => RowsLagBehind' /\ RowsMoveForward
  BY LagStep
<1>2. Spec => []RowsLagBehind
  BY <1>1, LagInit, InvAlways, OrderAlways, PTL DEF Spec
<1>3. IInv /\ Order /\ RowsLagBehind /\ [Next]_vars =>
        [\A p \in Players : mode[p] = "async" =>
           \A t \in Tables : row[t][p] <= row'[t][p]]_vars
  BY <1>1 DEF RowsMoveForward
<1>4. QED
  BY <1>2, <1>3, InvAlways, OrderAlways, PTL DEF Spec
===============================================================================
