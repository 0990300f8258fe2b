-------------------------- MODULE TaskManagerProofs ---------------------------
(***************************************************************************)
(* The tasks of type Normal, for any finite set of tasks and any number of *)
(* workers: outside of Optimize every task of the manager is listed by a   *)
(* worker, and a task that has been popped and is in no list and no copy   *)
(* does not come back.  Both turn on the arithmetic of the deal: it goes   *)
(* through the sorted tasks with a stride, and reaches each of them and    *)
(* nothing else.                                                           *)
(***************************************************************************)
EXTENDS TaskManager, FiniteSetTheorems, SequenceTheorems, TLAPS

\* Optimize suspends a worker there is, until it has suspended all of them.
SuspendsWorker == optimizePc = "suspend" => suspending < NumWorkers

IInv == TypeOK /\ SuspendsWorker /\ RegisteredIsListed

\* t is listed by no worker, and no worker has it before it.
NowhereToBeFound(t) ==
  \A w \in Workers : t \notin Range(workerTasks[w]) /\ t \notin Range(copy[w])

Gone(t) == t \in pushed \ registered /\ NowhereToBeFound(t)

LEMMA Constants ==
  /\ NumWorkers \in Nat \ {0} /\ MaxOptimize \in Nat
  /\ IsFiniteSet(Tasks)
  /\ 0 \in Workers /\ Workers \subseteq Nat
  /\ \A w : w \in Workers <=> w \in Nat /\ w < NumWorkers
BY TaskAssumption DEF Workers

LEMMA Minimum ==
  ASSUME NEW S \in SUBSET Nat, S # {}
  PROVE  \E m \in S : \A n \in S : m <= n
<1>1. PICK m \in S : \A n \in S : ~(<<n, m>> \in OpToRel(<, Nat))
  BY NatLessThanWellFounded, WFMin, Zenon
<1>2. \A n \in S : ~(n < m)
  BY <1>1 DEF OpToRel
<1>3. \A n \in S : m <= n
  BY <1>2
<1>4. QED
  BY <1>3

-------------------------------------------------------------------------------
(* The lists: choosing, erasing, copying *)

LEMMA ChosenIsWorker == Chosen \in Workers
<1> DEFINE faster == {w \in Workers : slow[0] /\ ~slow[w]}
<1>1. CASE faster = {}
  BY <1>1, Constants DEF Chosen
<1>2. CASE faster # {}
  <2> DEFINE above == {NumWorkers - w : w \in faster}
  <2>1. above \in SUBSET Nat /\ above # {}
    BY <1>2, Constants
  <2>2. PICK m \in above : \A n \in above : m <= n
    BY <2>1, Minimum
  <2>3. PICK w \in faster : m = NumWorkers - w
    BY <2>2
  <2>4. ASSUME NEW v \in faster PROVE v <= w
    <3>1. NumWorkers - v \in above
      OBVIOUS
    <3>2. NumWorkers - w <= NumWorkers - v
      BY <3>1, <2>2, <2>3
    <3>3. v \in Nat /\ w \in Nat
      BY Constants
    <3>4. QED
      BY <3>2, <3>3, Constants
  <2>5. \E u \in faster : \A v \in faster : v <= u
    BY <2>4
  <2>6. Chosen = CHOOSE u \in faster : \A v \in faster : v <= u
    BY <1>2 DEF Chosen
  <2>7. QED
    BY <2>5, <2>6
<1>3. QED
  BY <1>1, <1>2

\* Of the list nothing but one occurrence of t is erased.
LEMMA WithoutFirstFacts ==
  ASSUME NEW s \in Seq(Tasks), NEW t
  PROVE  /\ WithoutFirst(s, t) \in Seq(Tasks)
         /\ \A u \in Range(s) : u # t => u \in Range(WithoutFirst(s, t))
         /\ Range(WithoutFirst(s, t)) \subseteq Range(s)
<1>1. CASE ~\E i \in DOMAIN s : s[i] = t
  BY <1>1 DEF WithoutFirst
<1>2. CASE \E i \in DOMAIN s : s[i] = t
  <2> DEFINE places == {i \in DOMAIN s : s[i] = t}
             first == CHOOSE i \in DOMAIN s : s[i] = t /\ \A j \in 1 .. i - 1 : s[j] # t
  <2>1. places \in SUBSET Nat /\ places # {}
    BY <1>2, LenProperties
  <2>2. PICK m \in places : \A n \in places : m <= n
    BY <2>1, Minimum
  <2>3. \A j \in 1 .. m - 1 : s[j] # t
    <3>1. SUFFICES ASSUME NEW j \in 1 .. m - 1, s[j] = t PROVE FALSE
      OBVIOUS
    <3>2. j \in places
      BY <3>1, <2>2, LenProperties
    <3>3. QED
      BY <3>1, <3>2, <2>1, <2>2
  <2>4. first \in DOMAIN s /\ s[first] = t
    BY <2>2, <2>3
  <2>5. PICK k : k = first
    OBVIOUS
  <2>6. k \in 1 .. Len(s) /\ s[k] = t /\ Len(s) \in Nat
    BY <2>4, <2>5, LenProperties
  <2>7. WithoutFirst(s, t) = SubSeq(s, 1, k - 1) \o SubSeq(s, k + 1, Len(s))
    BY <1>2, <2>5 DEF WithoutFirst, RemoveAt
  <2>8. PICK a : a = SubSeq(s, 1, k - 1)
    OBVIOUS
  <2>9. PICK b : b = SubSeq(s, k + 1, Len(s))
    OBVIOUS
  <2>10. \A i \in 1 .. Len(s) : s[i] \in Tasks
    BY LenProperties
  <2>11. /\ a \in Seq(Tasks) /\ Len(a) = k - 1
         /\ \A i \in 1 .. k - 1 : a[i] = s[i]
    <3>1. \A i \in 1 .. k - 1 : s[i] \in Tasks
      BY <2>6, <2>10
    <3>2. /\ SubSeq(s, 1, k - 1) \in Seq(Tasks)
          /\ Len(SubSeq(s, 1, k - 1)) = IF 1 <= k - 1 THEN (k - 1) - 1 + 1 ELSE 0
          /\ \A i \in 1 .. (k - 1) - 1 + 1 : SubSeq(s, 1, k - 1)[i] = s[1 + i - 1]
      BY <3>1, <2>6, SubSeqProperties
    <3>3. QED
      BY <3>2, <2>6, <2>8
  <2>12. /\ b \in Seq(Tasks) /\ Len(b) = Len(s) - k
         /\ \A i \in 1 .. Len(s) - k : b[i] = s[k + i]
    <3>1. \A i \in k + 1 .. Len(s) : s[i] \in Tasks
      BY <2>6, <2>10
    <3>2. /\ SubSeq(s, k + 1, Len(s)) \in Seq(Tasks)
          /\ Len(SubSeq(s, k + 1, Len(s)))
               = IF k + 1 <= Len(s) THEN Len(s) - (k + 1) + 1 ELSE 0
          /\ \A i \in 1 .. Len(s) - (k + 1) + 1 :
               SubSeq(s, k + 1, Len(s))[i] = s[(k + 1) + i - 1]
      BY <3>1, <2>6, SubSeqProperties
    <3>3. QED
      BY <3>2, <2>6, <2>9
  <2>13. PICK r : r = a \o b
    OBVIOUS
  <2>14. /\ r \in Seq(Tasks) /\ Len(r) = (k - 1) + (Len(s) - k)
         /\ \A i \in 1 .. Len(r) :
              r[i] = IF i <= k - 1 THEN a[i] ELSE b[i - (k - 1)]
    <3>1. /\ a \o b \in Seq(Tasks)
          /\ Len(a \o b) = Len(a) + Len(b)
          /\ \A i \in 1 .. Len(a) + Len(b) :
               (a \o b)[i] = IF i <= Len(a) THEN a[i] ELSE b[i - Len(a)]
      BY <2>11, <2>12, ConcatProperties
    <3>2. QED
      BY <3>1, <2>11, <2>12, <2>13
  <2>15. ASSUME NEW i \in 1 .. Len(s) - 1
         PROVE  r[i] = IF i < k THEN s[i] ELSE s[i + 1]
    <3>1. i \in 1 .. Len(r)
      BY <2>6, <2>14
    <3>2. CASE i < k
      <4>1. i \in 1 .. k - 1 /\ i <= k - 1
        BY <3>2, <2>6
      <4>2. QED
        BY <3>1, <3>2, <4>1, <2>11, <2>14
    <3>3. CASE ~(i < k)
      <4>1. i - (k - 1) \in 1 .. Len(s) - k /\ k + (i - (k - 1)) = i + 1 /\ ~(i <= k - 1)
        BY <3>3, <2>6
      <4>2. b[i - (k - 1)] = s[i + 1]
        BY <4>1, <2>12
      <4>3. QED
        BY <3>1, <3>3, <4>1, <4>2, <2>14
    <3>4. QED
      BY <3>2, <3>3
  <2>16. WithoutFirst(s, t) = r
    BY <2>7, <2>8, <2>9, <2>13
  <2>17. DOMAIN r = 1 .. Len(s) - 1 /\ DOMAIN s = 1 .. Len(s)
    BY <2>6, <2>14, LenProperties
  <2>18. ASSUME NEW u \in Range(s), u # t PROVE u \in Range(r)
    <3>1. PICK i \in 1 .. Len(s) : u = s[i]
      BY <2>17, <2>18 DEF Range
    <3>2. i # k
      BY <3>1, <2>6, <2>18
    <3>3. CASE i < k
      BY <3>1, <3>3, <2>6, <2>14, <2>15, <2>17 DEF Range
    <3>4. CASE i > k
      <4>1. i - 1 \in 1 .. Len(s) - 1 /\ ~(i - 1 < k) /\ (i - 1) + 1 = i
        BY <3>4, <2>6
      <4>2. r[i - 1] = s[i]
        BY <4>1, <2>6, <2>14, <2>15
      <4>3. QED
        BY <4>1, <4>2, <3>1, <2>17 DEF Range
    <3>5. QED
      BY <3>2, <3>3, <3>4, <2>6
  <2>19. Range(r) \subseteq Range(s)
    <3>1. SUFFICES ASSUME NEW i \in 1 .. Len(s) - 1 PROVE r[i] \in Range(s)
      BY <2>17 DEF Range
    <3>2. r[i] = s[i] \/ r[i] = s[i + 1]
      BY <2>6, <2>14, <2>15
    <3>3. i \in DOMAIN s /\ i + 1 \in DOMAIN s
      BY <2>6, <2>17
    <3>4. QED
      BY <3>2, <3>3 DEF Range
  <2>20. QED
    BY <2>14, <2>16, <2>18, <2>19
<1>3. QED
  BY <1>1, <1>2

-------------------------------------------------------------------------------
(* The deal *)

LEMMA Division ==
  ASSUME NEW a \in Nat, NEW b \in Nat \ {0}
  PROVE  /\ a \div b \in Nat /\ a % b \in Nat /\ a % b < b
         /\ a = b * (a \div b) + (a % b)
OBVIOUS

\* c cards of b each fit into a, so a divided by b is c at least.
LEMMA QuotientBound ==
  ASSUME NEW a \in Nat, NEW b \in Nat \ {0}, NEW c \in Nat, b * c <= a
  PROVE  c <= a \div b
<1>1. PICK q \in Nat : q = a \div b
  BY Division
<1>2. a < b * q + b
  BY <1>1, Division
<1>3. SUFFICES ASSUME q + 1 <= c PROVE FALSE
  BY <1>1
<1>4. PICK d \in Nat : c = (q + 1) + d
  <2>1. c - (q + 1) \in Nat /\ c = (q + 1) + (c - (q + 1))
    BY <1>1, <1>3
  <2>2. QED
    BY <2>1
<1>5. b * c = b * q + b + b * d
  BY <1>4
<1>6. b * d \in Nat /\ b * q \in Nat
  OBVIOUS
<1>7. QED
  BY <1>2, <1>5, <1>6

LEMMA QuotientIsBounded ==
  ASSUME NEW a \in Nat, NEW b \in Nat \ {0}, NEW c \in Nat, c <= a \div b
  PROVE  b * c <= a
<1>1. PICK q \in Nat : q = a \div b
  BY Division
<1>2. PICK r \in Nat : r = a % b
  BY Division
<1>3. a = b * q + r
  BY <1>1, <1>2, Division
<1>4. PICK d \in Nat : q = c + d
  <2>1. q - c \in Nat /\ q = c + (q - c)
    BY <1>1
  <2>2. QED
    BY <2>1
<1>5. b * q = b * c + b * d
  BY <1>4
<1>6. b * d \in Nat /\ b * c \in Nat
  OBVIOUS
<1>7. QED
  BY <1>3, <1>5, <1>6

\* The order of a sort: each element of S once.
LEMMA OrderFacts ==
  ASSUME NEW S, IsFiniteSet(S), NEW order \in SetToSeqs(S)
  PROVE  \E n \in Nat :
           /\ order \in [1 .. n -> S]
           /\ \A t \in S : \E k \in 1 .. n : order[k] = t
<1>1. PICK n : n = Cardinality(S)
  OBVIOUS
<1>2. n \in Nat
  BY <1>1, FS_CardinalityType
<1>3. /\ order \in [1 .. n -> S]
      /\ \A i, j \in 1 .. n : i # j => order[i] # order[j]
  BY <1>1 DEF SetToSeqs
<1>4. order \in Injection(1 .. n, S)
  BY <1>3 DEF Injection, IsInjective
<1>5. Cardinality(1 .. n) = Cardinality(S)
  <2>1. Cardinality(1 .. n) = IF 1 > n THEN 0 ELSE n - 1 + 1
    BY <1>2, FS_Interval
  <2>2. QED
    BY <1>1, <1>2, <2>1
<1>6. order \in Surjection(1 .. n, S)
  BY <1>4, <1>5, FS_Injection
<1>7. QED
  BY <1>2, <1>3, <1>6 DEF Surjection

\* What the stride reaches is in the order, ...
LEMMA StrideStays ==
  ASSUME NEW n \in Nat, NEW w \in Workers,
         NEW i \in 1 .. (n - w + NumWorkers - 1) \div NumWorkers
  PROVE  (i - 1) * NumWorkers + w + 1 \in 1 .. n
<1>1. PICK N \in Nat \ {0} : N = NumWorkers
  BY Constants
<1>2. w \in Nat /\ w < N
  BY <1>1, Constants
<1>3. PICK a \in Nat : a = n - w + N - 1
  <2>1. n - w + N - 1 \in Nat
    BY <1>2
  <2>2. QED
    BY <2>1
<1>4. a \div N \in Nat
  BY Division
<1>5. i \in Nat \ {0} /\ i <= a \div N
  BY <1>1, <1>3, <1>4
<1>6. N * i <= a
  BY <1>5, QuotientIsBounded
<1>7. PICK j \in Nat : i = j + 1
  <2>1. i - 1 \in Nat /\ i = (i - 1) + 1
    BY <1>5
  <2>2. QED
    BY <2>1
<1>8. N * i = j * N + N /\ (i - 1) * N = j * N
  BY <1>7
<1>9. j * N \in Nat
  OBVIOUS
<1>10. (i - 1) * N + w + 1 \in 1 .. n
  BY <1>2, <1>3, <1>6, <1>8, <1>9
<1>11. QED
  BY <1>1, <1>10

\* ... and every place of the order is reached by the stride of one worker.
LEMMA StrideReaches ==
  ASSUME NEW n \in Nat, NEW k \in 1 .. n
  PROVE  \E w \in Workers :
           \E i \in 1 .. (n - w + NumWorkers - 1) \div NumWorkers :
             (i - 1) * NumWorkers + w + 1 = k
<1>1. PICK N \in Nat \ {0} : N = NumWorkers
  BY Constants
<1>2. PICK l \in Nat : k = l + 1
  <2>1. k - 1 \in Nat /\ k = (k - 1) + 1
    OBVIOUS
  <2>2. QED
    BY <2>1
<1>3. PICK q \in Nat : q = l \div N
  BY Division
<1>4. PICK w \in Nat : w = l % N
  BY Division
<1>5. w < N /\ l = N * q + w
  BY <1>3, <1>4, Division
<1>6. w \in Workers
  BY <1>1, <1>5, Constants
<1>7. PICK a \in Nat : a = n - w + N - 1
  <2>1. n - w + N - 1 \in Nat
    BY <1>5
  <2>2. QED
    BY <2>1
<1>8. N * q \in Nat /\ N * (q + 1) = N * q + N
  OBVIOUS
<1>9. N * (q + 1) <= a
  BY <1>2, <1>5, <1>7, <1>8
<1>10. q + 1 <= a \div N
  BY <1>9, QuotientBound
<1>11. q + 1 \in 1 .. a \div N
  <2>1. a \div N \in Nat
    BY Division
  <2>2. QED
    BY <2>1, <1>10
<1>12. ((q + 1) - 1) * N + w + 1 = k
  <2>1. (q + 1) - 1 = q /\ q * N = N * q
    OBVIOUS
  <2>2. QED
    BY <2>1, <1>2, <1>5, <1>8
<1>13. /\ q + 1 \in 1 .. (n - w + NumWorkers - 1) \div NumWorkers
       /\ ((q + 1) - 1) * NumWorkers + w + 1 = k
  BY <1>1, <1>7, <1>11, <1>12
<1>14. QED
  BY <1>6, <1>13

LEMMA DealtFacts ==
  ASSUME NEW S \in SUBSET Tasks, NEW order \in SetToSeqs(S)
  PROVE  /\ \A w \in Workers : Dealt(order, w) \in Seq(S)
         /\ \A t \in S : \E w \in Workers : t \in Range(Dealt(order, w))
<1>1. IsFiniteSet(S)
  BY Constants, FS_Subset
<1>2. PICK n \in Nat : /\ order \in [1 .. n -> S]
                       /\ \A t \in S : \E k \in 1 .. n : order[k] = t
  BY <1>1, OrderFacts
<1>3. Len(order) = n
  BY <1>2
<1>4. ASSUME NEW w \in Workers
      PROVE  Dealt(order, w) =
               [i \in 1 .. (n - w + NumWorkers - 1) \div NumWorkers |->
                  order[(i - 1) * NumWorkers + w + 1]]
  BY <1>3 DEF Dealt
<1>5. ASSUME NEW w \in Workers PROVE Dealt(order, w) \in Seq(S)
  <2>1. PICK m : m = (n - w + NumWorkers - 1) \div NumWorkers
    OBVIOUS
  <2>2. m \in Nat
    <3>1. w \in Nat /\ n - w + NumWorkers - 1 \in Nat
      BY Constants
    <3>2. QED
      BY <2>1, <3>1, Constants, Division
  <2>3. \A i \in 1 .. m : order[(i - 1) * NumWorkers + w + 1] \in S
    BY <1>2, <2>1, StrideStays
  <2>4. Dealt(order, w) = [i \in 1 .. m |-> order[(i - 1) * NumWorkers + w + 1]]
    BY <1>4, <2>1
  <2>5. QED
    BY <2>2, <2>3, <2>4
<1>6. ASSUME NEW t \in S PROVE \E w \in Workers : t \in Range(Dealt(order, w))
  <2>1. PICK k \in 1 .. n : order[k] = t
    BY <1>2
  <2>2. PICK w \in Workers :
          \E i \in 1 .. (n - w + NumWorkers - 1) \div NumWorkers :
            (i - 1) * NumWorkers + w + 1 = k
    BY StrideReaches
  <2>3. PICK i \in 1 .. (n - w + NumWorkers - 1) \div NumWorkers :
          (i - 1) * NumWorkers + w + 1 = k
    BY <2>2
  <2>4. i \in DOMAIN Dealt(order, w) /\ Dealt(order, w)[i] = t
    BY <1>4, <2>1, <2>3
  <2>5. QED
    BY <2>4 DEF Range
<1>7. QED
  BY <1>5, <1>6

LEMMA ConcatRange ==
  ASSUME NEW r \in Seq(Tasks), NEW s \in Seq(Tasks)
  PROVE  /\ r \o s \in Seq(Tasks)
         /\ \A t : t \in Range(r \o s) <=> t \in Range(r) \/ t \in Range(s)
<1>1. PICK a \in Nat : a = Len(r)
  BY LenProperties
<1>2. PICK b \in Nat : b = Len(s)
  BY LenProperties
<1>3. PICK c : c = r \o s
  OBVIOUS
<1>4. /\ c \in Seq(Tasks) /\ Len(c) = a + b
      /\ \A i \in 1 .. a + b : c[i] = IF i <= a THEN r[i] ELSE s[i - a]
  BY <1>1, <1>2, <1>3, ConcatProperties
<1>5. DOMAIN c = 1 .. a + b /\ DOMAIN r = 1 .. a /\ DOMAIN s = 1 .. b
  BY <1>1, <1>2, <1>4, LenProperties
<1>6. ASSUME NEW i \in 1 .. a PROVE c[i] = r[i] /\ i \in 1 .. a + b
  BY <1>4
<1>7. ASSUME NEW i \in 1 .. b PROVE c[a + i] = s[i] /\ a + i \in 1 .. a + b
  <2>1. a + i \in 1 .. a + b /\ ~(a + i <= a) /\ (a + i) - a = i
    OBVIOUS
  <2>2. QED
    BY <2>1, <1>4
<1>8. ASSUME NEW t, t \in Range(r) PROVE t \in Range(c)
  BY <1>5, <1>6, <1>8 DEF Range
<1>9. ASSUME NEW t, t \in Range(s) PROVE t \in Range(c)
  BY <1>5, <1>7, <1>9 DEF Range
<1>10. ASSUME NEW t, t \in Range(c) PROVE t \in Range(r) \/ t \in Range(s)
  <2>1. PICK i \in 1 .. a + b : c[i] = t
    BY <1>5, <1>10 DEF Range
  <2>2. CASE i <= a
    BY <2>1, <2>2, <1>4, <1>5 DEF Range
  <2>3. CASE ~(i <= a)
    <3>1. i - a \in 1 .. b
      BY <2>3
    <3>2. s[i - a] = t
      BY <2>1, <2>3, <1>4
    <3>3. QED
      BY <3>1, <3>2, <1>5 DEF Range
  <2>4. QED
    BY <2>2, <2>3
<1>11. QED
  BY <1>3, <1>4, <1>8, <1>9, <1>10

LEMMA AppendRange ==
  ASSUME NEW s \in Seq(Tasks), NEW t \in Tasks
  PROVE  /\ Append(s, t) \in Seq(Tasks)
         /\ t \in Range(Append(s, t))
         /\ Range(s) \subseteq Range(Append(s, t))
<1>1. PICK a \in Nat : a = Len(s)
  BY LenProperties
<1>2. PICK c : c = Append(s, t)
  OBVIOUS
<1>3. /\ c \in Seq(Tasks) /\ Len(c) = a + 1 /\ c[a + 1] = t
      /\ \A i \in 1 .. a : c[i] = s[i]
  BY <1>1, <1>2
<1>4. DOMAIN c = 1 .. a + 1 /\ DOMAIN s = 1 .. a
  BY <1>1, <1>3, LenProperties
<1>5. QED
  BY <1>2, <1>3, <1>4 DEF Range

LEMMA TailRange ==
  ASSUME NEW s \in Seq(Tasks), s # <<>>
  PROVE  /\ Head(s) \in Tasks /\ Head(s) \in Range(s)
         /\ Tail(s) \in Seq(Tasks)
         /\ Range(Tail(s)) \subseteq Range(s)
<1>1. PICK a \in Nat : a = Len(s)
  BY LenProperties
<1>2. PICK c : c = Tail(s)
  OBVIOUS
<1>3. /\ c \in Seq(Tasks) /\ Len(c) = a - 1 /\ a # 0
      /\ \A i \in 1 .. a - 1 : c[i] = s[i + 1]
  BY <1>1, <1>2, HeadTailProperties, EmptySeq
<1>4. DOMAIN c = 1 .. a - 1 /\ DOMAIN s = 1 .. a
  BY <1>1, <1>3, LenProperties
<1>5. Head(s) = s[1] /\ Head(s) \in Tasks
  BY <1>1, <1>3
<1>6. ASSUME NEW i \in 1 .. a - 1 PROVE c[i] = s[i + 1] /\ i + 1 \in 1 .. a
  BY <1>3
<1>7. QED
  BY <1>2, <1>3, <1>4, <1>5, <1>6 DEF Range

LEMMA PopFacts ==
  ASSUME TypeOK, NEW t, Pop(t)
  PROVE  /\ registered' = registered \ {t}
         /\ workerTasks' \in [Workers -> Seq(Tasks)]
         /\ \A w \in Workers :
              /\ \A u \in Range(workerTasks[w]) : u # t => u \in Range(workerTasks'[w])
              /\ Range(workerTasks'[w]) \subseteq Range(workerTasks[w])
<1>1. workerTasks \in [Workers -> Seq(Tasks)]
  BY DEF TypeOK
<1>2. CASE t \in registered
  <2>1. workerTasks' = [w \in Workers |-> WithoutFirst(workerTasks[w], t)]
    BY <1>2 DEF Pop
  <2>2. ASSUME NEW w \in Workers
        PROVE  /\ WithoutFirst(workerTasks[w], t) \in Seq(Tasks)
               /\ \A u \in Range(workerTasks[w]) :
                    u # t => u \in Range(WithoutFirst(workerTasks[w], t))
               /\ Range(WithoutFirst(workerTasks[w], t)) \subseteq Range(workerTasks[w])
    <3>1. PICK s \in Seq(Tasks) : s = workerTasks[w]
      BY <1>1
    <3>2. QED
      BY <3>1, WithoutFirstFacts
  <2>3. QED
    BY <2>1, <2>2 DEF Pop
<1>3. CASE t \notin registered
  BY <1>1, <1>3 DEF Pop
<1>4. QED
  BY <1>2, <1>3

\* The lists after a deal.
LEMMA DealFacts ==
  ASSUME TypeOK, Deal
  PROVE  /\ workerTasks' \in [Workers -> Seq(Tasks)]
         /\ \A t \in registered : \E w \in Workers : t \in Range(workerTasks'[w])
         /\ \A w \in Workers : \A t \in Range(workerTasks'[w]) :
              t \in Range(workerTasks[w]) \/ t \in registered
<1>1. PICK order \in SetToSeqs(registered) :
        workerTasks' = [w \in Workers |-> workerTasks[w] \o Dealt(order, w)]
  BY DEF Deal
<1>2. registered \in SUBSET Tasks /\ workerTasks \in [Workers -> Seq(Tasks)]
  BY DEF TypeOK
<1>3. /\ \A w \in Workers : Dealt(order, w) \in Seq(registered)
      /\ \A t \in registered : \E w \in Workers : t \in Range(Dealt(order, w))
  BY <1>2, DealtFacts
<1>4. ASSUME NEW w \in Workers
      PROVE  /\ workerTasks'[w] \in Seq(Tasks)
             /\ \A t : t \in Range(workerTasks'[w])
                         <=> t \in Range(workerTasks[w]) \/ t \in Range(Dealt(order, w))
             /\ Range(Dealt(order, w)) \subseteq registered
  <2>1. PICK d \in Seq(registered) : d = Dealt(order, w)
    BY <1>3
  <2>2. d \in Seq(Tasks)
    BY <1>2, <2>1, SeqMonotonic
  <2>3. PICK s \in Seq(Tasks) : s = workerTasks[w]
    BY <1>2
  <2>4. /\ s \o d \in Seq(Tasks)
        /\ \A t : t \in Range(s \o d) <=> t \in Range(s) \/ t \in Range(d)
    BY <2>2, ConcatRange
  <2>5. workerTasks'[w] = s \o d
    BY <1>1, <2>1, <2>3
  <2>6. Range(d) \subseteq registered
    BY <2>1, LenProperties DEF Range
  <2>7. QED
    BY <2>1, <2>3, <2>4, <2>5, <2>6
<1>5. workerTasks' \in [Workers -> Seq(Tasks)]
  BY <1>1, <1>4
<1>6. ASSUME NEW t \in registered PROVE \E w \in Workers : t \in Range(workerTasks'[w])
  BY <1>3, <1>4
<1>7. ASSUME NEW w \in Workers, NEW t \in Range(workerTasks'[w])
      PROVE  t \in Range(workerTasks[w]) \/ t \in registered
  BY <1>4
<1>8. QED
  BY <1>5, <1>6, <1>7

-------------------------------------------------------------------------------
(* Type correctness, in three parts: what the manager keeps, what a worker *)
(* keeps, and the Booleans.                                                *)

ManagerTypes ==
  /\ pushed \subseteq Tasks
  /\ registered \subseteq pushed
  /\ workerTasks \in [Workers -> Seq(Tasks)]
  /\ optimizePc \in {"idle", "suspend", "deal"}
  /\ suspending \in 0 .. NumWorkers
  /\ optimized \in 0 .. MaxOptimize

WorkerTypes ==
  /\ thread \in [Workers -> ThreadPcs]
  /\ copy \in [Workers -> Seq(Tasks)]
  /\ \A w \in Workers : thread[w] = "task" => copy[w] # <<>>

Flags == isRunning \in [Workers -> BOOLEAN] /\ slow \in [Workers -> BOOLEAN]

LEMMA TypeParts == TypeOK <=> ManagerTypes /\ WorkerTypes /\ Flags
BY DEF TypeOK, ManagerTypes, WorkerTypes, Flags

LEMMA ManagerStep ==
  ASSUME TypeOK, SuspendsWorker, Next
  PROVE  ManagerTypes' /\ SuspendsWorker'
<1> USE Constants
<1>1. ManagerTypes
  BY TypeParts
<1>2. ASSUME NEW t \in Tasks, PushTask(t) PROVE ManagerTypes' /\ SuspendsWorker'
  <2>1. PICK c \in Workers : c = Chosen
    BY ChosenIsWorker
  <2>2. workerTasks' = [workerTasks EXCEPT ![c] = Append(workerTasks[c], t)]
    BY <1>2, <2>1 DEF PushTask
  <2>3. Append(workerTasks[c], t) \in Seq(Tasks)
    BY <1>1, AppendRange DEF ManagerTypes
  <2>4. QED
    BY <1>1, <1>2, <2>2, <2>3
    DEF ManagerTypes, SuspendsWorker, PushTask, optimizeVars
<1>3. ASSUME NEW t \in Tasks, PopTask(t) PROVE ManagerTypes' /\ SuspendsWorker'
  <2>1. Pop(t)
    BY <1>3 DEF PopTask
  <2>2. registered' = registered \ {t} /\ workerTasks' \in [Workers -> Seq(Tasks)]
    BY <2>1, PopFacts
  <2>3. QED
    BY <1>1, <1>3, <2>2 DEF ManagerTypes, SuspendsWorker, PopTask, optimizeVars
<1>4. ASSUME NEW w \in Workers, WorkerStep(w) PROVE ManagerTypes' /\ SuspendsWorker'
  <2>1. CASE \E result \in BOOLEAN : TaskReturns(w, result)
    <3>1. PICK result \in BOOLEAN : TaskReturns(w, result)
      BY <2>1
    <3>2. PICK t : t = Head(copy[w])
      OBVIOUS
    <3>3. UNCHANGED <<pushed, optimizePc, suspending, optimized>>
      BY <3>1 DEF TaskReturns, optimizeVars
    <3>4. CASE result
      BY <3>1, <3>3, <3>4, <1>1 DEF TaskReturns, ManagerTypes, SuspendsWorker
    <3>5. CASE ~result
      <4>1. Pop(t)
        BY <3>1, <3>2, <3>5 DEF TaskReturns
      <4>2. registered' = registered \ {t} /\ workerTasks' \in [Workers -> Seq(Tasks)]
        BY <4>1, PopFacts
      <4>3. QED
        BY <3>3, <4>2, <1>1 DEF ManagerTypes, SuspendsWorker
    <3>6. QED
      BY <3>4, <3>5
  <2>2. CASE ~\E result \in BOOLEAN : TaskReturns(w, result)
    <3>1. UNCHANGED <<pushed, registered, workerTasks, optimizePc, suspending, optimized>>
      BY <1>4, <2>2
      DEF WorkerStep, CopyTasks, FastExit, SkipTask, UpdateTask, EndLoop, optimizeVars
    <3>2. QED
      BY <3>1, <1>1 DEF ManagerTypes, SuspendsWorker
  <2>3. QED
    BY <2>1, <2>2
<1>5. CASE PreSuspend
  BY <1>1, <1>5 DEF ManagerTypes, SuspendsWorker, PreSuspend
<1>6. CASE Suspend
  <2>1. suspending \in Workers
    BY <1>1, <1>6 DEF ManagerTypes, SuspendsWorker, Suspend
  <2>2. workerTasks' \in [Workers -> Seq(Tasks)]
    BY <1>1, <1>6, <2>1 DEF ManagerTypes, Suspend
  <2>3. QED
    BY <1>1, <1>6, <2>1, <2>2 DEF ManagerTypes, SuspendsWorker, Suspend
<1>7. CASE Deal
  <2>1. workerTasks' \in [Workers -> Seq(Tasks)]
    BY <1>7, DealFacts
  <2>2. QED
    BY <1>1, <1>7, <2>1 DEF ManagerTypes, SuspendsWorker, Deal
<1>8. QED
  BY <1>2, <1>3, <1>4, <1>5, <1>6, <1>7 DEF Next, OptimizeStep

LEMMA WorkerStepTypes ==
  ASSUME TypeOK, SuspendsWorker, Next
  PROVE  WorkerTypes'
<1>1. /\ thread \in [Workers -> ThreadPcs]
      /\ copy \in [Workers -> Seq(Tasks)]
      /\ \A w \in Workers : thread[w] = "task" => copy[w] # <<>>
      /\ workerTasks \in [Workers -> Seq(Tasks)]
  BY DEF TypeOK
<1>2. ASSUME NEW t \in Tasks, PushTask(t) \/ PopTask(t) PROVE WorkerTypes'
  BY <1>1, <1>2 DEF WorkerTypes, PushTask, PopTask, workerVars
<1>3. ASSUME NEW w \in Workers, WorkerStep(w) PROVE WorkerTypes'
  <2>1. copy[w] # <<>> => Tail(copy[w]) \in Seq(Tasks)
    BY <1>1, TailRange
  <2>2. CASE CopyTasks(w)
    BY <1>1, <2>2 DEF WorkerTypes, CopyTasks, ThreadPcs
  <2>3. CASE FastExit(w)
    <3>1. <<>> \in Seq(Tasks)
      OBVIOUS
    <3>2. QED
      BY <1>1, <2>3, <3>1 DEF WorkerTypes, FastExit, ThreadPcs
  <2>4. CASE SkipTask(w)
    BY <1>1, <2>1, <2>4 DEF WorkerTypes, SkipTask
  <2>5. ASSUME NEW t \in Tasks, UpdateTask(w, t) PROVE WorkerTypes'
    BY <1>1, <2>5 DEF WorkerTypes, UpdateTask, ThreadPcs
  <2>6. ASSUME NEW result \in BOOLEAN, TaskReturns(w, result) PROVE WorkerTypes'
    BY <1>1, <2>1, <2>6 DEF WorkerTypes, TaskReturns, ThreadPcs
  <2>7. CASE EndLoop(w)
    BY <1>1, <2>7 DEF WorkerTypes, EndLoop, ThreadPcs
  <2>8. QED
    BY <1>3, <2>2, <2>3, <2>4, <2>5, <2>6, <2>7 DEF WorkerStep
<1>4. CASE PreSuspend
  BY <1>1, <1>4 DEF WorkerTypes, PreSuspend
<1>5. CASE Suspend
  BY <1>1, <1>5 DEF WorkerTypes, Suspend, ThreadPcs
<1>6. CASE Deal
  BY <1>1, <1>6 DEF WorkerTypes, Deal, ThreadPcs
<1>7. QED
  BY <1>2, <1>3, <1>4, <1>5, <1>6 DEF Next, OptimizeStep

LEMMA FlagsStep ==
  ASSUME Flags, Next
  PROVE  Flags'
<1>1. isRunning' \in [Workers -> BOOLEAN]
  <2>1. \/ isRunning' = isRunning
        \/ isRunning' = [w \in Workers |-> TRUE]
        \/ isRunning' = [w \in Workers |-> FALSE]
    BY DEF Next, PushTask, PopTask, WorkerStep, CopyTasks, FastExit, SkipTask,
           UpdateTask, TaskReturns, EndLoop, OptimizeStep, PreSuspend, Suspend,
           Deal, workerVars
  <2>2. CASE isRunning' = isRunning
    BY <2>2 DEF Flags
  <2>3. CASE isRunning' = [w \in Workers |-> TRUE]
    BY <2>3
  <2>4. CASE isRunning' = [w \in Workers |-> FALSE]
    BY <2>4
  <2>5. QED
    BY <2>1, <2>2, <2>3, <2>4
<1>2. slow' \in [Workers -> BOOLEAN]
  <2>1. \/ slow' = slow
        \/ \E w, s : s \in BOOLEAN /\ slow' = [slow EXCEPT ![w] = s]
    BY DEF Next, PushTask, PopTask, WorkerStep, CopyTasks, FastExit, SkipTask,
           UpdateTask, TaskReturns, EndLoop, OptimizeStep, PreSuspend, Suspend,
           Deal, workerVars
  <2>2. CASE slow' = slow
    BY <2>2 DEF Flags
  <2>3. ASSUME NEW w, NEW s \in BOOLEAN, slow' = [slow EXCEPT ![w] = s]
        PROVE  slow' \in [Workers -> BOOLEAN]
    BY <2>3 DEF Flags
  <2>4. QED
    BY <2>1, <2>2, <2>3
<1>3. QED
  BY <1>1, <1>2 DEF Flags

-------------------------------------------------------------------------------
(* No task is lost *)

LEMMA ListedStep ==
  ASSUME IInv, Next
  PROVE  RegisteredIsListed'
<1>1. /\ TypeOK /\ RegisteredIsListed
      /\ workerTasks \in [Workers -> Seq(Tasks)]
  BY DEF IInv, TypeOK
<1>2. SUFFICES ASSUME optimizePc' = "idle", NEW t \in registered'
               PROVE  \E w \in Workers : t \in Range(workerTasks'[w])
  BY DEF RegisteredIsListed
<1>3. ASSUME NEW u \in Tasks, PushTask(u)
      PROVE  \E w \in Workers : t \in Range(workerTasks'[w])
  <2>1. PICK c \in Workers : c = Chosen
    BY ChosenIsWorker
  <2>2. workerTasks' = [workerTasks EXCEPT ![c] = Append(workerTasks[c], u)]
    BY <1>3, <2>1 DEF PushTask
  <2>3. PICK s \in Seq(Tasks) : s = workerTasks[c]
    BY <1>1
  <2>4. u \in Range(Append(s, u)) /\ Range(s) \subseteq Range(Append(s, u))
    BY AppendRange
  <2>5. workerTasks'[c] = Append(s, u)
    BY <1>1, <2>2, <2>3
  <2>6. CASE t = u
    BY <2>4, <2>5, <2>6
  <2>7. CASE t # u
    <3>1. t \in registered /\ optimizePc = "idle"
      BY <1>2, <1>3, <2>7 DEF PushTask, optimizeVars
    <3>2. PICK w \in Workers : t \in Range(workerTasks[w])
      BY <3>1, <1>1 DEF RegisteredIsListed
    <3>3. CASE w = c
      BY <2>3, <2>4, <2>5, <3>2, <3>3
    <3>4. CASE w # c
      <4>1. workerTasks'[w] = workerTasks[w]
        BY <1>1, <2>2, <3>4
      <4>2. QED
        BY <3>2, <4>1
    <3>5. QED
      BY <3>3, <3>4
  <2>8. QED
    BY <2>6, <2>7
<1>4. ASSUME NEW u, Pop(u), optimizePc = "idle"
      PROVE  \E w \in Workers : t \in Range(workerTasks'[w])
  <2>1. /\ registered' = registered \ {u}
        /\ \A w \in Workers :
             \A v \in Range(workerTasks[w]) : v # u => v \in Range(workerTasks'[w])
    BY <1>1, <1>4, PopFacts
  <2>2. t \in registered /\ t # u
    BY <1>2, <2>1
  <2>3. PICK w \in Workers : t \in Range(workerTasks[w])
    BY <2>2, <1>1, <1>4 DEF RegisteredIsListed
  <2>4. QED
    BY <2>1, <2>2, <2>3
<1>5. CASE UNCHANGED <<registered, workerTasks, optimizePc>>
  BY <1>1, <1>2, <1>5 DEF RegisteredIsListed
<1>6. ASSUME NEW u \in Tasks, PopTask(u)
      PROVE  \E w \in Workers : t \in Range(workerTasks'[w])
  BY <1>2, <1>4, <1>6 DEF PopTask, optimizeVars
<1>7. ASSUME NEW w \in Workers, WorkerStep(w)
      PROVE  \E x \in Workers : t \in Range(workerTasks'[x])
  <2>1. CASE \E result \in BOOLEAN : TaskReturns(w, result)
    <3>1. PICK result \in BOOLEAN : TaskReturns(w, result)
      BY <2>1
    <3>2. PICK u : u = Head(copy[w])
      OBVIOUS
    <3>3. optimizePc' = optimizePc
      BY <3>1 DEF TaskReturns, optimizeVars
    <3>4. UNCHANGED <<registered, workerTasks>> \/ Pop(u)
      BY <3>1, <3>2 DEF TaskReturns
    <3>5. QED
      BY <3>3, <3>4, <1>2, <1>4, <1>5
  <2>2. CASE ~\E result \in BOOLEAN : TaskReturns(w, result)
    <3>1. UNCHANGED <<registered, workerTasks, optimizePc>>
      BY <1>7, <2>2
      DEF WorkerStep, CopyTasks, FastExit, SkipTask, UpdateTask, EndLoop, optimizeVars
    <3>2. QED
      BY <3>1, <1>5
  <2>3. QED
    BY <2>1, <2>2
<1>8. CASE PreSuspend
  BY <1>2, <1>8 DEF PreSuspend
<1>9. CASE Suspend
  BY <1>2, <1>9 DEF Suspend
<1>10. CASE Deal
  <2>1. t \in registered
    BY <1>2, <1>10 DEF Deal
  <2>2. QED
    BY <1>1, <1>10, <2>1, DealFacts
<1>11. QED
  BY <1>3, <1>6, <1>7, <1>8, <1>9, <1>10 DEF Next, OptimizeStep

-------------------------------------------------------------------------------
(* The invariant *)

LEMMA Initially == Init => IInv
<1> SUFFICES ASSUME Init PROVE IInv
  OBVIOUS
<1>1. ManagerTypes
  <2>1. <<>> \in Seq(Tasks)
    OBVIOUS
  <2>2. QED
    BY <2>1, Constants DEF Init, ManagerTypes
<1>2. WorkerTypes
  <2>1. <<>> \in Seq(Tasks)
    OBVIOUS
  <2>2. QED
    BY <2>1 DEF Init, WorkerTypes, ThreadPcs
<1>3. Flags
  BY DEF Init, Flags
<1>4. SuspendsWorker /\ RegisteredIsListed
  BY DEF Init, SuspendsWorker, RegisteredIsListed
<1>5. QED
  BY <1>1, <1>2, <1>3, <1>4, TypeParts DEF IInv

LEMMA Inductive == IInv /\ [Next]_vars => IInv'
<1>1. ASSUME IInv, Next PROVE IInv'
  <2>1. TypeOK /\ SuspendsWorker /\ Flags
    BY <1>1, TypeParts DEF IInv
  <2>2. ManagerTypes' /\ WorkerTypes' /\ Flags' /\ SuspendsWorker'
    BY <1>1, <2>1, ManagerStep, WorkerStepTypes, FlagsStep
  <2>3. TypeOK'
    BY <2>2 DEF TypeOK, ManagerTypes, WorkerTypes, Flags
  <2>4. QED
    BY <1>1, <2>2, <2>3, ListedStep DEF IInv
<1>2. ASSUME IInv, UNCHANGED vars PROVE IInv'
  BY <1>2
  DEF IInv, TypeOK, SuspendsWorker, RegisteredIsListed, vars, workerVars, optimizeVars
<1>3. QED
  BY <1>1, <1>2

LEMMA Invariant == Spec => []IInv
BY Initially, Inductive, PTL DEF Spec

\* The lists and the copies hold tasks; where a worker executes one, its copy
\* is not empty (ThrTaskWorker.cpp:222).
THEOREM TypeCorrect == Spec => []TypeOK
<1>1. IInv => TypeOK
  BY DEF IInv
<1>2. QED
  BY <1>1, Invariant, PTL

\* No task is lost, whatever is pushed and popped while Optimize empties the
\* lists and deals the tasks out again (ThrTaskManager.cpp:329 to :361).
THEOREM ListedCorrect == Spec => []RegisteredIsListed
<1>1. IInv => RegisteredIsListed
  BY DEF IInv
<1>2. QED
  BY <1>1, Invariant, PTL

-------------------------------------------------------------------------------
(* What has been popped does not come back *)

LEMMA GoneStep ==
  ASSUME TypeOK, SuspendsWorker, Next, NEW t \in Tasks, Gone(t)
  PROVE  Gone(t)'
<1>1. /\ workerTasks \in [Workers -> Seq(Tasks)] /\ copy \in [Workers -> Seq(Tasks)]
      /\ t \in pushed /\ t \notin registered
      /\ \A w \in Workers : t \notin Range(workerTasks[w]) /\ t \notin Range(copy[w])
  BY DEF TypeOK, Gone, NowhereToBeFound
<1>2. SUFFICES /\ t \in pushed' /\ t \notin registered'
               /\ \A w \in Workers : t \notin Range(workerTasks'[w])
               /\ \A w \in Workers : t \notin Range(copy'[w])
  BY DEF Gone, NowhereToBeFound
<1>3. t \notin Range(<<>>)
  BY DEF Range
<1>4. ASSUME NEW u \in Tasks, PushTask(u) PROVE Gone(t)'
  <2>1. u # t
    BY <1>1, <1>4 DEF PushTask
  <2>2. PICK c \in Workers : c = Chosen
    BY ChosenIsWorker
  <2>3. workerTasks' = [workerTasks EXCEPT ![c] = Append(workerTasks[c], u)]
    BY <1>4, <2>2 DEF PushTask
  <2>4. PICK s \in Seq(Tasks) : s = workerTasks[c]
    BY <1>1
  <2>5. workerTasks'[c] = s \o <<u>>
    BY <1>1, <2>3, <2>4
  <2>6. t \notin Range(s) /\ t \notin Range(<<u>>) /\ <<u>> \in Seq(Tasks)
    BY <1>1, <2>1, <2>4 DEF Range
  <2>7. t \notin Range(workerTasks'[c])
    BY <2>5, <2>6, ConcatRange
  <2>8. \A w \in Workers : w # c => workerTasks'[w] = workerTasks[w]
    BY <1>1, <2>3
  <2>9. QED
    BY <1>1, <1>4, <2>1, <2>7, <2>8 DEF PushTask, workerVars, Gone, NowhereToBeFound
<1>5. ASSUME NEW u, Pop(u)
      PROVE  t \notin registered' /\ \A w \in Workers : t \notin Range(workerTasks'[w])
  BY <1>1, <1>5, PopFacts
<1>6. ASSUME NEW u \in Tasks, PopTask(u) PROVE Gone(t)'
  BY <1>1, <1>5, <1>6 DEF PopTask, workerVars, Gone, NowhereToBeFound
<1>7. ASSUME NEW w \in Workers, WorkerStep(w) PROVE Gone(t)'
  <2>1. copy[w] # <<>> => t \notin Range(Tail(copy[w]))
    BY <1>1, TailRange
  <2>2. \A v \in Workers : t \notin Range(copy'[v])
    <3>1. \/ UNCHANGED copy
          \/ copy' = [copy EXCEPT ![w] = workerTasks[w]]
          \/ copy' = [copy EXCEPT ![w] = <<>>]
          \/ copy' = [copy EXCEPT ![w] = Tail(copy[w])] /\ copy[w] # <<>>
      BY <1>7 DEF WorkerStep, CopyTasks, FastExit, SkipTask, UpdateTask, TaskReturns,
                  EndLoop, TypeOK
    <3>2. QED
      BY <3>1, <2>1, <1>1, <1>3
  <2>3. pushed' = pushed
    BY <1>7 DEF WorkerStep, CopyTasks, FastExit, SkipTask, UpdateTask, TaskReturns,
                EndLoop
  <2>4. t \notin registered' /\ \A v \in Workers : t \notin Range(workerTasks'[v])
    <3>1. PICK u : u = Head(copy[w])
      OBVIOUS
    <3>2. UNCHANGED <<registered, workerTasks>> \/ Pop(u)
      BY <1>7, <3>1 DEF WorkerStep, CopyTasks, FastExit, SkipTask, UpdateTask,
                        TaskReturns, EndLoop
    <3>3. QED
      BY <3>2, <1>1, <1>5
  <2>5. QED
    BY <1>1, <2>2, <2>3, <2>4 DEF Gone, NowhereToBeFound
<1>8. CASE PreSuspend
  BY <1>1, <1>8 DEF PreSuspend, Gone, NowhereToBeFound
<1>9. CASE Suspend
  <2>1. workerTasks' = [workerTasks EXCEPT ![suspending] = <<>>]
    BY <1>9 DEF Suspend
  <2>2. \A w \in Workers : t \notin Range(workerTasks'[w])
    BY <2>1, <1>1, <1>3
  <2>3. QED
    BY <2>2, <1>1, <1>9 DEF Suspend, Gone, NowhereToBeFound
<1>10. CASE Deal
  BY <1>1, <1>10, DealFacts DEF Deal, Gone, NowhereToBeFound
<1>11. QED
  BY <1>4, <1>6, <1>7, <1>8, <1>9, <1>10
  DEF Next, OptimizeStep, Gone, NowhereToBeFound

\* The safety half of PoppedTaskStops: a task that has been popped, and that no
\* worker has in its list or its copy, is never executed again, however often
\* Optimize deals the tasks (ThrLambdaTask.cpp:50, ThrTaskManager.cpp:347).
THEOREM PoppedStaysAway ==
  Spec => \A t \in Tasks :
            [](Gone(t) => [](\A w \in Workers : ~Executes(w, t)))
<1>1. SUFFICES ASSUME NEW t \in Tasks
      PROVE  Spec => [](Gone(t) => [](\A w \in Workers : ~Executes(w, t)))
  OBVIOUS
<1> DEFINE Away == \A w \in Workers : ~Executes(w, t)
<1>2. IInv /\ Gone(t) => Away
  <2>1. SUFFICES ASSUME IInv, Gone(t), NEW w \in Workers, Executes(w, t) PROVE FALSE
    OBVIOUS
  <2>2. copy[w] \in Seq(Tasks) /\ copy[w] # <<>>
    BY <2>1 DEF IInv, TypeOK, Executes
  <2>3. t \in Range(copy[w])
    BY <2>1, <2>2, TailRange DEF Executes
  <2>4. QED
    BY <2>1, <2>3 DEF Gone, NowhereToBeFound
<1>3. IInv /\ Gone(t) /\ [Next]_vars => Gone(t)'
  <2>1. ASSUME IInv, Gone(t), Next PROVE Gone(t)'
    BY <2>1, GoneStep DEF IInv
  <2>2. ASSUME Gone(t), UNCHANGED vars PROVE Gone(t)'
    BY <2>2 DEF Gone, NowhereToBeFound, vars, workerVars
  <2>3. QED
    BY <2>1, <2>2
<1>4. Spec => [](Gone(t) => []Away)
  BY <1>2, <1>3, Invariant, PTL DEF Spec
<1>5. QED
  BY <1>4

-------------------------------------------------------------------------------
(* Stopping and resuming the workers.  Who is stopped, and whose thread has *)
(* been joined, follows from where Optimize is: this is what lets Resume    *)
(* give every worker a thread without a look at the one it had.             *)

Runs(w) == isRunning[w] /\ thread[w] \in {"top", "run", "task"}

StoppedInTurn ==
  /\ optimizePc = "idle" => \A w \in Workers : Runs(w)
  /\ optimizePc # "idle" => \A w \in Workers : ~isRunning[w]
  /\ optimizePc = "suspend" => \A w \in Workers : thread[w] = "none" <=> w < suspending
  /\ optimizePc = "deal" => \A w \in Workers : thread[w] = "none"

LEMMA StoppedStep ==
  ASSUME TypeOK, SuspendsWorker, StoppedInTurn, Next
  PROVE  StoppedInTurn'
<1>1. /\ isRunning \in [Workers -> BOOLEAN]
      /\ thread \in [Workers -> ThreadPcs]
      /\ suspending \in Nat /\ suspending <= NumWorkers
      /\ optimizePc \in {"idle", "suspend", "deal"}
  BY Constants DEF TypeOK
<1>2. ASSUME NEW t \in Tasks, PushTask(t) \/ PopTask(t) PROVE StoppedInTurn'
  <2>1. UNCHANGED <<isRunning, thread, optimizePc, suspending>>
    BY <1>2 DEF PushTask, PopTask, workerVars, optimizeVars
  <2>2. QED
    BY <2>1 DEF StoppedInTurn, Runs
<1>3. ASSUME NEW w \in Workers, WorkerStep(w) PROVE StoppedInTurn'
  <2>1. UNCHANGED <<isRunning, optimizePc, suspending>>
    BY <1>3 DEF WorkerStep, CopyTasks, FastExit, SkipTask, UpdateTask, TaskReturns,
                EndLoop, optimizeVars
  <2>2. /\ thread[w] # "none"
        /\ \/ thread' = thread
           \/ thread' = [thread EXCEPT ![w] = "top"]
           \/ thread' = [thread EXCEPT ![w] = "run"]
           \/ thread' = [thread EXCEPT ![w] = "task"]
           \/ ~isRunning[w] /\ thread' = [thread EXCEPT ![w] = "ended"]
    BY <1>3 DEF WorkerStep, CopyTasks, FastExit, SkipTask, UpdateTask, TaskReturns,
                EndLoop
  <2>3. \A v \in Workers :
          /\ thread'[v] = "none" <=> thread[v] = "none"
          /\ isRunning[v] /\ thread[v] \in {"top", "run", "task"}
               => thread'[v] \in {"top", "run", "task"}
    BY <1>1, <2>2
  <2>4. QED
    BY <2>1, <2>3 DEF StoppedInTurn, Runs
<1>4. CASE PreSuspend
  <2>1. \A w \in Workers : thread[w] # "none" /\ ~(w < 0)
    BY <1>4, Constants DEF PreSuspend, StoppedInTurn, Runs
  <2>2. QED
    BY <1>4, <2>1 DEF PreSuspend, StoppedInTurn
<1>5. CASE Suspend
  <2>1. \A w \in Workers : w \in Nat /\ w < NumWorkers
    BY Constants
  <2>2. \A w \in Workers : w < suspending + 1 <=> w < suspending \/ w = suspending
    BY <1>1, <2>1
  <2>3. \A w \in Workers : thread'[w] = "none" <=> w < suspending'
    BY <1>1, <1>5, <2>1, <2>2 DEF Suspend, StoppedInTurn
  <2>4. suspending' = NumWorkers => \A w \in Workers : thread'[w] = "none"
    BY <2>1, <2>3
  <2>5. optimizePc' = IF suspending' = NumWorkers THEN "deal" ELSE "suspend"
    BY <1>5 DEF Suspend
  <2>6. optimizePc = "suspend" /\ isRunning' = isRunning
    BY <1>5 DEF Suspend
  <2>7. QED
    BY <2>3, <2>4, <2>5, <2>6 DEF StoppedInTurn
<1>6. CASE Deal
  BY <1>6 DEF Deal, StoppedInTurn, Runs
<1>7. QED
  BY <1>2, <1>3, <1>4, <1>5, <1>6 DEF Next, OptimizeStep

LEMMA StoppedInvariant == Spec => []StoppedInTurn
<1>1. Init => StoppedInTurn
  BY DEF Init, StoppedInTurn, Runs
<1>2. IInv /\ StoppedInTurn /\ [Next]_vars => StoppedInTurn'
  <2>1. ASSUME IInv, StoppedInTurn, Next PROVE StoppedInTurn'
    BY <2>1, StoppedStep DEF IInv
  <2>2. ASSUME StoppedInTurn, UNCHANGED vars PROVE StoppedInTurn'
    BY <2>2 DEF StoppedInTurn, Runs, vars, workerVars, optimizeVars
  <2>3. QED
    BY <2>1, <2>2
<1>3. QED
  BY <1>1, <1>2, Invariant, PTL DEF Spec

\* No worker stays stopped: while Optimize does not run, each has its thread and
\* is marked as running, whatever the thread was doing when it was told to stop
\* (Resume, ThrTaskWorker.cpp:161).
THEOREM WorkersResume ==
  Spec => [](optimizePc = "idle" => \A w \in Workers : Runs(w))
<1>1. StoppedInTurn => (optimizePc = "idle" => \A w \in Workers : Runs(w))
  BY DEF StoppedInTurn
<1>2. QED
  BY <1>1, StoppedInvariant, PTL

\* A worker never has two threads: where Optimize starts one, the one before it
\* has been joined, that of each worker; and no task is executed meanwhile.
THEOREM ThreadsAreJoined ==
  Spec => [][Deal => \A w \in Workers : thread[w] = "none" /\ ~isRunning[w]]_vars
<1>1. StoppedInTurn =>
        [Deal => \A w \in Workers : thread[w] = "none" /\ ~isRunning[w]]_vars
  BY DEF StoppedInTurn, Deal
<1>2. QED
  BY <1>1, StoppedInvariant, PTL
===============================================================================
