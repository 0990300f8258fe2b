----------------------------- MODULE WorldProofs ------------------------------
(***************************************************************************)
(* The tables of players, for any connections and accounts: no player      *)
(* leaks or outlives its deletion in m_PlayerQueue and m_Players, an       *)
(* account has one ship, and a removal erases the entry of its own player. *)
(*                                                                         *)
(* They are proved together.  RemovePlayer erases the entry of an account, *)
(* so that the tables stay right only because the entry is the player's    *)
(* own; that it is rests on the tables, for an account that logs in again  *)
(* leaves a player of its own in the removal queue only if it is deleted.  *)
(***************************************************************************)
EXTENDS World, TLAPS

InQueue(c) == \E i \in DOMAIN playerQueue : playerQueue[i] = c

\* No connection is queued twice, since it logs in once.
QueuedOnce ==
  \A i, j \in DOMAIN playerQueue : playerQueue[i] = playerQueue[j] => i = j

LoginOnce ==
  \A c \in Connections : player[c] # "none" => authentic[c] \/ netPc[c] = "login"

\* RegisteredUntilDeleted, player by player.
Registered ==
  /\ \A c \in Connections :
       /\ player[c] = "live" <=> InQueue(c) \/ players[AccountOf[c]] = c
       /\ ~(InQueue(c) /\ players[AccountOf[c]] = c)
  /\ \A a \in Accounts : players[a] # None => AccountOf[players[a]] = a

\* What the loops of World::Update still have to reach is in the tables.
LoopsOverKnown ==
  /\ worldPc = "packets" =>
       \A c \in Connections : c \in todo \/ c = current => players[AccountOf[c]] = c
  /\ worldPc # "packets" => current = None
  /\ worldPc = "removal" => todo \subseteq removal

\* A player that is not in the removal queue has a fresh logout timer.
FreshLogoutTimer ==
  \A c \in Connections : c \notin removal => elapsed[c] = 0

IInv ==
  /\ TypeOK
  /\ QueuedOnce /\ LoginOnce /\ Registered
  /\ OneShipPerAccount /\ RemovesOwnEntry /\ FreshLogoutTimer
  /\ LoopsOverKnown

-------------------------------------------------------------------------------
(* The queue.                                                              *)

LEMMA AppendQueued ==
  ASSUME playerQueue \in Seq(Connections), QueuedOnce,
         NEW c \in Connections, ~InQueue(c),
         playerQueue' = Append(playerQueue, c)
  PROVE  /\ QueuedOnce'
         /\ \A d \in Connections : InQueue(d)' <=> InQueue(d) \/ d = c
<1>1. /\ DOMAIN playerQueue = 1..Len(playerQueue) /\ Len(playerQueue) \in Nat
      /\ DOMAIN playerQueue' = 1..(Len(playerQueue) + 1)
      /\ playerQueue'[Len(playerQueue) + 1] = c
      /\ \A i \in 1..Len(playerQueue) : playerQueue'[i] = playerQueue[i]
  OBVIOUS
<1>2. QueuedOnce'
  BY <1>1 DEF QueuedOnce, InQueue
<1>3. ASSUME NEW d \in Connections PROVE InQueue(d)' <=> InQueue(d) \/ d = c
  BY <1>1 DEF InQueue
<1>4. QED
  BY <1>2, <1>3

LEMMA TailQueued ==
  ASSUME playerQueue \in Seq(Connections), QueuedOnce, playerQueue # <<>>,
         playerQueue' = Tail(playerQueue)
  PROVE  /\ Head(playerQueue) \in Connections /\ InQueue(Head(playerQueue))
         /\ QueuedOnce'
         /\ \A d \in Connections :
              InQueue(d)' <=> InQueue(d) /\ d # Head(playerQueue)
<1>1. /\ DOMAIN playerQueue = 1..Len(playerQueue) /\ Len(playerQueue) \in Nat \ {0}
      /\ DOMAIN playerQueue' = 1..(Len(playerQueue) - 1)
      /\ Head(playerQueue) = playerQueue[1]
      /\ \A i \in 1..(Len(playerQueue) - 1) : playerQueue'[i] = playerQueue[i + 1]
  OBVIOUS
<1>2. Head(playerQueue) \in Connections /\ InQueue(Head(playerQueue))
  BY <1>1 DEF InQueue
<1>3. QueuedOnce'
  <2> SUFFICES ASSUME NEW i \in DOMAIN playerQueue', NEW j \in DOMAIN playerQueue',
                      playerQueue'[i] = playerQueue'[j]
               PROVE  i = j
    BY DEF QueuedOnce
  <2>1. playerQueue[i + 1] = playerQueue[j + 1]
    BY <1>1
  <2>2. i + 1 = j + 1
    BY <1>1, <2>1 DEF QueuedOnce
  <2>3. QED
    BY <1>1, <2>2
<1>4. ASSUME NEW d \in Connections
      PROVE  InQueue(d)' <=> InQueue(d) /\ d # Head(playerQueue)
  <2>1. ASSUME InQueue(d)' PROVE InQueue(d) /\ d # Head(playerQueue)
    <3>1. PICK i \in DOMAIN playerQueue' : playerQueue'[i] = d
      BY <2>1 DEF InQueue
    <3>2. i + 1 \in DOMAIN playerQueue /\ playerQueue[i + 1] = d /\ i + 1 # 1
      BY <1>1, <3>1
    <3>3. QED
      BY <1>1, <3>2 DEF InQueue, QueuedOnce
  <2>2. ASSUME InQueue(d), d # Head(playerQueue) PROVE InQueue(d)'
    <3>1. PICK i \in DOMAIN playerQueue : playerQueue[i] = d
      BY <2>2 DEF InQueue
    <3>2. i - 1 \in DOMAIN playerQueue' /\ playerQueue'[i - 1] = d
      BY <1>1, <2>2, <3>1
    <3>3. QED
      BY <3>2 DEF InQueue
  <2>3. QED
    BY <2>1, <2>2
<1>5. QED
  BY <1>2, <1>3, <1>4

\* The form of the invariant that is proved says what the property says.
LEMMA RegisteredMeans ==
  ASSUME TypeOK, Registered
  PROVE  RegisteredUntilDeleted
<1>1. /\ \A c \in Connections : InQueue(c) <=> c \in Queued
      /\ Queued \subseteq Connections
  BY DEF TypeOK, InQueue, Queued
<1>2. ASSUME NEW c \in Connections
      PROVE  players[AccountOf[c]] = c <=> c \in Listed
  BY WorldAssumption DEF TypeOK, Registered, Listed
<1>3. Listed \subseteq Connections
  BY DEF TypeOK, Listed
<1>4. QED
  BY <1>1, <1>2, <1>3 DEF Registered, RegisteredUntilDeleted

-------------------------------------------------------------------------------
(* Types.                                                                  *)

LEMMA AppendReceived ==
  ASSUME TypeOK, NEW c \in Connections, NEW p \in Packets
  PROVE  [received EXCEPT ![c] = Append(@, p)] \in [Connections -> Seq(Packets)]
<1>1. received[c] \in Seq(Packets)
  BY DEF TypeOK
<1>2. Append(received[c], p) \in Seq(Packets)
  BY <1>1
<1>3. QED
  BY <1>2 DEF TypeOK

LEMMA TypeNet ==
  ASSUME TypeOK, NEW c \in Connections, NetStep(c)
  PROVE  TypeOK'
<1> USE DEF TypeOK, netVars, playerVars, worldVars
<1>1. CASE Accept(c)
  BY <1>1 DEF Accept
<1>2. ASSUME NEW loads \in BOOLEAN, HandleLoginPacket(c, loads) PROVE TypeOK'
  <2>1. playerQueue' \in Seq(Connections)
    BY <1>2 DEF HandleLoginPacket
  <2>2. QED
    BY <1>2, <2>1 DEF HandleLoginPacket, PlayerStates
<1>3. CASE QueueLogin(c)
  <2>1. received' \in [Connections -> Seq(Packets)]
    <3>1. "login" \in Packets
      BY DEF Packets
    <3>2. received' \in {received, [received EXCEPT ![c] = Append(@, "login")]}
      BY <1>3 DEF QueueLogin, UseAfterFree
    <3>3. [received EXCEPT ![c] = Append(@, "login")] \in [Connections -> Seq(Packets)]
      BY <3>1, AppendReceived
    <3>4. received \in [Connections -> Seq(Packets)]
      OBVIOUS
    <3>5. QED
      BY ONLY <3>2, <3>3, <3>4
  <2>2. QED
    BY <1>3, <2>1 DEF QueueLogin, UseAfterFree
<1>4. ASSUME NEW p \in ClientPackets, OnRead(c, p) PROVE TypeOK'
  BY <1>4, WorldAssumption DEF OnRead
<1>5. CASE ProcessIncomingData(c)
  <2>1. received' \in [Connections -> Seq(Packets)]
    <3>1. netPc[c] \in Packets
      BY <1>5 DEF ProcessIncomingData, Packets
    <3>2. received' \in {received, [received EXCEPT ![c] = Append(@, netPc[c])]}
      BY <1>5 DEF ProcessIncomingData, UseAfterFree
    <3>3. [received EXCEPT ![c] = Append(@, netPc[c])] \in [Connections -> Seq(Packets)]
      BY <3>1, AppendReceived
    <3>4. received \in [Connections -> Seq(Packets)]
      OBVIOUS
    <3>5. QED
      BY ONLY <3>2, <3>3, <3>4
  <2>2. QED
    BY <1>5, <2>1 DEF ProcessIncomingData, UseAfterFree
<1>6. CASE Disconnect(c)
  BY <1>6 DEF Disconnect
<1>7. QED
  BY <1>1, <1>2, <1>3, <1>4, <1>5, <1>6 DEF NetStep

LEMMA TypeDelete ==
  ASSUME TypeOK, NEW c \in Connections, Delete(c)
  PROVE  /\ player' \in [Connections -> PlayerStates]
         /\ socket' \in [Connections -> {"new", "open", "closed"}]
         /\ received' \in [Connections -> Seq(Packets)]
         /\ inMap' \in [Connections -> BOOLEAN]
<1>1. <<>> \in Seq(Packets)
  OBVIOUS
<1>2. QED
  BY <1>1 DEF TypeOK, Delete, PlayerStates

LEMMA TypeWorld ==
  ASSUME TypeOK, WorldStep
  PROVE  TypeOK'
<1> USE DEF TypeOK, netVars, playerVars, worldVars
<1>1. CASE ProcessPlayer
  <2> DEFINE new == Head(playerQueue)
             account == AccountOf[new]
  <2>1. new \in Connections /\ account \in Accounts /\ playerQueue' \in Seq(Connections)
    BY <1>1, WorldAssumption DEF ProcessPlayer
  <2>2. players' \in [Accounts -> Connections \union {None}]
    BY <1>1, <2>1 DEF ProcessPlayer
  <2>3. /\ player' \in [Connections -> PlayerStates]
        /\ socket' \in [Connections -> {"new", "open", "closed"}]
        /\ received' \in [Connections -> Seq(Packets)]
        /\ inMap' \in [Connections -> BOOLEAN]
    <3>1. CASE players[account] = None
      BY <1>1, <3>1 DEF ProcessPlayer
    <3>2. CASE players[account] # None
      <4>1. players[account] \in Connections /\ Delete(players[account])
        BY <1>1, <2>1, <3>2 DEF ProcessPlayer
      <4>2. QED
        BY <4>1, TypeDelete
    <3>3. QED
      BY <3>1, <3>2
  <2>4. QED
    BY <1>1, <2>1, <2>2, <2>3 DEF ProcessPlayer
<1>2. CASE EndQueue
  <2>1. todo' \in SUBSET Connections
    BY <1>2 DEF EndQueue, Listed
  <2>2. QED
    BY <1>2, <2>1 DEF EndQueue
<1>3. ASSUME NEW c \in Connections, BeginPlayer(c) PROVE TypeOK'
  <2>1. /\ loggingOut' \in [Connections -> BOOLEAN] /\ removal' \in SUBSET Connections
        /\ current' \in Connections \union {None} /\ todo' \in SUBSET Connections
    <3>1. CASE socket[c] = "closed"
      <4>1. loggingOut' = [loggingOut EXCEPT ![c] = TRUE]
        BY <1>3, <3>1 DEF BeginPlayer
      <4>2. loggingOut' \in [Connections -> BOOLEAN]
        BY <4>1
      <4>3. removal' \in SUBSET Connections
        BY <1>3, <3>1 DEF BeginPlayer
      <4>4. QED
        BY <1>3, <3>1, <4>2, <4>3 DEF BeginPlayer
    <3>2. CASE socket[c] # "closed"
      BY <1>3, <3>2 DEF BeginPlayer
    <3>3. QED
      BY <3>1, <3>2
  <2>2. QED
    BY <1>3, <2>1 DEF BeginPlayer
<1>4. CASE ExecutePacket
  <2>1. current \in Connections
    BY <1>4 DEF ExecutePacket
  <2>2. received' \in [Connections -> Seq(Packets)]
    BY <1>4, <2>1 DEF ExecutePacket
  <2>3. /\ loggedIn' \in [Connections -> BOOLEAN] /\ loggingOut' \in [Connections -> BOOLEAN]
        /\ inMap' \in [Connections -> BOOLEAN] /\ strayed' \in [Connections -> BOOLEAN]
        /\ removal' \in SUBSET Connections
    BY <1>4, <2>1 DEF ExecutePacket, HandleLogin, HandleLogout, HandleCancelLogout,
                      HandleObjectMove
  <2>4. QED
    BY <1>4, <2>2, <2>3 DEF ExecutePacket
<1>5. CASE EndPlayer
  BY <1>5 DEF EndPlayer
<1>6. CASE EndPackets
  BY <1>6 DEF EndPackets
<1>7. ASSUME NEW c \in Connections, ProcessRemoval(c) PROVE TypeOK'
  <2>1. CASE player[c] = "freed"
    BY <1>7, <2>1 DEF ProcessRemoval, UseAfterFree
  <2>2. CASE player[c] # "freed" /\ (CancelRemoval(c) \/ KeepWaiting(c))
    <3>1. elapsed' \in [Connections -> 0..LogoutTicks - 1] /\ removal' \in SUBSET Connections
      <4>1. CASE CancelRemoval(c)
        BY <4>1, WorldAssumption DEF CancelRemoval
      <4>2. CASE KeepWaiting(c)
        <5>1. elapsed[c] + 1 \in 0..LogoutTicks - 1
          BY <4>2, WorldAssumption DEF KeepWaiting
        <5>2. QED
          BY <4>2, <5>1 DEF KeepWaiting
      <4>3. QED
        BY <2>2, <4>1, <4>2
    <3>2. UNCHANGED <<player, socket, received, inMap, players>>
      BY <2>2 DEF CancelRemoval, KeepWaiting
    <3>3. QED
      BY <1>7, <2>2, <3>1, <3>2 DEF ProcessRemoval
  <2>3. CASE player[c] # "freed" /\ RemovePlayer(c)
    <3>1. /\ player' \in [Connections -> PlayerStates]
          /\ socket' \in [Connections -> {"new", "open", "closed"}]
          /\ received' \in [Connections -> Seq(Packets)]
          /\ inMap' \in [Connections -> BOOLEAN]
      BY <2>3, TypeDelete DEF RemovePlayer
    <3>2. players' \in [Accounts -> Connections \union {None}]
      BY <2>3 DEF RemovePlayer
    <3>3. elapsed' \in [Connections -> 0..LogoutTicks - 1] /\ removal' \in SUBSET Connections
      BY <2>3, WorldAssumption DEF RemovePlayer
    <3>4. QED
      BY <1>7, <2>3, <3>1, <3>2, <3>3 DEF ProcessRemoval
  <2>4. QED
    BY <1>7, <2>1, <2>2, <2>3 DEF ProcessRemoval
<1>8. CASE EndRemoval
  BY <1>8 DEF EndRemoval
<1>9. CASE UpdateZones
  BY <1>9 DEF UpdateZones, UseAfterFree
<1>10. QED
  BY <1>1, <1>2, <1>3, <1>4, <1>5, <1>6, <1>7, <1>8, <1>9 DEF WorldStep

LEMMA InitInv == Init => IInv
<1> SUFFICES ASSUME Init PROVE IInv
  OBVIOUS
<1>1. TypeOK
  <2>1. <<>> \in Seq(Packets) /\ <<>> \in Seq(Connections)
    OBVIOUS
  <2>2. 0 \in 0..MaxPackets /\ 0 \in 0..LogoutTicks - 1
    BY WorldAssumption
  <2>3. QED
    BY <2>1, <2>2 DEF Init, TypeOK, PlayerStates
<1>2. \A c \in Connections : ~InQueue(c) /\ players[AccountOf[c]] # c
  BY WorldAssumption DEF Init, InQueue
<1>3. QueuedOnce /\ LoginOnce /\ Registered
  BY <1>2, WorldAssumption DEF Init, QueuedOnce, LoginOnce, Registered
<1>4. OneShipPerAccount /\ RemovesOwnEntry /\ FreshLogoutTimer /\ LoopsOverKnown
  BY DEF Init, OneShipPerAccount, RemovesOwnEntry, FreshLogoutTimer, LoopsOverKnown
<1>5. QED
  BY <1>1, <1>3, <1>4 DEF IInv

-------------------------------------------------------------------------------
(* The network threads: only a login touches the tables.                   *)

\* What a step that leaves the tables and the loops alone keeps.
LEMMA TablesKept ==
  ASSUME IInv,
         UNCHANGED <<player, inMap, strayed, elapsed, loggingOut, worldVars>>,
         LoginOnce'
  PROVE  /\ QueuedOnce' /\ LoginOnce' /\ Registered' /\ OneShipPerAccount'
         /\ RemovesOwnEntry' /\ FreshLogoutTimer' /\ LoopsOverKnown'
<1> USE DEF worldVars
<1>1. QueuedOnce' /\ \A c \in Connections : InQueue(c)' <=> InQueue(c)
  BY DEF IInv, QueuedOnce, InQueue
<1>2. Registered'
  BY <1>1 DEF IInv, Registered
<1>3. OneShipPerAccount' /\ RemovesOwnEntry' /\ FreshLogoutTimer' /\ LoopsOverKnown'
  BY DEF IInv, OneShipPerAccount, RemovesOwnEntry, FreshLogoutTimer, LoopsOverKnown
<1>4. QED
  BY <1>1, <1>2, <1>3

LEMMA NetInv ==
  ASSUME IInv, NEW c \in Connections, NetStep(c)
  PROVE  IInv'
<1> USE DEF netVars, playerVars, worldVars
<1>1. TypeOK'
  BY TypeNet DEF IInv
<1>2. ASSUME NEW loads \in BOOLEAN, HandleLoginPacket(c, loads) PROVE IInv'
  <2>1. player[c] = "none" /\ ~InQueue(c) /\ players[AccountOf[c]] # c
    BY <1>2 DEF IInv, LoginOnce, Registered, HandleLoginPacket, TypeOK
  <2>2. LoginOnce'
    BY <1>2 DEF IInv, LoginOnce, HandleLoginPacket, TypeOK
  <2>3. /\ QueuedOnce'
        /\ \A d \in Connections : InQueue(d)' <=> InQueue(d) \/ (loads /\ d = c)
    <3>1. CASE loads
      BY <1>2, <2>1, <3>1, AppendQueued DEF HandleLoginPacket, IInv, TypeOK
    <3>2. CASE ~loads
      BY <1>2, <3>2 DEF HandleLoginPacket, IInv, QueuedOnce, InQueue
    <3>3. QED
      BY <3>1, <3>2
  <2>4. /\ player' = [player EXCEPT ![c] = IF loads THEN "live" ELSE "failed"]
        /\ UNCHANGED <<players, inMap, strayed, elapsed, removal, worldPc, todo, current>>
    BY <1>2 DEF HandleLoginPacket
  <2>5. Registered'
    BY <2>1, <2>3, <2>4 DEF IInv, Registered, TypeOK
  <2>6. c \notin removal \/ player[c] = "freed" \/ players[AccountOf[c]] = c
    BY DEF IInv, RemovesOwnEntry
  <2>7. OneShipPerAccount' /\ RemovesOwnEntry' /\ FreshLogoutTimer' /\ LoopsOverKnown'
    BY <2>1, <2>4, <2>6 DEF IInv, OneShipPerAccount, RemovesOwnEntry, FreshLogoutTimer,
                            LoopsOverKnown, TypeOK
  <2>8. QED
    BY <1>1, <2>2, <2>3, <2>5, <2>7 DEF IInv
<1>3. ASSUME ~\E loads \in BOOLEAN : HandleLoginPacket(c, loads) PROVE IInv'
  <2>1. UNCHANGED <<player, inMap, strayed, elapsed, loggingOut, worldVars>>
    BY <1>3 DEF NetStep, Accept, QueueLogin, UseAfterFree, OnRead,
                ProcessIncomingData, Disconnect
  <2>2. LoginOnce'
    BY <1>3 DEF IInv, TypeOK, LoginOnce, NetStep, Accept, QueueLogin, UseAfterFree,
                OnRead, ProcessIncomingData, Disconnect, ClientPackets
  <2>3. QED
    BY <1>1, <2>1, <2>2, TablesKept DEF IInv
<1>4. QED
  BY <1>2, <1>3

-------------------------------------------------------------------------------
(* The world thread.                                                       *)

\* The player of an account that logs in again is deleted when the new one is
\* listed; what it leaves in the removal queue is freed.
LEMMA ProcessPlayerInv ==
  ASSUME IInv, ProcessPlayer
  PROVE  IInv'
<1> DEFINE new == Head(playerQueue)
           account == AccountOf[new]
           old == players[account]
<1>1. TypeOK'
  BY TypeWorld DEF IInv, WorldStep
<1>2. /\ new \in Connections /\ InQueue(new) /\ QueuedOnce'
      /\ \A d \in Connections : InQueue(d)' <=> InQueue(d) /\ d # new
  BY TailQueued DEF IInv, TypeOK, ProcessPlayer
<1>3. /\ account \in Accounts /\ old \in Connections \union {None} /\ old # new
      /\ old # None => AccountOf[old] = account
  BY <1>2, WorldAssumption DEF IInv, TypeOK, Registered
<1>4. /\ players' = [players EXCEPT ![account] = new]
      /\ UNCHANGED <<elapsed, strayed, removal, worldPc, todo, current, authentic, netPc>>
      /\ worldPc = "queue"
  BY DEF ProcessPlayer
<1>5. \A d \in Connections :
        /\ player'[d] = IF d = old THEN "freed" ELSE player[d]
        /\ inMap'[d] = IF d = old THEN inMap[d] /\ strayed[d] ELSE inMap[d]
  <2>1. CASE old = None
    BY <2>1, WorldAssumption DEF ProcessPlayer, IInv, TypeOK
  <2>2. CASE old # None
    BY <1>3, <2>2 DEF ProcessPlayer, Delete, IInv, TypeOK
  <2>3. QED
    BY <2>1, <2>2
<1>6. \A d \in Connections :
        players'[AccountOf[d]] = IF AccountOf[d] = account THEN new
                                 ELSE players[AccountOf[d]]
  BY <1>3, <1>4, WorldAssumption DEF IInv, TypeOK
<1>7. /\ player[new] = "live"
      /\ \A d \in Connections : d = old => player[d] = "live"
  BY <1>2, <1>3, WorldAssumption DEF IInv, Registered
<1>8. LoginOnce'
  BY <1>4, <1>5, <1>7 DEF IInv, LoginOnce
<1>9. Registered'
  <2>1. ASSUME NEW d \in Connections
        PROVE  /\ player'[d] = "live" <=> InQueue(d)' \/ players'[AccountOf[d]] = d
               /\ ~(InQueue(d)' /\ players'[AccountOf[d]] = d)
    <3>1. /\ player[d] = "live" <=> InQueue(d) \/ players[AccountOf[d]] = d
          /\ ~(InQueue(d) /\ players[AccountOf[d]] = d)
      BY DEF IInv, Registered
    <3>2. CASE d = new
      BY <1>2, <1>3, <1>5, <1>6, <1>7, <3>2
    <3>3. CASE d = old
      <4>1. /\ AccountOf[d] = account /\ players[AccountOf[d]] = d /\ d # new
            /\ player'[d] = "freed"
        BY <1>3, <1>5, <3>3, WorldAssumption
      <4>2. ~InQueue(d)' /\ players'[AccountOf[d]] # d
        BY <1>2, <1>6, <3>1, <4>1
      <4>3. QED
        BY <4>1, <4>2
    <3>4. CASE d # new /\ d # old
      <4>1. player'[d] = player[d] /\ (InQueue(d)' <=> InQueue(d))
        BY <1>2, <1>5, <3>4
      <4>2. players'[AccountOf[d]] = d <=> players[AccountOf[d]] = d
        BY <1>6, <3>4
      <4>3. QED
        BY ONLY <3>1, <4>1, <4>2
    <3>5. QED
      BY <3>2, <3>3, <3>4
  <2>2. ASSUME NEW a \in Accounts, players'[a] # None
        PROVE  AccountOf[players'[a]] = a
    BY <1>2, <1>3, <1>4, <2>2 DEF IInv, Registered, TypeOK
  <2>3. QED
    BY <2>1, <2>2 DEF Registered
<1>10. OneShipPerAccount'
  <2> SUFFICES ASSUME NEW d \in Connections, inMap'[d]
               PROVE  players'[AccountOf[d]] = d \/ (player'[d] = "freed" /\ strayed'[d])
    BY DEF OneShipPerAccount
  <2>1. CASE d = old
    BY <1>4, <1>5, <2>1
  <2>2. CASE d # old
    <3>1. inMap[d] /\ player'[d] = player[d] /\ strayed'[d] = strayed[d]
      BY <1>4, <1>5, <2>2
    <3>2. players[AccountOf[d]] = d \/ (player[d] = "freed" /\ strayed[d])
      BY <3>1 DEF IInv, OneShipPerAccount
    <3>3. players[AccountOf[d]] = d => players'[AccountOf[d]] = d
      BY <1>6, <2>2
    <3>4. QED
      BY <3>1, <3>2, <3>3
  <2>3. QED
    BY <2>1, <2>2
<1>11. RemovesOwnEntry'
  <2> SUFFICES ASSUME NEW d \in removal, player'[d] # "freed"
               PROVE  players'[AccountOf[d]] = d
    BY <1>4 DEF RemovesOwnEntry
  <2>1. d \in Connections
    BY DEF IInv, TypeOK
  <2>2. d # old /\ player[d] # "freed"
    BY <1>5, <2>1
  <2>3. players[AccountOf[d]] = d
    BY <2>2 DEF IInv, RemovesOwnEntry
  <2>4. AccountOf[d] # account
    BY <2>2, <2>3
  <2>5. QED
    BY <1>6, <2>1, <2>3, <2>4
<1>12. FreshLogoutTimer' /\ LoopsOverKnown'
  BY <1>4 DEF IInv, FreshLogoutTimer, LoopsOverKnown
<1>13. QED
  BY <1>1, <1>2, <1>8, <1>9, <1>10, <1>11, <1>12 DEF IInv

\* What the phases that neither list nor delete a player keep.
LEMMA ListsKept ==
  ASSUME IInv, UNCHANGED <<player, authentic, netPc, playerQueue, players>>
  PROVE  QueuedOnce' /\ LoginOnce' /\ Registered'
<1>1. QueuedOnce' /\ LoginOnce' /\ \A c \in Connections : InQueue(c)' <=> InQueue(c)
  BY DEF IInv, QueuedOnce, LoginOnce, InQueue
<1>2. QED
  BY <1>1 DEF IInv, Registered

\* Executing the packets of a player that is listed: it may enter its map and
\* be queued for removal.
LEMMA PacketsInv ==
  ASSUME IInv, NEW c \in Connections, players[AccountOf[c]] = c, TypeOK',
         UNCHANGED <<player, authentic, netPc, playerQueue, players, elapsed>>,
         worldPc = "packets", worldPc' = "packets", todo' \subseteq todo,
         current' = None \/ current' = c,
         removal \subseteq removal', removal' \subseteq removal \union {c},
         \A d \in Connections \ {c} : inMap'[d] = inMap[d] /\ strayed'[d] = strayed[d]
  PROVE  IInv'
<1>1. QueuedOnce' /\ LoginOnce' /\ Registered'
  BY ListsKept
<1>2. OneShipPerAccount'
  BY DEF IInv, OneShipPerAccount
<1>3. RemovesOwnEntry'
  BY DEF IInv, RemovesOwnEntry
<1>4. FreshLogoutTimer'
  BY DEF IInv, FreshLogoutTimer
<1>5. LoopsOverKnown'
  BY WorldAssumption DEF IInv, LoopsOverKnown
<1>6. QED
  BY <1>1, <1>2, <1>3, <1>4, <1>5 DEF IInv

LEMMA BeginPlayerInv ==
  ASSUME IInv, NEW c \in Connections, BeginPlayer(c)
  PROVE  IInv'
<1> USE DEF BeginPlayer, netVars
<1>1. TypeOK'
  BY TypeWorld DEF IInv, WorldStep
<1>2. players[AccountOf[c]] = c
  BY DEF IInv, LoopsOverKnown
<1>3. /\ current' = None \/ current' = c
      /\ removal \subseteq removal' /\ removal' \subseteq removal \union {c}
  OBVIOUS
<1>4. /\ UNCHANGED <<player, authentic, netPc, playerQueue, players, elapsed, inMap, strayed>>
      /\ worldPc = "packets" /\ worldPc' = "packets" /\ todo' \subseteq todo
  OBVIOUS
<1>5. QED
  BY ONLY IInv, <1>1, <1>2, <1>3, <1>4, PacketsInv

LEMMA ExecutePacketInv ==
  ASSUME IInv, ExecutePacket
  PROVE  IInv'
<1> USE DEF ExecutePacket, netVars
<1>1. TypeOK'
  BY TypeWorld DEF IInv, WorldStep
<1>2. current \in Connections /\ players[AccountOf[current]] = current
  BY DEF IInv, TypeOK, LoopsOverKnown
<1>3. /\ removal \subseteq removal' /\ removal' \subseteq removal \union {current}
      /\ \A d \in Connections \ {current} :
           inMap'[d] = inMap[d] /\ strayed'[d] = strayed[d]
  BY DEF IInv, TypeOK, HandleLogin, HandleLogout, HandleCancelLogout, HandleObjectMove
<1>4. /\ UNCHANGED <<player, authentic, netPc, playerQueue, players, elapsed, current>>
      /\ worldPc = "packets" /\ worldPc' = "packets" /\ todo' \subseteq todo
  OBVIOUS
<1>5. QED
  BY ONLY IInv, <1>1, <1>2, <1>3, <1>4, PacketsInv

\* From one phase of World::Update to the next.
LEMMA PhaseInv ==
  ASSUME IInv, EndQueue \/ EndPlayer \/ EndPackets \/ EndRemoval \/ UpdateZones
  PROVE  IInv'
<1> USE DEF EndQueue, EndPlayer, EndPackets, EndRemoval, UpdateZones, UseAfterFree,
            netVars, playerVars, worldVars
<1>1. TypeOK'
  BY TypeWorld DEF IInv, WorldStep
<1>2. UNCHANGED <<player, authentic, netPc, playerQueue, players, inMap, strayed,
                 elapsed, removal>>
  OBVIOUS
<1>3. QueuedOnce' /\ LoginOnce' /\ Registered'
  BY <1>2, ListsKept
<1>4. OneShipPerAccount' /\ RemovesOwnEntry' /\ FreshLogoutTimer'
  BY <1>2 DEF IInv, OneShipPerAccount, RemovesOwnEntry, FreshLogoutTimer
<1>5. LoopsOverKnown'
  <2>1. CASE EndQueue
    <3>1. \A c \in Listed : players[AccountOf[c]] = c
      BY DEF IInv, Registered, Listed
    <3>2. current' = None /\ todo' = Listed /\ worldPc' = "packets"
      BY <2>1 DEF IInv, LoopsOverKnown
    <3>3. QED
      BY <1>2, <3>1, <3>2, WorldAssumption DEF LoopsOverKnown
  <2>2. CASE EndPlayer
    BY <2>2, WorldAssumption DEF IInv, LoopsOverKnown
  <2>3. CASE EndPackets
    BY <2>3 DEF IInv, LoopsOverKnown
  <2>4. CASE EndRemoval \/ UpdateZones
    BY <2>4 DEF IInv, LoopsOverKnown
  <2>5. QED
    BY <2>1, <2>2, <2>3, <2>4
<1>6. QED
  BY <1>1, <1>3, <1>4, <1>5 DEF IInv

\* A removal erases the entry of the player it deletes.
LEMMA RemovePlayerInv ==
  ASSUME IInv, TypeOK', NEW c \in removal, player[c] # "freed", RemovePlayer(c),
         worldPc = "removal", todo' = todo \ {c},
         UNCHANGED <<strayed, authentic, netPc, playerQueue, worldPc, current>>
  PROVE  IInv'
<1>1. /\ c \in Connections /\ players[AccountOf[c]] = c /\ AccountOf[c] \in Accounts
      /\ ~InQueue(c)
  BY WorldAssumption DEF IInv, TypeOK, RemovesOwnEntry, Registered
<1>2. /\ \A d \in Connections : /\ player'[d] = IF d = c THEN "freed" ELSE player[d]
                                /\ inMap'[d] = (inMap[d] /\ (d = c => strayed[d]))
                                /\ elapsed'[d] = IF d = c THEN 0 ELSE elapsed[d]
      /\ removal' = removal \ {c}
  BY <1>1 DEF RemovePlayer, Delete, IInv, TypeOK
<1>3. \A d \in Connections :
        players'[AccountOf[d]] = IF AccountOf[d] = AccountOf[c] THEN None
                                 ELSE players[AccountOf[d]]
  BY <1>1, WorldAssumption DEF RemovePlayer, IInv, TypeOK
<1>4. \A d \in Connections : InQueue(d)' <=> InQueue(d)
  BY DEF InQueue
<1>5. QueuedOnce' /\ LoginOnce'
  BY <1>1, <1>2 DEF IInv, QueuedOnce, LoginOnce, Registered
<1>6. Registered'
  <2>1. ASSUME NEW d \in Connections
        PROVE  /\ player'[d] = "live" <=> InQueue(d)' \/ players'[AccountOf[d]] = d
               /\ ~(InQueue(d)' /\ players'[AccountOf[d]] = d)
    <3>1. /\ player[d] = "live" <=> InQueue(d) \/ players[AccountOf[d]] = d
          /\ ~(InQueue(d) /\ players[AccountOf[d]] = d)
      BY DEF IInv, Registered
    <3>2. CASE d = c
      <4>1. player'[d] = "freed" /\ ~InQueue(d)'
        BY <1>1, <1>2, <1>4, <3>2
      <4>2. players'[AccountOf[d]] = None /\ d # None
        BY <1>3, <3>2, WorldAssumption
      <4>3. QED
        BY <4>1, <4>2
    <3>3. CASE d # c
      <4>1. player'[d] = player[d]
        BY <1>2, <3>3
      <4>2. players'[AccountOf[d]] = d <=> players[AccountOf[d]] = d
        BY <1>1, <1>3, <3>3, WorldAssumption
      <4>3. QED
        BY <1>4, <3>1, <4>1, <4>2
    <3>4. QED
      BY <3>2, <3>3
  <2>2. ASSUME NEW a \in Accounts, players'[a] # None
        PROVE  AccountOf[players'[a]] = a
    BY <1>1, <2>2 DEF RemovePlayer, IInv, Registered, TypeOK
  <2>3. QED
    BY <2>1, <2>2 DEF Registered
<1>7. OneShipPerAccount'
  <2> SUFFICES ASSUME NEW d \in Connections, inMap'[d]
               PROVE  players'[AccountOf[d]] = d \/ (player'[d] = "freed" /\ strayed'[d])
    BY DEF OneShipPerAccount
  <2>1. CASE d = c
    BY <1>2, <2>1
  <2>2. CASE d # c
    <3>1. inMap[d] /\ player'[d] = player[d] /\ strayed'[d] = strayed[d]
      BY <1>2, <2>2
    <3>2. players[AccountOf[d]] = d \/ (player[d] = "freed" /\ strayed[d])
      BY <3>1 DEF IInv, OneShipPerAccount
    <3>3. players[AccountOf[d]] = d => players'[AccountOf[d]] = d
      BY <1>1, <1>3, <2>2
    <3>4. QED
      BY <3>1, <3>2, <3>3
  <2>3. QED
    BY <2>1, <2>2
<1>8. RemovesOwnEntry'
  <2> SUFFICES ASSUME NEW d \in removal', player'[d] # "freed"
               PROVE  players'[AccountOf[d]] = d
    BY DEF RemovesOwnEntry
  <2>1. d \in removal /\ d \in Connections /\ d # c
    BY <1>2 DEF IInv, TypeOK
  <2>2. players[AccountOf[d]] = d
    BY <1>2, <2>1 DEF IInv, RemovesOwnEntry
  <2>3. QED
    BY <1>1, <1>3, <2>1, <2>2
<1>9. FreshLogoutTimer'
  BY <1>2 DEF IInv, FreshLogoutTimer
<1>10. LoopsOverKnown'
  BY <1>2 DEF IInv, LoopsOverKnown
<1>11. QED
  BY <1>5, <1>6, <1>7, <1>8, <1>9, <1>10 DEF IInv

LEMMA ProcessRemovalInv ==
  ASSUME IInv, NEW c \in Connections, ProcessRemoval(c)
  PROVE  IInv'
<1>1. TypeOK'
  BY TypeWorld DEF IInv, WorldStep
<1>2. c \in removal /\ worldPc = "removal" /\ c \in todo
  BY DEF IInv, LoopsOverKnown, ProcessRemoval
<1>3. CASE player[c] = "freed"
  <2>1. UNCHANGED <<netVars, playerVars, worldVars>>
    BY <1>3 DEF ProcessRemoval, UseAfterFree
  <2>2. LoginOnce'
    BY <2>1 DEF IInv, LoginOnce, netVars, playerVars
  <2>3. QED
    BY <1>1, <2>1, <2>2, TablesKept DEF IInv, playerVars
<1>4. CASE player[c] # "freed"
  <2>1. /\ UNCHANGED <<strayed, authentic, netPc, playerQueue, worldPc, current>>
        /\ todo' = todo \ {c}
    BY <1>4 DEF ProcessRemoval
  <2>2. ASSUME CancelRemoval(c) \/ KeepWaiting(c) PROVE IInv'
    <3>1. /\ UNCHANGED <<player, inMap, players>>
          /\ removal' \subseteq removal
          /\ removal' = removal \/ removal' = removal \ {c}
          /\ \A d \in Connections : d # c => elapsed'[d] = elapsed[d]
          /\ c \notin removal' => elapsed'[c] = 0
      BY <1>2, <2>2 DEF CancelRemoval, KeepWaiting, IInv, TypeOK
    <3>2. QueuedOnce' /\ LoginOnce' /\ Registered'
      BY <2>1, <3>1, ListsKept
    <3>3. OneShipPerAccount' /\ RemovesOwnEntry'
      BY <2>1, <3>1 DEF IInv, OneShipPerAccount, RemovesOwnEntry
    <3>4. FreshLogoutTimer'
      BY <3>1 DEF IInv, FreshLogoutTimer
    <3>5. LoopsOverKnown'
      BY <1>2, <2>1, <3>1 DEF IInv, LoopsOverKnown
    <3>6. QED
      BY <1>1, <3>2, <3>3, <3>4, <3>5 DEF IInv
  <2>3. ASSUME RemovePlayer(c) PROVE IInv'
    BY <1>1, <1>2, <1>4, <2>1, <2>3, RemovePlayerInv
  <2>4. QED
    BY <1>4, <2>2, <2>3 DEF ProcessRemoval
<1>5. QED
  BY <1>3, <1>4

-------------------------------------------------------------------------------
(* The theorems.                                                           *)

LEMMA NextInv ==
  ASSUME IInv, [Next]_vars
  PROVE  IInv'
<1>1. CASE UNCHANGED vars
  <2>1. TypeOK'
    BY <1>1 DEF IInv, TypeOK, vars, netVars, playerVars, worldVars
  <2>2. UNCHANGED <<player, inMap, strayed, elapsed, loggingOut, worldVars>> /\ LoginOnce'
    BY <1>1 DEF IInv, LoginOnce, vars, netVars, playerVars
  <2>3. QED
    BY <2>1, <2>2, TablesKept DEF IInv
<1>2. CASE Next
  <2>1. ASSUME NEW c \in Connections, NetStep(c) PROVE IInv'
    BY <2>1, NetInv
  <2>2. CASE WorldStep
    BY <2>2, ProcessPlayerInv, BeginPlayerInv, ExecutePacketInv, PhaseInv,
       ProcessRemovalInv DEF WorldStep
  <2>3. QED
    BY <1>2, <2>1, <2>2 DEF Next
<1>3. QED
  BY <1>1, <1>2

LEMMA InvAlways == Spec => []IInv
<1>1. Init => IInv
  BY InitInv
<1>2. IInv /\ [Next]_vars => IInv'
  BY NextInv
<1>3. QED
  BY <1>1, <1>2, PTL DEF Spec

\* The variables keep their types: in particular the logout timer of a player
\* never passes its interval, whatever is cancelled and asked again.
THEOREM TypeCorrect == Spec => []TypeOK
<1>1. IInv => TypeOK
  BY DEF IInv
<1>2. QED
  BY <1>1, InvAlways, PTL

\* ProcessPlayer and RemovePlayer keep every loaded player in exactly one of
\* m_PlayerQueue and m_Players until it is deleted, and nothing else.
THEOREM TablesCorrect == Spec => []RegisteredUntilDeleted
<1>1. IInv => RegisteredUntilDeleted
  BY RegisteredMeans DEF IInv
<1>2. QED
  BY <1>1, InvAlways, PTL

\* However often an account logs in again, only its listed player is in a map.
THEOREM ShipsCorrect == Spec => []OneShipPerAccount
<1>1. IInv => OneShipPerAccount
  BY DEF IInv
<1>2. QED
  BY <1>1, InvAlways, PTL

\* The assertion in RemovePlayer holds of every entry that is still readable.
THEOREM RemovalsCorrect == Spec => []RemovesOwnEntry
<1>1. IInv => RemovesOwnEntry
  BY DEF IInv
<1>2. QED
  BY <1>1, InvAlways, PTL

-------------------------------------------------------------------------------
(* Logging out.                                                            *)

\* Whoever is flagged has an entry in the removal queue, until it is deleted.
FlaggedIsQueued ==
  \A c \in Connections : loggingOut[c] => c \in removal \/ player[c] = "freed"

LEMMA FlaggedKept ==
  ASSUME FlaggedIsQueued, loggingOut' = loggingOut, removal' = removal,
         \A c \in Connections : player[c] = "freed" => player'[c] = "freed"
  PROVE  FlaggedIsQueued'
BY DEF FlaggedIsQueued

LEMMA FlaggedNet ==
  ASSUME IInv, FlaggedIsQueued, NEW c \in Connections, NetStep(c)
  PROVE  FlaggedIsQueued'
<1>1. loggingOut' = loggingOut /\ removal' = removal
  BY DEF NetStep, Accept, HandleLoginPacket, QueueLogin, OnRead, ProcessIncomingData,
         Disconnect, UseAfterFree, playerVars, worldVars
<1>2. \A d \in Connections : player[d] = "freed" => player'[d] = "freed"
  <2>1. ASSUME NEW loads \in BOOLEAN, HandleLoginPacket(c, loads)
        PROVE  \A d \in Connections : player[d] = "freed" => player'[d] = "freed"
    <3>1. player[c] = "none"
      BY <2>1 DEF IInv, LoginOnce, HandleLoginPacket
    <3>2. \A d \in Connections : d # c => player'[d] = player[d]
      BY <2>1 DEF IInv, TypeOK, HandleLoginPacket
    <3>3. QED
      BY <3>1, <3>2
  <2>2. CASE player' = player
    BY <2>2
  <2>3. QED
    BY <2>1, <2>2 DEF NetStep, Accept, QueueLogin, OnRead, ProcessIncomingData,
                      Disconnect, UseAfterFree, playerVars
<1>3. QED
  BY <1>1, <1>2, FlaggedKept

LEMMA FlaggedWorld ==
  ASSUME IInv, FlaggedIsQueued, WorldStep
  PROVE  FlaggedIsQueued'
<1>1. /\ loggingOut \in [Connections -> BOOLEAN]
      /\ player \in [Connections -> PlayerStates]
      /\ players \in [Accounts -> Connections \union {None}]
      /\ current \in Connections \union {None}
  BY DEF IInv, TypeOK
<1>2. CASE ProcessPlayer
  <2>1. loggingOut' = loggingOut /\ removal' = removal
    BY <1>2 DEF ProcessPlayer
  <2>2. player' = player \/ \E c : player' = [player EXCEPT ![c] = "freed"]
    BY <1>2 DEF ProcessPlayer, Delete
  <2>3. \A c \in Connections : player[c] = "freed" => player'[c] = "freed"
    BY <1>1, <2>2
  <2>4. QED
    BY <2>1, <2>3, FlaggedKept
<1>3. CASE EndQueue \/ EndPlayer \/ EndPackets \/ EndRemoval \/ UpdateZones
  <2>1. loggingOut' = loggingOut /\ removal' = removal /\ player' = player
    BY <1>3 DEF EndQueue, EndPlayer, EndPackets, EndRemoval, UpdateZones, UseAfterFree,
                playerVars, worldVars
  <2>2. QED
    BY <2>1, FlaggedKept
<1>4. ASSUME NEW c \in Connections, BeginPlayer(c) PROVE FlaggedIsQueued'
  <2>1. player' = player
    BY <1>4 DEF BeginPlayer
  <2>2. CASE socket[c] = "closed"
    <3>1. \A d \in Connections : d # c => loggingOut'[d] = loggingOut[d]
      BY <1>1, <1>4, <2>2 DEF BeginPlayer
    <3>2. removal \subseteq removal' /\ (~loggingOut[c] => c \in removal')
      BY <1>4, <2>2 DEF BeginPlayer
    <3>3. QED
      BY <2>1, <3>1, <3>2 DEF FlaggedIsQueued
  <2>3. CASE socket[c] # "closed"
    BY <1>4, <2>1, <2>3, FlaggedKept DEF BeginPlayer
  <2>4. QED
    BY <2>2, <2>3
<1>5. CASE ExecutePacket
  <2>1. player' = player /\ current \in Connections
    BY <1>1, <1>5 DEF ExecutePacket
  <2>2. CASE HandleLogout(current)
    <3>1. removal' = removal \union {current}
      BY <2>2 DEF HandleLogout
    <3>2. \A d \in Connections : d # current => loggingOut'[d] = loggingOut[d]
      BY <1>1, <2>2 DEF HandleLogout
    <3>3. QED
      BY <2>1, <3>1, <3>2 DEF FlaggedIsQueued
  <2>3. CASE HandleCancelLogout(current)
    <3>1. removal' = removal /\ \A d \in Connections : loggingOut'[d] => loggingOut[d]
      BY <1>1, <2>3 DEF HandleCancelLogout
    <3>2. QED
      BY <2>1, <3>1 DEF FlaggedIsQueued
  <2>4. CASE HandleLogin(current) \/ HandleObjectMove(current)
    BY <2>1, <2>4, FlaggedKept DEF HandleLogin, HandleObjectMove
  <2>5. QED
    BY <1>5, <2>2, <2>3, <2>4 DEF ExecutePacket
<1>6. ASSUME NEW c \in Connections, ProcessRemoval(c) PROVE FlaggedIsQueued'
  <2>1. loggingOut' = loggingOut
    BY <1>6 DEF ProcessRemoval, UseAfterFree, playerVars
  <2>2. CASE UseAfterFree
    BY <2>1, <2>2, FlaggedKept DEF UseAfterFree, playerVars, worldVars
  <2>3. CASE KeepWaiting(c)
    BY <2>1, <2>3, FlaggedKept DEF KeepWaiting
  <2>4. CASE CancelRemoval(c)
    BY <2>1, <2>4 DEF CancelRemoval, FlaggedIsQueued
  <2>5. CASE RemovePlayer(c)
    <3>1. player' = [player EXCEPT ![c] = "freed"] /\ removal' = removal \ {c}
      BY <2>5 DEF RemovePlayer, Delete
    <3>2. QED
      BY <1>1, <2>1, <3>1 DEF FlaggedIsQueued
  <2>6. QED
    BY <1>6, <2>2, <2>3, <2>4, <2>5 DEF ProcessRemoval
<1>7. QED
  BY <1>2, <1>3, <1>4, <1>5, <1>6 DEF WorldStep

\* The safety half of GoneClientsAreDeleted: nobody waits outside the removal
\* queue with m_LoggingOut set, where ProcessPacket would not queue it again
\* (the test of IsLoggingOut in BeginPlayer), whatever order logouts,
\* cancellations and disconnections come in.
THEOREM NoGhosts == Spec => []FlaggedIsQueued
<1>1. Init => FlaggedIsQueued
  BY DEF Init, FlaggedIsQueued
<1>2. IInv /\ FlaggedIsQueued /\ [Next]_vars => FlaggedIsQueued'
  <2>1. ASSUME IInv, FlaggedIsQueued, Next PROVE FlaggedIsQueued'
    BY <2>1, FlaggedNet, FlaggedWorld DEF Next
  <2>2. ASSUME FlaggedIsQueued, UNCHANGED vars PROVE FlaggedIsQueued'
    BY <2>2, FlaggedKept DEF vars, playerVars, worldVars
  <2>3. QED
    BY <2>1, <2>2
<1>3. QED
  BY <1>1, <1>2, InvAlways, PTL DEF Spec

\* Whoever waits in the removal queue and can be read is logging out, except
\* while packets are executed and until the removal loop has come to it.
WaitingIsLoggingOut ==
  \A c \in removal :
    \/ player[c] = "freed" \/ loggingOut[c]
    \/ worldPc = "packets"
    \/ worldPc = "removal" /\ c \in todo

LEMMA WaitingKept ==
  ASSUME WaitingIsLoggingOut, UNCHANGED <<loggingOut, removal, worldPc, todo>>,
         \A c \in removal : player[c] = "freed" => player'[c] = "freed"
  PROVE  WaitingIsLoggingOut'
BY DEF WaitingIsLoggingOut

LEMMA WaitingNet ==
  ASSUME IInv, WaitingIsLoggingOut, NEW c \in Connections, NetStep(c)
  PROVE  WaitingIsLoggingOut'
<1>1. UNCHANGED <<loggingOut, removal, worldPc, todo>>
  BY DEF NetStep, Accept, HandleLoginPacket, QueueLogin, OnRead, ProcessIncomingData,
         Disconnect, UseAfterFree, playerVars, worldVars
<1>2. player' = player \/ (player[c] = "none" /\ \A d \in Connections \ {c} : player'[d] = player[d])
  BY DEF NetStep, Accept, HandleLoginPacket, QueueLogin, OnRead, ProcessIncomingData,
         Disconnect, UseAfterFree, playerVars, IInv, TypeOK, LoginOnce
<1>3. \A d \in removal : player[d] = "freed" => player'[d] = "freed"
  BY <1>2 DEF IInv, TypeOK
<1>4. QED
  BY <1>1, <1>3, WaitingKept

LEMMA WaitingRemoval ==
  ASSUME IInv, WaitingIsLoggingOut, NEW c \in Connections, ProcessRemoval(c)
  PROVE  WaitingIsLoggingOut'
<1>1. CASE player[c] = "freed"
  BY <1>1, WaitingKept DEF ProcessRemoval, UseAfterFree, playerVars, worldVars
<1>2. CASE player[c] # "freed"
  <2>1. /\ todo' = todo \ {c} /\ UNCHANGED <<loggingOut, worldPc>>
        /\ removal' \subseteq removal /\ (c \in removal' => loggingOut[c])
    BY <1>2 DEF ProcessRemoval, CancelRemoval, KeepWaiting, RemovePlayer
  <2>2. \A d \in Connections : player[d] = "freed" => player'[d] = "freed"
    BY <1>2 DEF ProcessRemoval, CancelRemoval, KeepWaiting, RemovePlayer, Delete, IInv,
                TypeOK
  <2>3. QED
    BY <2>1, <2>2 DEF WaitingIsLoggingOut, IInv, TypeOK
<1>3. QED
  BY <1>1, <1>2

LEMMA WaitingWorld ==
  ASSUME IInv, WaitingIsLoggingOut, WorldStep
  PROVE  WaitingIsLoggingOut'
<1>1. CASE ProcessPlayer
  <2>1. \A c \in Connections : player[c] = "freed" => player'[c] = "freed"
    BY <1>1 DEF ProcessPlayer, Delete, IInv, TypeOK
  <2>2. QED
    BY <1>1, <2>1, WaitingKept DEF ProcessPlayer, IInv, TypeOK
<1>2. CASE EndQueue \/ EndPlayer \/ ExecutePacket \/ \E c \in Connections : BeginPlayer(c)
  BY <1>2 DEF EndQueue, EndPlayer, ExecutePacket, BeginPlayer, WaitingIsLoggingOut
<1>3. CASE EndPackets
  BY <1>3 DEF EndPackets, WaitingIsLoggingOut
<1>4. ASSUME NEW c \in Connections, ProcessRemoval(c) PROVE WaitingIsLoggingOut'
  BY <1>4, WaitingRemoval
<1>5. CASE EndRemoval
  BY <1>5 DEF EndRemoval, playerVars, WaitingIsLoggingOut
<1>6. CASE UpdateZones
  BY <1>6 DEF UpdateZones, UseAfterFree, playerVars, worldVars, WaitingIsLoggingOut
<1>7. QED
  BY <1>1, <1>2, <1>3, <1>4, <1>5, <1>6 DEF WorldStep

\* A logout that has been cancelled, and whose cancellation still stands when
\* ProcessRemovalPlayer runs, leaves neither an entry nor a spent timer behind.
THEOREM LogoutsCorrect == Spec => []LogoutsSettled
<1>1. Init => WaitingIsLoggingOut
  BY DEF Init, WaitingIsLoggingOut
<1>2. IInv /\ WaitingIsLoggingOut /\ [Next]_vars => WaitingIsLoggingOut'
  <2>1. ASSUME IInv, WaitingIsLoggingOut, Next PROVE WaitingIsLoggingOut'
    BY <2>1, WaitingNet, WaitingWorld DEF Next
  <2>2. ASSUME WaitingIsLoggingOut, UNCHANGED vars PROVE WaitingIsLoggingOut'
    BY <2>2, WaitingKept DEF vars, playerVars, worldVars
  <2>3. QED
    BY <2>1, <2>2
<1>3. IInv /\ FlaggedIsQueued /\ WaitingIsLoggingOut => LogoutsSettled
  BY DEF IInv, TypeOK, FlaggedIsQueued, WaitingIsLoggingOut, FreshLogoutTimer, LogoutsSettled
<1>4. QED
  BY <1>1, <1>2, <1>3, InvAlways, NoGhosts, PTL DEF Spec

===============================================================================
