-------------------------------- MODULE World ---------------------------------
(***************************************************************************)
(* The life of a Player object (Game/World/World.cpp, Game/Server/         *)
(* Socket.cpp, Player.cpp): a network thread creates it when a client logs *)
(* in and feeds it packets, the world thread lists it, executes its        *)
(* packets, and deletes it when its account logs in again or when its      *)
(* logout timer has run out.  A player is named by the connection that     *)
(* created it: a GameSocket creates at most one.                           *)
(***************************************************************************)
EXTENDS Integers, Sequences, FiniteSets

CONSTANTS
  Connections,  \* the sockets the listener accepts
  Accounts,     \* the account ids clients log in with
  AccountOf,    \* the id in the LOGIN packet of each connection
  LogoutTicks,  \* IntervalLogout, in world updates
  MaxPackets,   \* bound: packets a client sends after LOGIN
  None          \* no connection

ASSUME WorldAssumption ==
  /\ AccountOf \in [Connections -> Accounts]
  /\ LogoutTicks \in Nat \ {0}
  /\ MaxPackets \in Nat
  /\ None \notin Connections

\* What the client can send once it has logged in: CLIENT_PACKET_LOG_OUT,
\* CLIENT_PACKET_CANCEL_LOG_OUT, and OBJECT_MOVE for the packets of the table
\* whose handlers leave this state alone.
ClientPackets == {"logout", "cancelLogout", "objectMove"}

\* "login" is the "!" packet the socket queues on behalf of the client.
Packets == ClientPackets \union {"login"}

\* Mutant: the PacketProcess of a row is kept.  Of some that OBJECT_MOVE stands for,
\* as CLIENT_PACKET_PING, it is PROCESS_PLAYER_THREAD, which no filter passes.
ProcessDeclared == [p \in Packets |-> IF p = "objectMove" THEN "player" ELSE "world"]

\* The thread that executes each packet.  The rows of OpCodes::InitializePackets
\* declare one, but StoreClientPacket keeps only the name, the status and the
\* handler of a row: its PacketProcess stays value-initialised.
Process == [p \in Packets |-> "world"]

VARIABLES
  socket,       \* m_Socket of each connection: "new", "open" or "closed"
  player,       \* the object its m_Player points to
  authentic,    \* m_AuthenticateState = Authenticed
  netPc,        \* its network thread: "idle", "login", or the packet in hand
  sent,         \* packets the client has sent
  received,     \* Player::m_RecievedQueue
  loggedIn,     \* Player::m_LoggedIn
  loggingOut,   \* Player::m_LoggingOut
  elapsed,      \* Player::IntervalLogout, in world updates
  inMap,        \* the player is in a grid of a map
  strayed,      \* ... in one that its m_GridIndex does not lead to
  playerQueue,  \* World::m_PlayerQueue
  players,      \* World::m_Players
  removal,      \* World::m_PlayerRemovalQueue, a set of raw pointers
  worldPc,      \* the phase of World::Update
  todo,         \* the players the current loop has not reached
  current,      \* the player whose packets are being executed
  undefined     \* a freed player has been used: anything may happen

netVars == <<socket, authentic, netPc, sent>>
playerVars == <<player, received, loggedIn, loggingOut, elapsed, inMap, strayed>>
worldVars == <<playerQueue, players, removal, worldPc, todo, current>>
vars == <<netVars, playerVars, worldVars, undefined>>

PlayerStates ==
  {"none",    \* m_Player is null
   "live",    \* created and loaded
   "failed",  \* created, but LoadFromDB returned false
   "freed"}   \* deleted: m_Player dangles

Init ==
  /\ socket = [c \in Connections |-> "new"]
  /\ player = [c \in Connections |-> "none"]
  /\ authentic = [c \in Connections |-> FALSE]
  /\ netPc = [c \in Connections |-> "idle"]
  /\ sent = [c \in Connections |-> 0]
  /\ received = [c \in Connections |-> <<>>]
  /\ loggedIn = [c \in Connections |-> FALSE]
  /\ loggingOut = [c \in Connections |-> FALSE]
  /\ elapsed = [c \in Connections |-> 0]
  /\ inMap = [c \in Connections |-> FALSE]
  /\ strayed = [c \in Connections |-> FALSE]
  /\ playerQueue = <<>>
  /\ players = [a \in Accounts |-> None]
  /\ removal = {}
  /\ worldPc = "queue"
  /\ todo = {}
  /\ current = None
  /\ undefined = FALSE

Queued == {playerQueue[i] : i \in DOMAIN playerQueue}

Listed == {players[a] : a \in Accounts} \ {None}

\* A use of a player that has been deleted.
UseAfterFree ==
  /\ undefined' = TRUE
  /\ UNCHANGED <<netVars, playerVars, worldVars>>

-------------------------------------------------------------------------------
(* The network thread of a connection *)

Accept(c) ==
  /\ socket[c] = "new"
  /\ socket' = [socket EXCEPT ![c] = "open"]
  /\ UNCHANGED <<authentic, netPc, sent, playerVars, worldVars, undefined>>

\* OnRead of the LOGIN packet, as far as HandleLoginPacket: create the player
\* and hand it to the world thread, or close the socket if it cannot be loaded.
HandleLoginPacket(c, loads) ==
  /\ socket[c] = "open" /\ netPc[c] = "idle" /\ ~authentic[c]
  /\ player' = [player EXCEPT ![c] = IF loads THEN "live" ELSE "failed"]
  /\ playerQueue' = IF loads THEN Append(playerQueue, c) ELSE playerQueue
  /\ socket' = [socket EXCEPT ![c] = IF loads THEN "open" ELSE "closed"]
  /\ netPc' = [netPc EXCEPT ![c] = "login"]
  /\ UNCHANGED <<authentic, sent, received, loggedIn, loggingOut, elapsed, inMap,
                 strayed, players, removal, worldPc, todo, current, undefined>>

\* The rest of ProcessIncomingData: queue the "!" packet on m_Player.
QueueLogin(c) ==
  /\ netPc[c] = "login"
  /\ IF player[c] = "freed"
     THEN UseAfterFree
     ELSE /\ received' = [received EXCEPT ![c] = Append(@, "login")]
          /\ authentic' = [authentic EXCEPT ![c] = TRUE]
          /\ netPc' = [netPc EXCEPT ![c] = "idle"]
          /\ UNCHANGED <<socket, sent, player, loggedIn, loggingOut, elapsed,
                         inMap, strayed, worldVars, undefined>>

\* OnRead of a later packet: the socket is tested before the data is processed.
OnRead(c, p) ==
  /\ socket[c] = "open" /\ netPc[c] = "idle" /\ authentic[c]
  /\ sent[c] < MaxPackets
  /\ sent' = [sent EXCEPT ![c] = @ + 1]
  /\ netPc' = [netPc EXCEPT ![c] = p]
  /\ UNCHANGED <<socket, authentic, playerVars, worldVars, undefined>>

\* ProcessIncomingData: queue a STATUS_LOGGED_IN packet if the player is.
ProcessIncomingData(c) ==
  /\ netPc[c] \in ClientPackets
  /\ IF player[c] = "freed"
     THEN UseAfterFree
     ELSE /\ received' = [received EXCEPT ![c] =
                            IF loggedIn[c] THEN Append(@, netPc[c]) ELSE @]
          /\ netPc' = [netPc EXCEPT ![c] = "idle"]
          /\ UNCHANGED <<socket, authentic, sent, player, loggedIn, loggingOut,
                         elapsed, inMap, strayed, worldVars, undefined>>

\* OnRead with an error: the client has gone.
Disconnect(c) ==
  /\ socket[c] = "open" /\ netPc[c] = "idle"
  /\ socket' = [socket EXCEPT ![c] = "closed"]
  /\ UNCHANGED <<authentic, netPc, sent, playerVars, worldVars, undefined>>

-------------------------------------------------------------------------------
(* The world thread: World::Update *)

\* Mutant: ~Player does not call RemoveFromMap.
DeleteOutsideMap(c) ==
  /\ player' = [player EXCEPT ![c] = "freed"]
  /\ socket' = [socket EXCEPT ![c] = "closed"]
  /\ received' = [received EXCEPT ![c] = <<>>]
  /\ UNCHANGED inMap

\* ~Player closes the socket, empties the packet queue and has the map take the
\* player out of the grid of its index: one that has strayed stays behind.
Delete(c) ==
  /\ player' = [player EXCEPT ![c] = "freed"]
  /\ socket' = [socket EXCEPT ![c] = "closed"]
  /\ received' = [received EXCEPT ![c] = <<>>]
  /\ inMap' = [inMap EXCEPT ![c] = @ /\ strayed[c]]

\* Mutant: the player that is replaced is not deleted.
ProcessPlayerKeepingOld ==
  /\ worldPc = "queue"
  /\ playerQueue # <<>>
  /\ LET new == Head(playerQueue)
     IN /\ playerQueue' = Tail(playerQueue)
        /\ players' = [players EXCEPT ![AccountOf[new]] = new]
  /\ UNCHANGED <<netVars, playerVars, removal, worldPc, todo, current, undefined>>

\* ProcessPlayer: list the next queued player in the place of the player of the
\* same account, which is deleted if there is one.
ProcessPlayer ==
  /\ worldPc = "queue"
  /\ playerQueue # <<>>
  /\ LET new == Head(playerQueue)
         account == AccountOf[new]
     IN /\ playerQueue' = Tail(playerQueue)
        /\ players' = [players EXCEPT ![account] = new]
        /\ IF players[account] = None
           THEN UNCHANGED <<player, socket, received, inMap>>
           ELSE Delete(players[account])
  /\ UNCHANGED <<authentic, netPc, sent, loggedIn, loggingOut, elapsed, strayed,
                 removal, worldPc, todo, current, undefined>>

\* The queue is empty: start ProcessPlayerPackets.
EndQueue ==
  /\ worldPc = "queue"
  /\ playerQueue = <<>>
  /\ worldPc' = "packets"
  /\ todo' = Listed
  /\ UNCHANGED <<netVars, playerVars, playerQueue, players, removal, current,
                 undefined>>

\* Mutant: a player who has disconnected is flagged and not queued for removal.
BeginPlayerWithoutRemoval(c) ==
  /\ worldPc = "packets" /\ current = None /\ c \in todo
  /\ todo' = todo \ {c}
  /\ IF socket[c] = "closed"
     THEN /\ loggingOut' = [loggingOut EXCEPT ![c] = TRUE]
          /\ UNCHANGED current
     ELSE /\ current' = c
          /\ UNCHANGED loggingOut
  /\ UNCHANGED <<netVars, player, received, loggedIn, elapsed, inMap, strayed,
                 playerQueue, players, removal, worldPc, undefined>>

\* ProcessPacket finds the socket closed: the player has disconnected, so start
\* its logout unless it is logging out already.  Else start on its packets.
BeginPlayer(c) ==
  /\ worldPc = "packets" /\ current = None /\ c \in todo
  /\ todo' = todo \ {c}
  /\ IF socket[c] = "closed"
     THEN /\ loggingOut' = [loggingOut EXCEPT ![c] = TRUE]
          /\ removal' = IF loggingOut[c] THEN removal ELSE removal \union {c}
          /\ UNCHANGED current
     ELSE /\ current' = c
          /\ UNCHANGED <<loggingOut, removal>>
  /\ UNCHANGED <<netVars, player, received, loggedIn, elapsed, inMap, strayed,
                 playerQueue, players, worldPc, undefined>>

HandleLogin(c) ==
  /\ Head(received[c]) = "login"
  /\ loggedIn' = [loggedIn EXCEPT ![c] = TRUE]
  /\ inMap' = [inMap EXCEPT ![c] = TRUE]
  /\ UNCHANGED <<strayed, loggingOut, removal>>

HandleLogout(c) ==
  /\ Head(received[c]) = "logout"
  /\ loggingOut' = [loggingOut EXCEPT ![c] = TRUE]
  /\ removal' = removal \union {c}
  /\ UNCHANGED <<loggedIn, inMap, strayed>>

HandleCancelLogout(c) ==
  /\ Head(received[c]) = "cancelLogout"
  /\ loggedIn' = [loggedIn EXCEPT ![c] = TRUE]
  /\ loggingOut' = [loggingOut EXCEPT ![c] = FALSE]
  /\ UNCHANGED <<inMap, strayed, removal>>

\* Spline::Move has the map follow the player.  The first move out of bounds
\* puts it in the radiation grid and keeps its index, that of the cell it left;
\* a move into another cell brings the two together again (Map::Move).
HandleObjectMove(c) ==
  /\ Head(received[c]) = "objectMove"
  /\ \E outside \in BOOLEAN : strayed' = [strayed EXCEPT ![c] = outside]
  /\ UNCHANGED <<loggedIn, loggingOut, inMap, removal>>

\* One turn of ProcessPacket's loop: the head of the queue passes the
\* WorldUpdateFilter, is popped and executed.
ExecutePacket ==
  /\ worldPc = "packets" /\ current # None
  /\ received[current] # <<>>
  /\ Process[Head(received[current])] = "world"
  /\ received' = [received EXCEPT ![current] = Tail(@)]
  /\ \/ HandleLogin(current)
     \/ HandleLogout(current)
     \/ HandleCancelLogout(current)
     \/ HandleObjectMove(current)
  /\ UNCHANGED <<netVars, player, elapsed, playerQueue, players, worldPc, todo,
                 current, undefined>>

\* No more packets, or one that does not pass: go on to the next player.
EndPlayer ==
  /\ worldPc = "packets" /\ current # None
  /\ received[current] # <<>> => Process[Head(received[current])] # "world"
  /\ current' = None
  /\ UNCHANGED <<netVars, playerVars, playerQueue, players, removal, worldPc,
                 todo, undefined>>

\* All players done: start ProcessRemovalPlayer.
EndPackets ==
  /\ worldPc = "packets" /\ current = None /\ todo = {}
  /\ worldPc' = "removal"
  /\ todo' = removal
  /\ UNCHANGED <<netVars, playerVars, playerQueue, players, removal, current,
                 undefined>>

\* Mutant: the timer of a cancelled logout is not rearmed.
CancelRemovalOnly(c) ==
  /\ ~loggingOut[c]
  /\ removal' = removal \ {c}
  /\ UNCHANGED <<elapsed, player, socket, received, inMap, players>>

\* The player has cancelled its logout: rearm the timer and forget the entry.
CancelRemoval(c) ==
  /\ ~loggingOut[c]
  /\ elapsed' = [elapsed EXCEPT ![c] = 0]
  /\ removal' = removal \ {c}
  /\ UNCHANGED <<player, socket, received, inMap, players>>

\* The timer has not passed yet.
KeepWaiting(c) ==
  /\ loggingOut[c]
  /\ elapsed[c] + 1 < LogoutTicks
  /\ elapsed' = [elapsed EXCEPT ![c] = @ + 1]
  /\ UNCHANGED <<player, socket, received, inMap, players, removal>>

\* The timer has passed: RemovePlayer deletes the player and erases the entry of
\* its account, whoever is listed there.
RemovePlayer(c) ==
  /\ loggingOut[c]
  /\ elapsed[c] + 1 >= LogoutTicks
  /\ elapsed' = [elapsed EXCEPT ![c] = 0]
  /\ Delete(c)
  /\ players' = [players EXCEPT ![AccountOf[c]] = None]
  /\ removal' = removal \ {c}

\* One turn of ProcessRemovalPlayer's loop, which dereferences the entry first.
ProcessRemoval(c) ==
  /\ worldPc = "removal" /\ c \in todo
  /\ IF player[c] = "freed"
     THEN UseAfterFree
     ELSE /\ todo' = todo \ {c}
          /\ CancelRemoval(c) \/ KeepWaiting(c) \/ RemovePlayer(c)
          /\ UNCHANGED <<authentic, netPc, sent, loggedIn, loggingOut, strayed,
                         playerQueue, worldPc, current, undefined>>

EndRemoval ==
  /\ worldPc = "removal" /\ todo = {}
  /\ worldPc' = "zones"
  /\ UNCHANGED <<netVars, playerVars, playerQueue, players, removal, todo,
                 current, undefined>>

\* Manager::Update: the zones neither list nor delete a player.  The update of a
\* radiation grid reads every object it holds.
UpdateZones ==
  /\ worldPc = "zones"
  /\ IF \E c \in Connections : inMap[c] /\ player[c] = "freed"
     THEN UseAfterFree
     ELSE /\ worldPc' = "queue"
          /\ UNCHANGED <<netVars, playerVars, playerQueue, players, removal,
                         todo, current, undefined>>

-------------------------------------------------------------------------------
NetStep(c) ==
  \/ Accept(c)
  \/ \E loads \in BOOLEAN : HandleLoginPacket(c, loads)
  \/ QueueLogin(c)
  \/ \E p \in ClientPackets : OnRead(c, p)
  \/ ProcessIncomingData(c)
  \/ Disconnect(c)

WorldStep ==
  \/ ProcessPlayer
  \/ EndQueue
  \/ \E c \in Connections : BeginPlayer(c)
  \/ ExecutePacket
  \/ EndPlayer
  \/ EndPackets
  \/ \E c \in Connections : ProcessRemoval(c)
  \/ EndRemoval
  \/ UpdateZones

Next ==
  /\ ~undefined
  /\ WorldStep \/ \E c \in Connections : NetStep(c)

Spec == Init /\ [][Next]_vars

\* WorldTask updates the world for ever; clients owe the server nothing.
FairSpec == Spec /\ WF_vars(~undefined /\ WorldStep)

-------------------------------------------------------------------------------
TypeOK ==
  /\ socket \in [Connections -> {"new", "open", "closed"}]
  /\ player \in [Connections -> PlayerStates]
  /\ authentic \in [Connections -> BOOLEAN]
  /\ netPc \in [Connections -> ClientPackets \union {"idle", "login"}]
  /\ sent \in [Connections -> 0 .. MaxPackets]
  /\ received \in [Connections -> Seq(Packets)]
  /\ loggedIn \in [Connections -> BOOLEAN]
  /\ loggingOut \in [Connections -> BOOLEAN]
  /\ elapsed \in [Connections -> 0 .. LogoutTicks - 1]
  /\ inMap \in [Connections -> BOOLEAN]
  /\ strayed \in [Connections -> BOOLEAN]
  /\ playerQueue \in Seq(Connections)
  /\ players \in [Accounts -> Connections \union {None}]
  /\ removal \in SUBSET Connections
  /\ worldPc \in {"queue", "packets", "removal", "zones"}
  /\ todo \in SUBSET Connections
  /\ current \in Connections \union {None}
  /\ undefined \in BOOLEAN

\* A loaded player is known to the world thread, in m_PlayerQueue or under its
\* own account in m_Players and never in both, until it is deleted, and the two
\* hold nothing else: no player leaks when its account logs in twice before the
\* world thread looks, and no deleted player is ever updated.
RegisteredUntilDeleted ==
  /\ {c \in Connections : player[c] = "live"} = Queued \union Listed
  /\ Queued \intersect Listed = {}
  /\ \A a \in Accounts : players[a] # None => AccountOf[players[a]] = a

\* An account has at most one ship in the maps, that of its listed player: a
\* player that is replaced or removed leaves its map before another enters.  The
\* one ship too many that can be there is that of a player deleted while it had
\* strayed out of bounds, which Map::Remove does not find (Map.cpp:322-332).
OneShipPerAccount ==
  \A c \in Connections : inMap[c] =>
    \/ players[AccountOf[c]] = c
    \/ player[c] = "freed" /\ strayed[c]

\* The assertion in RemovePlayer holds, and the entry it erases is the player's
\* own: an account that has logged in again is not thrown out by the timer of
\* the player it replaced.
RemovesOwnEntry ==
  \A c \in removal : player[c] # "freed" => players[AccountOf[c]] = c

\* Between two runs of ProcessRemovalPlayer the removal queue and m_LoggingOut
\* agree about every player that is loaded, and whoever is not logging out has a
\* fresh timer: a cancelled logout neither deletes its player nor shortens the
\* next one.  A cancellation that is overtaken by another logout before the loop
\* has run is none: nothing has rearmed the timer (World.cpp:212), and that
\* logout goes on with what the first has left.
LogoutsSettled ==
  worldPc \in {"queue", "zones"} =>
    \A c \in Connections : player[c] = "live" =>
      /\ c \in removal <=> loggingOut[c]
      /\ ~loggingOut[c] => elapsed[c] = 0

\* A listed player whose client has gone is deleted within a bounded number of
\* updates, whatever logout and cancel packets came before: it neither stays in
\* the world as a ghost nor waits outside the removal queue with m_LoggingOut set.
GoneClientsAreDeleted ==
  \A c \in Connections :
    socket[c] = "closed" /\ c \in Listed ~> (player[c] = "freed" \/ undefined)

\* No packet waits for ever: what a loaded player has received is executed or,
\* when the player is deleted, dropped, for no packet at the head of the queue
\* is left there by every filter.
PacketsAreExecuted ==
  \A c \in Connections :
    player[c] = "live" /\ received[c] # <<>> ~> received[c] = <<>> \/ undefined

\* ProcessRemovalPlayer copes with the entry of a player who has reconnected
\* ("Can happen if player reconnects", World.cpp:204): the entry can be read.
RemovalEntriesAreLive ==
  \A c \in removal : player[c] # "freed"

===============================================================================
