-------------------------------- MODULE Socket --------------------------------
(***************************************************************************)
(* A connection (Engine/Network/Server/Socket.cpp, PacketBuffer.cpp).  The *)
(* threads of the program Write packets under the socket's lock; the       *)
(* thread of its io_service gathers them for m_BufferTimeout, sends the    *)
(* buffer with async_write_some, which may take any part of it, and sends  *)
(* the rest from OnWriteComplete.  The same thread reads.  IsClosed is     *)
(* tested outside the lock, so a handler is split there, and another       *)
(* thread may close the socket in between.                                 *)
(*                                                                         *)
(* A packet is one unit of the stream, numbered in the order of the calls. *)
(* What asio carries out, and the completions that wait for the network    *)
(* thread, are variables of the model; an operation on a closed socket     *)
(* completes with an error.                                                *)
(***************************************************************************)
EXTENDS Naturals, Sequences

CONSTANTS
  MaxPackets,  \* bound: packets the program writes
  MaxChunks,   \* bound: chunks of data that arrive
  Capacity     \* STORAGE_INITIAL_SIZE, in packets

ASSUME SocketAssumption ==
  /\ MaxPackets \in Nat
  /\ MaxChunks \in Nat
  /\ Capacity \in Nat

VARIABLES
  force,        \* the program's p_ForceSendAndClose: TRUE in the policy server,
                \* FALSE in the game and the chat
  open,         \* m_Socket.is_open()
  writeState,   \* m_WriteState
  outBuffer,    \* m_OutBuffer, up to its m_WritePosition
  secondary,    \* m_SecondaryOutBuffer, the same
  capacity,     \* m_OutBuffer->m_Buffer.size()
  written,      \* packets written so far
  wire,         \* what the kernel has accepted
  write,        \* the async_write_some of FlushOut and OnWriteComplete
  forced,       \* the lengths given to those of ForceSendAndClose, in order
  forcedDone,   \* the completions of those that wait
  timer,        \* m_OutBufferFlushTimer
  reads,        \* async_read_some under way
  readsDone,    \* their completions that wait, with data
  readsFailed,  \* and with an error
  chunks,       \* chunks that have arrived
  net,          \* where the network thread is
  undefined     \* a write under way has lost its buffer

outVars == <<outBuffer, secondary, capacity, written, wire>>
readVars == <<reads, readsDone, readsFailed, chunks>>
forceVars == <<force, forced, forcedDone>>
vars == <<outVars, readVars, forceVars, open, writeState, write, timer, net, undefined>>

NoWrite == [state |-> "none", n |-> 0]

\* The socket as Open leaves it: its first read is under way.
Init ==
  /\ force \in BOOLEAN
  /\ open = TRUE
  /\ writeState = "Idle"
  /\ outBuffer = <<>> /\ secondary = <<>> /\ capacity = Capacity
  /\ written = 0 /\ wire = <<>>
  /\ write = NoWrite /\ forced = <<>> /\ forcedDone = 0
  /\ timer = "off"
  /\ reads = 1 /\ readsDone = 0 /\ readsFailed = 0 /\ chunks = 0
  /\ net = "poll"
  /\ undefined = FALSE

-----------------------------------------------------------------------------
(* What the socket leaves to asio.                                         *)

\* async_write_some of a buffer of this length.
StartWrite(length) ==
  write' = [state |-> IF open THEN "started" ELSE "failed", n |-> length]

\* StartAsyncRead, called n times.
StartAsyncRead(n) == reads' = IF open THEN reads + n ELSE reads

\* Closing aborts all that is under way, next to the completions that wait
\* already; the timer runs on.  Nothing is under way in a closed socket.
CloseSocket(w, f, r) ==
  /\ open' = FALSE
  /\ write' = IF w.state = "started" THEN [w EXCEPT !.state = "failed"] ELSE w
  /\ forced' = <<>> /\ forcedDone' = f + Len(forced)
  /\ reads' = 0 /\ readsFailed' = r + reads

-----------------------------------------------------------------------------
(* The program's threads.                                                  *)

Larger(a, b) == IF a < b THEN b ELSE a

\* PacketBuffer::Write: a buffer that is too small is moved, even if it is
\* being sent.
PacketBufferWrite(packet) ==
  /\ outBuffer' = Append(outBuffer, packet)
  /\ capacity' = Larger(capacity, Len(outBuffer'))
  /\ undefined' = (/\ capacity < Len(outBuffer')
                   /\ write.state = "started" \/ forced # <<>>)

\* StartWriteFlushTimer and ForceSendAndClose, in the Idle state.
StartWriteFlushTimer ==
  /\ IF open THEN writeState' = "Buffering" /\ timer' = "armed"
             ELSE UNCHANGED <<writeState, timer>>
  /\ UNCHANGED <<forced, forcedDone>>

ForceSendAndClose ==
  /\ IF open
       THEN forced' = Append(forced, Len(outBuffer')) /\ UNCHANGED forcedDone
       ELSE forcedDone' = forcedDone + 1 /\ UNCHANGED forced
  /\ UNCHANGED <<writeState, timer>>

\* The buffer is m_OutBuffer in every state.  The policy server answers from
\* ProcessIncomingData; the others write from any thread.
Write ==
  /\ written < MaxPackets
  /\ force => net = "read"
  /\ written' = written + 1
  /\ PacketBufferWrite(written')
  /\ IF writeState # "Idle"
       THEN UNCHANGED <<writeState, timer, forced, forcedDone>>
       ELSE IF force THEN ForceSendAndClose ELSE StartWriteFlushTimer
  /\ UNCHANGED <<secondary, wire, readVars, force, open, write, net>>

\* ~Player and Grid::Unload close the socket from another thread.
ProgramCloses ==
  /\ open
  /\ CloseSocket(write, forcedDone, readsFailed)
  /\ UNCHANGED <<outVars, readsDone, chunks, force, writeState, timer, net, undefined>>

-----------------------------------------------------------------------------
(* The kernel and the timer.                                               *)

KernelSends ==
  /\ write.state = "started"
  /\ \E k \in 1..write.n :
       /\ wire' = wire \o SubSeq(outBuffer, 1, k)
       /\ write' = [state |-> "sent", n |-> k]
  /\ UNCHANGED <<outBuffer, secondary, capacity, written, readVars, forceVars, open,
                 writeState, timer, net, undefined>>

KernelFails ==
  /\ write.state = "started"
  /\ write' = [write EXCEPT !.state = "failed"]
  /\ UNCHANGED <<outVars, readVars, forceVars, open, writeState, timer, net, undefined>>

\* The handler of ForceSendAndClose looks at neither the error nor the length.
KernelSendsForced ==
  /\ forced # <<>>
  /\ \E k \in 0..Head(forced) : wire' = wire \o SubSeq(outBuffer, 1, k)
  /\ forced' = Tail(forced)
  /\ forcedDone' = forcedDone + 1
  /\ UNCHANGED <<outBuffer, secondary, capacity, written, readVars, force, open,
                 writeState, write, timer, net, undefined>>

DataArrives ==
  /\ reads > 0 /\ chunks < MaxChunks
  /\ reads' = reads - 1
  /\ readsDone' = readsDone + 1
  /\ chunks' = chunks + 1
  /\ UNCHANGED <<outVars, readsFailed, forceVars, open, writeState, write, timer, net,
                 undefined>>

PeerLeaves ==
  /\ reads > 0
  /\ reads' = reads - 1
  /\ readsFailed' = readsFailed + 1
  /\ UNCHANGED <<outVars, readsDone, chunks, forceVars, open, writeState, write, timer,
                 net, undefined>>

TimerExpires ==
  /\ timer = "armed"
  /\ timer' = "expired"
  /\ UNCHANGED <<outVars, readVars, forceVars, open, writeState, write, net, undefined>>

-----------------------------------------------------------------------------
(* The network thread writes.                                              *)

FlushOut ==
  /\ net = "poll" /\ timer = "expired"
  /\ timer' = "off"
  /\ IF open THEN net' = "flush" /\ UNCHANGED writeState
             ELSE writeState' = "Idle" /\ UNCHANGED net
  /\ UNCHANGED <<outVars, readVars, forceVars, open, write, undefined>>

\* Mutant: nothing tells the next Write that the buffer is being sent.
FlushStillBuffering ==
  /\ net = "flush"
  /\ StartWrite(Len(outBuffer))
  /\ net' = "poll"
  /\ UNCHANGED <<outVars, readVars, forceVars, open, writeState, timer, undefined>>

\* FlushOut under the lock.
FlushLocked ==
  /\ net = "flush"
  /\ writeState' = "Sending"
  /\ StartWrite(Len(outBuffer))
  /\ net' = "poll"
  /\ UNCHANGED <<outVars, readVars, forceVars, open, timer, undefined>>

\* OnWriteComplete with an error, which OnError answers.
OnWriteError ==
  /\ net = "poll" /\ write.state = "failed"
  /\ CloseSocket(NoWrite, forcedDone, readsFailed)
  /\ UNCHANGED <<outVars, readsDone, chunks, force, writeState, timer, net, undefined>>

OnWriteComplete ==
  /\ net = "poll" /\ write.state = "sent"
  /\ IF open THEN net' = "written" /\ UNCHANGED <<writeState, write>>
             ELSE writeState' = "Idle" /\ write' = NoWrite /\ UNCHANGED net
  /\ UNCHANGED <<outVars, readVars, forceVars, open, timer, undefined>>

\* Mutant: a write is taken to have sent the whole buffer.
WholeBufferSent == secondary

\* What the write has left, then the secondary buffer.
Remainder == SubSeq(outBuffer, write.n + 1, Len(outBuffer)) \o secondary

\* Mutant: the remainder waits for the next packet.
WriteCompletedIdle ==
  /\ net = "written"
  /\ outBuffer' = Remainder /\ secondary' = <<>>
  /\ writeState' = "Idle" /\ write' = NoWrite
  /\ net' = "poll"
  /\ UNCHANGED <<capacity, written, wire, readVars, forceVars, open, timer, undefined>>

\* OnWriteComplete under the lock.
WriteCompleted ==
  /\ net = "written"
  /\ outBuffer' = Remainder /\ secondary' = <<>>
  /\ capacity' = Larger(capacity, Len(outBuffer'))
  /\ IF outBuffer' # <<>>
       THEN StartWrite(Len(outBuffer')) /\ UNCHANGED writeState
       ELSE writeState' = "Idle" /\ write' = NoWrite
  /\ net' = "poll"
  /\ UNCHANGED <<written, wire, readVars, forceVars, open, timer, undefined>>

\* The handler of ForceSendAndClose.
OnForced ==
  /\ net = "poll" /\ forcedDone > 0
  /\ CloseSocket(write, forcedDone - 1, readsFailed)
  /\ UNCHANGED <<outVars, readsDone, chunks, force, writeState, timer, net, undefined>>

-----------------------------------------------------------------------------
(* The network thread reads.                                               *)

OnReadError ==
  /\ net = "poll" /\ readsFailed > 0
  /\ CloseSocket(write, forcedDone, readsFailed - 1)
  /\ UNCHANGED <<outVars, readsDone, chunks, force, writeState, timer, net, undefined>>

OnRead ==
  /\ net = "poll" /\ readsDone > 0
  /\ readsDone' = readsDone - 1
  /\ net' = IF open THEN "read" ELSE net
  /\ UNCHANGED <<outVars, reads, readsFailed, chunks, forceVars, open, writeState, write,
                 timer, undefined>>

EndRead ==
  /\ net = "read"
  /\ net' = "poll"
  /\ UNCHANGED <<outVars, readsDone, chunks, force, writeState, timer, undefined>>

\* Mutant: the read does not go on once the buffer is larger.
ReadNoMore ==
  /\ EndRead
  /\ UNCHANGED <<reads, readsFailed, forced, forcedDone, open, write>>

\* The buffer is made larger when more data is there than it holds.
ReadMore ==
  /\ EndRead
  /\ StartAsyncRead(1)
  /\ UNCHANGED <<readsFailed, forced, forcedDone, open, write>>

\* ProcessIncomingData returns Successful; or Skip, and the read is started
\* both in the branch for Skip and behind it; or Error.
Processed ==
  /\ EndRead
  /\ StartAsyncRead(1)
  /\ UNCHANGED <<readsFailed, forced, forcedDone, open, write>>

Skipped ==
  /\ EndRead
  /\ StartAsyncRead(2)
  /\ UNCHANGED <<readsFailed, forced, forcedDone, open, write>>

Refused ==
  /\ EndRead
  /\ CloseSocket(write, forcedDone, readsFailed)

-----------------------------------------------------------------------------
Program == Write \/ ProgramCloses
Kernel ==
  KernelSends \/ KernelFails \/ KernelSendsForced \/ DataArrives \/ PeerLeaves
Handler ==
  \/ FlushOut \/ FlushLocked
  \/ OnWriteError \/ OnWriteComplete \/ WriteCompleted \/ OnForced
  \/ OnReadError \/ OnRead
  \/ ReadMore \/ Processed \/ Skipped \/ Refused

Next == ~undefined /\ (Program \/ Kernel \/ TimerExpires \/ Handler)

\* The timer expires, the peer takes data or goes, and the network thread runs
\* every completion; neither the program nor the peer has to send.
Fairness ==
  /\ WF_vars(~undefined /\ TimerExpires)
  /\ WF_vars(~undefined /\ (KernelSends \/ KernelFails))
  /\ WF_vars(~undefined /\ KernelSendsForced)
  /\ WF_vars(~undefined /\ Handler)

Spec == Init /\ [][Next]_vars /\ Fairness

-----------------------------------------------------------------------------
WriteStates == {"none", "started", "sent", "failed"}

TypeOK ==
  /\ force \in BOOLEAN /\ open \in BOOLEAN /\ undefined \in BOOLEAN
  /\ writeState \in {"Idle", "Buffering", "Sending"}
  /\ outBuffer \in Seq(Nat) /\ secondary \in Seq(Nat) /\ wire \in Seq(Nat)
  /\ written \in 0..MaxPackets /\ capacity \in Nat
  /\ write \in [state : WriteStates, n : Nat]
  /\ forced \in Seq(Nat) /\ forcedDone \in Nat
  /\ timer \in {"off", "armed", "expired"}
  /\ reads \in Nat /\ readsDone \in Nat /\ readsFailed \in Nat
  /\ chunks \in 0..MaxChunks
  /\ net \in {"poll", "flush", "written", "read"}

\* The assertions of StartWriteFlushTimer, FlushOut and OnWriteComplete hold
\* (Socket.cpp:281, 282, 330, 343), whichever thread closes the socket or
\* writes in the middle of a handler: as long as the socket is open the state
\* says exactly what is under way, and never two things are.
WritesMatchState ==
  /\ net = "flush" => writeState = "Buffering" /\ write = NoWrite
  /\ net = "written" => writeState = "Sending" /\ write.n \in 1..Len(outBuffer)
  /\ open => /\ (writeState = "Buffering") <=> (timer # "off" \/ net = "flush")
             /\ (writeState = "Sending") <=> (write # NoWrite)

\* The game's and the chat's clients receive the packets in the order of the
\* calls of Write, none lost, repeated or torn from the middle, however little
\* of a buffer the kernel takes at a time: what it has taken, and while the
\* socket is open what the buffers still hold, is the stream written so far.
NotTaken ==
  SubSeq(outBuffer, (IF write.state = "sent" THEN write.n ELSE 0) + 1, Len(outBuffer))

StreamInOrder ==
  ~force =>
    /\ Len(wire) <= written
    /\ \A i \in 1..Len(wire) : wire[i] = i
    /\ open => wire \o NotTaken \o secondary = [i \in 1..written |-> i]

\* A connection never goes deaf: until it is closed a read is under way or its
\* completion waits, on every path through OnRead.  The handlers of these reads
\* also keep the Socket object alive (l_Ptr) while CloseSocket holds its lock.
ListensUntilClosed ==
  open /\ net # "read" => reads + readsDone + readsFailed > 0

\* Whatever is written is sent, or the connection closes: no packet stays in
\* the buffer because a completion found the state it did not expect.
WrittenIsSent ==
  \A n \in 1..MaxPackets :
    written >= n ~> (\E i \in 1..Len(wire) : wire[i] = n) \/ ~open \/ undefined

=============================================================================
