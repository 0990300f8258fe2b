----------------------------- MODULE SocketProofs -----------------------------
(***************************************************************************)
(* The write side of Socket, for every number of packets and chunks and    *)
(* every capacity: the state of the writes is the one the assertions of    *)
(* the code expect, and the stream reaches the peer in order.              *)
(*                                                                         *)
(* Both rest on Control: what is under way, given where the network thread *)
(* is.  A write under way never has more than the buffer holds, and this   *)
(* stays true when another thread closes the socket inside a handler,      *)
(* because a Write only ever makes the buffer longer.                      *)
(***************************************************************************)
EXTENDS Socket, SequenceTheorems, TLAPS

-----------------------------------------------------------------------------
(* Type correctness, in two parts: Zenon takes the Booleans, SMT the rest. *)

Flags == force \in BOOLEAN /\ open \in BOOLEAN /\ undefined \in BOOLEAN

Buffers ==
  /\ outBuffer \in Seq(Nat) /\ secondary \in Seq(Nat) /\ wire \in Seq(Nat)
  /\ written \in 0..MaxPackets /\ capacity \in Nat

Under ==
  /\ writeState \in {"Idle", "Buffering", "Sending"}
  /\ write \in [state : WriteStates, n : Nat]
  /\ forced \in Seq(Nat) /\ forcedDone \in Nat
  /\ timer \in {"off", "armed", "expired"}
  /\ reads \in Nat /\ readsDone \in Nat /\ readsFailed \in Nat
  /\ chunks \in 0..MaxChunks
  /\ net \in {"poll", "flush", "written", "read"}

LEMMA TypeParts == TypeOK <=> Flags /\ Buffers /\ Under
  BY DEF TypeOK, Flags, Buffers, Under

LEMMA NoWriteType == NoWrite \in [state : WriteStates, n : Nat]
  BY DEF NoWrite, WriteStates

LEMMA TypeInit == Init => TypeOK
<1> SUFFICES ASSUME Init PROVE Flags /\ Buffers /\ Under
  BY TypeParts
<1>1. Flags
  BY Zenon DEF Init, Flags
<1>2. Buffers
  BY SocketAssumption DEF Init, Buffers
<1>3. Under
  BY SocketAssumption, NoWriteType DEF Init, Under
<1>4. QED
  BY <1>1, <1>2, <1>3

\* Closing the socket keeps the types of what it aborts.
LEMMA TypeClose ==
  ASSUME Under, NEW w \in [state : WriteStates, n : Nat], NEW f \in Nat, NEW r \in Nat,
         CloseSocket(w, f, r)
  PROVE  /\ write' \in [state : WriteStates, n : Nat]
         /\ forced' \in Seq(Nat) /\ forcedDone' \in Nat
         /\ reads' \in Nat /\ readsFailed' \in Nat
<1>1. Len(forced) \in Nat
  BY LenProperties DEF Under
<1>2. [w EXCEPT !.state = "failed"] \in [state : WriteStates, n : Nat]
  BY DEF WriteStates
<1>3. QED
  BY <1>1, <1>2 DEF Under, CloseSocket

\* The packets a write has left, and the secondary buffer, are packets.
LEMMA RemainderType ==
  ASSUME Buffers, Under
  PROVE  Remainder \in Seq(Nat) /\ Len(Remainder) \in Nat
<1>1. SubSeq(outBuffer, write.n + 1, Len(outBuffer)) \in Seq(Nat)
  BY DEF Buffers, Under
<1>2. Remainder \in Seq(Nat)
  BY <1>1 DEF Buffers, Remainder
<1>3. QED
  BY <1>2, LenProperties

LEMMA StartWriteType ==
  ASSUME NEW length \in Nat, StartWrite(length)
  PROVE  write' \in [state : WriteStates, n : Nat]
  BY DEF StartWrite, WriteStates

LEMMA FlagsStep == ASSUME Flags, [Next]_vars PROVE Flags'
<1>1. CASE Write
  BY <1>1, Zenon DEF Flags, Write, PacketBufferWrite
<1>2. CASE ProgramCloses \/ OnWriteError \/ OnForced \/ OnReadError \/ Refused
  BY <1>2, Zenon DEF Flags, ProgramCloses, OnWriteError, OnForced, OnReadError, Refused,
     CloseSocket, EndRead, forceVars
<1>3. CASE Kernel \/ TimerExpires
  BY <1>3, Zenon DEF Flags, Kernel, KernelSends, KernelFails, KernelSendsForced, DataArrives,
     PeerLeaves, TimerExpires, forceVars
<1>4. CASE FlushOut \/ FlushLocked \/ OnWriteComplete \/ WriteCompleted
  BY <1>4, Zenon DEF Flags, FlushOut, FlushLocked, OnWriteComplete, WriteCompleted, forceVars
<1>5. CASE OnRead \/ ReadMore \/ Processed \/ Skipped
  BY <1>5, Zenon DEF Flags, OnRead, ReadMore, Processed, Skipped, EndRead, forceVars
<1>6. CASE UNCHANGED vars
  BY <1>6, Zenon DEF Flags, vars, forceVars
<1>7. QED
  BY <1>1, <1>2, <1>3, <1>4, <1>5, <1>6 DEF Next, Program, Handler

-----------------------------------------------------------------------------
(* What is under way.                                                      *)

\* A write never has more than the buffer holds.
WriteFits ==
  /\ write.state \in {"started", "sent"} => write.n \in 1..Len(outBuffer)
  /\ \A i \in 1..Len(forced) : forced[i] \in 1..Len(outBuffer)

\* The inductive invariant: the timer has fired before FlushOut and its write
\* completed before OnWriteComplete; there is something to send when the timer
\* runs; a closed socket has nothing under way; and a program uses either
\* ForceSendAndClose or the timer.
Control ==
  /\ WritesMatchState
  /\ WriteFits
  /\ net = "flush" => timer = "off"
  /\ net = "written" => write.state = "sent"
  /\ open /\ writeState = "Buffering" => outBuffer # <<>>
  /\ ~open => write.state # "started" /\ forced = <<>>
  /\ force => writeState = "Idle" /\ timer = "off"
  /\ ~force => forced = <<>>

LEMMA ControlInit == Init => Control
  BY DEF Init, Control, WritesMatchState, WriteFits, NoWrite

\* Another thread may close the socket wherever the network thread is.
LEMMA ControlClose ==
  ASSUME Buffers, Under, Control, UNCHANGED <<outVars, writeState, timer, force>>,
         net' = net \/ (net = "read" /\ net' = "poll"),
         NEW w, w = write \/ (w = NoWrite /\ net = "poll"),
         NEW f, NEW r, CloseSocket(w, f, r)
  PROVE  Control'
  BY DEF Buffers, Under, Control, WritesMatchState, WriteFits, NoWrite, CloseSocket, outVars

\* A packet written makes the buffer longer: what is under way still fits.
LEMMA ControlWrite ==
  ASSUME Buffers, Under, Control, Write
  PROVE  Control'
<1>1. outBuffer' = Append(outBuffer, written') /\ Len(outBuffer') = Len(outBuffer) + 1
      /\ outBuffer' # <<>>
  <2>1. written' \in Nat
    BY SocketAssumption DEF Write, Buffers
  <2>2. outBuffer' = Append(outBuffer, written')
    BY DEF Write, PacketBufferWrite
  <2>3. Len(outBuffer') = Len(outBuffer) + 1 /\ Len(outBuffer) \in Nat
    BY <2>1, <2>2, AppendProperties, LenProperties DEF Buffers
  <2>4. QED
    BY <2>2, <2>3, EmptySeq
<1>0. UNCHANGED <<open, write, net, force>>
  BY Zenon DEF Write
<1>2. WriteFits'
  <2>1. write.state \in {"started", "sent"} => write.n \in 1..Len(outBuffer')
    BY <1>1 DEF Control, WriteFits, Buffers, Under
  <2>2. CASE forced' = forced
    BY <1>0, <1>1, <2>1, <2>2 DEF Control, WriteFits, Buffers, Under
  <2>3. CASE forced' = Append(forced, Len(outBuffer'))
    <3>1. \A i \in 1..Len(forced') : forced'[i] \in 1..Len(outBuffer')
      <4>1. Len(outBuffer) \in Nat /\ Len(forced) \in Nat /\ Len(outBuffer') \in Nat
        BY <1>1, LenProperties DEF Buffers, Under
      <4>2. Len(forced') = Len(forced) + 1
        BY <2>3, <4>1, AppendProperties DEF Under
      <4>3. \A i \in 1..Len(forced) : forced'[i] = forced[i]
        BY <2>3, <4>1, AppendProperties DEF Under
      <4>4. forced'[Len(forced) + 1] = Len(outBuffer')
        BY <2>3, <4>1, AppendProperties DEF Under
      <4>5. \A i \in 1..Len(forced) : forced[i] \in 1..Len(outBuffer)
        BY <4>1, LenProperties DEF Control, WriteFits, Under
      <4>6. Len(outBuffer') = Len(outBuffer) + 1
        BY <1>1
      <4>7. \A i \in 1..Len(forced) : forced'[i] \in 1..Len(outBuffer')
        BY <4>1, <4>3, <4>5, <4>6
      <4>8. forced'[Len(forced) + 1] \in 1..Len(outBuffer')
        BY <4>1, <4>4, <4>6
      <4>9. ASSUME NEW i \in 1..Len(forced')
            PROVE  i \in 1..Len(forced) \/ i = Len(forced) + 1
        BY <4>1, <4>2
      <4>10. QED
        BY <4>7, <4>8, <4>9
    <3>2. QED
      BY <1>0, <2>1, <3>1 DEF WriteFits
  <2>4. QED
    BY <2>2, <2>3 DEF Write, ForceSendAndClose, StartWriteFlushTimer
<1>3. net = "flush" \/ net = "written" => writeState # "Idle"
  BY DEF Control, WritesMatchState
<1>4. /\ ~open => forced' = <<>>
      /\ ~force => forced' = <<>>
      /\ force => UNCHANGED <<writeState, timer>>
  BY DEF Control, Write, ForceSendAndClose, StartWriteFlushTimer
<1>5. CASE UNCHANGED <<writeState, timer>>
  BY <1>0, <1>1, <1>2, <1>4, <1>5 DEF Control, WritesMatchState, Buffers, Under
<1>6. CASE writeState = "Idle" /\ writeState' = "Buffering" /\ timer' = "armed"
  BY <1>0, <1>1, <1>2, <1>3, <1>4, <1>6 DEF Control, WritesMatchState, Buffers, Under
<1>7. QED
  BY <1>5, <1>6 DEF Write, ForceSendAndClose, StartWriteFlushTimer

LEMMA ControlKernel ==
  ASSUME Buffers, Under, Control, Kernel \/ TimerExpires
  PROVE  Control'
<1>1. CASE KernelSends
  <2>1. PICK k \in 1..write.n : write' = [state |-> "sent", n |-> k]
    BY <1>1 DEF KernelSends
  <2>2. k \in 1..Len(outBuffer)
    BY <1>1, <2>1 DEF KernelSends, Control, WriteFits, Under, Buffers
  <2>3. QED
    BY <1>1, <2>1, <2>2 DEF KernelSends, Control, WritesMatchState, WriteFits, NoWrite, forceVars
<1>2. CASE KernelFails
  BY <1>2 DEF KernelFails, Control, WritesMatchState, WriteFits, NoWrite, forceVars, outVars, Under
<1>3. CASE KernelSendsForced
  <2>1. Len(Tail(forced)) = Len(forced) - 1
        /\ \A i \in 1..Len(Tail(forced)) : Tail(forced)[i] = forced[i + 1]
    BY <1>3, HeadTailProperties DEF KernelSendsForced, Under
  <2>2. WriteFits'
    BY <1>3, <2>1 DEF KernelSendsForced, Control, WriteFits, Under, Buffers
  <2>3. QED
    BY <1>3, <2>2 DEF KernelSendsForced, Control, WritesMatchState
<1>4. CASE DataArrives \/ PeerLeaves
  BY <1>4 DEF DataArrives, PeerLeaves, Control, WritesMatchState, WriteFits, forceVars, outVars
<1>5. CASE TimerExpires
  BY <1>5 DEF TimerExpires, Control, WritesMatchState, WriteFits, forceVars, outVars, Under
<1>6. QED
  BY <1>1, <1>2, <1>3, <1>4, <1>5 DEF Kernel

LEMMA ControlHandler ==
  ASSUME Buffers, Under, Control, Handler
  PROVE  Control'
<1> USE DEF Control, WritesMatchState, WriteFits, Buffers, Under
<1>1. CASE FlushOut
  BY <1>1 DEF FlushOut, outVars, forceVars
<1>2. CASE FlushLocked
  BY <1>2 DEF FlushLocked, StartWrite, NoWrite, outVars, forceVars
<1>3. CASE OnWriteComplete
  BY <1>3 DEF OnWriteComplete, NoWrite, outVars, forceVars
<1>4. CASE WriteCompleted
  BY <1>4 DEF WriteCompleted, NoWrite, StartWrite, forceVars
<1>5. CASE OnWriteError
  BY <1>5, ControlClose DEF OnWriteError
<1>6. CASE OnForced \/ OnReadError
  BY <1>6, ControlClose DEF OnForced, OnReadError
<1>7. CASE Refused
  <2>1. CloseSocket(write, forcedDone, readsFailed) /\ net = "read" /\ net' = "poll"
    BY <1>7 DEF Refused, EndRead
  <2>2. UNCHANGED <<outVars, writeState, timer, force>>
    BY <1>7, Zenon DEF Refused, EndRead
  <2>3. QED
    BY <2>1, <2>2, ControlClose
<1>8. CASE OnRead \/ ReadMore \/ Processed \/ Skipped
  <2>1. UNCHANGED <<outBuffer, forced, writeState, write, timer>>
    BY <1>8, Zenon DEF OnRead, ReadMore, Processed, Skipped, EndRead, outVars, forceVars
  <2>2. open' = open /\ force' = force
    BY <1>8, Zenon DEF OnRead, ReadMore, Processed, Skipped, EndRead, outVars, forceVars
  <2>3. net \in {"poll", "read"} /\ net' \in {"poll", "read"}
    BY <1>8 DEF OnRead, ReadMore, Processed, Skipped, EndRead
  <2>4. WriteFits'
    BY <2>1
  <2>5. WritesMatchState'
    BY <2>1, <2>2, <2>3
  <2>6. QED
    BY <2>1, <2>2, <2>3, <2>4, <2>5
<1>9. QED
  BY <1>1, <1>2, <1>3, <1>4, <1>5, <1>6, <1>7, <1>8 DEF Handler

LEMMA ControlStep == ASSUME Buffers, Under, Control, [Next]_vars PROVE Control'
<1>1. CASE ProgramCloses
  <2>1. CloseSocket(write, forcedDone, readsFailed) /\ net' = net
    BY <1>1 DEF ProgramCloses
  <2>2. UNCHANGED <<outVars, writeState, timer, force>>
    BY <1>1, Zenon DEF ProgramCloses
  <2>3. QED
    BY <2>1, <2>2, ControlClose
<1>2. CASE UNCHANGED vars
  <2>1. UNCHANGED <<outBuffer, forced, writeState, write, timer, net>>
    BY <1>2, Zenon DEF vars, outVars, forceVars
  <2>2. open' = open /\ force' = force
    BY <1>2, Zenon DEF vars, forceVars
  <2>3. WriteFits' /\ WritesMatchState'
    BY <2>1, <2>2 DEF Control, WriteFits, WritesMatchState
  <2>4. QED
    BY <2>1, <2>2, <2>3 DEF Control
<1>3. QED
  BY <1>1, <1>2, ControlWrite, ControlKernel, ControlHandler DEF Next, Program

-----------------------------------------------------------------------------
(* The types of the rest.                                                  *)

\* What the kernel takes of the buffer is packets.
LEMMA TakenType ==
  ASSUME Buffers, NEW k \in 0..Len(outBuffer)
  PROVE  /\ SubSeq(outBuffer, 1, k) \in Seq(Nat)
         /\ Len(SubSeq(outBuffer, 1, k)) = k
         /\ \A i \in 1..k : SubSeq(outBuffer, 1, k)[i] = outBuffer[i]
<1>1. Len(outBuffer) \in Nat /\ k \in Nat
  BY LenProperties DEF Buffers
<1>2. \A i \in 1..k : outBuffer[i] \in Nat
  BY <1>1 DEF Buffers
<1>3. QED
  BY <1>1, <1>2, SubSeqProperties DEF Buffers

\* So is what it leaves.
LEMMA LeftType ==
  ASSUME Buffers, NEW k \in 0..Len(outBuffer)
  PROVE  /\ SubSeq(outBuffer, k + 1, Len(outBuffer)) \in Seq(Nat)
         /\ Len(SubSeq(outBuffer, k + 1, Len(outBuffer))) = Len(outBuffer) - k
         /\ \A j \in 1..(Len(outBuffer) - k) :
              SubSeq(outBuffer, k + 1, Len(outBuffer))[j] = outBuffer[k + j]
<1> DEFINE n == Len(outBuffer)
<1>1. n \in Nat /\ k \in Nat /\ k <= n /\ n \in Int /\ k + 1 \in Int
  BY LenProperties DEF Buffers
<1>2. \A i \in (k + 1)..n : outBuffer[i] \in Nat
  BY <1>1 DEF Buffers
<1> HIDE DEF n
<1>3. /\ SubSeq(outBuffer, k + 1, n) \in Seq(Nat)
      /\ Len(SubSeq(outBuffer, k + 1, n)) = IF k + 1 <= n THEN n - (k + 1) + 1 ELSE 0
      /\ \A i \in 1..(n - (k + 1) + 1) : SubSeq(outBuffer, k + 1, n)[i] = outBuffer[(k + 1) + i - 1]
  BY <1>1, <1>2, SubSeqProperties
<1>4. n - (k + 1) + 1 = n - k /\ \A i \in 1..(n - k) : (k + 1) + i - 1 = k + i
  BY <1>1
<1>5. Len(SubSeq(outBuffer, k + 1, n)) = n - k
  BY <1>1, <1>3
<1>6. QED
  BY <1>3, <1>4, <1>5 DEF n

\* Elements of a concatenation, by the part they come from.
LEMMA ConcatParts ==
  ASSUME NEW s \in Seq(Nat), NEW t \in Seq(Nat)
  PROVE  /\ s \o t \in Seq(Nat) /\ Len(s \o t) = Len(s) + Len(t)
         /\ \A i \in 1..Len(s) : (s \o t)[i] = s[i]
         /\ \A i \in 1..Len(t) : (s \o t)[Len(s) + i] = t[i]
<1>1. Len(s) \in Nat /\ Len(t) \in Nat
  BY LenProperties
<1>2. QED
  BY <1>1, ConcatProperties

LEMMA BuffersStep == ASSUME Buffers, Under, Control, [Next]_vars PROVE Buffers'
<1>1. CASE Write
  <2>1. written' \in 0..MaxPackets /\ written' \in Nat
    BY <1>1, SocketAssumption DEF Write, Buffers
  <2>2. outBuffer' = Append(outBuffer, written')
    BY <1>1 DEF Write, PacketBufferWrite
  <2>3. outBuffer' \in Seq(Nat) /\ Len(outBuffer') \in Nat
    BY <2>1, <2>2, AppendProperties, LenProperties DEF Buffers
  <2>4. capacity' \in Nat
    BY <1>1, <2>3 DEF Write, PacketBufferWrite, Larger, Buffers
  <2>5. QED
    BY <1>1, <2>1, <2>3, <2>4 DEF Write, Buffers
<1>2. CASE KernelSends
  <2>1. PICK k \in 1..write.n : wire' = wire \o SubSeq(outBuffer, 1, k)
    BY <1>2 DEF KernelSends
  <2>2. k \in 0..Len(outBuffer)
    BY <1>2, <2>1 DEF KernelSends, Control, WriteFits, Under, Buffers
  <2>3. wire' \in Seq(Nat)
    BY <2>1, <2>2, TakenType, ConcatProperties DEF Buffers
  <2>4. QED
    BY <1>2, <2>3 DEF KernelSends, Buffers
<1>3. CASE KernelSendsForced
  <2>1. PICK k \in 0..Head(forced) : wire' = wire \o SubSeq(outBuffer, 1, k)
    BY <1>3 DEF KernelSendsForced
  <2>2. Head(forced) \in 1..Len(outBuffer)
    BY <1>3, HeadTailProperties DEF KernelSendsForced, Control, WriteFits, Under
  <2>3. k \in 0..Len(outBuffer)
    BY <2>1, <2>2 DEF Buffers
  <2>4. wire' \in Seq(Nat)
    BY <2>1, <2>3, TakenType, ConcatProperties DEF Buffers
  <2>5. QED
    BY <1>3, <2>4 DEF KernelSendsForced, Buffers
<1>4. CASE WriteCompleted
  <2>1. outBuffer' \in Seq(Nat) /\ Len(outBuffer') \in Nat
    BY <1>4, RemainderType DEF WriteCompleted
  <2>2. capacity' \in Nat
    BY <1>4, <2>1 DEF WriteCompleted, Larger, Buffers
  <2>3. QED
    BY <1>4, <2>1, <2>2, EmptySeq DEF WriteCompleted, Buffers
<1>5. CASE UNCHANGED outVars
  BY <1>5 DEF outVars, Buffers
<1>6. ProgramCloses \/ KernelFails \/ DataArrives \/ PeerLeaves \/ TimerExpires => UNCHANGED outVars
  BY Zenon DEF ProgramCloses, KernelFails, DataArrives, PeerLeaves, TimerExpires
<1>7. FlushOut \/ FlushLocked \/ OnWriteError \/ OnWriteComplete \/ OnForced \/ OnReadError
        => UNCHANGED outVars
  BY Zenon DEF FlushOut, FlushLocked, OnWriteError, OnWriteComplete, OnForced, OnReadError
<1>8. OnRead \/ ReadMore \/ Processed \/ Skipped \/ Refused => UNCHANGED outVars
  BY Zenon DEF OnRead, ReadMore, Processed, Skipped, Refused, EndRead
<1>9. UNCHANGED vars => UNCHANGED outVars
  BY Zenon DEF vars
<1>10. QED
  BY <1>1, <1>2, <1>3, <1>4, <1>5, <1>6, <1>7, <1>8, <1>9 DEF Next, Program, Kernel, Handler

LEMMA UnderStep == ASSUME Buffers, Under, [Next]_vars PROVE Under'
<1> USE DEF Under
<1>1. CASE Write
  <2>1. Len(outBuffer') \in Nat
    <3>1. written' \in Nat
      BY <1>1, SocketAssumption DEF Write, Buffers
    <3>2. outBuffer' = Append(outBuffer, written')
      BY <1>1 DEF Write, PacketBufferWrite
    <3>3. QED
      BY <3>1, <3>2, AppendProperties, LenProperties DEF Buffers
  <2>2. CASE StartWriteFlushTimer
    BY <1>1, <2>2 DEF Write, StartWriteFlushTimer, readVars
  <2>3. CASE ForceSendAndClose
    <3>1. Append(forced, Len(outBuffer')) \in Seq(Nat) /\ forcedDone + 1 \in Nat
      BY <2>1, AppendProperties
    <3>2. QED
      BY <1>1, <2>3, <3>1 DEF Write, ForceSendAndClose, readVars, Buffers
  <2>4. CASE UNCHANGED <<writeState, timer, forced, forcedDone>>
    BY <1>1, <2>4 DEF Write, readVars
  <2>5. QED
    BY <1>1, <2>2, <2>3, <2>4 DEF Write
<1>2. CASE ProgramCloses \/ OnReadError
  BY <1>2, TypeClose DEF ProgramCloses, OnReadError
<1>3. CASE OnWriteError \/ OnForced \/ Refused
  BY <1>3, TypeClose, NoWriteType DEF OnWriteError, OnForced, Refused, EndRead
<1>4. CASE KernelSends
  <2>1. write' \in [state : WriteStates, n : Nat]
    BY <1>4 DEF KernelSends, WriteStates
  <2>2. QED
    BY <1>4, <2>1 DEF KernelSends, readVars, forceVars
<1>5. CASE KernelFails
  <2>1. write' \in [state : WriteStates, n : Nat]
    BY <1>5 DEF KernelFails, WriteStates
  <2>2. QED
    BY <1>5, <2>1 DEF KernelFails, readVars, forceVars
<1>6. CASE KernelSendsForced
  BY <1>6, HeadTailProperties DEF KernelSendsForced, readVars
<1>7. CASE DataArrives \/ PeerLeaves \/ TimerExpires
  BY <1>7, SocketAssumption DEF DataArrives, PeerLeaves, TimerExpires, readVars, forceVars
<1>8. CASE FlushOut
  BY <1>8 DEF FlushOut, readVars, forceVars
<1>9. CASE FlushLocked
  BY <1>9, LenProperties, StartWriteType DEF FlushLocked, Buffers, readVars, forceVars
<1>10. CASE OnWriteComplete
  BY <1>10, NoWriteType DEF OnWriteComplete, readVars, forceVars
<1>11. CASE WriteCompleted
  BY <1>11, NoWriteType, RemainderType, StartWriteType DEF WriteCompleted, readVars, forceVars
<1>12. CASE OnRead
  BY <1>12 DEF OnRead, forceVars
<1>13. CASE ReadMore \/ Processed \/ Skipped
  BY <1>13 DEF ReadMore, Processed, Skipped, EndRead, StartAsyncRead
<1>14. CASE UNCHANGED vars
  BY <1>14 DEF vars, readVars, forceVars
<1>15. QED
  BY <1>1, <1>2, <1>3, <1>4, <1>5, <1>6, <1>7, <1>8, <1>9, <1>10, <1>11, <1>12, <1>13, <1>14
     DEF Next, Program, Kernel, Handler

LEMMA InductiveStep == TypeOK /\ Control /\ [Next]_vars => (TypeOK /\ Control)'
<1> SUFFICES ASSUME TypeOK, Control, [Next]_vars PROVE (TypeOK /\ Control)'
  OBVIOUS
<1>1. Flags /\ Buffers /\ Under
  BY TypeParts
<1>2. Flags' /\ Buffers' /\ Under' /\ Control'
  BY <1>1, FlagsStep, BuffersStep, UnderStep, ControlStep
<1>3. TypeOK'
  BY <1>2 DEF TypeOK, Flags, Buffers, Under
<1>4. QED
  BY <1>2, <1>3

\* The socket of the game, the chat or the policy server: every variable has
\* its type, and the assertions of its write path hold.
THEOREM TypeCorrect == Spec => []TypeOK
<1>1. Init => TypeOK /\ Control
  BY TypeInit, ControlInit
<1>2. TypeOK /\ Control /\ [Next]_vars => (TypeOK /\ Control)'
  BY InductiveStep
<1>3. QED
  BY <1>1, <1>2, PTL DEF Spec

\* The assertions of StartWriteFlushTimer, FlushOut and OnWriteComplete hold,
\* whichever thread closes the socket or writes in the middle of a handler.
THEOREM AssertionsHold == Spec => []WritesMatchState
<1>1. Init => TypeOK /\ Control
  BY TypeInit, ControlInit
<1>2. TypeOK /\ Control /\ [Next]_vars => (TypeOK /\ Control)'
  BY InductiveStep
<1>3. TypeOK /\ Control => WritesMatchState
  BY DEF Control
<1>4. QED
  BY <1>1, <1>2, <1>3, PTL DEF Spec

-----------------------------------------------------------------------------
(* The stream.                                                             *)

\* What a completed write has taken of the buffer and the buffer still holds.
Taken == IF write.state = "sent" THEN write.n ELSE 0

\* The inductive form of StreamInOrder: the buffer goes on, packet by packet,
\* where the wire ends.
Stream ==
  /\ secondary = <<>>
  /\ ~force =>
       /\ Len(wire) <= written
       /\ \A i \in 1..Len(wire) : wire[i] = i
       /\ open => /\ Len(wire) + Len(outBuffer) = written + Taken
                  /\ \A j \in (Taken + 1)..Len(outBuffer) : outBuffer[j] = Len(wire) + j - Taken

LEMMA StreamInit == Init => Stream
  BY DEF Init, Stream, Taken, NoWrite

LEMMA StreamLengths ==
  ASSUME Buffers, Under, Control
  PROVE  /\ Len(wire) \in Nat /\ Len(outBuffer) \in Nat /\ written \in Nat
         /\ Taken \in 0..Len(outBuffer)
<1>1. Len(wire) \in Nat /\ Len(outBuffer) \in Nat /\ written \in Nat
  BY LenProperties, SocketAssumption DEF Buffers
<1>2. QED
  BY <1>1 DEF Taken, Control, WriteFits

\* A step that only closes the socket, or takes nothing more, keeps the stream.
LEMMA StreamKept ==
  ASSUME Stream, outBuffer' = outBuffer, secondary' = secondary, wire' = wire,
         written' = written, force' = force, ~open' \/ (open' = open /\ Taken' = Taken)
  PROVE  Stream'
  BY DEF Stream

LEMMA StreamWrite == ASSUME Buffers, Under, Control, Stream, Write PROVE Stream'
<1>1. /\ outBuffer' = Append(outBuffer, written + 1) /\ written' = written + 1
      /\ secondary' = secondary /\ wire' = wire
  BY DEF Write, PacketBufferWrite
<1>2. open' = open /\ force' = force /\ write' = write
  BY Zenon DEF Write
<1>3. Taken' = Taken
  BY <1>2 DEF Taken
<1>4. /\ Len(outBuffer') = Len(outBuffer) + 1
      /\ \A i \in 1..Len(outBuffer) : outBuffer'[i] = outBuffer[i]
      /\ outBuffer'[Len(outBuffer) + 1] = written + 1
  BY <1>1, StreamLengths, AppendProperties DEF Buffers
<1>5. QED
  BY <1>1, <1>2, <1>3, <1>4, StreamLengths DEF Stream

LEMMA StreamKernelSends == ASSUME Buffers, Under, Control, Stream, KernelSends PROVE Stream'
<1>1. PICK k \in 1..write.n : /\ wire' = wire \o SubSeq(outBuffer, 1, k)
                              /\ write' = [state |-> "sent", n |-> k]
  BY DEF KernelSends
<1>2. UNCHANGED <<outBuffer, secondary, written>> /\ write.state = "started"
  BY DEF KernelSends
<1>3. open' = open /\ force' = force
  BY Zenon DEF KernelSends, forceVars
<1>4. Taken = 0 /\ Taken' = k /\ k \in 1..Len(outBuffer)
  BY <1>1, <1>2 DEF Taken, Control, WriteFits
<1>5. /\ Len(wire') = Len(wire) + k
      /\ \A i \in 1..Len(wire) : wire'[i] = wire[i]
      /\ \A i \in 1..k : wire'[Len(wire) + i] = outBuffer[i]
  <2>1. k \in 0..Len(outBuffer)
    BY <1>4, StreamLengths
  <2>2. /\ SubSeq(outBuffer, 1, k) \in Seq(Nat)
        /\ Len(SubSeq(outBuffer, 1, k)) = k
        /\ \A i \in 1..k : SubSeq(outBuffer, 1, k)[i] = outBuffer[i]
    BY <2>1, TakenType
  <2>3. /\ Len(wire') = Len(wire) + k
        /\ \A i \in 1..Len(wire) : wire'[i] = wire[i]
        /\ \A i \in 1..k : wire'[Len(wire) + i] = SubSeq(outBuffer, 1, k)[i]
    BY <1>1, <1>4, <2>2, StreamLengths, ConcatParts DEF Buffers
  <2>4. QED
    BY <2>2, <2>3
<1>6. CASE force
  BY <1>2, <1>3, <1>6 DEF Stream
<1>7. CASE ~force
  <2>1. open
    BY <1>2 DEF Control
  <2>2. /\ Len(wire) + Len(outBuffer) = written
        /\ \A i \in 1..Len(wire) : wire[i] = i
        /\ \A j \in 1..Len(outBuffer) : outBuffer[j] = Len(wire) + j
    BY <1>4, <1>7, <2>1, StreamLengths DEF Stream
  <2>3. \A i \in 1..Len(wire') : wire'[i] = i
    <3>1. SUFFICES ASSUME NEW i \in 1..Len(wire') PROVE wire'[i] = i
      OBVIOUS
    <3>2. CASE i \in 1..Len(wire)
      BY <1>5, <2>2, <3>2
    <3>3. CASE i > Len(wire)
      <4>1. i - Len(wire) \in 1..k /\ i = Len(wire) + (i - Len(wire))
        BY <1>4, <1>5, <3>3, StreamLengths
      <4>2. wire'[i] = outBuffer[i - Len(wire)]
        BY <1>5, <4>1
      <4>3. QED
        BY <1>4, <2>2, <4>1, <4>2, StreamLengths
    <3>4. QED
      BY <3>2, <3>3, <1>4, <1>5, StreamLengths
  <2>4. Len(wire') <= written /\ Len(wire') + Len(outBuffer) = written + k
    BY <1>4, <1>5, <2>2, StreamLengths
  <2>5. \A j \in (k + 1)..Len(outBuffer) : outBuffer[j] = Len(wire') + j - k
    BY <1>4, <1>5, <2>2, StreamLengths
  <2>6. QED
    BY <1>2, <1>3, <1>4, <2>3, <2>4, <2>5 DEF Stream
<1>8. QED
  BY <1>6, <1>7

LEMMA StreamWriteCompleted ==
  ASSUME Buffers, Under, Control, Stream, WriteCompleted PROVE Stream'
<1>1. outBuffer' = Remainder /\ secondary' = <<>> /\ UNCHANGED <<written, wire>>
  BY DEF WriteCompleted
<1>2. open' = open /\ force' = force
  BY Zenon DEF WriteCompleted, forceVars
<1>3. Taken = write.n /\ Taken' = 0
  BY DEF WriteCompleted, Control, Taken, StartWrite, NoWrite
<1>4. Remainder = SubSeq(outBuffer, Taken + 1, Len(outBuffer))
  <2>1. SubSeq(outBuffer, write.n + 1, Len(outBuffer)) \in Seq(Nat)
    BY DEF Buffers, Under
  <2>2. QED
    BY <1>3, <2>1, ConcatEmptySeq DEF Remainder, Stream
<1>5. /\ Len(outBuffer') = Len(outBuffer) - Taken
      /\ \A j \in 1..(Len(outBuffer) - Taken) : outBuffer'[j] = outBuffer[Taken + j]
  <2>1. /\ Len(SubSeq(outBuffer, Taken + 1, Len(outBuffer))) = Len(outBuffer) - Taken
        /\ \A j \in 1..(Len(outBuffer) - Taken) :
             SubSeq(outBuffer, Taken + 1, Len(outBuffer))[j] = outBuffer[Taken + j]
    BY StreamLengths, LeftType
  <2>2. QED
    BY <1>1, <1>4, <2>1
<1>6. CASE force \/ ~open
  BY <1>1, <1>2, <1>6 DEF Stream
<1>7. CASE ~force /\ open
  <2>1. /\ Len(wire) + Len(outBuffer) = written + Taken
        /\ \A j \in (Taken + 1)..Len(outBuffer) : outBuffer[j] = Len(wire) + j - Taken
    BY <1>7 DEF Stream
  <2>2. Len(wire) + Len(outBuffer') = written
    BY <1>5, <2>1, StreamLengths
  <2>3. \A j \in 1..Len(outBuffer') : outBuffer'[j] = Len(wire) + j
    <3>1. SUFFICES ASSUME NEW j \in 1..Len(outBuffer') PROVE outBuffer'[j] = Len(wire) + j
      OBVIOUS
    <3>2. Taken + j \in (Taken + 1)..Len(outBuffer) /\ j \in 1..(Len(outBuffer) - Taken)
      BY <1>5, <3>1, StreamLengths
    <3>3. outBuffer[Taken + j] = Len(wire) + (Taken + j) - Taken
      BY <2>1, <3>2
    <3>4. QED
      BY <1>5, <3>2, <3>3, StreamLengths
  <2>4. QED
    BY <1>1, <1>2, <1>3, <1>7, <2>2, <2>3, StreamLengths DEF Stream
<1>8. QED
  BY <1>6, <1>7

LEMMA StreamStep ==
  ASSUME Buffers, Under, Control, Stream, [Next]_vars PROVE Stream'
<1>1. CASE KernelSendsForced
  <2>1. force /\ force' = force
    BY <1>1, Zenon DEF KernelSendsForced, Control
  <2>2. secondary' = secondary
    BY <1>1 DEF KernelSendsForced
  <2>3. QED
    BY <2>1, <2>2 DEF Stream
<1>2. CASE ProgramCloses \/ OnWriteError \/ OnForced \/ OnReadError \/ Refused
  <2>1. UNCHANGED <<outBuffer, secondary, wire, written>>
    BY <1>2, Zenon DEF ProgramCloses, OnWriteError, OnForced, OnReadError, Refused, EndRead, outVars
  <2>2. force' = force /\ ~open'
    BY <1>2, Zenon DEF ProgramCloses, OnWriteError, OnForced, OnReadError, Refused, EndRead,
       CloseSocket
  <2>3. QED
    BY <2>1, <2>2, StreamKept
<1>3. CASE \/ KernelFails \/ DataArrives \/ PeerLeaves \/ TimerExpires
           \/ FlushOut \/ FlushLocked \/ OnRead \/ ReadMore \/ Processed \/ Skipped
  <2>1. UNCHANGED <<outBuffer, secondary, wire, written>>
    BY <1>3, Zenon DEF KernelFails, DataArrives, PeerLeaves, TimerExpires, FlushOut, FlushLocked,
       OnRead, ReadMore, Processed, Skipped, EndRead, outVars
  <2>2. open' = open /\ force' = force
    BY <1>3, Zenon DEF KernelFails, DataArrives, PeerLeaves, TimerExpires, FlushOut, FlushLocked,
       OnRead, ReadMore, Processed, Skipped, EndRead, forceVars
  <2>3. CASE KernelFails \/ FlushLocked
    BY <2>1, <2>2, <2>3, StreamKept DEF KernelFails, FlushLocked, StartWrite, Taken, Control,
       WritesMatchState, NoWrite, Under
  <2>4. CASE write' = write
    BY <2>1, <2>2, <2>4, StreamKept DEF Taken
  <2>5. QED
    BY <1>3, <2>3, <2>4 DEF DataArrives, PeerLeaves, TimerExpires, FlushOut, OnRead, ReadMore,
       Processed, Skipped
<1>4. CASE OnWriteComplete
  <2>1. UNCHANGED <<outBuffer, secondary, wire, written>>
    BY <1>4, Zenon DEF OnWriteComplete, outVars
  <2>2. open' = open /\ force' = force
    BY <1>4, Zenon DEF OnWriteComplete, forceVars
  <2>3. ~open' \/ write' = write
    BY <1>4, Zenon DEF OnWriteComplete, forceVars
  <2>4. QED
    BY <2>1, <2>2, <2>3, StreamKept DEF Taken
<1>5. CASE UNCHANGED vars
  <2>1. UNCHANGED <<outBuffer, secondary, wire, written, write>>
    BY <1>5, Zenon DEF vars, outVars
  <2>2. open' = open /\ force' = force
    BY <1>5, Zenon DEF vars, forceVars
  <2>3. QED
    BY <2>1, <2>2, StreamKept DEF Taken
<1>6. QED
  BY <1>1, <1>2, <1>3, <1>4, <1>5, StreamWrite, StreamKernelSends, StreamWriteCompleted
     DEF Next, Program, Kernel, Handler

\* The sequence form: the wire, the buffer and the secondary buffer are the
\* numbers from 1 to written.
LEMMA StreamIsInOrder == ASSUME Buffers, Under, Control, Stream PROVE StreamInOrder
<1>1. CASE force
  BY <1>1 DEF StreamInOrder
<1>2. CASE ~force /\ ~open
  BY <1>2 DEF StreamInOrder, Stream
<1>3. CASE ~force /\ open
  <2>1. NotTaken = SubSeq(outBuffer, Taken + 1, Len(outBuffer))
    BY DEF NotTaken, Taken
  <2>2. /\ NotTaken \in Seq(Nat) /\ Len(NotTaken) = Len(outBuffer) - Taken
        /\ \A j \in 1..(Len(outBuffer) - Taken) : NotTaken[j] = outBuffer[Taken + j]
    BY <2>1, StreamLengths, LeftType
  <2>3. wire \o NotTaken \in Seq(Nat) /\ wire \o NotTaken \o secondary = wire \o NotTaken
    BY <2>2, ConcatProperties, ConcatEmptySeq DEF Stream, Buffers
  <2>4. /\ Len(wire \o NotTaken) = Len(wire) + Len(NotTaken)
        /\ \A i \in 1..Len(wire) : (wire \o NotTaken)[i] = wire[i]
        /\ \A i \in 1..Len(NotTaken) : (wire \o NotTaken)[Len(wire) + i] = NotTaken[i]
    BY <2>2, ConcatParts DEF Buffers
  <2>5. Len(wire \o NotTaken) = written
    BY <1>3, <2>2, <2>4, StreamLengths DEF Stream
  <2>6. \A i \in 1..written : (wire \o NotTaken)[i] = i
    <3>1. SUFFICES ASSUME NEW i \in 1..written PROVE (wire \o NotTaken)[i] = i
      OBVIOUS
    <3>2. CASE i \in 1..Len(wire)
      BY <1>3, <2>4, <3>2 DEF Stream
    <3>3. CASE i > Len(wire)
      <4>1. i - Len(wire) \in 1..(Len(outBuffer) - Taken)
        BY <2>2, <2>4, <2>5, <3>3, StreamLengths
      <4>2. (wire \o NotTaken)[Len(wire) + (i - Len(wire))] = outBuffer[Taken + (i - Len(wire))]
        BY <2>2, <2>4, <4>1
      <4>3. Taken + (i - Len(wire)) \in (Taken + 1)..Len(outBuffer)
        BY <4>1, StreamLengths
      <4>4. outBuffer[Taken + (i - Len(wire))] = Len(wire) + (Taken + (i - Len(wire))) - Taken
        BY <1>3, <4>3 DEF Stream
      <4>5. Len(wire) + (i - Len(wire)) = i
            /\ Len(wire) + (Taken + (i - Len(wire))) - Taken = i
        BY StreamLengths
      <4>6. QED
        BY <4>2, <4>4, <4>5
    <3>4. i \in Nat /\ i >= 1 /\ Len(wire) \in Nat
      BY StreamLengths
    <3>5. i \in 1..Len(wire) \/ i > Len(wire)
      BY <3>4
    <3>6. QED
      BY <3>2, <3>3, <3>5, Zenon
  <2>7. wire \o NotTaken = [i \in 1..written |-> i]
    <3> DEFINE u == wire \o NotTaken
    <3>1. u \in [1..written -> Nat]
      BY <2>3, <2>5, LenProperties
    <3>2. \A i \in 1..written : u[i] = i
      BY <2>6
    <3> HIDE DEF u
    <3>3. u = [i \in 1..written |-> i]
      BY <3>1, <3>2
    <3>4. QED
      BY <3>3 DEF u
  <2>8. QED
    BY <1>3, <2>3, <2>7 DEF StreamInOrder, Stream
<1>4. QED
  BY <1>1, <1>2, <1>3

\* The clients of the game and the chat receive the packets in the order in
\* which they were written, none lost, repeated or torn from the middle.
THEOREM StreamReachesThePeer == Spec => []StreamInOrder
<1>1. Init => TypeOK /\ Control /\ Stream
  BY TypeInit, ControlInit, StreamInit
<1>2. TypeOK /\ Control /\ Stream /\ [Next]_vars => (TypeOK /\ Control /\ Stream)'
  BY InductiveStep, StreamStep, TypeParts
<1>3. TypeOK /\ Control /\ Stream => StreamInOrder
  BY TypeParts, StreamIsInOrder
<1>4. QED
  BY <1>1, <1>2, <1>3, PTL DEF Spec

-----------------------------------------------------------------------------
(* The read side: what a read becomes is counted until its handler runs,   *)
(* and the handler starts another or closes the socket.                    *)

LEMMA CloseCloses ==
  ASSUME NEW w, NEW f, NEW r, CloseSocket(w, f, r)
  PROVE  ListensUntilClosed'
  BY DEF CloseSocket, ListensUntilClosed

LEMMA ListensStep ==
  ASSUME Flags, Under, ListensUntilClosed, [Next]_vars
  PROVE  ListensUntilClosed'
<1>1. reads \in Nat /\ readsDone \in Nat /\ readsFailed \in Nat
  BY DEF Under
<1>2. ASSUME UNCHANGED <<readVars, open, net>>
      PROVE  ListensUntilClosed'
  BY <1>2 DEF readVars, ListensUntilClosed
<1>3. ASSUME Write \/ KernelSends \/ KernelFails \/ KernelSendsForced \/ TimerExpires
             \/ UNCHANGED vars
      PROVE  ListensUntilClosed'
  BY <1>2, <1>3 DEF Write, KernelSends, KernelFails, KernelSendsForced, TimerExpires, vars
<1>4. ASSUME ProgramCloses \/ OnWriteError \/ OnForced \/ OnReadError \/ Refused
      PROVE  ListensUntilClosed'
  BY <1>4, CloseCloses DEF ProgramCloses, OnWriteError, OnForced, OnReadError, Refused
<1>5. ASSUME DataArrives \/ PeerLeaves
      PROVE  ListensUntilClosed'
  <2>1. reads' + readsDone' + readsFailed' > 0
    BY <1>1, <1>5 DEF DataArrives, PeerLeaves
  <2>2. QED
    BY <2>1 DEF ListensUntilClosed
<1>6. ASSUME FlushOut \/ FlushLocked \/ OnWriteComplete \/ WriteCompleted
      PROVE  ListensUntilClosed'
  <2>1. UNCHANGED <<readVars, open>> /\ net # "read"
    BY <1>6 DEF FlushOut, FlushLocked, OnWriteComplete, WriteCompleted
  <2>2. QED
    BY <2>1 DEF readVars, ListensUntilClosed
<1>7. ASSUME OnRead
      PROVE  ListensUntilClosed'
  BY <1>7 DEF OnRead, ListensUntilClosed
<1>8. ASSUME NEW n \in {1, 2}, EndRead, StartAsyncRead(n), UNCHANGED <<open, readsFailed>>
      PROVE  ListensUntilClosed'
  <2>1. open => reads' + readsDone' + readsFailed' > 0
    BY <1>1, <1>8 DEF EndRead, StartAsyncRead
  <2>2. QED
    BY <1>8, <2>1 DEF ListensUntilClosed
<1>9. ASSUME ReadMore \/ Processed \/ Skipped
      PROVE  ListensUntilClosed'
  BY <1>8, <1>9 DEF ReadMore, Processed, Skipped
<1>10. QED
  BY <1>3, <1>4, <1>5, <1>6, <1>7, <1>9 DEF Next, Program, Kernel, Handler

\* A connection never goes deaf (OnRead, Socket.cpp): until it is closed a read is
\* under way or its completion waits, or the thread is in the handler.
THEOREM ListensCorrect == Spec => []ListensUntilClosed
<1>1. Init => ListensUntilClosed
  BY DEF Init, ListensUntilClosed
<1>2. TypeOK /\ ListensUntilClosed /\ [Next]_vars => ListensUntilClosed'
  BY ListensStep, TypeParts
<1>3. QED
  BY <1>1, <1>2, TypeCorrect, PTL DEF Spec

-----------------------------------------------------------------------------
(* The safety half of WrittenIsSent: nothing is left in a buffer that       *)
(* neither a timer, nor a write, nor a completion will look at again.       *)

UnderWay ==
  \/ timer # "off" \/ net = "flush" \/ write # NoWrite
  \/ forced # <<>> \/ forcedDone > 0

NothingIsStuck == open /\ (outBuffer # <<>> \/ secondary # <<>>) => UnderWay

LEMMA WriteIsNoticed ==
  ASSUME Buffers, Under, Control, Write
  PROVE  NothingIsStuck'
<1>1. SUFFICES ASSUME open' PROVE UnderWay'
  BY DEF NothingIsStuck
<1>2. UNCHANGED <<open, write, net>>
  BY DEF Write
<1>3. CASE writeState # "Idle"
  <2>1. UNCHANGED <<writeState, timer>>
    BY <1>3 DEF Write
  <2>2. writeState = "Buffering" \/ writeState = "Sending"
    BY <1>3 DEF Under
  <2>3. timer # "off" \/ net = "flush" \/ write # NoWrite
    BY <1>1, <1>2, <2>2 DEF Control, WritesMatchState
  <2>4. QED
    BY <1>2, <2>1, <2>3 DEF UnderWay
<1>4. CASE writeState = "Idle" /\ force
  <2>1. forced' = Append(forced, Len(outBuffer'))
    BY <1>1, <1>2, <1>4 DEF Write, ForceSendAndClose
  <2>2. PICK length : length = Len(outBuffer')
    OBVIOUS
  <2>3. length \in Nat
    <3>1. outBuffer' = Append(outBuffer, written') /\ written' \in Nat
      BY SocketAssumption DEF Write, PacketBufferWrite, Buffers
    <3>2. outBuffer' \in Seq(Nat)
      BY <3>1 DEF Buffers
    <3>3. QED
      BY <2>2, <3>2, LenProperties
  <2>4. forced' # <<>>
    BY <2>1, <2>2, <2>3 DEF Under
  <2>5. QED
    BY <2>4 DEF UnderWay
<1>5. CASE writeState = "Idle" /\ ~force
  <2>1. timer' = "armed"
    BY <1>1, <1>2, <1>5 DEF Write, StartWriteFlushTimer
  <2>2. QED
    BY <2>1 DEF UnderWay
<1>6. QED
  BY <1>3, <1>4, <1>5, Zenon

LEMMA StuckStep ==
  ASSUME Flags, Buffers, Under, Control, NothingIsStuck, [Next]_vars
  PROVE  NothingIsStuck'
<1>1. ASSUME ProgramCloses \/ OnWriteError \/ OnForced \/ OnReadError \/ Refused
      PROVE  NothingIsStuck'
  BY <1>1 DEF ProgramCloses, OnWriteError, OnForced, OnReadError, Refused, CloseSocket,
              NothingIsStuck
<1>2. CASE KernelSends
  <2>1. PICK k : write' = [state |-> "sent", n |-> k]
    BY <1>2 DEF KernelSends
  <2>2. write' # NoWrite
    BY <2>1 DEF NoWrite
  <2>3. QED
    BY <2>2 DEF NothingIsStuck, UnderWay
<1>3. CASE KernelFails
  <2>1. write' = [write EXCEPT !.state = "failed"]
    BY <1>3 DEF KernelFails
  <2>2. write'.state = "failed"
    BY <2>1 DEF Under
  <2>3. write' # NoWrite
    BY <2>2 DEF NoWrite
  <2>4. QED
    BY <2>3 DEF NothingIsStuck, UnderWay
<1>4. CASE KernelSendsForced
  BY <1>4 DEF KernelSendsForced, NothingIsStuck, UnderWay, Under
<1>5. CASE TimerExpires
  BY <1>5 DEF TimerExpires, NothingIsStuck, UnderWay
<1>6. CASE FlushOut
  <2>1. open' = open /\ (open => net' = "flush")
    BY <1>6 DEF FlushOut
  <2>2. QED
    BY <2>1 DEF NothingIsStuck, UnderWay
<1>7. CASE FlushLocked
  <2>1. write' = [state |-> IF open THEN "started" ELSE "failed", n |-> Len(outBuffer)]
    BY <1>7 DEF FlushLocked, StartWrite
  <2>2. write' # NoWrite
    BY <2>1 DEF NoWrite
  <2>3. QED
    BY <2>2 DEF NothingIsStuck, UnderWay
<1>8. CASE OnWriteComplete
  <2>1. open' = open /\ (open => write' = write)
    BY <1>8 DEF OnWriteComplete
  <2>2. UNCHANGED <<outBuffer, secondary, timer, forced, forcedDone>> /\ net # "flush"
    BY <1>8 DEF OnWriteComplete, outVars, forceVars
  <2>3. QED
    BY <2>1, <2>2 DEF NothingIsStuck, UnderWay
<1>9. CASE WriteCompleted
  <2>1. secondary' = <<>>
    BY <1>9 DEF WriteCompleted
  <2>2. CASE outBuffer' = <<>>
    BY <2>1, <2>2 DEF NothingIsStuck
  <2>3. CASE outBuffer' # <<>>
    <3>1. PICK length : length = Len(outBuffer')
      OBVIOUS
    <3>2. write' = [state |-> IF open THEN "started" ELSE "failed", n |-> length]
      BY <1>9, <2>3, <3>1 DEF WriteCompleted, StartWrite
    <3>3. write' # NoWrite
      BY <3>2 DEF NoWrite
    <3>4. QED
      BY <3>3 DEF NothingIsStuck, UnderWay
  <2>4. QED
    BY <2>2, <2>3
<1>10. ASSUME DataArrives \/ PeerLeaves
       PROVE  NothingIsStuck'
  <2>1. UNCHANGED <<open, outBuffer, secondary, timer, net, write, forced, forcedDone>>
    BY <1>10 DEF DataArrives, PeerLeaves, outVars, forceVars
  <2>2. QED
    BY <2>1 DEF NothingIsStuck, UnderWay
<1>11. ASSUME OnRead \/ ReadMore \/ Processed \/ Skipped
       PROVE  NothingIsStuck'
  <2>1. UNCHANGED <<open, outBuffer, secondary, timer, write, forced, forcedDone>>
    BY <1>11 DEF OnRead, ReadMore, Processed, Skipped, EndRead, outVars, forceVars
  <2>2. net # "flush"
    BY <1>11 DEF OnRead, ReadMore, Processed, Skipped, EndRead
  <2>3. QED
    BY <2>1, <2>2 DEF NothingIsStuck, UnderWay
<1>12. CASE UNCHANGED vars
  <2>1. UNCHANGED <<open, outBuffer, secondary, timer, net, write, forced, forcedDone>>
    BY <1>12 DEF vars, outVars, forceVars
  <2>2. QED
    BY <2>1 DEF NothingIsStuck, UnderWay
<1>13. QED
  BY <1>1, <1>2, <1>3, <1>4, <1>5, <1>6, <1>7, <1>8, <1>9, <1>10, <1>11, <1>12,
     WriteIsNoticed DEF Next, Program, Kernel, Handler

\* No packet waits for nothing, in any of the three programs: as long as the
\* socket is open and a buffer holds a packet, its timer runs, a write of it is
\* under way, or a completion waits to be handled (Write, FlushOut and
\* OnWriteComplete, Socket.cpp).
THEOREM NothingStaysInTheBuffer == Spec => []NothingIsStuck
<1>1. Init => NothingIsStuck
  BY DEF Init, NothingIsStuck
<1>2. TypeOK /\ Control /\ NothingIsStuck /\ [Next]_vars
        => (TypeOK /\ Control /\ NothingIsStuck)'
  BY InductiveStep, StuckStep, TypeParts
<1>3. Init => TypeOK /\ Control
  BY TypeInit, ControlInit
<1>4. QED
  BY <1>1, <1>2, <1>3, PTL DEF Spec
=============================================================================
