------------------------------ MODULE Serial_proofs ------------------------------
(***************************************************************************)
(* What holds of the serial receive path for any FIFO, buffer and amount   *)
(* of input: type correctness, that the guest gets the host's bytes in     *)
(* order, and that the task does not sleep on what has happened.           *)
(***************************************************************************)
EXTENDS Serial, SequenceTheorems, TLAPS

(* s is a run of numbers that follows n.                                   *)
Follows(s, n) == \A i \in 1 .. Len(s) : s[i] = n + i

(* Where the bytes are: each sequence goes on where the one before it in   *)
(* the pipeline ends, the buffer being counted from what has been taken.   *)
Enqueued == Len(got) + Len(fifo)
Received == Enqueued + Len(buf) - taken

OrderInv ==
  /\ Follows(got, 0) /\ Follows(fifo, Len(got))
  /\ Follows(buf, Enqueued - taken) /\ Follows(source, Received)
  /\ written = Received + Len(source)
  /\ at \in {"read", "try", "clear", "closed"} => taken = Len(buf)
  /\ at = "closed" => closed /\ source = <<>>

(* Readiness outlives everything between the guard and its clearing.       *)
WakeInv ==
  /\ NoLostWakeup
  /\ at \in {"try", "clear", "capacity", "wait", "enqueue"} => ready

IInv == TypeOK /\ OrderInv /\ WakeInv

--------------------------------------------------------------------------------
LEMMA FollowsConcat ==
  ASSUME NEW S, NEW s \in Seq(S), NEW t \in Seq(S), NEW n \in Int,
         Follows(s, n), Follows(t, n + Len(s))
  PROVE  Follows(s \o t, n)
<1>1. ASSUME NEW i \in 1 .. Len(s) + Len(t) PROVE (s \o t)[i] = n + i
  <2>1. CASE i <= Len(s)
    BY <2>1, ConcatProperties DEF Follows
  <2>2. CASE i > Len(s)
    <3>1. i - Len(s) \in 1 .. Len(t) /\ (s \o t)[i] = t[i - Len(s)]
      BY <2>2, ConcatProperties
    <3> QED
      BY <3>1 DEF Follows
  <2> QED
    BY <2>1, <2>2
<1> QED
  BY <1>1, ConcatProperties DEF Follows

LEMMA Slice ==
  ASSUME NEW S, NEW s \in Seq(S), NEW a \in 0 .. Len(s), NEW b \in a .. Len(s)
  PROVE  /\ SubSeq(s, a + 1, b) \in Seq(S)
         /\ Len(SubSeq(s, a + 1, b)) = b - a
         /\ \A i \in 1 .. b - a : SubSeq(s, a + 1, b)[i] = s[a + i]
<1>1. \A i \in a + 1 .. b : s[i] \in S
  OBVIOUS
<1>2. /\ SubSeq(s, a + 1, b) \in Seq(S)
      /\ Len(SubSeq(s, a + 1, b)) = IF a + 1 <= b THEN b - (a + 1) + 1 ELSE 0
      /\ \A i \in 1 .. b - (a + 1) + 1 : SubSeq(s, a + 1, b)[i] = s[(a + 1) + i - 1]
  BY <1>1, SubSeqProperties
<1> QED
  BY <1>2

LEMMA FollowsSlice ==
  ASSUME NEW S, NEW s \in Seq(S), NEW n \in Int, Follows(s, n),
         NEW a \in 0 .. Len(s), NEW b \in a .. Len(s)
  PROVE  Follows(SubSeq(s, a + 1, b), n + a)
<1>1. ASSUME NEW i \in 1 .. b - a PROVE SubSeq(s, a + 1, b)[i] = (n + a) + i
  <2>1. a + i \in 1 .. Len(s) /\ SubSeq(s, a + 1, b)[i] = s[a + i]
    BY Slice
  <2> QED
    BY <2>1 DEF Follows
<1> QED
  BY <1>1, Slice DEF Follows

LEMMA LengthsNat ==
  ASSUME TypeOK
  PROVE  /\ Len(source) \in Nat /\ Len(buf) \in Nat /\ Len(fifo) \in Nat /\ Len(got) \in Nat
         /\ taken \in 0 .. Len(buf)
BY DEF TypeOK

(* What one Enqueue moves.                                                 *)
LEMMA EnqueueBounds ==
  ASSUME TypeOK
  PROVE  /\ Least(Len(buf), taken + Capacity) \in taken .. Len(buf)
         /\ Least(Len(buf), taken + Capacity) - taken <= FIFO_SIZE - Len(fifo)
BY SerialAssumption DEF SerialAssumption, TypeOK, Least, Capacity

--------------------------------------------------------------------------------
LEMMA TypeStep == TypeOK /\ [Next]_vars => TypeOK'
<1> SUFFICES ASSUME TypeOK, [Next]_vars PROVE TypeOK'
  OBVIOUS
<1> USE SerialAssumption DEF SerialAssumption, host, reactor, guest, Ended
<1>1. CASE HostWrites
  <2> PICK n \in 1 .. MaxInput - written :
        /\ source' = source \o [k \in 1 .. n |-> written + k]
        /\ written' = written + n
    BY <1>1 DEF HostWrites
  <2>1. [k \in 1 .. n |-> written + k] \in Seq(Bytes)
    BY DEF TypeOK, Bytes
  <2> QED
    BY <1>1, <2>1 DEF HostWrites, TypeOK
<1>2. CASE HostCloses \/ Turn
  BY <1>2 DEF HostCloses, Turn, TypeOK
<1>3. CASE ReadSome
  <2> PICK n \in 1 .. Least(Len(source), RX_CHUNK) :
        buf' = SubSeq(source, 1, n) /\ source' = SubSeq(source, n + 1, Len(source))
    BY <1>3 DEF ReadSome
  <2>1. n \in 1 .. Len(source) /\ n <= RX_CHUNK
    BY DEF Least, TypeOK
  <2>2. buf' \in Seq(Bytes) /\ Len(buf') = n
    <3>1. SubSeq(source, 0 + 1, n) \in Seq(Bytes) /\ Len(SubSeq(source, 0 + 1, n)) = n - 0
      BY <2>1, Slice DEF TypeOK
    <3> QED
      BY <3>1, <2>1
  <2>3. source' \in Seq(Bytes)
    BY <2>1, Slice DEF TypeOK
  <2> QED
    BY <1>3, <2>1, <2>2, <2>3 DEF ReadSome, TypeOK
<1>4. CASE Readable \/ ReadNothing \/ ReadFails \/ WouldBlock \/ ClearReady
  BY <1>4 DEF Readable, ReadNothing, ReadFails, WouldBlock, ClearReady, TypeOK
<1>5. CASE CheckCapacity \/ Notified \/ Stopped \/ RequestStop
  BY <1>5 DEF CheckCapacity, Locked, Notified, Stopped, RequestStop, TypeOK
<1>6. CASE Enqueue
  <2> DEFINE last == Least(Len(buf), taken + Capacity)
  <2>1. last \in taken .. Len(buf) /\ last - taken <= FIFO_SIZE - Len(fifo)
    BY EnqueueBounds
  <2>2. SubSeq(buf, taken + 1, last) \in Seq(Bytes)
        /\ Len(SubSeq(buf, taken + 1, last)) = last - taken
    BY <2>1, Slice DEF TypeOK
  <2>3. CASE poisoned
    BY <1>6, <2>3 DEF Enqueue, Locked, TypeOK
  <2>4. CASE ~poisoned
    <3>1. /\ fifo' = fifo \o SubSeq(buf, taken + 1, last) /\ taken' = last
          /\ at' = IF last = Len(buf) THEN "read" ELSE "capacity"
          /\ UNCHANGED <<source, closed, edge, written, ready, current, buf, stop, permit,
                         poisoned, listening, got>>
      BY <1>6, <2>4 DEF Enqueue, Locked
    <3>2. fifo' \in Seq(Bytes) /\ Len(fifo') <= FIFO_SIZE
      <4> HIDE DEF last
      <4> QED
        BY <3>1, <2>1, <2>2, LengthsNat, ConcatProperties DEF TypeOK
    <3> HIDE DEF last
    <3> QED
      BY <3>1, <3>2, <2>1 DEF TypeOK
  <2> QED
    BY <2>3, <2>4
<1>7. CASE GuestReads
  <2>1. Head(fifo) \in Bytes /\ Tail(fifo) \in Seq(Bytes) /\ Len(Tail(fifo)) = Len(fifo) - 1
    BY <1>7, HeadTailProperties DEF GuestReads, TypeOK
  <2>2. got' \in Seq(Bytes)
    BY <1>7, <2>1, AppendProperties DEF GuestReads, TypeOK
  <2> QED
    BY <1>7, <2>1, <2>2 DEF GuestReads, InBufferEmpty, TypeOK
<1>8. CASE GuestReadsEmpty \/ GuestLeaves
  BY <1>8 DEF GuestReadsEmpty, GuestLeaves, InBufferEmpty, TypeOK
<1>9. CASE UNCHANGED vars
  BY <1>9 DEF vars, TypeOK
<1> QED
  BY <1>1, <1>2, <1>3, <1>4, <1>5, <1>6, <1>7, <1>8, <1>9 DEF Next, Task

(* The variables have their types; the task's buffer and the FIFO keep to  *)
(* their sizes, and a task that enqueues has something to enqueue.         *)
THEOREM TypeCorrect == Spec => []TypeOK
<1>1. Init => TypeOK
  <2>1. <<>> \in Seq(Bytes) /\ Len(<<>>) = 0
    OBVIOUS
  <2> SUFFICES ASSUME Init PROVE TypeOK
    OBVIOUS
  <2>2. /\ {source, buf, fifo, got} \subseteq Seq(Bytes)
        /\ Len(buf) = 0 /\ Len(fifo) = 0 /\ written \in 0 .. MaxInput /\ taken \in 0 .. Len(buf)
    BY <2>1, SerialAssumption DEF SerialAssumption, Init
  <2>3. {closed, edge, ready, current, permit, poisoned, stop, listening} \subseteq BOOLEAN
    BY DEF Init
  <2> QED
    BY <2>2, <2>3, SerialAssumption DEF SerialAssumption, Init, TypeOK, Ended
<1> QED
  BY <1>1, TypeStep, PTL DEF Spec

--------------------------------------------------------------------------------
LEMMA LengthOfNothing == Len(<<>>) = 0
OBVIOUS

(* A byte moves from the head of one sequence to the end of the one before *)
(* it, or from what is unread to a buffer that has been taken whole.       *)
LEMMA OrderStep == TypeOK /\ TypeOK' /\ OrderInv /\ [Next]_vars => OrderInv'
<1> SUFFICES ASSUME TypeOK, TypeOK', OrderInv, [Next]_vars PROVE OrderInv'
  OBVIOUS
<1> USE DEF host, reactor, guest, Enqueued, Received
<1>1. CASE HostWrites
  <2> PICK n \in 1 .. MaxInput - written :
        /\ source' = source \o [k \in 1 .. n |-> written + k]
        /\ written' = written + n
    BY <1>1 DEF HostWrites
  <2> DEFINE new == [k \in 1 .. n |-> written + k]
  <2>1. new \in Seq(Bytes) /\ Len(new) = n
    BY SerialAssumption DEF SerialAssumption, TypeOK, Bytes
  <2>2. Follows(new, Received + Len(source))
    BY <2>1 DEF OrderInv, Follows
  <2> HIDE DEF new
  <2>3. Follows(source \o new, Received)
    <3>1. Received \in Int /\ source \in Seq(Bytes) /\ Follows(source, Received)
      BY LengthsNat DEF TypeOK, OrderInv
    <3> HIDE DEF Received
    <3> QED
      BY <2>1, <2>2, <3>1, FollowsConcat
  <2>4. Len(source \o new) = Len(source) + n
    BY <2>1, ConcatProperties DEF TypeOK
  <2>5. source' = source \o new /\ written' = written + n
    BY DEF new
  <2>6. UNCHANGED <<got, fifo, buf, taken, at, closed>> /\ ~closed
    BY <1>1 DEF HostWrites
  <2>7. Received' = Received
    BY <2>6
  <2>8. written' = Received' + Len(source')
    BY <2>4, <2>5, <2>7, LengthsNat, SMTT(30) DEF OrderInv
  <2>9. Follows(source', Received')
    BY <2>3, <2>5, <2>7
  <2> QED
    BY <2>6, <2>7, <2>8, <2>9 DEF OrderInv
<1>2. CASE ReadSome
  <2> PICK n \in 1 .. Least(Len(source), RX_CHUNK) :
        buf' = SubSeq(source, 1, n) /\ source' = SubSeq(source, n + 1, Len(source))
    BY <1>2 DEF ReadSome
  <2>1. n \in 1 .. Len(source) /\ taken = Len(buf)
    BY <1>2, SerialAssumption, LengthsNat DEF SerialAssumption, Least, ReadSome, OrderInv
  <2>2. Len(SubSeq(source, 0 + 1, n)) = n - 0 /\ Len(source') = Len(source) - n
    BY <2>1, LengthsNat, Slice DEF TypeOK
  <2>3. Follows(SubSeq(source, 0 + 1, n), Received + 0) /\ Follows(source', Received + n)
    BY <2>1, LengthsNat, FollowsSlice, SMTT(30) DEF TypeOK, OrderInv
  <2>4. UNCHANGED <<got, fifo, written>> /\ taken' = 0 /\ at' = "capacity"
    BY <1>2 DEF ReadSome
  <2>5. Enqueued' - taken' = Received + 0 /\ Received' = Received + n
        /\ written' = Received' + Len(source')
    <3>1. Len(buf') = n
      BY <2>1, <2>2
    <3>2. Received = Len(got) + Len(fifo)
      BY <2>1, LengthsNat
    <3>3. Received' = Len(got) + Len(fifo) + n
      BY <3>1, <2>4, LengthsNat
    <3>4. written = Len(got) + Len(fifo) + Len(source)
      BY <3>2 DEF OrderInv
    <3>5. Enqueued' - taken' = Len(got) + Len(fifo)
      BY <2>4, LengthsNat
    <3>6. Received + 0 = Len(got) + Len(fifo)
      BY <3>2, LengthsNat
    <3>7. Received' = Received + n
      BY <3>2, <3>3
    <3>8. written' = Received' + Len(source')
      <4>1. written' = Len(got) + Len(fifo) + Len(source) /\ Len(source') = Len(source) - n
        BY <3>4, <2>2, <2>4
      <4> QED
        BY <3>3, <4>1, <2>1, LengthsNat
    <3> QED
      BY <3>5, <3>6, <3>7, <3>8
  <2>6. Follows(buf', Enqueued' - taken') /\ Follows(source', Received')
    BY <2>3, <2>5
  <2> QED
    BY <2>4, <2>5, <2>6 DEF OrderInv
<1>3. CASE Enqueue
  <2>1. CASE poisoned
    BY <1>3, <2>1 DEF Enqueue, Locked, OrderInv
  <2>2. CASE ~poisoned
    <3> DEFINE last == Least(Len(buf), taken + Capacity)
               moved == SubSeq(buf, taken + 1, last)
    <3>1. /\ fifo' = fifo \o moved /\ taken' = last
          /\ at' = IF last = Len(buf) THEN "read" ELSE "capacity"
          /\ UNCHANGED <<source, closed, written, buf, got>>
      BY <1>3, <2>2 DEF Enqueue, Locked
    <3>2. last \in taken .. Len(buf)
      BY EnqueueBounds
    <3> HIDE DEF last
    <3>3. /\ moved \in Seq(Bytes) /\ Len(moved) = last - taken
          /\ Follows(moved, Len(got) + Len(fifo))
      <4>1. Enqueued - taken \in Int /\ (Enqueued - taken) + taken = Len(got) + Len(fifo)
        BY LengthsNat
      <4>2. Follows(moved, (Enqueued - taken) + taken)
        BY <3>2, <4>1, LengthsNat, FollowsSlice DEF TypeOK, OrderInv
      <4> QED
        BY <3>2, <4>1, <4>2, LengthsNat, Slice DEF TypeOK
    <3> HIDE DEF moved
    <3>4. Follows(fifo', Len(got)) /\ Len(fifo') = Len(fifo) + last - taken
      <4>1. Follows(fifo \o moved, Len(got))
        <5>1. Len(got) \in Int /\ fifo \in Seq(Bytes) /\ Follows(fifo, Len(got))
          BY LengthsNat DEF TypeOK, OrderInv
        <5> QED
          BY <3>3, <5>1, FollowsConcat
      <4> QED
        BY <3>1, <3>2, <3>3, <4>1, LengthsNat, ConcatProperties DEF TypeOK
    <3>5. Enqueued' - taken' = Enqueued - taken /\ Received' = Received
      BY <3>1, <3>2, <3>4, LengthsNat
    <3>6. Follows(got', 0) /\ Follows(buf', Enqueued' - taken') /\ Follows(source', Received')
          /\ written' = Received' + Len(source')
      BY <3>1, <3>5 DEF OrderInv
    <3> QED
      BY <3>1, <3>4, <3>6 DEF OrderInv
  <2> QED
    BY <2>1, <2>2
<1>4. CASE GuestReads
  <2>1. /\ got' = Append(got, Head(fifo)) /\ fifo' = Tail(fifo) /\ fifo # <<>>
        /\ UNCHANGED <<source, closed, at, buf, taken, written>>
    BY <1>4 DEF GuestReads
  <2>2. Head(fifo) = fifo[1] /\ Len(fifo) >= 1 /\ Len(fifo') = Len(fifo) - 1
    BY <2>1, HeadTailProperties DEF TypeOK
  <2>3. Head(fifo) = Len(got) + 1
    BY <2>2, LengthsNat DEF OrderInv, Follows
  <2>4. Len(got') = Len(got) + 1 /\ Follows(got', 0)
    BY <2>1, <2>3, LengthsNat, HeadTailProperties, AppendProperties DEF TypeOK, OrderInv, Follows
  <2>5. ASSUME NEW i \in 1 .. Len(fifo') PROVE fifo'[i] = Len(got') + i
    <3>1. fifo'[i] = fifo[i + 1] /\ i + 1 \in 1 .. Len(fifo)
      BY <2>1, <2>2, LengthsNat, HeadTailProperties DEF TypeOK
    <3> QED
      BY <3>1, <2>4, LengthsNat DEF OrderInv, Follows
  <2> QED
    BY <2>1, <2>2, <2>4, <2>5, LengthsNat DEF OrderInv, Follows
<1>5. CASE HostCloses \/ Turn \/ GuestReadsEmpty \/ GuestLeaves
  BY <1>5 DEF HostCloses, Turn, GuestReadsEmpty, GuestLeaves, OrderInv
<1>6. CASE Readable \/ ReadNothing \/ ReadFails \/ WouldBlock \/ ClearReady
  BY <1>6 DEF Readable, ReadNothing, ReadFails, WouldBlock, ClearReady, OrderInv
<1>7. CASE CheckCapacity \/ Notified \/ Stopped \/ RequestStop
  BY <1>7 DEF CheckCapacity, Locked, Notified, Stopped, RequestStop, OrderInv
<1>8. CASE UNCHANGED vars
  BY <1>8 DEF vars, OrderInv
<1> QED
  BY <1>1, <1>2, <1>3, <1>4, <1>5, <1>6, <1>7, <1>8 DEF Next, Task

(* A task waits for room only at a full FIFO, and only a read that empties *)
(* it, which leaves a permit, makes that wait vain; new input queues an    *)
(* event, which the reactor turns into readiness that outdates the guard.  *)
LEMMA WakeStep == TypeOK /\ WakeInv /\ [Next]_vars => WakeInv'
<1> SUFFICES ASSUME TypeOK, WakeInv, [Next]_vars PROVE WakeInv'
  OBVIOUS
<1> USE DEF host, reactor, guest, WakeInv, NoLostWakeup
<1>1. CASE HostWrites \/ HostCloses \/ Turn
  BY <1>1 DEF HostWrites, HostCloses, Turn
<1>2. CASE Readable \/ ReadNothing \/ ReadFails \/ WouldBlock \/ ClearReady
  BY <1>2 DEF Readable, ReadNothing, ReadFails, WouldBlock, ClearReady
<1>3. CASE ReadSome
  BY <1>3 DEF ReadSome
<1>4. CASE CheckCapacity
  <2>1. Capacity = 0 => fifo # <<>>
    BY SerialAssumption, LengthOfNothing DEF SerialAssumption, Capacity
  <2> QED
    BY <1>4, <2>1 DEF CheckCapacity, Locked
<1>5. CASE Notified \/ Stopped \/ RequestStop
  BY <1>5 DEF Notified, Stopped, RequestStop
<1>6. CASE Enqueue
  <2>1. at = "enqueue" /\ at' \in {"failed", "read", "capacity"}
        /\ UNCHANGED <<source, closed, edge, ready, current>>
    BY <1>6 DEF Enqueue, Locked
  <2> QED
    BY <2>1
<1>7. CASE GuestReads \/ GuestReadsEmpty
  <2>1. /\ fifo' = <<>> => permit'
        /\ UNCHANGED <<source, closed, edge, ready, current, at>>
    BY <1>7 DEF GuestReads, GuestReadsEmpty, InBufferEmpty
  <2> QED
    BY <2>1
<1>8. CASE GuestLeaves
  BY <1>8 DEF GuestLeaves
<1>9. CASE UNCHANGED vars
  BY <1>9 DEF vars
<1> QED
  BY <1>1, <1>2, <1>3, <1>4, <1>5, <1>6, <1>7, <1>8, <1>9 DEF Next, Task

LEMMA Invariance == Spec => []IInv
<1>1. Init => OrderInv /\ WakeInv
  BY LengthOfNothing
     DEF Init, OrderInv, WakeInv, NoLostWakeup, Follows, Enqueued, Received
<1>2. TypeOK /\ TypeOK' /\ OrderInv /\ WakeInv /\ [Next]_vars => OrderInv' /\ WakeInv'
  BY OrderStep, WakeStep
<1> QED
  BY <1>1, <1>2, TypeCorrect, PTL DEF Spec, IInv

--------------------------------------------------------------------------------
(* The guest's bytes, the FIFO's, the task's and those unread are the      *)
(* host's, each once and in the order they were written.                   *)
THEOREM InOrder == Spec => []BytesInOrder
<1>1. IInv => BytesInOrder
  <2> SUFFICES ASSUME IInv PROVE BytesInOrder
    OBVIOUS
  <2> USE DEF IInv
  <2> DEFINE rest == SubSeq(buf, taken + 1, Len(buf))
             two == got \o fifo
             three == two \o rest
             all == three \o source
  <2>1. rest \in Seq(Bytes) /\ Len(rest) = Len(buf) - taken /\ Follows(rest, Enqueued)
    <3>1. Enqueued - taken \in Int /\ (Enqueued - taken) + taken = Enqueued
      BY LengthsNat DEF Enqueued
    <3>2. Follows(rest, (Enqueued - taken) + taken)
      BY <3>1, LengthsNat, FollowsSlice DEF TypeOK, OrderInv
    <3> QED
      BY <3>1, <3>2, LengthsNat, Slice DEF TypeOK
  <2> HIDE DEF rest
  <2>2. two \in Seq(Bytes) /\ Len(two) = Enqueued /\ Follows(two, 0)
    <3>1. 0 + Len(got) = Len(got)
      BY LengthsNat
    <3> QED
      BY <3>1, FollowsConcat, ConcatProperties DEF TypeOK, OrderInv, Enqueued
  <2> HIDE DEF two
  <2>3. three \in Seq(Bytes) /\ Len(three) = Received /\ Follows(three, 0)
    <3>1. 0 + Len(two) = Enqueued
      BY <2>2, LengthsNat DEF Enqueued
    <3>2. Follows(three, 0)
      BY <2>1, <2>2, <3>1, FollowsConcat
    <3>3. three \in Seq(Bytes) /\ Len(three) = Len(two) + Len(rest)
      BY <2>1, <2>2, ConcatProperties
    <3>4. Len(three) = Received
      BY <2>1, <2>2, <3>3, LengthsNat DEF Enqueued, Received
    <3> QED
      BY <3>2, <3>3, <3>4
  <2> HIDE DEF three
  <2>4. all \in Seq(Bytes) /\ Len(all) = written /\ Follows(all, 0)
    <3>1. 0 + Len(three) = Received
      BY <2>3, LengthsNat DEF Enqueued, Received
    <3>2. Follows(all, 0)
      BY <2>3, <3>1, FollowsConcat DEF TypeOK, OrderInv
    <3> QED
      BY <2>3, <3>2, ConcatProperties DEF TypeOK, OrderInv
  <2> HIDE DEF all
  <2>5. all = [k \in 1 .. written |-> k]
    BY <2>4 DEF Follows
  <2>6. at = "closed" => Len(got) + Len(fifo) = written
    BY LengthsNat, LengthOfNothing DEF OrderInv, Enqueued, Received
  <2> QED
    BY <2>5, <2>6 DEF BytesInOrder, all, three, two, rest
<1> QED
  BY <1>1, Invariance, PTL

(* The task never sleeps on an emptied FIFO or on input that is there.     *)
THEOREM WakeSafety == Spec => []NoLostWakeup
BY Invariance, PTL DEF IInv, WakeInv
================================================================================
