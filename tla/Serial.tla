--------------------------------- MODULE Serial ---------------------------------
(***************************************************************************)
(* The receive path of the serial device                                   *)
(* (crates/vmm/src/devices/legacy/serial.rs) with the awaitable descriptor *)
(* it reads (crates/vmm/src/devices/async_fd.rs): host input goes through  *)
(* the task's buffer into the UART's FIFO, which the guest empties on a    *)
(* vcpu thread.                                                            *)
(*                                                                         *)
(* Two things wake the task, and both are cached somewhere: readiness of   *)
(* the input, in the reactor, and a drained FIFO, as the permit of a       *)
(* Notify.  Bytes are numbered as the host writes them.                    *)
(***************************************************************************)
EXTENDS Naturals, Sequences

CONSTANTS
  FIFO_SIZE,  \* of the UART's receive FIFO
  RX_CHUNK,   \* the task's buffer
  MaxInput    \* bound: bytes the host writes

ASSUME SerialAssumption ==
  FIFO_SIZE \in Nat \ {0} /\ RX_CHUNK \in Nat \ {0} /\ MaxInput \in Nat

VARIABLES
  source,    \* the input descriptor: bytes written and not read
  closed,    \* the host has closed its end
  edge,      \* the descriptor has an event queued for the reactor
  ready,     \* the readiness the reactor has cached
  current,   \* no event came since the task's guard was taken
  at,        \* where run() is
  buf,       \* buf[..filled]
  taken,     \* sent
  fifo,      \* the UART's receive FIFO
  permit,    \* FifoEvents::drained holds a permit
  poisoned,  \* a vcpu thread panicked with the UART locked
  stop,      \* Stop was raised
  listening, \* history: the guest still reads its UART
  written,   \* history: bytes the host wrote
  got        \* history: bytes the guest read

vars == <<source, closed, edge, ready, current, at, buf, taken, fifo, permit, poisoned, stop,
          listening, written, got>>

host == <<source, closed, edge, written>>
reactor == <<edge, ready, current>>
guest == <<fifo, permit, poisoned, listening, got>>

Bytes == 1 .. MaxInput
Ended == {"stopped", "closed", "failed"}
Least(a, b) == IF a < b THEN a ELSE b

Init ==
  /\ source = <<>> /\ closed = FALSE
  /\ edge = FALSE /\ ready = FALSE /\ current = TRUE
  /\ at = "read" /\ buf = <<>> /\ taken = 0
  /\ fifo = <<>> /\ permit = FALSE /\ poisoned = FALSE
  /\ stop = FALSE /\ listening = TRUE /\ written = 0 /\ got = <<>>

--------------------------------------------------------------------------
(* The host at the other end of the pipe or pty.  Every write and the      *)
(* close queue an event with the edge-triggered registration.              *)
HostWrites ==
  /\ ~closed
  /\ \E n \in 1 .. MaxInput - written :
       /\ source' = source \o [k \in 1 .. n |-> written + k]
       /\ written' = written + n
  /\ edge' = TRUE
  /\ UNCHANGED <<closed, ready, current, at, buf, taken, stop, guest>>

HostCloses ==
  /\ ~closed
  /\ closed' = TRUE /\ edge' = TRUE
  /\ UNCHANGED <<source, written, ready, current, at, buf, taken, stop, guest>>

(* A turn of the reactor, taken at any time although a current-thread      *)
(* runtime takes it at an await of its tasks only: an event that is still  *)
(* true becomes readiness, and outdates what a task has seen.              *)
Turn ==
  /\ edge
  /\ edge' = FALSE
  /\ IF source # <<>> \/ closed
     THEN ready' = TRUE /\ current' = FALSE
     ELSE UNCHANGED <<ready, current>>
  /\ UNCHANGED <<source, closed, written, at, buf, taken, stop, guest>>

--------------------------------------------------------------------------
(* AsyncInput::read, in the select! of run(), whose first arm is the stop. *)

(* readable() returns a guard that remembers the reactor's tick.           *)
Readable ==
  /\ at = "read" /\ ~stop /\ ready
  /\ at' = "try" /\ current' = TRUE
  /\ UNCHANGED <<source, closed, edge, written, ready, buf, taken, stop, guest>>

(* read_fd in try_io.  Nothing read from a closed source ends run().       *)
ReadSome ==
  /\ at = "try" /\ source # <<>>
  /\ \E n \in 1 .. Least(Len(source), RX_CHUNK) :
       /\ buf' = SubSeq(source, 1, n)
       /\ source' = SubSeq(source, n + 1, Len(source))
  /\ taken' = 0
  /\ at' = "capacity"
  /\ UNCHANGED <<closed, written, reactor, stop, guest>>

ReadNothing ==
  /\ at = "try" /\ source = <<>> /\ closed
  /\ at' = "closed"
  /\ UNCHANGED <<host, ready, current, buf, taken, stop, guest>>

ReadFails ==
  /\ at = "try"
  /\ at' = "failed"
  /\ UNCHANGED <<host, ready, current, buf, taken, stop, guest>>

WouldBlock ==
  /\ at = "try" /\ source = <<>> /\ ~closed
  /\ at' = "clear"
  /\ UNCHANGED <<host, ready, current, buf, taken, stop, guest>>

(* MUTANT of ClearReady: newer readiness is cleared as well.               *)
ClearAlways ==
  /\ at = "clear"
  /\ ready' = FALSE /\ at' = "read" /\ current' = TRUE
  /\ UNCHANGED <<host, buf, taken, stop, guest>>

(* try_io clears the readiness it saw, and no newer one: read() goes round *)
(* and waits, or tries again at once.                                      *)
ClearReady ==
  /\ at = "clear"
  /\ IF current THEN ready' = FALSE /\ at' = "read" ELSE ready' = ready /\ at' = "try"
  /\ current' = TRUE
  /\ UNCHANGED <<host, buf, taken, stop, guest>>

--------------------------------------------------------------------------
(* run() with bytes in hand.                                               *)
Locked(next) == at' = IF poisoned THEN "failed" ELSE next

Capacity == FIFO_SIZE - Len(fifo)

CheckCapacity ==
  /\ at = "capacity"
  /\ Locked(IF Capacity = 0 THEN "wait" ELSE "enqueue")
  /\ UNCHANGED <<host, ready, current, buf, taken, stop, guest>>

(* drained.notified() takes the permit; the capacity is looked at again.   *)
Notified ==
  /\ at = "wait" /\ ~stop /\ permit
  /\ permit' = FALSE
  /\ at' = "capacity"
  /\ UNCHANGED <<host, ready, current, buf, taken, stop, fifo, poisoned, listening, got>>

(* MUTANT of Enqueue: all of the buffer counts as taken.                   *)
EnqueueWhole ==
  /\ at = "enqueue"
  /\ Locked("read")
  /\ fifo' = IF poisoned THEN fifo
             ELSE fifo \o SubSeq(buf, taken + 1, Least(Len(buf), taken + Capacity))
  /\ taken' = Len(buf)
  /\ UNCHANGED <<host, ready, current, buf, stop, permit, poisoned, listening, got>>

(* The UART takes what it has room for; the rest stays in the buffer.      *)
Enqueue ==
  /\ at = "enqueue"
  /\ LET last == Least(Len(buf), taken + Capacity)
     IN /\ Locked(IF last = Len(buf) THEN "read" ELSE "capacity")
        /\ IF poisoned THEN UNCHANGED <<fifo, taken>>
           ELSE /\ fifo' = fifo \o SubSeq(buf, taken + 1, last)
                /\ taken' = last
  /\ UNCHANGED <<host, ready, current, buf, stop, permit, poisoned, listening, got>>

(* MUTANT of Stopped: only the wait for input listens to the stop.         *)
StoppedReading ==
  /\ at = "read" /\ stop
  /\ at' = "stopped"
  /\ UNCHANGED <<host, ready, current, buf, taken, stop, guest>>

(* The biased arm of both select!s.                                        *)
Stopped ==
  /\ at \in {"read", "wait"} /\ stop
  /\ at' = "stopped"
  /\ UNCHANGED <<host, ready, current, buf, taken, stop, guest>>

RequestStop ==
  /\ ~stop /\ stop' = TRUE
  /\ UNCHANGED <<host, ready, current, at, buf, taken, guest>>

--------------------------------------------------------------------------
(* The guest on its vcpu threads, and vm-superio under the UART's lock: a  *)
(* read of the data register pops a byte and reports an empty FIFO, also   *)
(* when it was empty before.                                               *)
InBufferEmpty(rest) == permit' = (permit \/ rest = <<>>)

GuestReads ==
  /\ listening /\ ~poisoned /\ fifo # <<>>
  /\ got' = Append(got, Head(fifo))
  /\ fifo' = Tail(fifo)
  /\ InBufferEmpty(Tail(fifo))
  /\ UNCHANGED <<host, ready, current, at, buf, taken, stop, poisoned, listening>>

GuestReadsEmpty ==
  /\ listening /\ ~poisoned /\ fifo = <<>>
  /\ InBufferEmpty(<<>>)
  /\ UNCHANGED <<host, ready, current, at, buf, taken, stop, fifo, poisoned, listening, got>>

GuestLeaves ==
  /\ listening /\ listening' = FALSE
  /\ poisoned' \in BOOLEAN
  /\ UNCHANGED <<host, ready, current, at, buf, taken, stop, fifo, permit, got>>

--------------------------------------------------------------------------
Task == \/ Readable \/ ReadSome \/ ReadNothing \/ WouldBlock \/ ClearReady
        \/ CheckCapacity \/ Notified \/ Enqueue \/ Stopped

Next == \/ HostWrites \/ HostCloses \/ Turn \/ Task \/ ReadFails \/ RequestStop
        \/ GuestReads \/ GuestReadsEmpty \/ GuestLeaves

Spec == Init /\ [][Next]_vars

(* The runtime runs its reactor and a task that was woken; a guest that is *)
(* listening reads what its UART announces.                                *)
FairSpec == Spec /\ WF_vars(Turn) /\ WF_vars(Task) /\ WF_vars(GuestReads)

--------------------------------------------------------------------------
TypeOK ==
  /\ source \in Seq(Bytes) /\ written \in 0 .. MaxInput
  /\ {closed, edge, ready, current, permit, poisoned, stop, listening} \subseteq BOOLEAN
  /\ at \in {"read", "try", "clear", "capacity", "wait", "enqueue"} \cup Ended
  /\ buf \in Seq(Bytes) /\ Len(buf) <= RX_CHUNK /\ taken \in 0 .. Len(buf)
  /\ at \in {"capacity", "wait", "enqueue"} => taken < Len(buf)
  /\ fifo \in Seq(Bytes) /\ Len(fifo) <= FIFO_SIZE
  /\ got \in Seq(Bytes)

(* Every byte of the host is in one place and in its order: with the       *)
(* guest, in the FIFO, in the task's buffer behind `taken', or unread;     *)
(* none is lost over a short enqueue, none enqueued twice, and a task that *)
(* ended because the host closed has handed all of them over.              *)
BytesInOrder ==
  /\ got \o fifo \o SubSeq(buf, taken + 1, Len(buf)) \o source = [k \in 1 .. written |-> k]
  /\ at = "closed" => Len(got) + Len(fifo) = written

(* The task never sleeps on what has already happened: one that waits for  *)
(* a drained FIFO finds the FIFO full enough still to be drained, or the   *)
(* permit; one that waits for input finds none to read, or the event that  *)
(* will tell it queued.                                                    *)
NoLostWakeup ==
  /\ at = "wait" /\ fifo = <<>> => permit
  /\ source # <<>> \/ closed =>
       /\ at = "read" => ready \/ edge
       /\ at = "clear" => (ready /\ ~current) \/ edge

(* What the host wrote reaches a guest that goes on reading, whatever      *)
(* permits earlier drains have left behind, unless the device ends first;  *)
(* and a stop ends the task, also while the FIFO is full.                  *)
Arrives ==
  /\ \A k \in Bytes : written >= k ~> (Len(got) >= k \/ ~listening \/ stop \/ at = "failed")
  /\ stop ~> at \in Ended
=============================================================================
