----------------------------- MODULE VmmMain_proofs -----------------------------
(***************************************************************************)
(* What holds of VmmMain for any number of clients, devices and calls and  *)
(* for any handler: type correctness, DeviceManager's count, and that a    *)
(* shutdown is answered, and the thread joined, with every device stopped. *)
(* Then what it comes to in the process of src/main.rs.                    *)
(***************************************************************************)
EXTENDS VmmProcess, FiniteSetTheorems, TLAPS

Owing == {d \in Devices : task[d] \in {"running", "panicked"}}

(* RunningCounts, with its operators spelled out.                          *)
CountInv ==
  Alive =>
    /\ \A i, j \in 1 .. Len(exits) : exits[i] = exits[j] => i = j
    /\ \A i \in 1 .. Len(exits) : task[exits[i]] = "exited"
    /\ running = Len(exits) + Cardinality(Owing)

(* Past quiesce() no task runs, and none is ever dropped by the runtime    *)
(* but in a panic.                                                         *)
StoppedInv ==
  /\ Alive => \A d \in Devices : task[d] # "dropped"
  /\ phase \in {"returning", "ended"} => \A d \in Devices : task[d] \in {"none", "exited"}
  /\ \A c \in Clients : joined[c] = "ok" => phase = "ended"

IInv == TypeOK /\ CountInv /\ StoppedInv

--------------------------------------------------------------------------------
LEMMA SeqWiden ==
  ASSUME NEW S, NEW T, S \subseteq T, NEW s \in Seq(S)
  PROVE  s \in Seq(T)
OBVIOUS

LEMMA OwingFinite == IsFiniteSet(Owing) /\ Cardinality(Owing) \in Nat
<1>1. IsFiniteSet(Owing)
  BY VmmAssumption, FS_Subset DEF VmmAssumption, Owing
<1> QED
  BY <1>1, FS_CardinalityType

LEMMA TakeExitType ==
  ASSUME DataOK, CountInv, Alive, TakeExit
  PROVE  exits' \in Seq(Devices) /\ running' \in Nat /\ running' = running - 1
         /\ Len(exits) > 0 /\ running > 0
<1>1. exits \in Seq(Devices) /\ exits # <<>> /\ Len(exits) > 0
  BY DEF DataOK, TakeExit
<1>2. running > 0
  BY <1>1, OwingFinite DEF CountInv
<1> QED
  BY <1>1, <1>2 DEF DataOK, TakeExit

LEMMA ResolveType ==
  ASSUME DataOK, NEW n \in Nat, NEW how \in {"answered", "failed"}, Resolve(n, how)
  PROVE  calls' \in Seq({"waiting", "answered", "failed", "abandoned"}) /\ Len(calls') = Len(calls)
<1> DEFINE new == [k \in 1 .. Len(calls) |-> IF k = n /\ calls[k] = "waiting" THEN how ELSE calls[k]]
<1>1. calls \in [1 .. Len(calls) -> {"waiting", "answered", "failed", "abandoned"}] /\ Len(calls) \in Nat
  BY DEF DataOK
<1>2. calls' = new
  BY <1>1 DEF Resolve
<1> QED
  BY <1>1, <1>2

LEMMA OrphanType ==
  ASSUME DataOK, NEW gone, Orphan(gone)
  PROVE  calls' \in Seq({"waiting", "answered", "failed", "abandoned"}) /\ Len(calls') = Len(calls)
BY DEF DataOK, Orphan

LEMMA EndsType ==
  ASSUME DataOK, NEW how \in {"ended", "panicked"}, NEW gone, Orphan(gone), ThreadEnds(how),
         UNCHANGED <<calling, holders, joined>>
  PROVE  DataOK'
<1>1. /\ Len(calls') = Len(calls) /\ Len(calls) \in Nat
      /\ calls' \in Seq({"waiting", "answered", "failed", "abandoned"})
  BY OrphanType DEF DataOK
<1>2. /\ phase' \in {"ended", "panicked"} /\ requests' = <<>> /\ current' = 0 /\ reply' = 0
      /\ exits' = <<>> /\ running' = running
  BY DEF ThreadEnds
<1>3. requests' \in Seq(1 .. Len(calls')) /\ exits' \in Seq(Devices)
  BY <1>2
<1>4. current' \in 0 .. Len(calls') /\ reply' \in 0 .. Len(calls')
  BY <1>1, <1>2
<1>5. task' \in [Devices -> {"none", "running", "exited", "panicked", "dropped"}]
  BY DEF DataOK, ThreadEnds
<1>6. /\ calling' \in [Clients -> 0 .. Len(calls')] /\ holders' \in SUBSET Clients
      /\ joined' \in [Clients -> {"no", "joining", "ok", "err", "refused"}] /\ running' \in Nat
  BY <1>1, <1>2 DEF DataOK
<1> QED
  BY <1>1, <1>2, <1>3, <1>4, <1>5, <1>6 DEF DataOK

LEMMA DataStep == DataOK /\ CountInv /\ [Next]_vars => DataOK'
<1> SUFFICES ASSUME DataOK, CountInv, [Next]_vars PROVE DataOK'
  OBVIOUS
<1> USE VmmAssumption DEF VmmAssumption, DataOK, loopVars, deviceVars, clientVars
<1>1. CASE NextRequest
  BY <1>1 DEF NextRequest
<1>2. CASE ClientsGone
  BY <1>2 DEF ClientsGone
<1>3. CASE DeviceExit
  BY <1>3, TakeExitType DEF DeviceExit, Alive
<1>4. CASE HandlerContinues
  BY <1>4, ResolveType DEF HandlerContinues
<1>5. CASE HandlerStops
  BY <1>5, ResolveType DEF HandlerStops
<1>6. CASE HandlerPanics
  BY <1>6, EndsType DEF HandlerPanics
<1>7. CASE BeginQuiesce
  BY <1>7 DEF BeginQuiesce
<1>8. CASE QuiesceExit
  BY <1>8, TakeExitType DEF QuiesceExit, Alive
<1>9. CASE Answer
  BY <1>9, ResolveType DEF Answer
<1>10. CASE Return
  BY <1>10, EndsType DEF Return
<1>11. ASSUME NEW d \in Devices, Spawn(d) PROVE DataOK'
  BY <1>11 DEF Spawn
<1>12. ASSUME NEW d \in Devices, Exit(d) PROVE DataOK'
  BY <1>12 DEF Exit
<1>13. ASSUME NEW d \in Devices, TaskPanic(d) PROVE DataOK'
  BY <1>13 DEF TaskPanic
<1>14. ASSUME NEW c \in Clients, Call(c) PROVE DataOK'
  <2>1. calls' \in Seq({"waiting", "answered", "failed", "abandoned"}) /\ Len(calls') = Len(calls) + 1
    <3>1. calls' = Append(calls, "waiting") \/ calls' = Append(calls, "failed")
      BY <1>14 DEF Call
    <3>2. calls \in Seq({"waiting", "answered", "failed", "abandoned"})
      OBVIOUS
    <3> HIDE DEF DataOK
    <3> QED
      BY <3>1, <3>2
  <2>2. requests \in Seq(1 .. Len(calls')) /\ 1 .. Len(calls) \subseteq 1 .. Len(calls')
    BY <2>1, SeqWiden
  <2>3. requests' \in Seq(1 .. Len(calls'))
    <3>1. CASE Alive
      <4>1. requests' = Append(requests, Len(calls) + 1) /\ Len(calls) + 1 \in 1 .. Len(calls')
        BY <1>14, <2>1, <3>1 DEF Call
      <4> QED
        BY <2>2, <4>1
    <3>2. CASE ~Alive
      BY <1>14, <2>2, <3>2 DEF Call
    <3> QED
      BY <3>1, <3>2
  <2>4. calling' \in [Clients -> 0 .. Len(calls')]
    <3>1. \A x \in Clients : calling'[x] = calling[x] \/ calling'[x] = Len(calls) + 1
      BY <1>14 DEF Call
    <3>2. DOMAIN calling' = Clients /\ calling' = [x \in Clients |-> calling'[x]]
      BY <1>14 DEF Call
    <3>3. Len(calls) \in Nat /\ \A x \in Clients : calling[x] \in 0 .. Len(calls)
      OBVIOUS
    <3>4. \A x \in Clients : calling'[x] \in 0 .. Len(calls')
      BY <2>1, <3>1, <3>3
    <3> QED
      BY <3>2, <3>4
  <2>5. UNCHANGED <<phase, current, reply, deviceVars, holders, joined>>
    BY <1>14 DEF Call
  <2> QED
    BY <2>1, <2>3, <2>4, <2>5
<1>15. ASSUME NEW c \in Clients, CallReturns(c) PROVE DataOK'
  BY <1>15 DEF CallReturns
<1>16. ASSUME NEW c \in Clients, GiveUp(c) PROVE DataOK'
  BY <1>16 DEF GiveUp
<1>17. ASSUME NEW c \in Clients, DropClient(c) PROVE DataOK'
  BY <1>17 DEF DropClient
<1>18. ASSUME NEW c \in Clients, Join(c) PROVE DataOK'
  BY <1>18 DEF Join
<1>19. ASSUME NEW c \in Clients, JoinReturns(c) PROVE DataOK'
  BY <1>19 DEF JoinReturns
<1>20. CASE UNCHANGED vars
  BY <1>20 DEF vars
<1> QED
  BY <1>1, <1>2, <1>3, <1>4, <1>5, <1>6, <1>7, <1>8, <1>9, <1>10, <1>11, <1>12, <1>13,
     <1>14, <1>15, <1>16, <1>17, <1>18, <1>19, <1>20 DEF Next, Loop

LEMMA StopStep == TypeOK /\ [Next]_vars => stop' \in BOOLEAN
<1> SUFFICES ASSUME stop \in BOOLEAN, [Next]_vars PROVE stop' \in BOOLEAN
  BY DEF TypeOK
<1>1. stop' = stop \/ stop' = TRUE
  BY DEF Next, Loop, NextRequest, ClientsGone, DeviceExit, HandlerContinues, HandlerStops,
    HandlerPanics, BeginQuiesce, QuiesceExit, Answer, Return, Spawn, Exit, TaskPanic, Call,
    CallReturns, GiveUp, DropClient, Join, JoinReturns, ThreadEnds, TakeExit,
    vars, loopVars, deviceVars, clientVars
<1> QED
  BY <1>1, Zenon

--------------------------------------------------------------------------------
(* DeviceManager's books: an exit moves from the tasks to the queue, and   *)
(* from the queue out of the count.                                        *)
LEMMA TakeExitCounts ==
  ASSUME TypeOK, CountInv, Alive, TakeExit, UNCHANGED task
  PROVE  CountInv'
<1>1. /\ Len(exits') = Len(exits) - 1 /\ Len(exits) \in Nat /\ Len(exits) > 0
      /\ \A i \in 1 .. Len(exits') : exits'[i] = exits[i + 1]
  BY DEF TakeExit, TypeOK, DataOK
<1>2. Owing' = Owing /\ running' = running - 1
  BY DEF Owing, TakeExit
<1>3. \A i, j \in 1 .. Len(exits') : exits'[i] = exits'[j] => i = j
  BY <1>1 DEF CountInv
<1>4. \A i \in 1 .. Len(exits') : task'[exits'[i]] = "exited"
  BY <1>1 DEF CountInv
<1>5. running' = Len(exits') + Cardinality(Owing')
  BY <1>1, <1>2, OwingFinite DEF CountInv, TypeOK, DataOK
<1> QED
  BY <1>3, <1>4, <1>5 DEF CountInv

LEMMA CountStep == IInv /\ [Next]_vars => CountInv'
<1> SUFFICES ASSUME IInv, [Next]_vars, Alive' PROVE CountInv'
  BY DEF CountInv
<1> USE DEF IInv, loopVars, deviceVars, clientVars
<1>1. ASSUME Alive, UNCHANGED <<task, exits, running>> PROVE CountInv'
  BY <1>1 DEF CountInv, Owing
<1>2. CASE NextRequest \/ ClientsGone \/ HandlerContinues \/ HandlerStops \/ BeginQuiesce \/ Answer
  BY <1>1, <1>2 DEF NextRequest, ClientsGone, HandlerContinues, HandlerStops, BeginQuiesce, Answer, Quiesced, Alive
<1>3. CASE DeviceExit
  BY <1>3, TakeExitCounts DEF DeviceExit, Alive
<1>4. CASE QuiesceExit
  BY <1>4, TakeExitCounts DEF QuiesceExit, Alive
<1>5. CASE HandlerPanics \/ Return
  BY <1>5 DEF HandlerPanics, Return, ThreadEnds, Alive
<1>6. ASSUME NEW d \in Devices, Spawn(d) PROVE CountInv'
  <2>1. d \notin Owing /\ Owing' = Owing \cup {d}
    BY <1>6 DEF Spawn, Owing, TypeOK, DataOK
  <2>2. Cardinality(Owing') = Cardinality(Owing) + 1
    BY <2>1, OwingFinite, FS_AddElement
  <2>3. Alive /\ running' = running + 1 /\ exits' = exits /\ \A e \in Devices \ {d} : task'[e] = task[e]
    BY <1>6 DEF Spawn, Alive, TypeOK, DataOK
  <2>4. \A i \in 1 .. Len(exits) : exits[i] \in Devices \ {d}
    BY <1>6, <2>3 DEF Spawn, CountInv, TypeOK, DataOK
  <2>5. \A i \in 1 .. Len(exits') : task'[exits'[i]] = "exited"
    BY <2>3, <2>4 DEF CountInv
  <2>6. running' = Len(exits') + Cardinality(Owing')
    BY <2>2, <2>3, OwingFinite DEF CountInv, TypeOK, DataOK
  <2> QED
    BY <2>3, <2>5, <2>6 DEF CountInv
<1>7. ASSUME NEW d \in Devices, Exit(d) PROVE CountInv'
  <2>1. d \in Owing /\ Owing' = Owing \ {d}
    BY <1>7 DEF Exit, Owing, TypeOK, DataOK
  <2>2. Cardinality(Owing') = Cardinality(Owing) - 1
    BY <2>1, OwingFinite, FS_RemoveElement
  <2>3. /\ Alive /\ running' = running /\ task'[d] = "exited"
        /\ \A e \in Devices \ {d} : task'[e] = task[e]
    BY <1>7 DEF Exit, Alive, Awaiting, TypeOK, DataOK
  <2>4. \A i \in 1 .. Len(exits) : exits[i] \in Devices \ {d}
    BY <1>7, <2>3 DEF Exit, CountInv, TypeOK, DataOK
  <2>5. /\ Len(exits') = Len(exits) + 1 /\ Len(exits) \in Nat /\ exits'[Len(exits) + 1] = d
        /\ \A i \in 1 .. Len(exits) : exits'[i] = exits[i]
    BY <1>7 DEF Exit, TypeOK, DataOK
  <2>6. \A i, j \in 1 .. Len(exits') : exits'[i] = exits'[j] => i = j
    BY <2>3, <2>4, <2>5 DEF CountInv
  <2>7. \A i \in 1 .. Len(exits') : task'[exits'[i]] = "exited"
    BY <2>3, <2>4, <2>5 DEF CountInv
  <2> QED
    BY <2>2, <2>3, <2>5, <2>6, <2>7, OwingFinite DEF CountInv, TypeOK, DataOK
<1>8. ASSUME NEW d \in Devices, TaskPanic(d) PROVE CountInv'
  <2>1. Owing' = Owing
    BY <1>8 DEF TaskPanic, Owing, TypeOK, DataOK
  <2>2. Alive /\ UNCHANGED <<running, exits>> /\ \A e \in Devices : task[e] = "exited" => task'[e] = "exited"
    BY <1>8 DEF TaskPanic, Alive, Awaiting, TypeOK, DataOK
  <2> QED
    BY <2>1, <2>2 DEF CountInv, TypeOK, DataOK
<1>9. ASSUME NEW c \in Clients,
             Call(c) \/ CallReturns(c) \/ GiveUp(c) \/ DropClient(c) \/ Join(c) \/ JoinReturns(c)
      PROVE  CountInv'
  BY <1>1, <1>9 DEF Call, CallReturns, GiveUp, DropClient, Join, JoinReturns, Alive
<1>10. CASE UNCHANGED vars
  BY <1>1, <1>10 DEF vars, Alive
<1> QED
  BY <1>2, <1>3, <1>4, <1>5, <1>6, <1>7, <1>8, <1>9, <1>10 DEF Next, Loop

--------------------------------------------------------------------------------
(* quiesce() is over only when nothing is owed.                            *)
LEMMA QuiescedStopped ==
  ASSUME TypeOK, CountInv, StoppedInv, Quiesced
  PROVE  \A d \in Devices : task[d] \in {"none", "exited"}
<1>1. Alive /\ Cardinality(Owing) = 0
  BY OwingFinite DEF Quiesced, Alive, CountInv, TypeOK, DataOK
<1>2. Owing = {}
  BY <1>1, OwingFinite, FS_EmptySet
<1> QED
  BY <1>1, <1>2 DEF Owing, StoppedInv, TypeOK, DataOK

LEMMA StoppedStep == IInv /\ [Next]_vars => StoppedInv'
<1> SUFFICES ASSUME IInv, [Next]_vars PROVE StoppedInv'
  OBVIOUS
<1> USE DEF IInv, StoppedInv, loopVars, deviceVars, clientVars
<1>1. CASE NextRequest \/ ClientsGone \/ DeviceExit \/ HandlerContinues \/ HandlerStops
           \/ BeginQuiesce \/ QuiesceExit
  BY <1>1 DEF NextRequest, ClientsGone, DeviceExit, HandlerContinues, HandlerStops, BeginQuiesce, QuiesceExit, Alive
<1>2. CASE HandlerPanics
  BY <1>2 DEF HandlerPanics, ThreadEnds, Alive
<1>3. CASE Answer
  BY <1>3, QuiescedStopped DEF Answer, Quiesced, Alive
<1>4. CASE Return
  BY <1>4 DEF Return, ThreadEnds, Alive, TypeOK, DataOK
<1>5. ASSUME NEW d \in Devices, Spawn(d) \/ Exit(d) \/ TaskPanic(d) PROVE StoppedInv'
  BY <1>5 DEF Spawn, Exit, TaskPanic, Alive, Awaiting, TypeOK, DataOK
<1>6. ASSUME NEW c \in Clients, Call(c) \/ CallReturns(c) \/ GiveUp(c) \/ DropClient(c)
      PROVE  StoppedInv'
  BY <1>6 DEF Call, CallReturns, GiveUp, DropClient, Alive
<1>7. ASSUME NEW c \in Clients, Join(c) \/ JoinReturns(c) PROVE StoppedInv'
  BY <1>7 DEF Join, JoinReturns, Alive, TypeOK, DataOK
<1>8. CASE UNCHANGED vars
  BY <1>8 DEF vars, Alive
<1> QED
  BY <1>1, <1>2, <1>3, <1>4, <1>5, <1>6, <1>7, <1>8 DEF Next, Loop

(* The inductive invariant: the count needs the types, and what a finished *)
(* quiesce() means needs the count.                                        *)
THEOREM Invariance == Spec => []IInv
<1>1. Init => IInv
  <2> SUFFICES ASSUME Init PROVE IInv
    OBVIOUS
  <2>1. DataOK
    BY DEF Init, DataOK
  <2>2. stop \in BOOLEAN
    BY Zenon DEF Init
  <2>3. Owing = {}
    BY DEF Init, Owing
  <2>4. CountInv /\ StoppedInv
    BY <2>3, FS_EmptySet DEF Init, CountInv, StoppedInv
  <2> QED
    BY <2>1, <2>2, <2>4 DEF IInv, TypeOK
<1>2. IInv /\ [Next]_vars => IInv'
  BY DataStep, StopStep, CountStep, StoppedStep DEF IInv, TypeOK
<1> QED
  BY <1>1, <1>2, PTL DEF Spec

(* Channels, tasks, calls and counters keep their types.                   *)
THEOREM TypeCorrect == Spec => []TypeOK
BY Invariance, PTL DEF IInv

(* As long as the thread lives, `running` counts the tasks that have not   *)
(* reported, whatever handlers spawn and however tasks end.                *)
THEOREM RunningCorrect == Spec => []RunningCounts
<1>1. IInv => RunningCounts
  <2> SUFFICES ASSUME IInv, Alive
               PROVE  /\ IsInjective(exits)
                      /\ \A d \in ToSet(exits) : task[d] = "exited"
                      /\ running = Len(exits) + Cardinality(Owing)
    BY DEF RunningCounts, Owing
  <2>1. DOMAIN exits = 1 .. Len(exits)
    BY DEF IInv, TypeOK, DataOK
  <2>2. IsInjective(exits)
    BY <2>1 DEF IInv, CountInv, IsInjective
  <2>3. \A d \in ToSet(exits) : task[d] = "exited"
    BY <2>1 DEF IInv, CountInv, ToSet
  <2> QED
    BY <2>2, <2>3 DEF IInv, CountInv
<1> QED
  BY <1>1, Invariance, PTL

(* A shutdown that was answered, or a join that returned Ok, finds every   *)
(* device task stopped, each at a point of its own.                        *)
THEOREM ShutdownSafety == Spec => []ShutdownMeansStopped
<1>1. IInv => ShutdownMeansStopped
  BY DEF IInv, StoppedInv, ShutdownMeansStopped
<1> QED
  BY <1>1, Invariance, PTL

(* The one answer that does not go on to select! is Answer's, and it comes *)
(* after quiesce(): a shutdown is answered with every device stopped.      *)
THEOREM AnsweredLast == Spec => StopAnsweredLast
<1>1. IInv /\ [Next]_vars
        => [\A n \in DOMAIN calls :
              calls[n] = "waiting" /\ calls'[n] = "answered" /\ phase' # "select"
                => \A d \in Devices : task[d] # "running"]_vars
  <2> SUFFICES ASSUME IInv, Next, NEW n \in DOMAIN calls, calls[n] = "waiting",
                      calls'[n] = "answered", phase' # "select"
               PROVE  \A d \in Devices : task[d] # "running"
    OBVIOUS
  <2> USE DEF IInv, loopVars, deviceVars, clientVars
  <2>1. CASE NextRequest \/ ClientsGone \/ DeviceExit \/ HandlerContinues \/ BeginQuiesce \/ QuiesceExit
    BY <2>1 DEF NextRequest, ClientsGone, DeviceExit, HandlerContinues, BeginQuiesce, QuiesceExit
  <2>2. CASE HandlerStops
    BY <2>2 DEF HandlerStops, Resolve
  <2>3. CASE HandlerPanics \/ Return
    BY <2>3 DEF HandlerPanics, Return, Orphan
  <2>4. CASE Answer
    BY <2>4, QuiescedStopped DEF Answer
  <2>5. ASSUME NEW d \in Devices, Spawn(d) \/ Exit(d) \/ TaskPanic(d) PROVE FALSE
    BY <2>5 DEF Spawn, Exit, TaskPanic
  <2>6. ASSUME NEW c \in Clients, Call(c) PROVE FALSE
    <3>1. calls' = Append(calls, "waiting") \/ calls' = Append(calls, "failed")
      BY <2>6 DEF Call
    <3>2. calls \in Seq({"waiting", "answered", "failed", "abandoned"})
      BY DEF TypeOK, DataOK
    <3>3. calls'[n] = calls[n]
      BY <3>1, <3>2
    <3> QED
      BY <3>3
  <2>7. ASSUME NEW c \in Clients, GiveUp(c) PROVE FALSE
    BY <2>7 DEF GiveUp
  <2>8. ASSUME NEW c \in Clients, CallReturns(c) \/ DropClient(c) \/ Join(c) \/ JoinReturns(c) PROVE FALSE
    BY <2>8 DEF CallReturns, DropClient, Join, JoinReturns
  <2> QED
    BY <2>1, <2>2, <2>3, <2>4, <2>5, <2>6, <2>7, <2>8 DEF Next, Loop
<1> QED
  BY <1>1, Invariance, PTL DEF Spec, StopAnsweredLast

--------------------------------------------------------------------------------
(* The process: main() and the signal task are two of VmmMain's clients.   *)
ProcessClients == MainClient \in Clients /\ SignalClient \in Clients

(* Nothing is requested, nothing spawned, and main() holds its client as   *)
(* long as it waits to join.                                               *)
HeldInv ==
  /\ phase = "select" /\ requests = <<>> /\ exits = <<>>
  /\ MainClient \in holders

LEMMA HeldStep ==
  ASSUME HeldInv, MainClient # SignalClient, [ProcessNext]_processVars
  PROVE  HeldInv'
<1> USE DEF HeldInv, vars, loopVars, deviceVars, clientVars
<1>1. CASE Signal
  BY <1>1 DEF Signal
<1>2. CASE SignalTask
  BY <1>2 DEF SignalTask, DropClient
<1>3. CASE MainJoins
  BY <1>3 DEF MainJoins, Join
<1>4. ~VmmRuns
  <2>1. ~NextRequest /\ ~ClientsGone /\ ~DeviceExit
    BY DEF NextRequest, ClientsGone, DeviceExit, TakeExit
  <2>2. ~HandlerContinues /\ ~HandlerStops /\ ~HandlerPanics
    BY DEF HandlerContinues, HandlerStops, HandlerPanics
  <2>3. ~BeginQuiesce /\ ~QuiesceExit /\ ~Answer /\ ~Return
    BY DEF BeginQuiesce, QuiesceExit, Answer, Quiesced, Return
  <2>4. ~JoinReturns(MainClient)
    BY DEF JoinReturns, Alive
  <2> QED
    BY <2>1, <2>2, <2>3, <2>4 DEF VmmRuns, Loop
<1>5. CASE UNCHANGED processVars
  BY <1>5 DEF processVars
<1> QED
  BY <1>1, <1>2, <1>3, <1>4, <1>5 DEF ProcessNext

(* In no behaviour of the process does the vmm ever stop, signal or not:   *)
(* the client main() holds while it waits to join (src/main.rs:43) keeps   *)
(* the loop at its select!.  What the run of SignalStopsVmm shows of one   *)
(* behaviour holds of all.                                                 *)
THEOREM NothingStopsVmm ==
  ASSUME ProcessClients, MainClient # SignalClient
  PROVE  ProcessSpec => []Alive
<1>1. ProcessInit => HeldInv
  BY DEF ProcessInit, Init, HeldInv, ProcessClients
<1>2. HeldInv /\ [ProcessNext]_processVars => HeldInv'
  BY HeldStep
<1>3. HeldInv => Alive
  BY DEF HeldInv, Alive
<1> QED
  BY <1>1, <1>2, <1>3, PTL DEF ProcessSpec
================================================================================
