-------------------------------- MODULE VmmMain --------------------------------
(***************************************************************************)
(* The vmm-main thread (crates/vmm/src/lib.rs), the device tasks it owns   *)
(* through DeviceManager (devices/mod.rs), and the VmmClients that call it *)
(* from other threads (vmm_server.rs).                                     *)
(*                                                                         *)
(* The thread runs one task at a time: a device task moves only while the  *)
(* main task awaits, in its select!, in a handler or in quiesce().         *)
(* Clients interleave with everything.                                     *)
(*                                                                         *)
(* handle_request() is todo!() today, so it panics.  The loop around it is *)
(* written for any handler of that signature: one that awaits, spawns      *)
(* devices and returns a Step.  HandlerSteps says which it may return.     *)
(***************************************************************************)
EXTENDS Integers, Sequences, FiniteSets, SequencesExt

CONSTANTS
  Clients,       \* the holders of a VmmClient clone
  Devices,       \* the devices a handler may spawn
  MaxCalls,      \* bound: calls made in a behaviour
  HandlerSteps,  \* subset of {"continue", "stop", "stop_silent", "panic"}
  DevicePanics   \* a device task may panic

ASSUME VmmAssumption ==
  /\ IsFiniteSet(Devices)
  /\ MaxCalls \in Nat
  /\ HandlerSteps \subseteq {"continue", "stop", "stop_silent", "panic"}
  /\ DevicePanics \in BOOLEAN

VARIABLES
  phase,     \* where vmm_main stands
  requests,  \* the request channel: call numbers
  current,   \* the call handle_request has, 0 for none
  reply,     \* Step::Stop's reply: the call to answer at the end, 0 for none
  task,      \* the device tasks
  exits,     \* the exit channel
  running,   \* DeviceManager::running
  stop,      \* the Stop watch
  calls,     \* the calls made so far: what became of each
  calling,   \* the call a client is inside of, 0 for none
  holders,   \* clients whose handle is not dropped
  joined     \* what came of a client's join, "no" before it asks

loopVars   == <<phase, requests, current, reply>>
deviceVars == <<task, exits, running, stop>>
clientVars == <<calls, calling, holders, joined>>
vars == <<loopVars, deviceVars, clientVars>>

Alive    == phase \notin {"ended", "panicked"}
Awaiting == phase \in {"select", "handling", "quiesce"}
Waiting(n) == \E c \in Clients : calling[c] = n

Init ==
  /\ phase = "select" /\ requests = <<>> /\ current = 0 /\ reply = 0
  /\ task = [d \in Devices |-> "none"] /\ exits = <<>> /\ running = 0 /\ stop = FALSE
  /\ calls = <<>> /\ calling = [c \in Clients |-> 0]
  /\ holders = Clients /\ joined = [c \in Clients |-> "no"]

--------------------------------------------------------------------------------
(* The device tasks.                                                       *)

(* The device's future returns, on its own or because of the stop signal,  *)
(* and the task sends its exit.                                            *)
Exit(d) ==
  /\ Awaiting /\ task[d] = "running"
  /\ task' = [task EXCEPT ![d] = "exited"]
  /\ exits' = Append(exits, d)
  /\ UNCHANGED <<running, stop, loopVars, clientVars>>

(* A panic unwinds the task before it could send anything.                 *)
TaskPanic(d) ==
  /\ DevicePanics /\ Awaiting /\ task[d] = "running"
  /\ task' = [task EXCEPT ![d] = "panicked"]
  /\ UNCHANGED <<exits, running, stop, loopVars, clientVars>>

(* MUTANT of TakeExit: the counter is left alone.                          *)
TakeExitUncounted == exits # <<>> /\ exits' = Tail(exits) /\ UNCHANGED running

(* next_exit().                                                            *)
TakeExit ==
  /\ exits # <<>>
  /\ exits' = Tail(exits)
  /\ running' = running - 1

--------------------------------------------------------------------------------
(* The main loop.                                                          *)

(* The biased select!: a request first, then the clients' end, a device    *)
(* exit only when there is neither.                                        *)
NextRequest ==
  /\ phase = "select" /\ requests # <<>>
  /\ current' = Head(requests) /\ requests' = Tail(requests)
  /\ phase' = "handling"
  /\ UNCHANGED <<reply, deviceVars, clientVars>>

ClientsGone ==
  /\ phase = "select" /\ requests = <<>> /\ holders = {}
  /\ phase' = "winding_down"
  /\ UNCHANGED <<requests, current, reply, deviceVars, clientVars>>

DeviceExit ==
  /\ phase = "select" /\ requests = <<>> /\ holders # {}
  /\ TakeExit
  /\ UNCHANGED <<task, stop, loopVars, clientVars>>

(* MUTANT of Spawn: the counter is left alone.                             *)
SpawnUncounted(d) ==
  /\ phase = "handling" /\ task[d] = "none" /\ HandlerSteps # {"panic"}
  /\ task' = [task EXCEPT ![d] = "running"]
  /\ UNCHANGED <<running, exits, stop, loopVars, clientVars>>

(* DeviceManager::spawn, from a handler.                                   *)
Spawn(d) ==
  /\ phase = "handling" /\ task[d] = "none" /\ HandlerSteps # {"panic"}
  /\ task' = [task EXCEPT ![d] = "running"]
  /\ running' = running + 1
  /\ UNCHANGED <<exits, stop, loopVars, clientVars>>

(* The reply of call n is sent or dropped: its caller, if still there,     *)
(* learns; a late answer goes nowhere.                                     *)
Resolve(n, how) ==
  calls' = [calls EXCEPT ![n] = IF @ = "waiting" THEN how ELSE @]

(* The thread is gone: the channel's requests are dropped with it, the     *)
(* reply in hand too, and the runtime drops the tasks it still has.        *)
ThreadEnds(how) ==
  /\ phase' = how /\ requests' = <<>> /\ current' = 0 /\ reply' = 0
  /\ task' = [d \in Devices |-> IF task[d] = "running" THEN "dropped" ELSE task[d]]
  /\ exits' = <<>>
  /\ UNCHANGED <<running, stop>>

(* The handler is done with a request: it answered it or dropped its       *)
(* reply, and the loop goes on ...                                         *)
HandlerContinues ==
  /\ phase = "handling" /\ "continue" \in HandlerSteps
  /\ \E how \in {"answered", "failed"} : Resolve(current, how)
  /\ phase' = "select" /\ current' = 0
  /\ UNCHANGED <<requests, reply, deviceVars, calling, holders, joined>>

(* MUTANT of HandlerStops: a shutdown is answered at once.                 *)
HandlerAnswersStop ==
  /\ phase = "handling" /\ "stop" \in HandlerSteps
  /\ Resolve(current, "answered")
  /\ phase' = "winding_down" /\ current' = 0
  /\ UNCHANGED <<requests, reply, deviceVars, calling, holders, joined>>

(* ... or it returns Step::Stop, with the reply to answer at the end or    *)
(* without one ...                                                         *)
HandlerStops ==
  /\ phase = "handling"
  /\ \/ "stop" \in HandlerSteps /\ reply' = current /\ UNCHANGED calls
     \/ "stop_silent" \in HandlerSteps /\ reply' = 0 /\ Resolve(current, "failed")
  /\ phase' = "winding_down" /\ current' = 0
  /\ UNCHANGED <<requests, deviceVars, calling, holders, joined>>

(* MUTANT of Orphan: a dropped request leaves its caller waiting.          *)
OrphanNobody(gone) == UNCHANGED calls

(* Requests dropped unanswered: their callers' receive fails.              *)
Orphan(gone) ==
  calls' = [n \in DOMAIN calls |-> IF n \in gone /\ calls[n] = "waiting"
                                   THEN "failed" ELSE calls[n]]

(* ... or it panics, which ends the thread there and then.                 *)
HandlerPanics ==
  /\ phase = "handling" /\ "panic" \in HandlerSteps
  /\ Orphan({current} \cup ToSet(requests))
  /\ ThreadEnds("panicked")
  /\ UNCHANGED <<calling, holders, joined>>

(* MUTANT of BeginQuiesce: nobody is asked to stop.                        *)
BeginQuiesceSilently ==
  /\ phase = "winding_down"
  /\ phase' = "quiesce"
  /\ UNCHANGED <<requests, current, reply, deviceVars, clientVars>>

(* quiesce(): raise the watch ...                                          *)
BeginQuiesce ==
  /\ phase = "winding_down"
  /\ phase' = "quiesce" /\ stop' = TRUE
  /\ UNCHANGED <<requests, current, reply, task, exits, running, clientVars>>

(* ... and take exits while a device has not reported.                     *)
QuiesceExit ==
  /\ phase = "quiesce" /\ running > 0
  /\ TakeExit
  /\ UNCHANGED <<task, stop, loopVars, clientVars>>

(* MUTANT of Quiesced: it waits for the exits that are there, no more.     *)
QuiescedEarly == phase = "quiesce" /\ exits = <<>>

Quiesced == phase = "quiesce" /\ running = 0

(* Then answer the shutdown and return; what was queued meanwhile drops    *)
(* with the server.                                                        *)
Answer ==
  /\ Quiesced /\ phase' = "returning"
  /\ IF reply = 0 THEN UNCHANGED calls ELSE Resolve(reply, "answered")
  /\ UNCHANGED <<requests, current, reply, deviceVars, calling, holders, joined>>

Return ==
  /\ phase = "returning"
  /\ Orphan(ToSet(requests))
  /\ ThreadEnds("ended")
  /\ UNCHANGED <<calling, holders, joined>>

--------------------------------------------------------------------------------
(* The clients.                                                            *)

Idle(c) == c \in holders /\ calling[c] = 0 /\ joined[c] # "joining"

(* call, call_timeout, call_async: queue the request, or fail because the  *)
(* vmm is gone.                                                            *)
Call(c) ==
  /\ Idle(c) /\ Len(calls) < MaxCalls
  /\ IF Alive
     THEN /\ calls' = Append(calls, "waiting")
          /\ requests' = Append(requests, Len(calls) + 1)
          /\ calling' = [calling EXCEPT ![c] = Len(calls) + 1]
     ELSE calls' = Append(calls, "failed") /\ UNCHANGED <<requests, calling>>
  /\ UNCHANGED <<phase, current, reply, deviceVars, holders, joined>>

(* The reply, or its loss, reaches the caller.                             *)
CallReturns(c) ==
  /\ calling[c] # 0 /\ calls[calling[c]] # "waiting"
  /\ calling' = [calling EXCEPT ![c] = 0]
  /\ UNCHANGED <<loopVars, deviceVars, calls, holders, joined>>

(* recv_timeout expires, or a call_async future is dropped; the request    *)
(* stays queued.                                                           *)
GiveUp(c) ==
  /\ calling[c] # 0 /\ calls[calling[c]] = "waiting"
  /\ calls' = [calls EXCEPT ![calling[c]] = "abandoned"]
  /\ calling' = [calling EXCEPT ![c] = 0]
  /\ UNCHANGED <<loopVars, deviceVars, holders, joined>>

DropClient(c) ==
  /\ Idle(c)
  /\ holders' = holders \ {c}
  /\ UNCHANGED <<loopVars, deviceVars, calls, calling, joined>>

(* take_thread_handle: one client has taken the only join handle.          *)
HandleTaken == \E c \in Clients : joined[c] \notin {"no", "refused"}

(* join_vmm_thread, async_join_vmm_thread.                                 *)
Join(c) ==
  /\ Idle(c) /\ joined[c] = "no"
  /\ joined' = [joined EXCEPT ![c] = IF HandleTaken THEN "refused" ELSE "joining"]
  /\ UNCHANGED <<loopVars, deviceVars, calls, calling, holders>>

JoinReturns(c) ==
  /\ joined[c] = "joining" /\ ~Alive
  /\ joined' = [joined EXCEPT ![c] = IF phase = "ended" THEN "ok" ELSE "err"]
  /\ UNCHANGED <<loopVars, deviceVars, calls, calling, holders>>

--------------------------------------------------------------------------------
Loop ==
  \/ NextRequest \/ ClientsGone \/ DeviceExit
  \/ HandlerContinues \/ HandlerStops \/ HandlerPanics
  \/ BeginQuiesce \/ QuiesceExit \/ Answer \/ Return

Next ==
  \/ Loop
  \/ \E d \in Devices : Spawn(d) \/ Exit(d) \/ TaskPanic(d)
  \/ \E c \in Clients : Call(c) \/ CallReturns(c) \/ GiveUp(c) \/ DropClient(c)
                          \/ Join(c) \/ JoinReturns(c)

Spec == Init /\ [][Next]_vars

(* The thread runs when it can, a handler ends, and a device that is asked *)
(* to stop does (StopEnds of VirtioBlock).  Nothing makes a client call,   *)
(* give up, drop its handle or join, nor a device exit unasked.            *)
Fairness ==
  /\ WF_vars(Loop)
  /\ \A d \in Devices : WF_vars(stop /\ Exit(d))
  /\ \A c \in Clients : WF_vars(CallReturns(c)) /\ WF_vars(JoinReturns(c))

FairSpec == Spec /\ Fairness

--------------------------------------------------------------------------------
DataOK ==
  /\ phase \in {"select", "handling", "winding_down", "quiesce", "returning",
                "ended", "panicked"}
  /\ requests \in Seq(1 .. Len(calls))
  /\ current \in 0 .. Len(calls) /\ reply \in 0 .. Len(calls)
  /\ task \in [Devices -> {"none", "running", "exited", "panicked", "dropped"}]
  /\ exits \in Seq(Devices)
  /\ running \in Nat
  /\ calls \in Seq({"waiting", "answered", "failed", "abandoned"})
  /\ calling \in [Clients -> 0 .. Len(calls)]
  /\ holders \in SUBSET Clients
  /\ joined \in [Clients -> {"no", "joining", "ok", "err", "refused"}]

TypeOK == DataOK /\ stop \in BOOLEAN

(* DeviceManager's books balance: as long as the thread lives, `running`   *)
(* counts the tasks whose exit was not taken: those running, those that    *)
(* panicked, and those whose exit is queued, each once.                    *)
RunningCounts ==
  Alive =>
    /\ IsInjective(exits)
    /\ \A d \in ToSet(exits) : task[d] = "exited"
    /\ running = Len(exits) + Cardinality({d \in Devices : task[d] \in {"running", "panicked"}})

(* Whoever is told that the vmm has shut down may rely on it: when join    *)
(* returns Ok, or quiesce is over and the shutdown reply is out, no device *)
(* task is left, and none was torn down at an await it did not choose.     *)
ShutdownMeansStopped ==
  phase \in {"returning", "ended"} \/ (\E c \in Clients : joined[c] = "ok")
    => \A d \in Devices : task[d] \in {"none", "exited"}

(* The shutdown reply is the last thing the thread does: an answer that    *)
(* does not send the loop back to its select! finds the devices stopped.   *)
StopAnsweredLast ==
  [][\A n \in DOMAIN calls :
       calls[n] = "waiting" /\ calls'[n] = "answered" /\ phase' # "select"
         => \A d \in Devices : task[d] # "running"]_vars

PanickedTask == \E d \in Devices : task[d] = "panicked"

(* No call is left waiting, whatever the handler and the other clients do: *)
(* it is answered, or the vmm ends and it fails; as long as no device task *)
(* panicked, see QuiesceEnds.                                              *)
EveryCallReturns ==
  \A c \in Clients : (calling[c] # 0) ~> (calling[c] = 0 \/ PanickedTask)

(* Once the vmm winds down its thread ends, with the same proviso.         *)
WindsDown == (phase = "winding_down") ~> (~Alive \/ PanickedTask)

(* quiesce() waits until all devices have stopped, so it ends once they    *)
(* have, however they did.  It does not: see VmmPanic.cfg.                 *)
QuiesceEnds ==
  (phase = "quiesce" /\ \A d \in Devices : task[d] # "running") ~> (phase # "quiesce")
================================================================================
