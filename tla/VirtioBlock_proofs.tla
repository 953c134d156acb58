--------------------------- MODULE VirtioBlock_proofs ---------------------------
(***************************************************************************)
(* What holds of VirtioBlock for every queue size, number of requests and  *)
(* bucket: type correctness, the order of the used ring, that no kick and  *)
(* no interrupt is lost, and that the task implements BlockService (its    *)
(* safety part).                                                           *)
(***************************************************************************)
EXTENDS VirtioBlock, TLAPS

(* The chain drain() has in hand belongs to the two steps that run it.     *)
HandInv ==
  /\ dev \in {"complete", "add_used"} => inHand = nextAvail /\ inHand # 0
  /\ dev \notin {"complete", "add_used", "ended"} => inHand = 0
  /\ dev = "add_used" => inHand \in written

RunningInv == dev # "ended" => outcome = "none"

OrderInv == UsedInOrder /\ HandInv /\ RunningInv /\ seen <= Len(used)

(* Once drain() is past its re-check, or has not begun, kicks are enabled  *)
(* and whatever was published since is announced or about to be.           *)
ReliesOnKick == dev \in {"inactive", "notify", "raise", "serving"} /\ ~throttled

KickInv ==
  /\ dev = "recheck" => ~noNotify
  /\ dev = "inactive" => ~throttled
  /\ ReliesOnKick => /\ ~noNotify
                     /\ nextAvail = avail \/ kick \/ driver \in {"check", "kick"}

(* stop is raised while the task is parked, and it leads nowhere but out.  *)
StopInv == stop => dev \in Parked \cup {"ended"}

IInv == TypeOK /\ OrderInv /\ KickInv /\ NoLostInterrupt /\ StopInv

--------------------------------------------------------------------------------
(* Type correctness, the data first: the flags are a matter of their own   *)
(* to the provers.                                                         *)
LEMMA DataStep == TypeOK /\ [Next]_vars => DataOK'
<1> SUFFICES ASSUME DataOK, [Next]_vars PROVE DataOK'
  BY DEF TypeOK
<1> USE BlockAssumption DEF BlockAssumption, DataOK, Parked, Draining,
    devVars, guestVars, wireVars
<1>1. CASE RequestStop
  BY <1>1 DEF RequestStop
<1>2. CASE Activate
  BY <1>2 DEF Activate
<1>3. CASE DropTransport
  BY <1>3 DEF DropTransport
<1>4. CASE Refill
  BY <1>4 DEF Refill
<1>5. CASE StopTask
  BY <1>5 DEF StopTask, End
<1>6. CASE StartServing
  BY <1>6 DEF StartServing, End
<1>7. CASE ReadKick
  BY <1>7 DEF ReadKick, BeginDrain
<1>8. CASE Resume
  BY <1>8 DEF Resume, BeginDrain
<1>9. CASE DisableNotification
  BY <1>9 DEF DisableNotification
<1>10. CASE PopNothing
  BY <1>10 DEF PopNothing
<1>11. CASE PopChain
  BY <1>11 DEF PopChain
<1>12. CASE Throttle
  BY <1>12 DEF Throttle
<1>13. CASE Complete
  BY <1>13 DEF Complete
<1>14. CASE AddUsed
  BY <1>14 DEF AddUsed
<1>15. CASE EnableNotification
  BY <1>15 DEF EnableNotification
<1>16. CASE RecheckAvail
  BY <1>16 DEF RecheckAvail
<1>17. CASE SetStatus
  BY <1>17 DEF SetStatus
<1>18. CASE RaiseIrq
  BY <1>18 DEF RaiseIrq
<1>19. CASE Fault
  BY <1>19 DEF Fault, End
<1>20. CASE Publish
  BY <1>20 DEF Publish
<1>21. CASE CheckFlag
  BY <1>21 DEF CheckFlag
<1>22. CASE Kick
  BY <1>22 DEF Kick
<1>23. CASE TakeIrq
  BY <1>23 DEF TakeIrq
<1>24. CASE AckStatus
  BY <1>24 DEF AckStatus
<1>25. CASE ScanUsed
  BY <1>25 DEF ScanUsed
<1>26. CASE UNCHANGED vars
  BY <1>26 DEF vars
<1> QED
  BY <1>1, <1>2, <1>3, <1>4, <1>5, <1>6, <1>7, <1>8, <1>9, <1>10, <1>11, <1>12, <1>13,
     <1>14, <1>15, <1>16, <1>17, <1>18, <1>19, <1>20, <1>21, <1>22, <1>23, <1>24, <1>25, <1>26
     DEF Next, Task, Submitter, Handler

LEMMA FlagsStep == TypeOK /\ [Next]_vars => FlagsOK'
<1> SUFFICES ASSUME FlagsOK, [Next]_vars PROVE FlagsOK'
  BY DEF TypeOK
<1> USE DEF FlagsOK, devVars, guestVars, wireVars
<1>1. CASE RequestStop
  BY <1>1 DEF RequestStop
<1>2. CASE Activate
  BY <1>2 DEF Activate
<1>3. CASE DropTransport
  BY <1>3 DEF DropTransport
<1>4. CASE Refill
  BY <1>4 DEF Refill
<1>5. CASE StopTask
  BY <1>5 DEF StopTask, End
<1>6. CASE StartServing
  BY <1>6 DEF StartServing, End
<1>7. CASE ReadKick
  BY <1>7 DEF ReadKick, BeginDrain
<1>8. CASE Resume
  BY <1>8 DEF Resume, BeginDrain
<1>9. CASE DisableNotification
  BY <1>9 DEF DisableNotification
<1>10. CASE PopNothing
  BY <1>10 DEF PopNothing
<1>11. CASE PopChain
  BY <1>11 DEF PopChain
<1>12. CASE Throttle
  BY <1>12 DEF Throttle
<1>13. CASE Complete
  BY <1>13 DEF Complete
<1>14. CASE AddUsed
  BY <1>14 DEF AddUsed
<1>15. CASE EnableNotification
  BY <1>15 DEF EnableNotification
<1>16. CASE RecheckAvail
  BY <1>16 DEF RecheckAvail
<1>17. CASE SetStatus
  BY <1>17 DEF SetStatus
<1>18. CASE RaiseIrq
  BY <1>18 DEF RaiseIrq
<1>19. CASE Fault
  BY <1>19 DEF Fault, End
<1>20. CASE Publish
  BY <1>20 DEF Publish
<1>21. CASE CheckFlag
  BY <1>21 DEF CheckFlag
<1>22. CASE Kick
  BY <1>22 DEF Kick
<1>23. CASE TakeIrq
  BY <1>23 DEF TakeIrq
<1>24. CASE AckStatus
  BY <1>24 DEF AckStatus
<1>25. CASE ScanUsed
  BY <1>25 DEF ScanUsed
<1>26. CASE UNCHANGED vars
  BY <1>26 DEF vars
<1> QED
  BY <1>1, <1>2, <1>3, <1>4, <1>5, <1>6, <1>7, <1>8, <1>9, <1>10, <1>11, <1>12, <1>13,
     <1>14, <1>15, <1>16, <1>17, <1>18, <1>19, <1>20, <1>21, <1>22, <1>23, <1>24, <1>25, <1>26
     DEF Next, Task, Submitter, Handler

(* Every variable of the task, the wires and the guest keeps its type, and *)
(* the bucket never exceeds its capacity.                                  *)
THEOREM TypeCorrect == Spec => []TypeOK
<1>1. Init => DataOK
  BY BlockAssumption DEF BlockAssumption, Init, DataOK, Parked, Draining
<1>2. Init => FlagsOK
  BY DEF Init, FlagsOK
<1>3. TypeOK /\ [Next]_vars => TypeOK'
  BY DataStep, FlagsStep DEF TypeOK
<1> QED
  BY <1>1, <1>2, <1>3, PTL DEF Spec, TypeOK

--------------------------------------------------------------------------------
(* The used ring: a chain is in hand only between its pop and add_used, so *)
(* what AddUsed appends is the next number, already written.               *)
LEMMA OrderStep == DataOK /\ OrderInv /\ [Next]_vars => OrderInv'
<1> SUFFICES ASSUME DataOK, OrderInv, [Next]_vars PROVE OrderInv'
  OBVIOUS
<1> USE DEF DataOK, OrderInv, UsedInOrder, HandInv, RunningInv, Parked, Draining,
    devVars, guestVars, wireVars
<1>1. CASE RequestStop
  BY <1>1 DEF RequestStop
<1>2. CASE Activate
  BY <1>2 DEF Activate
<1>3. CASE DropTransport
  BY <1>3 DEF DropTransport
<1>4. CASE Refill
  BY <1>4 DEF Refill
<1>5. CASE StopTask
  BY <1>5 DEF StopTask, End
<1>6. CASE StartServing
  BY <1>6 DEF StartServing, End
<1>7. CASE ReadKick
  BY <1>7 DEF ReadKick, BeginDrain
<1>8. CASE Resume
  BY <1>8 DEF Resume, BeginDrain
<1>9. CASE DisableNotification
  BY <1>9 DEF DisableNotification
<1>10. CASE PopNothing
  BY <1>10 DEF PopNothing
<1>11. CASE PopChain
  BY <1>11 DEF PopChain
<1>12. CASE Throttle
  BY <1>12 DEF Throttle
<1>13. CASE Complete
  BY <1>13 DEF Complete
<1>14. CASE AddUsed
  BY <1>14 DEF AddUsed
<1>15. CASE EnableNotification
  BY <1>15 DEF EnableNotification
<1>16. CASE RecheckAvail
  BY <1>16 DEF RecheckAvail
<1>17. CASE SetStatus
  BY <1>17 DEF SetStatus
<1>18. CASE RaiseIrq
  BY <1>18 DEF RaiseIrq
<1>19. CASE Fault
  BY <1>19 DEF Fault, End
<1>20. CASE Publish
  BY <1>20 DEF Publish
<1>21. CASE CheckFlag
  BY <1>21 DEF CheckFlag
<1>22. CASE Kick
  BY <1>22 DEF Kick
<1>23. CASE TakeIrq
  BY <1>23 DEF TakeIrq
<1>24. CASE AckStatus
  BY <1>24 DEF AckStatus
<1>25. CASE ScanUsed
  BY <1>25 DEF ScanUsed
<1>26. CASE UNCHANGED vars
  BY <1>26 DEF vars
<1> QED
  BY <1>1, <1>2, <1>3, <1>4, <1>5, <1>6, <1>7, <1>8, <1>9, <1>10, <1>11, <1>12, <1>13,
     <1>14, <1>15, <1>16, <1>17, <1>18, <1>19, <1>20, <1>21, <1>22, <1>23, <1>24, <1>25, <1>26
     DEF Next, Task, Submitter, Handler

(* A kick is lost by nobody: the driver reads the flag after it published, *)
(* the task re-reads the avail index after it cleared the flag.            *)
LEMMA KickStep == DataOK /\ KickInv /\ [Next]_vars => KickInv'
<1> SUFFICES ASSUME DataOK, KickInv, [Next]_vars PROVE KickInv'
  OBVIOUS
<1> USE DEF DataOK, KickInv, ReliesOnKick, Parked, Draining,
    devVars, guestVars, wireVars
<1>1. CASE RequestStop
  BY <1>1 DEF RequestStop
<1>2. CASE Activate
  BY <1>2 DEF Activate
<1>3. CASE DropTransport
  BY <1>3 DEF DropTransport
<1>4. CASE Refill
  BY <1>4 DEF Refill
<1>5. CASE StopTask
  BY <1>5 DEF StopTask, End
<1>6. CASE StartServing
  BY <1>6 DEF StartServing, End
<1>7. CASE ReadKick
  BY <1>7 DEF ReadKick, BeginDrain
<1>8. CASE Resume
  BY <1>8 DEF Resume, BeginDrain
<1>9. CASE DisableNotification
  BY <1>9 DEF DisableNotification
<1>10. CASE PopNothing
  BY <1>10 DEF PopNothing
<1>11. CASE PopChain
  BY <1>11 DEF PopChain
<1>12. CASE Throttle
  BY <1>12 DEF Throttle
<1>13. CASE Complete
  BY <1>13 DEF Complete
<1>14. CASE AddUsed
  BY <1>14 DEF AddUsed
<1>15. CASE EnableNotification
  BY <1>15 DEF EnableNotification
<1>16. CASE RecheckAvail
  BY <1>16 DEF RecheckAvail
<1>17. CASE SetStatus
  BY <1>17 DEF SetStatus
<1>18. CASE RaiseIrq
  BY <1>18 DEF RaiseIrq
<1>19. CASE Fault
  BY <1>19 DEF Fault, End
<1>20. CASE Publish
  BY <1>20 DEF Publish
<1>21. CASE CheckFlag
  BY <1>21 DEF CheckFlag
<1>22. CASE Kick
  BY <1>22 DEF Kick
<1>23. CASE TakeIrq
  BY <1>23 DEF TakeIrq
<1>24. CASE AckStatus
  BY <1>24 DEF AckStatus
<1>25. CASE ScanUsed
  BY <1>25 DEF ScanUsed
<1>26. CASE UNCHANGED vars
  BY <1>26 DEF vars
<1> QED
  BY <1>1, <1>2, <1>3, <1>4, <1>5, <1>6, <1>7, <1>8, <1>9, <1>10, <1>11, <1>12, <1>13,
     <1>14, <1>15, <1>16, <1>17, <1>18, <1>19, <1>20, <1>21, <1>22, <1>23, <1>24, <1>25, <1>26
     DEF Next, Task, Submitter, Handler

(* An interrupt is lost by nobody: the status bit is set before the irqfd  *)
(* is written, and acknowledged before the used ring is scanned.           *)
LEMMA InterruptStep ==
  DataOK /\ OrderInv /\ NoLostInterrupt /\ [Next]_vars => NoLostInterrupt'
<1> SUFFICES ASSUME DataOK, OrderInv, NoLostInterrupt, [Next]_vars
             PROVE NoLostInterrupt'
  OBVIOUS
<1> USE DEF DataOK, OrderInv, RunningInv, NoLostInterrupt, InterruptPending, Parked, Draining,
    devVars, guestVars, wireVars
<1>1. CASE RequestStop
  BY <1>1 DEF RequestStop
<1>2. CASE Activate
  BY <1>2 DEF Activate
<1>3. CASE DropTransport
  BY <1>3 DEF DropTransport
<1>4. CASE Refill
  BY <1>4 DEF Refill
<1>5. CASE StopTask
  BY <1>5 DEF StopTask, End
<1>6. CASE StartServing
  BY <1>6 DEF StartServing, End
<1>7. CASE ReadKick
  BY <1>7 DEF ReadKick, BeginDrain
<1>8. CASE Resume
  BY <1>8 DEF Resume, BeginDrain
<1>9. CASE DisableNotification
  BY <1>9 DEF DisableNotification
<1>10. CASE PopNothing
  BY <1>10 DEF PopNothing
<1>11. CASE PopChain
  BY <1>11 DEF PopChain
<1>12. CASE Throttle
  BY <1>12 DEF Throttle
<1>13. CASE Complete
  BY <1>13 DEF Complete
<1>14. CASE AddUsed
  BY <1>14 DEF AddUsed
<1>15. CASE EnableNotification
  BY <1>15 DEF EnableNotification
<1>16. CASE RecheckAvail
  BY <1>16 DEF RecheckAvail
<1>17. CASE SetStatus
  BY <1>17 DEF SetStatus
<1>18. CASE RaiseIrq
  BY <1>18 DEF RaiseIrq
<1>19. CASE Fault
  BY <1>19 DEF Fault, End
<1>20. CASE Publish
  BY <1>20 DEF Publish
<1>21. CASE CheckFlag
  BY <1>21 DEF CheckFlag
<1>22. CASE Kick
  BY <1>22 DEF Kick
<1>23. CASE TakeIrq
  BY <1>23 DEF TakeIrq
<1>24. CASE AckStatus
  BY <1>24 DEF AckStatus
<1>25. CASE ScanUsed
  BY <1>25 DEF ScanUsed
<1>26. CASE UNCHANGED vars
  BY <1>26 DEF vars
<1> QED
  BY <1>1, <1>2, <1>3, <1>4, <1>5, <1>6, <1>7, <1>8, <1>9, <1>10, <1>11, <1>12, <1>13,
     <1>14, <1>15, <1>16, <1>17, <1>18, <1>19, <1>20, <1>21, <1>22, <1>23, <1>24, <1>25, <1>26
     DEF Next, Task, Submitter, Handler

LEMMA StopStep == StopInv /\ [Next]_vars => StopInv'
<1> SUFFICES ASSUME StopInv, [Next]_vars PROVE StopInv'
  OBVIOUS
<1> USE DEF StopInv, Parked, Draining, devVars, guestVars, wireVars
<1>1. CASE RequestStop
  BY <1>1 DEF RequestStop
<1>2. CASE Activate
  BY <1>2 DEF Activate
<1>3. CASE DropTransport
  BY <1>3 DEF DropTransport
<1>4. CASE Refill
  BY <1>4 DEF Refill
<1>5. CASE StopTask
  BY <1>5 DEF StopTask, End
<1>6. CASE StartServing
  BY <1>6 DEF StartServing, End
<1>7. CASE ReadKick
  BY <1>7 DEF ReadKick, BeginDrain
<1>8. CASE Resume
  BY <1>8 DEF Resume, BeginDrain
<1>9. CASE DisableNotification
  BY <1>9 DEF DisableNotification
<1>10. CASE PopNothing
  BY <1>10 DEF PopNothing
<1>11. CASE PopChain
  BY <1>11 DEF PopChain
<1>12. CASE Throttle
  BY <1>12 DEF Throttle
<1>13. CASE Complete
  BY <1>13 DEF Complete
<1>14. CASE AddUsed
  BY <1>14 DEF AddUsed
<1>15. CASE EnableNotification
  BY <1>15 DEF EnableNotification
<1>16. CASE RecheckAvail
  BY <1>16 DEF RecheckAvail
<1>17. CASE SetStatus
  BY <1>17 DEF SetStatus
<1>18. CASE RaiseIrq
  BY <1>18 DEF RaiseIrq
<1>19. CASE Fault
  BY <1>19 DEF Fault, End
<1>20. CASE Publish
  BY <1>20 DEF Publish
<1>21. CASE CheckFlag
  BY <1>21 DEF CheckFlag
<1>22. CASE Kick
  BY <1>22 DEF Kick
<1>23. CASE TakeIrq
  BY <1>23 DEF TakeIrq
<1>24. CASE AckStatus
  BY <1>24 DEF AckStatus
<1>25. CASE ScanUsed
  BY <1>25 DEF ScanUsed
<1>26. CASE UNCHANGED vars
  BY <1>26 DEF vars
<1> QED
  BY <1>1, <1>2, <1>3, <1>4, <1>5, <1>6, <1>7, <1>8, <1>9, <1>10, <1>11, <1>12, <1>13,
     <1>14, <1>15, <1>16, <1>17, <1>18, <1>19, <1>20, <1>21, <1>22, <1>23, <1>24, <1>25, <1>26
     DEF Next, Task, Submitter, Handler

(* The inductive invariant.                                                *)
THEOREM Invariance == Spec => []IInv
<1>1. Init => OrderInv /\ KickInv /\ NoLostInterrupt /\ StopInv
  BY DEF Init, StopInv, Parked, OrderInv, UsedInOrder, HandInv, RunningInv, KickInv, ReliesOnKick, NoLostInterrupt
<1>2. IInv /\ [Next]_vars => (OrderInv /\ KickInv /\ NoLostInterrupt /\ StopInv)'
  BY OrderStep, KickStep, InterruptStep, StopStep DEF IInv, TypeOK
<1> QED
  BY <1>1, <1>2, TypeCorrect, PTL DEF Spec, IInv

(* The used ring returns every published chain once, in order, after its   *)
(* data.                                                                   *)
THEOREM Order == Spec => []UsedInOrder
BY Invariance, PTL DEF IInv, OrderInv

(* A parked, unthrottled task with no kick on its way has nothing to serve.*)
THEOREM KickSafety == Spec => []NoLostKick
<1>1. IInv => NoLostKick
  BY DEF IInv, KickInv, ReliesOnKick, NoLostKick
<1> QED
  BY <1>1, Invariance, PTL

(* Every completion not yet consumed is announced, unless an error cut     *)
(* drain() short.                                                          *)
THEOREM InterruptSafety == Spec => []NoLostInterrupt
BY Invariance, PTL DEF IInv

(* Once stop is raised no further request is started: only PopChain starts *)
(* one, and it does not run in a parked task.                              *)
THEOREM StopSafety == Spec => StopStartsNothing
<1>1. IInv /\ [Next]_vars => [stop => nextAvail' = nextAvail]_vars
  <2> SUFFICES ASSUME StopInv, [Next]_vars, stop PROVE nextAvail' = nextAvail
    BY DEF IInv
  <2>1. CASE UNCHANGED vars
    BY <2>1 DEF vars, devVars
  <2>2. CASE Task
    BY <2>2 DEF Task, StopInv, Parked, devVars, StopTask, StartServing, ReadKick, Resume,
       DisableNotification, PopNothing, PopChain, Throttle, Complete, AddUsed,
       EnableNotification, RecheckAvail, SetStatus, RaiseIrq, End, BeginDrain
  <2>3. CASE RequestStop \/ Activate \/ DropTransport \/ Refill \/ Fault
    BY <2>3 DEF RequestStop, Activate, DropTransport, Refill, Fault, End, devVars
  <2>4. CASE Publish \/ Submitter \/ Handler
    BY <2>4 DEF Publish, Submitter, CheckFlag, Kick, Handler, TakeIrq, AckStatus,
       ScanUsed, devVars
  <2> QED
    BY <2>1, <2>2, <2>3, <2>4 DEF Next
<1> QED
  BY <1>1, Invariance, PTL DEF Spec, StopStartsNothing

--------------------------------------------------------------------------------
(* The task implements BlockService: AddUsed serves, ScanUsed delivers,    *)
(* the end of run() closes, Publish submits, and all else is stuttering.   *)
LEMMA ServiceInit == Init => Service!Init
BY DEF Init, Service!Init

LEMMA ServiceStep == DataOK /\ OrderInv /\ [Next]_vars => [Service!Next]_(Service!vars)
<1> SUFFICES ASSUME DataOK, OrderInv, [Next]_vars
             PROVE Service!Next \/ UNCHANGED Service!vars
  OBVIOUS
<1> USE DEF DataOK, OrderInv, UsedInOrder, HandInv, RunningInv, Parked, Draining,
    devVars, guestVars, wireVars,
    Service!Next, Service!vars, Service!Submit, Service!Serve, Service!Deliver, Service!Close
<1>1. CASE RequestStop
  BY <1>1 DEF RequestStop
<1>2. CASE Activate
  BY <1>2 DEF Activate
<1>3. CASE DropTransport
  BY <1>3 DEF DropTransport
<1>4. CASE Refill
  BY <1>4 DEF Refill
<1>5. CASE StopTask
  BY <1>5 DEF StopTask, End
<1>6. CASE StartServing
  BY <1>6 DEF StartServing, End
<1>7. CASE ReadKick
  BY <1>7 DEF ReadKick, BeginDrain
<1>8. CASE Resume
  BY <1>8 DEF Resume, BeginDrain
<1>9. CASE DisableNotification
  BY <1>9 DEF DisableNotification
<1>10. CASE PopNothing
  BY <1>10 DEF PopNothing
<1>11. CASE PopChain
  BY <1>11 DEF PopChain
<1>12. CASE Throttle
  BY <1>12 DEF Throttle
<1>13. CASE Complete
  BY <1>13 DEF Complete
<1>14. CASE AddUsed
  BY <1>14 DEF AddUsed
<1>15. CASE EnableNotification
  BY <1>15 DEF EnableNotification
<1>16. CASE RecheckAvail
  BY <1>16 DEF RecheckAvail
<1>17. CASE SetStatus
  BY <1>17 DEF SetStatus
<1>18. CASE RaiseIrq
  BY <1>18 DEF RaiseIrq
<1>19. CASE Fault
  BY <1>19 DEF Fault, End
<1>20. CASE Publish
  BY <1>20 DEF Publish
<1>21. CASE CheckFlag
  BY <1>21 DEF CheckFlag
<1>22. CASE Kick
  BY <1>22 DEF Kick
<1>23. CASE TakeIrq
  BY <1>23 DEF TakeIrq
<1>24. CASE AckStatus
  BY <1>24 DEF AckStatus
<1>25. CASE ScanUsed
  BY <1>25 DEF ScanUsed
<1>26. CASE UNCHANGED vars
  BY <1>26 DEF vars
<1> QED
  BY <1>1, <1>2, <1>3, <1>4, <1>5, <1>6, <1>7, <1>8, <1>9, <1>10, <1>11, <1>12, <1>13,
     <1>14, <1>15, <1>16, <1>17, <1>18, <1>19, <1>20, <1>21, <1>22, <1>23, <1>24, <1>25, <1>26
     DEF Next, Task, Submitter, Handler

(* The safety of BlockService: each request served and delivered once, in  *)
(* order, by any device task and driver over any queue.                    *)
THEOREM Implementation == Spec => ServiceSpec
<1>1. IInv /\ [Next]_vars => [Service!Next]_(Service!vars)
  BY ServiceStep DEF IInv, TypeOK
<1> QED
  BY <1>1, ServiceInit, Invariance, PTL DEF Spec, ServiceSpec, Service!Spec
================================================================================
