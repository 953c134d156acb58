------------------------------ MODULE BlockService ------------------------------
(***************************************************************************)
(* What a block device promises its driver, with no queue, kick, limit or  *)
(* interrupt in sight: requests are served one by one in the order they    *)
(* were submitted, and what is done is delivered.  A device may close at   *)
(* any moment, and what it did before is still delivered; one that breaks  *)
(* may leave work done and undelivered.                                    *)
(***************************************************************************)
EXTENDS Naturals

CONSTANTS MaxRequests, QueueSize

VARIABLES
  submitted, done, delivered,  \* how many requests got that far
  state                        \* "open", "closed" or "broken"
vars == <<submitted, done, delivered, state>>

Init == submitted = 0 /\ done = 0 /\ delivered = 0 /\ state = "open"

Submit ==
  /\ submitted < MaxRequests /\ submitted - delivered < QueueSize
  /\ submitted' = submitted + 1
  /\ UNCHANGED <<done, delivered, state>>

Serve ==
  /\ state = "open" /\ done < submitted
  /\ done' = done + 1
  /\ UNCHANGED <<submitted, delivered, state>>

Deliver ==
  /\ delivered < done /\ delivered' = done
  /\ UNCHANGED <<submitted, done, state>>

Close ==
  /\ state = "open" /\ state' \in {"closed", "broken"}
  /\ UNCHANGED <<submitted, done, delivered>>

Next == Submit \/ Serve \/ Deliver \/ Close

Spec == Init /\ [][Next]_vars

(* Submitting and closing are the others' choice; a broken device owes     *)
(* nothing any more.                                                       *)
FairSpec == Spec /\ WF_vars(Serve) /\ WF_vars(state # "broken" /\ Deliver)
================================================================================
