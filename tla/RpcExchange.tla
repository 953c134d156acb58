------------------------------ MODULE RpcExchange ------------------------------
(***************************************************************************)
(* What a connection of hyper-uds promises the owner of its client: calls  *)
(* one at a time; each request reaches the service at most once, in order, *)
(* possibly after its caller gave up; an answer is the answer to the call  *)
(* that gets it; a call that fails leaves no connection behind; and every  *)
(* call ends.                                                              *)
(***************************************************************************)
EXTENDS Naturals

VARIABLES
  sent,      \* requests sent
  served,    \* requests the service was called with
  answered,  \* calls that returned a response
  open,      \* a call is under way
  up         \* the client has a connection

vars == <<sent, served, answered, open, up>>

Init == sent = 0 /\ served = 0 /\ answered = 0 /\ open = FALSE /\ up = TRUE

Call == /\ up /\ ~open
        /\ sent' = sent + 1
        /\ open' = TRUE
        /\ UNCHANGED <<served, answered, up>>

Serve == /\ served < sent
         /\ served' = served + 1
         /\ UNCHANGED <<sent, answered, open, up>>

Answer == /\ open /\ served = sent
          /\ answered' = answered + 1
          /\ open' = FALSE
          /\ up' \in BOOLEAN
          /\ UNCHANGED <<sent, served>>

Fail == /\ open
        /\ open' = FALSE
        /\ up' = FALSE
        /\ UNCHANGED <<sent, served, answered>>

HangUp == /\ up /\ ~open
          /\ up' = FALSE
          /\ UNCHANGED <<sent, served, answered, open>>

Next == Call \/ Serve \/ Answer \/ Fail \/ HangUp

Spec == Init /\ [][Next]_vars

FairSpec == Spec /\ WF_vars(Answer \/ Fail)
=============================================================================
