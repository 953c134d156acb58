------------------------------- MODULE VmmProcess -------------------------------
(***************************************************************************)
(* The process of src/main.rs around VmmMain: main() keeps one VmmClient   *)
(* and joins the vmm thread with it; the task shutdown_on_signal() spawned *)
(* keeps a clone until SIGINT or SIGTERM.  Nobody else calls.              *)
(***************************************************************************)
EXTENDS VmmMain

CONSTANTS MainClient, SignalClient

VARIABLE signalled

processVars == <<vars, signalled>>

ProcessInit == Init /\ signalled = FALSE

Signal ==
  /\ ~signalled /\ signalled' = TRUE
  /\ UNCHANGED vars

(* The task awaits the signal; past it only its clone is left to drop.     *)
SignalTask ==
  /\ signalled /\ DropClient(SignalClient)
  /\ UNCHANGED signalled

MainJoins == Join(MainClient) /\ UNCHANGED signalled

VmmRuns == (Loop \/ JoinReturns(MainClient)) /\ UNCHANGED signalled

ProcessNext == Signal \/ SignalTask \/ MainJoins \/ VmmRuns

(* The runtime runs ready tasks; nothing makes a signal arrive.            *)
ProcessSpec ==
  /\ ProcessInit /\ [][ProcessNext]_processVars
  /\ WF_processVars(SignalTask) /\ WF_processVars(MainJoins) /\ WF_processVars(VmmRuns)

(* "Shutdown vmm when receiving SIGINT or SIGTERM" (src/main.rs:32).       *)
SignalStopsVmm == signalled ~> ~Alive
================================================================================
