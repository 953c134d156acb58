------------------------------ MODULE VirtioBlock ------------------------------
(***************************************************************************)
(* The virtio-block device task (crates/vmm/src/devices/virtio/block.rs)   *)
(* against the guest driver it serves.                                     *)
(*                                                                         *)
(* The task runs on the vmm's single-threaded runtime: between two awaits  *)
(* nothing else of the vmm runs, so `stop` changes only while the task is  *)
(* parked in a `select!`.  The guest runs on vcpu threads and interleaves  *)
(* with every access the task makes to guest memory, to the kick eventfd   *)
(* and to the interrupt.  One action is one such access.                   *)
(*                                                                         *)
(* Requests are numbered in the order the driver publishes them, so the    *)
(* avail ring is the number `avail`; what a request asks for is the        *)
(* subject of module BlockRequest.                                         *)
(***************************************************************************)
EXTENDS Naturals, Sequences, SequencesExt

CONSTANTS
  MaxRequests,  \* bound: requests the driver publishes in a behaviour
  QueueSize,    \* chains the driver may have outstanding
  Limited,      \* `iops` is Some(..)
  Capacity,     \* tokens of the bucket when it is
  QueueFaults   \* an access to the queue or to an eventfd may fail

ASSUME BlockAssumption ==
  /\ MaxRequests \in Nat
  /\ QueueSize \in Nat \ {0}
  /\ Limited \in BOOLEAN
  /\ Capacity \in Nat \ {0}
  /\ QueueFaults \in BOOLEAN

VARIABLES
  dev,           \* where the task stands in run / serve / drain
  activation,    \* what the activation channel holds
  stop,          \* the Stop watch was raised, or its sender dropped
  outcome,       \* what run() returned
  nextAvail,     \* Queue::next_avail: chains popped
  inHand,        \* the chain drain() is running, 0 for none
  written,       \* chains whose data and status byte are in guest memory
  used,          \* the used ring
  completedAny,  \* drain's local of that name
  throttled,     \* serve's resume_at.is_some()
  tokens,        \* tokens the bucket would grant now
  avail,         \* the avail index: chains published
  noNotify,      \* VRING_USED_F_NO_NOTIFY
  kick,          \* the queue eventfd's counter is not zero
  isr,           \* the used-ring bit of IrqTrigger::status
  irq,           \* the irqfd is signalled
  driver,        \* the guest's submitting thread
  handler,       \* the guest's interrupt handler
  seen           \* completions the handler has consumed

devVars   == <<dev, outcome, nextAvail, inHand, written, used, completedAny, throttled>>
guestVars == <<avail, driver, handler, seen>>
wireVars  == <<noNotify, kick, isr, irq>>
vars == <<devVars, guestVars, wireVars, activation, stop, tokens>>

Parked   == {"inactive", "serving"}
Draining == {"disable", "pop", "complete", "add_used", "enable", "recheck", "notify"}

Init ==
  /\ dev = "inactive" /\ activation = "none" /\ stop = FALSE /\ outcome = "none"
  /\ nextAvail = 0 /\ inHand = 0 /\ written = {} /\ used = <<>>
  /\ completedAny = FALSE /\ throttled = FALSE /\ tokens = Capacity
  /\ avail = 0 /\ noNotify = FALSE /\ kick = FALSE
  /\ isr = FALSE /\ irq = FALSE
  /\ driver = "idle" /\ handler = "wait" /\ seen = 0

--------------------------------------------------------------------------------
(* The vmm and the transport, which talk to the task.                      *)

(* DeviceManager::quiesce raises the watch; it runs on the task's thread.  *)
RequestStop ==
  /\ ~stop /\ dev \in Parked \cup {"ended"}
  /\ stop' = TRUE
  /\ UNCHANGED <<devVars, guestVars, wireVars, activation, tokens>>

(* The guest writes DRIVER_OK: Activator::activate, with a queue set       *)
(* Active::new will accept or refuse.  It errors once the task is gone.    *)
Activate ==
  /\ activation = "none" /\ dev # "ended"
  /\ activation' \in {"valid", "invalid"}
  /\ UNCHANGED <<devVars, guestVars, wireVars, stop, tokens>>

(* Every Activator is dropped before the driver brought the device up.     *)
DropTransport ==
  /\ activation = "none"
  /\ activation' = "closed"
  /\ UNCHANGED <<devVars, guestVars, wireVars, stop, tokens>>

(* MUTANT of Refill: the gain is not capped at the capacity.               *)
RefillUncapped ==
  /\ tokens' = tokens + 1
  /\ UNCHANGED <<devVars, guestVars, wireVars, activation, stop>>

(* Time passes: refill() would find one more token.                        *)
Refill ==
  /\ tokens < Capacity
  /\ tokens' = tokens + 1
  /\ UNCHANGED <<devVars, guestVars, wireVars, activation, stop>>

--------------------------------------------------------------------------------
(* The device task.                                                        *)

End(how) ==
  /\ dev' = "ended" /\ outcome' = how
  /\ UNCHANGED <<nextAvail, inHand, written, used, completedAny, throttled>>

(* MUTANT of StopTask: an inactive device waits for its activation only.   *)
StopServingOnly ==
  /\ dev = "serving" /\ stop
  /\ End("ok")
  /\ UNCHANGED <<guestVars, wireVars, activation, stop, tokens>>

(* Both select!s are biased: a raised stop wins over every other arm.      *)
StopTask ==
  /\ dev \in Parked /\ stop
  /\ End("ok")
  /\ UNCHANGED <<guestVars, wireVars, activation, stop, tokens>>

(* run(): the activation arrives and Active::new judges it, or the         *)
(* transport is gone.                                                      *)
StartServing ==
  /\ dev = "inactive" /\ ~stop /\ activation # "none"
  /\ \/ /\ activation = "valid"
        /\ dev' = "serving"
        /\ UNCHANGED <<outcome, nextAvail, inHand, written, used, completedAny, throttled>>
     \/ activation = "invalid" /\ End("err")
     \/ activation = "closed" /\ End("ok")
  /\ UNCHANGED <<guestVars, wireVars, activation, stop, tokens>>

BeginDrain ==
  /\ dev' = "disable" /\ completedAny' = FALSE
  /\ UNCHANGED <<outcome, nextAvail, inHand, written, used, throttled>>

(* MUTANT of ReadKick: the select! is not biased towards stop.             *)
ReadKickUnbiased ==
  /\ dev = "serving" /\ ~throttled
  /\ kick /\ kick' = FALSE
  /\ BeginDrain
  /\ UNCHANGED <<guestVars, noNotify, isr, irq, activation, stop, tokens>>

(* The kick arm is polled only while nothing is throttled; reading the     *)
(* eventfd takes its whole counter.                                        *)
ReadKick ==
  /\ dev = "serving" /\ ~stop /\ ~throttled
  /\ kick /\ kick' = FALSE
  /\ BeginDrain
  /\ UNCHANGED <<guestVars, noNotify, isr, irq, activation, stop, tokens>>

(* MUTANT of Resume: a throttled task waits for the next kick.             *)
ResumeOnKick ==
  /\ dev = "serving" /\ ~stop /\ throttled /\ kick
  /\ BeginDrain
  /\ UNCHANGED <<guestVars, wireVars, activation, stop, tokens>>

(* sleep_until(resume_at) ends.  The instant is rounded to a nanosecond,   *)
(* refill() rounds the gain down: the bucket may still be empty.           *)
Resume ==
  /\ dev = "serving" /\ ~stop /\ throttled
  /\ BeginDrain
  /\ UNCHANGED <<guestVars, wireVars, activation, stop, tokens>>

DisableNotification ==
  /\ dev = "disable" /\ dev' = "pop"
  /\ noNotify' = TRUE
  /\ UNCHANGED <<outcome, nextAvail, inHand, written, used, completedAny, throttled,
                 guestVars, kick, isr, irq, activation, stop, tokens>>

(* pop_descriptor_chain finds nothing published.                           *)
PopNothing ==
  /\ dev = "pop" /\ nextAvail = avail
  /\ dev' = "enable"
  /\ UNCHANGED <<outcome, nextAvail, inHand, written, used, completedAny, throttled,
                 guestVars, wireVars, activation, stop, tokens>>

(* A chain is popped and, when there is a limiter, paid for.               *)
PopChain ==
  /\ dev = "pop" /\ nextAvail < avail
  /\ Limited => tokens > 0
  /\ tokens' = IF Limited THEN tokens - 1 ELSE tokens
  /\ dev' = "complete" /\ nextAvail' = nextAvail + 1 /\ inHand' = nextAvail + 1
  /\ UNCHANGED <<outcome, written, used, completedAny, throttled,
                 guestVars, wireVars, activation, stop>>

(* MUTANT of Throttle: the chain is not put back.                          *)
ThrottleKeepsChain ==
  /\ dev = "pop" /\ nextAvail < avail
  /\ Limited /\ tokens = 0
  /\ throttled' = TRUE /\ dev' = "notify"
  /\ nextAvail' = nextAvail + 1
  /\ UNCHANGED <<outcome, inHand, written, used, completedAny,
                 guestVars, wireVars, activation, stop, tokens>>

(* MUTANT of Throttle: it returns from drain() past the notification.      *)
ThrottleReturns ==
  /\ dev = "pop" /\ nextAvail < avail
  /\ Limited /\ tokens = 0
  /\ throttled' = TRUE /\ dev' = "serving"
  /\ UNCHANGED <<outcome, nextAvail, inHand, written, used, completedAny,
                 guestVars, wireVars, activation, stop, tokens>>

(* The bucket is empty: the popped chain goes back and the drain ends with *)
(* notifications still disabled.                                           *)
Throttle ==
  /\ dev = "pop" /\ nextAvail < avail
  /\ Limited /\ tokens = 0
  /\ throttled' = TRUE /\ dev' = "notify"
  /\ UNCHANGED <<outcome, nextAvail, inHand, written, used, completedAny,
                 guestVars, wireVars, activation, stop, tokens>>

(* complete(): the I/O and the status byte; it never fails.                *)
Complete ==
  /\ dev = "complete" /\ dev' = "add_used"
  /\ written' = written \cup {inHand}
  /\ UNCHANGED <<outcome, nextAvail, inHand, used, completedAny, throttled,
                 guestVars, wireVars, activation, stop, tokens>>

AddUsed ==
  /\ dev = "add_used" /\ dev' = "pop"
  /\ used' = Append(used, inHand) /\ inHand' = 0
  /\ completedAny' = TRUE
  /\ UNCHANGED <<outcome, nextAvail, written, throttled,
                 guestVars, wireVars, activation, stop, tokens>>

(* enable_notification, first half: clear the flag.                        *)
EnableNotification ==
  /\ dev = "enable" /\ dev' = "recheck"
  /\ noNotify' = FALSE
  /\ UNCHANGED <<outcome, nextAvail, inHand, written, used, completedAny, throttled,
                 guestVars, kick, isr, irq, activation, stop, tokens>>

(* MUTANT of RecheckAvail: the result of enable_notification is ignored.   *)
RecheckIgnored ==
  /\ dev = "recheck"
  /\ dev' = "notify" /\ throttled' = FALSE
  /\ UNCHANGED <<outcome, nextAvail, inHand, written, used, completedAny,
                 guestVars, wireVars, activation, stop, tokens>>

(* enable_notification, second half: after the fence, is there more?       *)
RecheckAvail ==
  /\ dev = "recheck"
  /\ \/ nextAvail # avail /\ dev' = "disable" /\ UNCHANGED throttled
     \/ nextAvail = avail /\ dev' = "notify" /\ throttled' = FALSE
  /\ UNCHANGED <<outcome, nextAvail, inHand, written, used, completedAny,
                 guestVars, wireVars, activation, stop, tokens>>

(* The end of drain(): trigger() first sets the status bit ...             *)
SetStatus ==
  /\ dev = "notify"
  /\ isr' = (isr \/ completedAny)
  /\ dev' = IF completedAny THEN "raise" ELSE "serving"
  /\ UNCHANGED <<outcome, nextAvail, inHand, written, used, completedAny, throttled,
                 guestVars, noNotify, kick, irq, activation, stop, tokens>>

(* ... and then writes the irqfd.                                          *)
RaiseIrq ==
  /\ dev = "raise" /\ dev' = "serving"
  /\ irq' = TRUE
  /\ UNCHANGED <<outcome, nextAvail, inHand, written, used, completedAny, throttled,
                 guestVars, noNotify, kick, isr, activation, stop, tokens>>

(* A `?` in serve() or drain(): the kick read, disable_notification,       *)
(* add_used, enable_notification, needs_notification or the irqfd write.   *)
Fault ==
  /\ QueueFaults
  /\ \/ dev \in {"disable", "add_used", "enable", "recheck", "raise"}
     \/ dev = "notify" /\ completedAny
     \/ dev = "serving" /\ ~stop /\ ~throttled
  /\ End("err")
  /\ UNCHANGED <<guestVars, wireVars, activation, stop, tokens>>

--------------------------------------------------------------------------------
(* The guest driver.                                                       *)

Publish ==
  /\ driver = "idle" /\ activation = "valid"
  /\ avail < MaxRequests /\ avail - seen < QueueSize
  /\ avail' = avail + 1 /\ driver' = "check"
  /\ UNCHANGED <<handler, seen, devVars, wireVars, activation, stop, tokens>>

(* After its own fence the driver reads the device's flag.                 *)
CheckFlag ==
  /\ driver = "check"
  /\ driver' = IF noNotify THEN "idle" ELSE "kick"
  /\ UNCHANGED <<avail, handler, seen, devVars, wireVars, activation, stop, tokens>>

(* The notification register write; KVM signals the eventfd.               *)
Kick ==
  /\ driver = "kick" /\ driver' = "idle"
  /\ kick' = TRUE
  /\ UNCHANGED <<avail, handler, seen, devVars, noNotify, isr, irq, activation, stop, tokens>>

TakeIrq ==
  /\ handler = "wait" /\ irq
  /\ irq' = FALSE /\ handler' = "ack"
  /\ UNCHANGED <<avail, driver, seen, devVars, noNotify, kick, isr, activation, stop, tokens>>

(* The handler reads and acknowledges the status; an empty status is not   *)
(* this device's interrupt.                                                *)
AckStatus ==
  /\ handler = "ack"
  /\ handler' = IF isr THEN "scan" ELSE "wait"
  /\ isr' = FALSE
  /\ UNCHANGED <<avail, driver, seen, devVars, noNotify, kick, irq, activation, stop, tokens>>

ScanUsed ==
  /\ handler = "scan" /\ handler' = "wait"
  /\ seen' = Len(used)
  /\ UNCHANGED <<avail, driver, devVars, wireVars, activation, stop, tokens>>

--------------------------------------------------------------------------------
Task ==
  \/ StopTask \/ StartServing \/ ReadKick \/ Resume
  \/ DisableNotification \/ PopNothing \/ PopChain \/ Throttle \/ Complete \/ AddUsed
  \/ EnableNotification \/ RecheckAvail \/ SetStatus \/ RaiseIrq

Submitter == CheckFlag \/ Kick
Handler == TakeIrq \/ AckStatus \/ ScanUsed

Next ==
  \/ RequestStop \/ Activate \/ DropTransport \/ Refill
  \/ Task \/ Fault
  \/ Publish \/ Submitter \/ Handler

Spec == Init /\ [][Next]_vars

(* The runtime polls a ready task, vcpus run, time passes.  Nothing makes  *)
(* the guest publish, the vmm stop the device or an access fail.           *)
Fairness ==
  /\ WF_vars(Task) /\ WF_vars(Refill)
  /\ WF_vars(Submitter) /\ WF_vars(Handler)

FairSpec == Spec /\ Fairness

--------------------------------------------------------------------------------
DataOK ==
  /\ dev \in Parked \cup Draining \cup {"raise", "ended"}
  /\ activation \in {"none", "valid", "invalid", "closed"}
  /\ outcome \in {"none", "ok", "err"}
  /\ nextAvail \in Nat /\ inHand \in Nat /\ avail \in Nat /\ seen \in Nat
  /\ written \in SUBSET Nat
  /\ used \in Seq(Nat)
  /\ tokens \in 0 .. Capacity
  /\ driver \in {"idle", "check", "kick"}
  /\ handler \in {"wait", "ack", "scan"}

FlagsOK ==
  /\ stop \in BOOLEAN /\ completedAny \in BOOLEAN /\ throttled \in BOOLEAN
  /\ noNotify \in BOOLEAN /\ kick \in BOOLEAN /\ isr \in BOOLEAN /\ irq \in BOOLEAN

(* Every variable keeps its type; the bucket never holds more than its     *)
(* capacity.                                                               *)
TypeOK == DataOK /\ FlagsOK

(* The used ring returns the chains the driver published, each once and in *)
(* their order, a throttled chain put back included, and none before its   *)
(* data and status byte are in guest memory; drain() holds at most the     *)
(* next one.                                                               *)
UsedInOrder ==
  /\ \A i \in DOMAIN used : used[i] = i /\ i \in written
  /\ nextAvail = Len(used) + (IF inHand = 0 THEN 0 ELSE 1)
  /\ inHand \in {0, nextAvail}
  /\ nextAvail <= avail

(* A task parked on the kick eventfd, with no kick pending and no driver   *)
(* about to send one, has nothing left to serve: the disable / enable /    *)
(* re-check protocol of drain() loses no chain published meanwhile, nor    *)
(* one published while the rate limit held notifications off.              *)
NoLostKick ==
  dev = "serving" /\ ~throttled /\ ~kick /\ driver = "idle" => nextAvail = avail

(* A completion the driver has not consumed is still announced: drain() is *)
(* about to raise the interrupt, it is raised with its status bit set, or  *)
(* the handler is at work; unless an error cut drain() short.              *)
InterruptPending ==
  \/ dev \in Draining /\ completedAny
  \/ dev = "raise" /\ isr
  \/ isr /\ (irq \/ handler = "ack")
  \/ handler = "scan"
NoLostInterrupt == seen < Len(used) /\ outcome # "err" => InterruptPending

(* Once stop is raised the task starts no further request.                 *)
StopStartsNothing == [][stop => nextAvail' = nextAvail]_vars

(* A raised stop ends the task wherever it is.                             *)
StopEnds == stop ~> (dev = "ended")

--------------------------------------------------------------------------------
(* The abstract device: it is open until run() returns, and broken when    *)
(* that was an error.                                                      *)
Service == INSTANCE BlockService WITH
  submitted <- avail, done <- Len(used), delivered <- seen,
  state <- CASE dev # "ended" -> "open" [] outcome = "ok" -> "closed" [] OTHER -> "broken"

(* The task implements it: every published request is served once and in   *)
(* order, and through suppressed kicks, limits and coalesced interrupts    *)
(* its completion reaches the driver, unless the task ends first.          *)
ServiceSpec == Service!Spec
ServiceFairSpec == Service!FairSpec
================================================================================
