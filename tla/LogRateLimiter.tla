----------------------------- MODULE LogRateLimiter -----------------------------
(***************************************************************************)
(* One rate-limited log callsite: the GCRA limiter of                      *)
(* crates/logger/src/rate_limited.rs, shared by every thread that reaches  *)
(* the callsite, and the macro around it (crates/logger/src/lib.rs).       *)
(*                                                                         *)
(* A thread reads the clock once, then loads the state word, decides, and  *)
(* publishes its decision with a compare-and-swap that may fail: one       *)
(* action each, so a decision may rest on a clock and on a state that      *)
(* others have since moved.  The word is the pair of its two fields; the   *)
(* clock stays below the 2^40 ms (34 years) after which tat_ms would wrap. *)
(***************************************************************************)
EXTENDS Integers

CONSTANTS
  Threads,
  BURST, REFILL_MS,  \* the limiter's parameters
  MAX_SUPPRESSED,    \* 2^24 - 1
  CAS_RETRY_LIMIT,   \* 16
  CallsiteLevel,     \* the level of the callsite's records
  MaxTime,           \* bound: the clock
  MaxChecks          \* bound: calls that reach the limiter

(* The const asserts of PERIOD_PER_TOKEN_MS, and the log levels.           *)
ASSUME LimiterAssumption ==
  /\ BURST \in Nat \ {0} /\ REFILL_MS \in Nat \ {0}
  /\ REFILL_MS \div BURST > 0
  /\ MAX_SUPPRESSED \in Nat \ {0} /\ CAS_RETRY_LIMIT \in Nat \ {0}
  /\ CallsiteLevel \in Nat
  /\ MaxTime \in Nat /\ MaxChecks \in Nat

PERIOD_PER_TOKEN_MS == REFILL_MS \div BURST

(* log::Level: a record is let through up to the maximum level.            *)
Error == 1
Warn  == 2

VARIABLES
  clock,      \* Instant::now() since EPOCH, in ms
  state,      \* the AtomicU64
  maxLevel,   \* log::max_level()
  pc,         \* where each thread stands in the macro
  nowMs,      \* check's now_ms
  loaded,     \* check's `state`, as loaded
  tries,      \* iterations of the retry loop used up
  due,        \* the Emit's `suppressed`
  checks,     \* calls so far
  denied,     \* history: calls check() denied since the last Emit
  outraced,   \* history: those of them that ran out of swaps
  reported,   \* history: the sum of the notices let through
  mark,       \* history: an instant from which admissions are counted
  fresh       \* history: admissions since then of calls not older than it

threadVars == <<pc, nowMs, loaded, tries, due>>
historyVars == <<checks, denied, outraced, reported, mark, fresh>>
vars == <<clock, state, maxLevel, threadVars, historyVars>>

States == [tat : Nat, suppressed : 0 .. MAX_SUPPRESSED]

Init ==
  /\ clock = 0 /\ state = [tat |-> 0, suppressed |-> 0]
  /\ maxLevel \in {Error, Warn}
  /\ pc = [t \in Threads |-> "idle"]
  /\ nowMs = [t \in Threads |-> 0]
  /\ loaded = [t \in Threads |-> [tat |-> 0, suppressed |-> 0]]
  /\ tries = [t \in Threads |-> 0]
  /\ due = [t \in Threads |-> 0]
  /\ checks = 0 /\ denied = 0 /\ outraced = 0 /\ reported = 0
  /\ mark = 0 /\ fresh = 0

Tick ==
  /\ clock < MaxTime /\ clock' = clock + 1
  /\ UNCHANGED <<state, maxLevel, threadVars, historyVars>>

(* logger_backend::update sets another maximum level.                      *)
SetMaxLevel ==
  /\ maxLevel' \in {Error, Warn}
  /\ UNCHANGED <<clock, state, threadVars, historyVars>>

(* Start counting admissions anew: nothing in the code, everything in      *)
(* BurstBound.                                                             *)
Mark ==
  /\ mark' = clock /\ fresh' = 0
  /\ UNCHANGED <<clock, state, maxLevel, threadVars, checks, denied, outraced, reported>>

--------------------------------------------------------------------------------
(* The decision check() takes on a loaded state.                           *)

Earliest(s, now) == IF s.tat > now THEN s.tat ELSE now

NewTat(s, now) == Earliest(s, now) + PERIOD_PER_TOKEN_MS

(* MUTANT of Denied: the deficit is taken before the new token.            *)
DeniedLate(s, now) == Earliest(s, now) - now > REFILL_MS

Denied(s, now) == NewTat(s, now) - now > REFILL_MS

(* MUTANT of DeniedState: the counter does not saturate.                   *)
DeniedStateUnbounded(s) == [s EXCEPT !.suppressed = @ + 1]

(* pack() saturates the counter.                                           *)
DeniedState(s) ==
  [s EXCEPT !.suppressed = IF @ < MAX_SUPPRESSED THEN @ + 1 ELSE MAX_SUPPRESSED]

AdmittedState(s, now) == [tat |-> NewTat(s, now), suppressed |-> 0]

--------------------------------------------------------------------------------
(* A thread at the callsite.                                               *)

(* The level check passes and check() reads the clock.                     *)
Call(t) ==
  /\ pc[t] = "idle" /\ checks < MaxChecks
  /\ CallsiteLevel <= maxLevel
  /\ pc' = [pc EXCEPT ![t] = "load"]
  /\ nowMs' = [nowMs EXCEPT ![t] = clock]
  /\ tries' = [tries EXCEPT ![t] = 0]
  /\ checks' = checks + 1
  /\ UNCHANGED <<clock, state, maxLevel, loaded, due, denied, outraced, reported, mark, fresh>>

Load(t) ==
  /\ pc[t] = "load"
  /\ pc' = [pc EXCEPT ![t] = "swap"]
  /\ loaded' = [loaded EXCEPT ![t] = state]
  /\ UNCHANGED <<clock, state, maxLevel, nowMs, tries, due, historyVars>>

(* MUTANT of Unchanged: a store in place of the compare-and-swap.          *)
UnchangedNotAsked(t) == TRUE

(* compare_exchange_weak may succeed.                                      *)
Unchanged(t) == state = loaded[t]

Admit(t) ==
  /\ pc[t] = "swap" /\ Unchanged(t) /\ ~Denied(loaded[t], nowMs[t])
  /\ state' = AdmittedState(loaded[t], nowMs[t])
  /\ due' = [due EXCEPT ![t] = loaded[t].suppressed]
  /\ pc' = [pc EXCEPT ![t] = "report"]
  /\ denied' = 0 /\ outraced' = 0
  /\ fresh' = IF nowMs[t] >= mark THEN fresh + 1 ELSE fresh
  /\ UNCHANGED <<clock, maxLevel, nowMs, loaded, tries, checks, reported, mark>>

Deny(t) ==
  /\ pc[t] = "swap" /\ Unchanged(t) /\ Denied(loaded[t], nowMs[t])
  /\ state' = DeniedState(loaded[t])
  /\ pc' = [pc EXCEPT ![t] = "idle"]
  /\ denied' = denied + 1
  /\ UNCHANGED <<clock, maxLevel, nowMs, loaded, tries, due, checks, outraced, reported,
                 mark, fresh>>

(* The swap fails, spuriously or because another thread's did not.         *)
SwapFails(t) ==
  /\ pc[t] = "swap" /\ tries[t] + 1 < CAS_RETRY_LIMIT
  /\ tries' = [tries EXCEPT ![t] = @ + 1]
  /\ pc' = [pc EXCEPT ![t] = "load"]
  /\ UNCHANGED <<clock, state, maxLevel, nowMs, loaded, due, historyVars>>

(* The last swap fails too: the call is denied, whatever the decision was, *)
(* and the state is not touched.                                           *)
GiveUp(t) ==
  /\ pc[t] = "swap" /\ tries[t] + 1 >= CAS_RETRY_LIMIT
  /\ tries' = [tries EXCEPT ![t] = @ + 1]
  /\ pc' = [pc EXCEPT ![t] = "idle"]
  /\ denied' = denied + 1 /\ outraced' = outraced + 1
  /\ UNCHANGED <<clock, state, maxLevel, nowMs, loaded, due, checks, reported, mark, fresh>>

(* The macro first reports what was suppressed, at level Warn ...          *)
Report(t) ==
  /\ pc[t] = "report"
  /\ reported' = IF Warn <= maxLevel THEN reported + due[t] ELSE reported
  /\ due' = [due EXCEPT ![t] = 0]
  /\ pc' = [pc EXCEPT ![t] = "record"]
  /\ UNCHANGED <<clock, state, maxLevel, nowMs, loaded, tries, checks, denied, outraced, mark, fresh>>

(* ... then logs the record.                                               *)
Record(t) ==
  /\ pc[t] = "record"
  /\ pc' = [pc EXCEPT ![t] = "idle"]
  /\ UNCHANGED <<clock, state, maxLevel, nowMs, loaded, tries, due, historyVars>>

--------------------------------------------------------------------------------
Step(t) ==
  \/ Call(t) \/ Load(t) \/ Admit(t) \/ Deny(t) \/ SwapFails(t) \/ GiveUp(t)
  \/ Report(t) \/ Record(t)

Next == Tick \/ SetMaxLevel \/ Mark \/ \E t \in Threads : Step(t)

Spec == Init /\ [][Next]_vars

--------------------------------------------------------------------------------
TypeOK ==
  /\ clock \in Nat /\ maxLevel \in {Error, Warn}
  /\ state \in States
  /\ pc \in [Threads -> {"idle", "load", "swap", "report", "record"}]
  /\ nowMs \in [Threads -> Nat]
  /\ loaded \in [Threads -> States]
  /\ tries \in [Threads -> Nat]
  /\ due \in [Threads -> 0 .. MAX_SUPPRESSED]
  /\ checks \in Nat /\ denied \in Nat /\ outraced \in Nat /\ reported \in Nat
  /\ mark \in Nat /\ fresh \in Nat

(* From any instant on, the calls made since are admitted no faster than   *)
(* one every period after a burst of REFILL_MS / period of them, however   *)
(* the threads race and however stale the clock a thread decides on.       *)
BurstBound == fresh * PERIOD_PER_TOKEN_MS <= REFILL_MS + (clock - mark)

Saturated(n) == IF n < MAX_SUPPRESSED THEN n ELSE MAX_SUPPRESSED

(* The state counts, up to saturation, the denials since the last Emit but *)
(* those of calls that ran out of swaps: a denial that check() did publish *)
(* is lost to no racing swap, and none outlives the Emit that took it.     *)
(* Verdict::Emit documents a count of every denied call                    *)
(* (rate_limited.rs:53-54); the calls that gave up (line 158) are not in   *)
(* it, and here they are all that is missing.                              *)
SuppressedExact == state.suppressed = Saturated(denied - outraced)

--------------------------------------------------------------------------------
(* What the documentation says beyond that, and the code does not do.      *)

(* "Once the callsite is allowed to log again it first reports how many    *)
(* messages the limiter dropped in the meantime" (lib.rs:112).             *)
NoticeComesFirst ==
  [][\A t \in Threads : pc[t] = "report" /\ pc'[t] = "record"
       => reported' = reported + due[t]]_vars
================================================================================
