-------------------------- MODULE LogRateLimiter_proofs --------------------------
(***************************************************************************)
(* What holds of a rate-limited callsite for any number of threads, any    *)
(* burst, window and clock: type correctness, the rate it admits calls at, *)
(* and what the suppressed counter counts: every denial that a swap        *)
(* published, and none of the calls that ran out of swaps.                 *)
(***************************************************************************)
EXTENDS LogRateLimiter, TLAPS

P == PERIOD_PER_TOKEN_MS

LEMMA PeriodPositive == P \in Nat \ {0}
BY LimiterAssumption DEF LimiterAssumption, P, PERIOD_PER_TOKEN_MS

(* tat is at most one window ahead of the clock, and the admissions since  *)
(* the mark have each pushed it one period past the mark.                  *)
TatInv ==
  /\ \A t \in Threads : nowMs[t] <= clock
  /\ mark <= clock
  /\ state.tat <= clock + REFILL_MS
  /\ fresh # 0 => mark + fresh * P <= state.tat

IInv == TypeOK /\ TatInv /\ SuppressedExact

--------------------------------------------------------------------------------
LEMMA TypeStep == TypeOK /\ [Next]_vars => TypeOK'
<1> SUFFICES ASSUME TypeOK, [Next]_vars PROVE TypeOK'
  OBVIOUS
<1> USE LimiterAssumption, PeriodPositive DEF LimiterAssumption, TypeOK, States, threadVars, historyVars
<1>1. CASE Tick \/ SetMaxLevel \/ Mark
  BY <1>1 DEF Tick, SetMaxLevel, Mark
<1>2. ASSUME NEW t \in Threads, Call(t) PROVE TypeOK'
  BY <1>2 DEF Call
<1>3. ASSUME NEW t \in Threads, Load(t) PROVE TypeOK'
  BY <1>3 DEF Load
<1>4. ASSUME NEW t \in Threads, Admit(t) PROVE TypeOK'
  BY <1>4 DEF Admit, AdmittedState, NewTat, Earliest, P
<1>5. ASSUME NEW t \in Threads, Deny(t) PROVE TypeOK'
  BY <1>5 DEF Deny, DeniedState
<1>6. ASSUME NEW t \in Threads, SwapFails(t) \/ GiveUp(t) PROVE TypeOK'
  BY <1>6 DEF SwapFails, GiveUp
<1>7. ASSUME NEW t \in Threads, Report(t) PROVE TypeOK'
  BY <1>7 DEF Report
<1>8. ASSUME NEW t \in Threads, Record(t) PROVE TypeOK'
  BY <1>8 DEF Record
<1>9. CASE UNCHANGED vars
  BY <1>9 DEF vars
<1> QED
  BY <1>1, <1>2, <1>3, <1>4, <1>5, <1>6, <1>7, <1>8, <1>9 DEF Next, Step

(* The clock, the state word and every thread's view of them keep their    *)
(* types; the suppressed counter keeps to its field.                       *)
THEOREM TypeCorrect == Spec => []TypeOK
<1>1. Init => TypeOK
  BY LimiterAssumption DEF LimiterAssumption, Init, TypeOK, States
<1> QED
  BY <1>1, TypeStep, PTL DEF Spec

--------------------------------------------------------------------------------
(* Only Admit moves tat, and only on the state it loaded: past the clock   *)
(* it read, by one period.                                                 *)
LEMMA TatStep == TypeOK /\ TatInv /\ [Next]_vars => TatInv'
<1> SUFFICES ASSUME TypeOK, TatInv, [Next]_vars PROVE TatInv'
  OBVIOUS
<1> USE LimiterAssumption, PeriodPositive
    DEF LimiterAssumption, TypeOK, TatInv, States, threadVars, historyVars
<1>1. CASE Tick
  BY <1>1 DEF Tick
<1>2. CASE SetMaxLevel
  BY <1>2 DEF SetMaxLevel
<1>3. CASE Mark
  BY <1>3 DEF Mark
<1>4. ASSUME NEW t \in Threads, Call(t) PROVE TatInv'
  BY <1>4 DEF Call
<1>5. ASSUME NEW t \in Threads, Admit(t) PROVE TatInv'
  <2> DEFINE tat == NewTat(loaded[t], nowMs[t])
  <2>1. /\ state = loaded[t] /\ state'.tat = tat /\ tat \in Nat
        /\ tat - nowMs[t] <= REFILL_MS
        /\ tat >= state.tat + P /\ tat >= nowMs[t] + P
        /\ UNCHANGED <<clock, nowMs, mark>>
    BY <1>5 DEF Admit, Unchanged, Denied, AdmittedState, NewTat, Earliest, P
  <2>2. state'.tat <= clock + REFILL_MS
    BY <2>1
  <2>3. CASE nowMs[t] < mark
    BY <1>5, <2>1, <2>2, <2>3 DEF Admit
  <2>4. CASE nowMs[t] >= mark
    <3>1. fresh' = fresh + 1
      BY <1>5, <2>4 DEF Admit
    <3>2. fresh' * P = fresh * P + P
      BY <3>1
    <3>3. mark + fresh' * P <= tat
      <4>1. CASE fresh = 0
        BY <4>1, <3>1, <2>1, <2>4
      <4>2. CASE fresh # 0
        <5>1. fresh * P \in Nat
          OBVIOUS
        <5> QED
          BY <4>2, <5>1, <3>2, <2>1
      <4> QED
        BY <4>1, <4>2
    <3> QED
      BY <3>3, <2>1, <2>2
  <2> QED
    BY <2>3, <2>4
<1>6. ASSUME NEW t \in Threads, Deny(t) PROVE TatInv'
  BY <1>6 DEF Deny, DeniedState, Unchanged
<1>7. ASSUME NEW t \in Threads, Load(t) \/ SwapFails(t) \/ GiveUp(t) \/ Report(t) \/ Record(t)
      PROVE TatInv'
  BY <1>7 DEF Load, SwapFails, GiveUp, Report, Record
<1>8. CASE UNCHANGED vars
  BY <1>8 DEF vars
<1> QED
  BY <1>1, <1>2, <1>3, <1>4, <1>5, <1>6, <1>7, <1>8 DEF Next, Step

(* A swap succeeds on the loaded state only, so a denial adds one to the   *)
(* count it saw and an admission clears the count it took.  A call that    *)
(* gives up is denied and outraced at once.                                *)
LEMMA SuppressedStep == TypeOK /\ SuppressedExact /\ [Next]_vars => SuppressedExact'
<1> SUFFICES ASSUME TypeOK, SuppressedExact, [Next]_vars PROVE SuppressedExact'
  OBVIOUS
<1> USE LimiterAssumption
    DEF LimiterAssumption, TypeOK, SuppressedExact, Saturated, States, threadVars, historyVars
<1>1. CASE Tick \/ SetMaxLevel \/ Mark
  BY <1>1 DEF Tick, SetMaxLevel, Mark
<1>2. ASSUME NEW t \in Threads, Admit(t) PROVE SuppressedExact'
  BY <1>2 DEF Admit, AdmittedState
<1>3. ASSUME NEW t \in Threads, Deny(t) PROVE SuppressedExact'
  BY <1>3 DEF Deny, DeniedState, Unchanged
<1>4. ASSUME NEW t \in Threads,
             Call(t) \/ Load(t) \/ SwapFails(t) \/ Report(t) \/ Record(t)
      PROVE SuppressedExact'
  BY <1>4 DEF Call, Load, SwapFails, Report, Record
<1>5. ASSUME NEW t \in Threads, GiveUp(t) PROVE SuppressedExact'
  BY <1>5 DEF GiveUp
<1>6. CASE UNCHANGED vars
  BY <1>6 DEF vars
<1> QED
  BY <1>1, <1>2, <1>3, <1>4, <1>5, <1>6 DEF Next, Step

LEMMA Invariance == Spec => []IInv
<1>1. Init => TatInv /\ SuppressedExact
  BY LimiterAssumption, PeriodPositive
     DEF LimiterAssumption, Init, TatInv, SuppressedExact, Saturated
<1>2. IInv /\ [Next]_vars => (TatInv /\ SuppressedExact)'
  BY TatStep, SuppressedStep DEF IInv
<1> QED
  BY <1>1, <1>2, TypeCorrect, PTL DEF Spec, IInv

(* In every window the calls that began in it are admitted at no more than *)
(* the configured rate beyond one burst.                                   *)
THEOREM RateBound == Spec => []BurstBound
<1>1. IInv => BurstBound
  <2> SUFFICES ASSUME IInv PROVE BurstBound
    OBVIOUS
  <2> USE LimiterAssumption, PeriodPositive
      DEF LimiterAssumption, IInv, TypeOK, States, TatInv, BurstBound, P
  <2>1. CASE fresh = 0
    BY <2>1
  <2>2. CASE fresh # 0
    BY <2>2
  <2> QED
    BY <2>1, <2>2
<1> QED
  BY <1>1, Invariance, PTL

(* Up to saturation, the counter is the denials since the last Emit but    *)
(* those of calls that ran out of swaps, which no swap publishes.          *)
THEOREM SuppressedCount == Spec => []SuppressedExact
BY Invariance, PTL DEF IInv
================================================================================
