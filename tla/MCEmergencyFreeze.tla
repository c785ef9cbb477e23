-------------------------- MODULE MCEmergencyFreeze --------------------------
(***************************************************************************)
(* The freeze overlay and its circuit breaker on their own, with a history *)
(* variable for the last emergencyPause.                                   *)
(***************************************************************************)
EXTENDS EmergencyFreeze, TLAPS

VARIABLE lastPauseAt    \* when emergencyPause was last called, 0: never

mcVars == <<now, freezeVars, lastPauseAt>>

MCInit == FreezeInit /\ lastPauseAt = 0

FreezeTick ==
    /\ now < MaxTime
    /\ now' = now + 1
    /\ UNCHANGED freezeVars

MCNext ==
    \/ emergencyPause /\ UNCHANGED overlayVars /\ lastPauseAt' = now
    \/ OtherBreakerCalls /\ UNCHANGED <<overlayVars, lastPauseAt>>
    \/ OverlayNext /\ UNCHANGED lastPauseAt
    \/ FreezeTick /\ UNCHANGED lastPauseAt

MCSpec == MCInit /\ [][MCNext]_mcVars

\* Two operators of the pause: an emergencyPause that lands between a resume
\* request and the resume restarts the delay, so a global pause is never lifted
\* earlier than EMERGENCY_RESUME_DELAY after the last emergencyPause.
PauseOutlastsDelay ==
    [][globalPaused /\ ~globalPaused'
          => now >= lastPauseAt + EMERGENCY_RESUME_DELAY]_mcVars

\* No timed freeze, however often it is renewed or replaced and whichever scope it
\* has, reaches further than MAX_FREEZE_DURATION into the future.
FreezesExpire ==
    LET horizon == now + MAX_FREEZE_DURATION IN
    /\ globalFreezeUntil <= horizon
    /\ \A a \in Addr : agentFreezeUntil[a] <= horizon
    /\ \A i \in BillId : billFreezeUntil[i] <= horizon
    /\ \A i \in BindingId : bindingFreezeUntil[i] <= horizon

-----------------------------------------------------------------------------
\* Proofs, for any number of accounts, any delay and any list of durations.

\* A resume request is never older than the last pause: a new pause voids the one
\* that waits.
RequestFollowsPause ==
    /\ lastPauseAt \in Nat /\ lastPauseAt <= now
    /\ emergencyResumeRequestedAt # 0 => emergencyResumeRequestedAt >= lastPauseAt

TimesTypeOK ==
    /\ now \in Nat
    /\ emergencyResumeRequestedAt \in Nat
    /\ globalFreezeUntil \in Nat
    /\ agentFreezeUntil \in [Addr -> Nat]
    /\ billFreezeUntil \in [BillId -> Nat]
    /\ bindingFreezeUntil \in [BindingId -> Nat]

FreezeInv == TimesTypeOK /\ RequestFollowsPause /\ FreezesExpire

LEMMA InitFreezeInv == MCInit => FreezeInv
  BY DurationAssumption
  DEF MCInit, FreezeInit, BreakerInit, FreezeInv, TimesTypeOK, RequestFollowsPause, FreezesExpire

\* The calls of the breaker.
LEMMA BreakerFreezeInv ==
    ASSUME FreezeInv, UNCHANGED overlayVars,
           \/ emergencyPause /\ lastPauseAt' = now
           \/ OtherBreakerCalls /\ UNCHANGED lastPauseAt
    PROVE  FreezeInv'
  <1>1. now' = now
    BY DEF emergencyPause, OtherBreakerCalls, pauseAgent, resumeAgent, requestEmergencyResume,
           emergencyResume
  <1>2. TimesTypeOK' /\ FreezesExpire'
    BY <1>1 DEF FreezeInv, TimesTypeOK, FreezesExpire, overlayVars, emergencyPause,
           OtherBreakerCalls, pauseAgent, resumeAgent, requestEmergencyResume, emergencyResume
  <1>3. RequestFollowsPause'
    BY <1>1 DEF FreezeInv, TimesTypeOK, RequestFollowsPause, emergencyPause,
           OtherBreakerCalls, pauseAgent, resumeAgent, requestEmergencyResume, emergencyResume
  <1> QED BY <1>2, <1>3 DEF FreezeInv

\* The calls of the freeze contract: each sets one scope to at most the horizon.
LEMMA OverlayFreezeInv ==
    ASSUME FreezeInv, OverlayNext, UNCHANGED lastPauseAt
    PROVE  FreezeInv'
  <1> USE DEF FreezeInv, TimesTypeOK, FreezesExpire
  <1>1. UNCHANGED <<now, emergencyResumeRequestedAt>>
    BY DEF OverlayNext, freezeGlobal, unfreezeGlobal, freezeAgent, unfreezeAgent, freezeBill,
           unfreezeBill, freezeBinding, unfreezeBinding, setCircuitBreaker, breakerVars
  <1>2. RequestFollowsPause'
    BY <1>1 DEF RequestFollowsPause
  <1>3. ASSUME NEW d \in FreezeDurations, legalDuration(d)
        PROVE  now + d \in Nat /\ now + d <= now + MAX_FREEZE_DURATION
    BY <1>3, DurationAssumption DEF legalDuration
  <1>4. MAX_FREEZE_DURATION \in Nat /\ 0 <= now + MAX_FREEZE_DURATION
    BY DurationAssumption
  <1>5. globalFreezeUntil' \in Nat /\ globalFreezeUntil' <= now + MAX_FREEZE_DURATION
    BY <1>3, <1>4
    DEF OverlayNext, freezeGlobal, unfreezeGlobal, freezeAgent, unfreezeAgent, freezeBill,
        unfreezeBill, freezeBinding, unfreezeBinding, setCircuitBreaker
  <1>6. /\ agentFreezeUntil' \in [Addr -> Nat]
        /\ \A a \in Addr : agentFreezeUntil'[a] <= now + MAX_FREEZE_DURATION
    BY <1>3, <1>4
    DEF OverlayNext, freezeGlobal, unfreezeGlobal, freezeAgent, unfreezeAgent, freezeBill,
        unfreezeBill, freezeBinding, unfreezeBinding, setCircuitBreaker
  <1>7. /\ billFreezeUntil' \in [BillId -> Nat]
        /\ \A i \in BillId : billFreezeUntil'[i] <= now + MAX_FREEZE_DURATION
    BY <1>3, <1>4
    DEF OverlayNext, freezeGlobal, unfreezeGlobal, freezeAgent, unfreezeAgent, freezeBill,
        unfreezeBill, freezeBinding, unfreezeBinding, setCircuitBreaker
  <1>8. /\ bindingFreezeUntil' \in [BindingId -> Nat]
        /\ \A i \in BindingId : bindingFreezeUntil'[i] <= now + MAX_FREEZE_DURATION
    BY <1>3, <1>4
    DEF OverlayNext, freezeGlobal, unfreezeGlobal, freezeAgent, unfreezeAgent, freezeBill,
        unfreezeBill, freezeBinding, unfreezeBinding, setCircuitBreaker
  <1> QED BY <1>1, <1>2, <1>5, <1>6, <1>7, <1>8 DEF BillId, BindingId

LEMMA NextFreezeInv == FreezeInv /\ [MCNext]_mcVars => FreezeInv'
  <1> SUFFICES ASSUME FreezeInv, [MCNext]_mcVars PROVE FreezeInv'
    OBVIOUS
  <1>1. CASE FreezeTick /\ UNCHANGED lastPauseAt
    <2>1. now' = now + 1 /\ UNCHANGED <<emergencyResumeRequestedAt, overlayVars, lastPauseAt>>
      BY <1>1 DEF FreezeTick, freezeVars, breakerVars
    <2> QED BY <2>1, DurationAssumption
        DEF FreezeInv, TimesTypeOK, RequestFollowsPause, FreezesExpire, overlayVars, BillId, BindingId
  <1>2. CASE UNCHANGED mcVars
    BY <1>2 DEF mcVars, freezeVars, breakerVars, overlayVars, FreezeInv, TimesTypeOK,
                RequestFollowsPause, FreezesExpire, BillId, BindingId
  <1> QED BY <1>1, <1>2, BreakerFreezeInv, OverlayFreezeInv DEF MCNext

LEMMA FreezeInvariant == MCSpec => []FreezeInv
  BY InitFreezeInv, NextFreezeInv, PTL DEF MCSpec

\* Every freeze runs out: no sequence of freezes and renewals blocks a payout for
\* longer than MAX_FREEZE_DURATION after the last of them.
THEOREM FreezesAlwaysExpire == MCSpec => []FreezesExpire
  BY FreezeInvariant, PTL DEF FreezeInv

\* A global pause outlasts the resume delay, counted from the last emergencyPause,
\* in whatever order pauses, requests and resumes are called.
THEOREM PauseAlwaysOutlasts == MCSpec => PauseOutlastsDelay
  <1>1. FreezeInv /\ [MCNext]_mcVars
            => [globalPaused /\ ~globalPaused' => now >= lastPauseAt + EMERGENCY_RESUME_DELAY]_mcVars
    <2> SUFFICES ASSUME FreezeInv, MCNext, globalPaused, ~globalPaused'
                 PROVE  now >= lastPauseAt + EMERGENCY_RESUME_DELAY
      OBVIOUS
    <2>1. emergencyResume
      <3>1. CASE emergencyPause
        BY <3>1 DEF emergencyPause
      <3>2. CASE OtherBreakerCalls
        BY <3>2, Zenon DEF OtherBreakerCalls, pauseAgent, resumeAgent, requestEmergencyResume
      <3>3. CASE OverlayNext
        <4>1. UNCHANGED breakerVars
          BY <3>3, Zenon
          DEF OverlayNext, freezeGlobal, unfreezeGlobal, freezeAgent, unfreezeAgent, freezeBill,
              unfreezeBill, freezeBinding, unfreezeBinding, setCircuitBreaker
        <4> QED BY <4>1, Zenon DEF breakerVars
      <3>4. CASE FreezeTick
        BY <3>4, Zenon DEF FreezeTick, freezeVars, breakerVars
      <3> QED BY <3>1, <3>2, <3>3, <3>4 DEF MCNext
    <2> QED BY <2>1, DelayAssumption
        DEF emergencyResume, FreezeInv, TimesTypeOK, RequestFollowsPause
  <1> QED BY FreezeInvariant, <1>1, PTL DEF MCSpec, PauseOutlastsDelay

=============================================================================
