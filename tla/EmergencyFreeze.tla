--------------------------- MODULE EmergencyFreeze ---------------------------
(***************************************************************************)
(* EmergencyFreeze.sol: timed freezes of everything, of one account, of    *)
(* one bill or of one binding, on top of the untimed CircuitBreaker.  The  *)
(* bilateral contract asks payoutBlocked before it pays a seller.          *)
(*                                                                         *)
(* freezeGlobal, freezeAgent, freezeBill and freezeBinding may be called   *)
(* by admin or freezeOperator; both are trusted alike, so the caller is    *)
(* not part of the state.                                                  *)
(***************************************************************************)
EXTENDS CircuitBreaker

CONSTANTS
    MaxBills,               \* bound: bills are numbered 1..MaxBills
    MaxBindings,            \* bound: bindings are numbered 1..MaxBindings
    MAX_FREEZE_DURATION,    \* 7 days in the contract
    FreezeDurations         \* durations an operator may ask for, legal or not

ASSUME BoundsAssumption   == MaxBills \in Nat /\ MaxBindings \in Nat
ASSUME DurationAssumption == /\ MAX_FREEZE_DURATION \in Nat
                             /\ FreezeDurations \subseteq Nat

VARIABLES
    circuitBreaker,         \* TRUE: a breaker is wired into the freeze contract
    globalFreezeUntil,
    agentFreezeUntil,
    billFreezeUntil,
    bindingFreezeUntil

overlayVars == <<circuitBreaker, globalFreezeUntil, agentFreezeUntil,
                 billFreezeUntil, bindingFreezeUntil>>
freezeVars  == <<breakerVars, overlayVars>>

BillId    == 1..MaxBills
BindingId == 1..MaxBindings

FreezeTypeOK ==
    /\ BreakerTypeOK
    /\ circuitBreaker \in BOOLEAN
    /\ globalFreezeUntil \in Nat
    /\ agentFreezeUntil \in [Addr -> Nat]
    /\ billFreezeUntil \in [BillId -> Nat]
    /\ bindingFreezeUntil \in [BindingId -> Nat]

\* Deployment wires the breaker (DeployKarmaBilateral.s.sol) and freezes nothing.
FreezeInit ==
    /\ BreakerInit
    /\ circuitBreaker = TRUE
    /\ globalFreezeUntil = 0
    /\ agentFreezeUntil = [a \in Addr |-> 0]
    /\ billFreezeUntil = [i \in BillId |-> 0]
    /\ bindingFreezeUntil = [i \in BindingId |-> 0]

-----------------------------------------------------------------------------
\* Views.

untilActive(until) == until # 0 /\ now < until

breakerGlobalPaused   == circuitBreaker /\ globalPaused
breakerAgentPaused(a) == circuitBreaker /\ agentPaused[a]

isGlobalFrozen == untilActive(globalFreezeUntil) \/ breakerGlobalPaused

\* The contract also reports which scope blocks and until when; only the
\* verdict reaches a caller that does not revert.
payoutBlocked(binding, buyerBill, agentBill, buyer, agent) ==
    \/ isGlobalFrozen
    \/ untilActive(bindingFreezeUntil[binding])
    \/ \E bill \in {buyerBill, agentBill} : untilActive(billFreezeUntil[bill])
    \/ \E a \in {buyer, agent} : untilActive(agentFreezeUntil[a])
    \/ \E a \in {buyer, agent} : breakerAgentPaused(a)

bindBlocked(buyer, agent, buyerBill, agentBill) ==
    \/ isGlobalFrozen
    \/ \E a \in {buyer, agent} : untilActive(agentFreezeUntil[a])
    \/ \E a \in {buyer, agent} : breakerAgentPaused(a)
    \/ \E bill \in {buyerBill, agentBill} : untilActive(billFreezeUntil[bill])

-----------------------------------------------------------------------------
\* Operator calls.

\* Mutant: no MAX_FREEZE_DURATION.
nonzeroDuration(d) == d # 0

legalDuration(d) == d # 0 /\ d <= MAX_FREEZE_DURATION

freezeGlobal(d) ==
    /\ legalDuration(d)
    /\ globalFreezeUntil' = now + d
    /\ UNCHANGED <<now, breakerVars, circuitBreaker, agentFreezeUntil,
                   billFreezeUntil, bindingFreezeUntil>>

unfreezeGlobal ==
    /\ globalFreezeUntil' = 0
    /\ UNCHANGED <<now, breakerVars, circuitBreaker, agentFreezeUntil,
                   billFreezeUntil, bindingFreezeUntil>>

freezeAgent(a, d) ==
    /\ legalDuration(d)
    /\ agentFreezeUntil' = [agentFreezeUntil EXCEPT ![a] = now + d]
    /\ UNCHANGED <<now, breakerVars, circuitBreaker, globalFreezeUntil,
                   billFreezeUntil, bindingFreezeUntil>>

unfreezeAgent(a) ==
    /\ agentFreezeUntil' = [agentFreezeUntil EXCEPT ![a] = 0]
    /\ UNCHANGED <<now, breakerVars, circuitBreaker, globalFreezeUntil,
                   billFreezeUntil, bindingFreezeUntil>>

freezeBill(i, d) ==
    /\ legalDuration(d)
    /\ billFreezeUntil' = [billFreezeUntil EXCEPT ![i] = now + d]
    /\ UNCHANGED <<now, breakerVars, circuitBreaker, globalFreezeUntil,
                   agentFreezeUntil, bindingFreezeUntil>>

unfreezeBill(i) ==
    /\ billFreezeUntil' = [billFreezeUntil EXCEPT ![i] = 0]
    /\ UNCHANGED <<now, breakerVars, circuitBreaker, globalFreezeUntil,
                   agentFreezeUntil, bindingFreezeUntil>>

freezeBinding(i, d) ==
    /\ legalDuration(d)
    /\ bindingFreezeUntil' = [bindingFreezeUntil EXCEPT ![i] = now + d]
    /\ UNCHANGED <<now, breakerVars, circuitBreaker, globalFreezeUntil,
                   agentFreezeUntil, billFreezeUntil>>

unfreezeBinding(i) ==
    /\ bindingFreezeUntil' = [bindingFreezeUntil EXCEPT ![i] = 0]
    /\ UNCHANGED <<now, breakerVars, circuitBreaker, globalFreezeUntil,
                   agentFreezeUntil, billFreezeUntil>>

\* The administrator may wire a breaker or (address zero) detach it.
setCircuitBreaker(wired) ==
    /\ circuitBreaker' = wired
    /\ UNCHANGED <<now, breakerVars, globalFreezeUntil, agentFreezeUntil,
                   billFreezeUntil, bindingFreezeUntil>>

OverlayNext ==
    \/ \E d \in FreezeDurations : freezeGlobal(d)
    \/ unfreezeGlobal
    \/ \E a \in Addr, d \in FreezeDurations : freezeAgent(a, d)
    \/ \E a \in Addr : unfreezeAgent(a)
    \/ \E i \in BillId, d \in FreezeDurations : freezeBill(i, d)
    \/ \E i \in BillId : unfreezeBill(i)
    \/ \E i \in BindingId, d \in FreezeDurations : freezeBinding(i, d)
    \/ \E i \in BindingId : unfreezeBinding(i)
    \/ \E wired \in BOOLEAN : setCircuitBreaker(wired)

\* Every call of either contract; the clock moves in the composed modules.
FreezeNext ==
    \/ BreakerNext /\ UNCHANGED overlayVars
    \/ OverlayNext

=============================================================================
