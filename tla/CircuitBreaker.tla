--------------------------- MODULE CircuitBreaker ---------------------------
(***************************************************************************)
(* CircuitBreaker.sol: an administrator's untimed pause, global or for one *)
(* agent.  A global pause is lifted in two steps, a request and, at least  *)
(* EMERGENCY_RESUME_DELAY later, the resume itself.                        *)
(*                                                                         *)
(* The variable now is block.timestamp, shared by every contract.  All     *)
(* transactions of one block see the same value; Tick starts a later block.*)
(***************************************************************************)
EXTENDS Integers

CONSTANTS
    Addr,                    \* accounts that act as buyer or as agent
    MaxTime,                 \* bound: block.timestamp stays within 1..MaxTime
    EMERGENCY_RESUME_DELAY   \* 24 hours in the contract

ASSUME MaxTimeAssumption == MaxTime \in Nat \ {0}
ASSUME DelayAssumption   == EMERGENCY_RESUME_DELAY \in Nat

VARIABLES
    now,
    globalPaused,
    emergencyResumeRequestedAt,    \* 0: no request
    agentPaused

breakerVars == <<globalPaused, emergencyResumeRequestedAt, agentPaused>>

Time == 1..MaxTime

BreakerTypeOK ==
    /\ now \in Time
    /\ globalPaused \in BOOLEAN
    /\ emergencyResumeRequestedAt \in 0..MaxTime
    /\ agentPaused \in [Addr -> BOOLEAN]

BreakerInit ==
    /\ now = 1
    /\ globalPaused = FALSE
    /\ emergencyResumeRequestedAt = 0
    /\ agentPaused = [a \in Addr |-> FALSE]

-----------------------------------------------------------------------------
\* The administrator's calls (onlyAdmin).

pauseAgent(a) ==
    /\ agentPaused' = [agentPaused EXCEPT ![a] = TRUE]
    /\ UNCHANGED <<now, globalPaused, emergencyResumeRequestedAt>>

resumeAgent(a) ==
    /\ agentPaused' = [agentPaused EXCEPT ![a] = FALSE]
    /\ UNCHANGED <<now, globalPaused, emergencyResumeRequestedAt>>

\* Mutant: a new pause leaves a waiting resume request alone.
pauseKeepsRequest ==
    /\ globalPaused' = TRUE
    /\ UNCHANGED <<now, agentPaused, emergencyResumeRequestedAt>>

\* A new pause voids a resume request that is still waiting.
emergencyPause ==
    /\ globalPaused' = TRUE
    /\ emergencyResumeRequestedAt' = 0
    /\ UNCHANGED <<now, agentPaused>>

\* A repeated request starts the delay again.
requestEmergencyResume ==
    /\ globalPaused
    /\ emergencyResumeRequestedAt' = now
    /\ UNCHANGED <<now, globalPaused, agentPaused>>

emergencyResume ==
    /\ emergencyResumeRequestedAt # 0
    /\ now >= emergencyResumeRequestedAt + EMERGENCY_RESUME_DELAY
    /\ emergencyResumeRequestedAt' = 0
    /\ globalPaused' = FALSE
    /\ UNCHANGED <<now, agentPaused>>

OtherBreakerCalls ==
    \/ \E a \in Addr : pauseAgent(a)
    \/ \E a \in Addr : resumeAgent(a)
    \/ requestEmergencyResume
    \/ emergencyResume

BreakerNext == emergencyPause \/ OtherBreakerCalls

=============================================================================
