-------------------------- MODULE MCKarmaBilateral --------------------------
(***************************************************************************)
(* Instances of the bilateral escrow for TLC.                              *)
(***************************************************************************)
EXTENDS KarmaBilateral, FiniteSets, TLC

\* One time unit per window; pools of 20 and more need the administrator.
MCTiming ==
    [disputeWindowSeconds |-> 1, disputeWindow |-> 1, evidenceWindow |-> 1,
     autoArbitrationThreshold |-> 20, settleTimeoutSeconds |-> 2,
     largeDisputeTimeoutSeconds |-> 1]

NoTimingChange == [f \in TimingFields |-> {}]

\* The administrator stretches and shrinks windows while bindings are open.
TimingChange ==
    [NoTimingChange EXCEPT !["disputeWindow"] = {0, 2}, !["evidenceWindow"] = {0},
                           !["largeDisputeTimeoutSeconds"] = {0, 1}]

\* Accounts are interchangeable.
Accounts == Permutations(Addr)

\* The contracts without the freeze overlay, which is then not wired.
NoFreezeNext == CoreNext \/ GatewayNext
NoFreezeSpec == Init /\ [][NoFreezeNext]_vars

\* Bound of the freeze instances: the scopes in use, expired ones included.
scopesInUse ==
    Cardinality({a \in Addr : agentFreezeUntil[a] # 0})
    + Cardinality({a \in Addr : agentPaused[a]})
    + Cardinality({i \in BillId : billFreezeUntil[i] # 0})
    + Cardinality({i \in BindingId : bindingFreezeUntil[i] # 0})
    + (IF globalFreezeUntil # 0 THEN 1 ELSE 0)
    + (IF globalPaused THEN 1 ELSE 0)
TwoScopes == scopesInUse <= 2

\* Timed freezes only, one scope at a time, and every binding within reach of its keepers.
TimedFreezeNext ==
    \/ CoreNext
    \/ GatewayNext
    \/ now <= Horizon /\ OverlayNext /\ UNCHANGED coreVars /\ scopesInUse' <= 1
LiveSpec == Init /\ [][TimedFreezeNext]_vars /\ KeeperFairness

\* The same keepers, with the circuit breaker in the administrator's hands.
BreakerSpec == Spec /\ KeeperFairness

=============================================================================
