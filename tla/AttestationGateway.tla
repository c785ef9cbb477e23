------------------------- MODULE AttestationGateway -------------------------
(***************************************************************************)
(* KarmaAttestationGateway and the VerifierRegistry it asks: evidence of a *)
(* task is published, active verifiers attest to it, anyone challenges it  *)
(* within a window, the arbitrator decides the challenge, and the binding  *)
(* of the task is settled in KarmaBilateral.  Each call is a transaction.  *)
(* The admin changes verifiers, thresholds and stakes at any time between. *)
(* The token reverts a transfer that the balance does not cover.           *)
(***************************************************************************)
EXTENDS Naturals, FiniteSets, FiniteSetsExt

CONSTANTS Tasks, Bindings, Verifiers,
          bindingTaskId,   \* KarmaBilateral: the task of each binding
          Thresholds,      \* pairs N, M that the admin may set
          Windows,         \* challenge windows the arbitrator may set
          MinWindow,       \* MIN_CHALLENGE_WINDOW
          Configs,         \* [token, min, reward] the admin may set
          Stakes,          \* amounts that are staked, withdrawn or slashed
          MaxStake,        \* bound: stake of one verifier
          MaxPool,         \* bound: tokens in the registry
          MaxListed,       \* bound: registrations of one verifier
          MaxTime,         \* bound: the clock
          Zero             \* bytes32(0), no time, not registered

ASSUME GatewayAssumption ==
    /\ bindingTaskId \in [Bindings -> Tasks]
    /\ \A p \in Thresholds : p[1] \in Nat /\ p[2] \in Nat /\ 0 < p[1] /\ p[1] <= p[2]
    /\ Windows \subseteq Nat /\ MaxTime \in Nat
    /\ MaxStake \in Nat /\ Stakes \subseteq 0 .. MaxStake
    /\ Zero \notin Nat /\ Zero # "hash"

VARIABLES
    verifiers, verifierList, authorized, threshold, total, config, pool,
    evidence, challengeEnd, duration, challenge, submitted, valid, failed,
    now,
    raisedAt, settledAt     \* history: when a challenge was raised, a binding settled

registryVars == <<verifiers, verifierList, authorized, threshold, total, config, pool>>
gatewayVars == <<evidence, challengeEnd, duration, challenge, submitted, valid, failed,
                 raisedAt, settledAt>>
vars == <<registryVars, gatewayVars, now>>

VerifierInfo == [active : BOOLEAN, stake : 0 .. MaxStake, success : 0 .. Cardinality(Tasks),
                 false : 0 .. Cardinality(Tasks), earned : Nat]

TypeOK ==
    /\ \A w \in Verifiers : verifiers[w] = Zero \/ verifiers[w] \in VerifierInfo
    /\ verifierList \in [Verifiers -> 0 .. MaxListed] /\ authorized \in BOOLEAN
    /\ 0 < threshold /\ threshold <= total /\ pool \in 0 .. MaxPool
    /\ challenge \in [Tasks -> {"none", "raised", "upheld", "overruled"}]
    /\ submitted \in [Tasks -> SUBSET Verifiers] /\ now \in 0 .. MaxTime

Init ==
    /\ verifiers = [w \in Verifiers |-> Zero] /\ verifierList = [w \in Verifiers |-> 0]
    /\ authorized = FALSE /\ \E p \in Thresholds : threshold = p[1] /\ total = p[2]
    /\ config = [token |-> FALSE, min |-> 0, reward |-> 0] /\ pool = 0
    /\ evidence = [t \in Tasks |-> Zero] /\ challengeEnd = [t \in Tasks |-> 0]
    /\ duration \in Windows /\ challenge = [t \in Tasks |-> "none"]
    /\ submitted = [t \in Tasks |-> {}]
    /\ valid = [t \in Tasks |-> 0] /\ failed = [t \in Tasks |-> 0]
    /\ raisedAt = [t \in Tasks |-> Zero] /\ settledAt = [b \in Bindings |-> Zero]
    /\ now = 0

-----------------------------------------------------------------------------
(* The registry.                                                             *)

known(w) == verifiers[w] # Zero
isActiveVerifier(w) == known(w) /\ verifiers[w].active

\* _activeCount walks the list, in which a wallet registered again is twice.
activeCount(info, list) ==
    MapThenSumSet(LAMBDA w : IF info[w] # Zero /\ info[w].active THEN list[w] ELSE 0, Verifiers)

setAuthorizedCaller ==
    /\ authorized' = ~authorized
    /\ UNCHANGED <<verifiers, verifierList, threshold, total, config, pool, now>>
    /\ UNCHANGED gatewayVars

\* The stake given at the registration is written down; no token moves.
registerVerifier(w, amount) ==
    /\ ~known(w) /\ verifierList[w] < MaxListed
    /\ verifiers' = [verifiers EXCEPT ![w] =
          [active |-> TRUE, stake |-> amount, success |-> 0, false |-> 0, earned |-> 0]]
    /\ verifierList' = [verifierList EXCEPT ![w] = @ + 1]
    /\ total' = Max({total, activeCount(verifiers', verifierList')})
    /\ UNCHANGED <<authorized, threshold, config, pool, now>> /\ UNCHANGED gatewayVars

removeVerifier(w) ==
    /\ known(w)
    /\ verifiers' = [verifiers EXCEPT ![w] = Zero]
    /\ UNCHANGED <<verifierList, authorized, threshold, total, config, pool, now>>
    /\ UNCHANGED gatewayVars

\* suspendVerifier and activateVerifier.
setActive(w, on) ==
    /\ known(w)
    /\ verifiers' = [verifiers EXCEPT ![w].active = on]
    /\ UNCHANGED <<verifierList, authorized, threshold, total, config, pool, now>>
    /\ UNCHANGED gatewayVars

setThresholds(n, m) ==
    /\ threshold' = n /\ total' = m
    /\ UNCHANGED <<verifiers, verifierList, authorized, config, pool, now>>
    /\ UNCHANGED gatewayVars

setStakingConfig(c) ==
    /\ config' = c
    /\ UNCHANGED <<verifiers, verifierList, authorized, threshold, total, pool, now>>
    /\ UNCHANGED gatewayVars

stake(w, amount) ==
    /\ config.token /\ known(w) /\ verifiers[w].stake + amount <= MaxStake
    /\ pool + amount <= MaxPool
    /\ pool' = pool + amount
    /\ verifiers' = [verifiers EXCEPT ![w].stake = @ + amount]
    /\ UNCHANGED <<verifierList, authorized, threshold, total, config, now>>
    /\ UNCHANGED gatewayVars

unstake(w, amount) ==
    /\ known(w) /\ verifiers[w].stake >= amount + config.min
    /\ config.token /\ pool >= amount
    /\ pool' = pool - amount
    /\ verifiers' = [verifiers EXCEPT ![w].stake = @ - amount]
    /\ UNCHANGED <<verifierList, authorized, threshold, total, config, now>>
    /\ UNCHANGED gatewayVars

\* What was slashed stays in the registry.
slash(w, amount) ==
    LET left == verifiers[w].stake - Min({amount, verifiers[w].stake})
    IN  /\ known(w)
        /\ verifiers' = [verifiers EXCEPT ![w].stake = left,
                                          ![w].active = @ /\ left >= config.min]
        /\ UNCHANGED <<verifierList, authorized, threshold, total, config, pool, now>>
        /\ UNCHANGED gatewayVars

\* What an attestation earns: rewardVerifier is called for STRUCT_OK only.
reward(ok) == IF ok /\ config.token THEN config.reward ELSE 0

\* recordAttestation, and rewardVerifier when there is a reward to pay.
record(w, ok) ==
    /\ authorized /\ pool >= reward(ok)
    /\ pool' = pool - reward(ok)
    /\ verifiers' = [verifiers EXCEPT
          ![w].success = IF ok THEN @ + 1 ELSE @,
          ![w].false = IF ok THEN @ ELSE @ + 1,
          ![w].earned = @ + reward(ok)]
    /\ UNCHANGED <<verifierList, authorized, threshold, total, config, now>>

-----------------------------------------------------------------------------
(* The gateway.                                                              *)

may_publish(t) == evidence[t] = Zero

\* An empty hash is accepted and counts as none.
publishEvidence(t, hash) ==
    /\ may_publish(t)
    /\ evidence' = [evidence EXCEPT ![t] = hash]
    /\ challengeEnd' = [challengeEnd EXCEPT ![t] = now + duration]
    /\ UNCHANGED <<duration, challenge, submitted, valid, failed, raisedAt, settledAt, now>>
    /\ UNCHANGED registryVars

\* Mutant: a verifier that was registered again may attest again.
may_attest_again(t, w) ==
    isActiveVerifier(w) /\ (w \notin submitted[t] \/ verifiers[w].success + verifiers[w].false = 0)

may_attest(t, w) == isActiveVerifier(w) /\ w \notin submitted[t]

\* The signature covers the task, the evidence and the verifier, not ok.
submitAttestation(t, w, ok) ==
    /\ evidence[t] # Zero
    /\ may_attest(t, w)
    /\ submitted' = [submitted EXCEPT ![t] = @ \union {w}]
    /\ valid' = [valid EXCEPT ![t] = IF ok THEN @ + 1 ELSE @]
    /\ failed' = [failed EXCEPT ![t] = IF ok THEN @ ELSE @ + 1]
    /\ record(w, ok)
    /\ UNCHANGED <<evidence, challengeEnd, duration, challenge, raisedAt, settledAt>>

\* Mutant: the failed attestations are not looked at.
attested_uncondemned(t) == valid[t] >= threshold

attested(t) == failed[t] < threshold /\ valid[t] >= threshold

\* Mutant: the window is compared with the other sign, as for a challenge.
window_closed_early(t) == now + 1 >= challengeEnd[t]

window_closed(t) == now >= challengeEnd[t]

\* KarmaBilateral.settle takes an active binding, and the gateway's word.
settleWithAttestation(t, b, proof) ==
    /\ evidence[t] # Zero /\ bindingTaskId[b] = t /\ evidence[t] = proof
    /\ attested(t)
    /\ window_closed(t)
    /\ challenge[t] \in {"none", "overruled"}
    /\ settledAt[b] = Zero
    /\ settledAt' = [settledAt EXCEPT ![b] = now]
    /\ UNCHANGED <<evidence, challengeEnd, duration, challenge, submitted, valid, failed,
                   raisedAt, now>>
    /\ UNCHANGED registryVars

raiseChallenge(t) ==
    /\ evidence[t] # Zero /\ now <= challengeEnd[t] /\ challenge[t] = "none"
    /\ challenge' = [challenge EXCEPT ![t] = "raised"]
    /\ raisedAt' = [raisedAt EXCEPT ![t] = now]
    /\ UNCHANGED <<evidence, challengeEnd, duration, submitted, valid, failed, settledAt, now>>
    /\ UNCHANGED registryVars

resolveChallenge(t, upheld) ==
    /\ challenge[t] = "raised"
    /\ challenge' = [challenge EXCEPT ![t] = IF upheld THEN "upheld" ELSE "overruled"]
    /\ UNCHANGED <<evidence, challengeEnd, duration, submitted, valid, failed, raisedAt,
                   settledAt, now>>
    /\ UNCHANGED registryVars

setChallengeWindowDuration(d) ==
    /\ d >= MinWindow /\ d # duration
    /\ duration' = d
    /\ UNCHANGED <<evidence, challengeEnd, challenge, submitted, valid, failed, raisedAt,
                   settledAt, now>>
    /\ UNCHANGED registryVars

Tick ==
    /\ now < MaxTime
    /\ now' = now + 1
    /\ UNCHANGED registryVars /\ UNCHANGED gatewayVars

Next ==
    \/ \E t \in Tasks :
         \/ \E h \in {Zero, "hash"} : publishEvidence(t, h)
         \/ \E w \in Verifiers, ok \in BOOLEAN : submitAttestation(t, w, ok)
         \/ \E b \in Bindings : settleWithAttestation(t, b, "hash")
         \/ raiseChallenge(t)
         \/ \E upheld \in BOOLEAN : resolveChallenge(t, upheld)
    \/ \E d \in Windows : setChallengeWindowDuration(d)
    \/ \E w \in Verifiers :
         \/ \E a \in Stakes : registerVerifier(w, a) \/ stake(w, a) \/ unstake(w, a) \/ slash(w, a)
         \/ removeVerifier(w)
         \/ \E on \in BOOLEAN : setActive(w, on)
    \/ \E p \in Thresholds : setThresholds(p[1], p[2])
    \/ \E c \in Configs : setStakingConfig(c)
    \/ setAuthorizedCaller
    \/ Tick

Spec == Init /\ [][Next]_vars

-----------------------------------------------------------------------------
\* A challenge stops the payment: when a challenge that was not overruled stands
\* against a settled binding, it came after the settlement, in the one second
\* that belongs to the window and to what follows it (raiseChallenge takes the
\* end of the window, settleWithAttestation does too).
ChallengedAfterOnly ==
    \A b \in Bindings :
        LET t == bindingTaskId[b]
        IN  settledAt[b] # Zero /\ challenge[t] \in {"raised", "upheld"} =>
                settledAt[b] = challengeEnd[t] /\ raisedAt[t] = challengeEnd[t]

\* Every attestation counted is one of another verifier, also when verifiers
\* are suspended, removed and registered again in between.
OneVoteEach == \A t \in Tasks : valid[t] + failed[t] = Cardinality(submitted[t])

\* A verifier earns for STRUCT_OK only, and at most one reward for each.
EarnedByOk ==
    \A w \in Verifiers : known(w) =>
        \E r \in {c.reward : c \in Configs} \union {0} :
            verifiers[w].earned <= r * verifiers[w].success

\* What a step may do to bindings and to what verifiers attested to.
settlesByMajority ==
    \A b \in Bindings :
        settledAt[b] = Zero /\ settledAt'[b] # Zero =>
            valid[bindingTaskId[b]] > failed[bindingTaskId[b]]

keepsAttested ==
    \A t \in Tasks : submitted[t] # {} =>
        evidence'[t] = evidence[t] /\ challengeEnd'[t] = challengeEnd[t]

\* Whatever the admin does to the threshold, a binding is settled only when more
\* verifiers found its own evidence good than found it bad, and what they attested
\* to is not replaced afterwards, nor its window moved.
SettledByMajority == [][settlesByMajority /\ keepsAttested]_vars
=============================================================================
