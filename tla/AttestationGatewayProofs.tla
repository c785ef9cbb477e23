---------------------- MODULE AttestationGatewayProofs ----------------------
(***************************************************************************)
(* The attestation gateway for any number of tasks, bindings and           *)
(* verifiers, any thresholds and any challenge windows.  The clock, the    *)
(* window of a task, its settlement and its challenge are written by       *)
(* different calls; the invariant says how they stand to each other at any *)
(* time between.                                                           *)
(***************************************************************************)
EXTENDS AttestationGateway, FiniteSetTheorems, TLAPS

TypeInv ==
    /\ now \in Nat /\ duration \in Nat /\ threshold \in Nat
    /\ evidence \in [Tasks -> {Zero, "hash"}] /\ challengeEnd \in [Tasks -> Nat]
    /\ challenge \in [Tasks -> {"none", "raised", "upheld", "overruled"}]
    /\ submitted \in [Tasks -> SUBSET Verifiers]
    /\ valid \in [Tasks -> Nat] /\ failed \in [Tasks -> Nat]
    /\ raisedAt \in [Tasks -> Nat \union {Zero}] /\ settledAt \in [Bindings -> Nat \union {Zero}]

\* The votes of a task are a finite set, so that adding a voter counts one more.
VotesAreFinite == \A t \in Tasks : IsFiniteSet(submitted[t])

\* Nobody attests to nothing.
AttestedIsPublished == \A t \in Tasks : submitted[t] # {} => evidence[t] # Zero

\* A binding is settled when the window of its published evidence has closed.
SettledAfterWindow ==
    \A b \in Bindings : settledAt[b] # Zero =>
        /\ evidence[bindingTaskId[b]] # Zero
        /\ challengeEnd[bindingTaskId[b]] <= settledAt[b] /\ settledAt[b] <= now

IInv ==
    /\ TypeInv
    /\ VotesAreFinite /\ OneVoteEach
    /\ AttestedIsPublished
    /\ SettledAfterWindow /\ ChallengedAfterOnly

LEMMA Initially == Init => IInv
  <1> SUFFICES ASSUME Init PROVE IInv
    OBVIOUS
  <1>1. TypeInv
    BY GatewayAssumption DEF Init, TypeInv
  <1>2. VotesAreFinite /\ OneVoteEach
    BY FS_EmptySet DEF Init, VotesAreFinite, OneVoteEach
  <1>3. AttestedIsPublished /\ SettledAfterWindow /\ ChallengedAfterOnly
    BY DEF Init, AttestedIsPublished, SettledAfterWindow, ChallengedAfterOnly
  <1> QED BY <1>1, <1>2, <1>3 DEF IInv

\* The parts of the invariant that are about votes, windows and bindings depend
\* on these variables only.
LEMMA RegistryCalls ==
    ASSUME IInv, UNCHANGED <<gatewayVars, now>>, threshold' \in Nat
    PROVE  IInv'
  <1>1. UNCHANGED <<evidence, challengeEnd, duration, challenge, submitted, valid, failed,
                    raisedAt, settledAt, now>>
    BY DEF gatewayVars
  <1>2. TypeInv'
    BY <1>1 DEF IInv, TypeInv
  <1>3. VotesAreFinite' /\ OneVoteEach' /\ AttestedIsPublished'
    BY <1>1 DEF IInv, VotesAreFinite, OneVoteEach, AttestedIsPublished
  <1>4. SettledAfterWindow' /\ ChallengedAfterOnly'
    BY <1>1 DEF IInv, SettledAfterWindow, ChallengedAfterOnly
  <1> QED BY <1>2, <1>3, <1>4 DEF IInv

-----------------------------------------------------------------------------
\* The calls of the gateway, one lemma each.

LEMMA PublishKeeps ==
    ASSUME IInv, NEW t \in Tasks, NEW h \in {Zero, "hash"}, publishEvidence(t, h)
    PROVE  IInv'
  <1> USE DEF IInv, TypeInv
  <1>1. /\ evidence[t] = Zero
        /\ evidence' = [evidence EXCEPT ![t] = h]
        /\ challengeEnd' = [challengeEnd EXCEPT ![t] = now + duration]
        /\ UNCHANGED <<duration, challenge, submitted, valid, failed, raisedAt, settledAt, now,
                       threshold>>
    BY DEF publishEvidence, may_publish, registryVars
  <1>2. TypeInv'
    BY <1>1
  <1>3. VotesAreFinite' /\ OneVoteEach' /\ AttestedIsPublished'
    BY <1>1 DEF VotesAreFinite, OneVoteEach, AttestedIsPublished
  <1>4. \A b \in Bindings : bindingTaskId[b] \in Tasks
                            /\ (settledAt[b] # Zero => bindingTaskId[b] # t)
    BY <1>1, GatewayAssumption DEF SettledAfterWindow
  <1>5. SettledAfterWindow'
    BY <1>1, <1>4 DEF SettledAfterWindow
  <1>6. ChallengedAfterOnly'
    BY <1>1, <1>4 DEF ChallengedAfterOnly
  <1> QED BY <1>2, <1>3, <1>5, <1>6

\* One vote more is one voter more.
LEMMA AttestKeeps ==
    ASSUME IInv, NEW t \in Tasks, NEW w \in Verifiers, NEW ok \in BOOLEAN,
           submitAttestation(t, w, ok)
    PROVE  IInv'
  <1> USE DEF IInv, TypeInv
  <1>1. /\ evidence[t] # Zero /\ w \notin submitted[t]
        /\ submitted' = [submitted EXCEPT ![t] = @ \union {w}]
        /\ UNCHANGED <<evidence, challengeEnd, duration, challenge, raisedAt, settledAt, now,
                       threshold>>
    BY DEF submitAttestation, may_attest, record
  <1>2. /\ valid' = [valid EXCEPT ![t] = IF ok THEN @ + 1 ELSE @]
        /\ failed' = [failed EXCEPT ![t] = IF ok THEN @ ELSE @ + 1]
    BY DEF submitAttestation
  <1>3. /\ valid' \in [Tasks -> Nat] /\ failed' \in [Tasks -> Nat]
        /\ valid'[t] + failed'[t] = valid[t] + failed[t] + 1
        /\ \A u \in Tasks \ {t} : valid'[u] = valid[u] /\ failed'[u] = failed[u]
    BY <1>2
  <1>4. TypeInv'
    BY <1>1, <1>3
  <1>5. /\ IsFiniteSet(submitted'[t])
        /\ Cardinality(submitted'[t]) = Cardinality(submitted[t]) + 1
    BY <1>1, FS_AddElement DEF VotesAreFinite
  <1>6. \A u \in Tasks \ {t} : submitted'[u] = submitted[u]
    BY <1>1
  <1>7. VotesAreFinite'
    BY <1>5, <1>6 DEF VotesAreFinite
  <1>8. OneVoteEach'
    BY <1>3, <1>5, <1>6 DEF OneVoteEach
  <1>9. AttestedIsPublished'
    BY <1>1, <1>6 DEF AttestedIsPublished
  <1>10. SettledAfterWindow' /\ ChallengedAfterOnly'
    BY <1>1 DEF SettledAfterWindow, ChallengedAfterOnly
  <1> QED BY <1>4, <1>7, <1>8, <1>9, <1>10

LEMMA SettleKeeps ==
    ASSUME IInv, NEW t \in Tasks, NEW c \in Bindings, settleWithAttestation(t, c, "hash")
    PROVE  IInv'
  <1> USE DEF IInv, TypeInv
  <1>1. /\ bindingTaskId[c] = t /\ evidence[t] # Zero /\ now >= challengeEnd[t]
        /\ challenge[t] \in {"none", "overruled"}
        /\ settledAt' = [settledAt EXCEPT ![c] = now]
        /\ UNCHANGED <<evidence, challengeEnd, duration, challenge, submitted, valid, failed,
                       raisedAt, now, threshold>>
    BY DEF settleWithAttestation, window_closed, registryVars
  <1>2. TypeInv' /\ VotesAreFinite' /\ OneVoteEach' /\ AttestedIsPublished'
    BY <1>1 DEF VotesAreFinite, OneVoteEach, AttestedIsPublished
  <1>3. SettledAfterWindow'
    BY <1>1 DEF SettledAfterWindow
  <1>4. ChallengedAfterOnly'
    BY <1>1 DEF ChallengedAfterOnly
  <1> QED BY <1>2, <1>3, <1>4

\* A challenge of a settled binding comes at the very end of the window.
LEMMA RaiseKeeps ==
    ASSUME IInv, NEW t \in Tasks, raiseChallenge(t)
    PROVE  IInv'
  <1> USE DEF IInv, TypeInv
  <1>1. /\ now <= challengeEnd[t]
        /\ challenge' = [challenge EXCEPT ![t] = "raised"]
        /\ raisedAt' = [raisedAt EXCEPT ![t] = now]
        /\ UNCHANGED <<evidence, challengeEnd, duration, submitted, valid, failed, settledAt, now,
                       threshold>>
    BY DEF raiseChallenge, registryVars
  <1>2. TypeInv' /\ VotesAreFinite' /\ OneVoteEach' /\ AttestedIsPublished'
    BY <1>1 DEF VotesAreFinite, OneVoteEach, AttestedIsPublished
  <1>3. SettledAfterWindow'
    BY <1>1 DEF SettledAfterWindow
  <1>4. \A b \in Bindings : settledAt[b] # Zero /\ bindingTaskId[b] = t =>
            settledAt[b] = challengeEnd[t] /\ now = challengeEnd[t]
    BY <1>1 DEF SettledAfterWindow
  <1>5. ChallengedAfterOnly'
    BY <1>1, <1>4, GatewayAssumption DEF ChallengedAfterOnly
  <1> QED BY <1>2, <1>3, <1>5

LEMMA ResolveKeeps ==
    ASSUME IInv, NEW t \in Tasks, NEW upheld \in BOOLEAN, resolveChallenge(t, upheld)
    PROVE  IInv'
  <1> USE DEF IInv, TypeInv
  <1>1. /\ challenge[t] = "raised"
        /\ challenge' = [challenge EXCEPT ![t] = IF upheld THEN "upheld" ELSE "overruled"]
        /\ UNCHANGED <<evidence, challengeEnd, duration, submitted, valid, failed, raisedAt,
                       settledAt, now, threshold>>
    BY DEF resolveChallenge, registryVars
  <1>2. PICK c \in {"upheld", "overruled"} : challenge' = [challenge EXCEPT ![t] = c]
    BY <1>1
  <1>3. TypeInv' /\ VotesAreFinite' /\ OneVoteEach' /\ AttestedIsPublished' /\ SettledAfterWindow'
    BY <1>1, <1>2 DEF VotesAreFinite, OneVoteEach, AttestedIsPublished, SettledAfterWindow
  <1>4. ChallengedAfterOnly'
    BY <1>1, <1>2, GatewayAssumption DEF ChallengedAfterOnly
  <1> QED BY <1>3, <1>4

LEMMA TimeKeeps ==
    ASSUME IInv, Tick \/ \E d \in Windows : setChallengeWindowDuration(d)
    PROVE  IInv'
  <1> USE DEF IInv, TypeInv
  <1>1. /\ now' \in {now, now + 1} /\ duration' \in Nat
        /\ UNCHANGED <<evidence, challengeEnd, challenge, submitted, valid, failed, raisedAt,
                       settledAt, threshold>>
    BY GatewayAssumption DEF Tick, setChallengeWindowDuration, registryVars, gatewayVars
  <1>2. TypeInv' /\ VotesAreFinite' /\ OneVoteEach' /\ AttestedIsPublished' /\ ChallengedAfterOnly'
    BY <1>1 DEF VotesAreFinite, OneVoteEach, AttestedIsPublished, ChallengedAfterOnly
  <1>3. \A b \in Bindings : settledAt[b] # Zero => settledAt[b] <= now'
    BY <1>1 DEF SettledAfterWindow
  <1>4. SettledAfterWindow'
    BY <1>1, <1>3 DEF SettledAfterWindow
  <1> QED BY <1>2, <1>4

-----------------------------------------------------------------------------
\* The calls of the registry leave the gateway and the clock alone.
registryNext ==
    \/ \E w \in Verifiers :
         \/ \E a \in Stakes : registerVerifier(w, a) \/ stake(w, a) \/ unstake(w, a) \/ slash(w, a)
         \/ removeVerifier(w)
         \/ \E on \in BOOLEAN : setActive(w, on)
    \/ \E p \in Thresholds : setThresholds(p[1], p[2])
    \/ \E c \in Configs : setStakingConfig(c)
    \/ setAuthorizedCaller

LEMMA RegistryLeavesGateway ==
    ASSUME IInv, registryNext
    PROVE  UNCHANGED <<gatewayVars, now>> /\ threshold' \in Nat
  <1>1. CASE \E w \in Verifiers : \E a \in Stakes :
                 registerVerifier(w, a) \/ stake(w, a) \/ unstake(w, a) \/ slash(w, a)
    BY <1>1 DEF registerVerifier, stake, unstake, slash, IInv, TypeInv
  <1>2. CASE \E w \in Verifiers : removeVerifier(w) \/ \E on \in BOOLEAN : setActive(w, on)
    BY <1>2 DEF removeVerifier, setActive, IInv, TypeInv
  <1>3. CASE \E p \in Thresholds : setThresholds(p[1], p[2])
    BY <1>3, GatewayAssumption DEF setThresholds
  <1>4. CASE setAuthorizedCaller \/ \E c \in Configs : setStakingConfig(c)
    BY <1>4 DEF setAuthorizedCaller, setStakingConfig, IInv, TypeInv
  <1> QED BY <1>1, <1>2, <1>3, <1>4 DEF registryNext

LEMMA Inductive == IInv /\ [Next]_vars => IInv'
  <1> SUFFICES ASSUME IInv, [Next]_vars PROVE IInv'
    OBVIOUS
  <1>1. ASSUME NEW t \in Tasks,
               \/ \E h \in {Zero, "hash"} : publishEvidence(t, h)
               \/ \E w \in Verifiers, ok \in BOOLEAN : submitAttestation(t, w, ok)
               \/ \E b \in Bindings : settleWithAttestation(t, b, "hash")
               \/ raiseChallenge(t)
               \/ \E upheld \in BOOLEAN : resolveChallenge(t, upheld)
        PROVE  IInv'
    BY <1>1, PublishKeeps, AttestKeeps, SettleKeeps, RaiseKeeps, ResolveKeeps
  <1>2. CASE registryNext
    BY <1>2, RegistryLeavesGateway, RegistryCalls
  <1>3. CASE UNCHANGED vars
    BY <1>3, RegistryCalls DEF vars, registryVars, IInv, TypeInv
  <1> QED BY <1>1, <1>2, <1>3, TimeKeeps DEF Next, registryNext

LEMMA Invariant == Spec => []IInv
  BY Initially, Inductive, PTL DEF Spec

-----------------------------------------------------------------------------
\* The counters of submitAttestation count verifiers, however often these are
\* suspended, removed and registered again.
THEOREM VotesAreVerifiers == Spec => []OneVoteEach
  BY Invariant, PTL DEF IInv

\* settleWithAttestation never pays against a standing challenge, except in the
\* second that ends the window and allows both calls.
THEOREM ChallengeStopsPayment == Spec => []ChallengedAfterOnly
  BY Invariant, PTL DEF IInv

\* Every step that settles does so on a majority for evidence that no later call
\* replaces.
LEMMA StepSettles == IInv /\ [Next]_vars => [settlesByMajority /\ keepsAttested]_vars
  <1> SUFFICES ASSUME IInv, Next PROVE settlesByMajority /\ keepsAttested
    OBVIOUS
  <1>1. ASSUME UNCHANGED <<settledAt, evidence, challengeEnd>>
        PROVE  settlesByMajority /\ keepsAttested
    BY <1>1 DEF settlesByMajority, keepsAttested
  <1>2. ASSUME NEW t \in Tasks, NEW h \in {Zero, "hash"}, publishEvidence(t, h)
        PROVE  settlesByMajority /\ keepsAttested
    <2>1. /\ evidence[t] = Zero /\ settledAt' = settledAt
          /\ evidence' = [evidence EXCEPT ![t] = h]
          /\ challengeEnd' = [challengeEnd EXCEPT ![t] = now + duration]
      BY <1>2 DEF publishEvidence, may_publish
    <2>2. submitted[t] = {}
      BY <2>1 DEF IInv, AttestedIsPublished
    <2> QED BY <2>1, <2>2 DEF settlesByMajority, keepsAttested, IInv, TypeInv
  <1>3. ASSUME NEW t \in Tasks, NEW c \in Bindings, settleWithAttestation(t, c, "hash")
        PROVE  settlesByMajority /\ keepsAttested
    <2>1. /\ bindingTaskId[c] = t /\ failed[t] < threshold /\ valid[t] >= threshold
          /\ settledAt' = [settledAt EXCEPT ![c] = now]
          /\ UNCHANGED <<evidence, challengeEnd>>
      BY <1>3 DEF settleWithAttestation, attested
    <2>2. valid[t] > failed[t]
      BY <2>1 DEF IInv, TypeInv
    <2> QED BY <2>1, <2>2 DEF settlesByMajority, keepsAttested, IInv, TypeInv
  <1>4. CASE registryNext
    BY <1>1, <1>4, RegistryLeavesGateway DEF gatewayVars
  <1>5. ASSUME NEW t \in Tasks,
               \/ \E w \in Verifiers, ok \in BOOLEAN : submitAttestation(t, w, ok)
               \/ raiseChallenge(t)
               \/ \E upheld \in BOOLEAN : resolveChallenge(t, upheld)
        PROVE  UNCHANGED <<settledAt, evidence, challengeEnd>>
    BY <1>5 DEF submitAttestation, raiseChallenge, resolveChallenge
  <1>6. CASE Tick \/ \E d \in Windows : setChallengeWindowDuration(d)
    BY <1>1, <1>6 DEF Tick, setChallengeWindowDuration, gatewayVars
  <1> QED BY <1>1, <1>2, <1>3, <1>4, <1>5, <1>6 DEF Next, registryNext

\* Whatever the administrator does to thresholds and verifiers in between, a
\* binding is paid on a majority for its own evidence, and what was attested to
\* stays.
THEOREM MajoritySettles == Spec => SettledByMajority
  BY Invariant, StepSettles, PTL DEF Spec, SettledByMajority
=============================================================================
