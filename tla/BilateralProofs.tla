--------------------------- MODULE BilateralProofs ---------------------------
(***************************************************************************)
(* Machine-checked proofs about the bilateral escrow, for every value of   *)
(* the constants.                                                          *)
(***************************************************************************)
EXTENDS KarmaBilateral, SumTheorems, TLAPS

\* The inductive invariant.
IInv ==
    /\ TypeOK
    /\ CountersAgree
    /\ Solvent
    /\ BindingHoldsItsBills
    /\ SingleCommitment
    /\ NoOrphanedBill
    /\ DisputesWellFormed

LEMMA InitIInv == Init => IInv
  <1> SUFFICES ASSUME Init PROVE IInv
    OBVIOUS
  <1>1. FreezeTypeOK
    <2>1. /\ globalPaused \in BOOLEAN /\ circuitBreaker \in BOOLEAN
          /\ agentPaused \in [Addr -> BOOLEAN]
      BY Zenon DEF Init, FreezeInit, BreakerInit
    <2>2. /\ now \in Time /\ emergencyResumeRequestedAt \in 0..MaxTime
          /\ globalFreezeUntil \in Nat /\ agentFreezeUntil \in [Addr -> Nat]
          /\ billFreezeUntil \in [BillId -> Nat] /\ bindingFreezeUntil \in [BindingId -> Nat]
      BY MaxTimeAssumption DEF Init, FreezeInit, BreakerInit, Time
    <2> QED BY <2>1, <2>2 DEF FreezeTypeOK, BreakerTypeOK
  <1>2. billCounter = 0 /\ bindingCounter = 0 /\ Bills = {} /\ Bindings = {}
    BY DEF Init, Bills, Bindings
  <1>3. RegistryTypeOK
    BY <1>2, BoundsAssumption DEF Init, RegistryTypeOK
  <1>4. LedgerTypeOK
    BY DEF Init, LedgerTypeOK
  <1>5. MoneyTypeOK
    BY FundsAssumption DEF Init, MoneyTypeOK
  <1>6. ConfigTypeOK
    BY TimingAssumption DEF Init, ConfigTypeOK
  <1>7. CountersAgree /\ Solvent
    BY DEF Init, CountersAgree, Solvent
  <1>8. BindingHoldsItsBills /\ SingleCommitment /\ NoOrphanedBill /\ DisputesWellFormed
    BY <1>2 DEF BindingHoldsItsBills, SingleCommitment, NoOrphanedBill, DisputesWellFormed
  <1> QED BY <1>1, <1>3, <1>4, <1>5, <1>6, <1>7, <1>8 DEF IInv, TypeOK

\* Bindings are untouched, old bills too, and new bills are free: the facts that
\* relate bills and bindings survive.
LEMMA RegistryFrame ==
    ASSUME IInv, billCounter' \in Nat, billCounter' >= billCounter,
           bindingCounter' = bindingCounter, bindings' = bindings,
           \A i \in Bills : bills'[i] = bills[i],
           \A i \in Bills' \ Bills : bills'[i].state = "MINTED"
    PROVE  BindingHoldsItsBills' /\ SingleCommitment' /\ NoOrphanedBill' /\ DisputesWellFormed'
  <1>1. billCounter \in Nat /\ bindingCounter \in Nat
    BY DEF IInv, TypeOK, RegistryTypeOK
  <1>2. Bindings' = Bindings /\ Bills \subseteq Bills'
    BY <1>1 DEF Bindings, Bills
  <1>3. \A b \in Bindings : bindings[b].buyerBillId \in Bills /\ bindings[b].agentBillId \in Bills
    BY DEF IInv, BindingHoldsItsBills
  <1>4. \A b \in Bindings : buyerBill(b)' = buyerBill(b) /\ agentBill(b)' = agentBill(b)
    BY <1>3 DEF buyerBill, agentBill
  <1>5. BindingHoldsItsBills'
    BY <1>2, <1>3, <1>4 DEF IInv, BindingHoldsItsBills, tokenOf, buyerOf, agentOf, isOpen
  <1>6. SingleCommitment' /\ DisputesWellFormed'
    BY <1>2 DEF IInv, SingleCommitment, DisputesWellFormed, billsOf, requiresAttestation
  <1>7. NoOrphanedBill'
    <2> SUFFICES ASSUME NEW i \in Bills', bills'[i].state = "BOUND"
                 PROVE  \E b \in Bindings : isOpen(b) /\ i \in billsOf(b)
      BY <1>2 DEF NoOrphanedBill, isOpen, billsOf
    <2>1. i \in Bills
      OBVIOUS
    <2> QED BY <2>1 DEF IInv, NoOrphanedBill
  <1> QED BY <1>5, <1>6, <1>7

LEMMA LockStep ==
    ASSUME IInv, NEW a \in Addr, NEW t \in Token, NEW amount \in LockAmounts,
           lock(a, t, amount)
    PROVE  IInv'
  <1> USE DEF IInv, TypeOK
  <1>1. amount \in Nat /\ amount # 0
    BY FundsAssumption DEF lock, lockable
  <1> DEFINE new == [owner |-> a, token |-> t, amount |-> amount, state |-> "MINTED"]
  <1>2. /\ new \in BillToken
        /\ billCounter \in Nat /\ billCounter' = billCounter + 1
        /\ bills' = Extend(bills, billCounter + 1, new)
    BY <1>1 DEF lock, BillToken, BillState, RegistryTypeOK
  <1>3. /\ bills' \in [1..(billCounter + 1) -> BillToken]
        /\ bills'[billCounter + 1] = new
        /\ \A i \in 1..billCounter : bills'[i] = bills[i]
    <2> HIDE DEF new
    <2>1. bills \in [1..billCounter -> BillToken]
      BY DEF RegistryTypeOK
    <2> QED BY <1>2, <2>1 DEF Extend
  <1>4. FreezeTypeOK' /\ ConfigTypeOK'
    BY DEF lock, freezeVars, breakerVars, overlayVars, FreezeTypeOK, BreakerTypeOK,
           configVars, ConfigTypeOK, Time
  <1>5. RegistryTypeOK'
    BY <1>2, <1>3, BoundsAssumption DEF lock, RegistryTypeOK
  <1>6. LedgerTypeOK' /\ MoneyTypeOK'
    BY <1>1 DEF lock, LedgerTypeOK, MoneyTypeOK, configVars
  <1>7. CountersAgree'
    BY <1>1 DEF lock, CountersAgree, LedgerTypeOK
  <1>8. Solvent'
    BY <1>1 DEF lock, Solvent, LedgerTypeOK, MoneyTypeOK
  <1>9. BindingHoldsItsBills' /\ SingleCommitment' /\ NoOrphanedBill' /\ DisputesWellFormed'
    <2>1. \A i \in Bills' \ Bills : i = billCounter + 1
      BY <1>2 DEF Bills
    <2>2. bindingCounter' = bindingCounter /\ bindings' = bindings
      BY DEF lock
    <2>3. billCounter' \in Nat /\ billCounter' >= billCounter
      BY <1>2
    <2>4. \A i \in Bills : bills'[i] = bills[i]
      BY <1>3 DEF Bills
    <2>5. \A i \in Bills' \ Bills : bills'[i].state = "MINTED"
      BY <1>3, <2>1
    <2> HIDE DEF IInv
    <2> QED BY <2>2, <2>3, <2>4, <2>5, RegistryFrame
  <1> QED BY <1>4, <1>5, <1>6, <1>7, <1>8, <1>9

\* A MINTED bill is in no binding.
LEMMA MintedIsUncommitted ==
    ASSUME IInv, NEW i \in Bills, bills[i].state = "MINTED", NEW b \in Bindings
    PROVE  i \notin billsOf(b)
  BY DEF IInv, BindingHoldsItsBills, billsOf, buyerBill, agentBill

LEMMA UnlockStep ==
    ASSUME IInv, NEW a \in Addr, NEW i \in Bills, unlock(a, i)
    PROVE  IInv'
  <1> USE DEF IInv, TypeOK
  <1>1. /\ bills \in [1..billCounter -> BillToken] /\ i \in 1..billCounter
        /\ bills[i] \in BillToken
    BY DEF RegistryTypeOK, Bills
  <1> DEFINE t == bills[i].token
             amount == bills[i].amount
  <1>2. t \in Token /\ amount \in Nat
    BY <1>1 DEF BillToken
  <1>3. /\ billCounter' = billCounter /\ bindingCounter' = bindingCounter
        /\ bindings' = bindings /\ bills' = [bills EXCEPT ![i].state = "BURNED"]
        /\ bills[i].state = "MINTED"
    BY DEF unlock
  <1>4. FreezeTypeOK' /\ ConfigTypeOK'
    BY DEF unlock, freezeVars, breakerVars, overlayVars, FreezeTypeOK, BreakerTypeOK,
           configVars, ConfigTypeOK, Time
  <1>5. RegistryTypeOK'
    BY <1>1, <1>3 DEF RegistryTypeOK, BillToken, BillState
  <1>6. LedgerTypeOK' /\ MoneyTypeOK'
    BY <1>2 DEF unlock, LedgerTypeOK, MoneyTypeOK
  <1>7. CountersAgree'
    BY <1>2 DEF unlock, CountersAgree, LedgerTypeOK
  <1>8. Solvent'
    BY <1>2 DEF unlock, Solvent, LedgerTypeOK, MoneyTypeOK
  <1> HIDE DEF IInv, TypeOK
  <1>9. /\ Bills' = Bills /\ Bindings' = Bindings
        /\ \A j \in Bills : j # i => bills'[j] = bills[j]
        /\ bills'[i].state = "BURNED"
    BY <1>1, <1>3 DEF Bills, Bindings, BillToken
  <1>10. \A b \in Bindings : /\ bindings[b].buyerBillId \in Bills \ {i}
                             /\ bindings[b].agentBillId \in Bills \ {i}
    BY <1>3, MintedIsUncommitted DEF IInv, BindingHoldsItsBills, billsOf
  <1>11. \A b \in Bindings : buyerBill(b)' = buyerBill(b) /\ agentBill(b)' = agentBill(b)
    BY <1>3, <1>9, <1>10 DEF buyerBill, agentBill
  <1>12. BindingHoldsItsBills'
    BY <1>3, <1>9, <1>11 DEF IInv, BindingHoldsItsBills, tokenOf, buyerOf, agentOf, isOpen
  <1>13. SingleCommitment' /\ DisputesWellFormed'
    BY <1>3, <1>9 DEF IInv, SingleCommitment, DisputesWellFormed, billsOf, requiresAttestation
  <1>14. NoOrphanedBill'
    BY <1>3, <1>9 DEF IInv, NoOrphanedBill, isOpen, billsOf
  <1> QED BY <1>4, <1>5, <1>6, <1>7, <1>8, <1>12, <1>13, <1>14 DEF IInv, TypeOK

\* The record of a new binding.
newBinding(bb, ab, task, state) ==
    [buyerBillId |-> bb, agentBillId |-> ab, state |-> state, createdAt |-> now,
     settleAfter |-> now + timing.disputeWindowSeconds, settleSubmittedAt |-> 0,
     taskId |-> task, startedAt |-> 0, buyerSubmittedAt |-> 0, agentSubmittedAt |-> 0,
     resolved |-> FALSE]

LEMMA CreateBindingStep ==
    ASSUME IInv, NEW a \in Addr, NEW bb \in Bills, NEW ab \in Bills,
           NEW task \in TaskId \cup {IntentTask, NoTask},
           bindable(a, bb, ab), createBinding(bb, ab, task)
    PROVE  IInv'
  <1>1. /\ bills \in [1..billCounter -> BillToken]
        /\ bindings \in [1..bindingCounter -> Binding]
        /\ billCounter \in Nat /\ bindingCounter \in Nat
        /\ bills[bb] \in BillToken /\ bills[ab] \in BillToken /\ bb # ab
        /\ bills[bb].state = "MINTED" /\ bills[ab].state = "MINTED"
        /\ bills[bb].owner # bills[ab].owner /\ bills[bb].token = bills[ab].token
    BY DEF IInv, TypeOK, RegistryTypeOK, Bills, bindable
  <1>0. PICK n \in Nat : n = bindingCounter + 1
    BY <1>1
  <1>2. PICK buyer \in Addr, agent \in Addr, t \in Token, x \in Nat, y \in Nat :
            /\ bills[bb].owner = buyer /\ bills[ab].owner = agent /\ buyer # agent
            /\ bills[bb].token = t /\ bills[bb].amount = x /\ bills[ab].amount = y
    BY <1>1 DEF BillToken
  <1>3. PICK state \in {"ACTIVE", "PENDING"} :
            bindings' = Extend(bindings, n, newBinding(bb, ab, task, state))
    BY <1>0 DEF createBinding, newBinding
  <1>4. /\ billCounter' = billCounter /\ bindingCounter' = n
        /\ bills' = [bills EXCEPT ![bb].state = "BOUND", ![ab].state = "BOUND"]
        /\ n \in 1..MaxBindings
    BY <1>0, <1>1, BoundsAssumption DEF createBinding
  <1>5. newBinding(bb, ab, task, state) \in Binding
    <2>1. now \in Nat /\ timing.disputeWindowSeconds \in Nat
      BY MaxTimeAssumption DEF IInv, TypeOK, FreezeTypeOK, BreakerTypeOK, Time, ConfigTypeOK, TimingFields
    <2>2. bb \in Nat /\ ab \in Nat
      BY <1>1 DEF Bills
    <2> QED BY <2>1, <2>2 DEF newBinding, Binding, BindingState, OpenState
  <1>6. /\ bindings' \in [1..n -> Binding]
        /\ bindings'[n] = newBinding(bb, ab, task, state)
        /\ \A b \in Bindings : bindings'[b] = bindings[b]
    BY <1>0, <1>1, <1>3, <1>5 DEF Extend, Bindings
  <1>7. /\ bills' \in [1..billCounter -> BillToken]
        /\ bills'[bb].state = "BOUND" /\ bills'[ab].state = "BOUND"
        /\ \A i \in Bills : /\ bills'[i].owner = bills[i].owner
                            /\ bills'[i].token = bills[i].token
                            /\ i \notin {bb, ab} => bills'[i] = bills[i]
    BY <1>1, <1>4 DEF BillToken, BillState, Bills
  <1>8. FreezeTypeOK' /\ ConfigTypeOK'
    BY DEF IInv, TypeOK, createBinding, freezeVars, breakerVars, overlayVars, FreezeTypeOK,
           BreakerTypeOK, configVars, ConfigTypeOK, Time
  <1>9. RegistryTypeOK'
    <2>1. billCounter' \in 0..MaxBills /\ bindingCounter' \in 0..MaxBindings
      BY <1>4, BoundsAssumption DEF IInv, TypeOK, RegistryTypeOK
    <2>2. /\ bills' \in [1..billCounter' -> BillToken]
          /\ bindings' \in [1..bindingCounter' -> Binding]
      BY <1>4, <1>6, <1>7
    <2> QED BY <2>1, <2>2 DEF RegistryTypeOK, BillToken, Binding
  <1>10. /\ freeBalance[buyer] >= x /\ freeBalance[agent] >= y
         /\ freeBalance' = [freeBalance EXCEPT ![buyer] = @ - x, ![agent] = @ - y]
         /\ boundBalance' = [boundBalance EXCEPT ![buyer] = @ + x, ![agent] = @ + y]
         /\ pendingBatchAmount' = [pendingBatchAmount EXCEPT ![t] = pendingBatchAmount[t] + x + y]
         /\ UNCHANGED <<totalBillSupply, totalLocked, totalMintedByAddr, totalLockedByAddr>>
         /\ UNCHANGED moneyVars
    BY <1>2 DEF createBinding, moveFreeToBound, batchWith, totalVars
  <1>11. LedgerTypeOK' /\ CountersAgree'
    BY <1>2, <1>10 DEF IInv, TypeOK, LedgerTypeOK, CountersAgree
  <1>12. MoneyTypeOK' /\ Solvent'
    BY <1>10 DEF IInv, TypeOK, MoneyTypeOK, Solvent, moneyVars
  <1>13. Bills' = Bills /\ Bindings' = Bindings \cup {n} /\ n \notin Bindings
    BY <1>0, <1>1, <1>4 DEF Bills, Bindings
  <1>14. \A b \in Bindings : /\ bindings[b].buyerBillId \in Bills \ {bb, ab}
                             /\ bindings[b].agentBillId \in Bills \ {bb, ab}
    BY <1>1, MintedIsUncommitted DEF IInv, BindingHoldsItsBills, billsOf
  <1>15. /\ \A b \in Bindings : /\ buyerBill(b)' = buyerBill(b) /\ agentBill(b)' = agentBill(b)
                                /\ isOpen(b)' = isOpen(b)
         /\ buyerBill(n)' = bills'[bb] /\ agentBill(n)' = bills'[ab] /\ isOpen(n)'
    BY <1>6, <1>7, <1>14 DEF buyerBill, agentBill, isOpen, newBinding, OpenState
  <1>16. BindingHoldsItsBills'
    <2> SUFFICES ASSUME NEW b \in Bindings'
        PROVE (/\ bindings[b].buyerBillId \in Bills
               /\ bindings[b].agentBillId \in Bills
               /\ bindings[b].buyerBillId # bindings[b].agentBillId
               /\ tokenOf(b) = agentBill(b).token
               /\ buyerOf(b) # agentOf(b)
               /\ buyerBill(b).state = IF isOpen(b) THEN "BOUND" ELSE "BURNED"
               /\ agentBill(b).state = IF isOpen(b) THEN "BOUND" ELSE "BURNED")'
      BY DEF BindingHoldsItsBills
    <2>1. CASE b \in Bindings
      BY <2>1, <1>6, <1>13, <1>15 DEF IInv, BindingHoldsItsBills, tokenOf, buyerOf, agentOf
    <2>2. CASE b = n
      BY <2>2, <1>1, <1>6, <1>7, <1>13, <1>15 DEF tokenOf, buyerOf, agentOf, newBinding
    <2> QED BY <2>1, <2>2, <1>13
  <1>17. SingleCommitment'
    BY <1>6, <1>13, <1>14 DEF IInv, SingleCommitment, billsOf, newBinding
  <1>18. DisputesWellFormed'
    BY <1>6, <1>13 DEF IInv, DisputesWellFormed, requiresAttestation, newBinding
  <1>19. NoOrphanedBill'
    <2> SUFFICES ASSUME NEW i \in Bills, bills'[i].state = "BOUND"
                 PROVE  \E b \in Bindings' : isOpen(b)' /\ i \in billsOf(b)'
      BY <1>13 DEF NoOrphanedBill
    <2>1. CASE i \in {bb, ab}
      BY <2>1, <1>6, <1>13, <1>15 DEF billsOf, newBinding
    <2>2. CASE i \notin {bb, ab}
      BY <2>2, <1>6, <1>7, <1>13, <1>15 DEF IInv, NoOrphanedBill, billsOf
    <2> QED BY <2>1, <2>2
  <1> QED BY <1>8, <1>9, <1>11, <1>12, <1>16, <1>17, <1>18, <1>19 DEF IInv, TypeOK

\* Facts about the two bills of a binding that every payout starts from.
LEMMA BindingParts ==
    ASSUME IInv, NEW b \in Bindings
    PROVE  /\ bindings[b] \in Binding
           /\ buyerBill(b) \in BillToken /\ agentBill(b) \in BillToken
           /\ buyerOf(b) \in Addr /\ agentOf(b) \in Addr /\ buyerOf(b) # agentOf(b)
           /\ tokenOf(b) \in Token
           /\ buyerBill(b).amount \in Nat /\ agentBill(b).amount \in Nat
           /\ totalPool(b) = buyerBill(b).amount + agentBill(b).amount
           /\ totalPool(b) \in Nat
  <1>1. bindings[b] \in Binding /\ buyerOf(b) # agentOf(b)
    BY DEF IInv, TypeOK, RegistryTypeOK, BindingHoldsItsBills, Bindings
  <1>2. buyerBill(b) \in BillToken /\ agentBill(b) \in BillToken
    BY DEF IInv, TypeOK, RegistryTypeOK, BindingHoldsItsBills, Bills, buyerBill, agentBill
  <1> QED BY <1>1, <1>2 DEF BillToken, buyerOf, agentOf, tokenOf, totalPool

\* A payout that hands out no more than the pool, and approves the bridge for
\* no more than what it keeps back, preserves the invariant.
LEMMA ReleaseStep ==
    ASSUME IInv, NEW b \in Bindings, isOpen(b),
           NEW state \in TerminalState,
           NEW toBuyer \in Nat, NEW toAgent \in Nat, NEW approved \in Nat, NEW pulled \in Nat,
           pulled <= approved,
           toBuyer + toAgent + approved <= totalPool(b) + allowance[tokenOf(b)],
           release(b, state, toBuyer, toAgent, approved, pulled)
    PROVE  IInv'
  <1>1. PICK buyer \in Addr, agent \in Addr, t \in Token, x \in Nat, y \in Nat :
            /\ buyer = buyerOf(b) /\ agent = agentOf(b) /\ buyer # agent
            /\ t = tokenOf(b) /\ x = buyerBill(b).amount /\ y = agentBill(b).amount
            /\ totalPool(b) = x + y
    BY BindingParts
  <1>2. PICK bb \in Bills, ab \in Bills :
            bindings[b].buyerBillId = bb /\ bindings[b].agentBillId = ab
    BY DEF IInv, BindingHoldsItsBills
  <1>3. /\ bills \in [1..billCounter -> BillToken] /\ billCounter \in 0..MaxBills
        /\ bindings \in [1..bindingCounter -> Binding] /\ bindingCounter \in 0..MaxBindings
        /\ bindings[b] \in Binding
        /\ bb # ab
    BY <1>2 DEF IInv, TypeOK, RegistryTypeOK, BindingHoldsItsBills, Bindings
  <1>4. /\ billCounter' = billCounter /\ bindingCounter' = bindingCounter
        /\ bills' = [bills EXCEPT ![bb].state = "BURNED", ![ab].state = "BURNED"]
        /\ bindings' = [bindings EXCEPT ![b].state = state,
                                        ![b].resolved = @ \/ arbitrated(b)]
    BY <1>2 DEF release, burnBills
  <1>5. /\ boundBalance[buyer] >= x /\ boundBalance[agent] >= y
        /\ totalMintedByAddr[buyer] >= x /\ totalMintedByAddr[agent] >= y
        /\ totalLockedByAddr[buyer] >= x /\ totalLockedByAddr[agent] >= y
        /\ totalBillSupply[t] >= x + y /\ totalLocked[t] >= x + y
        /\ pendingBatchAmount[t] >= x + y
        /\ boundBalance' = [boundBalance EXCEPT ![buyer] = @ - x, ![agent] = @ - y]
        /\ totalMintedByAddr' = [totalMintedByAddr EXCEPT ![buyer] = @ - x, ![agent] = @ - y]
        /\ totalLockedByAddr' = [totalLockedByAddr EXCEPT ![buyer] = @ - x, ![agent] = @ - y]
        /\ totalBillSupply' = [totalBillSupply EXCEPT ![t] = @ - (x + y)]
        /\ totalLocked' = [totalLocked EXCEPT ![t] = @ - (x + y)]
        /\ pendingBatchAmount' = [pendingBatchAmount EXCEPT ![t] = @ - (x + y)]
        /\ freeBalance' = freeBalance
    BY <1>1 DEF release, lessStakes, coversStakes
  <1>6. /\ escrow[t] >= toBuyer + toAgent + pulled
        /\ wallet' = [wallet EXCEPT ![buyer][t] = @ + toBuyer, ![agent][t] = @ + toAgent]
        /\ escrow' = [escrow EXCEPT ![t] = @ - (toBuyer + toAgent + pulled)]
        /\ bridgeFunds' = [bridgeFunds EXCEPT ![t] = @ + pulled]
        /\ allowance' = [allowance EXCEPT ![t] = approved - pulled]
        /\ toBuyer + toAgent + approved <= x + y + allowance[t]
    BY <1>1 DEF release
  <1>7. FreezeTypeOK' /\ ConfigTypeOK'
    BY DEF IInv, TypeOK, release, freezeVars, breakerVars, overlayVars, FreezeTypeOK,
           BreakerTypeOK, configVars, ConfigTypeOK, Time
  <1>8. /\ bills' \in [1..billCounter -> BillToken]
        /\ bills'[bb].state = "BURNED" /\ bills'[ab].state = "BURNED"
        /\ \A i \in Bills : /\ bills'[i].owner = bills[i].owner
                            /\ bills'[i].token = bills[i].token
                            /\ i \notin {bb, ab} => bills'[i] = bills[i]
    BY <1>3, <1>4 DEF BillToken, BillState, Bills
  <1>9. /\ bindings' \in [1..bindingCounter -> Binding]
        /\ bindings'[b].state = state
        /\ \A c \in Bindings : /\ bindings'[c].buyerBillId = bindings[c].buyerBillId
                               /\ bindings'[c].agentBillId = bindings[c].agentBillId
                               /\ c # b => bindings'[c] = bindings[c]
    <2>1. b \in 1..bindingCounter /\ state \in BindingState
      BY DEF Bindings, BindingState
    <2>2. PICK res \in BOOLEAN :
             bindings' = [bindings EXCEPT ![b].state = state, ![b].resolved = res]
      <3>1. (bindings[b].resolved \/ arbitrated(b)) \in BOOLEAN
        OBVIOUS
      <3> QED BY <1>4, <3>1
    <2> QED BY <2>1, <2>2, <1>3 DEF Binding, Bindings
  <1>10. RegistryTypeOK'
    BY <1>3, <1>4, <1>8, <1>9 DEF RegistryTypeOK
  <1>11. LedgerTypeOK' /\ CountersAgree'
    <2>1. LedgerTypeOK
      BY DEF IInv, TypeOK
    <2>2. /\ totalBillSupply' \in [Token -> Nat] /\ totalLocked' \in [Token -> Nat]
          /\ pendingBatchAmount' \in [Token -> Nat]
      BY <1>5, <2>1 DEF LedgerTypeOK
    <2>3. /\ freeBalance' \in [Addr -> Nat] /\ boundBalance' \in [Addr -> Nat]
          /\ totalMintedByAddr' \in [Addr -> Nat] /\ totalLockedByAddr' \in [Addr -> Nat]
      BY <1>1, <1>5, <2>1 DEF LedgerTypeOK
    <2>4. \A u \in Token : totalBillSupply'[u] = totalLocked'[u]
      BY <1>5, <2>1 DEF LedgerTypeOK, IInv, CountersAgree
    <2>5. \A a \in Addr : /\ freeBalance'[a] + boundBalance'[a] = totalMintedByAddr'[a]
                          /\ totalLockedByAddr'[a] = totalMintedByAddr'[a]
      BY <1>1, <1>5, <2>1 DEF LedgerTypeOK, IInv, CountersAgree
    <2> QED BY <2>2, <2>3, <2>4, <2>5 DEF LedgerTypeOK, CountersAgree
  <1>12. MoneyTypeOK'
    <2>1. MoneyTypeOK
      BY DEF IInv, TypeOK
    <2>2. /\ escrow' \in [Token -> Nat] /\ bridgeFunds' \in [Token -> Nat]
          /\ allowance' \in [Token -> Nat]
      BY <1>6, <2>1 DEF MoneyTypeOK
    <2>3. wallet' \in [Addr -> [Token -> Nat]]
      <3> DEFINE wb == [wallet[buyer] EXCEPT ![t] = @ + toBuyer]
                 wa == [wallet[agent] EXCEPT ![t] = @ + toAgent]
      <3>1. wb \in [Token -> Nat] /\ wa \in [Token -> Nat]
        BY <2>1 DEF MoneyTypeOK
      <3>2. wallet' = [wallet EXCEPT ![buyer] = wb, ![agent] = wa]
        BY <1>1, <1>6, <2>1 DEF MoneyTypeOK
      <3> HIDE DEF wb, wa
      <3> QED BY <2>1, <3>1, <3>2 DEF MoneyTypeOK
    <2> QED BY <2>2, <2>3 DEF MoneyTypeOK
  <1>13. Solvent'
    BY <1>5, <1>6 DEF IInv, TypeOK, MoneyTypeOK, LedgerTypeOK, Solvent
  <1>14. Bills' = Bills /\ Bindings' = Bindings
    BY <1>4 DEF Bills, Bindings
  <1>15. \A c \in Bindings : c # b => /\ bindings[c].buyerBillId \in Bills \ {bb, ab}
                                      /\ bindings[c].agentBillId \in Bills \ {bb, ab}
    BY <1>2 DEF IInv, SingleCommitment, BindingHoldsItsBills, billsOf
  <1>16. /\ \A c \in Bindings : c # b => /\ buyerBill(c)' = buyerBill(c)
                                         /\ agentBill(c)' = agentBill(c)
                                         /\ isOpen(c)' = isOpen(c)
         /\ buyerBill(b)' = bills'[bb] /\ agentBill(b)' = bills'[ab] /\ ~isOpen(b)'
    <2>1. \A c \in Bindings : c # b => buyerBill(c)' = buyerBill(c) /\ agentBill(c)' = agentBill(c)
      BY <1>8, <1>9, <1>15 DEF buyerBill, agentBill
    <2>2. \A c \in Bindings : c # b => isOpen(c)' = isOpen(c)
      BY <1>9 DEF isOpen
    <2>3. buyerBill(b)' = bills'[bb] /\ agentBill(b)' = bills'[ab]
      BY <1>2, <1>9 DEF buyerBill, agentBill
    <2>4. ~isOpen(b)'
      BY <1>9 DEF isOpen, OpenState, TerminalState
    <2> QED BY <2>1, <2>2, <2>3, <2>4
  <1>17. BindingHoldsItsBills'
    <2> SUFFICES ASSUME NEW c \in Bindings
        PROVE (/\ bindings[c].buyerBillId \in Bills
               /\ bindings[c].agentBillId \in Bills
               /\ bindings[c].buyerBillId # bindings[c].agentBillId
               /\ tokenOf(c) = agentBill(c).token
               /\ buyerOf(c) # agentOf(c)
               /\ buyerBill(c).state = IF isOpen(c) THEN "BOUND" ELSE "BURNED"
               /\ agentBill(c).state = IF isOpen(c) THEN "BOUND" ELSE "BURNED")'
      BY <1>14 DEF BindingHoldsItsBills
    <2>1. CASE c # b
      BY <2>1, <1>9, <1>14, <1>16 DEF IInv, BindingHoldsItsBills, tokenOf, buyerOf, agentOf
    <2>2. CASE c = b
      <3>1. /\ bills[bb].token = bills[ab].token /\ bills[bb].owner # bills[ab].owner
        BY <1>2 DEF IInv, BindingHoldsItsBills, tokenOf, buyerOf, agentOf, buyerBill, agentBill
      <3>2. /\ tokenOf(b)' = agentBill(b)'.token /\ buyerOf(b)' # agentOf(b)'
        BY <3>1, <1>8, <1>16 DEF tokenOf, buyerOf, agentOf
      <3>3. bindings'[b].buyerBillId = bb /\ bindings'[b].agentBillId = ab
        BY <1>2, <1>9
      <3> QED BY <2>2, <3>2, <3>3, <1>3, <1>8, <1>14, <1>16
    <2> QED BY <2>1, <2>2
  <1>18. SingleCommitment'
    BY <1>9, <1>14 DEF IInv, SingleCommitment, billsOf
  <1>19. DisputesWellFormed'
    BY <1>9, <1>14 DEF IInv, DisputesWellFormed, requiresAttestation, TerminalState
  <1>20. NoOrphanedBill'
    <2> SUFFICES ASSUME NEW i \in Bills, bills'[i].state = "BOUND"
                 PROVE  \E c \in Bindings : isOpen(c)' /\ i \in billsOf(c)'
      BY <1>14 DEF NoOrphanedBill
    <2>1. i \notin {bb, ab} /\ bills[i].state = "BOUND"
      BY <1>8
    <2>2. PICK c \in Bindings : isOpen(c) /\ i \in billsOf(c)
      BY <2>1 DEF IInv, NoOrphanedBill
    <2>3. c # b
      BY <1>2, <2>1, <2>2 DEF billsOf
    <2> QED BY <2>2, <2>3, <1>9, <1>16 DEF billsOf
  <1> QED BY <1>7, <1>10, <1>11, <1>12, <1>13, <1>17, <1>18, <1>19, <1>20 DEF IInv, TypeOK

-----------------------------------------------------------------------------
\* The payouts.

\* A share in basis points of a pool is at most the pool.
LEMMA ShareOfPool ==
    ASSUME NEW p \in Nat, NEW s \in Nat, s <= 10000
    PROVE  shareOf(p, s) \in Nat /\ shareOf(p, s) <= p
  <1>1. p * s \in Nat /\ p * s <= p * 10000
    OBVIOUS
  <1> QED BY <1>1 DEF shareOf

\* The fee is at most a tenth of the pool, whatever the bridge quotes.
LEMMA FeeCapped ==
    ASSUME NEW pool \in Nat, NEW quote \in Nat
    PROVE  /\ economyFee(pool, quote) \in Nat
           /\ 10 * economyFee(pool, quote) <= pool
  BY DEF economyFee, feeCeiling, shareOf

LEMMA SettlePayoutStep ==
    ASSUME IInv, NEW b \in Bindings, isOpen(b),
           NEW quote \in FeeQuotes, NEW pulls \in BOOLEAN,
           executeSettle(b, quote, pulls)
    PROVE  IInv'
  <1>1. totalPool(b) \in Nat /\ tokenOf(b) \in Token /\ quote \in Nat
    BY BindingParts, ShareAssumption
  <1>2. PICK pool \in Nat, fee \in Nat, old \in Nat :
            /\ pool = totalPool(b) /\ fee = economyFee(pool, quote) /\ fee <= pool
            /\ old = allowance[tokenOf(b)]
    <2>1. allowance[tokenOf(b)] \in Nat
      BY <1>1 DEF IInv, TypeOK, MoneyTypeOK
    <2>2. PICK pool \in Nat : pool = totalPool(b)
      BY <1>1
    <2>3. economyFee(pool, quote) \in Nat /\ 10 * economyFee(pool, quote) <= pool
      BY <1>1, FeeCapped
    <2>4. PICK fee \in Nat : fee = economyFee(pool, quote) /\ fee <= pool
      BY <2>3
    <2> QED BY <2>1, <2>2, <2>4
  <1>3. CASE bridgeCharges(pool, quote)
    <2>1. PICK pulled \in Nat : /\ pulled <= fee
                                /\ release(b, "SETTLED", 0, pool - fee, fee, pulled)
      BY <1>2, <1>3 DEF executeSettle, approvedFee
    <2> QED BY <1>2, <2>1, ReleaseStep DEF TerminalState
  <1>4. CASE ~bridgeCharges(pool, quote)
    <2>1. fee = 0
      BY <1>2, <1>4 DEF economyFee
    <2>2. release(b, "SETTLED", 0, pool, old, 0)
      BY <1>2, <1>4, <2>1 DEF executeSettle, approvedFee
    <2> QED BY <1>2, <2>2, ReleaseStep DEF TerminalState
  <1> QED BY <1>3, <1>4

LEMMA RefundPayoutStep ==
    ASSUME IInv, NEW b \in Bindings, isOpen(b),
           executeRefund(b)
    PROVE  IInv'
  <1>1. PICK x \in Nat, y \in Nat, old \in Nat :
            /\ x = buyerBill(b).amount /\ y = agentBill(b).amount /\ totalPool(b) = x + y
            /\ old = allowance[tokenOf(b)]
    BY BindingParts DEF IInv, TypeOK, MoneyTypeOK
  <1>2. release(b, "REFUNDED", x, y, old, 0)
    BY <1>1 DEF executeRefund
  <1> QED BY <1>1, <1>2, ReleaseStep DEF TerminalState

LEMMA SplitPayoutStep ==
    ASSUME IInv, NEW b \in Bindings, isOpen(b), NEW share \in Nat, share <= 10000,
           executeSplit(b, share)
    PROVE  IInv'
  <1>1. totalPool(b) \in Nat /\ allowance[tokenOf(b)] \in Nat
    BY BindingParts DEF IInv, TypeOK, MoneyTypeOK
  <1>2. shareOf(totalPool(b), share) \in Nat /\ shareOf(totalPool(b), share) <= totalPool(b)
    BY <1>1, ShareOfPool
  <1>3. PICK pool \in Nat, x \in Nat, old \in Nat :
            /\ pool = totalPool(b) /\ x = shareOf(totalPool(b), share) /\ x <= pool
            /\ old = allowance[tokenOf(b)]
    BY <1>1, <1>2
  <1>4. PICK y \in Nat : y = pool - x /\ x + y + old <= totalPool(b) + allowance[tokenOf(b)]
    BY <1>3
  <1>5. release(b, "SETTLED", shareOf(totalPool(b), share),
                totalPool(b) - shareOf(totalPool(b), share), allowance[tokenOf(b)], 0)
    BY DEF executeSplit
  <1>6. release(b, "SETTLED", x, y, old, 0)
    BY <1>3, <1>4, <1>5
  <1>7. "SETTLED" \in TerminalState /\ 0 \in Nat /\ 0 <= old
    BY DEF TerminalState
  <1> QED BY <1>4, <1>6, <1>7, ReleaseStep

-----------------------------------------------------------------------------
\* Steps that change one open binding and move no money.

LEMMA UpdateStep ==
    ASSUME IInv, NEW b \in Bindings, isOpen(b), NEW rec \in Binding,
           rec.buyerBillId = bindings[b].buyerBillId,
           rec.agentBillId = bindings[b].agentBillId,
           rec.taskId = bindings[b].taskId,
           rec.state \in {"FINALIZING", "DISPUTED"}, ~requiresAttestation(b),
           rec.state = "DISPUTED" => /\ rec.startedAt # 0 /\ rec.buyerSubmittedAt # 0
                                     /\ ~rec.resolved,
           updateBinding(b, rec)
    PROVE  IInv'
  <1>1. /\ bindings' = [bindings EXCEPT ![b] = rec]
        /\ UNCHANGED <<billCounter, bills, bindingCounter>>
    BY DEF updateBinding
  <1>2. FreezeTypeOK' /\ ConfigTypeOK'
    BY DEF IInv, TypeOK, updateBinding, freezeVars, breakerVars, overlayVars, FreezeTypeOK,
           BreakerTypeOK, configVars, ConfigTypeOK, Time
  <1>3. LedgerTypeOK' /\ MoneyTypeOK' /\ CountersAgree' /\ Solvent'
    BY DEF IInv, TypeOK, updateBinding, totalVars, accountVars, moneyVars, LedgerTypeOK,
           MoneyTypeOK, CountersAgree, Solvent
  <1>4. RegistryTypeOK'
    BY <1>1 DEF IInv, TypeOK, RegistryTypeOK
  <1>5. /\ Bindings' = Bindings /\ Bills' = Bills
        /\ bindings'[b] = rec
        /\ \A c \in Bindings : c # b => bindings'[c] = bindings[c]
    BY <1>1 DEF IInv, TypeOK, RegistryTypeOK, Bindings, Bills
  <1>6. \A c \in Bindings : /\ bindings'[c].buyerBillId = bindings[c].buyerBillId
                            /\ bindings'[c].agentBillId = bindings[c].agentBillId
                            /\ bindings'[c].taskId = bindings[c].taskId
    BY <1>5
  <1>7. \A c \in Bindings : /\ buyerBill(c)' = buyerBill(c) /\ agentBill(c)' = agentBill(c)
                            /\ isOpen(c)' = isOpen(c)
    <2>1. \A c \in Bindings : buyerBill(c)' = buyerBill(c) /\ agentBill(c)' = agentBill(c)
      BY <1>1, <1>6 DEF buyerBill, agentBill
    <2>2. \A c \in Bindings : isOpen(c)' = isOpen(c)
      BY <1>5 DEF isOpen, OpenState
    <2> QED BY <2>1, <2>2
  <1>8. BindingHoldsItsBills'
    BY <1>5, <1>6, <1>7 DEF IInv, BindingHoldsItsBills, tokenOf, buyerOf, agentOf
  <1>9. SingleCommitment' /\ NoOrphanedBill'
    BY <1>1, <1>5, <1>6, <1>7 DEF IInv, SingleCommitment, NoOrphanedBill, billsOf
  <1>10. DisputesWellFormed'
    BY <1>5, <1>6 DEF IInv, DisputesWellFormed, requiresAttestation
  <1> QED BY <1>2, <1>3, <1>4, <1>8, <1>9, <1>10 DEF IInv, TypeOK

\* Steps that touch no bill, binding, counter or token balance.
LEMMA FrameStep ==
    ASSUME IInv, UNCHANGED ledgerVars, FreezeTypeOK', ConfigTypeOK'
    PROVE  IInv'
  <1>1. /\ UNCHANGED <<billCounter, bills, bindingCounter, bindings>>
        /\ UNCHANGED <<totalBillSupply, totalLocked, pendingBatchAmount>>
        /\ UNCHANGED <<freeBalance, boundBalance, totalMintedByAddr, totalLockedByAddr>>
        /\ UNCHANGED <<wallet, escrow, bridgeFunds, allowance>>
    BY DEF ledgerVars, totalVars, accountVars, moneyVars
  <1>2. RegistryTypeOK' /\ LedgerTypeOK' /\ MoneyTypeOK' /\ CountersAgree' /\ Solvent'
    BY <1>1 DEF IInv, TypeOK, RegistryTypeOK, LedgerTypeOK, MoneyTypeOK, CountersAgree, Solvent
  <1>3. BindingHoldsItsBills' /\ SingleCommitment' /\ NoOrphanedBill' /\ DisputesWellFormed'
    BY <1>1 DEF IInv, BindingHoldsItsBills, SingleCommitment, NoOrphanedBill, DisputesWellFormed,
                Bills, Bindings, buyerBill, agentBill, buyerOf, agentOf, tokenOf, isOpen,
                billsOf, requiresAttestation
  <1> QED BY <1>2, <1>3 DEF IInv, TypeOK

LEMMA BridgeCollectStep ==
    ASSUME IInv, NEW t \in Token, bridgeCollect(t)
    PROVE  IInv'
  <1>1. /\ UNCHANGED <<billCounter, bills, bindingCounter, bindings>>
        /\ UNCHANGED <<totalBillSupply, totalLocked, pendingBatchAmount, wallet>>
        /\ UNCHANGED <<freeBalance, boundBalance, totalMintedByAddr, totalLockedByAddr>>
    BY DEF bridgeCollect, totalVars, accountVars
  <1>2. FreezeTypeOK' /\ ConfigTypeOK'
    BY DEF IInv, TypeOK, bridgeCollect, freezeVars, breakerVars, overlayVars, FreezeTypeOK,
           BreakerTypeOK, configVars, ConfigTypeOK, Time
  <1>3. RegistryTypeOK' /\ LedgerTypeOK' /\ CountersAgree'
    BY <1>1 DEF IInv, TypeOK, RegistryTypeOK, LedgerTypeOK, CountersAgree
  <1>4. MoneyTypeOK' /\ Solvent'
    BY <1>1 DEF IInv, TypeOK, MoneyTypeOK, LedgerTypeOK, Solvent, bridgeCollect
  <1>5. BindingHoldsItsBills' /\ SingleCommitment' /\ NoOrphanedBill' /\ DisputesWellFormed'
    BY <1>1 DEF IInv, BindingHoldsItsBills, SingleCommitment, NoOrphanedBill, DisputesWellFormed,
                Bills, Bindings, buyerBill, agentBill, buyerOf, agentOf, tokenOf, isOpen,
                billsOf, requiresAttestation
  <1> QED BY <1>2, <1>3, <1>4, <1>5 DEF IInv, TypeOK

\* The clock and the freeze contracts stay within their types.
LEMMA FreezeStep ==
    ASSUME IInv, FreezeNext
    PROVE  FreezeTypeOK'
  <1>1. CASE BreakerNext /\ UNCHANGED overlayVars
    <2>1. globalPaused' \in BOOLEAN /\ agentPaused' \in [Addr -> BOOLEAN]
      <3> USE DEF IInv, TypeOK, FreezeTypeOK, BreakerTypeOK
      <3>1. CASE emergencyPause
        BY <3>1, Zenon DEF emergencyPause
      <3>2. CASE requestEmergencyResume
        BY <3>2, Zenon DEF requestEmergencyResume
      <3>3. CASE emergencyResume
        BY <3>3, Zenon DEF emergencyResume
      <3>4. ASSUME NEW a \in Addr, pauseAgent(a) \/ resumeAgent(a)
            PROVE  globalPaused' \in BOOLEAN /\ agentPaused' \in [Addr -> BOOLEAN]
        BY <3>4 DEF pauseAgent, resumeAgent
      <3> QED BY <1>1, <3>1, <3>2, <3>3, <3>4 DEF BreakerNext, OtherBreakerCalls
    <2>2. now' \in Time /\ emergencyResumeRequestedAt' \in 0..MaxTime
      BY <1>1, MaxTimeAssumption
      DEF IInv, TypeOK, FreezeTypeOK, BreakerTypeOK, BreakerNext, OtherBreakerCalls, Time,
          emergencyPause, requestEmergencyResume, emergencyResume, pauseAgent, resumeAgent
    <2> QED BY <1>1, <2>1, <2>2 DEF IInv, TypeOK, FreezeTypeOK, BreakerTypeOK, overlayVars
  <1>2. CASE OverlayNext
    <2>1. now \in Nat /\ FreezeDurations \subseteq Nat
      BY MaxTimeAssumption, DurationAssumption
      DEF IInv, TypeOK, FreezeTypeOK, BreakerTypeOK, Time
    <2>2. UNCHANGED <<now, breakerVars>>
      BY <1>2 DEF OverlayNext, freezeGlobal, unfreezeGlobal, freezeAgent, unfreezeAgent, freezeBill,
                  unfreezeBill, freezeBinding, unfreezeBinding, setCircuitBreaker
    <2>3. BreakerTypeOK'
      BY <2>2 DEF IInv, TypeOK, FreezeTypeOK, BreakerTypeOK, breakerVars, Time
    <2>4. circuitBreaker' \in BOOLEAN
      BY <1>2 DEF IInv, TypeOK, FreezeTypeOK, OverlayNext, freezeGlobal, unfreezeGlobal, freezeAgent,
                  unfreezeAgent, freezeBill, unfreezeBill, freezeBinding, unfreezeBinding,
                  setCircuitBreaker
    <2>5. /\ globalFreezeUntil' \in Nat /\ agentFreezeUntil' \in [Addr -> Nat]
          /\ billFreezeUntil' \in [BillId -> Nat] /\ bindingFreezeUntil' \in [BindingId -> Nat]
      BY <1>2, <2>1 DEF IInv, TypeOK, FreezeTypeOK, OverlayNext, freezeGlobal, unfreezeGlobal,
                  freezeAgent, unfreezeAgent, freezeBill, unfreezeBill, freezeBinding,
                  unfreezeBinding, setCircuitBreaker
    <2> QED BY <2>3, <2>4, <2>5 DEF FreezeTypeOK
  <1> QED BY <1>1, <1>2 DEF FreezeNext

-----------------------------------------------------------------------------
\* The operations on a binding.

LEMMA Clock == IInv => now \in Nat \ {0}
  BY MaxTimeAssumption DEF IInv, TypeOK, FreezeTypeOK, BreakerTypeOK, Time

LEMMA SettleStep ==
    ASSUME IInv, NEW a \in Addr, NEW b \in Bindings, settle(a, b)
    PROVE  IInv'
  <1>1. bindings[b] \in Binding /\ now \in Nat
    BY BindingParts, Clock
  <1>2. PICK rec : rec = [bindings[b] EXCEPT !.state = "FINALIZING", !.settleSubmittedAt = now]
    OBVIOUS
  <1>3. /\ rec \in Binding /\ rec.state = "FINALIZING"
        /\ rec.buyerBillId = bindings[b].buyerBillId
        /\ rec.agentBillId = bindings[b].agentBillId /\ rec.taskId = bindings[b].taskId
    BY <1>1, <1>2 DEF Binding, BindingState, OpenState
  <1>4. isOpen(b) /\ ~requiresAttestation(b) /\ updateBinding(b, rec)
    BY <1>2 DEF settle, settleable, isOpen, OpenState
  <1> QED BY <1>3, <1>4, UpdateStep

LEMMA DisputeStep ==
    ASSUME IInv, NEW a \in Addr, NEW b \in Bindings, dispute(a, b)
    PROVE  IInv'
  <1>1. bindings[b] \in Binding /\ now \in Nat \ {0}
    BY BindingParts, Clock
  <1>2. PICK rec : rec = [bindings[b] EXCEPT !.state = "DISPUTED", !.startedAt = now,
                             !.buyerSubmittedAt = now, !.agentSubmittedAt = 0,
                             !.resolved = FALSE]
    OBVIOUS
  <1>3. /\ rec \in Binding /\ rec.state = "DISPUTED"
        /\ rec.buyerBillId = bindings[b].buyerBillId
        /\ rec.agentBillId = bindings[b].agentBillId /\ rec.taskId = bindings[b].taskId
        /\ rec.startedAt # 0 /\ rec.buyerSubmittedAt # 0 /\ ~rec.resolved
    BY <1>1, <1>2 DEF Binding, BindingState, OpenState
  <1>4. isOpen(b) /\ updateBinding(b, rec)
    BY <1>2 DEF dispute, isOpen, OpenState
  <1>5. ~requiresAttestation(b)
    BY DEF dispute, IInv, DisputesWellFormed
  <1> QED BY <1>3, <1>4, <1>5, UpdateStep

LEMMA EvidenceStep ==
    ASSUME IInv, NEW a \in Addr, NEW b \in Bindings, submitArbitrationEvidence(a, b)
    PROVE  IInv'
  <1>1. bindings[b] \in Binding /\ now \in Nat \ {0}
    BY BindingParts, Clock
  <1>2. /\ bindings[b].state = "DISPUTED" /\ bindings[b].startedAt # 0
        /\ bindings[b].buyerSubmittedAt # 0 /\ ~bindings[b].resolved /\ ~requiresAttestation(b)
    BY DEF submitArbitrationEvidence, IInv, DisputesWellFormed
  <1>3. PICK rec : /\ \/ rec = [bindings[b] EXCEPT !.buyerSubmittedAt = now]
                      \/ rec = [bindings[b] EXCEPT !.agentSubmittedAt = now]
                   /\ updateBinding(b, rec)
    BY DEF submitArbitrationEvidence
  <1>4. /\ rec \in Binding /\ rec.state = "DISPUTED"
        /\ rec.buyerBillId = bindings[b].buyerBillId
        /\ rec.agentBillId = bindings[b].agentBillId /\ rec.taskId = bindings[b].taskId
        /\ rec.startedAt # 0 /\ rec.buyerSubmittedAt # 0 /\ ~rec.resolved
    BY <1>1, <1>2, <1>3 DEF Binding
  <1>5. isOpen(b)
    BY <1>2 DEF isOpen, OpenState
  <1> QED BY <1>2, <1>3, <1>4, <1>5, UpdateStep

\* Every way of paying a binding out.
LEMMA PayoutStep ==
    ASSUME IInv, NEW b \in Bindings, NEW quote \in FeeQuotes, NEW pulls \in BOOLEAN,
           \/ settleAttested(b, quote, pulls)
           \/ finalizeSettle(b, quote, pulls)
           \/ autoResolveArbitration(b, quote, pulls)
           \/ \E share \in ShareBps : resolveDispute(b, share)
           \/ \E a \in Addr : refundOnTimeout(a, b)
    PROVE  IInv'
  <1>1. CASE settleAttested(b, quote, pulls)
    BY <1>1, SettlePayoutStep DEF settleAttested, settleable, isOpen, OpenState
  <1>2. CASE finalizeSettle(b, quote, pulls)
    BY <1>2, SettlePayoutStep DEF finalizeSettle, isOpen, OpenState
  <1>3. CASE autoResolveArbitration(b, quote, pulls)
    <2>1. isOpen(b) /\ bindings[b].buyerSubmittedAt # 0
      BY <1>3 DEF autoResolveArbitration, autoResolvable, isOpen, OpenState, IInv, DisputesWellFormed
    <2>2. CASE bindings[b].agentSubmittedAt = 0
      <3>1. executeSplit(b, 10000)
        BY <1>3, <2>1, <2>2 DEF autoResolveArbitration
      <3> QED BY <2>1, <3>1, SplitPayoutStep
    <2>3. CASE bindings[b].agentSubmittedAt # 0
      <3>1. executeSplit(b, 5000)
        BY <1>3, <2>1, <2>3 DEF autoResolveArbitration
      <3> QED BY <2>1, <3>1, SplitPayoutStep
    <2> QED BY <2>2, <2>3
  <1>4. ASSUME NEW share \in ShareBps, resolveDispute(b, share)
        PROVE  IInv'
    BY <1>4, ShareAssumption, SplitPayoutStep DEF resolveDispute, isOpen, OpenState
  <1>5. ASSUME NEW a \in Addr, refundOnTimeout(a, b)
        PROVE  IInv'
    BY <1>5, RefundPayoutStep DEF refundOnTimeout, settleable, isOpen, OpenState
  <1> QED BY <1>1, <1>2, <1>3, <1>4, <1>5

LEMMA BindStep ==
    ASSUME IInv, NEW a \in Addr, NEW bb \in Bills, NEW ab \in Bills,
           \/ bind(a, bb, ab)
           \/ \E task \in TaskId : bindWithAttestation(a, bb, ab, task)
           \/ \E rate \in PenaltyRates, expiresAt \in IntentExpiries, verifier \in BOOLEAN :
                 bindWithIntent(a, bb, ab, rate, expiresAt, verifier)
    PROVE  IInv'
  <1>1. PICK task \in TaskId \cup {IntentTask, NoTask} :
            bindable(a, bb, ab) /\ createBinding(bb, ab, task)
    BY DEF bind, bindWithAttestation, bindWithIntent
  <1> QED BY <1>1, CreateBindingStep

LEMMA AdminStep ==
    ASSUME IInv,
           \/ \E field \in TimingFields : \E value \in TimingChoices[field] : setTiming(field, value)
           \/ \E t \in Token, allowed \in TokenFlags : setTokenAllowed(t, allowed)
           \/ \E t \in Token, threshold \in BatchThresholds : setBatchThreshold(t, threshold)
           \/ setAttestationGateway
           \/ \E wired \in BridgeFlags : setFeeBridge(wired)
           \/ \E wired \in GuardFlags : setEmergencyGuard(wired)
    PROVE  IInv'
  <1>1. UNCHANGED <<now, freezeVars>> /\ UNCHANGED ledgerVars
    BY DEF setTiming, setTokenAllowed, setBatchThreshold, setAttestationGateway, setFeeBridge,
           setEmergencyGuard
  <1>2. FreezeTypeOK'
    BY <1>1 DEF IInv, TypeOK, freezeVars, breakerVars, overlayVars, FreezeTypeOK,
                BreakerTypeOK, Time
  <1>3. batchThreshold' \in [Token -> Nat] /\ timing' \in [TimingFields -> Nat]
    BY TimingAssumption, AdminAssumption
    DEF IInv, TypeOK, ConfigTypeOK, setTiming, setTokenAllowed, setBatchThreshold,
        setAttestationGateway, setFeeBridge, setEmergencyGuard
  <1>4. /\ tokenAllowed' \in [Token -> BOOLEAN]
        /\ attestationGateway' \in BOOLEAN /\ feeBridge' \in BOOLEAN /\ emergencyGuard' \in BOOLEAN
    BY AdminAssumption
    DEF IInv, TypeOK, ConfigTypeOK, setTiming, setTokenAllowed, setBatchThreshold,
        setAttestationGateway, setFeeBridge, setEmergencyGuard
  <1>5. ConfigTypeOK'
    BY <1>3, <1>4 DEF ConfigTypeOK
  <1> QED BY <1>1, <1>2, <1>5, FrameStep

LEMMA TickStep ==
    ASSUME IInv, Tick
    PROVE  IInv'
  <1>1. UNCHANGED ledgerVars /\ UNCHANGED configVars /\ UNCHANGED freezeVars
    BY DEF Tick, ledgerVars, coreVars, totalVars, accountVars, moneyVars, configVars
  <1>2. now' \in Time
    BY MaxTimeAssumption DEF Tick, Time, IInv, TypeOK, FreezeTypeOK, BreakerTypeOK
  <1>3. FreezeTypeOK' /\ ConfigTypeOK'
    BY <1>1, <1>2 DEF IInv, TypeOK, freezeVars, breakerVars, overlayVars, FreezeTypeOK,
                      BreakerTypeOK, configVars, ConfigTypeOK
  <1> QED BY <1>1, <1>3, FrameStep

\* Every step of the system, the stuttering one included, preserves the invariant.
LEMMA NextIInv == IInv /\ [Next]_vars => IInv'
  <1> SUFFICES ASSUME IInv, [Next]_vars PROVE IInv'
    OBVIOUS
  <1>1. CASE PartyNext
    BY <1>1, LockStep, UnlockStep, BindStep, SettleStep, DisputeStep, EvidenceStep DEF PartyNext
  <1>2. CASE BuyerRefund
    BY <1>2, RefundPayoutStep DEF BuyerRefund, refundOnTimeout, settleable, isOpen, OpenState
  <1>3. CASE KeeperNext \/ GatewayNext
    BY <1>3, PayoutStep DEF KeeperNext, GatewayNext
  <1>4. CASE AdminNext
    <2>1. ASSUME NEW b \in Bindings, NEW share \in ShareBps, resolveDispute(b, share)
          PROVE  IInv'
      BY <2>1, ShareAssumption, SplitPayoutStep DEF resolveDispute, isOpen, OpenState
    <2> QED BY <1>4, <2>1, AdminStep DEF AdminNext
  <1>5. CASE \E t \in Token : bridgeCollect(t)
    BY <1>5, BridgeCollectStep
  <1>6. CASE Tick
    BY <1>6, TickStep
  <1>7. CASE FreezeNext /\ UNCHANGED coreVars
    <2>1. UNCHANGED ledgerVars /\ UNCHANGED configVars
      BY <1>7 DEF ledgerVars, coreVars, totalVars, accountVars, moneyVars, configVars
    <2>2. ConfigTypeOK'
      BY <2>1 DEF IInv, TypeOK, configVars, ConfigTypeOK
    <2> QED BY <1>7, <2>1, <2>2, FreezeStep, FrameStep
  <1>8. CASE UNCHANGED vars
    <2>1. UNCHANGED ledgerVars /\ UNCHANGED configVars /\ UNCHANGED <<now, freezeVars>>
      BY <1>8 DEF vars, ledgerVars, coreVars, totalVars, accountVars, moneyVars, configVars
    <2>2. FreezeTypeOK' /\ ConfigTypeOK'
      BY <2>1 DEF IInv, TypeOK, freezeVars, breakerVars, overlayVars, FreezeTypeOK,
                  BreakerTypeOK, Time, configVars, ConfigTypeOK
    <2> QED BY <2>1, <2>2, FrameStep
  <1> QED BY <1>1, <1>2, <1>3, <1>4, <1>5, <1>6, <1>7, <1>8 DEF Next, CoreNext

-----------------------------------------------------------------------------
\* The theorems.

\* The inductive invariant holds in every reachable state of the contracts, in
\* whatever order parties, keepers, gateway, administrator and operators act.
THEOREM InductiveInvariant == Spec => []IInv
  BY InitIInv, NextIInv, PTL DEF Spec

\* Type correctness of the contract's state.
THEOREM TypeCorrect == Spec => []TypeOK
  <1>1. IInv => TypeOK
    BY DEF IInv
  <1> QED BY <1>1, InductiveInvariant, PTL

\* KarmaBilateral never owes more than it holds: the escrow covers every live
\* bill and, besides, whatever the fee bridge may still pull.
THEOREM Solvency == Spec => []Solvent
  <1>1. IInv => Solvent
    BY DEF IInv
  <1> QED BY <1>1, InductiveInvariant, PTL

\* The post-checks of the contract hold for every token and account, after every
\* transaction.
THEOREM CountersAlwaysAgree == Spec => []CountersAgree
  <1>1. IInv => CountersAgree
    BY DEF IInv
  <1> QED BY <1>1, InductiveInvariant, PTL

\* A bill backs at most one binding, ever; an open binding has both its bills and
\* a BOUND bill an open binding; a dispute carries the buyer's evidence until it is
\* resolved, so arbitration without any evidence of the buyer cannot happen.
THEOREM BillsAlwaysFit == Spec => []BillsFitBindings
  <1>1. IInv => BillsFitBindings
    BY DEF IInv, BillsFitBindings
  <1> QED BY <1>1, InductiveInvariant, PTL

-----------------------------------------------------------------------------
\* Closed bindings and burned bills.

LEMMA LockKeepsClosed ==
    ASSUME IInv, NEW a \in Addr, NEW t \in Token, NEW amount \in LockAmounts, lock(a, t, amount)
    PROVE  keepsClosed
  <1>1. billCounter \in Nat /\ bills \in [1..billCounter -> BillToken]
    BY DEF IInv, TypeOK, RegistryTypeOK
  <1>2. PICK new : bills' = Extend(bills, billCounter + 1, new)
    BY DEF lock
  <1>3. \A i \in Bills : bills'[i] = bills[i]
    BY <1>1, <1>2 DEF Bills, Extend
  <1>4. bindings' = bindings
    BY DEF lock
  <1> QED BY <1>3, <1>4 DEF keepsClosed

LEMMA UnlockKeepsClosed ==
    ASSUME IInv, NEW a \in Addr, NEW i \in Bills, unlock(a, i)
    PROVE  keepsClosed
  <1>1. bills \in [1..billCounter -> BillToken]
    BY DEF IInv, TypeOK, RegistryTypeOK
  <1>2. /\ bindings' = bindings /\ bills[i].state = "MINTED"
        /\ bills' = [bills EXCEPT ![i].state = "BURNED"]
    BY DEF unlock
  <1> QED BY <1>1, <1>2 DEF keepsClosed, live, Bills

LEMMA BindKeepsClosed ==
    ASSUME IInv, NEW a \in Addr, NEW bb \in Bills, NEW ab \in Bills, NEW task,
           bindable(a, bb, ab), createBinding(bb, ab, task)
    PROVE  keepsClosed
  <1>1. /\ bills \in [1..billCounter -> BillToken]
        /\ bindings \in [1..bindingCounter -> Binding] /\ bindingCounter \in Nat
    BY DEF IInv, TypeOK, RegistryTypeOK
  <1>2. /\ bills[bb].state = "MINTED" /\ bills[ab].state = "MINTED"
        /\ bills' = [bills EXCEPT ![bb].state = "BOUND", ![ab].state = "BOUND"]
    BY DEF bindable, createBinding
  <1>3. PICK new : bindings' = Extend(bindings, bindingCounter + 1, new)
    BY DEF createBinding
  <1>4. \A b \in Bindings : bindings'[b] = bindings[b]
    BY <1>1, <1>3 DEF Bindings, Extend
  <1>5. \A i \in Bills : ~live(i) => bills'[i] = bills[i]
    BY <1>1, <1>2 DEF live, Bills
  <1> QED BY <1>4, <1>5 DEF keepsClosed

LEMMA ReleaseKeepsClosed ==
    ASSUME IInv, NEW b \in Bindings, isOpen(b), NEW state, NEW toBuyer, NEW toAgent,
           NEW approved, NEW pulled, release(b, state, toBuyer, toAgent, approved, pulled)
    PROVE  keepsClosed
  <1>1. PICK bb \in Bills, ab \in Bills :
            /\ bindings[b].buyerBillId = bb /\ bindings[b].agentBillId = ab
            /\ bills[bb].state = "BOUND" /\ bills[ab].state = "BOUND"
    BY DEF IInv, BindingHoldsItsBills, buyerBill, agentBill
  <1>2. /\ bills \in [1..billCounter -> BillToken]
        /\ bindings \in [1..bindingCounter -> Binding]
    BY DEF IInv, TypeOK, RegistryTypeOK
  <1>3. bills' = [bills EXCEPT ![bb].state = "BURNED", ![ab].state = "BURNED"]
    BY <1>1 DEF release, burnBills
  <1>4. \A i \in Bills : ~live(i) => bills'[i] = bills[i]
    BY <1>1, <1>2, <1>3 DEF live, Bills
  <1>5. bindings' = [bindings EXCEPT ![b].state = state, ![b].resolved = @ \/ arbitrated(b)]
    BY DEF release
  <1>6. \A c \in Bindings : c # b => bindings'[c] = bindings[c]
    BY <1>2, <1>5 DEF Bindings
  <1> QED BY <1>4, <1>6 DEF keepsClosed

LEMMA UpdateKeepsClosed ==
    ASSUME IInv, NEW b \in Bindings, isOpen(b), NEW rec, updateBinding(b, rec)
    PROVE  keepsClosed
  BY DEF IInv, TypeOK, RegistryTypeOK, updateBinding, keepsClosed, Bindings

\* Every payout goes through release on an open binding.
LEMMA PayoutKeepsClosed ==
    ASSUME IInv, NEW b \in Bindings, NEW quote, NEW pulls, NEW share, NEW a,
           \/ settleAttested(b, quote, pulls)
           \/ finalizeSettle(b, quote, pulls)
           \/ autoResolveArbitration(b, quote, pulls)
           \/ resolveDispute(b, share)
           \/ refundOnTimeout(a, b)
    PROVE  keepsClosed
  <1>1. isOpen(b)
    BY DEF settleAttested, finalizeSettle, autoResolveArbitration, autoResolvable, resolveDispute,
           refundOnTimeout, settleable, isOpen, OpenState
  <1>2. ASSUME executeSettle(b, quote, pulls) PROVE keepsClosed
    BY <1>1, <1>2, ReleaseKeepsClosed DEF executeSettle
  <1>3. ASSUME executeRefund(b) PROVE keepsClosed
    BY <1>1, <1>3, ReleaseKeepsClosed DEF executeRefund
  <1>4. ASSUME NEW bps, executeSplit(b, bps) PROVE keepsClosed
    BY <1>1, <1>4, ReleaseKeepsClosed DEF executeSplit
  <1>5. \/ executeSettle(b, quote, pulls)
        \/ executeRefund(b)
        \/ \E bps : executeSplit(b, bps)
    BY DEF settleAttested, finalizeSettle, autoResolveArbitration, resolveDispute, refundOnTimeout
  <1> QED BY <1>2, <1>3, <1>4, <1>5

LEMMA NextKeepsClosed == IInv /\ [Next]_vars => [keepsClosed]_vars
  <1> SUFFICES ASSUME IInv, Next PROVE keepsClosed
    OBVIOUS
  <1>1. ASSUME UNCHANGED <<bills, bindings>> PROVE keepsClosed
    BY <1>1 DEF keepsClosed
  <1>2. CASE PartyNext
    <2>1. ASSUME NEW a \in Addr, NEW bb \in Bills, NEW ab \in Bills, NEW task \in TaskId,
                 bind(a, bb, ab) \/ bindWithAttestation(a, bb, ab, task)
          PROVE  keepsClosed
      BY <2>1, BindKeepsClosed DEF bind, bindWithAttestation
    <2>2. ASSUME NEW a \in Addr, NEW bb \in Bills, NEW ab \in Bills, bind(a, bb, ab)
          PROVE  keepsClosed
      BY <2>2, BindKeepsClosed DEF bind
    <2>3. ASSUME NEW a \in Addr, NEW bb \in Bills, NEW ab \in Bills, NEW rate, NEW e, NEW v,
                 bindWithIntent(a, bb, ab, rate, e, v)
          PROVE  keepsClosed
      BY <2>3, BindKeepsClosed DEF bindWithIntent
    <2>4. ASSUME NEW a \in Addr, NEW b \in Bindings,
                 settle(a, b) \/ dispute(a, b) \/ submitArbitrationEvidence(a, b)
          PROVE  keepsClosed
      BY <2>4, UpdateKeepsClosed
      DEF settle, settleable, dispute, submitArbitrationEvidence, isOpen, OpenState
    <2> QED BY <1>2, <2>1, <2>2, <2>3, <2>4, LockKeepsClosed, UnlockKeepsClosed DEF PartyNext
  <1>3. CASE BuyerRefund \/ KeeperNext \/ GatewayNext
    BY <1>3, PayoutKeepsClosed DEF BuyerRefund, KeeperNext, GatewayNext
  <1>4. CASE AdminNext
    <2>1. ASSUME NEW b \in Bindings, NEW share \in ShareBps, resolveDispute(b, share)
          PROVE  keepsClosed
      BY <2>1, PayoutKeepsClosed
    <2>2. \/ \E b \in Bindings, share \in ShareBps : resolveDispute(b, share)
          \/ UNCHANGED <<bills, bindings>>
      BY <1>4 DEF AdminNext, setTiming, setTokenAllowed, setBatchThreshold, setAttestationGateway,
                  setFeeBridge, setEmergencyGuard, ledgerVars
    <2> QED BY <1>1, <2>1, <2>2
  <1>5. CASE \/ \E t \in Token : bridgeCollect(t)
             \/ Tick
             \/ FreezeNext /\ UNCHANGED coreVars
    BY <1>1, <1>5 DEF bridgeCollect, Tick, coreVars
  <1> QED BY <1>2, <1>3, <1>4, <1>5 DEF Next, CoreNext

\* Settlement is final: whatever is called later, in whatever order, a binding
\* that was paid out and a bill that was burned stay as they are.
THEOREM PayoutIsFinal == Spec => ClosedIsFinal
  BY InductiveInvariant, NextKeepsClosed, PTL DEF Spec, ClosedIsFinal

-----------------------------------------------------------------------------
\* What a payout pays.

\* The transactions that close a binding.
payout(b) ==
    \/ \E quote \in FeeQuotes, pulls \in BOOLEAN :
          \/ settleAttested(b, quote, pulls)
          \/ finalizeSettle(b, quote, pulls)
          \/ autoResolveArbitration(b, quote, pulls)
    \/ \E share \in ShareBps : resolveDispute(b, share)
    \/ \E a \in Addr : refundOnTimeout(a, b)

\* A step that leaves the state of a binding open does not close it.
LEMMA StaysOpen ==
    ASSUME NEW b \in Bindings, closes(b)
    PROVE  bindings'[b].state # bindings[b].state /\ bindings'[b].state \notin OpenState
  BY DEF closes, isOpen

\* A change of one binding to an open state closes none.
LEMMA UpdateCloses ==
    ASSUME IInv, NEW b \in Bindings, NEW c \in Bindings, NEW rec, rec.state \in OpenState,
           updateBinding(c, rec)
    PROVE  ~closes(b)
  <1>1. bindings \in [1..bindingCounter -> Binding]
    BY DEF IInv, TypeOK, RegistryTypeOK
  <1>2. bindings' = [bindings EXCEPT ![c] = rec]
    BY DEF updateBinding
  <1> QED BY <1>1, <1>2, StaysOpen DEF Bindings

\* A payout of one binding closes no other.
LEMMA ReleaseCloses ==
    ASSUME IInv, NEW b \in Bindings, NEW c \in Bindings, b # c, payout(c)
    PROVE  ~closes(b)
  <1>1. bindings \in [1..bindingCounter -> Binding]
    BY DEF IInv, TypeOK, RegistryTypeOK
  <1>2. PICK state, x, y, approved, pulled : release(c, state, x, y, approved, pulled)
    BY DEF payout, settleAttested, finalizeSettle, autoResolveArbitration, resolveDispute,
           refundOnTimeout, executeSettle, executeRefund, executeSplit
  <1>3. bindings' = [bindings EXCEPT ![c].state = state, ![c].resolved = @ \/ arbitrated(c)]
    BY <1>2 DEF release
  <1> QED BY <1>1, <1>3, StaysOpen DEF Bindings

\* Nothing but a payout of the binding itself closes a binding.
LEMMA ClosingIsPayout ==
    ASSUME IInv, Next, NEW b \in Bindings, closes(b)
    PROVE  payout(b)
  <1>1. ASSUME NEW c \in Bindings, payout(c) PROVE payout(b)
    BY <1>1, ReleaseCloses
  <1>2. ASSUME bindings' = bindings PROVE FALSE
    BY <1>2, StaysOpen
  <1>3. CASE PartyNext
    <2>1. ASSUME NEW bb \in Bills, NEW ab \in Bills, NEW task, createBinding(bb, ab, task)
          PROVE  FALSE
      <3>1. bindings \in [1..bindingCounter -> Binding] /\ bindingCounter \in Nat
        BY DEF IInv, TypeOK, RegistryTypeOK
      <3>2. PICK new : bindings' = Extend(bindings, bindingCounter + 1, new)
        BY <2>1 DEF createBinding
      <3>3. bindings'[b] = bindings[b]
        BY <3>1, <3>2 DEF Bindings, Extend
      <3> QED BY <3>3, StaysOpen
    <2>2. ASSUME NEW a \in Addr, NEW c \in Bindings,
                 settle(a, c) \/ dispute(a, c) \/ submitArbitrationEvidence(a, c)
          PROVE  FALSE
      <3>1. bindings[c] \in Binding
        BY BindingParts
      <3>2. CASE settle(a, c)
        <4>1. PICK rec : /\ rec = [bindings[c] EXCEPT !.state = "FINALIZING",
                                                       !.settleSubmittedAt = now]
                         /\ updateBinding(c, rec)
          BY <3>2 DEF settle
        <4>2. rec.state \in OpenState
          BY <3>1, <4>1 DEF OpenState, Binding
        <4> QED BY <4>1, <4>2, UpdateCloses
      <3>3. CASE dispute(a, c)
        <4>1. PICK rec : /\ rec = [bindings[c] EXCEPT !.state = "DISPUTED", !.startedAt = now,
                                      !.buyerSubmittedAt = now, !.agentSubmittedAt = 0,
                                      !.resolved = FALSE]
                         /\ updateBinding(c, rec)
          BY <3>3 DEF dispute
        <4>2. rec.state \in OpenState
          BY <3>1, <4>1 DEF OpenState, Binding
        <4> QED BY <4>1, <4>2, UpdateCloses
      <3>4. CASE submitArbitrationEvidence(a, c)
        <4>1. PICK rec : /\ \/ rec = [bindings[c] EXCEPT !.buyerSubmittedAt = now]
                            \/ rec = [bindings[c] EXCEPT !.agentSubmittedAt = now]
                         /\ updateBinding(c, rec)
          BY <3>4 DEF submitArbitrationEvidence
        <4>2. rec.state \in OpenState
          BY <3>1, <3>4, <4>1 DEF submitArbitrationEvidence, OpenState, Binding
        <4> QED BY <4>1, <4>2, UpdateCloses
      <3> QED BY <2>2, <3>2, <3>3, <3>4
    <2>3. ASSUME NEW a \in Addr, NEW t \in Token, NEW amount \in LockAmounts, lock(a, t, amount)
          PROVE  FALSE
      BY <2>3, <1>2 DEF lock
    <2>4. ASSUME NEW a \in Addr, NEW i \in Bills, unlock(a, i)
          PROVE  FALSE
      BY <2>4, <1>2 DEF unlock
    <2>5. ASSUME NEW a \in Addr, NEW bb \in Bills, NEW ab \in Bills, bind(a, bb, ab)
          PROVE  FALSE
      BY <2>5, <2>1 DEF bind
    <2>6. ASSUME NEW a \in Addr, NEW bb \in Bills, NEW ab \in Bills, NEW task \in TaskId,
                 bindWithAttestation(a, bb, ab, task)
          PROVE  FALSE
      BY <2>6, <2>1 DEF bindWithAttestation
    <2>7. ASSUME NEW a \in Addr, NEW bb \in Bills, NEW ab \in Bills, NEW rate, NEW e, NEW v,
                 bindWithIntent(a, bb, ab, rate, e, v)
          PROVE  FALSE
      BY <2>7, <2>1 DEF bindWithIntent
    <2> QED BY <1>3, <2>2, <2>3, <2>4, <2>5, <2>6, <2>7 DEF PartyNext
  <1>4. CASE BuyerRefund \/ KeeperNext \/ GatewayNext
    BY <1>1, <1>4 DEF BuyerRefund, KeeperNext, GatewayNext, payout
  <1>5. CASE AdminNext
    <2>1. \/ \E c \in Bindings, share \in ShareBps : resolveDispute(c, share)
          \/ bindings' = bindings
      BY <1>5 DEF AdminNext, setTiming, setTokenAllowed, setBatchThreshold, setAttestationGateway,
                  setFeeBridge, setEmergencyGuard, ledgerVars
    <2> QED BY <1>1, <1>2, <2>1 DEF payout
  <1>6. CASE \/ \E t \in Token : bridgeCollect(t)
             \/ Tick
             \/ FreezeNext /\ UNCHANGED coreVars
    BY <1>2, <1>6 DEF bridgeCollect, Tick, coreVars
  <1> QED BY <1>3, <1>4, <1>5, <1>6 DEF Next, CoreNext

\* The transfers of a payout are what the parties gain.
LEMMA Gains ==
    ASSUME IInv, NEW b \in Bindings, NEW state, NEW toBuyer \in Nat, NEW toAgent \in Nat,
           NEW approved, NEW pulled, release(b, state, toBuyer, toAgent, approved, pulled)
    PROVE  /\ bindings'[b].state = state
           /\ gain(buyerOf(b), tokenOf(b)) = toBuyer
           /\ gain(agentOf(b), tokenOf(b)) = toAgent
           /\ \A a \in Addr \ {buyerOf(b), agentOf(b)}, u \in Token : gain(a, u) = 0
  <1>1. bindings'[b].state = state
    BY DEF release, IInv, TypeOK, RegistryTypeOK, Binding, Bindings
  <1>2. PICK buyer \in Addr, agent \in Addr, t \in Token :
            /\ buyer = buyerOf(b) /\ agent = agentOf(b) /\ buyer # agent /\ t = tokenOf(b)
    BY BindingParts
  <1>3. wallet \in [Addr -> [Token -> Nat]]
    BY DEF IInv, TypeOK, MoneyTypeOK
  <1>4. wallet' = [wallet EXCEPT ![buyer][t] = @ + toBuyer, ![agent][t] = @ + toAgent]
    BY <1>2 DEF release
  <1>5. /\ wallet'[buyer][t] = wallet[buyer][t] + toBuyer
        /\ wallet'[agent][t] = wallet[agent][t] + toAgent
        /\ \A a \in Addr \ {buyer, agent} : wallet'[a] = wallet[a]
    BY <1>2, <1>3, <1>4
  <1>6. wallet[buyer][t] \in Nat /\ wallet[agent][t] \in Nat
        /\ \A a \in Addr, u \in Token : wallet[a][u] \in Nat
    BY <1>3
  <1> QED BY <1>1, <1>2, <1>5, <1>6 DEF gain

\* A settlement pays the pool less a fee of at most a tenth, and no frozen binding.
LEMMA SettlePays ==
    ASSUME IInv, NEW b \in Bindings, NEW quote \in FeeQuotes, NEW pulls \in BOOLEAN,
           executeSettle(b, quote, pulls)
    PROVE  sharesPool(b) /\ ~payoutFrozen(b)
  <1>1. totalPool(b) \in Nat /\ quote \in Nat
    BY BindingParts, ShareAssumption
  <1>2. PICK pool \in Nat : pool = totalPool(b)
    BY <1>1
  <1>3. PICK fee \in Nat : fee = economyFee(pool, quote) /\ 10 * fee <= pool
    BY <1>1, FeeCapped
  <1>4. PICK y \in Nat : y = pool - fee
    BY <1>3
  <1>5. PICK approved, pulled : release(b, "SETTLED", 0, y, approved, pulled)
    BY <1>2, <1>3, <1>4 DEF executeSettle
  <1>6. /\ bindings'[b].state = "SETTLED"
        /\ gain(buyerOf(b), tokenOf(b)) = 0
        /\ gain(agentOf(b), tokenOf(b)) = y
        /\ \A a \in Addr \ {buyerOf(b), agentOf(b)}, u \in Token : gain(a, u) = 0
    BY <1>5, Gains
  <1>7. 0 + y <= pool /\ 10 * (0 + y) >= 9 * pool
    BY <1>3, <1>4
  <1> QED BY <1>2, <1>6, <1>7 DEF sharesPool, executeSettle

\* A refund returns each stake.
LEMMA RefundPays ==
    ASSUME IInv, NEW b \in Bindings, executeRefund(b)
    PROVE  sharesPool(b) /\ paysNoSeller(b)
  <1>1. PICK x \in Nat, y \in Nat :
            x = buyerBill(b).amount /\ y = agentBill(b).amount /\ totalPool(b) = x + y
    BY BindingParts
  <1>2. PICK approved : release(b, "REFUNDED", x, y, approved, 0)
    BY <1>1 DEF executeRefund
  <1>3. /\ bindings'[b].state = "REFUNDED"
        /\ gain(buyerOf(b), tokenOf(b)) = x
        /\ gain(agentOf(b), tokenOf(b)) = y
        /\ \A a \in Addr \ {buyerOf(b), agentOf(b)}, u \in Token : gain(a, u) = 0
    BY <1>2, Gains
  <1>4. x + y <= x + y /\ 10 * (x + y) >= 9 * (x + y)
    OBVIOUS
  <1> QED BY <1>1, <1>3, <1>4 DEF sharesPool, paysNoSeller

\* A split hands out the whole pool; only one that gives the buyer everything
\* passes a freeze.
LEMMA SplitPays ==
    ASSUME IInv, NEW b \in Bindings, NEW share \in Nat, share <= 10000,
           executeSplit(b, share)
    PROVE  /\ sharesPool(b)
           /\ payoutFrozen(b) => paysNoSeller(b)
           /\ gain(buyerOf(b), tokenOf(b)) = shareOf(totalPool(b), share)
  <1>1. PICK pool \in Nat : pool = totalPool(b)
    BY BindingParts
  <1>2. PICK x \in Nat : x = shareOf(pool, share) /\ x <= pool
    BY ShareOfPool
  <1>3. PICK y \in Nat : y = pool - x
    BY <1>2
  <1>4. PICK approved : release(b, "SETTLED", x, y, approved, 0)
    BY <1>1, <1>2, <1>3 DEF executeSplit
  <1>5. /\ bindings'[b].state = "SETTLED"
        /\ gain(buyerOf(b), tokenOf(b)) = x
        /\ gain(agentOf(b), tokenOf(b)) = y
        /\ \A a \in Addr \ {buyerOf(b), agentOf(b)}, u \in Token : gain(a, u) = 0
    BY <1>4, Gains
  <1>6. x + y <= pool /\ 10 * (x + y) >= 9 * pool
    BY <1>3
  <1>7. sharesPool(b)
    BY <1>1, <1>5, <1>6 DEF sharesPool
  <1>8. ASSUME payoutFrozen(b) PROVE paysNoSeller(b)
    <2>1. share = 10000
      BY <1>8 DEF executeSplit
    <2>2. y = 0
      BY <1>2, <1>3, <2>1 DEF shareOf
    <2> QED BY <1>5, <2>2 DEF paysNoSeller
  <1> QED BY <1>1, <1>2, <1>5, <1>7, <1>8

\* Both automatic outcomes of a disputed binding that carries the buyer's evidence
\* leave the buyer at least half of the pool.
LEMMA AtLeastHalf ==
    ASSUME NEW p \in Nat
    PROVE  2 * shareOf(p, 5000) + 1 >= p /\ 2 * shareOf(p, 10000) + 1 >= p
  BY DEF shareOf

\* What any payout pays.
LEMMA PayoutPays ==
    ASSUME IInv, NEW b \in Bindings, payout(b)
    PROVE  /\ sharesPool(b)
           /\ payoutFrozen(b) => paysNoSeller(b)
           /\ protectsBuyer(b)
  <1>1. ASSUME NEW quote \in FeeQuotes, NEW pulls \in BOOLEAN, settleAttested(b, quote, pulls)
        PROVE  /\ sharesPool(b) /\ ~payoutFrozen(b)
               /\ protectsBuyer(b)
    BY <1>1, SettlePays DEF settleAttested, settleable, protectsBuyer
  <1>2. ASSUME NEW quote \in FeeQuotes, NEW pulls \in BOOLEAN, finalizeSettle(b, quote, pulls)
        PROVE  /\ sharesPool(b) /\ ~payoutFrozen(b)
               /\ protectsBuyer(b)
    BY <1>2, SettlePays DEF finalizeSettle, finalizeAfter, protectsBuyer
  <1>3. ASSUME NEW quote \in FeeQuotes, NEW pulls \in BOOLEAN,
               autoResolveArbitration(b, quote, pulls)
        PROVE  /\ sharesPool(b)
               /\ payoutFrozen(b) => paysNoSeller(b)
               /\ protectsBuyer(b)
    <2>1. bindings[b].state = "DISPUTED" /\ bindings[b].buyerSubmittedAt # 0
      BY <1>3 DEF autoResolveArbitration, autoResolvable, IInv, DisputesWellFormed
    <2>2. PICK share \in {5000, 10000} : executeSplit(b, share)
      BY <1>3, <2>1 DEF autoResolveArbitration
    <2>3. /\ sharesPool(b)
          /\ payoutFrozen(b) => paysNoSeller(b)
          /\ gain(buyerOf(b), tokenOf(b)) = shareOf(totalPool(b), share)
      BY <2>2, SplitPays
    <2>4. 2 * shareOf(totalPool(b), share) + 1 >= totalPool(b)
      BY BindingParts, AtLeastHalf, <2>2
    <2> QED BY <2>1, <2>3, <2>4 DEF protectsBuyer
  <1>4. ASSUME NEW share \in ShareBps, resolveDispute(b, share)
        PROVE  /\ sharesPool(b)
               /\ payoutFrozen(b) => paysNoSeller(b)
               /\ protectsBuyer(b)
    <2>1. /\ sharesPool(b)
          /\ payoutFrozen(b) => paysNoSeller(b)
      BY <1>4, ShareAssumption, SplitPays DEF resolveDispute
    <2>2. bindings[b].state = "DISPUTED"
      BY <1>4 DEF resolveDispute
    <2> QED BY <1>4, <2>1, <2>2 DEF protectsBuyer
  <1>5. ASSUME NEW a \in Addr, refundOnTimeout(a, b)
        PROVE  /\ sharesPool(b) /\ paysNoSeller(b)
               /\ protectsBuyer(b)
    BY <1>5, RefundPays DEF refundOnTimeout, settleable, protectsBuyer
  <1> QED BY <1>1, <1>2, <1>3, <1>4, <1>5 DEF payout

LEMMA NextPays ==
    IInv /\ [Next]_vars =>
        [\A b \in BindingId : closes(b) =>
             /\ sharesPool(b)
             /\ payoutFrozen(b) => paysNoSeller(b)
             /\ protectsBuyer(b)]_vars
  <1> SUFFICES ASSUME IInv, Next, NEW b \in BindingId, closes(b)
               PROVE  /\ sharesPool(b)
                      /\ payoutFrozen(b) => paysNoSeller(b)
                      /\ protectsBuyer(b)
    OBVIOUS
  <1>1. b \in Bindings
    BY DEF closes
  <1>2. payout(b)
    BY <1>1, ClosingIsPayout
  <1> QED BY <1>1, <1>2, PayoutPays

\* Whichever call pays a binding out, in whatever order the calls before it came
\* and whatever the fee bridge quotes: a refund returns the stakes, any other
\* payout hands out between 90% and all of the pool, and only to the two parties.
THEOREM PayoutAlwaysShares == Spec => PayoutSharesPool
  <1>1. IInv /\ [Next]_vars => [\A b \in BindingId : closes(b) => sharesPool(b)]_vars
    BY NextPays
  <1> QED BY InductiveInvariant, <1>1, PTL DEF Spec, PayoutSharesPool

\* No transaction pays the seller of a binding whose payout the freeze contract
\* blocks: not the keepers' calls, not the gateway's and not a partial split by
\* the administrator.
THEOREM FrozenNeverPaysSeller == Spec => FrozenPaysNoSeller
  <1>1. IInv /\ [Next]_vars =>
            [\A b \in BindingId : closes(b) /\ payoutFrozen(b) => paysNoSeller(b)]_vars
    BY NextPays
  <1> QED BY InductiveInvariant, <1>1, PTL DEF Spec, FrozenPaysNoSeller

\* The buyer of an optimistic settlement has its dispute window, and the buyer of
\* a disputed one at least half of the pool unless the administrator decides.
THEOREM BuyerIsProtected == Spec => DisputeProtectsBuyer
  <1>1. IInv /\ [Next]_vars => [\A b \in BindingId : closes(b) => protectsBuyer(b)]_vars
    BY NextPays
  <1> QED BY InductiveInvariant, <1>1, PTL DEF Spec, DisputeProtectsBuyer

-----------------------------------------------------------------------------
\* The running totals.

\* What is summed is finite and natural.
LEMMA Summands ==
    ASSUME IInv
    PROVE  /\ IsFiniteSet(Bills) /\ IsFiniteSet(Bindings)
           /\ \A t : IsFiniteSet(liveIn(t)) /\ IsFiniteSet(openIn(t))
           /\ \A a : IsFiniteSet(mintedBy(a)) /\ IsFiniteSet(boundBy(a))
           /\ \A i \in Bills : amounts[i] = bills[i].amount /\ amounts[i] \in Nat
           /\ \A b \in Bindings : pools[b] = totalPool(b) /\ pools[b] \in Nat
  <1>1. billCounter \in Nat /\ bindingCounter \in Nat
    BY DEF IInv, TypeOK, RegistryTypeOK
  <1>2. IsFiniteSet(Bills) /\ IsFiniteSet(Bindings)
    BY <1>1, FS_Interval DEF Bills, Bindings
  <1>3. \A t : liveIn(t) \in SUBSET Bills /\ openIn(t) \in SUBSET Bindings
    BY DEF liveIn, openIn
  <1>4. \A a : mintedBy(a) \in SUBSET Bills /\ boundBy(a) \in SUBSET Bills
    BY DEF mintedBy, boundBy
  <1>5. \A i \in Bills : amounts[i] = bills[i].amount /\ amounts[i] \in Nat
    BY DEF IInv, TypeOK, RegistryTypeOK, BillToken, Bills, amounts
  <1>6. \A b \in Bindings : pools[b] = totalPool(b) /\ pools[b] \in Nat
    BY BindingParts DEF pools
  <1> QED BY <1>2, <1>3, <1>4, <1>5, <1>6, FS_Subset

\* Nothing but the details of open bindings changes.
LEMMA BatchFrame ==
    ASSUME IInv, BatchMatchesBindings, Bindings' = Bindings, UNCHANGED pendingBatchAmount,
           \A b \in Bindings : /\ totalPool(b)' = totalPool(b)
                               /\ tokenOf(b)' = tokenOf(b) /\ isOpen(b)' = isOpen(b)
    PROVE  BatchMatchesBindings'
  <1>1. \A b \in Bindings : pools'[b] = pools[b]
    BY DEF pools
  <1> SUFFICES ASSUME NEW t \in Token
               PROVE  pendingBatchAmount[t] = SumFunctionOnSet(pools', openIn(t)')
    BY DEF BatchMatchesBindings
  <1>2. openIn(t)' = openIn(t)
    BY DEF openIn
  <1>3. \A b \in openIn(t) : pools'[b] = pools[b]
    BY <1>1 DEF openIn
  <1>4. SumFunctionOnSet(pools', openIn(t)') = SumFunctionOnSet(pools, openIn(t))
    BY <1>2, <1>3, Summands, SumKept
  <1> QED BY <1>4 DEF BatchMatchesBindings

LEMMA BalancesFrame ==
    ASSUME BalancesMatchBills, UNCHANGED <<billCounter, bills>>,
           UNCHANGED <<totalLocked, freeBalance, boundBalance>>
    PROVE  BalancesMatchBills'
  <1>1. Bills' = Bills
    BY DEF Bills
  <1>2. amounts' = amounts /\ \A t : liveIn(t)' = liveIn(t)
    BY <1>1 DEF amounts, liveIn, live
  <1>3. \A a : mintedBy(a)' = mintedBy(a) /\ boundBy(a)' = boundBy(a)
    BY <1>1 DEF mintedBy, boundBy
  <1> QED BY Zenon, <1>2, <1>3 DEF BalancesMatchBills

\* A locked bill joins the live bills of its token and the free ones of its owner.
LEMMA LockTotals ==
    ASSUME IInv, TotalsMatchBills, NEW a \in Addr, NEW t \in Token, NEW amount \in LockAmounts,
           lock(a, t, amount)
    PROVE  TotalsMatchBills'
  <1>1. PICK n \in Nat : n = billCounter + 1 /\ n \notin Bills /\ billCounter \in Nat
    BY DEF IInv, TypeOK, RegistryTypeOK, Bills
  <1>2. /\ amount \in Nat /\ BalancesMatchBills /\ BatchMatchesBindings /\ LedgerTypeOK
    BY FundsAssumption DEF TotalsMatchBills, IInv, TypeOK
  <1> DEFINE new == [owner |-> a, token |-> t, amount |-> amount, state |-> "MINTED"]
  <1>3. /\ bills' = Extend(bills, n, new) /\ Bills' = Bills \cup {n}
        /\ Bindings' = Bindings /\ bindings' = bindings
        /\ totalLocked' = [totalLocked EXCEPT ![t] = @ + amount]
        /\ freeBalance' = [freeBalance EXCEPT ![a] = @ + amount]
        /\ boundBalance' = boundBalance /\ UNCHANGED pendingBatchAmount
    BY <1>1 DEF lock, Bills, Bindings, IInv, TypeOK, RegistryTypeOK
  <1>4. bills'[n] = new /\ \A i \in Bills : bills'[i] = bills[i]
    <2> HIDE DEF new
    <2> QED BY <1>1, <1>3 DEF Extend, Bills
  <1>5. /\ \A i \in Bills : amounts'[i] = amounts[i] /\ amounts[i] \in Int
        /\ amounts'[n] = amount
    BY <1>3, <1>4, Summands DEF amounts
  <1>6. \A u \in Token : totalLocked'[u] = SumFunctionOnSet(amounts', liveIn(u)')
    <2> TAKE u \in Token
    <2>1. IsFiniteSet(liveIn(u)) /\ n \notin liveIn(u) /\ liveIn(u) \subseteq Bills
      BY <1>1, Summands DEF liveIn
    <2>2. CASE u = t
      <3>1. liveIn(u)' = liveIn(u) \cup {n}
        BY <1>1, <1>3, <1>4, <2>2 DEF liveIn, live
      <3>2. SumFunctionOnSet(amounts', liveIn(u)') = SumFunctionOnSet(amounts, liveIn(u)) + amount
        BY <1>2, <1>5, <2>1, <3>1, SumPlus
      <3> QED BY <1>2, <1>3, <2>2, <3>2 DEF BalancesMatchBills, LedgerTypeOK
    <2>3. CASE u # t
      <3>1. liveIn(u)' = liveIn(u)
        BY <1>1, <1>3, <1>4, <2>3 DEF liveIn, live
      <3>2. SumFunctionOnSet(amounts', liveIn(u)') = SumFunctionOnSet(amounts, liveIn(u))
        BY <1>5, <2>1, <3>1, SumKept
      <3> QED BY <1>2, <1>3, <2>3, <3>2 DEF BalancesMatchBills, LedgerTypeOK
    <2> QED BY <2>2, <2>3
  <1>7. \A c \in Addr : freeBalance'[c] = SumFunctionOnSet(amounts', mintedBy(c)')
    <2> TAKE c \in Addr
    <2>1. IsFiniteSet(mintedBy(c)) /\ n \notin mintedBy(c) /\ mintedBy(c) \subseteq Bills
      BY <1>1, Summands DEF mintedBy
    <2>2. CASE c = a
      <3>1. mintedBy(c)' = mintedBy(c) \cup {n}
        BY <1>1, <1>3, <1>4, <2>2 DEF mintedBy
      <3>2. SumFunctionOnSet(amounts', mintedBy(c)') = SumFunctionOnSet(amounts, mintedBy(c)) + amount
        BY <1>2, <1>5, <2>1, <3>1, SumPlus
      <3> QED BY <1>2, <1>3, <2>2, <3>2 DEF BalancesMatchBills, LedgerTypeOK
    <2>3. CASE c # a
      <3>1. mintedBy(c)' = mintedBy(c)
        BY <1>1, <1>3, <1>4, <2>3 DEF mintedBy
      <3>2. SumFunctionOnSet(amounts', mintedBy(c)') = SumFunctionOnSet(amounts, mintedBy(c))
        BY <1>5, <2>1, <3>1, SumKept
      <3> QED BY <1>2, <1>3, <2>3, <3>2 DEF BalancesMatchBills, LedgerTypeOK
    <2> QED BY <2>2, <2>3
  <1>8. \A c \in Addr : boundBalance'[c] = SumFunctionOnSet(amounts', boundBy(c)')
    <2> TAKE c \in Addr
    <2>1. IsFiniteSet(boundBy(c)) /\ boundBy(c) \subseteq Bills
      BY Summands DEF boundBy
    <2>3. boundBy(c)' = boundBy(c)
      BY <1>1, <1>3, <1>4 DEF boundBy
    <2>2. SumFunctionOnSet(amounts', boundBy(c)') = SumFunctionOnSet(amounts, boundBy(c))
      BY <1>5, <2>1, <2>3, SumKept
    <2> QED BY <1>2, <1>3, <2>2 DEF BalancesMatchBills
  <1>9. BatchMatchesBindings'
    <2>1. \A b \in Bindings : /\ totalPool(b)' = totalPool(b)
                              /\ tokenOf(b)' = tokenOf(b) /\ isOpen(b)' = isOpen(b)
      BY <1>3, <1>4 DEF IInv, BindingHoldsItsBills, totalPool, tokenOf, isOpen, buyerBill, agentBill
    <2> QED BY <1>2, <1>3, <2>1, BatchFrame
  <1> QED BY <1>6, <1>7, <1>8, <1>9 DEF TotalsMatchBills, BalancesMatchBills

\* An unlocked bill leaves the live bills of its token and the free ones of its owner.
LEMMA UnlockTotals ==
    ASSUME IInv, TotalsMatchBills, NEW a \in Addr, NEW n \in Bills, unlock(a, n)
    PROVE  TotalsMatchBills'
  <1>1. /\ BalancesMatchBills /\ BatchMatchesBindings /\ LedgerTypeOK
        /\ bills \in [1..billCounter -> BillToken]
    BY DEF TotalsMatchBills, IInv, TypeOK, RegistryTypeOK
  <1>2. PICK t \in Token, amount \in Nat :
            bills[n].token = t /\ bills[n].amount = amount /\ bills[n].owner = a
    BY <1>1 DEF unlock, Bills, BillToken
  <1>3. /\ bills' = [bills EXCEPT ![n].state = "BURNED"] /\ bills[n].state = "MINTED"
        /\ Bills' = Bills /\ Bindings' = Bindings /\ bindings' = bindings
        /\ totalLocked' = [totalLocked EXCEPT ![t] = @ - amount]
        /\ freeBalance' = [freeBalance EXCEPT ![a] = @ - amount]
        /\ boundBalance' = boundBalance /\ UNCHANGED pendingBatchAmount
    BY <1>2 DEF unlock, Bills, Bindings
  <1>4. /\ bills'[n].state = "BURNED" /\ \A i \in Bills \ {n} : bills'[i] = bills[i]
        /\ bills'[n].amount = amount /\ bills'[n].token = t /\ bills'[n].owner = a
    BY <1>1, <1>2, <1>3 DEF Bills, BillToken
  <1>5. /\ \A i \in Bills : amounts'[i] = amounts[i] /\ amounts[i] \in Int
        /\ amounts[n] = amount
    BY <1>2, <1>3, <1>4, Summands DEF amounts
  <1>6. \A u \in Token : totalLocked'[u] = SumFunctionOnSet(amounts', liveIn(u)')
    <2> TAKE u \in Token
    <2>1. IsFiniteSet(liveIn(u)) /\ liveIn(u) \subseteq Bills
      BY Summands DEF liveIn
    <2>2. CASE u = t
      <3>1. liveIn(u)' = liveIn(u) \ {n} /\ n \in liveIn(u)
        BY <1>2, <1>3, <1>4, <2>2 DEF liveIn, live
      <3>2. SumFunctionOnSet(amounts', liveIn(u)') = SumFunctionOnSet(amounts, liveIn(u)) - amount
        BY <1>5, <2>1, <3>1, SumMinus
      <3> QED BY <1>1, <1>3, <2>2, <3>2 DEF BalancesMatchBills, LedgerTypeOK
    <2>3. CASE u # t
      <3>1. liveIn(u)' = liveIn(u)
        BY <1>2, <1>3, <1>4, <2>3 DEF liveIn, live
      <3>2. SumFunctionOnSet(amounts', liveIn(u)') = SumFunctionOnSet(amounts, liveIn(u))
        BY <1>5, <2>1, <3>1, SumKept
      <3> QED BY <1>1, <1>3, <2>3, <3>2 DEF BalancesMatchBills, LedgerTypeOK
    <2> QED BY <2>2, <2>3
  <1>7. \A c \in Addr : freeBalance'[c] = SumFunctionOnSet(amounts', mintedBy(c)')
    <2> TAKE c \in Addr
    <2>1. IsFiniteSet(mintedBy(c)) /\ mintedBy(c) \subseteq Bills
      BY Summands DEF mintedBy
    <2>2. CASE c = a
      <3>1. mintedBy(c)' = mintedBy(c) \ {n} /\ n \in mintedBy(c)
        BY <1>2, <1>3, <1>4, <2>2 DEF mintedBy
      <3>2. SumFunctionOnSet(amounts', mintedBy(c)') = SumFunctionOnSet(amounts, mintedBy(c)) - amount
        BY <1>5, <2>1, <3>1, SumMinus
      <3> QED BY <1>1, <1>3, <2>2, <3>2 DEF BalancesMatchBills, LedgerTypeOK
    <2>3. CASE c # a
      <3>1. mintedBy(c)' = mintedBy(c)
        BY <1>2, <1>3, <1>4, <2>3 DEF mintedBy
      <3>2. SumFunctionOnSet(amounts', mintedBy(c)') = SumFunctionOnSet(amounts, mintedBy(c))
        BY <1>5, <2>1, <3>1, SumKept
      <3> QED BY <1>1, <1>3, <2>3, <3>2 DEF BalancesMatchBills, LedgerTypeOK
    <2> QED BY <2>2, <2>3
  <1>8. \A c \in Addr : boundBalance'[c] = SumFunctionOnSet(amounts', boundBy(c)')
    <2> TAKE c \in Addr
    <2>1. IsFiniteSet(boundBy(c)) /\ boundBy(c) \subseteq Bills
      BY Summands DEF boundBy
    <2>3. boundBy(c)' = boundBy(c)
      BY <1>3, <1>4 DEF boundBy
    <2>2. SumFunctionOnSet(amounts', boundBy(c)') = SumFunctionOnSet(amounts, boundBy(c))
      BY <1>5, <2>1, <2>3, SumKept
    <2> QED BY <1>1, <1>3, <2>2 DEF BalancesMatchBills
  <1>9. BatchMatchesBindings'
    <2>1. \A b \in Bindings : /\ totalPool(b)' = totalPool(b)
                              /\ tokenOf(b)' = tokenOf(b) /\ isOpen(b)' = isOpen(b)
      <3>1. \A b \in Bindings : /\ bindings[b].buyerBillId \in Bills \ {n}
                                /\ bindings[b].agentBillId \in Bills \ {n}
        BY <1>3, MintedIsUncommitted DEF IInv, BindingHoldsItsBills, billsOf
      <3> QED BY <1>3, <1>4, <3>1 DEF totalPool, tokenOf, isOpen, buyerBill, agentBill
    <2> QED BY <1>1, <1>3, <2>1, BatchFrame
  <1> QED BY <1>6, <1>7, <1>8, <1>9 DEF TotalsMatchBills, BalancesMatchBills

\* A binding takes its two bills from the free to the bound ones of their owners
\* and joins the open bindings of their token.
LEMMA CreateBindingTotals ==
    ASSUME IInv, TotalsMatchBills, NEW a \in Addr, NEW bb \in Bills, NEW ab \in Bills, NEW task,
           bindable(a, bb, ab), createBinding(bb, ab, task)
    PROVE  TotalsMatchBills'
  <1>1. /\ BalancesMatchBills /\ BatchMatchesBindings /\ LedgerTypeOK
        /\ bills \in [1..billCounter -> BillToken] /\ bindingCounter \in Nat
        /\ bills[bb] \in BillToken /\ bills[ab] \in BillToken /\ bb # ab
        /\ bills[bb].state = "MINTED" /\ bills[ab].state = "MINTED"
    BY DEF TotalsMatchBills, IInv, TypeOK, RegistryTypeOK, Bills, bindable
  <1>2. PICK buyer \in Addr, agent \in Addr, t \in Token, x \in Nat, y \in Nat, pool \in Nat :
            /\ bills[bb].owner = buyer /\ bills[ab].owner = agent /\ buyer # agent
            /\ bills[bb].token = t /\ bills[bb].amount = x /\ bills[ab].amount = y
            /\ pool = x + y
    BY <1>1 DEF BillToken, bindable
  <1>3. PICK n \in Nat : n = bindingCounter + 1 /\ n \notin Bindings
    BY <1>1 DEF Bindings
  <1>0. /\ bills' = [bills EXCEPT ![bb].state = "BOUND", ![ab].state = "BOUND"]
        /\ Bills' = Bills /\ Bindings' = Bindings \cup {n}
    BY <1>1, <1>3 DEF createBinding, Bills, Bindings
  <1>4. /\ totalLocked' = totalLocked
        /\ freeBalance' = [freeBalance EXCEPT ![buyer] = @ - x, ![agent] = @ - y]
        /\ boundBalance' = [boundBalance EXCEPT ![buyer] = @ + x, ![agent] = @ + y]
        /\ pendingBatchAmount' = [pendingBatchAmount EXCEPT ![t] = @ + pool]
    <2>1. pendingBatchAmount[t] + x + y = pendingBatchAmount[t] + pool
      BY <1>1, <1>2 DEF LedgerTypeOK
    <2> QED BY <1>2, <2>1 DEF createBinding, moveFreeToBound, batchWith, totalVars
  <1>5. PICK state \in {"ACTIVE", "PENDING"} :
            bindings' = Extend(bindings, n, newBinding(bb, ab, task, state))
    BY <1>3 DEF createBinding, newBinding
  <1>6. bindings'[n] = newBinding(bb, ab, task, state) /\ \A b \in Bindings : bindings'[b] = bindings[b]
    BY <1>1, <1>3, <1>5 DEF Extend, Bindings
  <1>7. /\ bills'[bb].state = "BOUND" /\ bills'[ab].state = "BOUND"
        /\ \A i \in Bills : /\ bills'[i].owner = bills[i].owner
                            /\ bills'[i].token = bills[i].token
                            /\ bills'[i].amount = bills[i].amount
                            /\ i \notin {bb, ab} => bills'[i] = bills[i]
    BY <1>0, <1>1 DEF BillToken, Bills
  <1>15. Bills' = Bills /\ Bindings' = Bindings \cup {n}
    BY <1>0
  <1>16. amounts[bb] = x /\ amounts[ab] = y /\ \A i \in Bills : amounts[i] \in Int
    BY <1>2, Summands
  <1>8. /\ \A i \in Bills : amounts'[i] = amounts[i] /\ amounts[i] \in Int
        /\ amounts[bb] = x /\ amounts[ab] = y
    <2>1. \A i \in Bills : amounts'[i] = amounts[i]
      BY <1>7, <1>15 DEF amounts
    <2> QED BY <2>1, <1>16
  <1>9. \A u \in Token : totalLocked'[u] = SumFunctionOnSet(amounts', liveIn(u)')
    <2> TAKE u \in Token
    <2>1. IsFiniteSet(liveIn(u)) /\ liveIn(u) \subseteq Bills
      BY Summands DEF liveIn
    <2>2. liveIn(u)' = liveIn(u)
      BY <1>1, <1>7, <1>15 DEF liveIn, live
    <2>3. SumFunctionOnSet(amounts', liveIn(u)') = SumFunctionOnSet(amounts, liveIn(u))
      BY <1>8, <2>1, <2>2, SumKept
    <2> QED BY <1>1, <1>4, <2>3 DEF BalancesMatchBills
  <1>10. \A c \in Addr : freeBalance'[c] = SumFunctionOnSet(amounts', mintedBy(c)')
    <2> TAKE c \in Addr
    <2>1. IsFiniteSet(mintedBy(c)) /\ mintedBy(c) \subseteq Bills
      BY Summands DEF mintedBy
    <2>2. CASE c = buyer
      <3>1. mintedBy(c)' = mintedBy(c) \ {bb} /\ bb \in mintedBy(c)
        BY <1>1, <1>2, <1>7, <1>15, <2>2 DEF mintedBy
      <3>2. SumFunctionOnSet(amounts', mintedBy(c)') = SumFunctionOnSet(amounts, mintedBy(c)) - x
        BY <1>8, <2>1, <3>1, SumMinus
      <3> QED BY <1>1, <1>2, <1>4, <2>2, <3>2 DEF BalancesMatchBills, LedgerTypeOK
    <2>3. CASE c = agent
      <3>1. mintedBy(c)' = mintedBy(c) \ {ab} /\ ab \in mintedBy(c)
        BY <1>1, <1>2, <1>7, <1>15, <2>3 DEF mintedBy
      <3>2. SumFunctionOnSet(amounts', mintedBy(c)') = SumFunctionOnSet(amounts, mintedBy(c)) - y
        BY <1>8, <2>1, <3>1, SumMinus
      <3> QED BY <1>1, <1>2, <1>4, <2>3, <3>2 DEF BalancesMatchBills, LedgerTypeOK
    <2>4. CASE c \notin {buyer, agent}
      <3>1. mintedBy(c)' = mintedBy(c)
        BY <1>1, <1>2, <1>7, <1>15, <2>4 DEF mintedBy
      <3>2. SumFunctionOnSet(amounts', mintedBy(c)') = SumFunctionOnSet(amounts, mintedBy(c))
        BY <1>8, <2>1, <3>1, SumKept
      <3> QED BY <1>1, <1>4, <2>4, <3>2 DEF BalancesMatchBills, LedgerTypeOK
    <2> QED BY <2>2, <2>3, <2>4
  <1>11. \A c \in Addr : boundBalance'[c] = SumFunctionOnSet(amounts', boundBy(c)')
    <2> TAKE c \in Addr
    <2>1. IsFiniteSet(boundBy(c)) /\ boundBy(c) \subseteq Bills
      BY Summands DEF boundBy
    <2>2. CASE c = buyer
      <3>1. boundBy(c)' = boundBy(c) \cup {bb} /\ bb \notin boundBy(c)
        BY <1>1, <1>2, <1>7, <1>15, <2>2 DEF boundBy
      <3>2. SumFunctionOnSet(amounts', boundBy(c)') = SumFunctionOnSet(amounts, boundBy(c)) + x
        BY <1>8, <2>1, <3>1, SumPlus
      <3> QED BY <1>1, <1>2, <1>4, <2>2, <3>2 DEF BalancesMatchBills, LedgerTypeOK
    <2>3. CASE c = agent
      <3>1. boundBy(c)' = boundBy(c) \cup {ab} /\ ab \notin boundBy(c)
        BY <1>1, <1>2, <1>7, <1>15, <2>3 DEF boundBy
      <3>2. SumFunctionOnSet(amounts', boundBy(c)') = SumFunctionOnSet(amounts, boundBy(c)) + y
        BY <1>8, <2>1, <3>1, SumPlus
      <3> QED BY <1>1, <1>2, <1>4, <2>3, <3>2 DEF BalancesMatchBills, LedgerTypeOK
    <2>4. CASE c \notin {buyer, agent}
      <3>1. boundBy(c)' = boundBy(c)
        BY <1>1, <1>2, <1>7, <1>15, <2>4 DEF boundBy
      <3>2. SumFunctionOnSet(amounts', boundBy(c)') = SumFunctionOnSet(amounts, boundBy(c))
        BY <1>8, <2>1, <3>1, SumKept
      <3> QED BY <1>1, <1>4, <2>4, <3>2 DEF BalancesMatchBills, LedgerTypeOK
    <2> QED BY <2>2, <2>3, <2>4
  <1>12. /\ \A b \in Bindings : /\ totalPool(b)' = totalPool(b)
                                /\ tokenOf(b)' = tokenOf(b) /\ isOpen(b)' = isOpen(b)
         /\ tokenOf(n)' = t /\ isOpen(n)' /\ totalPool(n)' = pool
    <2>1. \A b \in Bindings : /\ bindings[b].buyerBillId \in Bills
                              /\ bindings[b].agentBillId \in Bills
      BY DEF IInv, BindingHoldsItsBills
    <2> QED BY <1>2, <1>6, <1>7, <2>1 DEF totalPool, tokenOf, isOpen, buyerBill, agentBill,
                                          newBinding, OpenState
  <1>13. /\ \A b \in Bindings : pools'[b] = pools[b] /\ pools[b] \in Int
         /\ pools'[n] = pool
    BY <1>12, <1>15, Summands DEF pools
  <1>14. \A u \in Token : pendingBatchAmount'[u] = SumFunctionOnSet(pools', openIn(u)')
    <2> TAKE u \in Token
    <2>1. IsFiniteSet(openIn(u)) /\ openIn(u) \subseteq Bindings /\ n \notin openIn(u)
      BY <1>3, Summands DEF openIn
    <2>2. CASE u = t
      <3>1. openIn(u)' = openIn(u) \cup {n}
        BY <1>3, <1>12, <1>15, <2>2 DEF openIn
      <3>2. SumFunctionOnSet(pools', openIn(u)') = SumFunctionOnSet(pools, openIn(u)) + pool
        BY <1>2, <1>13, <2>1, <3>1, SumPlus
      <3> QED BY <1>1, <1>4, <2>2, <3>2 DEF BatchMatchesBindings, LedgerTypeOK
    <2>3. CASE u # t
      <3>1. openIn(u)' = openIn(u)
        BY <1>3, <1>12, <1>15, <2>3 DEF openIn
      <3>2. SumFunctionOnSet(pools', openIn(u)') = SumFunctionOnSet(pools, openIn(u))
        BY <1>13, <2>1, <3>1, SumKept
      <3> QED BY <1>1, <1>4, <2>3, <3>2 DEF BatchMatchesBindings, LedgerTypeOK
    <2> QED BY <2>2, <2>3
  <1> QED BY <1>9, <1>10, <1>11, <1>14
      DEF TotalsMatchBills, BalancesMatchBills, BatchMatchesBindings

\* A payout takes its two bills off the live ones of their token and the bound ones
\* of their owners, and its binding off the open ones.
LEMMA ReleaseTotals ==
    ASSUME IInv, TotalsMatchBills, NEW b \in Bindings, isOpen(b), NEW state \in TerminalState,
           NEW toBuyer, NEW toAgent, NEW approved, NEW pulled,
           release(b, state, toBuyer, toAgent, approved, pulled)
    PROVE  TotalsMatchBills'
  <1>1. /\ BalancesMatchBills /\ BatchMatchesBindings /\ LedgerTypeOK
        /\ bills \in [1..billCounter -> BillToken]
        /\ bindings \in [1..bindingCounter -> Binding]
    BY DEF TotalsMatchBills, IInv, TypeOK, RegistryTypeOK
  <1>2. PICK buyer \in Addr, agent \in Addr, t \in Token, x \in Nat, y \in Nat, pool \in Nat :
            /\ buyer = buyerOf(b) /\ agent = agentOf(b) /\ buyer # agent
            /\ t = tokenOf(b) /\ x = buyerBill(b).amount /\ y = agentBill(b).amount
            /\ totalPool(b) = pool /\ pool = x + y
    BY BindingParts
  <1>3. PICK bb \in Bills, ab \in Bills :
            /\ bindings[b].buyerBillId = bb /\ bindings[b].agentBillId = ab /\ bb # ab
            /\ bills[bb].state = "BOUND" /\ bills[ab].state = "BOUND"
            /\ bills[bb].owner = buyer /\ bills[ab].owner = agent
            /\ bills[bb].amount = x /\ bills[ab].amount = y
            /\ bills[bb].token = t /\ bills[ab].token = t
    BY <1>2 DEF IInv, BindingHoldsItsBills, buyerOf, agentOf, tokenOf, buyerBill, agentBill
  <1>4. /\ bills' = [bills EXCEPT ![bb].state = "BURNED", ![ab].state = "BURNED"]
        /\ bindings' = [bindings EXCEPT ![b].state = state, ![b].resolved = @ \/ arbitrated(b)]
    BY <1>3 DEF release, burnBills
  <1>5. /\ freeBalance' = freeBalance
        /\ boundBalance' = [boundBalance EXCEPT ![buyer] = @ - x, ![agent] = @ - y]
        /\ totalLocked' = [totalLocked EXCEPT ![t] = @ - pool]
        /\ pendingBatchAmount' = [pendingBatchAmount EXCEPT ![t] = @ - pool]
    BY <1>2 DEF release, lessStakes
  <1>6. Bills' = Bills /\ Bindings' = Bindings
    BY DEF release, Bills, Bindings
  <1>7. /\ bills'[bb].state = "BURNED" /\ bills'[ab].state = "BURNED"
        /\ \A i \in Bills : /\ bills'[i].owner = bills[i].owner
                            /\ bills'[i].token = bills[i].token
                            /\ bills'[i].amount = bills[i].amount
                            /\ i \notin {bb, ab} => bills'[i] = bills[i]
    BY <1>1, <1>3, <1>4 DEF BillToken, Bills
  <1>8. amounts[bb] = x /\ amounts[ab] = y /\ \A i \in Bills : amounts[i] \in Int
    BY <1>3, Summands
  <1>9. \A i \in Bills : amounts'[i] = amounts[i]
    BY <1>6, <1>7 DEF amounts
  <1>10. \A u \in Token : totalLocked'[u] = SumFunctionOnSet(amounts', liveIn(u)')
    <2> TAKE u \in Token
    <2>1. IsFiniteSet(liveIn(u)) /\ liveIn(u) \subseteq Bills
      BY Summands DEF liveIn
    <2>2. CASE u = t
      <3>1. /\ liveIn(u)' = (liveIn(u) \ {bb}) \ {ab}
            /\ bb \in liveIn(u) /\ ab \in liveIn(u) \ {bb}
        BY <1>3, <1>6, <1>7, <2>2 DEF liveIn, live
      <3>2. PICK S : S = liveIn(u) \ {bb}
        OBVIOUS
      <3>3. SumFunctionOnSet(amounts, S) = SumFunctionOnSet(amounts, liveIn(u)) - x
        BY <1>8, <2>1, <3>1, <3>2, SumMinus
      <3>4. IsFiniteSet(S) /\ S \subseteq Bills /\ ab \in S
        BY <2>1, <3>1, <3>2, FS_Subset
      <3>5. liveIn(u)' = S \ {ab}
        BY Zenon, <3>1, <3>2
      <3>6. SumFunctionOnSet(amounts', liveIn(u)') = SumFunctionOnSet(amounts, S) - y
        BY <1>8, <1>9, <3>4, <3>5, SumMinus
      <3>7. totalLocked[u] = SumFunctionOnSet(amounts, liveIn(u)) /\ totalLocked[u] \in Nat
        BY <1>1 DEF BalancesMatchBills, LedgerTypeOK
      <3>8. totalLocked'[u] = totalLocked[u] - pool
        BY <1>1, <1>5, <2>2 DEF LedgerTypeOK
      <3> QED BY <1>2, <3>3, <3>6, <3>7, <3>8
    <2>3. CASE u # t
      <3>1. liveIn(u)' = liveIn(u)
        BY <1>3, <1>6, <1>7, <2>3 DEF liveIn, live
      <3>2. SumFunctionOnSet(amounts', liveIn(u)') = SumFunctionOnSet(amounts, liveIn(u))
        BY <1>9, <2>1, <3>1, SumKept
      <3> QED BY <1>1, <1>5, <2>3, <3>2 DEF BalancesMatchBills, LedgerTypeOK
    <2> QED BY <2>2, <2>3
  <1>11. \A c \in Addr : freeBalance'[c] = SumFunctionOnSet(amounts', mintedBy(c)')
    <2> TAKE c \in Addr
    <2>1. IsFiniteSet(mintedBy(c)) /\ mintedBy(c) \subseteq Bills
      BY Summands DEF mintedBy
    <2>2. mintedBy(c)' = mintedBy(c)
      BY <1>3, <1>6, <1>7 DEF mintedBy
    <2>3. SumFunctionOnSet(amounts', mintedBy(c)') = SumFunctionOnSet(amounts, mintedBy(c))
      BY <1>9, <2>1, <2>2, SumKept
    <2> QED BY <1>1, <1>5, <2>3 DEF BalancesMatchBills
  <1>12. \A c \in Addr : boundBalance'[c] = SumFunctionOnSet(amounts', boundBy(c)')
    <2> TAKE c \in Addr
    <2>1. IsFiniteSet(boundBy(c)) /\ boundBy(c) \subseteq Bills
      BY Summands DEF boundBy
    <2>2. CASE c = buyer
      <3>1. boundBy(c)' = boundBy(c) \ {bb} /\ bb \in boundBy(c)
        BY <1>2, <1>3, <1>6, <1>7, <2>2 DEF boundBy
      <3>2. SumFunctionOnSet(amounts', boundBy(c)') = SumFunctionOnSet(amounts, boundBy(c)) - x
        BY <1>8, <1>9, <2>1, <3>1, SumMinus
      <3> QED BY <1>1, <1>2, <1>5, <2>2, <3>2 DEF BalancesMatchBills, LedgerTypeOK
    <2>3. CASE c = agent
      <3>1. boundBy(c)' = boundBy(c) \ {ab} /\ ab \in boundBy(c)
        BY <1>2, <1>3, <1>6, <1>7, <2>3 DEF boundBy
      <3>2. SumFunctionOnSet(amounts', boundBy(c)') = SumFunctionOnSet(amounts, boundBy(c)) - y
        BY <1>8, <1>9, <2>1, <3>1, SumMinus
      <3> QED BY <1>1, <1>2, <1>5, <2>3, <3>2 DEF BalancesMatchBills, LedgerTypeOK
    <2>4. CASE c \notin {buyer, agent}
      <3>1. boundBy(c)' = boundBy(c)
        BY <1>3, <1>6, <1>7, <2>4 DEF boundBy
      <3>2. SumFunctionOnSet(amounts', boundBy(c)') = SumFunctionOnSet(amounts, boundBy(c))
        BY <1>9, <2>1, <3>1, SumKept
      <3> QED BY <1>1, <1>5, <2>4, <3>2 DEF BalancesMatchBills, LedgerTypeOK
    <2> QED BY <2>2, <2>3, <2>4
  <1>13. /\ ~isOpen(b)'
         /\ \A c \in Bindings : /\ totalPool(c)' = totalPool(c) /\ tokenOf(c)' = tokenOf(c)
                                /\ c # b => isOpen(c)' = isOpen(c)
    <2>1. \A c \in Bindings : bindings[c].buyerBillId \in Bills /\ bindings[c].agentBillId \in Bills
      BY DEF IInv, BindingHoldsItsBills
    <2>2. PICK res : bindings' = [bindings EXCEPT ![b].state = state, ![b].resolved = res]
      BY <1>4
    <2>3. \A c \in Bindings : /\ bindings'[c].buyerBillId = bindings[c].buyerBillId
                              /\ bindings'[c].agentBillId = bindings[c].agentBillId
                              /\ c # b => bindings'[c] = bindings[c]
                              /\ c = b => bindings'[c].state = state
      BY <1>1, <2>2 DEF Bindings, Binding
    <2> QED BY <1>7, <2>1, <2>3 DEF totalPool, tokenOf, isOpen, buyerBill, agentBill,
                                    OpenState, TerminalState
  <1>14. \A c \in Bindings : pools'[c] = pools[c] /\ pools[c] \in Int
    BY <1>6, <1>13, Summands DEF pools
  <1>15. \A u \in Token : pendingBatchAmount'[u] = SumFunctionOnSet(pools', openIn(u)')
    <2> TAKE u \in Token
    <2>1. IsFiniteSet(openIn(u)) /\ openIn(u) \subseteq Bindings
      BY Summands DEF openIn
    <2>2. CASE u = t
      <3>1. openIn(u)' = openIn(u) \ {b} /\ b \in openIn(u)
        BY <1>2, <1>6, <1>13, <2>2 DEF openIn
      <3>2. pools[b] = pool
        BY <1>2, Summands
      <3>3. SumFunctionOnSet(pools', openIn(u)') = SumFunctionOnSet(pools, openIn(u)) - pool
        BY <1>14, <2>1, <3>1, <3>2, SumMinus
      <3> QED BY <1>1, <1>5, <2>2, <3>3 DEF BatchMatchesBindings, LedgerTypeOK
    <2>3. CASE u # t
      <3>1. openIn(u)' = openIn(u)
        BY <1>2, <1>6, <1>13, <2>3 DEF openIn
      <3>2. SumFunctionOnSet(pools', openIn(u)') = SumFunctionOnSet(pools, openIn(u))
        BY <1>14, <2>1, <3>1, SumKept
      <3> QED BY <1>1, <1>5, <2>3, <3>2 DEF BatchMatchesBindings, LedgerTypeOK
    <2> QED BY <2>2, <2>3
  <1> QED BY <1>10, <1>11, <1>12, <1>15
      DEF TotalsMatchBills, BalancesMatchBills, BatchMatchesBindings

\* A step that moves no bill and no total, and keeps the bills and the openness of
\* every binding, preserves the totals.
LEMMA FrameTotals ==
    ASSUME IInv, TotalsMatchBills, UNCHANGED <<billCounter, bills, bindingCounter>>,
           UNCHANGED <<totalLocked, freeBalance, boundBalance, pendingBatchAmount>>,
           \A b \in Bindings : /\ bindings'[b].buyerBillId = bindings[b].buyerBillId
                               /\ bindings'[b].agentBillId = bindings[b].agentBillId
                               /\ isOpen(b)' = isOpen(b)
    PROVE  TotalsMatchBills'
  <1>1. BalancesMatchBills'
    BY BalancesFrame DEF TotalsMatchBills
  <1>2. Bindings' = Bindings
    BY DEF Bindings
  <1>3. \A b \in Bindings : /\ totalPool(b)' = totalPool(b)
                            /\ tokenOf(b)' = tokenOf(b) /\ isOpen(b)' = isOpen(b)
    BY DEF totalPool, tokenOf, buyerBill, agentBill
  <1> QED BY <1>1, <1>2, <1>3, BatchFrame DEF TotalsMatchBills

\* settle, dispute and submitArbitrationEvidence.
LEMMA UpdateTotals ==
    ASSUME IInv, TotalsMatchBills, NEW a \in Addr, NEW b \in Bindings,
           settle(a, b) \/ dispute(a, b) \/ submitArbitrationEvidence(a, b)
    PROVE  TotalsMatchBills'
  <1>1. bindings \in [1..bindingCounter -> Binding] /\ bindings[b] \in Binding
    BY BindingParts DEF IInv, TypeOK, RegistryTypeOK
  <1>3. isOpen(b)
    BY DEF settle, settleable, dispute, submitArbitrationEvidence, isOpen, OpenState
  <1>2. PICK rec : /\ updateBinding(b, rec) /\ rec.state \in OpenState
                   /\ rec.buyerBillId = bindings[b].buyerBillId
                   /\ rec.agentBillId = bindings[b].agentBillId
    <2>1. PICK rec :
            /\ updateBinding(b, rec)
            /\ \/ rec = [bindings[b] EXCEPT !.state = "FINALIZING", !.settleSubmittedAt = now]
               \/ rec = [bindings[b] EXCEPT !.state = "DISPUTED", !.startedAt = now,
                            !.buyerSubmittedAt = now, !.agentSubmittedAt = 0, !.resolved = FALSE]
               \/ rec = [bindings[b] EXCEPT !.buyerSubmittedAt = now]
               \/ rec = [bindings[b] EXCEPT !.agentSubmittedAt = now]
      BY DEF settle, dispute, submitArbitrationEvidence
    <2>2. /\ rec.state \in OpenState
          /\ rec.buyerBillId = bindings[b].buyerBillId
          /\ rec.agentBillId = bindings[b].agentBillId
      BY <1>1, <1>3, <2>1 DEF Binding, isOpen, OpenState
    <2> QED BY <2>1, <2>2
  <1>4. bindings' = [bindings EXCEPT ![b] = rec]
    BY <1>2 DEF updateBinding
  <1>5. \A c \in Bindings : /\ bindings'[c].buyerBillId = bindings[c].buyerBillId
                            /\ bindings'[c].agentBillId = bindings[c].agentBillId
                            /\ isOpen(c)' = isOpen(c)
    BY <1>1, <1>2, <1>3, <1>4 DEF isOpen, Bindings
  <1>6. /\ UNCHANGED <<billCounter, bills, bindingCounter>>
        /\ UNCHANGED <<totalLocked, freeBalance, boundBalance, pendingBatchAmount>>
    BY <1>2 DEF updateBinding, totalVars, accountVars
  <1> QED BY <1>5, <1>6, FrameTotals

\* Every payout is one release.
LEMMA PayoutReleases ==
    ASSUME IInv, NEW b \in Bindings, NEW quote \in FeeQuotes, NEW pulls \in BOOLEAN,
           \/ settleAttested(b, quote, pulls)
           \/ finalizeSettle(b, quote, pulls)
           \/ autoResolveArbitration(b, quote, pulls)
           \/ \E share \in ShareBps : resolveDispute(b, share)
           \/ \E a \in Addr : refundOnTimeout(a, b)
    PROVE  /\ isOpen(b)
           /\ \E state \in TerminalState : \E toBuyer, toAgent, approved, pulled :
                 release(b, state, toBuyer, toAgent, approved, pulled)
  <1>1. isOpen(b)
    BY DEF settleAttested, finalizeSettle, settleable, autoResolveArbitration, autoResolvable,
           resolveDispute, refundOnTimeout, isOpen, OpenState
  <1>2. \/ executeSettle(b, quote, pulls)
        \/ \E share : executeSplit(b, share)
        \/ executeRefund(b)
    BY DEF settleAttested, finalizeSettle, autoResolveArbitration, resolveDispute, refundOnTimeout
  <1> QED BY <1>1, <1>2 DEF executeSettle, executeSplit, executeRefund, TerminalState

LEMMA PayoutTotals ==
    ASSUME IInv, TotalsMatchBills, NEW b \in Bindings, NEW quote \in FeeQuotes,
           NEW pulls \in BOOLEAN,
           \/ settleAttested(b, quote, pulls)
           \/ finalizeSettle(b, quote, pulls)
           \/ autoResolveArbitration(b, quote, pulls)
           \/ \E share \in ShareBps : resolveDispute(b, share)
           \/ \E a \in Addr : refundOnTimeout(a, b)
    PROVE  TotalsMatchBills'
  BY PayoutReleases, ReleaseTotals

LEMMA BindTotals ==
    ASSUME IInv, TotalsMatchBills, NEW a \in Addr, NEW bb \in Bills, NEW ab \in Bills,
           \/ bind(a, bb, ab)
           \/ \E task \in TaskId : bindWithAttestation(a, bb, ab, task)
           \/ \E rate \in PenaltyRates, expiresAt \in IntentExpiries, verifier \in BOOLEAN :
                 bindWithIntent(a, bb, ab, rate, expiresAt, verifier)
    PROVE  TotalsMatchBills'
  <1>1. PICK task : bindable(a, bb, ab) /\ createBinding(bb, ab, task)
    BY DEF bind, bindWithAttestation, bindWithIntent
  <1> QED BY <1>1, CreateBindingTotals

LEMMA InitTotals == Init => TotalsMatchBills
  <1> SUFFICES ASSUME Init PROVE TotalsMatchBills
    OBVIOUS
  <1>1. Bills = {} /\ Bindings = {}
    BY DEF Init, Bills, Bindings
  <1>2. /\ \A t : liveIn(t) = {} /\ openIn(t) = {}
        /\ \A a : mintedBy(a) = {} /\ boundBy(a) = {}
    BY <1>1 DEF liveIn, openIn, mintedBy, boundBy
  <1>3. \A f : SumFunctionOnSet(f, {}) = 0
    BY SumEmpty
  <1>4. /\ \A t \in Token : totalLocked[t] = 0 /\ pendingBatchAmount[t] = 0
        /\ \A a \in Addr : freeBalance[a] = 0 /\ boundBalance[a] = 0
    BY DEF Init
  <1> QED BY Zenon, <1>2, <1>3, <1>4 DEF TotalsMatchBills, BalancesMatchBills, BatchMatchesBindings

LEMMA NextTotals == IInv /\ TotalsMatchBills /\ [Next]_vars => TotalsMatchBills'
  <1> SUFFICES ASSUME IInv, TotalsMatchBills, [Next]_vars PROVE TotalsMatchBills'
    OBVIOUS
  <1> DEFINE frame == /\ UNCHANGED <<billCounter, bills, bindingCounter, bindings>>
                      /\ UNCHANGED <<totalLocked, freeBalance, boundBalance, pendingBatchAmount>>
  <1>1. ASSUME frame PROVE TotalsMatchBills'
    BY <1>1, FrameTotals DEF isOpen
  <1>2. CASE PartyNext
    BY <1>2, LockTotals, UnlockTotals, BindTotals, UpdateTotals DEF PartyNext
  <1>4. CASE BuyerRefund
    <2>1. PICK a \in Addr, b \in Bindings : refundOnTimeout(a, b)
      BY <1>4 DEF BuyerRefund
    <2>2. isOpen(b) /\ "REFUNDED" \in TerminalState
      BY <2>1 DEF refundOnTimeout, settleable, isOpen, OpenState, TerminalState
    <2> QED BY <2>1, <2>2, ReleaseTotals DEF refundOnTimeout, executeRefund
  <1>5. CASE KeeperNext \/ GatewayNext
    BY <1>5, PayoutTotals DEF KeeperNext, GatewayNext
  <1>6. CASE AdminNext
    <2>1. ASSUME NEW b \in Bindings, NEW share \in ShareBps, resolveDispute(b, share)
          PROVE  TotalsMatchBills'
      <3>1. isOpen(b) /\ "SETTLED" \in TerminalState
        BY <2>1 DEF resolveDispute, isOpen, OpenState, TerminalState
      <3> QED BY <2>1, <3>1, ReleaseTotals DEF resolveDispute, executeSplit
    <2>2. \/ \E b \in Bindings, share \in ShareBps : resolveDispute(b, share)
          \/ UNCHANGED ledgerVars
      BY <1>6 DEF AdminNext, setTiming, setTokenAllowed, setBatchThreshold, setAttestationGateway,
                  setFeeBridge, setEmergencyGuard
    <2>3. UNCHANGED ledgerVars => frame
      BY DEF ledgerVars, totalVars, accountVars
    <2> HIDE DEF frame
    <2> QED BY <1>1, <2>1, <2>2, <2>3
  <1>7. CASE \E t \in Token : bridgeCollect(t)
    BY <1>1, <1>7 DEF bridgeCollect, totalVars, accountVars
  <1>8. CASE Tick \/ UNCHANGED coreVars \/ UNCHANGED vars
    BY <1>1, <1>8 DEF Tick, vars, coreVars, totalVars, accountVars
  <1> QED BY <1>2, <1>4, <1>5, <1>6, <1>7, <1>8 DEF Next, CoreNext

\* Every total the contract keeps is the sum it stands for, for any number of
\* accounts, tokens, bills and bindings: totalLocked of the live bills, freeBalance
\* and boundBalance of an account's MINTED and BOUND bills, pendingBatchAmount of
\* the pools of the open bindings.
THEOREM TotalsAlwaysMatch == Spec => []TotalsMatchBills
  <1>1. IInv /\ TotalsMatchBills /\ [Next]_vars => TotalsMatchBills'
    BY NextTotals
  <1> QED BY <1>1, InitTotals, InductiveInvariant, PTL DEF Spec

\* The balances that a payout of b and an unlock of bill i are checked against.
payoutCovered(b) ==
    /\ coversStakes(boundBalance, b)
    /\ coversStakes(totalMintedByAddr, b)
    /\ coversStakes(totalLockedByAddr, b)
    /\ totalBillSupply[tokenOf(b)] >= totalPool(b)
    /\ totalLocked[tokenOf(b)] >= totalPool(b)
    /\ pendingBatchAmount[tokenOf(b)] >= totalPool(b)
    /\ escrow[tokenOf(b)] >= totalPool(b) + allowance[tokenOf(b)]

unlockCovered(i) ==
    LET a == bills[i].owner  t == bills[i].token  amount == bills[i].amount IN
    /\ freeBalance[a] >= amount /\ totalMintedByAddr[a] >= amount /\ totalLockedByAddr[a] >= amount
    /\ totalBillSupply[t] >= amount /\ totalLocked[t] >= amount /\ escrow[t] >= amount

NothingUnderflows ==
    /\ \A b \in Bindings : isOpen(b) => payoutCovered(b)
    /\ \A i \in Bills : bills[i].state = "MINTED" => unlockCovered(i)

\* One part of a sum of naturals is at most the sum.
LEMMA PartOfSum ==
    ASSUME NEW S, IsFiniteSet(S), NEW f, \A x \in S : f[x] \in Nat, NEW x \in S
    PROVE  f[x] <= SumFunctionOnSet(f, S)
  <1>1. SumFunctionOnSet(f, S) = f[x] + SumFunctionOnSet(f, S \ {x})
    BY SumRemove
  <1>2. IsFiniteSet(S \ {x})
    BY FS_RemoveElement
  <1>3. SumFunctionOnSet(f, S \ {x}) \in Nat
    BY <1>2, SumOfNaturals
  <1> QED BY <1>1, <1>3

LEMMA TotalsCover == IInv /\ TotalsMatchBills => NothingUnderflows
  <1> SUFFICES ASSUME IInv, TotalsMatchBills PROVE NothingUnderflows
    OBVIOUS
  <1>1. /\ BalancesMatchBills /\ BatchMatchesBindings /\ CountersAgree /\ Solvent
        /\ LedgerTypeOK /\ MoneyTypeOK /\ bills \in [1..billCounter -> BillToken]
    BY DEF TotalsMatchBills, IInv, TypeOK, RegistryTypeOK
  <1>2. \A i \in Bills : amounts[i] = bills[i].amount /\ amounts[i] \in Nat
    BY Summands
  <1>3. ASSUME NEW i \in Bills, bills[i].state = "MINTED" PROVE unlockCovered(i)
    <2>1. PICK a \in Addr, t \in Token, x \in Nat :
             a = bills[i].owner /\ t = bills[i].token /\ x = bills[i].amount
      BY <1>1 DEF Bills, BillToken
    <2>2. i \in mintedBy(a) /\ mintedBy(a) \subseteq Bills
      BY <1>3, <2>1 DEF mintedBy
    <2>3. i \in liveIn(t) /\ liveIn(t) \subseteq Bills
      BY <1>3, <2>1 DEF liveIn, live
    <2>4. x <= freeBalance[a]
      <3>1. amounts[i] <= SumFunctionOnSet(amounts, mintedBy(a))
        BY <1>2, <2>2, Summands, PartOfSum
      <3> QED BY <1>1, <1>2, <2>1, <3>1 DEF BalancesMatchBills
    <2>5. x <= totalLocked[t]
      <3>1. amounts[i] <= SumFunctionOnSet(amounts, liveIn(t))
        BY <1>2, <2>3, Summands, PartOfSum
      <3> QED BY <1>1, <1>2, <2>1, <3>1 DEF BalancesMatchBills
    <2>6. freeBalance[a] >= x /\ totalMintedByAddr[a] >= x /\ totalLockedByAddr[a] >= x
      BY <1>1, <2>4 DEF CountersAgree, LedgerTypeOK
    <2>7. totalBillSupply[t] >= x /\ totalLocked[t] >= x /\ escrow[t] >= x
      <3>1. PICK held \in Nat, owed \in Nat, granted \in Nat :
                held = escrow[t] /\ owed = totalLocked[t] /\ granted = allowance[t]
        BY <1>1 DEF LedgerTypeOK, MoneyTypeOK
      <3>2. held >= owed + granted /\ totalBillSupply[t] = owed
        BY <1>1, <3>1 DEF Solvent, CountersAgree
      <3>3. owed >= x
        BY <2>5, <3>1
      <3> QED BY <3>1, <3>2, <3>3
    <2> QED BY <2>1, <2>6, <2>7 DEF unlockCovered
  <1>4. ASSUME NEW b \in Bindings, isOpen(b) PROVE payoutCovered(b)
    <2>1. PICK buyer \in Addr, agent \in Addr, t \in Token, x \in Nat, y \in Nat, pool \in Nat :
              /\ buyer = buyerOf(b) /\ agent = agentOf(b)
              /\ t = tokenOf(b) /\ x = buyerBill(b).amount /\ y = agentBill(b).amount
              /\ totalPool(b) = pool /\ pool = x + y
      BY BindingParts
    <2>2. PICK bb \in Bills, ab \in Bills :
              /\ bb # ab /\ bills[bb].state = "BOUND" /\ bills[ab].state = "BOUND"
              /\ bills[bb].owner = buyer /\ bills[ab].owner = agent
              /\ bills[bb].amount = x /\ bills[ab].amount = y
              /\ bills[bb].token = t /\ bills[ab].token = t
      BY <1>4, <2>1 DEF IInv, BindingHoldsItsBills, buyerOf, agentOf, tokenOf, buyerBill, agentBill
    <2>3. x <= boundBalance[buyer]
      <3>1. bb \in boundBy(buyer) /\ boundBy(buyer) \subseteq Bills
        BY <2>2 DEF boundBy
      <3>2. amounts[bb] <= SumFunctionOnSet(amounts, boundBy(buyer))
        BY <1>2, <3>1, Summands, PartOfSum
      <3> QED BY <1>1, <1>2, <2>2, <3>2 DEF BalancesMatchBills
    <2>4. y <= boundBalance[agent]
      <3>1. ab \in boundBy(agent) /\ boundBy(agent) \subseteq Bills
        BY <2>2 DEF boundBy
      <3>2. amounts[ab] <= SumFunctionOnSet(amounts, boundBy(agent))
        BY <1>2, <3>1, Summands, PartOfSum
      <3> QED BY <1>1, <1>2, <2>2, <3>2 DEF BalancesMatchBills
    <2>5. pool <= pendingBatchAmount[t]
      <3>1. b \in openIn(t) /\ openIn(t) \subseteq Bindings
        BY <1>4, <2>1 DEF openIn
      <3>2. \A c \in Bindings : pools[c] = totalPool(c) /\ pools[c] \in Nat
        BY Summands
      <3>3. pools[b] <= SumFunctionOnSet(pools, openIn(t))
        BY <3>1, <3>2, Summands, PartOfSum
      <3> QED BY <1>1, <2>1, <3>2, <3>3 DEF BatchMatchesBindings
    <2>6. pool <= totalLocked[t]
      <3>1. {bb, ab} \subseteq liveIn(t) /\ liveIn(t) \subseteq Bills
        BY <2>2 DEF liveIn, live
      <3>2. PICK S : S = liveIn(t) \ {bb}
        OBVIOUS
      <3>3. IsFiniteSet(liveIn(t)) /\ IsFiniteSet(S) /\ S \subseteq Bills /\ ab \in S
        BY <2>2, <3>1, <3>2, Summands, FS_RemoveElement
      <3>4. \A i \in Bills : amounts[i] \in Int
        BY <1>2
      <3>5. SumFunctionOnSet(amounts, S) = SumFunctionOnSet(amounts, liveIn(t)) - amounts[bb]
        BY <3>1, <3>2, <3>3, <3>4, SumMinus
      <3>6. amounts[ab] <= SumFunctionOnSet(amounts, S)
        BY <1>2, <3>3, PartOfSum
      <3>7. totalLocked[t] = SumFunctionOnSet(amounts, liveIn(t)) /\ totalLocked[t] \in Nat
        BY <1>1 DEF BalancesMatchBills, LedgerTypeOK
      <3>8. amounts[bb] = x /\ amounts[ab] = y
        BY <1>2, <2>2
      <3> QED BY <2>1, <3>5, <3>6, <3>7, <3>8
    <2>7. coversStakes(boundBalance, b)
      BY <2>1, <2>3, <2>4, <1>1 DEF coversStakes, LedgerTypeOK
    <2>8. coversStakes(totalMintedByAddr, b) /\ coversStakes(totalLockedByAddr, b)
      <3>1. /\ totalMintedByAddr[buyer] >= x /\ totalLockedByAddr[buyer] >= x
            /\ totalMintedByAddr[agent] >= y /\ totalLockedByAddr[agent] >= y
        BY <2>3, <2>4, <1>1 DEF LedgerTypeOK, CountersAgree
      <3> QED BY <2>1, <3>1 DEF coversStakes
    <2>9. escrow[t] >= pool + allowance[t] /\ totalBillSupply[t] >= pool
      <3>1. PICK held \in Nat, owed \in Nat, granted \in Nat :
                held = escrow[t] /\ owed = totalLocked[t] /\ granted = allowance[t]
        BY <1>1 DEF LedgerTypeOK, MoneyTypeOK
      <3>2. held >= owed + granted /\ totalBillSupply[t] = owed
        BY <1>1, <3>1 DEF Solvent, CountersAgree
      <3>3. owed >= pool
        BY <2>6, <3>1
      <3>4. held >= pool + granted
        BY <3>2, <3>3
      <3> QED BY <3>1, <3>2, <3>3, <3>4
    <2> QED BY <1>1, <2>1, <2>5, <2>6, <2>7, <2>8, <2>9 DEF payoutCovered, LedgerTypeOK
  <1> QED BY <1>3, <1>4 DEF NothingUnderflows

\* No checked subtraction of a payout or an unlock ever underflows and no transfer
\* of one is ever short of tokens: an open binding can always be paid out in full
\* and a free bill always be unlocked, as far as the contract's books go, whatever
\* happened before.  Only the deadlines, the freeze and the state guards decide.
THEOREM BooksNeverBlockExit == Spec => []NothingUnderflows
  BY TotalsCover, TotalsAlwaysMatch, InductiveInvariant, PTL

=============================================================================
