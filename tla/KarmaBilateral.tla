--------------------------- MODULE KarmaBilateral ---------------------------
(***************************************************************************)
(* KarmaBilateral.sol: the non-custodial bilateral escrow.  A party locks  *)
(* tokens and receives a bill; the buyer binds its bill to an agent's bill;*)
(* the binding is settled optimistically (settle, dispute window,          *)
(* finalizeSettle), through the attestation gateway, by arbitration, or is *)
(* refunded after a timeout.  Every payout burns both bills.               *)
(*                                                                         *)
(* One action is one successful transaction: a require that fails, a       *)
(* checked subtraction that would underflow and a failing post-check all   *)
(* revert, so each is a conjunct of the action.  The reentrancy guard      *)
(* makes a transaction atomic.  The ERC-20 tokens and the fee bridge are   *)
(* external: the token is a ledger of balances, the bridge any contract    *)
(* that quotes a fee and pulls at most what it was approved for.           *)
(*                                                                         *)
(* authorize, accept and cancelAuthorization are in KarmaBilateralSCP.     *)
(* The properties of the escrow are at the end.                            *)
(***************************************************************************)
EXTENDS EmergencyFreeze, Functions

CONSTANTS
    Token,              \* ERC-20 tokens
    LockAmounts,        \* amounts a party may try to lock
    InitialFunds,       \* tokens each account owns at the start
    TaskId,             \* attestation task identifiers
    IntentTask,         \* the task identifier made from an intent's hash
    NoTask,             \* bytes32(0): the binding needs no attestation
    PenaltyRates,       \* intent.penaltyRate, in basis points
    IntentExpiries,     \* intent.expiresAt
    ShareBps,           \* buyer shares the administrator may decide
    FeeQuotes,          \* what the fee bridge may quote
    DefaultTiming,      \* the windows at deployment
    TimingChoices,      \* values the administrator may give each window
    BatchThresholds,    \* values for setBatchThreshold
    TokenFlags,         \* values for setTokenAllowed
    BridgeFlags,        \* TRUE: setFeeBridge(bridge), FALSE: setFeeBridge(0)
    GuardFlags,         \* TRUE: setEmergencyGuard(freeze), FALSE: (0)
    DAY,                \* 24 hours, the floor of largeDisputeTimeoutSeconds
    Horizon             \* bound: parties and administrators act up to here

TimingFields == {"disputeWindowSeconds", "disputeWindow", "evidenceWindow",
                 "autoArbitrationThreshold", "settleTimeoutSeconds",
                 "largeDisputeTimeoutSeconds"}

ASSUME FundsAssumption  == InitialFunds \in Nat /\ LockAmounts \subseteq Nat
ASSUME TaskAssumption   == NoTask \notin TaskId \cup {IntentTask}
ASSUME IntentAssumption == PenaltyRates \subseteq Nat /\ IntentExpiries \subseteq Nat
ASSUME ShareAssumption  == ShareBps \subseteq Nat /\ FeeQuotes \subseteq Nat
ASSUME TimingAssumption == /\ DefaultTiming \in [TimingFields -> Nat]
                           /\ TimingChoices \in [TimingFields -> SUBSET Nat]
                           /\ DAY \in Nat
ASSUME AdminAssumption  == /\ BatchThresholds \subseteq Nat
                           /\ TokenFlags \subseteq BOOLEAN
                           /\ BridgeFlags \subseteq BOOLEAN
                           /\ GuardFlags \subseteq BOOLEAN
                           /\ Horizon \in Nat

VARIABLES
    billCounter, bills,            \* _billCounter, bills
    bindingCounter, bindings,      \* _bindingCounter, bindings + arbitrations
    totalBillSupply, totalLocked, pendingBatchAmount, batchThreshold,
    freeBalance, boundBalance, totalMintedByAddr, totalLockedByAddr,
    tokenAllowed, timing, attestationGateway, feeBridge, emergencyGuard,
    wallet, escrow, bridgeFunds,   \* token balances of parties, contract, bridge
    allowance                      \* what the bridge may still pull per token

accountVars == <<freeBalance, boundBalance, totalMintedByAddr, totalLockedByAddr>>
totalVars   == <<totalBillSupply, totalLocked>>
configVars  == <<batchThreshold, tokenAllowed, timing, attestationGateway,
                 feeBridge, emergencyGuard>>
moneyVars   == <<wallet, escrow, bridgeFunds, allowance>>
coreVars    == <<billCounter, bills, bindingCounter, bindings, totalVars,
                 pendingBatchAmount, accountVars, configVars, moneyVars>>
vars        == <<now, freezeVars, coreVars>>

BillState     == {"MINTED", "BOUND", "BURNED"}
OpenState     == {"ACTIVE", "PENDING", "FINALIZING", "DISPUTED"}
TerminalState == {"SETTLED", "REFUNDED"}
BindingState  == OpenState \cup TerminalState

BillToken == [owner : Addr, token : Token, amount : Nat \ {0}, state : BillState]

\* A binding with its arbitration record; 0 stands for "not yet" in a timestamp.
Binding == [buyerBillId : Nat, agentBillId : Nat, state : BindingState,
            createdAt : Nat, settleAfter : Nat, settleSubmittedAt : Nat,
            taskId : TaskId \cup {IntentTask, NoTask},
            startedAt : Nat, buyerSubmittedAt : Nat, agentSubmittedAt : Nat,
            resolved : BOOLEAN]

RegistryTypeOK ==
    /\ billCounter \in 0..MaxBills
    /\ bindingCounter \in 0..MaxBindings
    /\ bills \in [1..billCounter -> BillToken]
    /\ bindings \in [1..bindingCounter -> Binding]

LedgerTypeOK ==
    /\ totalBillSupply \in [Token -> Nat]
    /\ totalLocked \in [Token -> Nat]
    /\ pendingBatchAmount \in [Token -> Nat]
    /\ freeBalance \in [Addr -> Nat]
    /\ boundBalance \in [Addr -> Nat]
    /\ totalMintedByAddr \in [Addr -> Nat]
    /\ totalLockedByAddr \in [Addr -> Nat]

MoneyTypeOK ==
    /\ wallet \in [Addr -> [Token -> Nat]]
    /\ escrow \in [Token -> Nat]
    /\ bridgeFunds \in [Token -> Nat]
    /\ allowance \in [Token -> Nat]

ConfigTypeOK ==
    /\ batchThreshold \in [Token -> Nat]
    /\ tokenAllowed \in [Token -> BOOLEAN]
    /\ timing \in [TimingFields -> Nat]
    /\ attestationGateway \in BOOLEAN
    /\ feeBridge \in BOOLEAN
    /\ emergencyGuard \in BOOLEAN

TypeOK ==
    /\ FreezeTypeOK
    /\ RegistryTypeOK
    /\ LedgerTypeOK
    /\ MoneyTypeOK
    /\ ConfigTypeOK

\* The constructor's state with the payment tokens on the allow list.
Init ==
    /\ FreezeInit
    /\ billCounter = 0
    /\ bills = [i \in 1..0 |-> 0]
    /\ bindingCounter = 0
    /\ bindings = [i \in 1..0 |-> 0]
    /\ totalBillSupply = [t \in Token |-> 0]
    /\ totalLocked = [t \in Token |-> 0]
    /\ pendingBatchAmount = [t \in Token |-> 0]
    /\ batchThreshold = [t \in Token |-> 0]
    /\ freeBalance = [a \in Addr |-> 0]
    /\ boundBalance = [a \in Addr |-> 0]
    /\ totalMintedByAddr = [a \in Addr |-> 0]
    /\ totalLockedByAddr = [a \in Addr |-> 0]
    /\ tokenAllowed = [t \in Token |-> TRUE]
    /\ timing = DefaultTiming
    /\ attestationGateway = FALSE
    /\ feeBridge = FALSE
    /\ emergencyGuard = FALSE
    /\ wallet = [a \in Addr |-> [t \in Token |-> InitialFunds]]
    /\ escrow = [t \in Token |-> 0]
    /\ bridgeFunds = [t \in Token |-> 0]
    /\ allowance = [t \in Token |-> 0]

-----------------------------------------------------------------------------
\* Reading bills and bindings.

Bills    == 1..billCounter
Bindings == 1..bindingCounter

buyerBill(b)  == bills[bindings[b].buyerBillId]
agentBill(b)  == bills[bindings[b].agentBillId]
buyerOf(b)    == buyerBill(b).owner
agentOf(b)    == agentBill(b).owner
tokenOf(b)    == buyerBill(b).token
totalPool(b)  == buyerBill(b).amount + agentBill(b).amount
isOpen(b)     == bindings[b].state \in OpenState
requiresAttestation(b) == bindings[b].taskId # NoTask

\* f with one more element, numbered n.
Extend(f, n, v) == [i \in 1..n |-> IF i = n THEN v ELSE f[i]]

\* The two post-checks of the contract, made on the state the transaction leaves.
checkInvariant(t) == totalBillSupply'[t] = totalLocked'[t]
checkPerAddressInvariant(a) == freeBalance'[a] + boundBalance'[a] = totalMintedByAddr'[a]

payoutFrozen(b) ==
    /\ emergencyGuard
    /\ payoutBlocked(b, bindings[b].buyerBillId, bindings[b].agentBillId,
                     buyerOf(b), agentOf(b))

\* A share of an amount in basis points, rounded down as Solidity does.
shareOf(amount, bps) == (amount * bps) \div 10000

-----------------------------------------------------------------------------
\* Bills: lock and unlock.

\* Mutant: the ZeroAmount check is missing.
lockableZero(t, amount) == tokenAllowed[t]

\* TokenNotAllowed, ZeroAmount.
lockable(t, amount) == tokenAllowed[t] /\ amount # 0

lock(a, t, amount) ==
    /\ billCounter < MaxBills
    /\ lockable(t, amount)
    /\ wallet[a][t] >= amount
    /\ wallet' = [wallet EXCEPT ![a][t] = @ - amount]
    /\ escrow' = [escrow EXCEPT ![t] = @ + amount]
    /\ billCounter' = billCounter + 1
    /\ bills' = Extend(bills, billCounter + 1,
                       [owner |-> a, token |-> t, amount |-> amount, state |-> "MINTED"])
    /\ totalLocked' = [totalLocked EXCEPT ![t] = @ + amount]
    /\ totalBillSupply' = [totalBillSupply EXCEPT ![t] = @ + amount]
    /\ freeBalance' = [freeBalance EXCEPT ![a] = @ + amount]
    /\ totalMintedByAddr' = [totalMintedByAddr EXCEPT ![a] = @ + amount]
    /\ totalLockedByAddr' = [totalLockedByAddr EXCEPT ![a] = @ + amount]
    /\ UNCHANGED <<now, freezeVars, bindingCounter, bindings, pendingBatchAmount,
                   boundBalance, configVars, bridgeFunds, allowance>>
    /\ checkInvariant(t)
    /\ checkPerAddressInvariant(a)

unlock(a, i) ==
    LET t      == bills[i].token
        amount == bills[i].amount
    IN  /\ bills[i].owner = a
        /\ bills[i].state = "MINTED"
        /\ freeBalance[a] >= amount
        /\ totalMintedByAddr[a] >= amount
        /\ totalLockedByAddr[a] >= amount
        /\ totalBillSupply[t] >= amount
        /\ totalLocked[t] >= amount
        /\ escrow[t] >= amount
        /\ bills' = [bills EXCEPT ![i].state = "BURNED"]
        /\ freeBalance' = [freeBalance EXCEPT ![a] = @ - amount]
        /\ totalLockedByAddr' = [totalLockedByAddr EXCEPT ![a] = @ - amount]
        /\ totalMintedByAddr' = [totalMintedByAddr EXCEPT ![a] = @ - amount]
        /\ totalBillSupply' = [totalBillSupply EXCEPT ![t] = @ - amount]
        /\ totalLocked' = [totalLocked EXCEPT ![t] = @ - amount]
        /\ escrow' = [escrow EXCEPT ![t] = @ - amount]
        /\ wallet' = [wallet EXCEPT ![a][t] = @ + amount]
        /\ UNCHANGED <<now, freezeVars, billCounter, bindingCounter, bindings,
                       pendingBatchAmount, boundBalance, configVars,
                       bridgeFunds, allowance>>
        /\ checkInvariant(t)
        /\ checkPerAddressInvariant(a)

-----------------------------------------------------------------------------
\* Binding a buyer's bill to an agent's bill.

\* Mutant: the state of the agent's bill is not checked.
bindableTwice(a, bb, ab) ==
    /\ bills[bb].owner = a
    /\ bills[bb].state = "MINTED"
    /\ bills[bb].token = bills[ab].token
    /\ bills[bb].owner # bills[ab].owner

bindable(a, bb, ab) ==
    /\ bills[bb].owner = a
    /\ bills[bb].state = "MINTED"
    /\ bills[ab].state = "MINTED"
    /\ bills[bb].token = bills[ab].token
    /\ bills[bb].owner # bills[ab].owner

\* Mutant: freeBalance is not lowered.
addToBound(bb, ab) ==
    /\ boundBalance' = [boundBalance EXCEPT ![bills[bb].owner] = @ + bills[bb].amount,
                                            ![bills[ab].owner] = @ + bills[ab].amount]
    /\ UNCHANGED freeBalance

\* _moveFreeTobound for both owners.
moveFreeToBound(bb, ab) ==
    LET buyer == bills[bb].owner
        agent == bills[ab].owner
    IN  /\ freeBalance[buyer] >= bills[bb].amount
        /\ freeBalance[agent] >= bills[ab].amount
        /\ freeBalance' = [freeBalance EXCEPT ![buyer] = @ - bills[bb].amount,
                                              ![agent] = @ - bills[ab].amount]
        /\ boundBalance' = [boundBalance EXCEPT ![buyer] = @ + bills[bb].amount,
                                                ![agent] = @ + bills[ab].amount]

\* The batch with the new pool in it.
batchWith(bb, ab) ==
    pendingBatchAmount[bills[bb].token] + bills[bb].amount + bills[ab].amount

\* The common tail of the three bind functions.  The batch threshold is compared
\* with the amount that already counts this pool.
createBinding(bb, ab, task) ==
    LET t     == bills[bb].token
        batch == batchWith(bb, ab)
    IN  /\ bindingCounter < MaxBindings
        /\ bills' = [bills EXCEPT ![bb].state = "BOUND", ![ab].state = "BOUND"]
        /\ bindingCounter' = bindingCounter + 1
        /\ bindings' = Extend(bindings, bindingCounter + 1,
               [buyerBillId |-> bb, agentBillId |-> ab,
                state |-> IF batchThreshold[t] > 0 /\ batch >= batchThreshold[t]
                          THEN "PENDING" ELSE "ACTIVE",
                createdAt |-> now,
                settleAfter |-> now + timing.disputeWindowSeconds,
                settleSubmittedAt |-> 0, taskId |-> task,
                startedAt |-> 0, buyerSubmittedAt |-> 0, agentSubmittedAt |-> 0,
                resolved |-> FALSE])
        /\ pendingBatchAmount' = [pendingBatchAmount EXCEPT ![t] = batch]
        /\ moveFreeToBound(bb, ab)
        /\ UNCHANGED <<now, freezeVars, billCounter, totalVars, totalMintedByAddr,
                       totalLockedByAddr, configVars, moneyVars>>

bind(a, bb, ab) ==
    /\ bindable(a, bb, ab)
    /\ createBinding(bb, ab, NoTask)

bindWithAttestation(a, bb, ab, task) ==
    /\ attestationGateway
    /\ bindable(a, bb, ab)
    /\ createBinding(bb, ab, task)

\* The buyer's intent names the two owners and the buyer's amount; the agent's
\* bill must be exactly the stake the penalty rate asks for.  A verifier in the
\* intent makes the binding attested, whether or not a gateway is set.
bindWithIntent(a, bb, ab, rate, expiresAt, verifier) ==
    /\ bindable(a, bb, ab)
    /\ bills[ab].amount = shareOf(bills[bb].amount, rate)
    /\ now <= expiresAt
    /\ createBinding(bb, ab, IF verifier THEN IntentTask ELSE NoTask)

-----------------------------------------------------------------------------
\* Paying a binding out.

\* _collectEconomyFee: the bridge's quote, capped at 10% of the pool
\* (MAX_FEE_BPS), charged only when a bridge is wired and quotes a fee.
bridgeCharges(pool, quote) == feeBridge /\ pool # 0 /\ quote # 0
feeCeiling(pool) == shareOf(pool, 1000)
\* Mutant: no MAX_FEE_BPS ceiling.
uncappedFee(pool, quote) ==
    IF ~bridgeCharges(pool, quote) THEN 0 ELSE IF quote > pool THEN pool ELSE quote

economyFee(pool, quote) ==
    LET wanted == IF quote > pool THEN pool ELSE quote
    IN  IF ~bridgeCharges(pool, quote) THEN 0
        ELSE IF wanted > feeCeiling(pool) THEN feeCeiling(pool) ELSE wanted

\* A payout that ends a dispute closes its arbitration record.
arbitrated(b) == bindings[b].state = "DISPUTED" /\ bindings[b].startedAt # 0

\* Mutant: _decrementBound runs for the buyer only.
lessBuyerStake(f, b) == [f EXCEPT ![buyerOf(b)] = @ - buyerBill(b).amount]

\* _decrementBound for both owners, on each of the three counters it lowers.
lessStakes(f, b)   == [f EXCEPT ![buyerOf(b)] = @ - buyerBill(b).amount,
                                ![agentOf(b)] = @ - agentBill(b).amount]
coversStakes(f, b) == f[buyerOf(b)] >= buyerBill(b).amount /\ f[agentOf(b)] >= agentBill(b).amount

burnBills(b) == [bills EXCEPT ![bindings[b].buyerBillId].state = "BURNED",
                              ![bindings[b].agentBillId].state = "BURNED"]

\* What every payout does: burn both bills, take them off every counter and
\* transfer the shares.  approved is the allowance the transaction grants the
\* bridge, pulled what the bridge takes of it at once.
release(b, state, toBuyer, toAgent, approved, pulled) ==
    LET buyer  == buyerOf(b)
        agent  == agentOf(b)
        t      == tokenOf(b)
        pool   == totalPool(b)
    IN  /\ coversStakes(boundBalance, b)
        /\ coversStakes(totalMintedByAddr, b)
        /\ coversStakes(totalLockedByAddr, b)
        /\ totalBillSupply[t] >= pool
        /\ totalLocked[t] >= pool
        /\ pendingBatchAmount[t] >= pool
        /\ escrow[t] >= toBuyer + toAgent + pulled
        /\ bindings' = [bindings EXCEPT ![b].state = state,
                                        ![b].resolved = @ \/ arbitrated(b)]
        /\ bills' = burnBills(b)
        /\ boundBalance' = lessStakes(boundBalance, b)
        /\ totalMintedByAddr' = lessStakes(totalMintedByAddr, b)
        /\ totalLockedByAddr' = lessStakes(totalLockedByAddr, b)
        /\ totalBillSupply' = [totalBillSupply EXCEPT ![t] = @ - pool]
        /\ totalLocked' = [totalLocked EXCEPT ![t] = @ - pool]
        /\ pendingBatchAmount' = [pendingBatchAmount EXCEPT ![t] = @ - pool]
        /\ wallet' = [wallet EXCEPT ![buyer][t] = @ + toBuyer, ![agent][t] = @ + toAgent]
        /\ escrow' = [escrow EXCEPT ![t] = @ - (toBuyer + toAgent + pulled)]
        /\ bridgeFunds' = [bridgeFunds EXCEPT ![t] = @ + pulled]
        /\ allowance' = [allowance EXCEPT ![t] = approved - pulled]
        /\ UNCHANGED <<now, freezeVars, billCounter, bindingCounter, freeBalance, configVars>>
        /\ checkInvariant(t)
        /\ checkPerAddressInvariant(buyer)
        /\ checkPerAddressInvariant(agent)

\* Mutant: the bridge is approved for what it quotes, not for the capped fee.
approvedQuote(b, quote) ==
    IF bridgeCharges(totalPool(b), quote) THEN quote ELSE allowance[tokenOf(b)]

\* A charge replaces whatever allowance an earlier one left.
approvedFee(b, quote) ==
    IF bridgeCharges(totalPool(b), quote) THEN economyFee(totalPool(b), quote)
    ELSE allowance[tokenOf(b)]

\* The seller receives the whole pool less the fee; the buyer's lock is the price.
executeSettle(b, quote, pulls) ==
    LET fee == economyFee(totalPool(b), quote)
    IN  /\ ~payoutFrozen(b)
        /\ release(b, "SETTLED", 0, totalPool(b) - fee, approvedFee(b, quote),
                   IF pulls THEN fee ELSE 0)

\* Mutant: a refund asks the freeze contract like any other payout.
executeRefundGuarded(b) ==
    /\ ~payoutFrozen(b)
    /\ release(b, "REFUNDED", buyerBill(b).amount, agentBill(b).amount, allowance[tokenOf(b)], 0)

\* A refund does not ask the freeze contract.
executeRefund(b) ==
    release(b, "REFUNDED", buyerBill(b).amount, agentBill(b).amount,
            allowance[tokenOf(b)], 0)

\* Mutant: a split never asks the freeze contract.
executeSplitFrozen(b, shareBps) ==
    LET toBuyer == shareOf(totalPool(b), shareBps)
    IN  release(b, "SETTLED", toBuyer, totalPool(b) - toBuyer, allowance[tokenOf(b)], 0)

\* A split in favour of the buyer alone passes a freeze.
executeSplit(b, shareBps) ==
    LET toBuyer == shareOf(totalPool(b), shareBps)
    IN  /\ shareBps < 10000 => ~payoutFrozen(b)
        /\ release(b, "SETTLED", toBuyer, totalPool(b) - toBuyer,
                   allowance[tokenOf(b)], 0)

\* The bridge may pull what it left of an approval in a later transaction.
bridgeCollect(t) ==
    /\ allowance[t] > 0
    /\ escrow[t] >= allowance[t]
    /\ escrow' = [escrow EXCEPT ![t] = @ - allowance[t]]
    /\ bridgeFunds' = [bridgeFunds EXCEPT ![t] = @ + allowance[t]]
    /\ allowance' = [allowance EXCEPT ![t] = 0]
    /\ UNCHANGED <<now, freezeVars, billCounter, bills, bindingCounter, bindings,
                   totalVars, pendingBatchAmount, accountVars, configVars, wallet>>

-----------------------------------------------------------------------------
\* Layer 1: optimistic settlement.

\* Changes of a binding that move no money.
updateBinding(b, rec) ==
    /\ bindings' = [bindings EXCEPT ![b] = rec]
    /\ UNCHANGED <<now, freezeVars, billCounter, bills, bindingCounter, totalVars,
                   pendingBatchAmount, accountVars, configVars, moneyVars>>

settleable(b) == bindings[b].state \in {"ACTIVE", "PENDING"}

settle(a, b) ==
    /\ settleable(b)
    /\ ~requiresAttestation(b)
    /\ a \in {buyerOf(b), agentOf(b)}
    /\ bindings[b].state = "ACTIVE" => now >= bindings[b].settleAfter
    /\ updateBinding(b, [bindings[b] EXCEPT !.state = "FINALIZING",
                                            !.settleSubmittedAt = now])

\* settle called by the attestation gateway, which has checked the quorum and
\* the challenge window: the payout is immediate.
settleAttested(b, quote, pulls) ==
    /\ attestationGateway
    /\ settleable(b)
    /\ requiresAttestation(b)
    /\ executeSettle(b, quote, pulls)

finalizeAfter(b) == bindings[b].settleSubmittedAt + timing.disputeWindow

finalizeSettle(b, quote, pulls) ==
    /\ bindings[b].state = "FINALIZING"
    /\ now >= finalizeAfter(b)
    /\ executeSettle(b, quote, pulls)

\* Mutant: the binding need not be FINALIZING.
disputeAnytime(a, b) ==
    /\ now < finalizeAfter(b)
    /\ a = buyerOf(b)
    /\ updateBinding(b, [bindings[b] EXCEPT !.state = "DISPUTED", !.startedAt = now,
                            !.buyerSubmittedAt = now, !.agentSubmittedAt = 0,
                            !.resolved = FALSE])

\* Mutant: opening a dispute does not count as the buyer's evidence.
disputeUnproven(a, b) ==
    /\ bindings[b].state = "FINALIZING"
    /\ now < finalizeAfter(b)
    /\ a = buyerOf(b)
    /\ updateBinding(b, [bindings[b] EXCEPT !.state = "DISPUTED", !.startedAt = now,
                            !.buyerSubmittedAt = 0, !.agentSubmittedAt = 0,
                            !.resolved = FALSE])

dispute(a, b) ==
    /\ bindings[b].state = "FINALIZING"
    /\ now < finalizeAfter(b)
    /\ a = buyerOf(b)
    /\ updateBinding(b, [bindings[b] EXCEPT !.state = "DISPUTED", !.startedAt = now,
                            !.buyerSubmittedAt = now, !.agentSubmittedAt = 0,
                            !.resolved = FALSE])

-----------------------------------------------------------------------------
\* Arbitration.

evidenceDeadline(b) == bindings[b].startedAt + timing.evidenceWindow

submitArbitrationEvidence(a, b) ==
    /\ bindings[b].state = "DISPUTED"
    /\ bindings[b].startedAt # 0
    /\ ~bindings[b].resolved
    /\ now < evidenceDeadline(b)
    /\ a \in {buyerOf(b), agentOf(b)}
    /\ updateBinding(b, IF a = buyerOf(b)
                        THEN [bindings[b] EXCEPT !.buyerSubmittedAt = now]
                        ELSE [bindings[b] EXCEPT !.agentSubmittedAt = now])


autoResolvable(b) ==
    /\ bindings[b].state = "DISPUTED"
    /\ bindings[b].startedAt # 0
    /\ ~bindings[b].resolved
    /\ now >= evidenceDeadline(b)
    /\ totalPool(b) >= timing.autoArbitrationThreshold
          => now >= evidenceDeadline(b) + timing.largeDisputeTimeoutSeconds

\* The four outcomes by who submitted evidence.
autoResolveArbitration(b, quote, pulls) ==
    LET buyerSubmitted == bindings[b].buyerSubmittedAt # 0
        agentSubmitted == bindings[b].agentSubmittedAt # 0
    IN  /\ autoResolvable(b)
        /\ IF buyerSubmitted
           THEN executeSplit(b, IF agentSubmitted THEN 5000 ELSE 10000)
           ELSE IF agentSubmitted THEN executeSettle(b, quote, pulls)
                ELSE executeRefund(b)

\* onlyAdmin
resolveDispute(b, shareBps) ==
    /\ shareBps <= 10000
    /\ bindings[b].state = "DISPUTED"
    /\ executeSplit(b, shareBps)

\* Mutant: an attested binding is left to its verifiers.
refundUnattested(a, b) ==
    /\ settleable(b)
    /\ ~requiresAttestation(b)
    /\ now >= bindings[b].createdAt + timing.settleTimeoutSeconds
    /\ a = buyerOf(b)
    /\ executeRefund(b)

refundOnTimeout(a, b) ==
    /\ settleable(b)
    /\ now >= bindings[b].createdAt + timing.settleTimeoutSeconds
    /\ a = buyerOf(b)
    /\ executeRefund(b)

-----------------------------------------------------------------------------
\* Administration (onlyAdmin).

ledgerVars == <<billCounter, bills, bindingCounter, bindings, totalVars,
                pendingBatchAmount, accountVars, moneyVars>>

\* setDisputeWindow, setOptimisticDisputeWindow, setEvidenceWindow,
\* setAutoArbitrationThreshold, setSettleTimeout and setLargeDisputeTimeout.
setTiming(field, value) ==
    /\ field = "largeDisputeTimeoutSeconds" => value >= DAY
    /\ timing' = [timing EXCEPT ![field] = value]
    /\ UNCHANGED <<now, freezeVars, ledgerVars, batchThreshold, tokenAllowed,
                   attestationGateway, feeBridge, emergencyGuard>>

setTokenAllowed(t, allowed) ==
    /\ tokenAllowed' = [tokenAllowed EXCEPT ![t] = allowed]
    /\ UNCHANGED <<now, freezeVars, ledgerVars, batchThreshold, timing,
                   attestationGateway, feeBridge, emergencyGuard>>

setBatchThreshold(t, threshold) ==
    /\ batchThreshold' = [batchThreshold EXCEPT ![t] = threshold]
    /\ UNCHANGED <<now, freezeVars, ledgerVars, tokenAllowed, timing,
                   attestationGateway, feeBridge, emergencyGuard>>

\* The gateway cannot be unset.
setAttestationGateway ==
    /\ attestationGateway' = TRUE
    /\ UNCHANGED <<now, freezeVars, ledgerVars, batchThreshold, tokenAllowed,
                   timing, feeBridge, emergencyGuard>>

setFeeBridge(wired) ==
    /\ feeBridge' = wired
    /\ UNCHANGED <<now, freezeVars, ledgerVars, batchThreshold, tokenAllowed,
                   timing, attestationGateway, emergencyGuard>>

setEmergencyGuard(wired) ==
    /\ emergencyGuard' = wired
    /\ UNCHANGED <<now, freezeVars, ledgerVars, batchThreshold, tokenAllowed,
                   timing, attestationGateway, feeBridge>>

-----------------------------------------------------------------------------
\* The system.  Parties, administrators and operators act of their own will;
\* keepers are the calls anyone may make.

PartyNext ==
    \/ \E a \in Addr, t \in Token, amount \in LockAmounts : lock(a, t, amount)
    \/ \E a \in Addr, i \in Bills : unlock(a, i)
    \/ \E a \in Addr, bb, ab \in Bills : bind(a, bb, ab)
    \/ \E a \in Addr, bb, ab \in Bills, task \in TaskId : bindWithAttestation(a, bb, ab, task)
    \/ \E a \in Addr, bb, ab \in Bills, rate \in PenaltyRates, expiresAt \in IntentExpiries,
          verifier \in BOOLEAN : bindWithIntent(a, bb, ab, rate, expiresAt, verifier)
    \/ \E a \in Addr, b \in Bindings : settle(a, b)
    \/ \E a \in Addr, b \in Bindings : dispute(a, b)
    \/ \E a \in Addr, b \in Bindings : submitArbitrationEvidence(a, b)

BuyerRefund == \E a \in Addr, b \in Bindings : refundOnTimeout(a, b)

KeeperNext ==
    \/ \E b \in Bindings, quote \in FeeQuotes, pulls \in BOOLEAN : finalizeSettle(b, quote, pulls)
    \/ \E b \in Bindings, quote \in FeeQuotes, pulls \in BOOLEAN :
          autoResolveArbitration(b, quote, pulls)

GatewayNext ==
    \E b \in Bindings, quote \in FeeQuotes, pulls \in BOOLEAN : settleAttested(b, quote, pulls)

AdminNext ==
    \/ \E b \in Bindings, shareBps \in ShareBps : resolveDispute(b, shareBps)
    \/ \E field \in TimingFields : \E value \in TimingChoices[field] : setTiming(field, value)
    \/ \E t \in Token, allowed \in TokenFlags : setTokenAllowed(t, allowed)
    \/ \E t \in Token, threshold \in BatchThresholds : setBatchThreshold(t, threshold)
    \/ setAttestationGateway
    \/ \E wired \in BridgeFlags : setFeeBridge(wired)
    \/ \E wired \in GuardFlags : setEmergencyGuard(wired)

Tick ==
    /\ now < MaxTime
    /\ now' = now + 1
    /\ UNCHANGED <<freezeVars, coreVars>>

\* Everything but the gateway's call and the freeze contract, which only some
\* instances exercise.
CoreNext ==
    \/ now <= Horizon /\ PartyNext
    \/ BuyerRefund
    \/ KeeperNext
    \/ now <= Horizon /\ AdminNext
    \/ \E t \in Token : bridgeCollect(t)
    \/ Tick

Next ==
    \/ CoreNext
    \/ GatewayNext
    \/ now <= Horizon /\ FreezeNext /\ UNCHANGED coreVars

Spec == Init /\ [][Next]_vars

-----------------------------------------------------------------------------
\* The inductive core, one named part per idea.

\* _checkInvariant and _checkPerAddressInvariant hold between transactions for
\* every token and every account, not only for the ones a transaction checks;
\* the fourth counter, which no check of the contract looks at, follows the third.
CountersAgree ==
    /\ \A t \in Token : totalBillSupply[t] = totalLocked[t]
    /\ \A a \in Addr : /\ freeBalance[a] + boundBalance[a] = totalMintedByAddr[a]
                       /\ totalLockedByAddr[a] = totalMintedByAddr[a]

\* Solvency: the contract always holds the tokens behind every live bill and,
\* besides them, everything the fee bridge is still allowed to pull, so a late
\* pull can never be paid out of someone else's escrow.
Solvent == \A t \in Token : escrow[t] >= totalLocked[t] + allowance[t]

\* An open binding holds two BOUND bills of one token and two different owners,
\* a closed one two BURNED bills.
BindingHoldsItsBills ==
    \A b \in Bindings :
        /\ bindings[b].buyerBillId \in Bills
        /\ bindings[b].agentBillId \in Bills
        /\ bindings[b].buyerBillId # bindings[b].agentBillId
        /\ tokenOf(b) = agentBill(b).token
        /\ buyerOf(b) # agentOf(b)
        /\ buyerBill(b).state = IF isOpen(b) THEN "BOUND" ELSE "BURNED"
        /\ agentBill(b).state = IF isOpen(b) THEN "BOUND" ELSE "BURNED"

billsOf(b) == {bindings[b].buyerBillId, bindings[b].agentBillId}

\* Single commitment: no bill is ever part of two bindings, open or closed.
SingleCommitment ==
    \A b, c \in Bindings : b # c => billsOf(b) \cap billsOf(c) = {}

\* Every BOUND bill is held by an open binding, so it has a way out.
NoOrphanedBill ==
    \A i \in Bills : bills[i].state = "BOUND"
                        => \E b \in Bindings : isOpen(b) /\ i \in billsOf(b)

\* A dispute always carries the buyer's evidence and is unresolved, and the
\* optimistic path is closed to attested bindings.
DisputesWellFormed ==
    \A b \in Bindings :
        /\ bindings[b].state = "DISPUTED" => /\ bindings[b].startedAt # 0
                                             /\ bindings[b].buyerSubmittedAt # 0
                                             /\ ~bindings[b].resolved
        /\ bindings[b].state \in {"FINALIZING", "DISPUTED"} => ~requiresAttestation(b)

\* Bills and bindings fit together: single commitment, the bills of an open and of
\* a closed binding, no bill without a way out, and disputes that can be decided.
\* No transaction checks any of this; bind, the payouts and the dispute calls each
\* keep a part of it.
BillsFitBindings ==
    BindingHoldsItsBills /\ SingleCommitment /\ NoOrphanedBill /\ DisputesWellFormed

-----------------------------------------------------------------------------
\* The running totals against what they summarise.

live(i)     == bills[i].state # "BURNED"
amounts     == [i \in Bills |-> bills[i].amount]
pools       == [b \in Bindings |-> totalPool(b)]
liveIn(t)   == {i \in Bills : live(i) /\ bills[i].token = t}
mintedBy(a) == {i \in Bills : bills[i].state = "MINTED" /\ bills[i].owner = a}
boundBy(a)  == {i \in Bills : bills[i].state = "BOUND" /\ bills[i].owner = a}
openIn(t)   == {b \in Bindings : isOpen(b) /\ tokenOf(b) = t}

\* totalLocked is the value of the live bills; freeBalance and boundBalance of an
\* account are the values of its MINTED and of its BOUND bills.  unlock,
\* _moveFreeTobound and _decrementBound therefore never underflow.
BalancesMatchBills ==
    /\ \A t \in Token : totalLocked[t] = SumFunctionOnSet(amounts, liveIn(t))
    /\ \A a \in Addr : /\ freeBalance[a] = SumFunctionOnSet(amounts, mintedBy(a))
                       /\ boundBalance[a] = SumFunctionOnSet(amounts, boundBy(a))

\* pendingBatchAmount is the value of the open bindings' pools.
BatchMatchesBindings ==
    \A t \in Token : pendingBatchAmount[t] = SumFunctionOnSet(pools, openIn(t))

\* Every total the contract keeps is the sum it stands for, after any sequence of
\* locks, binds and payouts: nothing is ever counted twice or lost.
TotalsMatchBills == BalancesMatchBills /\ BatchMatchesBindings


\* The documented way out of a freeze: whatever is frozen or paused, a buyer whose
\* timeout has passed can take a refund, the administrator can send a disputed
\* pool back to the buyer, and an unbound bill can be unlocked.
FreezeLeavesExits ==
    /\ \A b \in Bindings :
          /\ settleable(b) /\ now >= bindings[b].createdAt + timing.settleTimeoutSeconds
                => ENABLED refundOnTimeout(buyerOf(b), b)
          /\ bindings[b].state = "DISPUTED" => ENABLED resolveDispute(b, 10000)
    /\ \A i \in Bills : bills[i].state = "MINTED" => ENABLED unlock(bills[i].owner, i)

-----------------------------------------------------------------------------
\* Action properties.

closes(b) == b \in Bindings /\ isOpen(b) /\ ~isOpen(b)'
gain(a, t) == wallet'[a][t] - wallet[a][t]

\* What the parties of a binding receive when it is paid out.
sharesPool(b) ==
    LET t == tokenOf(b)  both == gain(buyerOf(b), t) + gain(agentOf(b), t) IN
    /\ bindings'[b].state = "REFUNDED"
          => /\ gain(buyerOf(b), t) = buyerBill(b).amount
             /\ gain(agentOf(b), t) = agentBill(b).amount
    /\ both <= totalPool(b)
    /\ 10 * both >= 9 * totalPool(b)
    /\ \A a \in Addr \ {buyerOf(b), agentOf(b)}, u \in Token : gain(a, u) = 0

\* A payout happens once per binding and pays nobody but its two parties: a
\* refund returns each stake, any other payout hands out at least 90% of the pool
\* (MAX_FEE_BPS) and never more than the pool.
PayoutSharesPool == [][\A b \in BindingId : closes(b) => sharesPool(b)]_vars

keepsClosed ==
    /\ \A b \in Bindings : ~isOpen(b) => bindings'[b] = bindings[b]
    /\ \A i \in Bills : ~live(i) => bills'[i] = bills[i]

\* A closed binding and a burned bill never change again: no second payout, no
\* dispute after settlement, no re-use of a bill.
ClosedIsFinal == [][keepsClosed]_vars

paysNoSeller(b) == bindings'[b].state = "REFUNDED" \/ gain(agentOf(b), tokenOf(b)) = 0

\* While the freeze contract blocks a binding's payout, its money can only go
\* back to the buyer's side: a timeout refund or a full-refund resolution.
FrozenPaysNoSeller == [][\A b \in BindingId : closes(b) /\ payoutFrozen(b) => paysNoSeller(b)]_vars

protectsBuyer(b) ==
    /\ bindings[b].state = "FINALIZING"
          => now >= bindings[b].settleSubmittedAt + timing.disputeWindow
    /\ bindings[b].state = "DISPUTED"
          => \/ \E share \in ShareBps : resolveDispute(b, share)
             \/ 2 * gain(buyerOf(b), tokenOf(b)) + 1 >= totalPool(b)

\* The optimistic path pays the seller only after a dispute window, as it stands
\* when the payout happens, has passed since the submission without a dispute;
\* a disputed binding is never paid out through finalizeSettle.  The buyer of a
\* disputed binding receives at least half unless the administrator decides.
DisputeProtectsBuyer == [][\A b \in BindingId : closes(b) => protectsBuyer(b)]_vars

-----------------------------------------------------------------------------
\* What the documents say and the code does not do.

\* FINANCIAL_STATE_MACHINE.md: while a freeze is active, bind is blocked.
FreezeBlocksBind ==
    [][bindingCounter' # bindingCounter /\ emergencyGuard =>
        LET bb == bindings'[bindingCounter'].buyerBillId
            ab == bindings'[bindingCounter'].agentBillId
        IN  ~bindBlocked(bills[bb].owner, bills[ab].owner, bb, ab)]_vars

\* autoResolveArbitration: "funds are never frozen indefinitely" by a dispute.
DisputesNeverStuck ==
    \A b \in BindingId :
        (b \in Bindings /\ bindings[b].state = "DISPUTED")
            ~> (b \in Bindings /\ ~isOpen(b))

-----------------------------------------------------------------------------
\* Liveness.

\* Blocks keep coming, keepers finalize and resolve what they can, and a buyer
\* takes a refund that stays available.
KeeperFairness ==
    /\ WF_vars(Tick)
    /\ \A b \in BindingId : WF_vars(b \in Bindings /\ \E quote \in FeeQuotes :
                                        finalizeSettle(b, quote, TRUE))
    /\ \A b \in BindingId : WF_vars(b \in Bindings /\ \E quote \in FeeQuotes :
                                        autoResolveArbitration(b, quote, TRUE))
    /\ \A b \in BindingId : WF_vars(b \in Bindings /\ \E a \in Addr : refundOnTimeout(a, b))

\* Every binding is paid out in the end: in whatever order parties, gateway,
\* administrator and freeze operators acted before the horizon, each state an
\* open binding can be in has an exit that time opens.
EveryBindingCloses ==
    \A b \in BindingId : (b \in Bindings /\ isOpen(b)) ~> (b \in Bindings /\ ~isOpen(b))

=============================================================================
