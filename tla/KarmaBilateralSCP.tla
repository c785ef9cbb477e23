-------------------------- MODULE KarmaBilateralSCP --------------------------
(***************************************************************************)
(* The Single Commitment part of KarmaBilateral.sol: authorize sets part   *)
(* of the caller's free balance aside for a recipient, who accepts it or   *)
(* loses it to cancelAuthorization.                                        *)
(*                                                                         *)
(* authorize lowers freeBalance and nothing else before it runs            *)
(* _checkPerAddressInvariant, which wants free + bound = minted: as that   *)
(* equality holds before the call, the check fails and the call reverts.   *)
(* The theorem at the end says that no authorization is ever created.      *)
(***************************************************************************)
EXTENDS BilateralProofs

CONSTANT AuthExpiries      \* expiresAt an authorization may carry, 0: none

VARIABLES authCounter, authorizations

scpVars == <<authCounter, authorizations>>

Authorization == [from : Addr, to : Addr, token : Token, amount : Nat,
                  accepted : BOOLEAN, expiresAt : Nat]

SCPInit ==
    /\ Init
    /\ authCounter = 0
    /\ authorizations = [i \in 1..0 |-> 0]

authorize(a, t, amount, to, expiresAt) ==
    /\ lockable(t, amount)
    /\ freeBalance[a] >= amount
    /\ freeBalance' = [freeBalance EXCEPT ![a] = @ - amount]
    /\ authCounter' = authCounter + 1
    /\ authorizations' = Extend(authorizations, authCounter + 1,
           [from |-> a, to |-> to, token |-> t, amount |-> amount,
            accepted |-> FALSE, expiresAt |-> expiresAt])
    /\ UNCHANGED <<now, freezeVars, billCounter, bills, bindingCounter, bindings,
                   totalVars, pendingBatchAmount, boundBalance, totalMintedByAddr,
                   totalLockedByAddr, configVars, moneyVars>>
    /\ checkPerAddressInvariant(a)

accept(a, i) ==
    LET auth == authorizations[i]
    IN  /\ auth.to = a
        /\ ~auth.accepted
        /\ auth.expiresAt # 0 => now <= auth.expiresAt
        /\ authorizations' = [authorizations EXCEPT ![i].accepted = TRUE]
        /\ boundBalance' = [boundBalance EXCEPT ![auth.from] = @ + auth.amount]
        /\ freeBalance' = [freeBalance EXCEPT ![a] = @ + auth.amount]
        /\ totalMintedByAddr' = [totalMintedByAddr EXCEPT ![a] = @ + auth.amount]
        /\ totalLockedByAddr' = [totalLockedByAddr EXCEPT ![a] = @ + auth.amount]
        /\ UNCHANGED <<now, freezeVars, billCounter, bills, bindingCounter, bindings,
                       totalVars, pendingBatchAmount, configVars, moneyVars, authCounter>>
        /\ checkPerAddressInvariant(auth.from)
        /\ checkPerAddressInvariant(a)

\* A cancelled authorization is marked accepted.
cancelAuthorization(a, i) ==
    LET auth == authorizations[i]
    IN  /\ auth.from = a
        /\ ~auth.accepted
        /\ authorizations' = [authorizations EXCEPT ![i].accepted = TRUE]
        /\ freeBalance' = [freeBalance EXCEPT ![a] = @ + auth.amount]
        /\ UNCHANGED <<now, freezeVars, billCounter, bills, bindingCounter, bindings,
                       totalVars, pendingBatchAmount, boundBalance, totalMintedByAddr,
                       totalLockedByAddr, configVars, moneyVars, authCounter>>
        /\ checkPerAddressInvariant(a)

SCPNext ==
    \/ Next /\ UNCHANGED scpVars
    \/ \E a, to \in Addr, t \in Token, amount \in LockAmounts, e \in AuthExpiries :
          authorize(a, t, amount, to, e)
    \/ \E a \in Addr, i \in 1..authCounter : accept(a, i)
    \/ \E a \in Addr, i \in 1..authCounter : cancelAuthorization(a, i)

SCPSpec == SCPInit /\ [][SCPNext]_<<vars, scpVars>>

\* The interface the contract's header announces: an account with enough free
\* balance of an allowed token can authorize an amount of it.
AuthorizeWorks ==
    \A a, to \in Addr, t \in Token, amount \in LockAmounts :
        lockable(t, amount) /\ freeBalance[a] >= amount
            => ENABLED authorize(a, t, amount, to, 0)

\* No authorization exists, so accept and cancelAuthorization have nothing to act on.
NoAuthorization == authCounter = 0

\* The windows of the instance that TLC checks.
MCTiming == [f \in TimingFields |-> 1]
NoTimingChange == [f \in TimingFields |-> {}]

-----------------------------------------------------------------------------
\* authorize lowers one counter of the caller and then checks an equality that
\* held before: it always reverts.
LEMMA AuthorizeReverts ==
    ASSUME IInv, NEW a \in Addr, NEW t \in Token, NEW amount \in LockAmounts,
           NEW to \in Addr, NEW expiresAt
    PROVE  ~authorize(a, t, amount, to, expiresAt)
  <1> SUFFICES ASSUME authorize(a, t, amount, to, expiresAt) PROVE FALSE
    OBVIOUS
  <1>1. amount \in Nat /\ amount # 0
    BY FundsAssumption DEF authorize, lockable, checkPerAddressInvariant
  <1>2. freeBalance \in [Addr -> Nat] /\ boundBalance \in [Addr -> Nat]
    BY DEF IInv, TypeOK, LedgerTypeOK
  <1>3. freeBalance[a] + boundBalance[a] = totalMintedByAddr[a]
    BY DEF IInv, CountersAgree
  <1>4. /\ freeBalance' = [freeBalance EXCEPT ![a] = @ - amount]
        /\ boundBalance' = boundBalance /\ totalMintedByAddr' = totalMintedByAddr
        /\ freeBalance'[a] + boundBalance'[a] = totalMintedByAddr'[a]
    BY DEF authorize, checkPerAddressInvariant
  <1> QED BY <1>1, <1>2, <1>3, <1>4

\* With the authorization calls among the steps, no authorization ever exists, so
\* accept and cancelAuthorization always revert too and every invariant of the
\* rest of the contract holds.  The balances that accept would create out of
\* nothing are unreachable.
THEOREM NoAuthorizationEver == SCPSpec => [](NoAuthorization /\ IInv)
  <1>1. SCPInit => NoAuthorization /\ IInv
    BY InitIInv DEF SCPInit, NoAuthorization
  <1>2. ASSUME NoAuthorization, IInv, [SCPNext]_<<vars, scpVars>>
        PROVE  (NoAuthorization /\ IInv)'
    <2>1. CASE Next /\ UNCHANGED scpVars
      BY <1>2, <2>1, NextIInv DEF NoAuthorization, scpVars
    <2>2. CASE UNCHANGED <<vars, scpVars>>
      BY <1>2, <2>2, NextIInv DEF NoAuthorization, scpVars
    <2>3. ~ \E a, to \in Addr, t \in Token, amount \in LockAmounts, e \in AuthExpiries :
               authorize(a, t, amount, to, e)
      BY <1>2, AuthorizeReverts
    <2>4. 1..authCounter = {}
      BY <1>2 DEF NoAuthorization
    <2> QED BY <1>2, <2>1, <2>2, <2>3, <2>4 DEF SCPNext
  <1> QED BY <1>1, <1>2, PTL DEF SCPSpec

=============================================================================
