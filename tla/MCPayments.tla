------------------------------ MODULE MCPayments ------------------------------
(***************************************************************************)
(* Identities and the components that move credits and vouchers, side by   *)
(* side: a behaviour picks one part and runs that component alone, on a    *)
(* small instance, while the variables of the others stay in their initial *)
(* state. The states of the run are the sum, not the product, of those of  *)
(* the parts; a cfg with fewer Parts checks some of them alone.            *)
(***************************************************************************)
EXTENDS A2ABridge, Integers, Sequences, FiniteSets

CONSTANT Parts  \* the components to run, one in each behaviour

VARIABLE part  \* the component that runs

-----------------------------------------------------------------------------
(* Settlement routes and arbitration: one task with every bundle verdict and  *)
(* receipt, one with a profile, an intent and pauses, two tasks of one buyer, *)
(* three parties that pay each other, and one disputed task.                  *)

VARIABLES settCap, quota, settVoucher, st, progress, evidence, delivery, intent, paused,
          pool, inactive, case

settVars == <<settCap, quota, settVoucher, st, progress, evidence, delivery, intent, paused,
               pool, inactive, case>>

Sett == INSTANCE Settlement WITH Identity <- {"buyer", "seller"}, Client <- {"buyer"},
    None <- Nil, Task <- {"t1"}, Voucher <- {"v1"}, Intent <- {}, Profile <- {},
    Owner <- [p \in {} |-> "buyer"], Amount <- {3}, Percent <- {50}, MaxLocked <- 3,
    BundleVerdict <- {"ok", "counts"}, PauseSets <- {}, Verified <- {"t1"},
    ReceiptStatus <- {"success", "failed"}, ProgressState <- {"pending", "confirmed"},
    LockRequiresPending <- TRUE, cap <- settCap, voucher <- settVoucher

Side == INSTANCE Settlement WITH Identity <- {"buyer", "seller"}, Client <- {"buyer"},
    None <- Nil, Task <- {"t1"}, Voucher <- {"v1"}, Intent <- {"n1"}, Profile <- {"p1"},
    Owner <- [p \in {"p1"} |-> "buyer"], Amount <- {3}, Percent <- {50}, MaxLocked <- 3,
    BundleVerdict <- {},
    PauseSets <- {{}, {"new_lock", "new_authorization", "new_task", "new_settlement"}},
    Verified <- {}, ReceiptStatus <- {"success"}, ProgressState <- {"confirmed"},
    LockRequiresPending <- FALSE, cap <- settCap, voucher <- settVoucher

Pair == INSTANCE Settlement WITH Identity <- {"buyer", "seller"}, Client <- {"buyer"},
    None <- Nil, Task <- {"t1", "t2"}, Voucher <- {"v1"}, Intent <- {}, Profile <- {},
    Owner <- [p \in {} |-> "buyer"], Amount <- {3}, Percent <- {50}, MaxLocked <- 6,
    BundleVerdict <- {}, PauseSets <- {}, Verified <- {}, ReceiptStatus <- {"success"},
    ProgressState <- {}, LockRequiresPending <- FALSE, cap <- settCap,
    voucher <- settVoucher

Cycle == INSTANCE Settlement WITH Identity <- {"a", "b", "c"}, Client <- {"a", "b", "c"},
    None <- Nil, Task <- {"t1", "t2", "t3"}, Voucher <- {}, Intent <- {}, Profile <- {},
    Owner <- [p \in {} |-> "buyer"], Amount <- {3}, Percent <- {}, MaxLocked <- 0,
    BundleVerdict <- {}, PauseSets <- {}, Verified <- {}, ReceiptStatus <- {},
    ProgressState <- {}, LockRequiresPending <- FALSE, cap <- settCap,
    voucher <- settVoucher

Arb == INSTANCE Arbitration WITH Identity <- {"buyer", "seller"}, Client <- {"buyer"},
    None <- Nil, Task <- {"t1"}, Voucher <- {"v1"}, Intent <- {}, Profile <- {},
    Owner <- [p \in {} |-> "buyer"], Amount <- {5}, Percent <- {40}, MaxLocked <- 5,
    BundleVerdict <- {}, PauseSets <- {}, Verified <- {}, ReceiptStatus <- {"success"},
    ProgressState <- {}, LockRequiresPending <- FALSE, Arbitrator <- {"a1", "a2"},
    Required <- {1, 2}, AssignCount <- {1, 2}, Package <- {"m1"}, cap <- settCap,
    voucher <- settVoucher

ASSUME SettlementConstants ==
    /\ Sett!SettlementAssumption /\ Side!SettlementAssumption /\ Pair!SettlementAssumption
    /\ Cycle!SettlementAssumption /\ Arb!SettlementAssumption /\ Arb!ArbitrationAssumption

SettInit ==
    CASE part = "side" -> Side!Init /\ pool = Nil /\ inactive = Nil /\ case = Nil
      [] part = "pair" -> Pair!Init /\ pool = Nil /\ inactive = Nil /\ case = Nil
      [] part = "cycle" -> Cycle!Init /\ pool = Nil /\ inactive = Nil /\ case = Nil
      [] part = "arbitration" -> Arb!ArbInit
      [] OTHER -> Sett!Init /\ pool = Nil /\ inactive = Nil /\ case = Nil

SettNext ==
    CASE part = "settlement" -> Sett!Next /\ UNCHANGED <<pool, inactive, case>>
      [] part = "side" -> Side!Next /\ UNCHANGED <<pool, inactive, case>>
      [] part = "pair" -> Pair!Next /\ UNCHANGED <<pool, inactive, case>>
      [] part = "cycle" -> Cycle!Next /\ UNCHANGED <<pool, inactive, case>>
      [] part = "arbitration" -> Arb!ArbNext
      [] OTHER -> UNCHANGED settVars

-----------------------------------------------------------------------------
(* Runtime keys and the trade pipeline: two keys of one identity, one key     *)
(* with two workers and a restart, launches one by one, and two at once with  *)
(* an idempotency key.                                                        *)

VARIABLES keyPolicy, wallet, key, keyUsed, memory, seen, request, issued, day, restarts,
          order, keyCap, sent, answer

keyVars == <<keyPolicy, wallet, key, keyUsed, memory, seen, request, issued, day, restarts,
              order, keyCap, sent, answer>>

saving(auto, single) ==
    [saved |-> FALSE, auto |-> auto, ack |-> auto, preauth |-> FALSE, accepts |-> FALSE,
     executes |-> FALSE, absent |-> FALSE, single |-> single, daily |-> 4, trusts |-> {}]

SmallPolicies == {saving(TRUE, 2), saving(FALSE, 1)}

ready(accepts, absent) ==
    [saving(TRUE, 2) EXCEPT !.saved = TRUE, !.preauth = TRUE, !.executes = TRUE,
                            !.accepts = accepts, !.absent = absent]

TradePolicies == {ready(TRUE, TRUE), ready(FALSE, FALSE)}

Keys == INSTANCE RuntimeKeys WITH Identity <- {"i1"}, Wallet <- {"w1", "w2"},
    Key <- {"k1", "k2"}, Nonce <- {"n1"}, Worker <- {"a"}, Request <- {"r1", "r2"},
    MaxRestarts <- 0, None <- Nil, Amount <- {2}, PolicyChoice <- {saving(TRUE, 2)},
    LimitChoice <- {[single |-> 2, daily |-> 4]}, Permission <- {"request_voucher"},
    RequirePolicy <- TRUE, Persist <- TRUE, MaxDay <- 0, policy <- keyPolicy,
    used <- keyUsed

Spend == INSTANCE RuntimeKeys WITH Identity <- {"i1"}, Wallet <- {"w1"}, Key <- {"k1"},
    Nonce <- {"n1"}, Worker <- {"a", "b"}, Request <- {"r1"}, MaxRestarts <- 1, None <- Nil,
    Amount <- {1, 2}, PolicyChoice <- SmallPolicies,
    LimitChoice <- {[single |-> 2, daily |-> 4]}, Permission <- {"request_voucher"},
    RequirePolicy <- TRUE, Persist <- TRUE, MaxDay <- 1, policy <- keyPolicy,
    used <- keyUsed

Trade == INSTANCE TradeOrders WITH Identity <- {"buyer", "seller"}, Wallet <- {"w1"},
    Key <- {"k1", "k2"}, Nonce <- {}, Worker <- {"a"}, Request <- {}, MaxRestarts <- 0,
    None <- Nil, Amount <- {1, 2}, PolicyChoice <- TradePolicies,
    LimitChoice <- {[single |-> 2, daily |-> 4]}, Permission <- {}, RequirePolicy <- TRUE,
    Persist <- TRUE, MaxDay <- 0, Order <- {"o1", "o2"}, IdemKey <- {},
    Requirement <- {"q1"}, Credits <- 3, InFlight <- 1,
    Minted <- [i \in {"buyer", "seller"} |-> IF i = "buyer" THEN "k1" ELSE "k2"],
    policy <- keyPolicy, used <- keyUsed, cap <- keyCap

Launch == INSTANCE TradeOrders WITH Identity <- {"buyer", "seller"}, Wallet <- {"w1"},
    Key <- {"k1", "k2"}, Nonce <- {}, Worker <- {"a"}, Request <- {}, MaxRestarts <- 0,
    None <- Nil, Amount <- {1}, PolicyChoice <- {},
    LimitChoice <- {[single |-> 2, daily |-> 4]}, Permission <- {}, RequirePolicy <- TRUE,
    Persist <- TRUE, MaxDay <- 0, Order <- {"o1", "o2"}, IdemKey <- {"n1"},
    Requirement <- {"q1", "q2"}, Credits <- 3, InFlight <- 2,
    Minted <- [i \in {"buyer", "seller"} |-> IF i = "buyer" THEN "k1" ELSE "k2"],
    policy <- keyPolicy, used <- keyUsed, cap <- keyCap

ASSUME KeyConstants == Keys!AmountAssumption /\ Spend!AmountAssumption

KeyInit ==
    CASE part = "spend" -> Spend!KeyInit /\ order = Nil /\ keyCap = Nil /\ sent = Nil /\ answer = Nil
      [] part = "trade" -> Trade!ReadyInit
      [] part = "launch" -> Launch!ReadyInit
      [] OTHER -> Keys!KeyInit /\ order = Nil /\ keyCap = Nil /\ sent = Nil /\ answer = Nil

KeyNext ==
    CASE part = "keys" -> Keys!KeyNext /\ UNCHANGED <<order, keyCap, sent, answer>>
      [] part = "spend" -> Spend!KeyNext /\ UNCHANGED <<order, keyCap, sent, answer>>
      [] part = "trade" -> Trade!Next
      [] part = "launch" -> Launch!Next
      [] OTHER -> UNCHANGED keyVars

-----------------------------------------------------------------------------
(* Payment codes and the policies that accept them.                           *)

VARIABLES codePolicy, codeVoucher, codeCap, events, codeReq, codeNow

codeVars == <<codePolicy, codeVoucher, codeCap, events, codeReq, codeNow>>

offer(auto, limit, types, bound) ==
    [preauth |-> TRUE, auto |-> auto, ack |-> TRUE, limit |-> limit, types |-> types,
     bound |-> bound]

\* One that admits everything, and a narrower one.
CodeOffers ==
    {offer(TRUE, 2, {}, "b1"), offer(TRUE, 1, {"caption"}, "b2")}

Code == INSTANCE PaymentCodes WITH Ids <- {"i1", "i2"}, Types <- {"caption"},
    Amounts <- {1, 2}, Bounds <- {"b1", "b2"}, Offers <- CodeOffers, Requests <- {"r1"},
    Credits <- 2, Ttl <- 1, MaxTime <- 1, policy <- codePolicy, voucher <- codeVoucher,
    cap <- codeCap, req <- codeReq, now <- codeNow

ASSUME CodeConstants == Code!BoundsAssumption /\ Code!OffersAssumption

CodeInit == Code!Init

CodeNext ==
    CASE part = "codes" -> Code!Next
      [] OTHER -> UNCHANGED codeVars

-----------------------------------------------------------------------------
(* Identity profiles: sub-identities with a voucher, and two requests that    *)
(* bind DIDs at once.                                                         *)

VARIABLES db, profReq

profVars == <<db, profReq>>

Prof == INSTANCE IdentityProfiles WITH Agents <- {"a1", "a2"}, Dids <- {"d1", "d2"},
    Subs <- {"s1", "s2", "s3"}, Vouchers <- {"v1"}, Requests <- {"r1"}, MaxActive <- 2,
    req <- profReq

Did == INSTANCE IdentityProfiles WITH Agents <- {"a1", "a2"}, Dids <- {"d1", "d2"},
    Subs <- {}, Vouchers <- {}, Requests <- {"r1", "r2"}, MaxActive <- 2, req <- profReq

ProfInit ==
    CASE part = "dids" -> Did!Init
      [] OTHER -> Prof!Init

ProfNext ==
    CASE part = "profiles" -> Prof!Next
      [] part = "dids" -> Did!Next
      [] OTHER -> UNCHANGED profVars

-----------------------------------------------------------------------------
(* The A2A bridge: one task and three signatures.                             *)

a2aVars == <<signed, expired, used, log, snapshot, karma, busy>>

A2aInit == Init

A2aNext ==
    CASE part = "a2a" -> Next
      [] OTHER -> UNCHANGED a2aVars

-----------------------------------------------------------------------------
(* Orders confirmed in the Telegram chat.                                     *)

VARIABLES bound, bindWait, pending, thread, orders, asks

chatVars == <<bound, bindWait, pending, thread, orders, asks>>

Chat == INSTANCE MiniAppChat WITH Users <- {"u1"}, Threads <- {"t1"}, Prices <- {2, 3},
    Single <- 3, Daily <- 5, MaxOrders <- 4, MaxAsks <- 4

ASSUME ChatConstants == Chat!LimitsAssumption

ChatInit == Chat!Init

ChatNext ==
    CASE part = "chat" -> Chat!Next
      [] OTHER -> UNCHANGED chatVars

-----------------------------------------------------------------------------
(* The billing state machine with two callers.                                *)

VARIABLES state, scenario, receipts, lock, billCall, history

billVars == <<state, scenario, receipts, lock, billCall, history>>

Bill == INSTANCE Billing WITH Task <- {"t1"}, Caller <- {"c1", "c2"},
    Scenario <- {"S1", "S2", "S3", "S4", "S5", "S8"}, MixScenarios <- FALSE,
    MaxHistory <- 14, None <- Nil, call <- billCall

ASSUME BillConstants == Bill!ScenarioAssumption

BillInit == Bill!Init

BillNext ==
    CASE part = "billing" -> Bill!Next
      [] OTHER -> UNCHANGED billVars

-----------------------------------------------------------------------------
(* The credential ledger of one identity, and with a process that can die     *)
(* between its two saves.                                                     *)

VARIABLES credentials, verification_status, ledger, alerts, written, card, ledNow

ledVars == <<credentials, verification_status, ledger, alerts, written, card, ledNow>>

Led == INSTANCE TrustLedger WITH CredentialType <- {"wallet", "telegram"}, LedgerMax <- 3,
    MaxCredential <- 3, MaxEvent <- 4, MaxTime <- 1, now <- ledNow

ASSUME LedgerConstants == Led!LedgerAssumption

LedInit == Led!Init

LedNext ==
    CASE part = "ledger" -> Led!Next
      [] part = "ledgercrash" -> Led!NextCrash
      [] OTHER -> UNCHANGED ledVars

-----------------------------------------------------------------------------
(* The identity store of the gateway.                                         *)

VARIABLES identity, by_wallet, by_tg, challenge, session, seeds, binds, logins

idsVars == <<identity, by_wallet, by_tg, challenge, session, seeds, binds, logins>>

IdStore == INSTANCE IdentityStore WITH Wallet <- {11, 12}, TG <- {"t1", "t2"},
    Nonce <- {"n1"}, Session <- {"s1"}, SeedIdentity <- {0}, MaxIdentity <- 2, MaxSeed <- 2,
    None <- Nil

IdsInit == IdStore!Init

IdsNext ==
    CASE part = "store" -> IdStore!Next
      [] OTHER -> UNCHANGED idsVars

-----------------------------------------------------------------------------
(* The receipts of an agent: three calls of one attempt; two attempts of two  *)
(* calls, with two submissions at once.                                       *)

VARIABLES recCall, hookStep, agentStep, attempt, stored, collected, bundle, sub, rows,
          recNow

recVars == <<recCall, hookStep, agentStep, attempt, stored, collected, bundle, sub, rows,
              recNow>>

Rec == INSTANCE AgentReceipts WITH MaxCalls <- 3, Submitters <- {"s1"}, MaxAttempt <- 1,
    MaxPosts <- 1, MaxTime <- 1, call <- recCall, now <- recNow

Retry == INSTANCE AgentReceipts WITH MaxCalls <- 2, Submitters <- {"s1", "s2"},
    MaxAttempt <- 2, MaxPosts <- 1, MaxTime <- 0, call <- recCall, now <- recNow

RecInit ==
    CASE part = "retry" -> Retry!Init
      [] OTHER -> Rec!Init

RecNext ==
    CASE part = "receipts" -> Rec!Next
      [] part = "retry" -> Retry!Next
      [] OTHER -> UNCHANGED recVars

-----------------------------------------------------------------------------
mcVars == <<part, settVars, keyVars, codeVars, profVars, a2aVars, chatVars, billVars,
            ledVars, idsVars, recVars>>

MCInit ==
    /\ part \in Parts
    /\ SettInit /\ KeyInit /\ CodeInit /\ ProfInit /\ A2aInit /\ ChatInit /\ BillInit
    /\ LedInit /\ IdsInit /\ RecInit

MCNext ==
    /\ UNCHANGED part
    /\ SettNext /\ KeyNext /\ CodeNext /\ ProfNext /\ A2aNext /\ ChatNext /\ BillNext
    /\ LedNext /\ IdsNext /\ RecNext

MCSpec == MCInit /\ [][MCNext]_mcVars

-----------------------------------------------------------------------------
\* Every part keeps its types.
PaymentsTypeOK ==
    /\ part = "settlement" => Sett!TypeOK
    /\ part = "keys" => Keys!KeyTypeOK
    /\ part = "trade" => Trade!TypeOK
    /\ part = "codes" => Code!TypeOK
    /\ part = "a2a" => TypeOK
    /\ part = "chat" => Chat!TypeOK
    /\ part = "billing" => Bill!TypeOK
    /\ part = "profiles" => Prof!TypeOK
    /\ part = "ledger" => Led!TypeOK
    /\ part = "store" => IdStore!TypeOK
    /\ part = "receipts" => Rec!TypeOK

\* settlement_receipt_release_guard: no route of this module pays a seller for a
\* task without a successful execution receipt.
PaidOnlyWithReceipt == part = "settlement" => Sett!PaidOnlyWithReceipt

\* A payment intent is settled only together with the task it is bound to.
IntentFollowsTask == part = "side" => Side!IntentFollowsTask

\* A payout closes the voucher of the task (mark_voucher_used_if_linked).
PaidVoucherIsUsed == part = "side" => Side!PaidVoucherIsUsed

\* What leaves a buyer's capacity towards sellers is never more than what the
\* buyer's settlements say was paid (apply_capacity_resolution is called with the
\* amounts the route wrote into the settlement).
BurnedIsPaid == part = "pair" => Pair!BurnedIsPaid

\* payment_cycle_guard: however locks, payouts and failures interleave, the
\* payments of the unfinished settlements never form a directed cycle.
AcyclicPayments == part = "cycle" => Cycle!AcyclicPayments

\* A decision rests on the required number of votes, all of assigned arbitrators,
\* whatever happens to the pool between assignment and vote.
DecidedByAssigned == part = "arbitration" => Arb!DecidedByAssigned

\* What was executed is what was decided, and stays what the settlement says: no
\* later route changes the split of an executed case.
ExecutedAsDecided == part = "arbitration" => Arb!ExecutedAsDecided

\* A settlement that was paid out or refunded keeps its split, and the split is
\* the escrow: no second payout, dispute or arbitration of the same task.
PayoutFinal == [][part = "settlement" => Sett!PayoutFinal]_settVars

\* Credits only enter through lock_usdc: every other route, whichever bucket it
\* moves them to or takes them from, keeps locked + burned + released.
CreditsConserved == [][part = "settlement" => Sett!CreditsConserved]_settVars

\* Once decided, votes and outcome never change.
DecisionFinal == [][part = "arbitration" => Arb!DecisionFinal]_settVars

\* While a nonce is remembered it buys one voucher (check_replay_nonce), also
\* when a request is sent again while the first is still being handled.
OneVoucherPerNonce == part = "keys" => Keys!OneVoucherPerNonce

\* All keys of an identity were signed for by the one wallet bound to it.
KeysShareOneWallet == part = "keys" => Keys!KeysShareOneWallet

\* What a key's vouchers of the day add up to never passes its daily limit.
KeyWithinDailyLimit == part = "spend" => Spend!KeyWithinDailyLimit

\* The spend row of a key is what its vouchers of the day add up to, so no later
\* request is measured against a smaller number.
SpendIsRecorded == part = "spend" => Spend!SpendIsRecorded

\* The credits reserved for a buyer are those of the orders that were started.
ReservedBacksOrders == part = "trade" => Trade!ReservedBacksOrders

\* A launch that commits leaves the orders of the day within the daily limit that
\* it was checked against.
DailyLimitHeld == [][part = "trade" => Trade!DailyLimitHeld]_keyVars

\* However often a launch is sent with one Idempotency-Key, one order comes of
\* it; an order that was started stays as it is.
OneOrderPerKey == part = "launch" => Launch!OneOrderPerKey

\* A replay only ever names an order of the same parties and requirement.
ReplayIsTheSameTrade == part = "launch" => Launch!ReplayIsTheSameTrade

\* The credits set aside are those of the accepted vouchers, by hand or by
\* policy, and none come or go (accept_voucher_row).
AcceptedReserves == part = "codes" => Code!AcceptedReserves

\* The events a buyer reads tell one outcome, the one the voucher has
\* (record_voucher_event in every path).
EventsTellOutcome == part = "codes" => Code!EventsTellOutcome

\* A preauthorized code never waits for a person: the request that makes it
\* leaves it accepted or rejected (create_payment_code).
PreauthIsDecided == part = "codes" => Code!PreauthIsDecided

\* No parent has more active sub-identities than the cap.
SubIdentityCap == part = "profiles" => Prof!SubIdentityCap

\* A voucher that is created or accepted names no deleted sub-identity, so that
\* someone answers for it until it is used or rejected.
OpenVoucherHasParty == part = "profiles" => Prof!OpenVoucherHasParty

\* A projection keeps the DID it is bound to.
DidIsKept == [][part = "profiles" => Prof!DidIsKept]_profVars

\* One on-chain DID is projected to one identity (project_identity_from_did, the
\* unique column), requests at the same time included.
OneIdentityPerDid == part = "dids" => Did!OneIdentityPerDid

\* However a user confirms, what his orders occupy in a day stays within the
\* daily limit he set.
DailyLimitHolds == part = "chat" => Chat!DailyLimitHolds

\* Money is only moved for a bill the user saw: at most one order is locked or
\* refused for each requirement he sent.
OneOrderPerBill == part = "chat" => Chat!OneOrderPerBill

\* The history of a task is a chain from INITIATED: two calls at once never both
\* start from the same state, and with no call open it ends in the state of the
\* task.
HistoryIsChain == part = "billing" => Bill!HistoryIsChain

\* A task only takes steps of the scenario it was opened with.
HistoryOnScenario == part = "billing" => Bill!HistoryOnScenario

\* No task is stuck before it is settled: its scenario has a next state for every
\* state it can get into.
NoDeadEnd == part = "billing" => Bill!NoDeadEnd

\* An identity never has two credentials of one type that are pending or
\* verified, whatever was revoked, rejected, bound again or has expired between.
OneActivePerType == part \in {"ledger", "ledgercrash"} => Led!OneActivePerType

\* An untouched ledger always verifies, after it was cut at its head too.
NoFalseTamperAlert == part \in {"ledger", "ledgercrash"} => Led!NoFalseTamperAlert

\* The level is the one the credentials give, also when a binding revoked, issued
\* and verified in one go.
LevelDerived == part \in {"ledger", "ledgercrash"} => Led!LevelDerived

\* A card that was just presented counts no credential whose expiry had come when
\* the card was asked for.
CardIsCurrent == part \in {"ledger", "ledgercrash"} => Led!CardIsCurrent

\* The ledger tells the status of every credential it has an entry of: the last
\* one ends where the credential is, and what follows an entry starts where it
\* ended.
LedgerTellsStatus == part = "ledger" => Led!LedgerTellsStatus

\* An identity that is bound to a Telegram user is the one the index finds for
\* that user, so no user is bound to two identities, after any binding and any
\* restart.
BoundIsFound == part = "store" => IdStore!BoundIsFound

\* Wallets and identities correspond one to one, whichever of sign-in, sub
\* identity, seed or restart came first.
WalletIsIdentity == part = "store" => IdStore!WalletIsIdentity

\* Every sub identity answers to a main one in one step, and no main identity has
\* more than two: what a bot reads through a sub is a main identity's policy.
OneLevel == part = "store" => IdStore!OneLevel

\* A code that was handed out binds once.
CodeBindsOnce == part = "store" => IdStore!CodeBindsOnce

\* A signed challenge signs in once.
NonceOnce == part = "store" => IdStore!NonceOnce

\* The rows of a task tell one run of it: their steps are 1 to n, and each call
\* started after the one before it had ended. Two submissions that read the same
\* latest row, receipts of two attempts with one number, and calls that
\* overlapped do not get in together (api/routes/receipts.py).
RowsTellOneRun ==
    /\ part = "receipts" => Rec!RowsTellOneRun
    /\ part = "retry" => Retry!RowsTellOneRun

\* Calls of the hook layer in one attempt have their own numbers, in the order in
\* which they started, however they overlap (_next_step).
NumbersFollowStarts ==
    /\ part = "receipts" => Rec!NumbersFollowStarts
    /\ part = "retry" => Retry!NumbersFollowStarts

\* A submission that ends without an exception has put the receipts it went
\* through into the table, also when another one ran beside it and when an
\* earlier answer was lost (submit_all_receipts).
DoneIsTaken ==
    /\ part = "receipts" => Rec!DoneIsTaken
    /\ part = "retry" => Retry!DoneIsTaken

\* A bundle leaves out no receipt of a wrapped call the API already has, also of
\* calls that failed and of attempts that were given up (build).
BundleCoversRows ==
    [][/\ part = "receipts" => Rec!BundleCoversRows
       /\ part = "retry" => Retry!BundleCoversRows]_recVars

\* Credits reach a seller once, for a task whose execution was attested, and in the
\* split that its buyer or its arbitrators settled; what follows from a payout (the
\* intent, the voucher, the buyer's capacity) says the same (services/settlement.py).
PaidIsEarned ==
    /\ [](/\ PaidOnlyWithReceipt /\ IntentFollowsTask /\ PaidVoucherIsUsed /\ BurnedIsPaid
          /\ AcyclicPayments /\ DecidedByAssigned /\ ExecutedAsDecided)
    /\ PayoutFinal
    /\ CreditsConserved
    /\ DecisionFinal





\* The records kept of a task or of a credential (billing history, credential
\* ledger, execution receipts) tell one run of it, without gaps or branches.
RecordsTellOneStory ==
    /\ [](/\ HistoryIsChain /\ HistoryOnScenario /\ NoDeadEnd /\ OneActivePerType
          /\ NoFalseTamperAlert /\ LevelDerived /\ CardIsCurrent /\ LedgerTellsStatus
          /\ RowsTellOneRun /\ NumbersFollowStarts /\ DoneIsTaken)
    /\ BundleCoversRows
=============================================================================
