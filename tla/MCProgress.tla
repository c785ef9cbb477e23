------------------------------ MODULE MCProgress ------------------------------
(***************************************************************************)
(* What must happen in the end, in the components that work in the         *)
(* background, side by side as in MCPayments: a behaviour picks one part   *)
(* and runs that component alone under its own fairness.                   *)
(***************************************************************************)
EXTENDS AttestationGateway, Integers, Sequences, FiniteSets

CONSTANTS Parts,  \* the components to run, one in each behaviour
          Nil     \* nothing

VARIABLE part  \* the component that runs

-----------------------------------------------------------------------------
(* The chain worker: one settlement, one retry, one crash and one fault; for  *)
(* what must happen in the end, one of the two.                               *)

VARIABLES queue, work, bills, bindings, row, env

cwVars == <<queue, work, bills, bindings, row, env>>

Chain == INSTANCE ChainWorker WITH MaxRetries <- 1, MaxCrash <- 1, MaxFault <- 1,
    MaxVerify <- 1, None <- Nil

Faulty == INSTANCE ChainWorker WITH MaxRetries <- 1, MaxCrash <- 0, MaxFault <- 1,
    MaxVerify <- 1, None <- Nil

Crashing == INSTANCE ChainWorker WITH MaxRetries <- 1, MaxCrash <- 1, MaxFault <- 0,
    MaxVerify <- 1, None <- Nil

ASSUME ChainConstants == Chain!BoundsAssumption /\ Chain!NoneAssumption

CwInit ==
    CASE part = "faults" -> Faulty!Init
      [] part = "crashes" -> Crashing!Init
      [] OTHER -> Chain!Init

CwNext ==
    CASE part = "worker" -> Chain!Next
      [] part = "faults" -> Faulty!Next
      [] part = "crashes" -> Crashing!Next
      [] OTHER -> UNCHANGED cwVars

-----------------------------------------------------------------------------
(* The queue of scan runs: two runs and two runners, and one run that is      *)
(* claimed more than once.                                                    *)

VARIABLES sqRun, result, tx, tries, claims

sqVars == <<sqRun, result, tx, tries, claims>>

Scans == INSTANCE ScanQueue WITH Runs <- 2, Runner <- {"w1", "w2"}, None <- Nil,
    MaxAttempts <- 2, MaxClaims <- 1, AttemptBound <- 3, InFlight <- 1, run <- sqRun

OneScan == INSTANCE ScanQueue WITH Runs <- 1, Runner <- {"w1", "w2"}, None <- Nil,
    MaxAttempts <- 2, MaxClaims <- 2, AttemptBound <- 3, InFlight <- 1, run <- sqRun

ASSUME ScanConstants == Scans!MaxAttemptsAssumption

SqInit ==
    CASE part = "onescan" -> OneScan!Init
      [] OTHER -> Scans!Init

SqNext ==
    CASE part = "scans" -> Scans!Next
      [] part = "onescan" -> OneScan!Next
      [] OTHER -> UNCHANGED sqVars

-----------------------------------------------------------------------------
(* The anchoring bridge of billing: three receipts with a timer, without one, *)
(* and five leaves of the accumulator.                                        *)

VARIABLES stored, leaves, synced, triggered, receipts, task_state, last_state, last_anchor,
          anchored, tree, batch

baVars == <<stored, leaves, synced, triggered, receipts, task_state, last_state,
             last_anchor, anchored, tree, batch>>

Anchor == INSTANCE BillingAnchor WITH anchor_every_n_receipts <- 2, max_batch_size <- 2,
    anchoring_threshold <- 2, Receipt <- {"r1", "r2", "r3"}, Checker <- {"c1"},
    AnchorOnTime <- TRUE, Retries <- TRUE, MaxSyncs <- 3

Settled == INSTANCE BillingAnchor WITH anchor_every_n_receipts <- 2, max_batch_size <- 2,
    anchoring_threshold <- 2, Receipt <- {"r1", "r2", "r3"}, Checker <- {"c1"},
    AnchorOnTime <- FALSE, Retries <- TRUE, MaxSyncs <- 3

Root == INSTANCE BillingAnchor WITH anchor_every_n_receipts <- 2, max_batch_size <- 2,
    anchoring_threshold <- 2, Receipt <- {<<1>>, <<2>>, <<3>>, <<4>>, <<5>>}, Checker <- {},
    AnchorOnTime <- TRUE, Retries <- FALSE, MaxSyncs <- 5

BaInit ==
    CASE part = "settling" -> Settled!Init
      [] part = "root" -> Root!Init
      [] OTHER -> Anchor!Init

BaNext ==
    CASE part = "anchoring" -> Anchor!Next
      [] part = "settling" -> Settled!Next
      [] part = "root" -> Root!Next
      [] OTHER -> UNCHANGED baVars

-----------------------------------------------------------------------------
(* The mini app: one order, made in the app or in the chat, and the same with *)
(* restarts of the API process.                                               *)

VARIABLES ord, bill, miniRun, risk, open, opened, decided, disk, paid

miniVars == <<ord, bill, miniRun, risk, open, opened, decided, disk, paid>>

Mini == INSTANCE MiniAppCommerce WITH Orders <- {"o1"}, Paths <- {"app", "chat"},
    MaxEvidence <- 2, MaxDisputes <- 1, Holds <- TRUE, LateCalls <- FALSE, run <- miniRun

ASSUME MiniConstants == Mini!BoundAssumption

MiniInit == Mini!Init

MiniNext ==
    CASE part = "miniapp" -> Mini!Next
      [] part = "restart" -> Mini!NextRestart
      [] OTHER -> UNCHANGED miniVars

-----------------------------------------------------------------------------
(* The verifier network: two verifiers and their counters, and one challenge. *)

VARIABLES node, rows, netChallenge, clock, session

netVars == <<node, rows, netChallenge, clock, session>>

Net == INSTANCE VerifierNetwork WITH Nodes <- {"n1", "n2"}, Wallets <- {"w1", "w2"},
    Overlap <- FALSE, RulesAvailable <- TRUE, MaxRows <- 3, MaxClock <- 1, Window <- 1,
    challenge <- netChallenge

Chal == INSTANCE VerifierNetwork WITH Nodes <- {"n1"}, Wallets <- {"w1", "w2"},
    Overlap <- FALSE, RulesAvailable <- FALSE, MaxRows <- 1, MaxClock <- 3, Window <- 1,
    challenge <- netChallenge

ASSUME NetworkConstants == Net!NetworkAssumption /\ Chal!NetworkAssumption

NetInit ==
    CASE part = "challenge" -> Chal!Init
      [] OTHER -> Net!Init

NetNext ==
    CASE part = "network" -> Net!Next
      [] part = "challenge" -> Chal!Next
      [] OTHER -> UNCHANGED netVars

-----------------------------------------------------------------------------
(* The attestation gateway on chain: two verifiers and the window of one      *)
(* task; two tasks of which one has the binding; stakes and rewards.          *)

gwVars == <<verifiers, verifierList, authorized, threshold, total, config, pool, evidence,
             challengeEnd, duration, challenge, submitted, valid, failed, now, raisedAt,
             settledAt>>

\* The binding of the task, and one signature of two or both.
GatewayBinding == [b \in {"b1"} |-> "t1"]
GatewayThresholds == {<<1, 2>>, <<2, 2>>}

Cross == INSTANCE AttestationGateway WITH Tasks <- {"t1", "t2"}, Bindings <- {"b1"},
    Verifiers <- {"v1", "v2"}, bindingTaskId <- [b \in {"b1"} |-> "t1"],
    Thresholds <- {<<1, 2>>}, Windows <- {0}, MinWindow <- 1, Configs <- {}, Stakes <- {0},
    MaxStake <- 0, MaxPool <- 0, MaxListed <- 1, MaxTime <- 0, Zero <- Nil

Stake == INSTANCE AttestationGateway WITH Tasks <- {"t1", "t2"}, Bindings <- {"b1"},
    Verifiers <- {"v1"}, bindingTaskId <- [b \in {"b1"} |-> "t1"], Thresholds <- {<<1, 2>>},
    Windows <- {0, 1}, MinWindow <- 1,
    Configs <- {[token |-> TRUE, min |-> 1, reward |-> 1]}, Stakes <- {1}, MaxStake <- 2,
    MaxPool <- 2, MaxListed <- 1, MaxTime <- 0, Zero <- Nil

GwInit ==
    CASE part = "othertask" -> Cross!Init
      [] part = "staking" -> Stake!Init
      [] OTHER -> Init

GwNext ==
    CASE part = "gateway" -> Next
      [] part = "othertask" -> Cross!Next
      [] part = "staking" -> Stake!Next
      [] OTHER -> UNCHANGED gwVars

-----------------------------------------------------------------------------
mcVars == <<part, cwVars, sqVars, baVars, miniVars, netVars, gwVars>>

MCInit ==
    /\ part \in Parts
    /\ CwInit /\ SqInit /\ BaInit /\ MiniInit /\ NetInit /\ GwInit

MCNext ==
    /\ UNCHANGED part
    /\ CwNext /\ SqNext /\ BaNext /\ MiniNext /\ NetNext /\ GwNext

\* Each component's own fairness, on its own variables, while it runs.
Fairness ==
    /\ WF_cwVars(part = "faults"
                 /\ ((\E j \in queue : Faulty!start(j)) \/ Faulty!workerStep \/ Faulty!raises))
    /\ WF_cwVars(part = "crashes"
                 /\ ((\E j \in queue : Crashing!start(j)) \/ Crashing!workerStep \/ Crashing!raises))
    /\ SF_sqVars(part = "onescan" /\ OneScan!run_scan_queue_maintenance_tick)
    /\ SF_sqVars(part = "onescan" /\ OneScan!sweep_dead_letter_scan_runs)
    /\ WF_sqVars(part = "onescan" /\ OneScan!lease_expires(1))
    /\ WF_sqVars(part = "onescan" /\ OneScan!retry_window_opens(1))
    /\ \A w \in {"w1", "w2"} :
           WF_sqVars(part = "onescan"
                     /\ (OneScan!claim_commit(w) \/ OneScan!execute_scan_run(w)
                           \/ OneScan!execution_failed(w) \/ OneScan!crash(w)))
    /\ WF_baVars(part = "settling" /\ Settled!check_and_anchor("c1"))
    /\ SF_baVars(part = "settling" /\ Settled!do_anchor("c1"))
    /\ WF_miniVars(part = "miniapp" /\ Mini!Age("o1"))
    /\ WF_miniVars(part = "miniapp" /\ Mini!sweep_timed_out_escrows("o1"))
    /\ WF_netVars(part = "challenge" /\ Chal!Tick)
    /\ WF_netVars(part = "challenge" /\ Chal!check_challenge_expiry)
    /\ WF_netVars(part = "challenge" /\ Chal!commit_resolution)
    /\ WF_netVars(part = "challenge" /\ Chal!commit_attestation)
    /\ WF_netVars(part = "challenge" /\ Chal!commit_expiry)

MCSpec == MCInit /\ [][MCNext]_mcVars /\ Fairness

-----------------------------------------------------------------------------
\* Every part keeps its types.
ProgressTypeOK ==
    /\ part = "worker" => Chain!TypeOK
    /\ part = "scans" => Scans!TypeOK
    /\ part = "anchoring" => Anchor!TypeOK
    /\ part = "miniapp" => Mini!TypeOK
    /\ part = "network" => Net!TypeOK
    /\ part = "gateway" => TypeOK

\* However often jobs are redelivered and retried, a bill backs at most one
\* binding, and a binding has one bill of each side.
BillsBackOneBinding == part = "worker" => Chain!BillsBackOneBinding

\* The label "refunded" or "disputed" with a binding was earned: the binding was
\* refunded or disputed on chain.
LabelIsEarned == part = "worker" => Chain!LabelIsEarned

\* A claimed run has an owner and a lease, and no other run has a lease, so that
\* none is lost with the runner that claimed it.
ClaimsCanBeRecovered ==
    /\ part = "scans" => Scans!ClaimsCanBeRecovered
    /\ part = "onescan" => OneScan!ClaimsCanBeRecovered

\* A run that waits for a runner has an attempt left; otherwise executing it
\* would go past retry_max_attempts.
QueuedRunsHaveAttemptsLeft ==
    /\ part = "scans" => Scans!QueuedRunsHaveAttemptsLeft
    /\ part = "onescan" => OneScan!QueuedRunsHaveAttemptsLeft

\* The findings stored for a completed run are those of one execution.
CompletedHasOneResult ==
    /\ part = "scans" => Scans!CompletedHasOneResult
    /\ part = "onescan" => OneScan!CompletedHasOneResult

\* A cancelled run stays cancelled and a completed run stays completed.
TerminalStays ==
    [][/\ part = "scans" => Scans!TerminalStays
       /\ part = "onescan" => OneScan!TerminalStays]_sqVars

\* A receipt is on the chain at most once.
AnchoredOnce == part = "anchoring" => Anchor!AnchoredOnce

\* Appending a receipt to the accumulator changes its root, as long as no receipt
\* is appended twice: a root stands for one sequence of receipts.
RootTellsLeaves == [][part = "root" => Root!RootTellsLeaves]_baVars

\* The escrow of an order is released to one side only.
PaidOnce == part \in {"miniapp", "restart"} => Mini!PaidOnce

\* What was settled had passed on the evidence the order holds, not on an earlier
\* bundle.
SettledEvidencePassed == part = "miniapp" => Mini!SettledEvidencePassed

\* The bill of a finished order says how it finished.
BillFollowsOrder == part = "miniapp" => Mini!BillFollowsOrder

\* Money goes to the seller only when every dispute of the order is decided.
NoSettleUnderDispute == [][part = "miniapp" => Mini!NoSettleUnderDispute]_miniVars

\* A verifier's counters are the number of its attestations and of the successful
\* ones, however route and worker take turns.
CountersMatchRows == part = "network" => Net!CountersMatchRows

\* A reputation is earned by successful attestations and stays within its scale
\* however often it is recalculated.
ReputationEarned == part = "network" => Net!ReputationEarned

\* A wallet is one verifier: it gives its vote once.
OneVerifierPerWallet == part = "network" => Net!OneVerifierPerWallet

\* What an arbiter resolved is not expired afterwards.
ResolutionStands == [][part = "challenge" => Chal!ResolutionStands]_netVars

\* A verifier earns for STRUCT_OK only, and at most one reward for each.
EarnedByStakers == part = "staking" => Stake!EarnedByOk

\* Every job ends: it succeeds or uses up its retries.
JobsEnd ==
    /\ part = "faults" => Faulty!JobsEnd
    /\ part = "crashes" => Crashing!JobsEnd

\* A queued run is executed, cancelled or given up in the end.
QueuedRunsEnd == part = "onescan" => OneScan!QueuedRunsEnd

\* Everything known when a task is settled for good is anchored.
SettledIsAnchored == part = "settling" => Settled!SettledIsAnchored

\* Locked money does not stay with an order nobody pushes on: it is verified,
\* refunded or under dispute sooner or later.
EscrowDrains == part = "miniapp" => Mini!EscrowDrains

\* Every challenge is answered: resolved, dismissed or expired.
ChallengeEnds == part = "challenge" => Chal!ChallengeEnds



\* Work that was taken up ends: jobs of the chain worker, queued scans, settled
\* receipts without an anchor, held escrows, and open challenges.
EverythingEnds ==
    /\ JobsEnd
    /\ QueuedRunsEnd
    /\ SettledIsAnchored
    /\ EscrowDrains
    /\ ChallengeEnds
=============================================================================
