------------------------------- MODULE MCTrust -------------------------------
(***************************************************************************)
(* The components that decide whom and what to trust, side by side, as in  *)
(* MCPayments: a behaviour picks one part and runs that component alone.   *)
(* Where a component has many initial states its variables are Nil while   *)
(* another part runs.                                                      *)
(***************************************************************************)
EXTENDS SecurityPolicy, ImportantFields, Integers, Sequences, FiniteSets

CONSTANTS Parts,  \* the components to run, one in each behaviour
          Nil     \* nothing

VARIABLE part  \* the component that runs

-----------------------------------------------------------------------------
(* The agent directory: one process with commits that fail, production with   *)
(* two owners, and two processes with their own copy of the files.        *)

VARIABLES row, risk, dirDisk, cache

dirVars == <<row, risk, dirDisk, cache>>

Dir == INSTANCE AgentDirectory WITH Agents <- {"a1"}, Owners <- {"o1"},
    Industries <- {"i1"}, Procs <- {"p1"}, Roles <- {"worker", "client"}, Prod <- FALSE,
    disk <- dirDisk

DirProd == INSTANCE AgentDirectory WITH Agents <- {"a1"}, Owners <- {"o1", "o2"},
    Industries <- {"i1"}, Procs <- {"p1"}, Roles <- {"worker", "client"}, Prod <- TRUE,
    disk <- dirDisk

DirProcs == INSTANCE AgentDirectory WITH Agents <- {"a1"}, Owners <- {"o1"},
    Industries <- {"i1"}, Procs <- {"p1", "p2"}, Roles <- {"worker"}, Prod <- TRUE,
    disk <- dirDisk

DirInit ==
    CASE part = "production" -> DirProd!Init
      [] part = "processes" -> DirProcs!Init
      [] OTHER -> Dir!Init

DirNext ==
    CASE part = "directory" -> Dir!NextRollback
      [] part = "production" -> DirProd!Next
      [] part = "processes" -> DirProcs!Next
      [] OTHER -> UNCHANGED dirVars

-----------------------------------------------------------------------------
(* Discovery: every directory of two sellers, and of one card of each kind.   *)

VARIABLES directory, rankRequest, rankAnswer

rankVars == <<directory, rankRequest, rankAnswer>>

Rank == INSTANCE DiscoveryRanking WITH Ids <- {1, 2}, Scenes <- {"b2b"},
    Kinds <- {"merchant"}, Cut <- 2, Limit <- 1, MinSettled <- 1, request <- rankRequest,
    answer <- rankAnswer

RankKinds == INSTANCE DiscoveryRanking WITH Ids <- {1},
    Scenes <- {"daily", "travel", "b2b", "high"}, Kinds <- {"merchant", "user", "did"},
    Cut <- 1, Limit <- 1, MinSettled <- 1, request <- rankRequest, answer <- rankAnswer

ASSUME RankConstants == Rank!BoundsAssumption

RankInit ==
    CASE part = "ranking" -> Rank!Init
      [] part = "kinds" -> RankKinds!Init
      [] OTHER -> directory = Nil /\ rankRequest = Nil /\ rankAnswer = Nil

RankNext ==
    CASE part = "ranking" -> Rank!Next
      [] part = "kinds" -> RankKinds!Next
      [] OTHER -> UNCHANGED rankVars

-----------------------------------------------------------------------------
(* Reputation: one deal with the operators' paths, three deals with the       *)
(* attestation route and transactions that fail.                              *)

VARIABLES deal, rep, repScene, repNow, credited, incidents

repVars == <<deal, rep, repScene, repNow, credited, incidents>>

Rep == INSTANCE Reputation WITH Parties <- {"ann", "ben"}, MaxDeals <- 1, MaxTime <- 1,
    Amounts <- {0, 20}, MinAmount <- 1, PairWindow <- 1, PairMax <- 2, BurstWindow <- 0,
    BurstMax <- 3, MinScore <- 9500, MinSuccesses <- 1, RehabDays <- 1,
    DividendMin <- 10600, WashBlock <- 1, Delayed <- FALSE, Operators <- TRUE,
    Seals <- FALSE, Rollbacks <- FALSE, scene <- repScene, now <- repNow

Wash == INSTANCE Reputation WITH Parties <- {"ann", "ben"}, MaxDeals <- 3, MaxTime <- 2,
    Amounts <- {0, 20}, MinAmount <- 1, PairWindow <- 1, PairMax <- 2, BurstWindow <- 0,
    BurstMax <- 3, MinScore <- 10500, MinSuccesses <- 1, RehabDays <- 2,
    DividendMin <- 10600, WashBlock <- 1, Delayed <- FALSE, Operators <- FALSE,
    Seals <- TRUE, Rollbacks <- TRUE, scene <- repScene, now <- repNow

ASSUME ReputationConstants == Rep!BoundsAssumption

RepInit ==
    CASE part = "wash" -> Wash!Init
      [] OTHER -> Rep!Init

RepNext ==
    CASE part = "reputation" -> Rep!Next
      [] part = "wash" -> Wash!Next
      [] OTHER -> UNCHANGED repVars

-----------------------------------------------------------------------------
(* Settlement attestations of two tasks, one process.                         *)

VARIABLES attScene, session, task, attDisk, mem, loaded, nextId, sealed

attVars == <<attScene, session, task, attDisk, mem, loaded, nextId, sealed>>

Att == INSTANCE SettleAttestation WITH Procs <- {"p1"}, Tasks <- {"t1", "t2"},
    Scenes <- {"food", "hotel", "api", "finance"}, MaxSeals <- 3, scene <- attScene,
    disk <- attDisk

ASSUME AttestationConstants == Att!SealsAssumption

AttInit ==
    CASE part = "attestation" -> Att!Init
      [] OTHER -> attScene = Nil /\ session = Nil /\ task = Nil /\ attDisk = Nil /\ mem = Nil /\ loaded = Nil /\ nextId = Nil /\ sealed = Nil

AttNext ==
    CASE part = "attestation" -> Att!Next
      [] OTHER -> UNCHANGED attVars

-----------------------------------------------------------------------------
(* The policy centre: two versions, one change request, three reviewers.      *)

polVars == <<policy, request, review, clock>>

PolInit == Init

PolNext ==
    CASE part = "policies" -> Next
      [] OTHER -> UNCHANGED polVars

-----------------------------------------------------------------------------
(* Security alerts: transitions that trip the brakes, and operations events   *)
(* with a threshold of a path's own.                                          *)

VARIABLES alertEvents, lastEmitted, snapshots, paused, freezeUntil, released, pages, report,
          alertNow

alertVars == <<alertEvents, lastEmitted, snapshots, paused, freezeUntil, released, pages,
                report, alertNow>>

Brake == INSTANCE SecurityAlerts WITH Paths <- {"verify"},
    GroupOf <- [p \in {"verify"} |-> "v1"], MaxEvents <- 2, MaxSnapshots <- 1, Window <- 1,
    FailedAuth <- 2, RateLimit <- 2, RuntimeErrors <- 1, RuntimeRate <- 6, RuntimeMin <- 1,
    Denied <- 1, DeniedRate <- 3, DeniedMin <- 2, DriftTimes <- 2, MinSamples <- 1,
    Scale <- 6, FreezeDuration <- 1, Cooldown <- 2, BrakeFlags <- {TRUE}, MaxTime <- 1,
    Kinds <- {"transition", "transition_denied"}, FundsWindow <- 3, BaselineWindow <- 3,
    CaptureInterval <- 4, Privileged <- 3, Override <- [s \in {} |-> 0], Operator <- TRUE,
    events <- alertEvents, now <- alertNow

Ops == INSTANCE SecurityAlerts WITH Paths <- {"verify"},
    GroupOf <- [p \in {"verify"} |-> "v1"], MaxEvents <- 2, MaxSnapshots <- 1, Window <- 1,
    FailedAuth <- 2, RateLimit <- 2, RuntimeErrors <- 1, RuntimeRate <- 6, RuntimeMin <- 1,
    Denied <- 1, DeniedRate <- 3, DeniedMin <- 2, DriftTimes <- 2, MinSamples <- 1,
    Scale <- 6, FreezeDuration <- 1, Cooldown <- 2, BrakeFlags <- {TRUE}, MaxTime <- 2,
    Kinds <- {"failed_auth", "arbitrator"}, FundsWindow <- 2, BaselineWindow <- 2,
    CaptureInterval <- 1, Privileged <- 2, Override <- [s \in {<<"path", "verify">>} |-> 1],
    Operator <- FALSE, events <- alertEvents, now <- alertNow

AlertInit ==
    CASE part = "operations" -> Ops!Init
      [] OTHER -> Brake!Init

AlertNext ==
    CASE part = "brake" -> Brake!Next
      [] part = "operations" -> Ops!Next
      [] OTHER -> UNCHANGED alertVars

-----------------------------------------------------------------------------
(* Delivery verification: one session of four scenes, and two  sessions with a *)
(* sweep of one.                                                              *)

VARIABLES delSessions, gate

delVars == <<delSessions, gate>>

Del == INSTANCE DeliveryVerification WITH Task <- {"t1"},
    Scene <- {"logistics_delivery", "software_development", "healthcare_medical", "b2b_procurement"},
    Limit <- 1, MaxSession <- 1,
    Proof <- {"delivery_photo_tagged", "recipient_ack", "goods_receipt", "deliverable_hash", "if_fields"},
    sessions <- delSessions

Gate == INSTANCE DeliveryVerification WITH Task <- {"t1", "t2"},
    Scene <- {"logistics_delivery"}, Limit <- 1, MaxSession <- 2,
    Proof <- {"delivery_photo_or_code"}, sessions <- delSessions

ASSUME DeliveryConstants == Del!SceneAssumption

DelInit ==
    CASE part = "sweep" -> Gate!Init
      [] OTHER -> Del!Init

DelNext ==
    CASE part = "delivery" -> Del!Next
      [] part = "sweep" -> Gate!Next
      [] OTHER -> UNCHANGED delVars

-----------------------------------------------------------------------------
(* Important fields: a capture with none, one or both of its parties named.   *)

fldVars == <<party, status, attempts, used, submit, accepted, late>>

FldInit ==
    CASE part = "fields" -> FieldsInit
      [] OTHER -> FieldsInit /\ party = [r \in Role |-> NoAgent]

FldNext ==
    CASE part = "fields" -> FieldsNext
      [] OTHER -> UNCHANGED fldVars

-----------------------------------------------------------------------------
(* Intents: procurement with policies that accept, food with sessions made by *)
(* hand.                                                                      *)

VARIABLES intSessions, intEvents, count, hits, deals, intAnswer

intVars == <<intSessions, intEvents, count, hits, deals, intAnswer>>

B2B == INSTANCE IntentFulfillment WITH
    Intents <- {[scene |-> "b2b_procurement", amount |-> 1]}, Auto <- {"buyer", "seller"},
    ByHand <- FALSE, Demo <- FALSE, MaxSession <- 3, MaxDeal <- 1, MaxHits <- 2,
    Threshold <- 1, sessions <- intSessions, events <- intEvents, answer <- intAnswer

Food == INSTANCE IntentFulfillment WITH
    Intents <- {[scene |-> "food_delivery", amount |-> 1]}, Auto <- {}, ByHand <- TRUE,
    Demo <- TRUE, MaxSession <- 2, MaxDeal <- 1, MaxHits <- 1, Threshold <- 1,
    sessions <- intSessions, events <- intEvents, answer <- intAnswer

ASSUME IntentConstants == B2B!IntentsAssumption /\ Food!IntentsAssumption

IntInit ==
    CASE part = "food" -> Food!Init
      [] OTHER -> B2B!Init

IntNext ==
    CASE part = "procurement" -> B2B!Next
      [] part = "food" -> Food!Next
      [] OTHER -> UNCHANGED intVars

-----------------------------------------------------------------------------
(* The quorum: three verifiers of whom two suffice, the challenge window with *)
(* one, and a registry with an inactive verifier.                             *)

VARIABLES sound, pub, inbox, quorum, window, quoClock, ready, quoPlan

quoVars == <<sound, pub, inbox, quorum, window, quoClock, ready, quoPlan>>

Quo == INSTANCE AttestationQuorum WITH Verifiers <- {"v1", "v2"}, Registry <- {},
    Inactive <- {}, HasMinio <- FALSE, HasSigner <- FALSE, Duration <- 1,
    TaskTypes <- {"api"}, MaxClock <- 0, MaxArrivals <- 3, Threshold <- 2,
    clock <- quoClock, plan <- quoPlan

Win == INSTANCE AttestationQuorum WITH Verifiers <- {"v1"}, Registry <- {}, Inactive <- {},
    HasMinio <- TRUE, HasSigner <- TRUE, Duration <- 2, TaskTypes <- {"api"}, MaxClock <- 4,
    MaxArrivals <- 1, Threshold <- 1, clock <- quoClock, plan <- quoPlan

Reg == INSTANCE AttestationQuorum WITH Verifiers <- {"v1", "v2"}, Registry <- {"v1", "v2"},
    Inactive <- {"v2"}, HasMinio <- FALSE, HasSigner <- FALSE, Duration <- 1,
    TaskTypes <- {"api"}, MaxClock <- 0, MaxArrivals <- 2, Threshold <- 2,
    clock <- quoClock, plan <- quoPlan

ASSUME QuorumConstants == Quo!ThresholdAssumption /\ Win!ThresholdAssumption /\ Reg!ThresholdAssumption

QuoInit ==
    CASE part = "quorum" -> Quo!Init
      [] part = "window" -> Win!Init
      [] part = "registry" -> Reg!Init
      [] OTHER -> sound = Nil /\ pub = Nil /\ inbox = Nil /\ quorum = Nil /\ window = Nil /\ quoClock = Nil /\ ready = Nil /\ quoPlan = Nil

QuoNext ==
    CASE part = "quorum" -> Quo!Next
      [] part = "window" -> Win!Next
      [] part = "registry" -> Reg!Next
      [] OTHER -> UNCHANGED quoVars

-----------------------------------------------------------------------------
(* Receipt chains: two receipts with every fault, three with the agent's own. *)

VARIABLES written, store, bundle, verified, eviPlan

eviVars == <<written, store, bundle, verified, eviPlan>>

Evi == INSTANCE EvidenceChain WITH MaxReceipts <- 2,
    Faults <- {"none", "gap", "early", "same_time", "no_trace", "other_trace", "no_output", "bad_output", "forged_chain", "timeout", "malformed", "replay", "other_task"},
    TaskTrace <- TRUE, plan <- eviPlan

Stress == INSTANCE EvidenceChain WITH MaxReceipts <- 3,
    Faults <- {"none", "forged_chain", "replay"}, TaskTrace <- FALSE, plan <- eviPlan

ASSUME ChainConstants == Evi!ChainAssumption /\ Stress!ChainAssumption

EviInit ==
    CASE part = "stress" -> Stress!Init
      [] OTHER -> Evi!Init

EviNext ==
    CASE part = "chain" -> Evi!Next
      [] part = "stress" -> Stress!Next
      [] OTHER -> UNCHANGED eviVars

-----------------------------------------------------------------------------
(* The responsibility graph: delegations between three identities and two     *)
(* scans, and the order of one identity's events.                             *)

VARIABLES edges, signals, tx, scan, scans, graClock

graVars == <<edges, signals, tx, scan, scans, graClock>>

Gra == INSTANCE ResponsibilityGraph WITH max_hops <- 3, min_score_threshold <- 100,
    burst_seconds <- 1, MaxClock <- 4, InFlight <- 1, Identity <- {"a", "b", "c"},
    EdgeType <- {"task_delegation"}, Tag <- {1}, MaxScans <- 2, clock <- graClock

Ord == INSTANCE ResponsibilityGraph WITH max_hops <- 3, min_score_threshold <- 100,
    burst_seconds <- 1, MaxClock <- 4, InFlight <- 1, Identity <- {"a"},
    EdgeType <- {"voucher_accept", "task_delegation", "manual_link"}, Tag <- {1, 2, 3},
    MaxScans <- 0, clock <- graClock

ASSUME GraphConstants == Gra!EdgeTypeAssumption

GraInit ==
    CASE part = "order" -> Ord!Init
      [] OTHER -> Gra!Init

GraNext ==
    CASE part = "graph" -> Gra!Next
      [] part = "order" -> Ord!Next
      [] OTHER -> UNCHANGED graVars

-----------------------------------------------------------------------------
mcVars == <<part, dirVars, rankVars, repVars, attVars, polVars, alertVars, delVars, fldVars,
            intVars, quoVars, eviVars, graVars>>

MCInit ==
    /\ part \in Parts
    /\ DirInit /\ RankInit /\ RepInit /\ AttInit /\ PolInit /\ AlertInit /\ DelInit
    /\ FldInit /\ IntInit /\ QuoInit /\ EviInit /\ GraInit

MCNext ==
    /\ UNCHANGED part
    /\ DirNext /\ RankNext /\ RepNext /\ AttNext /\ PolNext /\ AlertNext /\ DelNext
    /\ FldNext /\ IntNext /\ QuoNext /\ EviNext /\ GraNext

MCSpec == MCInit /\ [][MCNext]_mcVars

-----------------------------------------------------------------------------
\* Every part keeps its types.
TrustTypeOK ==
    /\ part = "directory" => Dir!TypeOK
    /\ part = "ranking" => Rank!TypeOK
    /\ part = "reputation" => Rep!TypeOK
    /\ part = "attestation" => Att!TypeOK
    /\ part = "policies" => TypeOK
    /\ part = "brake" => Brake!TypeOK
    /\ part = "delivery" => Del!TypeOK
    /\ part = "fields" => FieldsTypeOK
    /\ part = "procurement" => B2B!TypeOK
    /\ part = "quorum" => Quo!TypeOK
    /\ part = "chain" => Evi!TypeOK
    /\ part = "graph" => Gra!TypeOK

\* A counterparty who is told that a ready seller's boundary is in order for a
\* scene is not refused by the gate of the order (verify_agent_boundary,
\* assert_seller_boundary_for_fulfill).
VerifiedIsAccepted ==
    /\ part = "directory" => Dir!VerifiedIsAccepted
    /\ part = "production" => DirProd!VerifiedIsAccepted

\* A ready row names the boundary its owner acknowledged, complete and in the
\* owner's name, whatever was refused, rolled back or upserted in between
\* (connect_agent, evaluate_p1_readiness).
ReadyIsAcked ==
    /\ part = "directory" => Dir!ReadyIsAcked
    /\ part = "production" => DirProd!ReadyIsAcked
    /\ part = "processes" => DirProcs!ReadyIsAcked

\* An owned agent id keeps its owner (the anti-hijack check of connect_agent,
\* which the demo merchants' upsert is exempt from).
OwnerKept == [][part = "production" => DirProd!OwnerKept]_dirVars

\* Asked for as a scene's own policy has it, a procurement or high-risk scene
\* lists only ready, complete, covering sellers with a record who do not refuse
\* it (discover_for_intent, evaluate_candidate_priority).
StrictSceneIsStrict == part = "ranking" => Rank!StrictSceneIsStrict

\* A fulfilment does not end at the gate while an eligible candidate would pass
\* it: the head of its list passes when any eligible one does (priority_sort_key,
\* assert_seller_boundary_for_fulfill).
HeadPassesGate == part = "ranking" => Rank!HeadPassesGate

\* A request for P1-ready partners lists no unready seller, whatever it says of
\* the scene's policy (the filter of discover_for_intent).
AskedReadyIsReady == part = "kinds" => RankKinds!AskedReadyIsReady

\* Neither a pack nor a dividend comes within the rehabilitation time of any
\* incident of the agent, whichever book entry recorded it last.
RehabHolds == part = "reputation" => Rep!RehabHolds

\* Trading back and forth earns nothing: two deals of opposite directions settled
\* within the pair window are never both credited.
NoCreditedPingPong == part = "wash" => Wash!NoCreditedPingPong

\* One pair cannot farm a score: fewer than PairMax deals of a buyer with a
\* seller are credited within any pair window.
PairCreditBounded == part = "wash" => Wash!PairCreditBounded

\* Anyone can verify the commitment of a settlement whose seal was answered,
\* whichever process is asked and whatever was restarted since.
SealedVerifiable == part = "attestation" => Att!SealedVerifiable

\* The attestation found for a task is the last one sealed for that task.
TaskIndexIsLatest == part = "attestation" => Att!TaskIndexIsLatest

\* Where the decision lets the agent confirm, the gate checklist agrees, for the
\* same task at the same moment.
DecisionMeetsGate == part = "attestation" => Att!DecisionMeetsGate

\* Nobody is alerted twice for one thing: two emissions of an alert type for the
\* same scope are at least a cooldown apart.
EmissionsSpaced ==
    /\ part = "brake" => Brake!EmissionsSpaced
    /\ part = "operations" => Ops!EmissionsSpaced

\* The cooldown never costs a brake: after a poll that sees a critical rate of
\* denied settlement transitions, everything is paused, or an operator changed
\* the brakes since the last automatic one.
CriticalPollBrakes == [][part = "brake" => Brake!CriticalPollBrakes]_alertVars

\* However the reports came in, and however often: what is VERIFIED was delivered
\* with the proofs of its scene, and its buyer agreed, let the window pass after
\* the delivery, or had left the decision to a receipt.
VerifiedIsProved == part = "delivery" => Del!VerifiedIsProved

\* A buyer's silence counts only when the whole chain was reported, photo
\* included.
SilenceNeedsChain == part = "delivery" => Del!SilenceNeedsChain

\* The gate never refuses a task whose buyer's window has passed with the chain
\* complete.
GateSweepsFirst == part = "sweep" => Gate!GateSweepsFirst

\* A parcel that was refused as the wrong item is never delivered.
WrongItemIsFinal == [][part = "delivery" => Del!WrongItemIsFinal]_delVars

\* fulfill_intent: behind every deal there is, for each step of the buyer and for
\* the seller where the scene or the seller's record asks for it, a session whose
\* owner said yes and which was consumed.
DealsHadYes ==
    /\ part = "procurement" => B2B!DealsHadYes
    /\ part = "food" => Food!DealsHadYes

\* record_seller_non_confirm: whoever notices that a seller did not confirm, and
\* however often, one session counts once, and a session that was accepted is
\* never also counted as refused or timed out.
CountedOnce == part = "procurement" => B2B!CountedOnce

\* seller_requires_forced_confirm: a deal made by a seller at or over the
\* threshold had the Yes of the seller's owner, also in a scene that normally
\* accepts by itself.
ForcedSellersAreAsked == [][part = "food" => Food!ForcedSellersAreAsked]_intVars

\* fulfill_intent consumes the buyer's last Yes only after the important fields
\* matched: an attempt that stops there leaves it for the next one.
YesSurvivesFieldGate == [][part = "procurement" => B2B!YesSurvivesFieldGate]_intVars

\* A quorum that is reached stands on Threshold different verifiers, active where
\* a registry is configured, each of which signed an attestation of the quorum's
\* evidence (aggregator.collect).
QuorumSound ==
    /\ part = "quorum" => Quo!QuorumSound
    /\ part = "registry" => Reg!QuorumSound

\* The verdict over the published bundle is the one its rules give, whatever was
\* fetched or sent twice: nodes that saw other content are not mixed in (collect,
\* _compute_verdict and KarmaVerifierNode.verify together).
VerdictMatchesEvidence == part = "quorum" => Quo!VerdictMatchesEvidence

\* A plan with a payout is only built after the end of a window in which nobody
\* challenged (build_attested_plan over ChallengeWindowManager).
PlanAfterQuietWindow == part = "window" => Win!PlanAfterQuietWindow

\* check_settlement_ready and build_attested_plan agree: once a task is said to
\* be ready, neither quorum nor window blocks its plan.
ReadyIsPlannable == part = "window" => Win!ReadyIsPlannable

\* More attestations never take a quorum away that an earlier collection found:
\* what arrived first fixes the canonical hash (aggregator.collect).
QuorumKept == [][part = "quorum" => Quo!QuorumKept]_quoVars

\* A bundle a verifier node accepts, given every stored receipt, is a trace:
\* exactly the stored receipts of this task, one per step from zero on, in the
\* order of their steps and times, each with a result hash.
AcceptedIsTrace == part = "chain" => Evi!AcceptedIsTrace

\* The harness's detectors and the reload diagnostics agree: a chain the harness
\* calls clean, once all of it is stored, has no gap to report.
CleanChainHasNoGaps == part = "stress" => Stress!CleanChainHasNoGaps

\* When the check answers, leaving out a stored receipt of the task fails it.
CheckCoversStore == [][part = "chain" => Evi!CheckCoversStore]_eviVars

\* Every closed path of distinct identities has a cycle signal on one of its
\* edges, whatever the order the edges came in.
CyclesAreSignalled == part = "graph" => Gra!CyclesAreSignalled

\* A finished scan has flagged every identity that it scanned and that lies on a
\* closed path of at most max_hops edges.
ScanFlagsCycles == part = "graph" => Gra!ScanFlagsCycles

\* A chain of incremental scans leaves out nobody: who had an edge when the last
\* scan started was scanned by it or by one before it.
EveryoneScanned == part = "graph" => Gra!EveryoneScanned

\* An edge is reported as out of order exactly when an edge of a later stage came
\* before it, so that a consistent task starts with its anchor.
OrderReportIsExact == part = "order" => Ord!OrderReportIsExact

\* What the directory says of an agent is what its owner accepted and proved, and
\* what discovery puts first is one the directory vouches for, at the strictness
\* of the scene.
DirectoryIsTrue ==
    /\ [](/\ VerifiedIsAccepted /\ ReadyIsAcked /\ StrictSceneIsStrict /\ HeadPassesGate
          /\ AskedReadyIsReady)
    /\ OwnerKept





=============================================================================
