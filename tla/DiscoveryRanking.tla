-------------------------- MODULE DiscoveryRanking --------------------------
(* How a seller is found for an intent.  Candidate cards are filtered, cut    *)
(* to the best by capability score, judged against the policy of the scene    *)
(* and sorted by the fixed priority: eligible, P1-ready, boundary complete,   *)
(* scene covered, trust tier, acceptance risk, composite score.  A discovery  *)
(* request answers with the list; a fulfilment takes its head and submits it  *)
(* to the seller gate.                                                        *)
EXTENDS Integers, Sequences, SequencesExt, FiniteSets

CONSTANTS Ids,      \* agent ids, numbers in the order of their names
          Scenes,   \* scenes asked for, of "daily", "travel", "b2b", "high"
          Kinds,    \* "merchant", "user" (identity classes), "did" (projection)
          Cut,      \* cards kept by capability score: max(3 * limit, 30)
          Limit,    \* candidates answered
          MinSettled \* min_settled_count_for_proven

BoundsAssumption == Cut \in Nat \ {0} /\ Limit \in 1..Cut

VARIABLES directory,  \* the cards of the directory, by id
          request,    \* the last request
          answer      \* its candidates, in order, and what it says of itself

vars == <<directory, request, answer>>

(* discovery-priority.v1.json, with the defaults merged in.                   *)
get_scene_priority_policy(scene) ==
    [require_p1_ready          |-> scene \in {"b2b", "high"},
     require_boundary_complete |-> scene \in {"b2b", "high"},
     require_scene_coverage    |-> scene \in {"travel", "b2b", "high"},
     allow_cold_start          |-> scene = "daily",
     high_risk                 |-> scene = "high"]

(* load_trust_stats_batch: the reputation row, and the settlements when the   *)
(* row is still cold.  Rates are kept as counts.                              *)
Records == [tasks : 0..1, settled : 0..1, disputed : 0..1]

load_trust_stats(rec) ==
    LET cold == rec.tasks = 0
    IN  [settled    |-> rec.settled,
         tasks      |-> IF cold THEN rec.settled ELSE rec.tasks,
         disputed   |-> rec.disputed,
         cold_start |-> cold /\ rec.settled = 0]

classify_trust_tier(rec) ==
    LET st == load_trust_stats(rec)
    IN  IF st.cold_start THEN 1
        ELSE IF st.settled >= MinSettled /\ st.disputed = 0 THEN 3 ELSE 2

Cards ==
    {c \in [kind : Kinds, cap : 1..2, ready : BOOLEAN, complete : BOOLEAN, covers : BOOLEAN,
            refuses : BOOLEAN, risk : 0..1, tier : 1..3] :
        /\ c.ready => c.complete
        /\ c.refuses \/ c.risk = 1 => c.cap = 1
        /\ c.tier \in {classify_trust_tier(rec) : rec \in Records}
        /\ c.kind = "did" => ~c.complete /\ ~c.covers /\ ~c.refuses}

Choice == {"default", "on", "off"}

\* A discovery request, which may say more than its scene does in one respect;
\* and the soft ranking a fulfilment asks for.
Requests ==
    {r \in [scene : Scenes, enforce : Choice, p1 : Choice, coverage : BOOLEAN, fulfil : {FALSE}] :
        r.coverage => r.p1 = "default"}
        \cup [scene : Scenes, enforce : {"off"}, p1 : {"off"}, coverage : {FALSE}, fulfil : {TRUE}]

NoAnswer == [list |-> <<>>, says_coverage |-> FALSE]

TypeOK ==
    answer.list \in UNION {[1..n -> Ids] : n \in 0..Limit} /\ answer.says_coverage \in BOOLEAN

Init ==
    /\ directory \in [Ids -> Cards]
    /\ request \in Requests
    /\ answer = NoAnswer

-----------------------------------------------------------------------------
picked(choice, default) == IF choice = "default" THEN default ELSE choice = "on"

enforced(req) ==
    LET pol == get_scene_priority_policy(req.scene)
    IN  picked(req.enforce, pol.high_risk \/ pol.require_p1_ready \/ pol.require_boundary_complete)

\* Only sellers are held to P1 here; a user's card stays in the list.  A DID
\* projection has no record to be ready with.
collected(req) ==
    LET p1 == picked(req.p1, get_scene_priority_policy(req.scene).require_p1_ready)
    IN  {i \in Ids : p1 => directory[i].ready \/ directory[i].kind = "user"}

Before(k, l) == \E n \in 1..Len(k) : k[n] < l[n] /\ \A m \in 1..(n - 1) : k[m] = l[m]

\* rank_candidates: by capability score, then by id, cut.
rank_candidates(found) ==
    LET key(i) == <<-directory[i].cap, i>>
        sorted == SetToSortSeq(found, LAMBDA i, j : Before(key(i), key(j)))
    IN  {sorted[n] : n \in 1..(IF Len(sorted) < Cut THEN Len(sorted) ELSE Cut)}

\* evaluate_candidate_priority: the hard filters.  A request that does not
\* enforce the policy turns its requirements off; a scene of high risk still
\* bars newcomers.
eligible(i, req) ==
    LET c == directory[i]
        pol == get_scene_priority_policy(req.scene)
        hard == enforced(req)
    IN  /\ ~c.refuses
        /\ hard /\ pol.require_p1_ready => c.ready
        /\ hard /\ pol.require_boundary_complete => c.complete
        /\ hard /\ pol.require_scene_coverage => c.covers
        /\ ~(~pol.allow_cold_start /\ c.tier = 1 /\ ((hard /\ pol.require_p1_ready) \/ pol.high_risk))

\* The composite score, in halves: capability, trust, readiness, coverage.
composite(c) ==
    2 * c.cap + c.tier + (IF c.ready THEN 4 ELSE -4)
              + (IF c.covers THEN 6 ELSE 0) - (IF c.complete THEN 0 ELSE 3)

yes(b) == IF b THEN 0 ELSE 1

priority_sort_key(i, req) ==
    LET c == directory[i]
    IN  <<yes(eligible(i, req)), yes(c.ready), yes(c.complete), yes(c.covers),
          -c.tier, c.risk, -composite(c), i>>

apply_priority_ranking(ranked, req) ==
    LET dropping == enforced(req)
        kept == {i \in ranked : dropping => eligible(i, req)}
        key(i) == priority_sort_key(i, req)
        sorted == SetToSortSeq(kept, LAMBDA i, j : Before(key(i), key(j)))
    IN  SubSeq(sorted, 1, IF Len(sorted) < Limit THEN Len(sorted) ELSE Limit)

\* POST /v1/discovery/intent, or the discovery step of fulfill_intent.  What a
\* request says of coverage goes into the metadata of the answer.
discover_for_intent ==
    /\ answer = NoAnswer
    /\ answer' = [list |-> apply_priority_ranking(rank_candidates(collected(request)), request),
                  says_coverage |-> \/ get_scene_priority_policy(request.scene).require_scene_coverage
                                    \/ request.coverage]
    /\ UNCHANGED <<directory, request>>

Next == discover_for_intent

Spec == Init /\ [][Next]_vars

-----------------------------------------------------------------------------
listed == {answer.list[n] : n \in 1..Len(answer.list)}

\* The seller gate of a fulfilment in production, on what the card shows.
passes_gate(i) ==
    LET c == directory[i] IN c.ready /\ c.complete /\ c.covers /\ ~c.refuses

(* Asked for as a scene's own policy has it, a procurement or high-risk scene *)
(* lists only ready, complete, covering sellers with a record who do not      *)
(* refuse it (discover_for_intent, evaluate_candidate_priority).              *)
StrictSceneIsStrict ==
    request.scene \in {"b2b", "high"} /\ request.enforce = "default" =>
        \A i \in listed : passes_gate(i) /\ directory[i].tier > 1

(* A request for P1-ready partners lists no unready seller, whatever it says  *)
(* of the scene's policy (the filter of discover_for_intent).                 *)
AskedReadyIsReady ==
    request.p1 = "on" => \A i \in listed : directory[i].ready \/ directory[i].kind = "user"

(* A fulfilment does not end at the gate while an eligible candidate would    *)
(* pass it: the head of its list passes when any eligible one does            *)
(* (priority_sort_key, assert_seller_boundary_for_fulfill).                   *)
HeadPassesGate ==
    answer # NoAnswer /\ request.fulfil
    /\ (\E i \in Ids : passes_gate(i) /\ eligible(i, request)) => passes_gate(answer.list[1])
=============================================================================
