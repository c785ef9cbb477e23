----------------------------- MODULE Reputation -----------------------------
(***************************************************************************)
(* The reputation ledger: the row every identity card opens, what a        *)
(* settlement credits to seller and buyer after the wash-trade heuristics, *)
(* slashing, packing to the chain anchor with its dividend weight, and the *)
(* scene ledger the settlement attestation writes to a JSON file.  Scores  *)
(* are in hundredths; a time step stands for the window lengths' unit.     *)
(***************************************************************************)
EXTENDS Integers, FiniteSets, FiniteSetsExt

CONSTANTS Parties,       \* agents
          MaxDeals,      \* bound on the settlements created
          MaxTime,       \* bound on the clock
          Amounts,       \* amounts of the deals
          MinAmount,     \* reputation_wash_min_amount
          PairWindow, PairMax, BurstWindow, BurstMax,
          MinScore, MinSuccesses, RehabDays, DividendMin, WashBlock,
          Delayed,       \* may a deal settle later than it was created?
          Operators,     \* are the pack, slash and non-confirm paths used?
          Seals,         \* is the attestation route called besides settling?
          Rollbacks      \* may the request's transaction fail after sealing?

BoundsAssumption == MaxDeals \in Nat /\ MaxTime \in Nat

SceneCap == 2   \* bound on the entries a seal may add
Deals == 1 .. MaxDeals
Times == 0 .. MaxTime
Never == -1

\* SettlementModel, as far as the heuristics read it.
Deal == [status : {"none", "open", "settled"}, buyer : Parties,
         seller : Parties, amount : Amounts, created : Times]

\* ReputationModel.  anchored is the score KarmaReputationAnchor holds.
Row == [score : Nat, total : Nat, successful : Nat, flags : Nat,
        disputed : Nat, incident : Times \union {Never},
        packed : Times \union {Never}, weight : Nat,
        anchored : Nat \union {Never}]

VARIABLES deal, rep, scene, now,
          credited,   \* history: the deals whose seller was credited
          incidents   \* history: the times of an agent's incidents

vars == <<deal, rep, scene, now, credited, incidents>>

TypeOK ==
    /\ deal \in [Deals -> Deal]
    /\ rep \in [Parties -> Row]
    /\ scene \in [Parties -> Nat]
    /\ now \in Times
    /\ credited \subseteq Deals
    /\ incidents \in [Parties -> SUBSET Times]

\* open_identity_ledger: every card starts its book at 100.00.
NewRow == [score |-> 10000, total |-> 0, successful |-> 0, flags |-> 0,
           disputed |-> 0, incident |-> Never, packed |-> Never,
           weight |-> 0, anchored |-> Never]

Init ==
    /\ deal = [d \in Deals |-> [status |-> "none", buyer |-> CHOOSE a \in Parties : TRUE,
                                seller |-> CHOOSE a \in Parties : TRUE,
                                amount |-> CHOOSE x \in Amounts : TRUE, created |-> 0]]
    /\ rep = [a \in Parties |-> NewRow]
    /\ scene = [a \in Parties |-> 0]
    /\ now = 0
    /\ credited = {}
    /\ incidents = [a \in Parties |-> {}]

Tick ==
    /\ now < MaxTime
    /\ Delayed \/ \A d \in Deals : deal[d].status # "open"
    /\ now' = now + 1
    /\ UNCHANGED <<deal, rep, scene, credited, incidents>>

CreateDeal ==
    \E d \in Deals, b, s \in Parties, x \in Amounts :
        /\ deal[d].status = "none"
        /\ \A e \in 1 .. (d - 1) : deal[e].status # "none"
        /\ Delayed \/ \A e \in Deals : deal[e].status # "open"
        /\ deal' = [deal EXCEPT ![d] = [status |-> "open", buyer |-> b,
                        seller |-> s, amount |-> x, created |-> now]]
        /\ UNCHANGED <<rep, scene, now, credited, incidents>>

-----------------------------------------------------------------------------
\* load_recent_edges: the settled deals of the seller, and those of the pair
\* the other way round, created within the longer window.
load_recent_edges(d) ==
    {e \in Deals \ {d} :
        /\ deal[e].status = "settled"
        /\ deal[e].created >= now - Max({PairWindow, BurstWindow})
        /\ \/ deal[e].seller = deal[d].seller
           \/ deal[e].seller = deal[d].buyer /\ deal[e].buyer = deal[d].seller}


\* The edges of the pair, and of the pair reversed, inside the pair window.
reverse_edges(d) ==
    {e \in load_recent_edges(d) :
        /\ now - deal[e].created <= PairWindow
        /\ deal[e].buyer = deal[d].seller /\ deal[e].seller = deal[d].buyer}

pair_edges(d) ==
    {e \in load_recent_edges(d) :
        /\ now - deal[e].created <= PairWindow
        /\ deal[e].buyer = deal[d].buyer /\ deal[e].seller = deal[d].seller}

pair_velocity(d) == 1 + Cardinality(pair_edges(d)) >= PairMax

burst(d) ==
    1 + Cardinality({e \in load_recent_edges(d) :
            now - deal[e].created <= BurstWindow /\ deal[e].seller = deal[d].seller})
      >= BurstMax

self_deal(d) == deal[d].buyer = deal[d].seller

dust(d) == deal[d].amount < MinAmount

\* evaluate_wash_signals as the settlement routes call it: they pass no
\* wallets, so its same_wallet signal never fires.
credit(d) ==
    ~(\/ self_deal(d) \/ dust(d) \/ reverse_edges(d) # {}
      \/ pair_velocity(d) \/ burst(d))

flags_delta(d) ==
    IF self_deal(d) THEN 2
    ELSE IF \/ reverse_edges(d) # {} \/ pair_velocity(d) \/ burst(d)
            \/ dust(d) /\ pair_edges(d) # {}
         THEN 1 ELSE 0

-----------------------------------------------------------------------------
Raised(row, points) ==
    [row EXCEPT !.score = Min({100000, @ + points}), !.total = @ + 1,
                !.successful = @ + 1]

Lowered(row, points) == [row EXCEPT !.score = Max({0, @ - points})]

Flagged(row, flags, points) ==
    [Lowered(row, points) EXCEPT !.flags = @ + flags, !.incident = now]

Capped(x) == Min({100, x})

\* record_worker_settlement_outcome of a successful deal.
record_worker_settlement_outcome(d, row) ==
    IF credit(d) THEN Raised(row, 500 + Capped(deal[d].amount) * 5)
    ELSE IF flags_delta(d) > 0
         THEN Flagged(row, flags_delta(d), 500 * flags_delta(d))
         ELSE row

\* record_buyer_settlement_outcome: nothing for a deal with oneself.
record_buyer_settlement_outcome(d, row) ==
    IF self_deal(d) THEN row
    ELSE IF credit(d) THEN Raised(row, 200 + Capped(deal[d].amount) * 2)
    ELSE IF flags_delta(d) > 0
         THEN Flagged(row, Max({1, flags_delta(d) \div 2}), 300)
         ELSE row

\* apply_settle_reputation: first the seller's row, then the buyer's.
apply_settle_reputation(d) ==
    LET s == deal[d].seller
        b == deal[d].buyer
        sold == [rep EXCEPT ![s] = record_worker_settlement_outcome(d, @)]
    IN  [sold EXCEPT ![b] = record_buyer_settlement_outcome(d, @)]

\* record_scene_reputation, called by every seal of a SETTLED outcome.
record_scene_reputation(a) == scene' = [scene EXCEPT ![a] = @ + 1]

NewIncidents(d) ==
    IF ~credit(d) /\ flags_delta(d) > 0
    THEN [a \in Parties |-> incidents[a] \union
            (IF a \in {deal[d].seller, deal[d].buyer} THEN {now} ELSE {})]
    ELSE incidents

\* buyer-accept, auto-confirm and the intent orchestrator: the deal settles,
\* both books are written, and the attestation is sealed.
settle(d) ==
    /\ deal[d].status = "open"
    /\ deal' = [deal EXCEPT ![d].status = "settled"]
    /\ rep' = apply_settle_reputation(d)
    /\ credited' = IF credit(d) THEN credited \union {d} ELSE credited
    /\ incidents' = NewIncidents(d)
    /\ record_scene_reputation(deal[d].seller)
    /\ UNCHANGED now

\* The same request when the transaction fails after the seal: the rows are
\* rolled back, the JSON file is not.
settle_rolled_back(d) ==
    /\ Rollbacks
    /\ deal[d].status = "open"
    /\ scene[deal[d].seller] < SceneCap
    /\ record_scene_reputation(deal[d].seller)
    /\ UNCHANGED <<deal, rep, now, credited, incidents>>

\* POST /attestations/seal for a deal that settled.
seal_settlement_attestation(d) ==
    /\ Seals
    /\ deal[d].status = "settled"
    /\ scene[deal[d].seller] < SceneCap
    /\ record_scene_reputation(deal[d].seller)
    /\ UNCHANGED <<deal, rep, now, credited, incidents>>

-----------------------------------------------------------------------------
\* evaluate_pack_eligibility.
clean_rehab(row) == row.incident = Never \/ now - row.incident >= RehabDays

eligible(row) ==
    /\ row.score >= MinScore
    /\ row.successful >= MinSuccesses
    /\ clean_rehab(row)
    /\ row.flags >= WashBlock => row.incident # Never

dividend_points_for_pack(score) == IF score >= DividendMin THEN score ELSE 0

\* POST /{agent}/pack, with or without the on-chain transaction; a failed
\* transaction answers 502 and changes nothing.
pack_reputation(a) ==
    \E onchain \in BOOLEAN :
        /\ Operators
        /\ eligible(rep[a])
        /\ rep[a].packed # now
        /\ rep' = [rep EXCEPT ![a].packed = now,
                        ![a].weight = @ + dividend_points_for_pack(rep[a].score),
                        ![a].anchored = IF onchain THEN rep[a].score ELSE @]
        /\ UNCHANGED <<deal, scene, now, credited, incidents>>

\* The row after POST /{agent}/slash of one kind.
Slashed(row, kind) ==
    LET r == [row EXCEPT !.incident = now] IN
    IF kind = "dispute" THEN [Lowered(r, 1500) EXCEPT !.disputed = @ + 1]
    ELSE IF kind = "wash" THEN [Lowered(r, 800) EXCEPT !.flags = @ + 1]
    ELSE Lowered(r, 800)

slash_reputation(a) ==
    \E kind \in {"dispute", "wash", "default"}, submit \in BOOLEAN :
        /\ Operators /\ now \notin incidents[a]
        /\ rep' = [rep EXCEPT ![a] =
              [Slashed(@, kind) EXCEPT !.anchored =
                 IF submit /\ rep[a].packed # Never
                 THEN Slashed(rep[a], kind).score ELSE @]]
        /\ incidents' = [incidents EXCEPT ![a] = @ \union {now}]
        /\ UNCHANGED <<deal, scene, now, credited>>

\* record_seller_non_confirm_reputation: a hit of at most 5.00.
record_seller_non_confirm_reputation(a) ==
    /\ Operators /\ now \notin incidents[a]
    /\ rep' = [rep EXCEPT ![a] = [Lowered(@, 500) EXCEPT !.incident = now]]
    /\ incidents' = [incidents EXCEPT ![a] = @ \union {now}]
    /\ UNCHANGED <<deal, scene, now, credited>>

Next ==
    \/ Tick \/ CreateDeal
    \/ \E d \in Deals : settle(d)
    \/ \E d \in Deals : settle_rolled_back(d)
    \/ \E d \in Deals : seal_settlement_attestation(d)
    \/ \E a \in Parties : pack_reputation(a)
    \/ \E a \in Parties : slash_reputation(a)
    \/ \E a \in Parties : record_seller_non_confirm_reputation(a)

Spec == Init /\ [][Next]_vars

\* get_reputation_rewards: may the agent draw dividends now?
dividend_eligible(a) ==
    /\ rep[a].packed # Never
    /\ eligible(rep[a]) /\ rep[a].score >= DividendMin

-----------------------------------------------------------------------------
\* Neither a pack nor a dividend comes within the rehabilitation time of any
\* incident of the agent, whichever book entry recorded it last.
RehabHolds ==
    \A a \in Parties : eligible(rep[a]) \/ dividend_eligible(a) =>
        \A t \in incidents[a] : now - t >= RehabDays

\* Trading back and forth earns nothing: two deals of opposite directions
\* settled within the pair window are never both credited.
NoCreditedPingPong ==
    \A d, e \in credited :
        deal[d].buyer = deal[e].seller /\ deal[d].seller = deal[e].buyer =>
            \/ deal[d].created - deal[e].created > PairWindow
            \/ deal[e].created - deal[d].created > PairWindow

\* One pair cannot farm a score: fewer than PairMax deals of a buyer with a
\* seller are credited within any pair window.
PairCreditBounded ==
    \A d \in credited :
        Cardinality({e \in credited :
            /\ deal[e].buyer = deal[d].buyer /\ deal[e].seller = deal[d].seller
            /\ deal[e].created \in deal[d].created .. (deal[d].created + PairWindow)})
          < PairMax
=============================================================================
