----------------------------- MODULE Arbitration -----------------------------
(***************************************************************************)
(* The arbitration pool of api/routes/arbitration.py on top of the         *)
(* settlement routes: members join, a disputed settlement gets a case,     *)
(* members are assigned in the order they joined, each casts one vote, the *)
(* required number of votes decides, and the decision is executed into the *)
(* settlement. The settlement routes stay available meanwhile.             *)
(***************************************************************************)
EXTENDS Settlement, SequencesExt

CONSTANTS
    Arbitrator,
    Required,      \* required_arbitrators a case may ask for
    AssignCount,   \* how many members one assignment call asks for
    Package        \* the distinct material packages (by package_hash)

ArbitrationAssumption ==
    Required \subseteq Nat \ {0} /\ AssignCount \subseteq Nat \ {0} /\ IsFiniteSet(Arbitrator)

VARIABLES
    pool,      \* members in the order they joined
    inactive,  \* members that were suspended or have exited
    case       \* ArbitrationCaseModel, its assignments, votes and materials

arbVars == <<pool, inactive, case>>

NoVote == [decision |-> "none", percent |-> 0]

NoCase == [status |-> "none", required |-> 0, assigned |-> {},
           votes |-> [a \in Arbitrator |-> NoVote], outcome |-> "none",
           percent |-> 0, materials |-> {}]

ArbInit == Init /\ pool = <<>> /\ inactive = {} /\ case = [t \in Task |-> NoCase]

\* Joining twice is refused.
join_arbitration_pool(a) ==
    /\ a \notin ToSet(pool)
    /\ pool' = Append(pool, a)
    /\ UNCHANGED <<vars, inactive, case>>

\* One case per task; a disputed settlement becomes arbitrated.
create_arbitration_case(t, n) ==
    /\ case[t].status = "none"
    /\ st[t].status \in {"disputed", "arbitrated"}
    /\ IF st[t].status = "disputed"
       THEN apply_transition(t, [st[t] EXCEPT !.status = "arbitrated"])
       ELSE UNCHANGED st
    /\ case' = [case EXCEPT ![t] = [NoCase EXCEPT !.status = "open", !.required = n]]
    /\ UNCHANGED <<cap, quota, voucher, progress, evidence, delivery, intent, paused,
                   pool, inactive>>

finalized(t) == case[t].status \in {"decided", "executed"}

assign_arbitrators(t, n) ==
    LET candidates == SelectSeq(pool, LAMBDA a : a \notin case[t].assigned \cup inactive)
        selected   == SubSeq(candidates, 1, Min({n, Len(candidates)}))
    IN  /\ case[t].status # "none" /\ ~finalized(t)
        /\ selected # <<>>
        /\ case' = [case EXCEPT ![t] = [case[t] EXCEPT
                       !.assigned = case[t].assigned \cup ToSet(selected), !.status = "voting"]]
        /\ UNCHANGED <<vars, pool, inactive>>

submit_material(t, m) ==
    /\ case[t].status \notin {"none", "executed"}
    /\ m \notin case[t].materials
    /\ case' = [case EXCEPT ![t].materials = @ \cup {m}]
    /\ UNCHANGED <<vars, pool, inactive>>

voted(votes) == {a \in Arbitrator : votes[a].decision # "none"}

votesFor(votes, d) == {a \in Arbitrator : votes[a].decision = d}

\* The majority of the decisive votes; a tie splits by the mean of the
\* partial votes, or in half.
decide(votes) ==
    LET buyer   == Cardinality(votesFor(votes, "buyer_wins"))
        seller  == Cardinality(votesFor(votes, "seller_wins"))
        partial == votesFor(votes, "partial")
    IN  [outcome |-> IF buyer > seller THEN "buyer_wins"
                     ELSE IF seller > buyer THEN "seller_wins" ELSE "partial",
         percent |-> IF buyer # seller THEN 0
                     ELSE IF partial = {} THEN 50
                     ELSE SumFunctionOnSet([a \in partial |-> votes[a].percent], partial)
                              \div Cardinality(partial)]

\* One vote per assigned arbitrator (unique constraint); a percentage only
\* with "partial". The vote that completes the required number decides.
cast_vote(t, a, d, pct) ==
    LET c      == case[t]
        votes  == [c.votes EXCEPT ![a] = [decision |-> d, percent |-> pct]]
        enough == Cardinality(voted(votes)) >= c.required
    IN  /\ c.status # "none" /\ ~finalized(t)
        /\ a \in c.assigned
        /\ c.votes[a] = NoVote
        /\ case' = [case EXCEPT ![t] = [c EXCEPT
                       !.votes = votes,
                       !.status = IF enough THEN "decided"
                                  ELSE IF c.status = "open" THEN "voting" ELSE c.status,
                       !.outcome = IF enough THEN decide(votes).outcome ELSE c.outcome,
                       !.percent = IF enough THEN decide(votes).percent ELSE c.percent]]
        /\ UNCHANGED <<vars, pool, inactive>>

decidedSplit(t) ==
    CASE case[t].outcome = "buyer_wins"  -> 0
      [] case[t].outcome = "seller_wins" -> st[t].escrow
      [] case[t].outcome = "partial"     -> share(st[t].escrow, case[t].percent)

\* No receipt is asked for, and the payment intents are not told. A settlement
\* that has meanwhile been paid by another route cannot be executed any more.
execute_arbitration_case(t) ==
    LET settled == decidedSplit(t)
        target  == IF case[t].outcome = "buyer_wins" THEN "refunded" ELSE "settled"
        from    == IF st[t].status = "disputed" THEN "arbitrated" ELSE st[t].status
    IN  /\ case[t].status = "decided"
        /\ can_transition(from, target)
        /\ st' = [st EXCEPT ![t] = paidOut(t, target, settled)]
        /\ apply_capacity_resolution(st[t].client, st[t].escrow, settled,
                                     st[t].escrow - settled)
        /\ mark_voucher_used_if_linked(t)
        /\ case' = [case EXCEPT ![t].status = "executed"]
        /\ UNCHANGED <<quota, progress, evidence, delivery, intent, paused, pool, inactive>>

\* External: an operator takes a member out of the pool.
deactivate(a) ==
    /\ a \in ToSet(pool) \ inactive
    /\ inactive' = inactive \cup {a}
    /\ UNCHANGED <<vars, pool, case>>

ArbNext ==
    \/ Next /\ UNCHANGED arbVars
    \/ \E a \in Arbitrator : join_arbitration_pool(a) \/ deactivate(a)
    \/ \E t \in Task, n \in Required : create_arbitration_case(t, n)
    \/ \E t \in Task, n \in AssignCount : assign_arbitrators(t, n)
    \/ \E t \in Task, m \in Package : submit_material(t, m)
    \/ \E t \in Task, a \in Arbitrator, d \in {"buyer_wins", "seller_wins"} :
          cast_vote(t, a, d, 0)
    \/ \E t \in Task, a \in Arbitrator, pct \in Percent : cast_vote(t, a, "partial", pct)
    \/ \E t \in Task : execute_arbitration_case(t)

ArbSpec == ArbInit /\ [][ArbNext]_<<vars, arbVars>>

-----------------------------------------------------------------------------
\* A decision rests on the required number of votes, all of assigned
\* arbitrators, whatever happens to the pool between assignment and vote.
DecidedByAssigned ==
    \A t \in Task :
        finalized(t) => /\ voted(case[t].votes) \subseteq case[t].assigned
                        /\ Cardinality(voted(case[t].votes)) >= case[t].required
                        /\ case[t].outcome = decide(case[t].votes).outcome

\* What was executed is what was decided, and stays what the settlement says:
\* no later route changes the split of an executed case.
ExecutedAsDecided ==
    \A t \in Task :
        case[t].status = "executed" =>
            /\ st[t].status = IF case[t].outcome = "buyer_wins" THEN "refunded" ELSE "settled"
            /\ st[t].released =
                  CASE case[t].outcome = "buyer_wins"  -> 0
                    [] case[t].outcome = "seller_wins" -> st[t].escrow
                    [] OTHER -> share(st[t].escrow, case[t].percent)

\* Once decided, votes and outcome never change.
DecisionFinal ==
    \A t \in Task : finalized(t) =>
       /\ case'[t].votes = case[t].votes
       /\ case'[t].outcome = case[t].outcome
       /\ case'[t].percent = case[t].percent
=============================================================================
