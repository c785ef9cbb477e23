--------------------------- MODULE SecurityPolicy ---------------------------
(***************************************************************************)
(* The security policy center: versioned threshold policies, the change    *)
(* requests that promote them, the reviewers' approvals, and the policy an *)
(* actor resolves to.  A policy is its version number; the configuration   *)
(* it carries is opaque.  Every request of the service runs in one READ    *)
(* COMMITTED transaction; a review is split into what it reads and what    *)
(* its commit writes, so that two reviews can overlap when Overlap holds.  *)
(***************************************************************************)
EXTENDS Naturals, FiniteSets

CONSTANTS MaxVersion,   \* bound on the policies created
          MaxRequests,  \* bound on the change requests created
          MaxClock,     \* bound on the promotions (each takes a timestamp)
          Approvers,    \* reviewers of change requests
          Required,     \* required_approvals of the requests
          Rollouts,     \* rollout percentages a candidate is given
          Buckets,      \* _bucket_for_actor values of the actors that resolve
          Overlap,      \* may two reviews be in flight at once?
          Overrides     \* does an operator use emergency_override?

ASSUME PolicyAssumption ==
    /\ MaxVersion \in Nat /\ MaxRequests \in Nat /\ MaxClock \in Nat
    /\ Rollouts \subseteq Nat /\ Overlap \in BOOLEAN

Versions == 1 .. MaxVersion
Requests == 1 .. MaxRequests
None == 0

\* SecurityThresholdPolicyModel: activated is activated_at, 0 for NULL.
Policy == [status : {"none", "draft", "active", "candidate", "archived"},
           rollout : 0 .. 100, activated : 0 .. MaxClock]

\* SecurityPolicyChangeRequestModel, with its approvals by approver_id.
Request == [status : {"none", "pending", "approved", "rejected", "applied"},
            action : {"activate", "set_candidate", "rollback"},
            target : 0 .. MaxVersion, rollout : {None} \union Rollouts,
            votes : [Approvers -> {"none", "approve", "reject"}]]

\* A review between its reads and its commit: the vote it writes, the
\* status it loaded and the status it computed.
Review == [request : Requests, decision : {"approve", "reject"},
           loaded : {"pending", "approved", "rejected"},
           computed : {"pending", "approved", "rejected"}]

NoReview == [request |-> None]

VARIABLES policy, request, review, clock

vars == <<policy, request, review, clock>>

TypeOK ==
    /\ policy \in [Versions -> Policy]
    /\ request \in [Requests -> Request]
    /\ \A a \in Approvers : review[a] = NoReview \/ review[a] \in Review
    /\ clock \in 0 .. MaxClock

WithStatus(s) == {v \in Versions : policy[v].status = s}

\* The row the resolver's ORDER BY activated_at DESC, version DESC puts first.
Latest(V) ==
    CHOOSE v \in V : \A w \in V :
        \/ policy[v].activated > policy[w].activated
        \/ policy[v].activated = policy[w].activated /\ v >= w

Init ==
    /\ policy = [v \in Versions |-> [status |-> "none", rollout |-> 100,
                                     activated |-> 0]]
    /\ request = [r \in Requests |->
                    [status |-> "none", action |-> "activate", target |-> None,
                     rollout |-> None, votes |-> [a \in Approvers |-> "none"]]]
    /\ review = [a \in Approvers |-> NoReview]
    /\ clock = 0

-----------------------------------------------------------------------------
\* The stored draft: rollout_percent is clamped to 0..100.
Draft(v) == [policy EXCEPT ![v].status = "draft"]

create_security_threshold_policy ==
    \E v \in WithStatus("none") :
        /\ \A w \in 1 .. (v - 1) : policy[w].status # "none"
        /\ policy' = Draft(v)
        /\ UNCHANGED <<request, review, clock>>

\* The bulk UPDATE archives every policy whose status is in S; the loaded row
\* is then assigned its new status.  The session writes an attribute only when
\* it differs from the value loaded before the bulk UPDATE, so a row that
\* already had the new status keeps the "archived" the bulk UPDATE gave it.
Promoted(v, S, new, rollout) ==
    [w \in Versions |->
        IF w = v
        THEN [status |-> IF policy[v].status = new /\ new \in S THEN "archived" ELSE new,
              rollout |-> rollout, activated |-> clock + 1]
        ELSE [policy[w] EXCEPT !.status = IF @ \in S THEN "archived" ELSE @]]

Created == Versions \ WithStatus("none")

\* Mutant: an activation archives the active policy but not the candidate.
activate_keeps_candidate(v) ==
    /\ v \in Created
    /\ policy' = Promoted(v, {"active"}, "active", 100)

activate_security_threshold_policy(v) ==
    /\ v \in Created
    /\ policy' = Promoted(v, {"active", "candidate"}, "active", 100)

set_candidate_security_threshold_policy(v, rollout) ==
    /\ rollout \in 1 .. 99
    /\ v \in Created
    /\ policy' = Promoted(v, {"candidate"}, "candidate", rollout)

\* Without a target the most recently promoted archived policy is restored.
RollbackTarget(target) ==
    IF target # None THEN target
    ELSE IF WithStatus("archived") = {} THEN None
    ELSE Latest(WithStatus("archived"))

rollback_security_threshold_policy(target) ==
    /\ RollbackTarget(target) \in Created
    /\ policy' = Promoted(RollbackTarget(target), {"active", "candidate"},
                          "active", 100)

\* One promotion, whichever route asked for it.
Change(action, target, rollout) ==
    /\ clock < MaxClock
    /\ clock' = clock + 1
    /\ \/ action = "activate" /\ activate_security_threshold_policy(target)
       \/ /\ action = "set_candidate"
          /\ set_candidate_security_threshold_policy(target, rollout)
       \/ action = "rollback" /\ rollback_security_threshold_policy(target)

\* The direct routes answer 409 unless emergency_override is given.
EmergencyActivate ==
    /\ Overrides
    /\ \E v \in Created : Change("activate", v, None)
    /\ UNCHANGED <<request, review>>

EmergencyCandidate ==
    /\ Overrides
    /\ \E v \in Created, p \in Rollouts : Change("set_candidate", v, p)
    /\ UNCHANGED <<request, review>>

EmergencyRollback ==
    /\ Overrides
    /\ \E v \in Created \union {None} : Change("rollback", v, None)
    /\ UNCHANGED <<request, review>>

-----------------------------------------------------------------------------
\* The policy the alert route applies for an actor with this bucket.
resolve_security_threshold_policy(bucket) ==
    LET active == WithStatus("active")
        candidate == WithStatus("candidate")
    IN  IF candidate # {} /\ bucket < policy[Latest(candidate)].rollout
        THEN Latest(candidate)
        ELSE IF active # {} THEN Latest(active)
        ELSE IF candidate # {} THEN Latest(candidate)
        ELSE None

\* What the dry run requires of a request before it is stored.
simulate_policy_change_dry_run(action, target, rollout) ==
    /\ action \in {"activate", "set_candidate"} => target \in Created
    /\ action = "set_candidate" => rollout # None
    /\ action = "rollback" /\ target # None => target \in Created

\* The dry run the request stores is data of the alert report; the request
\* itself starts pending with no votes.
create_security_policy_change_request ==
    \E r \in Requests, action \in {"activate", "set_candidate", "rollback"},
       target \in Versions \union {None}, rollout \in Rollouts \union {None} :
        /\ request[r].status = "none"
        /\ \A q \in 1 .. (r - 1) : request[q].status # "none"
        /\ (rollout = None) <=> (action # "set_candidate")
        /\ simulate_policy_change_dry_run(action, target, rollout)
        /\ request' = [request EXCEPT ![r] =
                [status |-> "pending", action |-> action, target |-> target,
                 rollout |-> rollout, votes |-> [a \in Approvers |-> "none"]]]
        /\ UNCHANGED <<policy, review, clock>>

\* The status the committed votes and the reviewer's own give a request.
ReviewStatus(votes) ==
    IF \E a \in Approvers : votes[a] = "reject" THEN "rejected"
    ELSE IF Cardinality({a \in Approvers : votes[a] = "approve"}) >= Required
         THEN "approved"
         ELSE "pending"

\* review_security_policy_change_request up to its last SELECT.
ReviewRead(a) ==
    \E r \in Requests, d \in {"approve", "reject"} :
        /\ review[a] = NoReview
        /\ Overlap \/ \A b \in Approvers : review[b] = NoReview
        /\ request[r].status \in {"pending", "approved", "rejected"}
        /\ request[r].votes[a] # d
        /\ review' = [review EXCEPT ![a] =
                [request |-> r, decision |-> d, loaded |-> request[r].status,
                 computed |-> ReviewStatus([request[r].votes EXCEPT ![a] = d])]]
        /\ UNCHANGED <<policy, request, clock>>

\* Its commit: the vote, and the status when it differs from the loaded one.
ReviewCommit(a) ==
    /\ review[a] # NoReview
    /\ LET v == review[a]
           q == request[v.request]
       IN  request' = [request EXCEPT ![v.request] =
               [status |-> IF v.computed # v.loaded THEN v.computed ELSE q.status,
                action |-> q.action, target |-> q.target, rollout |-> q.rollout,
                votes |-> [q.votes EXCEPT ![a] = v.decision]]]
    /\ review' = [review EXCEPT ![a] = NoReview]
    /\ UNCHANGED <<policy, clock>>

\* What apply checks of the request's row.
MayApply(r) == request[r].status = "approved"

apply_security_policy_change_request ==
    \E r \in Requests :
        /\ MayApply(r)
        /\ Overlap \/ \A a \in Approvers : review[a] = NoReview
        /\ Change(request[r].action, request[r].target, request[r].rollout)
        /\ request' = [request EXCEPT ![r].status = "applied"]
        /\ UNCHANGED review

Next ==
    \/ create_security_threshold_policy
    \/ EmergencyActivate
    \/ EmergencyCandidate
    \/ EmergencyRollback
    \/ create_security_policy_change_request
    \/ \E a \in Approvers : ReviewRead(a)
    \/ \E a \in Approvers : ReviewCommit(a)
    \/ apply_security_policy_change_request

Spec == Init /\ [][Next]_vars

-----------------------------------------------------------------------------
\* No request takes effect against its reviewers: an applied request has the
\* required number of approvals and no rejection, however often the
\* reviewers changed their votes before it was applied.
AppliedHadQuorum ==
    \A r \in Requests : request[r].status = "applied" =>
        /\ Cardinality({a \in Approvers : request[r].votes[a] = "approve"})
               >= Required
        /\ \A a \in Approvers : request[r].votes[a] # "reject"

\* At any time one policy governs: promotions by requests, overrides and
\* rollbacks in any order never leave two active or two candidate policies.
OneGoverns ==
    /\ Cardinality(WithStatus("active")) <= 1
    /\ Cardinality(WithStatus("candidate")) <= 1

\* No actor is governed by thresholds older than the active policy's: a
\* candidate that outlives a later activation would keep its share of the
\* actors on a configuration that was meant to be replaced for everyone.
NoStaleGovernor ==
    \A b \in Buckets : LET p == resolve_security_threshold_policy(b) IN
        p # None => \A a \in WithStatus("active") :
                        policy[p].activated >= policy[a].activated

\* One policy governs every actor and it is never a stale one; a request that is
\* reviewed by one reviewer at a time takes effect with its quorum only.
PolicyGoverns ==
    OneGoverns /\ NoStaleGovernor /\ (~Overlap => AppliedHadQuorum)
=============================================================================
