---------------------------- MODULE TrustProofs ----------------------------
(***************************************************************************)
(* The policy centre and the important fields, for every value of their    *)
(* constants.                                                              *)
(***************************************************************************)
EXTENDS SecurityPolicy, ImportantFields, FiniteSetTheorems, TLAPS

-----------------------------------------------------------------------------
(* Which policy governs, for any number of policies, requests and reviewers, *)
(* and any buckets.  The resolver sorts by the time of the promotion, so the *)
(* invariant speaks of times: a candidate is never older than the active     *)
(* policy.  For the quorum it remembers what a review read.                  *)

Row == [status : {"none", "draft", "active", "candidate", "archived"},
        rollout : Nat, activated : Nat]

TypeInv == policy \in [Versions -> Row] /\ clock \in Nat

\* At most one policy has each of the two governing states.
Unique(s) == \A v, w \in Versions : policy[v].status = s /\ policy[w].status = s => v = w

\* Promotions are in the past, and a candidate's is the later one.
CandidateIsNewer ==
    /\ \A v \in Versions : policy[v].activated <= clock
    /\ \A v, w \in Versions : policy[v].status = "candidate" /\ policy[w].status = "active" =>
           policy[v].activated >= policy[w].activated

PolicyInv == TypeInv /\ Unique("active") /\ Unique("candidate") /\ CandidateIsNewer

LEMMA InitPolicyInv == Init => PolicyInv
  BY DEF Init, PolicyInv, TypeInv, Row, Unique, CandidateIsNewer

\* What a promotion leaves of the governing states.
LEMMA PromotedRows ==
    ASSUME PolicyInv, NEW v \in Versions, NEW S, NEW new \in {"active", "candidate"},
           NEW rollout \in Nat, new \in S, policy' = Promoted(v, S, new, rollout)
    PROVE  /\ policy' \in [Versions -> Row]
           /\ policy'[v].status \in {new, "archived"} /\ policy'[v].activated = clock + 1
           /\ \A w \in Versions \ {v} :
                 /\ policy'[w].activated = policy[w].activated
                 /\ policy'[w].status = IF policy[w].status \in S THEN "archived"
                                        ELSE policy[w].status
  <1> USE DEF PolicyInv, TypeInv, Row
  <1>1. policy[v] \in Row /\ clock + 1 \in Nat
    OBVIOUS
  <1> DEFINE st == IF policy[v].status = new /\ new \in S THEN "archived" ELSE new
             row == [status |-> st, rollout |-> rollout, activated |-> clock + 1]
  <1>a. st \in {new, "archived"}
    OBVIOUS
  <1>b. st \in {"none", "draft", "active", "candidate", "archived"}
    BY <1>a
  <1> HIDE DEF st
  <1>2. row \in Row /\ row.status \in {new, "archived"} /\ row.activated = clock + 1
    BY <1>1, <1>a, <1>b
  <1>3. \A w \in Versions :
          LET row2 == [policy[w] EXCEPT !.status = IF @ \in S THEN "archived" ELSE @]
          IN  /\ row2 \in Row /\ row2.activated = policy[w].activated
              /\ row2.status = IF policy[w].status \in S THEN "archived" ELSE policy[w].status
    OBVIOUS
  <1>4. policy' = [w \in Versions |->
            IF w = v THEN row
            ELSE [policy[w] EXCEPT !.status = IF @ \in S THEN "archived" ELSE @]]
    BY DEF Promoted, st
  <1> HIDE DEF row
  <1> QED BY <1>2, <1>3, <1>4

LEMMA ChangeKeeps ==
    ASSUME PolicyInv, NEW action, NEW target, NEW rollout, Change(action, target, rollout)
    PROVE  PolicyInv'
  <1>1. clock \in Nat /\ clock' = clock + 1
    BY DEF Change, PolicyInv, TypeInv
  <1>2. ASSUME NEW v \in Versions, policy' = Promoted(v, {"active", "candidate"}, "active", 100)
        PROVE  PolicyInv'
    <2>1. /\ policy' \in [Versions -> Row]
          /\ policy'[v].status \in {"active", "archived"} /\ policy'[v].activated = clock + 1
          /\ \A w \in Versions \ {v} :
                /\ policy'[w].activated = policy[w].activated
                /\ policy'[w].status = IF policy[w].status \in {"active", "candidate"}
                                       THEN "archived" ELSE policy[w].status
      BY <1>2, PromotedRows
    <2>2. \A w \in Versions : policy'[w].status # "candidate" /\ (w # v => policy'[w].status # "active")
      BY <2>1
    <2>3. \A w \in Versions : policy[w].activated \in Nat /\ policy[w].activated <= clock
      BY DEF PolicyInv, TypeInv, Row, CandidateIsNewer
    <2>4. \A w \in Versions : policy'[w].activated <= clock + 1
      BY <1>1, <2>1, <2>3
    <2>5. TypeInv' /\ CandidateIsNewer'
      BY <1>1, <2>1, <2>2, <2>4 DEF TypeInv, CandidateIsNewer
    <2>6. (\A x, w \in Versions : policy[x].status = "active" /\ policy[w].status = "active"
                => x = w)'
      BY <2>2
    <2>7. (\A x, w \in Versions : policy[x].status = "candidate" /\ policy[w].status = "candidate"
                => x = w)'
      BY <2>2
    <2> QED BY <2>5, <2>6, <2>7 DEF PolicyInv, Unique
  <1>3. ASSUME NEW v \in Versions, NEW r \in 1 .. 99,
               policy' = Promoted(v, {"candidate"}, "candidate", r)
        PROVE  PolicyInv'
    <2>1. /\ policy' \in [Versions -> Row]
          /\ policy'[v].status \in {"candidate", "archived"} /\ policy'[v].activated = clock + 1
          /\ \A w \in Versions \ {v} :
                /\ policy'[w].activated = policy[w].activated
                /\ policy'[w].status = IF policy[w].status \in {"candidate"}
                                       THEN "archived" ELSE policy[w].status
      BY <1>3, PromotedRows
    <2>2. \A w \in Versions : w # v => policy'[w].status # "candidate"
      BY <2>1
    <2>3. \A w \in Versions : policy'[w].status = "active" => w # v /\ policy[w].status = "active"
      BY <2>1
    <2>4. \A w \in Versions : policy[w].activated \in Nat /\ policy[w].activated <= clock
      BY DEF PolicyInv, TypeInv, Row, CandidateIsNewer
    <2>5. \A w \in Versions : policy'[w].activated <= clock + 1
      BY <1>1, <2>1, <2>4
    <2>6. \A x, w \in Versions : policy'[x].status = "candidate" /\ policy'[w].status = "active" =>
              policy'[x].activated >= policy'[w].activated
      BY <1>1, <2>1, <2>2, <2>3, <2>4
    <2>7. TypeInv' /\ CandidateIsNewer'
      BY <1>1, <2>1, <2>5, <2>6 DEF TypeInv, CandidateIsNewer
    <2>8. (\A x, w \in Versions : policy[x].status = "active" /\ policy[w].status = "active"
                => x = w)'
      BY <2>3 DEF PolicyInv, Unique
    <2>9. (\A x, w \in Versions : policy[x].status = "candidate" /\ policy[w].status = "candidate"
                => x = w)'
      BY <2>2
    <2> QED BY <2>7, <2>8, <2>9 DEF PolicyInv, Unique
  <1>4. Created \subseteq Versions
    BY DEF Created
  <1>5. \/ \E v \in Versions : policy' = Promoted(v, {"active", "candidate"}, "active", 100)
        \/ \E v \in Versions, r \in 1 .. 99 : policy' = Promoted(v, {"candidate"}, "candidate", r)
    BY <1>4 DEF Change, activate_security_threshold_policy, set_candidate_security_threshold_policy,
                rollback_security_threshold_policy
  <1> QED BY <1>2, <1>3, <1>5

LEMMA NextPolicyInv == PolicyInv /\ [Next]_vars => PolicyInv'
  <1> SUFFICES ASSUME PolicyInv, [Next]_vars PROVE PolicyInv'
    OBVIOUS
  <1>1. CASE create_security_threshold_policy
    <2>1. PICK v \in Versions : /\ policy[v].status = "none"
                                /\ policy' = [policy EXCEPT ![v].status = "draft"]
      BY <1>1 DEF create_security_threshold_policy, WithStatus, Draft
    <2>2. clock' = clock
      BY <1>1 DEF create_security_threshold_policy
    <2>3. /\ policy' \in [Versions -> Row] /\ policy'[v].status = "draft"
          /\ \A w \in Versions : policy'[w].activated = policy[w].activated
          /\ \A w \in Versions \ {v} : policy'[w] = policy[w]
      BY <2>1 DEF PolicyInv, TypeInv, Row
    <2>4. \A w \in Versions : policy'[w].status \in {"active", "candidate"} =>
              policy[w].status = policy'[w].status
      BY <2>3
    <2>5. TypeInv' /\ CandidateIsNewer'
      BY <2>2, <2>3, <2>4 DEF PolicyInv, TypeInv, CandidateIsNewer
    <2>6. (\A x, w \in Versions : policy[x].status = "active" /\ policy[w].status = "active"
                => x = w)'
      BY <2>4 DEF PolicyInv, Unique
    <2>7. (\A x, w \in Versions : policy[x].status = "candidate" /\ policy[w].status = "candidate"
                => x = w)'
      BY <2>4 DEF PolicyInv, Unique
    <2> QED BY <2>5, <2>6, <2>7 DEF PolicyInv, Unique
  <1>2. CASE UNCHANGED <<policy, clock>>
    BY <1>2 DEF PolicyInv, TypeInv, Unique, CandidateIsNewer
  <1>3. CASE \E action, target, rollout : Change(action, target, rollout)
    BY <1>3, ChangeKeeps
  <1>4. CASE EmergencyActivate \/ EmergencyCandidate \/ EmergencyRollback
    BY <1>3, <1>4 DEF EmergencyActivate, EmergencyCandidate, EmergencyRollback
  <1>5. CASE apply_security_policy_change_request
    BY <1>3, <1>5 DEF apply_security_policy_change_request
  <1>6. CASE \/ create_security_policy_change_request
             \/ \E a \in Approvers : ReviewRead(a)
             \/ \E a \in Approvers : ReviewCommit(a)
             \/ UNCHANGED vars
    BY <1>2, <1>6 DEF create_security_policy_change_request, ReviewRead, ReviewCommit, vars
  <1> QED BY <1>1, <1>4, <1>5, <1>6 DEF Next

-----------------------------------------------------------------------------
\* What the resolver finds.

LEMMA AtMostOne ==
    ASSUME NEW S, \A v, w \in S : v = w
    PROVE  Cardinality(S) <= 1
  <1>1. CASE S = {}
    BY <1>1, FS_EmptySet
  <1>2. CASE S # {}
    <2>1. PICK v : v \in S
      BY <1>2
    <2>2. S = {v}
      BY <2>1
    <2> QED BY <2>2, FS_Singleton
  <1> QED BY <1>1, <1>2

\* Among policies of which there is one, the resolver's order finds it.
LEMMA LatestOfOne ==
    ASSUME NEW s \in {"active", "candidate"}, Unique(s), WithStatus(s) # {}, TypeInv
    PROVE  Latest(WithStatus(s)) \in WithStatus(s)
  <1>1. PICK v \in WithStatus(s) : \A w \in WithStatus(s) : w = v
    BY DEF Unique, WithStatus
  <1>2. v \in Nat
    BY PolicyAssumption DEF WithStatus, Versions
  <1>3. \E x \in WithStatus(s) : \A w \in WithStatus(s) :
            \/ policy[x].activated > policy[w].activated
            \/ policy[x].activated = policy[w].activated /\ x >= w
    BY <1>1, <1>2
  <1> QED BY <1>3 DEF Latest

LEMMA Governs == PolicyInv => OneGoverns /\ NoStaleGovernor
  <1> SUFFICES ASSUME PolicyInv PROVE OneGoverns /\ NoStaleGovernor
    OBVIOUS
  <1>1. OneGoverns
    BY AtMostOne DEF PolicyInv, Unique, OneGoverns, WithStatus
  <1>2. ASSUME NEW b \in Buckets, NEW a \in WithStatus("active"),
               resolve_security_threshold_policy(b) # None
        PROVE  policy[resolve_security_threshold_policy(b)].activated >= policy[a].activated
    <2>1. resolve_security_threshold_policy(b) \in WithStatus("active") \union WithStatus("candidate")
      BY <1>2, LatestOfOne DEF PolicyInv, resolve_security_threshold_policy
    <2>2. PICK p \in Versions : /\ p = resolve_security_threshold_policy(b)
                                /\ policy[p].status \in {"active", "candidate"}
      BY <2>1 DEF WithStatus
    <2>3. policy[p].activated >= policy[a].activated
      BY <2>2 DEF PolicyInv, TypeInv, Row, Unique, CandidateIsNewer, WithStatus
    <2> QED BY <2>2, <2>3
  <1> QED BY <1>1, <1>2 DEF NoStaleGovernor

-----------------------------------------------------------------------------
\* The quorum of a request, when one review is under way at a time.

Ballot == [Approvers -> {"none", "approve", "reject"}]

RequestRow == [status : {"none", "pending", "approved", "rejected", "applied"},
               action : {"activate", "set_candidate", "rollback"},
               target : Nat, rollout : Nat, votes : Ballot]

RequestTypeInv ==
    /\ request \in [Requests -> RequestRow]
    /\ review \in [Approvers -> Review \union {NoReview}]

OneReview == \A a, b \in Approvers : review[a] # NoReview /\ review[b] # NoReview => a = b

\* What a review in flight read still stands, and what it computed is right.
ReviewIsFresh ==
    \A a \in Approvers : review[a] # NoReview =>
        LET v == review[a] IN
        /\ v \in Review
        /\ request[v.request].status = v.loaded
        /\ v.computed = ReviewStatus([request[v.request].votes EXCEPT ![a] = v.decision])

\* The status of a request tells its votes.
StatusTellsVotes ==
    \A r \in Requests : request[r].status \in {"approved", "applied"} =>
        ReviewStatus(request[r].votes) = "approved"

QuorumInv == RequestTypeInv /\ OneReview /\ ReviewIsFresh /\ StatusTellsVotes

LEMMA InitQuorumInv == Init => QuorumInv
  BY PolicyAssumption
  DEF Init, QuorumInv, RequestTypeInv, OneReview, ReviewIsFresh, StatusTellsVotes, RequestRow, Ballot, None

LEMMA CreateKeepsQuorum ==
    ASSUME QuorumInv, create_security_policy_change_request
    PROVE  QuorumInv'
  <1> USE DEF QuorumInv
  <1>1. PICK r \in Requests, action \in {"activate", "set_candidate", "rollback"},
             target \in Versions \union {None}, rollout \in Rollouts \union {None} :
          /\ request[r].status = "none"
          /\ request' = [request EXCEPT ![r] =
                [status |-> "pending", action |-> action, target |-> target,
                 rollout |-> rollout, votes |-> [a \in Approvers |-> "none"]]]
    BY DEF create_security_policy_change_request
  <1>2. review' = review
    BY DEF create_security_policy_change_request
  <1>n. target \in Nat /\ rollout \in Nat
    BY PolicyAssumption DEF Versions, None
  <1> DEFINE row == [status |-> "pending", action |-> action, target |-> target,
                     rollout |-> rollout, votes |-> [a \in Approvers |-> "none"]]
  <1>r. row \in RequestRow /\ row.status = "pending"
    BY <1>n DEF RequestRow, Ballot
  <1>e. request' = [request EXCEPT ![r] = row]
    BY <1>1
  <1> HIDE DEF row
  <1>3. /\ RequestTypeInv'
        /\ request'[r].status = "pending"
        /\ \A q \in Requests : q # r => request'[q] = request[q]
    BY <1>2, <1>e, <1>r DEF RequestTypeInv
  <1>4. OneReview'
    BY <1>2 DEF OneReview
  <1>5. StatusTellsVotes'
    BY <1>3 DEF StatusTellsVotes
  <1>6. \A a \in Approvers : review[a] # NoReview => review[a].request \in Requests
                                                     /\ review[a].request # r
    BY <1>1 DEF ReviewIsFresh, Review
  <1>7. ReviewIsFresh'
    BY <1>2, <1>3, <1>6 DEF ReviewIsFresh
  <1> QED BY <1>3, <1>4, <1>5, <1>7

LEMMA ReadKeepsQuorum ==
    ASSUME ~Overlap, QuorumInv, NEW a \in Approvers, ReviewRead(a)
    PROVE  QuorumInv'
  <1> USE DEF QuorumInv, RequestTypeInv, RequestRow
  <1>1. PICK r \in Requests, d \in {"approve", "reject"} :
          /\ \A b \in Approvers : review[b] = NoReview
          /\ request[r].status \in {"pending", "approved", "rejected"}
          /\ review' = [review EXCEPT ![a] =
                [request |-> r, decision |-> d, loaded |-> request[r].status,
                 computed |-> ReviewStatus([request[r].votes EXCEPT ![a] = d])]]
    BY DEF ReviewRead
  <1>2. request' = request
    BY DEF ReviewRead
  <1>3. PICK v : v = [request |-> r, decision |-> d, loaded |-> request[r].status,
                      computed |-> ReviewStatus([request[r].votes EXCEPT ![a] = d])]
    OBVIOUS
  <1>4. v \in Review /\ v.request = r /\ v.decision = d /\ v.loaded = request[r].status
        /\ v.computed = ReviewStatus([request[r].votes EXCEPT ![a] = d])
    BY <1>1, <1>3 DEF Review, ReviewStatus
  <1>5. review'[a] = v /\ \A b \in Approvers \ {a} : review'[b] = NoReview
    BY <1>1, <1>3
  <1>6. RequestTypeInv'
    BY <1>1, <1>2, <1>3, <1>4
  <1>7. OneReview'
    BY <1>5 DEF OneReview
  <1>8. StatusTellsVotes'
    BY <1>2 DEF StatusTellsVotes, ReviewStatus
  <1>9. /\ v \in Review
        /\ request'[v.request].status = v.loaded
        /\ v.computed = ReviewStatus([request'[v.request].votes EXCEPT ![a] = v.decision])
    BY <1>2, <1>4
  <1>10. ReviewIsFresh'
    BY <1>5, <1>9 DEF ReviewIsFresh, ReviewStatus
  <1> QED BY <1>6, <1>7, <1>8, <1>10

LEMMA CommitKeepsQuorum ==
    ASSUME QuorumInv, NEW a \in Approvers, ReviewCommit(a)
    PROVE  QuorumInv'
  <1> USE DEF QuorumInv
  <1>1. PICK v \in Review, r \in Requests :
          /\ v = review[a] /\ v.request = r /\ review[a] # NoReview
          /\ request[r].status = v.loaded
          /\ v.computed = ReviewStatus([request[r].votes EXCEPT ![a] = v.decision])
    BY DEF ReviewCommit, ReviewIsFresh, Review
  <1>3. v.decision \in {"approve", "reject"} /\ v.computed \in {"pending", "approved", "rejected"}
    BY DEF Review
  <1> DEFINE votes == [request[r].votes EXCEPT ![a] = v.decision]
             row == [status |-> v.computed, action |-> request[r].action,
                     target |-> request[r].target, rollout |-> request[r].rollout,
                     votes |-> votes]
  <1>q. request[r] \in RequestRow /\ request[r].votes \in Ballot
    BY DEF RequestTypeInv, RequestRow
  <1>v. votes \in Ballot
    BY <1>3, <1>q DEF Ballot
  <1>r. row \in RequestRow /\ row.status = v.computed /\ row.votes = votes
    BY <1>3, <1>q, <1>v DEF RequestRow
  <1>2. request' = [request EXCEPT ![r] = row] /\ review' = [review EXCEPT ![a] = NoReview]
    BY <1>1 DEF ReviewCommit
  <1> HIDE DEF row
  <1>4. /\ RequestTypeInv'
        /\ request'[r].status = v.computed
        /\ request'[r].votes = [request[r].votes EXCEPT ![a] = v.decision]
        /\ \A q \in Requests : q # r => request'[q] = request[q]
    BY <1>2, <1>r DEF RequestTypeInv
  <1>5. \A b \in Approvers : review'[b] = NoReview
    BY <1>1, <1>2 DEF OneReview, RequestTypeInv
  <1>6. OneReview' /\ ReviewIsFresh'
    BY <1>5 DEF OneReview, ReviewIsFresh
  <1>7. \A q \in Requests : request'[q].status \in {"approved", "applied"} =>
            ReviewStatus(request'[q].votes) = "approved"
    BY <1>1, <1>3, <1>4 DEF StatusTellsVotes
  <1>8. StatusTellsVotes'
    BY <1>7 DEF StatusTellsVotes, ReviewStatus
  <1> QED BY <1>4, <1>6, <1>8

LEMMA ApplyKeepsQuorum ==
    ASSUME ~Overlap, QuorumInv, apply_security_policy_change_request
    PROVE  QuorumInv'
  <1> USE DEF QuorumInv, RequestTypeInv, RequestRow
  <1>1. PICK r \in Requests :
          /\ request[r].status = "approved"
          /\ \A a \in Approvers : review[a] = NoReview
          /\ request' = [request EXCEPT ![r].status = "applied"]
    BY DEF apply_security_policy_change_request, MayApply
  <1>2. review' = review
    BY DEF apply_security_policy_change_request
  <1>3. /\ RequestTypeInv'
        /\ \A q \in Requests : request'[q].votes = request[q].votes
                               /\ (q # r => request'[q] = request[q])
    BY <1>1, <1>2
  <1>4. OneReview' /\ ReviewIsFresh'
    BY <1>1, <1>2 DEF OneReview, ReviewIsFresh
  <1>5. \A q \in Requests : request'[q].status \in {"approved", "applied"} =>
            ReviewStatus(request'[q].votes) = "approved"
    BY <1>1, <1>3 DEF StatusTellsVotes
  <1>6. StatusTellsVotes'
    BY <1>5 DEF StatusTellsVotes, ReviewStatus
  <1> QED BY <1>3, <1>4, <1>6

LEMMA NextQuorumInv ==
    ASSUME ~Overlap
    PROVE  QuorumInv /\ [Next]_vars => QuorumInv'
  <1> SUFFICES ASSUME QuorumInv, [Next]_vars PROVE QuorumInv'
    OBVIOUS
  <1>1. CASE UNCHANGED <<request, review>>
    BY <1>1 DEF QuorumInv, RequestTypeInv, OneReview, ReviewIsFresh, StatusTellsVotes, ReviewStatus
  <1>2. CASE \/ create_security_threshold_policy
             \/ EmergencyActivate \/ EmergencyCandidate \/ EmergencyRollback
             \/ UNCHANGED vars
    BY <1>1, <1>2 DEF create_security_threshold_policy, EmergencyActivate, EmergencyCandidate,
                      EmergencyRollback, vars
  <1> QED BY <1>2, CreateKeepsQuorum, ReadKeepsQuorum, CommitKeepsQuorum, ApplyKeepsQuorum DEF Next

LEMMA Quorum == QuorumInv => AppliedHadQuorum
  BY DEF QuorumInv, StatusTellsVotes, ReviewStatus, AppliedHadQuorum

\* Promotions by requests, overrides and rollbacks, in any order, leave one active
\* and one candidate policy at most, and no actor on thresholds older than the
\* active policy's; reviews that do not overlap apply no request without its quorum.
THEOREM PolicyAlwaysGoverns == Spec => []PolicyGoverns
  <1>1. Spec => [](OneGoverns /\ NoStaleGovernor)
    BY InitPolicyInv, NextPolicyInv, Governs, PTL DEF Spec
  <1>2. ASSUME ~Overlap PROVE Spec => []AppliedHadQuorum
    <2>1. QuorumInv /\ [Next]_vars => QuorumInv'
      BY <1>2, NextQuorumInv
    <2> QED BY <2>1, InitQuorumInv, Quorum, PTL DEF Spec
  <1>3. CASE Overlap
    <2>1. OneGoverns /\ NoStaleGovernor => PolicyGoverns
      BY <1>3 DEF PolicyGoverns
    <2> QED BY <1>1, <2>1, PTL
  <1>4. CASE ~Overlap
    <2>1. OneGoverns /\ NoStaleGovernor /\ AppliedHadQuorum => PolicyGoverns
      BY DEF PolicyGoverns
    <2>2. Spec => []AppliedHadQuorum
      BY <1>2, <1>4
    <2> QED BY <1>1, <2>1, <2>2, PTL
  <1> QED BY <1>3, <1>4

-----------------------------------------------------------------------------
(* What a sealed capture means, for any agents, nonces and attempt budget.   *)
(* The seal is put on by a comparison that looks at the submissions only, so *)
(* what was checked when each of them came has to be remembered in the       *)
(* invariant: who sent it, for which role it opened and what it cost.        *)

FieldsTypeInv ==
    /\ party \in [Role -> Agent \cup {NoAgent}]
    /\ submit \in [Role -> PartySubmit \cup {NoSubmit}]
    /\ attempts \in Nat /\ accepted \in Nat
    /\ IsFiniteSet(used)

\* A stored submission was opened with the key of its role.
OpenedForRole == \A r \in Role : submit[r] # NoSubmit => submit[r].for \in {r, "any"}

\* Nobody fills both roles under one name.
TwoSubmitters ==
    submit["buyer"] # NoSubmit /\ submit["seller"] # NoSubmit /\ submit["buyer"].by # NoAgent
        => submit["buyer"].by # submit["seller"].by

\* The comparison that sealed the capture still holds.
SealedAgrees ==
    status = "MATCHED" =>
        /\ submit["buyer"] # NoSubmit /\ submit["seller"] # NoSubmit
        /\ triple_ok(submit["buyer"], submit["seller"])

\* Every accepted submission was paid for with an attempt and a nonce.
AcceptedIsPaid ==
    accepted <= attempts /\ accepted <= MaxAttempts /\ accepted <= Cardinality(used)

FieldsInv ==
    /\ FieldsTypeInv
    /\ OpenedForRole /\ TwoSubmitters /\ BoundPartiesOnly
    /\ SealedAgrees
    /\ AcceptedIsPaid

LEMMA InitFieldsInv == FieldsInit => FieldsInv
  <1> SUFFICES ASSUME FieldsInit PROVE FieldsInv
    OBVIOUS
  <1>1. FieldsTypeInv /\ AcceptedIsPaid
    BY FS_EmptySet, AttemptsAssumption DEF FieldsInit, FieldsTypeInv, AcceptedIsPaid
  <1>2. OpenedForRole /\ TwoSubmitters /\ BoundPartiesOnly /\ SealedAgrees
    BY DEF FieldsInit, OpenedForRole, TwoSubmitters, BoundPartiesOnly, SealedAgrees, Role
  <1> QED BY <1>1, <1>2 DEF FieldsInv

\* A submission spends a nonce and an attempt, and is stored when it opens.
LEMMA SubmitKeeps ==
    ASSUME FieldsInv, NEW role \in Role, NEW ct \in PartySubmit, NEW nonce \in Nonce,
           submit_encrypted(role, ct, nonce)
    PROVE  FieldsInv'
  <1> USE DEF FieldsInv, FieldsTypeInv
  <1>1. /\ status # "MATCHED" /\ party_may_submit(role, ct.by)
        /\ nonce \notin used /\ attempts < MaxAttempts
        /\ used' = used \cup {nonce} /\ attempts' = attempts + 1 /\ UNCHANGED <<party, late>>
    BY DEF submit_encrypted, open_for_submit, attempts_left
  <1>2. IsFiniteSet(used') /\ Cardinality(used') = Cardinality(used) + 1 /\ Cardinality(used) \in Nat
    BY <1>1, FS_AddElement, FS_CardinalityType
  <1>3. CASE decrypt_canonical_fields(ct, role) /\ validate_fields(ct.doc)
    <2>1. /\ submit' = [submit EXCEPT ![role] = ct] /\ status' = "PARTIAL"
          /\ accepted' = accepted + 1 /\ ct.for \in {role, "any"}
      BY <1>3 DEF submit_encrypted, decrypt_canonical_fields
    <2>2. FieldsTypeInv' /\ SealedAgrees'
      BY <1>1, <1>2, <2>1 DEF SealedAgrees
    <2>3. AcceptedIsPaid'
      BY <1>1, <1>2, <2>1, AttemptsAssumption DEF AcceptedIsPaid
    <2>4. OpenedForRole'
      BY <2>1 DEF OpenedForRole
    <2>5. BoundPartiesOnly'
      BY <1>1, <2>1 DEF BoundPartiesOnly, party_may_submit
    <2>6. TwoSubmitters'
      BY <1>1, <2>1 DEF TwoSubmitters, party_may_submit, other, Role
    <2> QED BY <2>2, <2>3, <2>4, <2>5, <2>6
  <1>4. CASE ~(decrypt_canonical_fields(ct, role) /\ validate_fields(ct.doc))
    <2>1. UNCHANGED <<submit, status, accepted>>
      BY <1>4 DEF submit_encrypted
    <2>2. FieldsTypeInv' /\ OpenedForRole' /\ TwoSubmitters' /\ BoundPartiesOnly' /\ SealedAgrees'
      BY <1>1, <1>2, <2>1 DEF OpenedForRole, TwoSubmitters, BoundPartiesOnly, SealedAgrees
    <2>3. AcceptedIsPaid'
      BY <1>1, <1>2, <2>1 DEF AcceptedIsPaid
    <2> QED BY <2>2, <2>3
  <1> QED BY <1>3, <1>4

\* The calls that store no submission leave what the submissions are about.
LEMMA OthersKeep ==
    ASSUME FieldsInv, UNCHANGED <<party, submit, used, accepted>>,
           attempts' \in Nat, attempts' >= attempts,
           status' = "MATCHED" => SealedAgrees'
    PROVE  FieldsInv'
  <1> USE DEF FieldsInv, FieldsTypeInv
  <1>1. FieldsTypeInv' /\ OpenedForRole' /\ TwoSubmitters' /\ BoundPartiesOnly'
    BY DEF OpenedForRole, TwoSubmitters, BoundPartiesOnly
  <1>2. SealedAgrees'
    BY DEF SealedAgrees
  <1>3. AcceptedIsPaid'
    BY DEF AcceptedIsPaid
  <1> QED BY <1>1, <1>2, <1>3

LEMMA FinalizeKeeps ==
    ASSUME FieldsInv, finalize_triple_match
    PROVE  FieldsInv'
  <1>1. UNCHANGED <<party, submit, used, accepted>>
    BY DEF finalize_triple_match
  <1>2. attempts' \in Nat /\ attempts' >= attempts
    BY DEF finalize_triple_match, FieldsInv, FieldsTypeInv
  <1>3. ASSUME status' = "MATCHED" PROVE SealedAgrees'
    <2>1. submit["buyer"] # NoSubmit /\ submit["seller"] # NoSubmit
      BY DEF finalize_triple_match
    <2>2. triple_ok(submit["buyer"], submit["seller"])
      BY <1>3 DEF finalize_triple_match
    <2> QED BY <1>1, <2>1, <2>2 DEF SealedAgrees, triple_ok
  <1> QED BY <1>1, <1>2, <1>3, OthersKeep

LEMMA NextFieldsInv == FieldsInv /\ [FieldsNext]_fieldVars => FieldsInv'
  <1> SUFFICES ASSUME FieldsInv, [FieldsNext]_fieldVars PROVE FieldsInv'
    OBVIOUS
  <1>1. attempts \in Nat
    BY DEF FieldsInv, FieldsTypeInv
  <1>2. ASSUME NEW role \in Role, NEW nonce \in Nonce, NEW by \in Agent \cup {NoAgent},
               reject_nonce(role, by, nonce) \/ reject_attempts(role, by, nonce)
        PROVE  FieldsInv'
    <2>1. /\ UNCHANGED <<party, submit, used, accepted>>
          /\ attempts' \in Nat /\ attempts' >= attempts /\ status' # "MATCHED"
      BY <1>1, <1>2 DEF reject_nonce, reject_attempts, open_for_submit
    <2> QED BY <2>1, OthersKeep
  <1>3. CASE read_expired
    BY <1>1, <1>3, OthersKeep DEF read_expired
  <1>4. CASE ttl_passes \/ UNCHANGED fieldVars
    <2>1. UNCHANGED <<party, status, attempts, used, submit, accepted>>
      BY <1>4 DEF ttl_passes, fieldVars
    <2>2. SealedAgrees'
      BY <2>1 DEF FieldsInv, SealedAgrees, triple_ok
    <2> QED BY <1>1, <2>1, <2>2, OthersKeep
  <1> QED BY <1>2, <1>3, <1>4, SubmitKeeps, FinalizeKeeps DEF FieldsNext

LEMMA Sealed == FieldsInv => MatchedAgrees /\ BoundPartiesOnly /\ BudgetHolds
  <1> SUFFICES ASSUME FieldsInv PROVE MatchedAgrees /\ BoundPartiesOnly /\ BudgetHolds
    OBVIOUS
  <1>1. ASSUME require_matched_capture, NEW r \in Role
        PROVE  /\ submit[r] # NoSubmit
               /\ canonicalize(submit[r].doc) = "captured"
               /\ submit[r].for \in {r, "any"}
               /\ submit[r].by # NoAgent => submit[r].by # submit[other(r)].by
    <2>1. /\ submit["buyer"] # NoSubmit /\ submit["seller"] # NoSubmit
          /\ triple_ok(submit["buyer"], submit["seller"])
      BY <1>1 DEF require_matched_capture, FieldsInv, SealedAgrees
    <2>2. canonicalize("captured") = "captured"
      BY DEF canonicalize
    <2>3. canonicalize(submit[r].doc) = "captured"
      BY <2>1, <2>2 DEF triple_ok, fields_hash, protocol_fields_hash, Role
    <2>4. submit[r].by # NoAgent => submit[r].by # submit[other(r)].by
      BY <2>1 DEF FieldsInv, TwoSubmitters, other, Role
    <2> QED BY <2>1, <2>3, <2>4 DEF FieldsInv, OpenedForRole, Role
  <1>2. MatchedAgrees
    BY <1>1 DEF MatchedAgrees
  <1> QED BY <1>2 DEF FieldsInv, AcceptedIsPaid, BudgetHolds

LEMMA StepKeepsSeal == [FieldsNext]_fieldVars => [sealKept]_fieldVars
  <1> SUFFICES ASSUME FieldsNext, status = "MATCHED" PROVE UNCHANGED <<status, submit, attempts>>
    BY DEF sealKept
  <1>1. ttl_passes
    BY DEF FieldsNext, reject_nonce, reject_attempts, submit_encrypted, open_for_submit,
           finalize_triple_match, may_finalize, read_expired, expired
  <1> QED BY <1>1 DEF ttl_passes

\* A capture that passes require_matched_capture was agreed by two different
\* parties, the ones it names, within the budget; and once sealed it stays so.
THEOREM SealHolds == FieldsSpec => FieldsSealed
  BY InitFieldsInv, NextFieldsInv, Sealed, StepKeepsSeal, PTL DEF FieldsSpec, FieldsSealed

=============================================================================
