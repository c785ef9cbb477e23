-------------------------- MODULE VerifierNetwork --------------------------
(***************************************************************************)
(* The verifier network's tables and who writes them: the API routes       *)
(* (registration, stake, attestations, challenges) and the worker's tasks  *)
(* (auto-verify, challenge expiry, reputation).  A route or a task that    *)
(* changes a row reads it in its own session and commits later what it     *)
(* computed; with Overlap such sessions overlap, without it each one runs  *)
(* alone.  Celery may deliver a task again.                                *)
(***************************************************************************)
EXTENDS Integers, FiniteSets, FiniteSetsExt

CONSTANTS Nodes,          \* verifier rows
          Wallets,
          Overlap,        \* may sessions overlap?
          RulesAvailable, \* can the worker import the rules package?
          MaxRows,        \* bound on the attestations
          MaxClock, Window \* bound on the clock, length of a challenge window

NetworkAssumption ==
    /\ Overlap \in BOOLEAN /\ RulesAvailable \in BOOLEAN
    /\ MaxRows \in Nat /\ MaxClock \in Nat /\ Window \in Nat

Best == 10    \* the best reputation, a hundred points, in steps of ten

Node == [wallet : Wallets \union {"none"}, active : BOOLEAN, total : 0 .. MaxRows,
         successful : 0 .. MaxRows, reputation : 0 .. Best]
Decisions == {"ATTESTED_OK", "ATTESTED_FAIL", "FLAGGED"}
Attestation == Nodes \X {"node", "worker"} \X Decisions
Challenge == [status : {"none", "OPEN", "RESOLVED", "DISMISSED", "EXPIRED"},
              end : 0 .. (MaxClock + Window), arbiter : BOOLEAN]

Nothing == [kind |-> "none"]

VARIABLES node,
          rows,       \* how many attestations of each kind the table holds
          challenge, clock,
          session    \* what each side has read and not committed yet

vars == <<node, rows, challenge, clock, session>>

TypeOK ==
    /\ node \in [Nodes -> Node]
    /\ rows \in [Attestation -> 0 .. MaxRows]
    /\ challenge \in Challenge /\ clock \in 0 .. MaxClock
    /\ session["api"].kind \in {"none", "submit", "resolve"}
    /\ session["worker"].kind \in {"none", "expire"}

Absent == [wallet |-> "none", active |-> FALSE, total |-> 0, successful |-> 0,
           reputation |-> 0]

Init ==
    /\ node = [n \in Nodes |-> Absent] /\ rows = [a \in Attestation |-> 0]
    /\ challenge = [status |-> "none", end |-> 0, arbiter |-> FALSE]
    /\ clock = 0 /\ session = [s \in {"api", "worker"} |-> Nothing]

Stored(S) == MapThenSumSet(LAMBDA a : rows[a], S)
Idle == Overlap \/ \A s \in {"api", "worker"} : session[s] = Nothing

-----------------------------------------------------------------------------
\* register_verifier: one row per wallet.
register_verifier(n, w) ==
    /\ Idle /\ node[n] = Absent
    /\ \A m \in Nodes : node[m].wallet # w
    /\ node' = [node EXCEPT ![n] = [Absent EXCEPT !.wallet = w, !.active = TRUE]]
    /\ UNCHANGED <<rows, challenge, clock, session>>

\* An operator deactivates a row; no route does.
Deactivate(n) ==
    /\ Idle /\ node[n].active /\ node' = [node EXCEPT ![n].active = FALSE]
    /\ UNCHANGED <<rows, challenge, clock, session>>

\* The counters after one more attestation.
counted(r, decision) ==
    [r EXCEPT !.total = @ + 1,
              !.successful = IF decision = "ATTESTED_OK" THEN @ + 1 ELSE @]

\* submit_attestation: the row of the verifier is read, found active, and the
\* counters computed from it are committed with the attestation.
submit_attestation(n, decision) ==
    /\ Idle /\ session["api"] = Nothing /\ node[n].active
    /\ Stored(Attestation) < MaxRows
    /\ session' = [session EXCEPT !["api"] =
          [kind |-> "submit", n |-> n, decision |-> decision, row |-> node[n]]]
    /\ UNCHANGED <<node, rows, challenge, clock>>

commit_attestation ==
    LET s == session["api"] IN
    /\ s.kind = "submit" /\ Stored(Attestation) < MaxRows
    /\ rows' = [rows EXCEPT ![<<s.n, "node", s.decision>>] = @ + 1]
    /\ LET c == counted(s.row, s.decision)
       IN node' = [node EXCEPT ![s.n].total = c.total,
                               ![s.n].successful =
                                   IF c.successful = s.row.successful THEN @ ELSE c.successful]
    /\ session' = [session EXCEPT !["api"] = Nothing]
    /\ UNCHANGED <<challenge, clock>>

\* _async_auto_verify: the same answer for every active verifier.  The rules
\* are asked about an empty stand-in bundle and their answer is read from a
\* key they do not set, so with the rules every decision is ATTESTED_FAIL;
\* without them every one is ATTESTED_OK.
auto_decision == IF RulesAvailable THEN "ATTESTED_FAIL" ELSE "ATTESTED_OK"

\* One delivery of auto_verify_bundle; a redelivery repeats all of it.
auto_verify_bundle ==
    LET active == {n \in Nodes : node[n].active}
    IN /\ Idle /\ active # {}
       /\ Stored(Attestation) + Cardinality(active) <= MaxRows
       /\ rows' = [a \in Attestation |->
                     IF a[1] \in active /\ a[2] = "worker" /\ a[3] = auto_decision
                     THEN rows[a] + 1 ELSE rows[a]]
       /\ node' = [n \in Nodes |-> IF n \in active THEN counted(node[n], auto_decision)
                                   ELSE node[n]]
       /\ UNCHANGED <<challenge, clock, session>>

\* update_verifier_reputation: a moving average towards the success rate, for
\* rows with attestations.
new_score(r) == (7 * r.reputation + (3 * Best * r.successful) \div r.total) \div 10

update_verifier_reputation ==
    /\ Idle
    /\ node' = [n \in Nodes |-> IF node[n].total > 0
                                THEN [node[n] EXCEPT !.reputation = new_score(node[n])]
                                ELSE node[n]]
    /\ UNCHANGED <<rows, challenge, clock, session>>

-----------------------------------------------------------------------------
open_challenge ==
    /\ Idle /\ challenge.status = "none" /\ clock + Window < MaxClock
    /\ challenge' = [status |-> "OPEN", end |-> clock + Window, arbiter |-> FALSE]
    /\ UNCHANGED <<node, rows, clock, session>>

\* resolve_challenge: the row is read and found open, then written.
resolve_challenge(status) ==
    /\ Idle /\ session["api"] = Nothing /\ challenge.status = "OPEN"
    /\ session' = [session EXCEPT !["api"] = [kind |-> "resolve", status |-> status]]
    /\ UNCHANGED <<node, rows, challenge, clock>>

commit_resolution ==
    /\ session["api"].kind = "resolve"
    /\ challenge' = [challenge EXCEPT !.status = session["api"].status, !.arbiter = TRUE]
    /\ session' = [session EXCEPT !["api"] = Nothing]
    /\ UNCHANGED <<node, rows, clock>>


\* Mutant: only challenges marked ACTIVE are looked for.
past_window_active(c) == c.status = "ACTIVE" /\ c.end < clock

\* check_challenge_expiry: challenges past their window, committed together.
past_window(c) == c.status = "OPEN" /\ c.end < clock

check_challenge_expiry ==
    /\ Idle /\ session["worker"] = Nothing /\ past_window(challenge)
    /\ session' = [session EXCEPT !["worker"] = [kind |-> "expire"]]
    /\ UNCHANGED <<node, rows, challenge, clock>>

commit_expiry ==
    /\ session["worker"].kind = "expire"
    /\ challenge' = [challenge EXCEPT !.status = "EXPIRED"]
    /\ session' = [session EXCEPT !["worker"] = Nothing]
    /\ UNCHANGED <<node, rows, clock>>

Tick ==
    /\ clock < MaxClock /\ clock' = clock + 1
    /\ UNCHANGED <<node, rows, challenge, session>>

Next ==
    \/ \E n \in Nodes, w \in Wallets : register_verifier(n, w)
    \/ \E n \in Nodes : Deactivate(n)
    \/ \E n \in Nodes, d \in {"ATTESTED_OK", "ATTESTED_FAIL", "FLAGGED"} :
           submit_attestation(n, d)
    \/ commit_attestation
    \/ auto_verify_bundle
    \/ update_verifier_reputation
    \/ open_challenge
    \/ \E s \in {"RESOLVED", "DISMISSED"} : resolve_challenge(s)
    \/ commit_resolution
    \/ check_challenge_expiry
    \/ commit_expiry
    \/ Tick

Spec == Init /\ [][Next]_vars

\* The clock runs, an answered session commits, and the beat runs the expiry.
Fairness ==
    /\ WF_vars(Tick) /\ WF_vars(check_challenge_expiry)
    /\ WF_vars(commit_resolution) /\ WF_vars(commit_attestation) /\ WF_vars(commit_expiry)

-----------------------------------------------------------------------------
RowsOf(n, ds) == Stored({n} \X {"node", "worker"} \X ds)

\* A verifier's counters are the number of its attestations and of the
\* successful ones, however route and worker take turns.
CountersMatchRows ==
    \A n \in Nodes :
        /\ node[n].total = RowsOf(n, Decisions)
        /\ node[n].successful = RowsOf(n, {"ATTESTED_OK"})

\* A reputation is earned by successful attestations and stays within its
\* scale however often it is recalculated.
ReputationEarned ==
    \A n \in Nodes :
        /\ node[n].reputation > 0 => RowsOf(n, {"ATTESTED_OK"}) > 0
        /\ node[n].reputation <= Best

\* A wallet is one verifier: it gives its vote once.
OneVerifierPerWallet ==
    \A m, n \in Nodes : m # n /\ node[m].wallet = node[n].wallet => node[m].wallet = "none"

\* What an arbiter resolved is not expired afterwards.
ResolutionStands ==
    challenge.arbiter => challenge'.status = challenge.status

\* Every challenge is answered: resolved, dismissed or expired.
ChallengeEnds == challenge.status = "OPEN" ~> challenge.status # "OPEN"

-----------------------------------------------------------------------------
=============================================================================
