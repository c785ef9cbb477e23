------------------------- MODULE AttestationQuorum -------------------------
(***************************************************************************)
(* The decentralized verification of one task, as the SDK client drives    *)
(* it: the evidence bundle is published, verifier nodes fetch it and       *)
(* attest, the attestations are aggregated into an N-of-M quorum in the    *)
(* order in which they arrive, a challenge window runs, and the settlement *)
(* adapter turns quorum and window into a call plan.  A hash stands for    *)
(* the content it is taken of: the published bundle, or the empty object a *)
(* failed fetch returns.  What the rules decide about the bundle itself is *)
(* the subject of EvidenceChain; here it is the value of sound.            *)
(***************************************************************************)
EXTENDS Naturals, FiniteSets, Sequences, SequencesExt

CONSTANTS Verifiers,
          Registry,     \* registered verifiers, {} when none is configured
          Inactive,     \* verifiers whose registration is not active
          Threshold,
          HasMinio, HasSigner,   \* what the publisher is configured with
          Duration,     \* default_duration_seconds, in ticks
          TaskTypes,
          MaxClock,     \* bound on the clock
          MaxArrivals   \* bound on the attestations received

ThresholdAssumption ==
    /\ Threshold \in 1 .. Cardinality(Verifiers)
    /\ Duration \in Nat /\ MaxClock \in Nat /\ MaxArrivals \in Nat
    /\ Registry \subseteq Verifiers /\ Inactive \subseteq Verifiers

Hashes == {"bundle", "empty", ""}
Decisions == {"STRUCT_OK", "STRUCT_FAIL"}
Attestation == [verifier : Verifiers, hash : Hashes, decision : Decisions,
                signed : BOOLEAN]
Quorum == [status : {"none", "attested_ok", "insufficient_signatures"},
           hash : Hashes, ids : Seq(Verifiers),
           decision : {"ATTESTED_OK", "ATTESTED_FAIL"}]
Window == [status : {"pending", "open", "closed", "disputed"},
           kind : TaskTypes, start : 0 .. MaxClock, end : Nat,
           challenge : {"none", "open", "upheld", "overruled"}]
Publication == [cid : BOOLEAN, provider : {"", "none", "ipfs", "minio", "ipfs+minio"},
                signed : BOOLEAN]

VARIABLES sound,     \* does the published bundle satisfy the rules?
          pub,       \* the publication record; provider "" before
          inbox,     \* the attestations in the order they arrived
          quorum, window, clock,
          ready,     \* the last answer of check_settlement_ready
          plan       \* onchain_status of the last attested plan

vars == <<sound, pub, inbox, quorum, window, clock, ready, plan>>

PlanStatus == {"none", "blocked_quorum", "blocked_challenge_window_open",
               "blocked_disputed", "operational_blocked", "calls",
               "calls_without_payout"}

TypeOK ==
    /\ sound \in BOOLEAN /\ pub \in Publication
    /\ inbox \in Seq(Attestation) /\ Len(inbox) <= MaxArrivals
    /\ quorum \in Quorum /\ window \in Window
    /\ clock \in 0 .. MaxClock /\ ready \in BOOLEAN /\ plan \in PlanStatus

\* _empty_quorum, and the record before the first collection.
empty_quorum(status) == [status |-> status, hash |-> "", ids |-> <<>>,
                         decision |-> "ATTESTED_FAIL"]

NoWindow(k) == [status |-> "pending", kind |-> k, start |-> 0, end |-> 0,
                challenge |-> "none"]

Init ==
    /\ sound \in BOOLEAN
    /\ pub = [cid |-> FALSE, provider |-> "", signed |-> FALSE]
    /\ inbox = <<>> /\ quorum = empty_quorum("none")
    /\ window \in {NoWindow(k) : k \in TaskTypes}
    /\ clock = 0 /\ ready = FALSE /\ plan = "none"

-----------------------------------------------------------------------------
\* _upload_to_ipfs: two attempts, a cid from the first that answers with one.
upload_to_ipfs(answers) == \E i \in 1 .. 2 : answers[i]

\* publish: the hash always, then IPFS, the MinIO cache, and a signature over
\* the proof only where there is a cid.
publish(answers, stored) ==
    LET cid == upload_to_ipfs(answers)
    IN /\ pub.provider = "" /\ (stored => HasMinio)
       /\ pub' = [cid |-> cid,
                  provider |-> IF stored THEN IF cid THEN "ipfs+minio" ELSE "minio"
                               ELSE IF cid THEN "ipfs" ELSE "none",
                  signed |-> HasSigner /\ cid]
       /\ UNCHANGED <<sound, inbox, quorum, window, clock, ready, plan>>

\* fetch_evidence: the bundle, or an empty object after any failure of the
\* gateway; without a cid there is nothing to fetch.
fetch_evidence(got) == IF got /\ pub.cid THEN "bundle" ELSE "empty"

\* KarmaVerifierNode.verify: both rule sets must pass; the attestation names
\* the hash of what was looked at, whatever it was.
verify(v, hash, signed) ==
    [verifier |-> v, hash |-> hash, signed |-> signed,
     decision |-> IF hash = "bundle" /\ sound THEN "STRUCT_OK" ELSE "STRUCT_FAIL"]

\* verify_and_attest with a bundle fetched by its cid (direct = FALSE) or
\* handed over; unsigned when the node has neither key nor signer.
verify_and_attest(v, got, direct, signed) ==
    /\ pub.provider # "" /\ Len(inbox) < MaxArrivals
    /\ inbox' = Append(inbox, verify(v, IF direct THEN "bundle"
                                        ELSE fetch_evidence(got), signed))
    /\ UNCHANGED <<sound, pub, quorum, window, clock, ready, plan>>

-----------------------------------------------------------------------------
\* Step 1 of collect: one attestation per verifier, the first seen.
deduped(s) ==
    FoldLeft(LAMBDA acc, a : IF \E b \in ToSet(acc) : b.verifier = a.verifier
                             THEN acc ELSE Append(acc, a), <<>>, s)

\* Step 2: with a registry only its active verifiers count.
registered(a) == Registry # {} => a.verifier \in Registry \ Inactive

\* Step 4: verify_attestation, which answers FALSE without a signature.
verify_attestation(a) == a.signed

\* _compute_verdict over the valid attestations.
compute_verdict(s) ==
    LET ok == Len(SelectSeq(s, LAMBDA a : a.decision = "STRUCT_OK"))
    IN IF s # <<>> /\ ok >= Len(s) - ok THEN "ATTESTED_OK" ELSE "ATTESTED_FAIL"

\* Steps 3 to 6: the first attestation left fixes the canonical hash, the
\* others with that hash are checked and counted.
canonical(s) == SelectSeq(s, LAMBDA a : s # <<>> /\ a.hash = Head(s).hash)

valid_attestations(s) ==
    SelectSeq(canonical(SelectSeq(deduped(s), registered)), verify_attestation)

collect(s) ==
    LET reg   == SelectSeq(deduped(s), registered)
        valid == valid_attestations(s)
    IN IF reg = <<>> THEN empty_quorum("insufficient_signatures")
       ELSE [status |-> IF Len(valid) >= Threshold THEN "attested_ok"
                        ELSE "insufficient_signatures",
             hash |-> Head(reg).hash,
             ids |-> [i \in DOMAIN valid |-> valid[i].verifier],
             decision |-> compute_verdict(valid)]


\* collect_quorum over what has arrived so far.
collect_quorum ==
    /\ quorum' = collect(inbox)
    /\ UNCHANGED <<sound, pub, inbox, window, clock, ready, plan>>

-----------------------------------------------------------------------------
\* _sync_window_status: only an open window closes, after its end.
synced(w) == IF w.status = "open" /\ clock > w.end
             THEN [w EXCEPT !.status = "closed"] ELSE w

\* open_window: the duration is the manager's, whatever the type of the task.
duration(kind) == Duration

open_window ==
    /\ window.status = "pending"
    /\ window' = [window EXCEPT !.status = "open", !.start = clock,
                                !.end = clock + duration(window.kind)]
    /\ UNCHANGED <<sound, pub, inbox, quorum, clock, ready, plan>>

\* raise_challenge: once, in an open window.
raise_challenge ==
    LET w == synced(window)
    IN /\ w.status = "open" /\ w.challenge = "none"
       /\ window' = [w EXCEPT !.challenge = "open", !.status = "disputed"]
       /\ UNCHANGED <<sound, pub, inbox, quorum, clock, ready, plan>>

\* resolve_challenge: upheld keeps the dispute; overruled synchronises the
\* status, which leaves a disputed window as it is.  It may be called again.
resolve_challenge(decision) ==
    /\ window.challenge # "none"
    /\ window' = IF decision = "upheld"
                 THEN [window EXCEPT !.challenge = "upheld", !.status = "disputed"]
                 ELSE synced([window EXCEPT !.challenge = "overruled"])
    /\ UNCHANGED <<sound, pub, inbox, quorum, clock, ready, plan>>

Tick ==
    /\ clock < MaxClock /\ clock' = clock + 1
    /\ UNCHANGED <<sound, pub, inbox, quorum, window, ready, plan>>

-----------------------------------------------------------------------------
\* check_settlement_ready: quorum, closed window, no dispute; it synchronises
\* the window it looks at.
check_settlement_ready ==
    LET w == synced(window)
    IN /\ window' = IF quorum.status = "attested_ok" THEN w ELSE window
       /\ ready' = (quorum.status = "attested_ok" /\ w.status = "closed")
       /\ UNCHANGED <<sound, pub, inbox, quorum, clock, plan>>

\* The calls of the plan without settle and finalizeSettle under pause_payout.
bilateral_calls(pause_payout) == IF pause_payout THEN "calls_without_payout" ELSE "calls"

\* build_attested_plan: the recorded status of the window is used as it is.
attested_plan(blocked, pause_payout) ==
    IF quorum.status # "attested_ok" THEN "blocked_quorum"
    ELSE IF window.status = "open" THEN "blocked_challenge_window_open"
    ELSE IF window.status = "disputed" THEN "blocked_disputed"
    ELSE IF blocked THEN "operational_blocked"
    ELSE bilateral_calls(pause_payout)

\* The caller opens the window of a task before it asks for the plan.
build_attested_plan(blocked, pause_payout) ==
    /\ quorum.status # "none" /\ window.status # "pending"
    /\ plan' = attested_plan(blocked, pause_payout)
    /\ UNCHANGED <<sound, pub, inbox, quorum, window, clock, ready>>

Next ==
    \/ \E answers \in [1 .. 2 -> BOOLEAN], stored \in BOOLEAN : publish(answers, stored)
    \/ \E v \in Verifiers, got, direct, signed \in BOOLEAN :
           verify_and_attest(v, got, direct, signed)
    \/ collect_quorum
    \/ open_window
    \/ raise_challenge
    \/ \E d \in {"upheld", "overruled"} : resolve_challenge(d)
    \/ Tick
    \/ check_settlement_ready
    \/ \E blocked, pause_payout \in BOOLEAN : build_attested_plan(blocked, pause_payout)

Spec == Init /\ [][Next]_vars

-----------------------------------------------------------------------------
\* A quorum that is reached stands on Threshold different verifiers, active
\* where a registry is configured, each of which signed an attestation of the
\* quorum's evidence (aggregator.collect).
QuorumSound ==
    quorum.status = "attested_ok" =>
        /\ Cardinality({v \in Verifiers : \E a \in ToSet(inbox) :
               /\ a.verifier = v /\ a.signed /\ a.hash = quorum.hash}) >= Threshold
        /\ Registry # {} => ToSet(quorum.ids) \subseteq Registry \ Inactive

\* The verdict over the published bundle is the one its rules give, whatever
\* was fetched or sent twice: nodes that saw other content are not mixed in
\* (collect, _compute_verdict and KarmaVerifierNode.verify together).
VerdictMatchesEvidence ==
    quorum.status = "attested_ok" /\ quorum.hash = "bundle" =>
        (quorum.decision = "ATTESTED_OK" <=> sound)

\* More attestations never take a quorum away that an earlier collection
\* found: what arrived first fixes the canonical hash (aggregator.collect).
QuorumKept ==
    quorum.status = "attested_ok" => /\ quorum'.status = "attested_ok"
                                     /\ quorum'.hash = quorum.hash

\* A plan with a payout is only built after the end of a window in which
\* nobody challenged (build_attested_plan over ChallengeWindowManager).
PlanAfterQuietWindow ==
    plan \in {"calls", "calls_without_payout"} =>
        /\ window.challenge = "none" /\ clock > window.end

\* check_settlement_ready and build_attested_plan agree: once a task is said
\* to be ready, neither quorum nor window blocks its plan.
ReadyIsPlannable ==
    ready => attested_plan(FALSE, FALSE) = "calls"
=============================================================================
