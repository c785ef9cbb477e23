--------------------------- MODULE EvidenceChain ---------------------------
(***************************************************************************)
(* The receipts of one task and what is decided from them: the runtime's   *)
(* receipt store, the bundle builder, the runtime's structural check, the  *)
(* rules every verifier node runs, the gap diagnostics after a reload, the *)
(* stress harness's detectors and the off-chain settlement plan.  A        *)
(* receipt is honest or has one fault, chosen when it is written; within a *)
(* run its identifier determines its content, so identifiers stand for     *)
(* receipt hashes.                                                         *)
(***************************************************************************)
EXTENDS Naturals, FiniteSets, Sequences, SequencesExt

CONSTANTS MaxReceipts,  \* bound on the receipts of the task
          Faults,       \* the faults in play
          TaskTrace     \* does the task carry a trace_id?

AllFaults == {"none", "gap", "early", "same_time", "no_trace", "other_trace",
              "no_output", "bad_output", "forged_chain", "timeout", "malformed",
              "replay", "other_task"}

ChainAssumption ==
    /\ MaxReceipts \in Nat /\ TaskTrace \in BOOLEAN
    /\ Faults \subseteq AllFaults /\ "none" \in Faults

Ids == 1 .. MaxReceipts

Receipt == [id : Ids, task : BOOLEAN, step : 0 .. MaxReceipts,
            at : 0 .. MaxReceipts, ended : BOOLEAN, status : {"ok", "BAD"},
            output : {"sha", "bad", ""}, trace : {"t", "x", ""},
            prev : 0 .. (MaxReceipts + 1), body : Ids]

\* hash: the stored evidence_hash, if the bundle carries one; complete: are
\* task_contract_hash and the other required keys those of the task?
Bundle == [ids : Seq(Ids), complete : BOOLEAN, trace : {"t", ""}, hash : BOOLEAN]

VARIABLES written,    \* the receipts the agent wrote, in order
          store,      \* saved ones, by identifier
          bundle,     \* the evidence bundle built last
          verified,   \* decision of the runtime's check, "" when not asked
          plan        \* onchain_status of the last off-chain plan

vars == <<written, store, bundle, verified, plan>>

NoBundle == [ids |-> <<>>, complete |-> FALSE, trace |-> "", hash |-> FALSE]
\* The operational control in force at a call: a pause, or a frozen task.
Controls == {"none", "settlement", "payout", "verification", "task"}

TypeOK ==
    /\ written \in Seq(Receipt) /\ Len(written) <= MaxReceipts
    /\ store \subseteq Ids /\ bundle \in Bundle
    /\ verified \in {"", "STRUCT_OK", "STRUCT_FAIL"}
    /\ plan \in {"", "blocked_structural_failure", "operational_blocked",
                 "calls", "calls_without_payout"}

Init ==
    /\ written = <<>> /\ store = {} /\ bundle = NoBundle
    /\ verified = "" /\ plan = ""

-----------------------------------------------------------------------------
\* _build_honest_receipts: the next receipt of the chain.
honest(n) ==
    [id |-> n, task |-> TRUE, step |-> n - 1, at |-> n, ended |-> TRUE,
     status |-> "ok", output |-> "sha", trace |-> IF TaskTrace THEN "t" ELSE "",
     prev |-> n - 1, body |-> n]

\* The receipt with one fault; the first four kinds are those of _apply_attack.
faulty(n, f) ==
    CASE f = "timeout"      -> [honest(n) EXCEPT !.ended = FALSE]
      [] f = "malformed"    -> [honest(n) EXCEPT !.status = "BAD"]
      [] f = "forged_chain" -> [honest(n) EXCEPT !.prev = MaxReceipts + 1]
      [] f = "replay"       -> [written[1] EXCEPT !.id = n]
      [] f = "gap"          -> [honest(n) EXCEPT !.step = n]
      [] f = "early"        -> [honest(n) EXCEPT !.at = 0]
      [] f = "same_time"    -> [honest(n) EXCEPT !.at = written[n - 1].at]
      [] f = "no_trace"     -> [honest(n) EXCEPT !.trace = ""]
      [] f = "other_trace"  -> [honest(n) EXCEPT !.trace = "x"]
      [] f = "no_output"    -> [honest(n) EXCEPT !.output = ""]
      [] f = "bad_output"   -> [honest(n) EXCEPT !.output = "bad"]
      [] f = "other_task"   -> [honest(n) EXCEPT !.task = FALSE]
      [] OTHER              -> honest(n)

write(f) ==
    LET n == Len(written) + 1
    IN /\ n \in Ids /\ f \in Faults
       /\ f \in {"replay", "same_time", "early", "forged_chain"} => n > 1
       /\ written' = Append(written, faulty(n, f))
       /\ UNCHANGED <<store, bundle, verified, plan>>

\* save_receipt: a repeated save of the same payload is accepted; another
\* payload under a known identifier raises and changes nothing.  A receipt
\* may also be lost: nothing forces its save.
save_receipt(id) ==
    /\ id \in 1 .. Len(written) /\ store' = store \union {id}
    /\ UNCHANGED <<written, bundle, verified, plan>>

\* get_receipt_chain: the stored receipts of the task; verification sorts
\* them by (step_index, receipt_id).
before(a, b) == a.step < b.step \/ (a.step = b.step /\ a.id < b.id)
sorted(S) == SetToSortSeq({written[i] : i \in S}, before)
chain == sorted({i \in store : written[i].task})

hashes(rs) == [i \in DOMAIN rs |-> rs[i].id]

\* build_evidence_bundle: the hashes in the order of the identifiers given; a
\* missing receipt raises KeyError.  The caller may attach the
\* digest of the bundle.
build_evidence_bundle(ids, own_task, hash) ==
    /\ IsInjective(ids) /\ ToSet(ids) \subseteq store
    /\ bundle' = [ids |-> ids, complete |-> own_task,
                  trace |-> IF TaskTrace THEN "t" ELSE "", hash |-> hash]
    /\ verified' = "" /\ plan' = ""
    /\ UNCHANGED <<written, store>>

-----------------------------------------------------------------------------
\* started_at never before the one of an earlier step; equal is accepted.
chronological(rs) == \A i, j \in DOMAIN rs : i < j => rs[i].at <= rs[j].at

\* verification_block_reason and settlement_block_reason.
verification_blocked(pause) == pause \in {"verification", "task"}
settlement_blocked(pause) == pause \in {"settlement", "task"}

\* verify_evidence_bundle_structural, the runtime's check.
structural_ok ==
    /\ bundle.complete
    /\ chain # <<>>
    /\ TaskTrace => bundle.trace = "t" /\ \A r \in ToSet(chain) : r.trace = "t"
    /\ hashes(chain) = bundle.ids
    /\ chronological(chain)

verify_evidence_bundle_structural(pause) ==
    /\ bundle # NoBundle
    /\ verified' = IF ~verification_blocked(pause) /\ structural_ok THEN "STRUCT_OK" ELSE "STRUCT_FAIL"
    /\ UNCHANGED <<written, store, bundle, plan>>

\* structural_verify, the rule of the verifier nodes, over the receipts rs
\* handed to it.
structural_verify(rs) ==
    LET s == SortSeq(rs, before)
    IN /\ bundle.complete
       /\ rs # <<>>
       /\ hashes(s) = bundle.ids
       /\ chronological(s)
       /\ TaskTrace => /\ bundle.trace = "t"
                       /\ \A r \in ToSet(s) : r.trace \in {"", "t"}
       /\ \A r \in ToSet(s) : r.output # ""
       /\ \A i \in DOMAIN s : s[i].step = i - 1

\* verify_evidence_integrity: the stored evidence_hash is compared with the
\* hash of the bundle that contains it, so that it never matches.
verify_evidence_integrity(rs) ==
    /\ bundle.complete
    /\ Cardinality(ToSet(hashes(rs))) = Len(rs)
    /\ Len(bundle.ids) = Len(rs)
    /\ \A r \in ToSet(rs) : r.task /\ r.output = "sha"
    /\ ~bundle.hash

\* What a node that is handed every stored receipt decides.
node_ok(rs) == structural_verify(rs) /\ verify_evidence_integrity(rs)

\* describe_receipt_chain_gaps over the reloaded chain: nothing to report.
no_gaps(rs) ==
    /\ rs # <<>>
    /\ \A i \in DOMAIN rs : rs[i].step = i - 1
    /\ rs[1].step = 0 => rs[1].prev = 0
    /\ \A i \in 2 .. Len(rs) : rs[i].prev = rs[i - 1].id

\* The detectors of run_stress over everything written: schema errors, clones
\* of a body under another identifier, and broken links.
receipt_schema_errors(r) == r.status # "ok" \/ ~r.ended
replay_events(S) == \E a, b \in S : a.id # b.id /\ a.body = b.body
chain_link_errors(rs) ==
    \/ rs # <<>> /\ rs[1].step = 0 /\ rs[1].prev # 0
    \/ \E i \in 2 .. Len(rs) : rs[i].prev # rs[i - 1].id

agent_ok ==
    LET rs == sorted(1 .. Len(written))
    IN /\ ~ \E r \in ToSet(rs) : receipt_schema_errors(r)
       /\ ~ replay_events(ToSet(rs))
       /\ ~ chain_link_errors(rs)

-----------------------------------------------------------------------------
\* build_offchain_plan.
build_offchain_plan(pause) ==
    /\ verified # ""
    /\ plan' = IF verified # "STRUCT_OK" THEN "blocked_structural_failure"
               ELSE IF settlement_blocked(pause) THEN "operational_blocked"
               ELSE IF pause = "payout" THEN "calls_without_payout" ELSE "calls"
    /\ UNCHANGED <<written, store, bundle, verified>>

Next ==
    \/ \E f \in Faults : write(f)
    \/ \E id \in Ids : save_receipt(id)
    \/ \E n \in 1 .. MaxReceipts : \E ids \in [1 .. n -> Ids], own, hash \in BOOLEAN :
           build_evidence_bundle(ids, own, hash)
    \/ \E pause \in Controls : verify_evidence_bundle_structural(pause)
    \/ \E pause \in Controls : build_offchain_plan(pause)

Spec == Init /\ [][Next]_vars

-----------------------------------------------------------------------------
\* A bundle a verifier node accepts, given every stored receipt, is a trace:
\* exactly the stored receipts of this task, one per step from zero on, in
\* the order of their steps and times, each with a result hash.
AcceptedIsTrace ==
    LET rs == SetToSortSeq({written[i] : i \in store}, before)
    IN node_ok(rs) =>
        /\ {written[i].step : i \in store} = 0 .. (Cardinality(store) - 1)
        /\ \A i \in store : written[i].task /\ written[i].output = "sha"
        /\ ToSet(bundle.ids) = store /\ Len(bundle.ids) = Cardinality(store)
        /\ \A i, j \in store : written[i].step < written[j].step => written[i].at <= written[j].at

\* When the check answers, leaving out a stored receipt of the task fails it.
CheckCoversStore ==
    verified' = "STRUCT_OK" /\ verified # "STRUCT_OK" =>
      ToSet(bundle.ids) = {i \in store : written[i].task}

\* The harness's detectors and the reload diagnostics agree: a chain the
\* harness calls clean, once all of it is stored, has no gap to report.
CleanChainHasNoGaps ==
    /\ agent_ok /\ written # <<>> /\ store = 1 .. Len(written)
    /\ \A i \in store : written[i].step = i - 1
    => no_gaps(sorted(store))

-----------------------------------------------------------------------------
=============================================================================
