------------------------------ MODULE ScanQueue ------------------------------
(***************************************************************************)
(* The queue of responsibility scans: runs are created, claimed by runners *)
(* under a lease, executed, retried, dead-lettered, requeued, purged and   *)
(* cancelled through api/routes/responsibility.py. A request is one        *)
(* transaction. Claiming and executing read a row first and write it at    *)
(* the end, without a lock, so they are two steps; the status "running" is *)
(* set and left within the transaction and nobody else ever sees it.       *)
(*                                                                         *)
(* Runs are numbered in the order of creation. Time is what it does to a   *)
(* lease and to a retry window.                                            *)
(***************************************************************************)
EXTENDS Integers, FiniteSets

CONSTANTS
    Runs,          \* bound: runs ever created
    Runner,        \* worker identities
    None,
    MaxAttempts,   \* retry_max_attempts
    MaxClaims,     \* bound: claims that are not followed by an execution
    AttemptBound,  \* bound: attempts counted on a run that is executed by its number
    InFlight       \* bound: transactions open at once

MaxAttemptsAssumption == MaxAttempts \in Nat \ {0}

VARIABLES
    run,       \* ResponsibilityScanRunModel by number
    result,    \* how many times the findings of an execution are stored
    tx,        \* the open transaction of a runner
    tries,     \* history: failed executions without force, up to one too many
    claims

vars == <<run, result, tx, tries, claims>>

Scan == 1..Runs

NoRun == [status |-> "none", attempt |-> 0, by |-> None, lease |-> "none", due |-> FALSE]

NoTx == [kind |-> "none", scan |-> 0, row |-> NoRun, seen |-> 0]

Init ==
    /\ run = [s \in Scan |-> NoRun]
    /\ result = [s \in Scan |-> 0]
    /\ tx = [w \in Runner |-> NoTx]
    /\ tries = [s \in Scan |-> 0]
    /\ claims = 0

open == {w \in Runner : tx[w].kind # "none"}

quiet == Cardinality(open) < InFlight

In(status) == {s \in Scan : run[s].status = status}

tried(s) == [tries EXCEPT ![s] = IF @ > MaxAttempts THEN @ ELSE @ + 1]

clear_claim_fields(r) == [r EXCEPT !.by = None, !.lease = "none"]

completed(r) == [clear_claim_fields(r) EXCEPT !.status = "completed", !.attempt = @ + 1,
                                              !.due = FALSE]

failed(r) == [clear_claim_fields(r) EXCEPT !.status = "failed", !.attempt = @ + 1,
                                           !.due = FALSE]

-----------------------------------------------------------------------------
(* Creating and claiming                                                   *)

next_scan == CHOOSE s \in Scan : run[s].status = "none" /\ \A t \in Scan :
                                 run[t].status = "none" => s <= t

\* execution_mode async; sync executes at once and keeps only a success.
run_batch_scan(sync) ==
    /\ quiet
    /\ In("none") # {}
    /\ run' = [run EXCEPT ![next_scan] =
                 IF sync THEN [NoRun EXCEPT !.status = "completed", !.attempt = 1]
                         ELSE [NoRun EXCEPT !.status = "pending"]]
    /\ result' = [result EXCEPT ![next_scan] = IF sync THEN 1 ELSE 0]
    /\ UNCHANGED <<tx, tries, claims>>

pendingOf(rows) == {s \in Scan : rows[s].status = "pending"}

staleOf(rows) == {s \in Scan : rows[s].status = "claimed" /\ rows[s].lease = "expired"}

dueOf(rows) == {s \in Scan : /\ rows[s].status = "failed"
                             /\ rows[s].attempt < MaxAttempts
                             /\ rows[s].due}

\* The oldest pending run, or else a stale claim, or else a failed run.
claim_next_scan_run(rows) ==
    IF pendingOf(rows) # {} THEN {s \in pendingOf(rows) : \A t \in pendingOf(rows) : s <= t}
    ELSE IF staleOf(rows) # {} THEN staleOf(rows)
    ELSE dueOf(rows)

begin(w, kind, s) ==
    /\ quiet
    /\ tx[w].kind = "none"
    /\ tx' = [tx EXCEPT ![w] = [kind |-> kind, scan |-> s, row |-> run[s], seen |-> result[s]]]

claim_begin(w) ==
    /\ claims < MaxClaims
    /\ claims' = claims + 1
    /\ \E s \in claim_next_scan_run(run) : begin(w, "claim", s)
    /\ UNCHANGED <<run, result, tries>>

claimed(r, w) == [r EXCEPT !.status = "claimed", !.by = w, !.lease = "live"]

claim_commit(w) ==
    /\ tx[w].kind = "claim"
    /\ run' = [run EXCEPT ![tx[w].scan] = claimed(tx[w].row, w)]
    /\ tx' = [tx EXCEPT ![w] = NoTx]
    /\ UNCHANGED <<result, tries, claims>>

heartbeat_scan_run(w, s) ==
    /\ quiet
    /\ run[s].status = "claimed"
    /\ run[s].by \in {None, w}
    /\ run' = [run EXCEPT ![s].by = w, ![s].lease = "live"]
    /\ UNCHANGED <<result, tx, tries, claims>>

-----------------------------------------------------------------------------
(* Executing                                                               *)

pull_begin(w) ==
    /\ \E s \in claim_next_scan_run(run) : begin(w, "pull", s)
    /\ UNCHANGED <<run, result, tries, claims>>

\* What execute_scan_run refuses or answers without executing. The runner
\* may leave out its name.
executable(s, w, named, force) ==
    /\ run[s].status \notin {"none", "purged", "cancelled"}
    /\ run[s].status = "claimed" /\ named => run[s].by \in {None, w}
    /\ run[s].status = "completed" => force
    /\ run[s].status = "failed" => force \/ (run[s].due /\ run[s].attempt < MaxAttempts)

execute_begin(w, s, force) ==
    /\ \E named \in BOOLEAN : executable(s, w, named, force)
    /\ run[s].attempt < AttemptBound
    /\ begin(w, IF force THEN "force" ELSE "execute", s)
    /\ UNCHANGED <<run, result, tries, claims>>

\* Old findings are deleted, the new ones stored, the row written.
execute_scan_run(w) ==
    LET s == tx[w].scan IN
    /\ tx[w].kind \in {"pull", "execute", "force"}
    /\ run[s].status # "purged"
    /\ run' = [run EXCEPT ![s] = completed(tx[w].row)]
    /\ result' = [result EXCEPT ![s] = @ - tx[w].seen + 1]
    /\ tx' = [tx EXCEPT ![w] = NoTx]
    /\ UNCHANGED <<tries, claims>>

\* pull_and_execute_scan_run keeps the failure; the execute and retry routes
\* turn it into an HTTP error, which rolls back.
execution_failed(w) ==
    LET s == tx[w].scan IN
    /\ tx[w].kind \in {"pull", "execute", "force"}
    /\ run[s].status # "purged"
    /\ run' = IF tx[w].kind = "pull" THEN [run EXCEPT ![s] = failed(tx[w].row)] ELSE run
    /\ tx' = [tx EXCEPT ![w] = NoTx]
    /\ tries' = IF tx[w].kind = "force" THEN tries ELSE tried(s)
    /\ UNCHANGED <<result, claims>>

\* The process dies: its transaction is rolled back.
crash(w) ==
    /\ tx[w].kind # "none"
    /\ tx' = [tx EXCEPT ![w] = NoTx]
    /\ UNCHANGED <<run, result, tries, claims>>

-----------------------------------------------------------------------------
(* Maintenance                                                             *)

recovered(rows) ==
    [s \in Scan |-> IF s \in staleOf(rows)
                    THEN [clear_claim_fields(rows[s]) EXCEPT !.status = "pending", !.due = FALSE]
                    ELSE rows[s]]

recover_stale_scan_runs ==
    /\ quiet
    /\ staleOf(run) # {}
    /\ run' = recovered(run)
    /\ UNCHANGED <<result, tx, tries, claims>>

\* Recover, then pull and execute one run, all in one transaction.
run_scan_queue_maintenance_tick ==
    LET rows == recovered(run) IN
    /\ quiet
    /\ \E s \in claim_next_scan_run(rows) :
          \/ /\ run' = [rows EXCEPT ![s] = completed(@)]
             /\ result' = [result EXCEPT ![s] = 1]
             /\ UNCHANGED tries
          \/ /\ run' = [rows EXCEPT ![s] = failed(@)]
             /\ tries' = tried(s)
             /\ UNCHANGED result
    /\ UNCHANGED <<tx, claims>>

exhausted == {s \in In("failed") : run[s].attempt >= MaxAttempts}

sweep_dead_letter_scan_runs ==
    /\ quiet
    /\ exhausted # {}
    /\ run' = [s \in Scan |-> IF s \in exhausted
                 THEN [clear_claim_fields(run[s]) EXCEPT !.status = "dead_letter"] ELSE run[s]]
    /\ UNCHANGED <<result, tx, tries, claims>>

requeued(r) == [clear_claim_fields(r) EXCEPT !.status = "pending", !.attempt = 0, !.due = FALSE]

requeue_dead_letter_scan_run(s) ==
    /\ quiet
    /\ run[s].status = "dead_letter"
    /\ run' = [run EXCEPT ![s] = requeued(@)]
    /\ tries' = [tries EXCEPT ![s] = 0]
    /\ UNCHANGED <<result, tx, claims>>

requeue_dead_letter_scan_runs ==
    /\ quiet
    /\ In("dead_letter") # {}
    /\ run' = [s \in Scan |-> IF s \in In("dead_letter") THEN requeued(run[s]) ELSE run[s]]
    /\ tries' = [s \in Scan |-> IF s \in In("dead_letter") THEN 0 ELSE tries[s]]
    /\ UNCHANGED <<result, tx, claims>>

purge_dead_letter_scan_runs(s) ==
    /\ quiet
    /\ run[s].status = "dead_letter"
    /\ run' = [run EXCEPT ![s] = [NoRun EXCEPT !.status = "purged"]]
    /\ result' = [result EXCEPT ![s] = 0]
    /\ UNCHANGED <<tx, tries, claims>>

\* An operator names no runner and may cancel anybody's run.
cancel_scan_run(s) ==
    /\ quiet
    /\ run[s].status \notin {"none", "purged", "completed", "cancelled"}
    /\ run' = [run EXCEPT ![s].status = "cancelled", ![s].lease = "none", ![s].due = FALSE]
    /\ UNCHANGED <<result, tx, tries, claims>>

lease_expires(s) ==
    /\ run[s].lease = "live"
    /\ run' = [run EXCEPT ![s].lease = "expired"]
    /\ UNCHANGED <<result, tx, tries, claims>>

retry_window_opens(s) ==
    /\ run[s].status = "failed"
    /\ ~run[s].due
    /\ run[s].attempt < MaxAttempts
    /\ run' = [run EXCEPT ![s].due = TRUE]
    /\ UNCHANGED <<result, tx, tries, claims>>

Operate ==
    \/ \E sync \in BOOLEAN : run_batch_scan(sync)
    \/ recover_stale_scan_runs
    \/ run_scan_queue_maintenance_tick
    \/ sweep_dead_letter_scan_runs
    \/ requeue_dead_letter_scan_runs
    \/ \E s \in Scan : \/ requeue_dead_letter_scan_run(s)
                       \/ purge_dead_letter_scan_runs(s)
                       \/ cancel_scan_run(s)
                       \/ lease_expires(s)
                       \/ retry_window_opens(s)

Work ==
    \E w \in Runner :
        \/ claim_begin(w) \/ claim_commit(w)
        \/ pull_begin(w) \/ execute_scan_run(w) \/ execution_failed(w) \/ crash(w)
        \/ \E s \in Scan : \/ heartbeat_scan_run(w, s)
                           \/ \E force \in BOOLEAN : execute_begin(w, s, force)

Next == Operate \/ Work

Spec == Init /\ [][Next]_vars

\* Somebody calls the maintenance tick and the sweep again and again, time
\* passes and an open transaction ends.
Fairness ==
    /\ SF_vars(run_scan_queue_maintenance_tick)
    /\ SF_vars(sweep_dead_letter_scan_runs)
    /\ \A s \in Scan : WF_vars(lease_expires(s)) /\ WF_vars(retry_window_opens(s))
    /\ \A w \in Runner : WF_vars(claim_commit(w) \/ execute_scan_run(w)
                                 \/ execution_failed(w) \/ crash(w))

FairSpec == Spec /\ Fairness

-----------------------------------------------------------------------------
TypeOK ==
    /\ \A s \in Scan : /\ run[s].by \in Runner \cup {None}
                       /\ run[s].lease \in {"none", "live", "expired"}
                       /\ run[s].attempt \in Nat
    /\ result \in [Scan -> Nat]

\* A claimed run has an owner and a lease, and no other run has a lease, so
\* that none is lost with the runner that claimed it.
ClaimsCanBeRecovered ==
    \A s \in Scan : /\ run[s].status = "claimed" => run[s].by # None
                    /\ run[s].status = "claimed" <=> run[s].lease # "none"

\* A run that waits for a runner has an attempt left; otherwise executing it
\* would go past retry_max_attempts.
QueuedRunsHaveAttemptsLeft ==
    \A s \in Scan : run[s].status \in {"pending", "claimed"} => run[s].attempt < MaxAttempts

\* The findings stored for a completed run are those of one execution.
CompletedHasOneResult ==
    \A s \in Scan : run[s].status = "completed" => result[s] = 1

\* A cancelled run stays cancelled and a completed run stays completed.
TerminalStays ==
    \A s \in Scan : run[s].status \in {"cancelled", "completed"}
                    => run'[s].status = run[s].status

\* A queued run is executed, cancelled or given up in the end.
QueuedRunsEnd ==
    \A s \in Scan : (run[s].status \in {"pending", "claimed", "failed"})
                    ~> (run[s].status \in {"completed", "cancelled", "dead_letter", "purged"})
=============================================================================
