--------------------------- MODULE AgentReceipts ---------------------------
(***************************************************************************)
(* The receipts of one task, from the tool calls of an agent to the rows   *)
(* of the API.  KarmaOpenClawAgent numbers a call and hands it to the hook *)
(* layer, which numbers it again, runs the tool and saves the receipt in   *)
(* its own store (core/hooks/hook_layer.py); the bundle builder reads that *)
(* store; submit_all_receipts posts the agent's list one by one to the     *)
(* receipts route, which reads the latest row and inserts the next.  All   *)
(* of the agent is one event loop, so tool calls interleave at their       *)
(* awaits; requests of the API interleave between the read and the insert. *)
(* Signatures, hashes and extensions are left out: every receipt is well   *)
(* formed.                                                                 *)
(***************************************************************************)
EXTENDS Naturals, Sequences, FiniteSets, SequencesExt

CONSTANTS
    MaxCalls,     \* bound: tool calls, which also name their receipts
    Submitters,   \* the tasks of the agent that run submit_all_receipts
    MaxAttempt,   \* bound: attempts of the task, one reset less
    MaxPosts,     \* bound: submissions each submitter starts
    MaxTime,      \* bound: the clock
    Nil

VARIABLES
    call,         \* what is known of each call, its receipt once it ended
    hookStep,     \* KarmaHookLayer._step_counters[task]
    agentStep,    \* KarmaOpenClawAgent._step_counter[task]
    attempt,      \* how often the task was started (reset between)
    stored,       \* InMemoryReceiptStore._store, in the order of the saves
    collected,    \* the lists KarmaOpenClawAgent._receipts[task] has held
    bundle,       \* the receipts of the last bundle, Nil before
    sub,          \* each submitter: its list, place in it and request
    rows,         \* the rows of execution_receipts: their receipts
    now

agentVars == <<call, hookStep, agentStep, attempt, stored, collected>>
vars == <<agentVars, bundle, sub, rows, now>>

Calls == 1..MaxCalls
Times == 0..MaxTime
ToolStatus == {"success", "timeout"}
NotCalled == [pc |-> "idle", by |-> "hook", step |-> 0, attempt |-> 0,
              started |-> 0, ended |-> 0, status |-> "success"]
NotSending == [pc |-> "idle", posts |-> 0, list |-> 0, at |-> 0]

TypeOK ==
    /\ call \in [Calls -> [pc : {"idle", "running", "ended", "saved"}, by : {"hook", "sync"},
                           step : 0..MaxCalls, attempt : 0..MaxAttempt,
                           started : Times, ended : Times, status : ToolStatus]]
    /\ hookStep \in 0..MaxCalls /\ agentStep \in 0..MaxCalls
    /\ attempt \in 1..MaxAttempt
    /\ Range(stored) \subseteq Calls /\ rows \subseteq Calls
    /\ \A a \in 1..MaxAttempt : Range(collected[a]) \subseteq Calls
    /\ bundle = Nil \/ Range(bundle) \subseteq Range(stored)
    /\ sub \in [Submitters -> [pc : {"idle", "post", "insert", "raised", "done"},
                               posts : 0..MaxPosts, list : 0..MaxAttempt,
                               at : 0..MaxCalls + 1]]
    /\ now \in Times

Init ==
    /\ call = [c \in Calls |-> NotCalled]
    /\ hookStep = 0 /\ agentStep = 0 /\ attempt = 1
    /\ stored = <<>> /\ collected = [a \in 1..MaxAttempt |-> <<>>]
    /\ bundle = Nil /\ rows = {} /\ now = 0
    /\ sub = [s \in Submitters |-> NotSending]

-----------------------------------------------------------------------------
(* The agent.                                                                *)

next_step == hookStep + 1

\* Receipts get their ids in the order in which the calls are made.
fresh(c) == call[c].pc = "idle" /\ \A d \in 1..(c - 1) : call[d].pc # "idle"

\* run_tool: both counters go up and the call starts; nothing is awaited
\* between the number and started_at.
run_tool(c) ==
    /\ fresh(c)
    /\ hookStep' = next_step /\ agentStep' = agentStep + 1
    /\ call' = [call EXCEPT ![c] = [NotCalled EXCEPT !.pc = "running", !.step = next_step,
                                                     !.attempt = attempt, !.started = now]]
    /\ UNCHANGED <<attempt, stored, collected, bundle, sub, rows, now>>

\* The tool returns, raises or is cut off by the timeout, and the receipt is
\* built; the after-hooks are awaited before it is saved.
tool_ends(c) ==
    /\ call[c].pc = "running"
    /\ \E st \in ToolStatus :
          call' = [call EXCEPT ![c].pc = "ended", ![c].ended = now, ![c].status = st]
    /\ UNCHANGED <<hookStep, agentStep, attempt, stored, collected, bundle, sub, rows, now>>

\* Mutant: only the receipts of calls that returned are kept.
keep_success(c) == IF call[c].status = "success" THEN <<c>> ELSE <<>>
keep(c) == <<c>>

\* The receipt is saved, and the agent adds it to the list it has now.
save(c) ==
    /\ call[c].pc = "ended"
    /\ call' = [call EXCEPT ![c].pc = "saved"]
    /\ stored' = stored \o keep(c)
    /\ collected' = [collected EXCEPT ![attempt] = Append(@, c)]
    /\ UNCHANGED <<hookStep, agentStep, attempt, bundle, sub, rows, now>>

\* A call that ran elsewhere is written down: the agent's counter alone goes
\* up, and the receipt goes to the agent's list alone.
run_tool_sync(c) ==
    /\ fresh(c)
    /\ agentStep' = agentStep + 1
    /\ call' = [call EXCEPT ![c] = [pc |-> "saved", by |-> "sync", step |-> agentStep + 1,
                                    attempt |-> attempt, started |-> now, ended |-> now,
                                    status |-> "success"]]
    /\ collected' = [collected EXCEPT ![attempt] = Append(@, c)]
    /\ UNCHANGED <<hookStep, attempt, stored, bundle, sub, rows, now>>

\* reset, between retries: the list and both counters are dropped, the
\* store of the hook layer keeps what it has.
reset ==
    /\ attempt < MaxAttempt
    /\ attempt' = attempt + 1 /\ hookStep' = 0 /\ agentStep' = 0
    /\ UNCHANGED <<call, stored, collected, bundle, sub, rows, now>>

\* EvidenceBundleBuilder.build: what the store lists, in step order; equal
\* steps, which a reset makes, stay in the order they were saved.
before(i, j) ==
    LET m == call[stored[i]].step  n == call[stored[j]].step IN m < n \/ (m = n /\ i < j)

build ==
    /\ LET order == SetToSortSeq(DOMAIN stored, before)
       IN  bundle' = [i \in DOMAIN order |-> stored[order[i]]]
    /\ UNCHANGED <<agentVars, sub, rows, now>>

-----------------------------------------------------------------------------
(* Posting the receipts.                                                     *)

submit_all_receipts(s) ==
    /\ sub[s].pc \in {"idle", "raised", "done"} /\ sub[s].posts < MaxPosts
    /\ sub' = [sub EXCEPT ![s] = [pc |-> IF collected[attempt] = <<>> THEN "done" ELSE "post",
                                  posts |-> @.posts + 1, list |-> attempt, at |-> 1]]
    /\ UNCHANGED <<agentVars, bundle, rows, now>>

sent(s) == collected[sub[s].list][sub[s].at]

\* get_latest_by_task: the row with the highest step.
latest == IF rows = {} THEN Nil ELSE CHOOSE r \in rows : \A q \in rows : call[q].step <= call[r].step

follows(c) ==
    IF rows = {} THEN call[c].step = 1
    ELSE /\ call[c].step = call[latest].step + 1
         /\ call[c].started >= call[latest].started
         /\ call[c].started >= call[latest].ended

\* submit_receipt up to its checks; a refusal is a 409, which the agent's
\* raise_for_status turns into an exception that ends the loop.
check_receipt(s) ==
    /\ sub[s].pc = "post"
    /\ sub' = [sub EXCEPT ![s].pc = IF follows(sent(s)) THEN "insert" ELSE "raised"]
    /\ UNCHANGED <<agentVars, bundle, rows, now>>

unique(c) == \A r \in rows : call[r].step # call[c].step

refused(s) == sub' = [sub EXCEPT ![s].pc = "raised"]

\* The list of a call that ends meanwhile grows under the loop.
answered(s) ==
    sub' = [sub EXCEPT ![s].pc = IF sub[s].at < Len(collected[sub[s].list]) THEN "post" ELSE "done",
                       ![s].at = @ + 1]

\* PostgresReceiptStore.save: the same receipt again is an answer, another
\* one with its step a refusal.
insert_receipt(s) ==
    /\ sub[s].pc = "insert"
    /\ \/ sent(s) \in rows /\ UNCHANGED rows /\ answered(s)
       \/ sent(s) \notin rows /\ unique(sent(s)) /\ rows' = rows \cup {sent(s)} /\ answered(s)
       \/ sent(s) \notin rows /\ ~unique(sent(s)) /\ UNCHANGED rows /\ refused(s)
    /\ UNCHANGED <<agentVars, bundle, now>>

\* The row is written and the answer does not come within the client's
\* 15 seconds.
answer_lost(s) ==
    /\ sub[s].pc = "insert"
    /\ sent(s) \notin rows /\ unique(sent(s))
    /\ rows' = rows \cup {sent(s)}
    /\ sub' = [sub EXCEPT ![s].pc = "raised"]
    /\ UNCHANGED <<agentVars, bundle, now>>

Tick ==
    /\ now < MaxTime
    /\ now' = now + 1
    /\ UNCHANGED <<agentVars, bundle, sub, rows>>

Next ==
    \/ \E c \in Calls : run_tool(c) \/ tool_ends(c) \/ save(c) \/ run_tool_sync(c)
    \/ reset \/ build \/ Tick
    \/ \E s \in Submitters :
          submit_all_receipts(s) \/ check_receipt(s) \/ insert_receipt(s) \/ answer_lost(s)

Spec == Init /\ [][Next]_vars

-----------------------------------------------------------------------------
\* The rows of a task tell one run of it: their steps are 1 to n, and each
\* call started after the one before it had ended.  Two submissions that read
\* the same latest row, receipts of two attempts with one number, and calls
\* that overlapped do not get in together (api/routes/receipts.py).
RowsTellOneRun ==
    /\ {call[r].step : r \in rows} = 1..Cardinality(rows)
    /\ \A r, q \in rows : call[r].step < call[q].step => call[r].ended <= call[q].started

\* Calls of the hook layer in one attempt have their own numbers, in the
\* order in which they started, however they overlap (_next_step).
NumbersFollowStarts ==
    \A c, d \in Calls :
        /\ c # d /\ call[c].by = "hook" /\ call[d].by = "hook"
        /\ call[c].attempt = call[d].attempt /\ call[c].attempt > 0
        => /\ call[c].step # call[d].step
           /\ call[c].started < call[d].started => call[c].step < call[d].step

\* A bundle leaves out no receipt of a wrapped call the API already has,
\* also of calls that failed and of attempts that were given up (build).
BundleCoversRows ==
    bundle' # bundle => \A r \in rows : call[r].by = "hook" => r \in Range(bundle')

\* A submission that ends without an exception has put the receipts it went
\* through into the table, also when another one ran beside it and when an
\* earlier answer was lost (submit_all_receipts).
DoneIsTaken ==
    \A s \in Submitters :
        sub[s].pc = "done" => \A i \in 1..(sub[s].at - 1) : collected[sub[s].list][i] \in rows
=============================================================================
