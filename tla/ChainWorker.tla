----------------------------- MODULE ChainWorker -----------------------------
(***************************************************************************)
(* The Celery worker that carries one settlement to the escrow contract    *)
(* (worker/tasks.py, services/chain/settlement_adapter.py). A job is       *)
(* acknowledged only when its handler has returned, so a worker that dies  *)
(* leaves it in the queue and it runs again from the start; an exception   *)
(* puts it back until its retries are used up. A transaction may be mined  *)
(* although the call that sent it raises.                                  *)
(*                                                                         *)
(* The contract is reduced to what the adapter calls: bills and bindings.  *)
(***************************************************************************)
EXTENDS Naturals, Sequences, FiniteSets

CONSTANTS
    MaxRetries,  \* max_retries of the tasks
    MaxCrash,    \* bound: how often the worker dies
    MaxFault,    \* bound: how often a call to the node raises
    MaxVerify,   \* bound: verifications that ask for an on-chain action
    None

BoundsAssumption == {MaxRetries, MaxCrash, MaxFault, MaxVerify} \subseteq Nat
NoneAssumption == None \notin Nat

VARIABLES
    queue,     \* jobs not yet acknowledged
    work,      \* the handler that runs: its job, step and TaskContract handles
    bills,     \* bill id -> [owner, state]
    bindings,  \* binding id -> [buyer, agent, state]
    row,       \* onchain_status and onchain_binding_id of the settlement
    env        \* what the environment has used of its bounds

vars == <<queue, work, bills, bindings, row, env>>

NoWork == [job |-> None]

Init ==
    /\ queue = {}
    /\ work = NoWork
    /\ bills = <<>>
    /\ bindings = <<>>
    /\ row = [status |-> "none", binding |-> None]
    /\ env = [accepted |-> FALSE, verified |-> 0, crash |-> 0, fault |-> 0]

-----------------------------------------------------------------------------
(* The contract, as far as the adapter uses it                             *)

mint(owner) == Append(bills, [owner |-> owner, state |-> "minted"])

setBill(id, s) == [bills EXCEPT ![id].state = s]

setBinding(id, s) == [bindings EXCEPT ![id].state = s]

\* What a transaction on binding id needs to succeed.
succeeds(call, id) ==
    CASE call = "settle"  -> bindings[id].state = "active"
      [] call = "refund"  -> bindings[id].state = "active"
      [] call = "dispute" -> bindings[id].state = "finalizing"

after(call) ==
    CASE call = "settle" -> "finalizing" [] call = "refund" -> "refunded"
      [] call = "dispute" -> "disputed"

\* What other parties may make of a binding directly.
elsewhere(s) ==
    CASE s = "active"     -> {"finalizing", "refunded"}
      [] s = "finalizing" -> {"disputed", "settled"}
      [] s = "disputed"   -> {"settled", "refunded"}
      [] OTHER            -> {}

otherParty(id) ==
    /\ \E s \in elsewhere(bindings[id].state) : bindings' = setBinding(id, s)
    /\ UNCHANGED <<queue, work, bills, row, env>>

-----------------------------------------------------------------------------
(* Producers                                                               *)

\* lock_settlement starts the escrow of an accepted task.
lock_settlement ==
    /\ ~env.accepted
    /\ env' = [env EXCEPT !.accepted = TRUE]
    /\ queue' = queue \cup {[kind |-> "lock", n |-> 0, tries |-> 0, handle |-> None,
                             bill |-> None]}
    /\ UNCHANGED <<work, bills, bindings, row>>

\* The verify route forwards the contract the client sent, with the handles
\* the client knows: a binding, a bill, or neither.
verify(call, h, b) ==
    /\ env.verified < MaxVerify
    /\ env' = [env EXCEPT !.verified = @ + 1]
    /\ queue' = queue \cup {[kind |-> call, n |-> env'.verified, tries |-> 0,
                             handle |-> h, bill |-> b]}
    /\ UNCHANGED <<work, bills, bindings, row>>

-----------------------------------------------------------------------------
(* The worker                                                              *)

start(j) ==
    /\ work = NoWork
    /\ work' = [job |-> j, step |-> IF j.kind = "lock" THEN "lock_funds" ELSE "send",
                buyer |-> None, agent |-> None, tx |-> "none"]
    /\ UNCHANGED <<queue, bills, bindings, row, env>>

at(step) == work # NoWork /\ work.step = step

\* The handler returns and the job is acknowledged.
acknowledge ==
    /\ at("return")
    /\ queue' = queue \ {work.job}
    /\ work' = NoWork
    /\ UNCHANGED <<bills, bindings, row, env>>

lock_funds ==
    /\ at("lock_funds")
    /\ bills' = mint("buyer")
    /\ work' = [work EXCEPT !.buyer = Len(bills'), !.step = "lock_agent"]
    /\ UNCHANGED <<queue, bindings, row, env>>

lock_agent_penalty ==
    /\ at("lock_agent")
    /\ bills' = mint("agent")
    /\ work' = [work EXCEPT !.agent = Len(bills'), !.step = "bind"]
    /\ UNCHANGED <<queue, bindings, row, env>>

\* The result, with the binding id, is returned to the result backend only.
bind_bills ==
    /\ at("bind")
    /\ bindings' = Append(bindings, [buyer |-> work.buyer, agent |-> work.agent,
                                     state |-> "active"])
    /\ bills' = [i \in DOMAIN bills |-> IF i \in {work.buyer, work.agent}
                                        THEN [bills[i] EXCEPT !.state = "bound"]
                                        ELSE bills[i]]
    /\ work' = [work EXCEPT !.step = "return"]
    /\ UNCHANGED <<queue, row, env>>

\* What a transaction has to find: its binding, or for a refund without one
\* its bill, unbound.
applicable ==
    \/ work.job.handle # None /\ succeeds(work.job.kind, work.job.handle)
    \/ /\ work.job.kind = "refund" /\ work.job.handle = None /\ work.job.bill # None
       /\ bills[work.job.bill].state = "minted"

\* build_transaction estimates the gas: a call that would revert raises here.
build_transaction ==
    /\ at("send")
    /\ applicable
    /\ work' = [work EXCEPT !.step = "sent"]
    /\ UNCHANGED <<queue, bills, bindings, row, env>>

effect ==
    IF work.job.handle # None
    THEN bindings' = setBinding(work.job.handle, after(work.job.kind)) /\ UNCHANGED bills
    ELSE bills' = setBill(work.job.bill, "unlocked") /\ UNCHANGED bindings

\* release_payment, refund_payment, open_dispute: the transaction is mined, and
\* reverts if another one came first.
mined ==
    /\ at("sent")
    /\ \/ applicable /\ effect
          /\ work' = [work EXCEPT !.tx = "confirmed", !.step = "persist"]
       \/ ~applicable /\ UNCHANGED <<bills, bindings>>
          /\ work' = [work EXCEPT !.tx = "failed", !.step = "persist"]
    /\ UNCHANGED <<queue, row, env>>

\* A refund or a dispute without any handle is noted off chain.
noHandle ==
    /\ work.job.kind \in {"refund", "dispute"} /\ work.job.handle = None
    /\ work.job.kind = "refund" => work.job.bill = None

offchain_only ==
    /\ at("send") /\ noHandle
    /\ work' = [work EXCEPT !.tx = "offchain_only", !.step = "persist"]
    /\ UNCHANGED <<queue, bills, bindings, row, env>>

\* The label _persist_chain_result and _persist_chain_or_offchain_result write:
\* a settle is "finalizing" whatever became of its transaction.
label(call, tx) ==
    CASE call = "settle"  -> "finalizing"
      [] call = "refund"  -> IF tx = "confirmed" THEN "refunded" ELSE "refund"
      [] call = "dispute" -> IF tx = "confirmed" THEN "disputed" ELSE "dispute_pending"

persist ==
    /\ at("persist")
    /\ row' = [status |-> label(work.job.kind, work.tx),
               binding |-> IF work.job.handle # None THEN work.job.handle ELSE row.binding]
    /\ work' = [work EXCEPT !.step = "return"]
    /\ UNCHANGED <<queue, bills, bindings, env>>

\* Mutant: the number of tries has no limit.
retry_for_ever ==
    /\ work' = NoWork
    /\ queue' = (queue \ {work.job}) \cup {[work.job EXCEPT !.tries = @ + 1]}

\* self.retry: the job goes back with one try more, or is given up.
retry ==
    /\ work' = NoWork
    /\ queue' = (queue \ {work.job})
                  \cup (IF work.job.tries < MaxRetries
                        THEN {[work.job EXCEPT !.tries = @ + 1]} ELSE {})

\* The call raises before anything is sent: the node is away, or the
\* transaction would revert, or a settle has no binding.
raises ==
    /\ work # NoWork /\ work.step \notin {"sent", "persist", "return"}
    /\ \/ env.fault < MaxFault /\ env' = [env EXCEPT !.fault = @ + 1]
       \/ at("send") /\ ~applicable /\ ~noHandle /\ UNCHANGED env
    /\ retry
    /\ UNCHANGED <<bills, bindings, row>>

\* The transaction is mined, the answer is lost and the handler raises.
answerLost ==
    /\ env.fault < MaxFault
    /\ env' = [env EXCEPT !.fault = @ + 1]
    /\ \/ at("lock_funds") /\ bills' = mint("buyer") /\ UNCHANGED bindings
       \/ at("lock_agent") /\ bills' = mint("agent") /\ UNCHANGED bindings
       \/ at("sent") /\ applicable /\ effect
    /\ retry
    /\ UNCHANGED row

\* task_acks_late: the job of a dead worker is still in the queue.
crash ==
    /\ env.crash < MaxCrash
    /\ work # NoWork
    /\ work' = NoWork
    /\ env' = [env EXCEPT !.crash = @ + 1]
    /\ UNCHANGED <<queue, bills, bindings, row>>

workerStep ==
    \/ lock_funds \/ lock_agent_penalty \/ bind_bills
    \/ build_transaction \/ mined \/ offchain_only \/ persist \/ acknowledge

Next ==
    \/ lock_settlement
    \/ \E call \in {"settle", "refund", "dispute"},
          h \in DOMAIN bindings \cup {None}, b \in DOMAIN bills \cup {None} :
             (h # None => b = None) /\ verify(call, h, b)
    \/ \E j \in queue : start(j)
    \/ workerStep
    \/ raises \/ answerLost \/ crash
    \/ \E id \in DOMAIN bindings : otherParty(id)

Spec == Init /\ [][Next]_vars

\* A worker process is always running and takes jobs; a handler goes on.
Fairness == WF_vars((\E j \in queue : start(j)) \/ workerStep \/ raises)

-----------------------------------------------------------------------------
TypeOK ==
    /\ \A i \in DOMAIN bills : bills[i].state \in {"minted", "bound", "unlocked"}
    /\ \A i \in DOMAIN bindings : {bindings[i].buyer, bindings[i].agent} \subseteq DOMAIN bills
    /\ row.status \in {"none", "finalizing", "refunded", "refund", "disputed",
                       "dispute_pending"}
    /\ row.binding \in DOMAIN bindings \cup {None}
    /\ \A j \in queue : j.tries <= MaxRetries

\* However often jobs are redelivered and retried, a bill backs at most one
\* binding, and a binding has one bill of each side.
BillsBackOneBinding ==
    /\ \A x, y \in DOMAIN bindings :
          x # y => {bindings[x].buyer, bindings[x].agent}
                     \cap {bindings[y].buyer, bindings[y].agent} = {}
    /\ \A x \in DOMAIN bindings :
          bills[bindings[x].buyer].owner = "buyer" /\ bills[bindings[x].agent].owner = "agent"

\* The label "refunded" or "disputed" with a binding was earned: the binding
\* was refunded or disputed on chain.
LabelIsEarned ==
    \A id \in DOMAIN bindings :
        row.binding = id =>
            /\ row.status = "disputed" =>
                  bindings[id].state \in {"disputed", "settled", "refunded"}
            /\ row.status = "refunded" =>
                  \/ bindings[id].state = "refunded"
                  \/ \E b \in DOMAIN bills : bills[b].state = "unlocked"

\* Every job ends: it succeeds or uses up its retries.
JobsEnd == (env.accepted /\ env.verified = MaxVerify) ~> (queue = {})

-----------------------------------------------------------------------------
(* What docstrings promise and the code does not keep                      *)
=============================================================================
