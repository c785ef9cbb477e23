------------------------------- MODULE Billing -------------------------------
(***************************************************************************)
(* The billing state machine of packages/karma_billing: a task moves along *)
(* the predefined transitions, restricted to the paths of its scenario,    *)
(* and every transition is appended to a history. execute_transition holds *)
(* a lock per task; it awaits the audit log between its read of the state  *)
(* and its write.                                                          *)
(***************************************************************************)
EXTENDS Integers, Sequences

CONSTANTS
    Task, Caller,
    Scenario,       \* the scenarios in use
    MixScenarios,   \* whether callers may name another scenario than the task's
    MaxHistory,     \* bound: transitions of a task
    None

ScenarioAssumption == Scenario \subseteq {"S1", "S2", "S3", "S4", "S5", "S8"}

VARIABLES
    state,      \* _task_states
    scenario,   \* _task_scenarios
    receipts,   \* tasks that a receipt was registered for
    lock,       \* the caller that holds the lock of a task
    call,       \* the call a caller is in
    history     \* log_transition, per task

vars == <<state, scenario, receipts, lock, call, history>>

BILLING_STATE_TRANSITIONS ==
    [INITIATED |-> {"INTENT_RECEIVED"},
     INTENT_RECEIVED |-> {"INTENT_VALIDATED"},
     INTENT_VALIDATED |-> {"DELEGATION_ACCEPTED", "BID_EVALUATING", "PIPELINE_STAGING"},
     DELEGATION_ACCEPTED |-> {"TASK_STARTED"},
     TASK_STARTED |-> {"STEP_IN_PROGRESS", "TASK_COMPLETED"},
     STEP_IN_PROGRESS |-> {"STEP_COMPLETED", "TASK_COMPLETED"},
     STEP_COMPLETED |-> {"STEP_IN_PROGRESS", "TASK_COMPLETED"},
     TASK_COMPLETED |-> {"INVOICE_GENERATED"},
     BID_EVALUATING |-> {"BID_ACCEPTED", "INVOICE_GENERATED"},
     BID_ACCEPTED |-> {"TASK_STARTED"},
     PIPELINE_STAGING |-> {"TASK_STARTED", "STEP_IN_PROGRESS", "TASK_COMPLETED"},
     INVOICE_GENERATED |-> {"PAYMENT_AUTHORIZED", "PAYMENT_SETTLING"},
     PAYMENT_AUTHORIZED |-> {"PAYMENT_PENDING", "PAYMENT_SETTLING"},
     PAYMENT_PENDING |-> {"PAYMENT_SETTLING"},
     PAYMENT_SETTLING |-> {"SETTLED", "REFUND_PENDING"},
     REFUND_PENDING |-> {"SETTLED"},
     SETTLED |-> {}]

State == DOMAIN BILLING_STATE_TRANSITIONS

intent == <<"INITIATED", "INTENT_RECEIVED", "INTENT_VALIDATED">>

steps == <<"STEP_IN_PROGRESS", "STEP_COMPLETED", "TASK_COMPLETED", "INVOICE_GENERATED">>

payment == <<"PAYMENT_AUTHORIZED", "PAYMENT_SETTLING", "SETTLED">>

\* S6, S7, S9 and S10 have the path of S5.
ALLOWED_STATE_PATHS ==
    [S1 |-> {intent \o <<"DELEGATION_ACCEPTED", "TASK_STARTED">> \o steps
               \o <<"PAYMENT_AUTHORIZED", "PAYMENT_PENDING", "PAYMENT_SETTLING", "SETTLED">>,
             <<"STEP_COMPLETED", "STEP_IN_PROGRESS">>,
             <<"STEP_IN_PROGRESS", "TASK_COMPLETED">>,
             <<"STEP_COMPLETED", "TASK_COMPLETED">>,
             <<"PAYMENT_AUTHORIZED", "PAYMENT_SETTLING">>},
     S2 |-> {intent \o <<"BID_EVALUATING", "BID_ACCEPTED", "TASK_STARTED">> \o steps \o payment,
             intent \o <<"BID_EVALUATING", "INVOICE_GENERATED", "PAYMENT_SETTLING", "SETTLED">>},
     S3 |-> {intent \o <<"PIPELINE_STAGING">> \o steps \o payment},
     S4 |-> {intent \o <<"DELEGATION_ACCEPTED", "TASK_STARTED">> \o steps \o payment},
     S5 |-> {intent \o <<"DELEGATION_ACCEPTED", "TASK_STARTED", "TASK_COMPLETED",
                         "INVOICE_GENERATED">> \o payment},
     S8 |-> {intent \o <<"DELEGATION_ACCEPTED", "TASK_STARTED", "TASK_COMPLETED",
                         "INVOICE_GENERATED">> \o payment,
             <<"PAYMENT_SETTLING", "REFUND_PENDING", "SETTLED">>}]

is_transition_allowed(sc, from, to) ==
    /\ to \in BILLING_STATE_TRANSITIONS[from]
    /\ \E path \in ALLOWED_STATE_PATHS[sc] :
          \E i \in 1..(Len(path) - 1) : path[i] = from /\ path[i + 1] = to

-----------------------------------------------------------------------------
NoCall == [pc |-> "idle", task |-> None, from |-> None, to |-> None, scenario |-> None]

Init ==
    /\ state = [t \in Task |-> None]
    /\ scenario = [t \in Task |-> None]
    /\ receipts = {}
    /\ lock = [t \in Task |-> None]
    /\ call = [c \in Caller |-> NoCall]
    /\ history = [t \in Task |-> <<>>]

register_receipt(t) ==
    /\ t \notin receipts
    /\ receipts' = receipts \cup {t}
    /\ UNCHANGED <<state, scenario, lock, call, history>>

acquire(c, t) == lock[t] = None /\ lock' = [lock EXCEPT ![t] = c]

\* The lock is taken and the state read. The first call of a task fixes its
\* scenario, even if the transition is then refused.
execute_transition(c, t, sc, to) ==
    /\ call[c].pc = "idle"
    /\ acquire(c, t)
    /\ MixScenarios \/ scenario[t] \in {None, sc}
    /\ Len(history[t]) < MaxHistory
    /\ state' = IF state[t] = None THEN [state EXCEPT ![t] = "INITIATED"] ELSE state
    /\ scenario' = IF state[t] = None THEN [scenario EXCEPT ![t] = sc] ELSE scenario
    /\ call' = [call EXCEPT ![c] = [pc |-> "validate", task |-> t, from |-> state'[t], to |-> to,
                                    scenario |-> sc]]
    /\ UNCHANGED <<receipts, history>>

release(t) == lock' = [lock EXCEPT ![t] = None]

validate_transition(k) ==
    /\ is_transition_allowed(k.scenario, k.from, k.to)
    /\ k.task \in receipts

\* The audit record comes first, then the state.
transition_logged(c) ==
    LET k == call[c] IN
    /\ k.pc = "validate"
    /\ validate_transition(k)
    /\ history' = [history EXCEPT ![k.task] = Append(@, <<k.from, k.to>>)]
    /\ call' = [call EXCEPT ![c].pc = "logged"]
    /\ UNCHANGED <<state, scenario, receipts, lock>>

transition_refused(c) ==
    LET k == call[c] IN
    /\ k.pc = "validate"
    /\ ~validate_transition(k)
    /\ release(k.task)
    /\ call' = [call EXCEPT ![c] = NoCall]
    /\ UNCHANGED <<state, scenario, receipts, history>>

transition_done(c) ==
    LET k == call[c] IN
    /\ k.pc = "logged"
    /\ state' = [state EXCEPT ![k.task] = k.to]
    /\ release(k.task)
    /\ call' = [call EXCEPT ![c] = NoCall]
    /\ UNCHANGED <<scenario, receipts, history>>

Next ==
    \/ \E t \in Task : register_receipt(t)
    \/ \E c \in Caller :
          \/ \E t \in Task, sc \in Scenario, to \in State : execute_transition(c, t, sc, to)
          \/ transition_logged(c)
          \/ transition_refused(c)
          \/ transition_done(c)

Spec == Init /\ [][Next]_vars

-----------------------------------------------------------------------------
(* What the scenario modules register                                      *)

pairs(path) == {<<path[i], path[i + 1]>> : i \in 1..(Len(path) - 1)}

-----------------------------------------------------------------------------
TypeOK ==
    /\ state \in [Task -> State \cup {None}]
    /\ scenario \in [Task -> Scenario \cup {None}]
    /\ lock \in [Task -> Caller \cup {None}]
    /\ \A t \in Task : state[t] = None <=> scenario[t] = None

\* The history of a task is a chain from INITIATED: two calls at once never
\* both start from the same state, and with no call open it ends in the
\* state of the task.
HistoryIsChain ==
    \A t \in Task :
        /\ history[t] # <<>> => history[t][1][1] = "INITIATED"
        /\ \A i \in 1..(Len(history[t]) - 1) : history[t][i + 1][1] = history[t][i][2]
        /\ history[t] # <<>> /\ lock[t] = None => state[t] = history[t][Len(history[t])][2]

\* A task only takes steps of the scenario it was opened with.
HistoryOnScenario ==
    \A t \in Task : \A i \in DOMAIN history[t] :
        \E path \in ALLOWED_STATE_PATHS[scenario[t]] : history[t][i] \in pairs(path)

\* No task is stuck before it is settled: its scenario has a next state for
\* every state it can get into.
NoDeadEnd ==
    \A t \in Task : state[t] \notin {None, "SETTLED"} =>
        \E path \in ALLOWED_STATE_PATHS[scenario[t]], to \in BILLING_STATE_TRANSITIONS[state[t]] :
            <<state[t], to>> \in pairs(path)
=============================================================================
