----------------------------- MODULE TradeOrders -----------------------------
(***************************************************************************)
(* The preauthorised trade pipeline: a buyer's launch request becomes a    *)
(* contract, a voucher, an acceptance, a locked settlement and a started   *)
(* execution in one database transaction. Several launches may be under    *)
(* way at once. What a launch reads it keeps (the session caches rows), so *)
(* a launch is three steps: the checks, the voucher, the commit. Webhooks  *)
(* leave before the commit and are not taken back by a rollback.           *)
(***************************************************************************)
EXTENDS RuntimeKeys

CONSTANTS
    Order,       \* order ids; one launch request each
    IdemKey,     \* Idempotency-Key headers
    Requirement, \* fingerprints of requirement texts
    Credits,     \* credits a buyer starts with
    InFlight,    \* bound: launches under way at once
    Minted       \* the key that each identity has minted

VARIABLES
    order,       \* TradeOrderModel and the request that is creating it
    cap,         \* CapacityModel: available and reserved credits
    sent,        \* webhooks that emit_openclaw_event has posted
    answer       \* replayed answers: what was asked and the order named

tradeVars == <<order, cap, sent, answer>>
vars == <<keyVars, tradeVars>>

NoOrder == [status |-> "none", saved |-> FALSE, idem |-> None, buyer |-> None,
            seller |-> None, req |-> None, amount |-> 0, accept |-> FALSE, row |-> 0,
            limit2 |-> 0]

Init ==
    /\ KeyInit
    /\ order = [o \in Order |-> NoOrder]
    /\ cap = [i \in Identity |-> [available |-> Credits, reserved |-> 0]]
    /\ sent = {}
    /\ answer = {}

\* A policy that lets the pipeline run unattended.
Ready == [NoPolicy EXCEPT !.saved = TRUE, !.auto = TRUE, !.ack = TRUE, !.preauth = TRUE,
                          !.accepts = TRUE, !.executes = TRUE, !.single = 2, !.daily = 4]

\* Both parties have saved a policy and minted a key.
ReadyInit ==
    /\ order = [o \in Order |-> NoOrder]
    /\ cap = [i \in Identity |-> [available |-> Credits, reserved |-> 0]]
    /\ sent = {}
    /\ answer = {}
    /\ policy = [i \in Identity |-> Ready]
    /\ wallet = [i \in Identity |-> CHOOSE w \in Wallet : TRUE]
    /\ key = [k \in Key |->
                IF \E i \in Identity : Minted[i] = k
                THEN [status |-> "active", owner |-> CHOOSE i \in Identity : Minted[i] = k,
                      wallet |-> CHOOSE w \in Wallet : TRUE, single |-> 2, daily |-> 4,
                      perms |-> Permission, expired |-> FALSE]
                ELSE NoKey]
    /\ used = [k \in Key |-> None]
    /\ memory = [w \in Worker |-> [k \in Key |-> 0]]
    /\ seen = [w \in Worker |-> {}]
    /\ request = [r \in Request |-> NoRequest]
    /\ issued = {}
    /\ day = 0
    /\ restarts = 0

Saved == {o \in Order : order[o].saved}

Open == {o \in Order : order[o].status \notin {"none", "failed"} /\ ~order[o].saved}

-----------------------------------------------------------------------------
(* Checks before the order exists                                          *)

active_runtime_key(i) ==
    \E k \in Key : key[k].owner = i /\ key[k].status = "active" /\ ~key[k].expired

assert_pipeline_preauth(i) ==
    /\ policy[i].saved /\ policy[i].preauth /\ policy[i].ack
    /\ policy[i].auto /\ policy[i].executes
    /\ active_runtime_key(i)

\* Both single limits are the saved ones, not the effective ones.
clamp_spec_to_policies(b, s, a) ==
    \A i \in {b, s} : a <= policy[i].single

sum_buyer_launch_amount_today(b) ==
    MapThenSumSet(LAMBDA o : order[o].amount,
                  {o \in Saved : order[o].buyer = b /\ order[o].status # "rejected"})


assert_pre_launch_spending_policy(b, a) ==
    2 * (sum_buyer_launch_amount_today(b) + a) <= effective_spending_limits(policy[b]).daily2

evaluate_seller_preauth(b, s, a) ==
    /\ policy[s].preauth /\ policy[s].accepts /\ policy[s].ack
    /\ a <= policy[s].single
    /\ policy[s].trusts # {} => b \in policy[s].trusts

find_order_by_idempotency_key(n) == {o \in Saved : order[o].idem = n}

assert_idempotent_launch_matches(o, b, s, q) ==
    order[o].buyer = b /\ order[o].seller = s /\ order[o].req = q

\* The replay comes before every other check.
build_idempotent_replay_response(n, b, s, q) ==
    /\ n # None
    /\ \E o \in find_order_by_idempotency_key(n) :
          /\ assert_idempotent_launch_matches(o, b, s, q)
          /\ answer' = answer \cup {[order |-> o, buyer |-> b, seller |-> s, req |-> q]}
    /\ UNCHANGED <<keyVars, order, cap, sent>>

launch_preauth_trade_order(o, n, b, s, q, a) ==
    /\ order[o].status = "none"
    /\ Cardinality(Open) < InFlight
    /\ b # s
    /\ n # None => find_order_by_idempotency_key(n) = {}
    /\ assert_pipeline_preauth(b)
    /\ assert_pipeline_preauth(s)
    /\ clamp_spec_to_policies(b, s, a)
    /\ assert_pre_launch_spending_policy(b, a)
    /\ order' = [order EXCEPT ![o] = [NoOrder EXCEPT !.status = "decomposed", !.idem = n,
                   !.buyer = b, !.seller = s, !.req = q, !.amount = a,
                   !.limit2 = effective_spending_limits(policy[b]).daily2,
                   !.accept = evaluate_seller_preauth(b, s, a)]]
    /\ UNCHANGED <<keyVars, cap, sent, answer>>

-----------------------------------------------------------------------------
(* The pipeline                                                            *)

\* The unique index on launch_idempotency_key: the insert waits for another
\* open insert of the key and fails when the key is taken.
insertable(o) ==
    order[o].idem # None =>
        \A p \in Order \ {o} : order[p].idem = order[o].idem
                               => order[p].status \in {"none", "decomposed", "failed"}

created(o) ==
    LET t == order[o] IN
    /\ t.status = "decomposed"
    /\ insertable(o)
    /\ cap[t.buyer].available >= t.amount
    /\ order' = [order EXCEPT ![o].status = IF t.accept THEN "accepted" ELSE "rejected",
                              ![o].row = cap[t.buyer].available]
    /\ sent' = sent \cup {<<"voucher.created", o>>,
                          <<IF t.accept THEN "voucher.accepted" ELSE "voucher.rejected", o>>}
    /\ UNCHANGED <<keyVars, cap, answer>>

\* The daily spend is mirrored to the first active key of the buyer.
record_buyer_trade_launch_daily_spend(o) ==
    LET keys == {k \in Key : key[k].owner = order[o].buyer /\ load_active_context(k)} IN
    IF keys = {} THEN UNCHANGED <<memory, used>>
    ELSE \E k \in keys, w \in Worker : record_daily_spend_async(w, k, order[o].amount, None)

\* Settlement created and locked, both handoffs confirmed, execution started.
execution_started(o) ==
    LET b == order[o].buyer IN
    /\ order[o].status = "accepted"
    /\ ~order[o].saved
    /\ cap' = [cap EXCEPT ![b].available = order[o].row - order[o].amount,
                          ![b].reserved = Credits - (order[o].row - order[o].amount)]
    /\ order' = [order EXCEPT ![o].status = "execution_started", ![o].saved = TRUE]
    /\ record_buyer_trade_launch_daily_spend(o)
    /\ sent' = sent \cup {<<"trade.order.completed", o>>}
    /\ UNCHANGED <<policy, wallet, key, seen, request, issued, day, restarts, answer>>

rejected(o) ==
    /\ order[o].status = "rejected"
    /\ ~order[o].saved
    /\ order' = [order EXCEPT ![o].saved = TRUE]
    /\ UNCHANGED <<keyVars, cap, sent, answer>>

\* insufficient credits, a taken key, a payment cycle or any later error: the
\* order is marked failed and the transaction, the mark included, rolled back.
mark_order_failed(o) ==
    /\ o \in Open
    /\ order[o].status # "rejected"
    /\ order' = [order EXCEPT ![o] = [NoOrder EXCEPT !.status = "failed"]]
    /\ UNCHANGED <<keyVars, cap, sent, answer>>

TradeNext ==
    \/ \E n \in IdemKey \cup {None}, b, s \in Identity, q \in Requirement :
          \/ build_idempotent_replay_response(n, b, s, q)
          \/ \E o \in Order, a \in Amount : launch_preauth_trade_order(o, n, b, s, q, a)
    \/ \E o \in Order : created(o) \/ execution_started(o) \/ rejected(o) \/ mark_order_failed(o)

\* Operators change policies and revoke keys between the steps of a launch;
\* a key minted in time only makes more launches possible.
Next ==
    \/ TradeNext
    \/ /\ UNCHANGED tradeVars
       /\ \/ \E i \in Identity, p \in PolicyChoice : upsert_automation_policy(i, p)
          \/ \E k \in Key, i \in Identity, w \in Wallet : runtime_revoke_key(k, i, w)

Spec == Init /\ [][Next]_vars

-----------------------------------------------------------------------------
TypeOK ==
    /\ \A o \in Order : order[o].status \in
           {"none", "decomposed", "accepted", "rejected", "execution_started", "failed"}
    /\ \A i \in Identity : cap[i].available \in 0..Credits /\ cap[i].reserved \in 0..Credits

\* The credits reserved for a buyer are those of the orders that were started.
ReservedBacksOrders ==
    \A i \in Identity : cap[i].reserved =
        MapThenSumSet(LAMBDA o : order[o].amount,
           {o \in Saved : order[o].buyer = i /\ order[o].status = "execution_started"})

\* A launch that commits leaves the orders of the day within the daily limit
\* that it was checked against.
DailyLimitHeld ==
    \A o \in Order : ~order[o].saved /\ order'[o].status = "execution_started"
       => 2 * sum_buyer_launch_amount_today(order[o].buyer)' <= order[o].limit2

\* However often a launch is sent with one Idempotency-Key, one order comes
\* of it; an order that was started stays as it is.
OneOrderPerKey ==
    \A o, p \in Saved : order[o].idem # None /\ order[o].idem = order[p].idem => o = p

\* A replay only ever names an order of the same parties and requirement.
ReplayIsTheSameTrade ==
    \A r \in answer : \A f \in {"buyer", "seller", "req"} : order[r.order][f] = r[f]
=============================================================================
