---------------------------- MODULE MiniAppChat ----------------------------
(***************************************************************************)
(* The Telegram concierge: a user's requirement, the recommended offers    *)
(* kept for him, the bill he confirms and the order that is created,       *)
(* checked against his limits and locked.  Updates are handled in threads, *)
(* and Telegram delivers an update again when no answer came in time.      *)
(***************************************************************************)
EXTENDS Integers, FiniteSets, FiniteSetsExt

CONSTANTS Users, Threads,
          Prices,       \* prices of the offers recommended
          Single, Daily, \* the limits of a user's payment policy
          MaxOrders,    \* bound on the orders of a user
          MaxAsks       \* bound on the requirements a user sends

LimitsAssumption == Single \in Nat /\ Daily \in Nat

VARIABLES bound,     \* users with a bound identity
          bindWait,  \* users asked for identity and 2FA code
          pending,   \* the price of the offer waiting for confirmation, or 0
          thread,    \* what each thread is at
          orders,    \* the orders of each user: status and amount
          asks       \* history: requirements sent

vars == <<bound, bindWait, pending, thread, orders, asks>>

Idle == [at |-> "idle"]
Ids == 1 .. MaxOrders
Order == [status : {"none", "QUOTED", "LOCKED", "REFUNDED", "SETTLED"}, amount : Nat]

TypeOK ==
    /\ bound \subseteq Users /\ bindWait \subseteq Users
    /\ pending \in [Users -> {0} \union Prices]
    /\ orders \in [Users -> [Ids -> Order]]
    /\ asks \in [Users -> 0 .. MaxAsks]

Init ==
    /\ bound = {} /\ bindWait = {}
    /\ pending = [u \in Users |-> 0]
    /\ thread = [t \in Threads |-> Idle]
    /\ orders = [u \in Users |-> [i \in Ids |-> [status |-> "none", amount |-> 0]]]
    /\ asks = [u \in Users |-> 0]

\* _spent_today_usdc: what the user's orders of the day occupy.
spent_today_usdc(u) ==
    MapThenSumSet(LAMBDA i : orders[u][i].amount,
                  {i \in Ids : orders[u][i].status \in {"LOCKED", "SETTLED"}})

\* recommend without an identity, start_bind and the menus.
need_identity(u) ==
    /\ u \notin bound /\ u \notin bindWait
    /\ bindWait' = bindWait \union {u}
    /\ UNCHANGED <<bound, pending, thread, orders, asks>>

\* handle_bind_input with a valid code, with a bad one, and cancel_bind or
\* the time limit.
handle_bind_input(u) ==
    /\ u \in bindWait
    /\ \E good \in BOOLEAN : bound' = IF good THEN bound \union {u} ELSE bound
    /\ bindWait' = bindWait \ {u}
    /\ UNCHANGED <<pending, thread, orders, asks>>

\* recommend: the ranked offers of this requirement replace the earlier ones.
recommend(u) ==
    /\ u \in bound /\ asks[u] < MaxAsks
    /\ \E x \in Prices : pending' = [pending EXCEPT ![u] = x]
    /\ asks' = [asks EXCEPT ![u] = @ + 1]
    /\ UNCHANGED <<bound, bindWait, thread, orders>>

\* handle_cancel, and _prune_pending after its time.
handle_cancel(u) ==
    /\ pending[u] # 0
    /\ pending' = [pending EXCEPT ![u] = 0]
    /\ UNCHANGED <<bound, bindWait, thread, orders, asks>>

\* The first half of handle_confirm: the pending offer is read, the order and
\* its bill are created, and the day's spending is added up.
confirm_begin(u, t) ==
    \E i \in Ids :
        /\ thread[t] = Idle
        /\ pending[u] # 0 /\ u \in bound
        /\ orders[u][i].status = "none" /\ \A j \in 1 .. (i - 1) : orders[u][j].status # "none"
        /\ orders' = [orders EXCEPT ![u][i] = [status |-> "QUOTED", amount |-> pending[u]]]
        /\ thread' = [thread EXCEPT ![t] =
              [at |-> "confirm", user |-> u, order |-> i, spent |-> spent_today_usdc(u)]]
        /\ UNCHANGED <<bound, bindWait, pending, asks>>

\* apply_policy with the spending read before.
within_limits(amount, spent) == amount <= Single /\ spent + amount <= Daily

\* _PENDING.pop at the end of the handler.
clear_pending(u) == pending' = [pending EXCEPT ![u] = 0]

\* mark_refunded after the refusal of apply_policy.
refused == "REFUNDED"

\* The second half: locked within the limits, refused and refunded beyond.
confirm_end(t) ==
    LET h == thread[t] IN
    /\ h # Idle
    /\ LET u == h.user
           i == h.order
           ok == within_limits(orders[u][i].amount, h.spent)
       IN  /\ orders' = [orders EXCEPT ![u][i].status = IF ok THEN "LOCKED" ELSE refused]
           /\ clear_pending(u)
    /\ thread' = [thread EXCEPT ![t] = Idle]
    /\ UNCHANGED <<bound, bindWait, asks>>

\* The rest of an order's life, outside the chat.
OrderEnds(u) ==
    /\ \E i \in Ids, s \in {"SETTLED", "REFUNDED"} :
          /\ orders[u][i].status = "LOCKED"
          /\ orders' = [orders EXCEPT ![u][i].status = s]
    /\ UNCHANGED <<bound, bindWait, pending, thread, asks>>

Next ==
    \/ \E u \in Users : need_identity(u) \/ handle_bind_input(u) \/ recommend(u)
                        \/ handle_cancel(u) \/ OrderEnds(u)
    \/ \E u \in Users, t \in Threads : confirm_begin(u, t)
    \/ \E t \in Threads : confirm_end(t)

Spec == Init /\ [][Next]_vars

-----------------------------------------------------------------------------
\* However a user confirms, what his orders occupy in a day stays within the
\* daily limit he set.
DailyLimitHolds ==
    \A u \in Users :
        MapThenSumSet(LAMBDA i : orders[u][i].amount,
            {i \in Ids : orders[u][i].status \in {"LOCKED", "SETTLED"}}) <= Daily

\* Money is only moved for a bill the user saw: at most one order is locked
\* or refused for each requirement he sent.
OneOrderPerBill ==
    \A u \in Users :
        Cardinality({i \in Ids : orders[u][i].status # "none"}) <= asks[u]
=============================================================================
