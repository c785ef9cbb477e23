----------------------------- MODULE RuntimeKeys -----------------------------
(***************************************************************************)
(* Runtime keys: the bearer keys with which an AI agent acts for a karma   *)
(* identity. An operator saves an automation policy, mints keys within it  *)
(* and revokes them; an agent that holds a key asks for vouchers within    *)
(* the key's single and daily limits. A request is handled by one of       *)
(* several API workers: the daily spend is a database row, the nonces seen *)
(* and a fallback counter are memory of the worker.                        *)
(*                                                                         *)
(* A voucher request reads the spend before it creates the voucher and     *)
(* writes it afterwards, so it is two steps. Amounts are whole units and   *)
(* the 1e-9 tolerances of the comparisons are left out.                    *)
(***************************************************************************)
EXTENDS Integers, FiniteSets, FiniteSetsExt, Functions

CONSTANTS
    Identity, Wallet, Key, Nonce, Worker, Request,
    None,
    Amount,          \* what a voucher or an order may cost
    PolicyChoice,    \* the policies that operators save
    LimitChoice,     \* the [single, daily] limits asked for when minting
    Permission,      \* scopes of keys that matter here
    RequirePolicy,   \* settings.runtime_require_saved_automation_policy
    Persist,         \* settings.runtime_daily_spend_persist
    MaxDay, MaxRestarts

AmountAssumption == Amount \subseteq Nat \ {0}
VARIABLES
    policy,     \* AgentAutomationPolicyModel by identity
    wallet,     \* IdentityProfileModel.bound_wallet_address
    key,        \* RuntimeKeyModel by id
    used,       \* RuntimeKeyDailySpendModel of today by key, None without a row
    memory,     \* _DAILY of a worker, for today
    seen,       \* _replay of a worker
    request,    \* voucher requests that a worker is handling
    issued,     \* history: the vouchers that keys created today
    day, restarts

keyVars == <<policy, wallet, key, used, memory, seen, request, issued, day, restarts>>

NoPolicy == [saved |-> FALSE, auto |-> FALSE, ack |-> FALSE, preauth |-> FALSE,
             accepts |-> FALSE, executes |-> FALSE, absent |-> FALSE,
             single |-> 0, daily |-> 0, trusts |-> {}]

NoKey == [status |-> "none", owner |-> None, wallet |-> None, single |-> 0, daily |-> 0,
          perms |-> {}, expired |-> FALSE]

NoRequest == [busy |-> FALSE]

KeyInit ==
    /\ policy = [i \in Identity |-> NoPolicy]
    /\ wallet = [i \in Identity |-> None]
    /\ key = [k \in Key |-> NoKey]
    /\ used = [k \in Key |-> None]
    /\ memory = [w \in Worker |-> [k \in Key |-> 0]]
    /\ seen = [w \in Worker |-> {}]
    /\ request = [r \in Request |-> NoRequest]
    /\ issued = {}
    /\ day = 0
    /\ restarts = 0

-----------------------------------------------------------------------------
(* Automation policy                                                       *)

HNP_MAX_SINGLE_LIMIT == 50
HNP_MAX_DAILY_LIMIT == 200

smaller(a, b) == IF a < b THEN a ELSE b

assert_human_not_present_policy_fields(p) ==
    p.absent => /\ p.ack
                /\ p.auto
                /\ p.single <= HNP_MAX_SINGLE_LIMIT
                /\ p.daily <= HNP_MAX_DAILY_LIMIT

\* Doubled, because HNP_SPEND_MULTIPLIER is one half.
effective_spending_limits(p) ==
    IF p.absent THEN [single2 |-> smaller(p.single, HNP_MAX_SINGLE_LIMIT),
                      daily2 |-> smaller(p.daily, HNP_MAX_DAILY_LIMIT)]
                ELSE [single2 |-> 2 * p.single, daily2 |-> 2 * p.daily]

upsert_automation_policy(i, p) ==
    /\ assert_human_not_present_policy_fields(p)
    /\ p.single > 0
    /\ p.daily >= p.single
    /\ (p.auto \/ p.preauth) => p.ack
    /\ policy' = [policy EXCEPT ![i] = [p EXCEPT !.saved = TRUE]]
    /\ UNCHANGED <<wallet, key, used, memory, seen, request, issued, day, restarts>>

-----------------------------------------------------------------------------
(* Keys                                                                    *)

assert_runtime_key_matches_policy(p, l) ==
    p.saved /\ p.auto /\ p.ack /\ l.single <= p.single /\ l.daily <= p.daily

\* ensure_wallet_authorized_for_runtime_key: the first wallet is bound.
walletAuthorized(i, w) == wallet[i] \in {None, w}

runtime_create_key(k, i, w, l) ==
    /\ key[k].status = "none"
    /\ RequirePolicy => assert_runtime_key_matches_policy(policy[i], l)
    /\ walletAuthorized(i, w)
    /\ l.daily >= l.single
    /\ wallet' = [wallet EXCEPT ![i] = w]
    /\ key' = [key EXCEPT ![k] = [status |-> "active", owner |-> i, wallet |-> w,
                 single |-> l.single, daily |-> l.daily, perms |-> Permission,
                 expired |-> FALSE]]
    /\ UNCHANGED <<policy, used, memory, seen, request, issued, day, restarts>>

runtime_revoke_key(k, i, w) ==
    /\ key[k].status = "active"
    /\ key[k].owner = i
    /\ key[k].wallet = w
    /\ key' = [key EXCEPT ![k].status = "revoked"]
    /\ UNCHANGED <<policy, wallet, used, memory, seen, request, issued, day, restarts>>

expires(k) ==
    /\ key[k].status = "active"
    /\ ~key[k].expired
    /\ key' = [key EXCEPT ![k].expired = TRUE]
    /\ UNCHANGED <<policy, wallet, used, memory, seen, request, issued, day, restarts>>

load_active_context(k) == key[k].status = "active" /\ ~key[k].expired

-----------------------------------------------------------------------------
(* Voucher requests                                                        *)

get_daily_used_async(w, k) ==
    IF Persist /\ used[k] # None THEN used[k] ELSE memory[w][k]

check_single_and_daily_limits(w, k, a) ==
    /\ a <= key[k].single
    /\ get_daily_used_async(w, k) + a <= key[k].daily


check_replay_nonce(w, k, n) == <<k, n>> \notin seen[w]

\* The nonce is spent before the limits are looked at.
request_voucher(r, w, k, n, a) ==
    /\ ~request[r].busy
    /\ load_active_context(k)
    /\ "request_voucher" \in key[k].perms
    /\ check_replay_nonce(w, k, n)
    /\ seen' = [seen EXCEPT ![w] = @ \cup {<<k, n>>}]
    /\ request' = IF check_single_and_daily_limits(w, k, a)
                  THEN [request EXCEPT ![r] = [busy |-> TRUE, worker |-> w, key |-> k,
                          nonce |-> n, amount |-> a, row |-> used[k]]]
                  ELSE request
    /\ UNCHANGED <<policy, wallet, key, used, memory, issued, day, restarts>>

\* record_daily_spend_async: the session answers with the row it has loaded
\* before, and only reads again when there was none.
record_daily_spend_async(w, k, a, row) ==
    /\ memory' = [memory EXCEPT ![w][k] = @ + a]
    /\ used' = IF ~Persist THEN used
               ELSE [used EXCEPT ![k] = IF row # None THEN row + a
                                        ELSE IF @ # None THEN @ + a ELSE a]

vouchers_create(r) ==
    LET q == request[r] IN
    /\ q.busy
    /\ issued' = issued \cup {[request |-> r, key |-> q.key, nonce |-> q.nonce,
                               amount |-> q.amount, recent |-> TRUE,
                               serial |-> Cardinality(issued)]}
    /\ record_daily_spend_async(q.worker, q.key, q.amount, q.row)
    /\ request' = [request EXCEPT ![r] = NoRequest]
    /\ UNCHANGED <<policy, wallet, key, seen, day, restarts>>

\* A nonce is forgotten after ttl_seconds; no request takes that long.
nonce_expires(w, k, n) ==
    /\ <<k, n>> \in seen[w]
    /\ \A r \in Request : request[r].busy => <<request[r].key, request[r].nonce>> # <<k, n>>
    /\ seen' = [seen EXCEPT ![w] = @ \ {<<k, n>>}]
    /\ issued' = {IF v.key = k /\ v.nonce = n THEN [v EXCEPT !.recent = FALSE] ELSE v
                   : v \in issued}
    /\ UNCHANGED <<policy, wallet, key, used, memory, request, day, restarts>>

\* vouchers_create_route raises; the spend is not recorded.
vouchers_refuse(r) ==
    /\ request[r].busy
    /\ request' = [request EXCEPT ![r] = NoRequest]
    /\ UNCHANGED <<policy, wallet, key, used, memory, seen, issued, day, restarts>>

new_day ==
    /\ day < MaxDay
    /\ day' = day + 1
    /\ used' = [k \in Key |-> None]
    /\ memory' = [w \in Worker |-> [k \in Key |-> 0]]
    /\ issued' = {}
    /\ request' = [r \in Request |-> IF request[r].busy
                     THEN [request[r] EXCEPT !.row = None] ELSE NoRequest]
    /\ UNCHANGED <<policy, wallet, key, seen, restarts>>

\* A worker that restarts has forgotten what it counted.
worker_restarts(w) ==
    /\ restarts < MaxRestarts
    /\ restarts' = restarts + 1
    /\ memory' = [memory EXCEPT ![w] = [k \in Key |-> 0]]
    /\ seen' = [seen EXCEPT ![w] = {}]
    /\ request' = [r \in Request |-> IF request[r].busy /\ request[r].worker = w
                                     THEN NoRequest ELSE request[r]]
    /\ UNCHANGED <<policy, wallet, key, used, issued, day>>

KeyNext ==
    \/ \E i \in Identity, p \in PolicyChoice : upsert_automation_policy(i, p)
    \/ \E k \in Key, i \in Identity, w \in Wallet :
          \/ \E l \in LimitChoice : runtime_create_key(k, i, w, l)
          \/ runtime_revoke_key(k, i, w)
    \/ \E k \in Key : expires(k)
    \/ \E r \in Request, w \in Worker, k \in Key, n \in Nonce, a \in Amount :
          request_voucher(r, w, k, n, a)
    \/ \E w \in Worker, k \in Key, n \in Nonce : nonce_expires(w, k, n)
    \/ \E r \in Request : vouchers_create(r) \/ vouchers_refuse(r)
    \/ new_day
    \/ \E w \in Worker : worker_restarts(w)

KeySpec == KeyInit /\ [][KeyNext]_keyVars

-----------------------------------------------------------------------------
spentBy(k) == MapThenSumSet(LAMBDA v : v.amount, {v \in issued : v.key = k})

KeyTypeOK ==
    /\ \A k \in Key : key[k].status \in {"none", "active", "revoked"}
                   /\ (key[k].status = "none" <=> key[k].owner = None)
    /\ used \in [Key -> Nat \cup {None}]
    /\ memory \in [Worker -> [Key -> Nat]]

\* What a key's vouchers of the day add up to never passes its daily limit.
KeyWithinDailyLimit == \A k \in Key : spentBy(k) <= key[k].daily

\* The spend row of a key is what its vouchers of the day add up to, so no
\* later request is measured against a smaller number.
SpendIsRecorded == \A k \in Key : (IF used[k] = None THEN 0 ELSE used[k]) = spentBy(k)

\* While a nonce is remembered it buys one voucher (check_replay_nonce), also
\* when a request is sent again while the first is still being handled.
OneVoucherPerNonce ==
    \A v, u \in issued : v.key = u.key /\ v.nonce = u.nonce /\ v.recent /\ u.recent
                         => v = u

\* All keys of an identity were signed for by the one wallet bound to it.
KeysShareOneWallet ==
    \A k \in Key : key[k].status # "none" => key[k].wallet = wallet[key[k].owner]
=============================================================================
