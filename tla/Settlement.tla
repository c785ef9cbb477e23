------------------------------ MODULE Settlement ------------------------------
(***************************************************************************)
(* The off-chain settlement service: capacity rows, vouchers, settlements, *)
(* progress receipts, execution receipts, payment intents, per-profile     *)
(* quotas and the operational pauses, as the HTTP routes of api/routes     *)
(* change them. A request is one database transaction (db/session.py: any  *)
(* exception rolls everything back), so a handler is one action and a      *)
(* handler that raises changes nothing.  Requests do not overlap here.     *)
(*                                                                         *)
(* Amounts are whole cents. Expiry is a flag that an environment action    *)
(* sets; an overdue delivery changes no split, so it is left out.          *)
(***************************************************************************)
EXTENDS Integers, FiniteSets, FiniteSetsExt, Functions

CONSTANTS
    Identity,            \* karma identities: buyers and sellers
    Task, Voucher, Intent, Profile,
    Owner,               \* the identity that owns a role profile
    None,                \* an optional field that is not set
    Amount,              \* amounts a client may ask for
    Percent,             \* percentages a client may ask for or claim
    MaxLocked,           \* bound: what one identity ever locks
    BundleVerdict,       \* what the arbitration rules may find in a bundle
    PauseSets,           \* the combinations of pauses an operator uses
    Verified,            \* the tasks that use delivery verification
    Client,              \* the identities that ask for work
    ReceiptStatus,       \* what an execution receipt may report
    ProgressState,       \* what the sender of a progress receipt may claim
    LockRequiresPending  \* settings.settlement_lock_requires_pending

VARIABLES
    cap,       \* CapacityModel by identity
    quota,     \* ProfileCapacityModel by profile
    voucher,   \* VoucherModel by id
    st,        \* SettlementModel by task
    progress,  \* the progress receipt of a task
    evidence,  \* execution receipts and evidence bundle of a task
    delivery,  \* delivery-verification session of a task
    intent,    \* PaymentIntentModel by id
    paused     \* operations that the runtime safety mode blocks

vars == <<cap, quota, voucher, st, progress, evidence, delivery, intent, paused>>

-----------------------------------------------------------------------------
(* The task life cycle that every settlement route consults: the canonical   *)
(* statuses, the legacy names that are still parsed, the table of legal      *)
(* transitions and the order used by the store's immutability guard          *)
(* (core/settlement/engine.py, core/schemas.py).                             *)

TaskStatus ==
    {"draft", "pending", "accepted", "in_progress", "progress_submitted",
     "progress_confirmed", "delivered", "disputed", "arbitrated", "settled",
     "refunded", "cancelled", "auto_confirmed", "partially_settled", "frozen",
     "authorized"}

\* Names of earlier releases, each stored under its canonical name.
LegacyToCanonical ==
    [created |-> "draft", locked |-> "accepted", running |-> "in_progress",
     submitted |-> "delivered", buyer_regret |-> "settled",
     verifying |-> "delivered", verified |-> "delivered",
     released |-> "settled", failed |-> "cancelled",
     arbitration |-> "arbitrated", buyer_wins |-> "refunded",
     seller_wins |-> "settled", partial |-> "settled"]

canonical_task_status(s) ==
    IF s \in DOMAIN LegacyToCanonical THEN LegacyToCanonical[s] ELSE s

\* "authorized" has no row: nothing follows it.
ValidTransitions ==
    [s \in TaskStatus |->
        CASE s = "draft"              -> {"pending", "accepted", "cancelled"}
          [] s = "pending"            -> {"accepted", "cancelled"}
          [] s = "accepted"           -> {"in_progress", "disputed", "cancelled"}
          [] s = "in_progress"        -> {"progress_submitted", "delivered", "settled",
                                          "disputed", "cancelled"}
          [] s = "progress_submitted" -> {"progress_confirmed", "delivered", "settled",
                                          "disputed"}
          [] s = "progress_confirmed" -> {"delivered", "disputed", "settled",
                                          "auto_confirmed"}
          [] s = "delivered"          -> {"settled", "disputed", "refunded", "frozen"}
          [] s = "disputed"           -> {"arbitrated", "frozen"}
          [] s = "arbitrated"         -> {"settled", "refunded", "partially_settled",
                                          "frozen"}
          [] s \in {"settled", "refunded", "cancelled"} -> {"frozen"}
          [] s = "partially_settled"  -> {"settled", "frozen"}
          [] s = "auto_confirmed"     -> {"settled", "disputed", "frozen"}
          [] s = "frozen"             -> {"delivered", "disputed", "settled", "refunded",
                                          "cancelled"}
          [] OTHER                    -> {}]

can_transition(from, to) ==
    canonical_task_status(to) \in ValidTransitions[canonical_task_status(from)]

\* The statuses of rank 3 and more in STATUS_ORDER. "settled" has no rank and
\* counts as 0, as does "frozen".
is_post_accepted(s) ==
    canonical_task_status(s) \in
        {"accepted", "in_progress", "progress_submitted", "progress_confirmed",
         "delivered", "disputed", "arbitrated", "auto_confirmed",
         "partially_settled", "refunded", "cancelled"}

\* What the payment-cycle guard and the reports regard as finished.
TerminalStatus == {"settled", "refunded", "cancelled"}

-----------------------------------------------------------------------------
Operation == {"new_lock", "new_authorization", "new_task", "new_settlement"}

\* What the constants are: amounts and percentages of the request schemas, and
\* finitely many identities and tasks.
SettlementAssumption ==
    /\ Amount \subseteq Nat \ {0}
    /\ Percent \subseteq 1..100
    /\ Client \subseteq Identity
    /\ Owner \in [Profile -> Identity]
    /\ None \notin Identity \cup Task \cup Voucher \cup Profile
    /\ PauseSets \subseteq SUBSET Operation
    /\ ReceiptStatus \subseteq {"success", "failed"}
    /\ ProgressState \subseteq {"pending", "confirmed"}
    /\ IsFiniteSet(Identity) /\ IsFiniteSet(Task)

EmptyCap == [exists |-> FALSE, locked |-> 0, bill |-> 0, available |-> 0,
             reserved |-> 0, disputed |-> 0, burned |-> 0, released |-> 0]

NoVoucher == [status |-> "none", buyer |-> None, seller |-> None, amount |-> 0,
              profile |-> None, expired |-> FALSE]

NoSettlement == [status |-> "none", escrow |-> 0, client |-> None, worker |-> None,
                 voucher |-> None, profile |-> None, released |-> 0, refunded |-> 0]

NoQuota == [exists |-> FALSE, allocated |-> 0, available |-> 0, inProgress |-> 0,
            released |-> 0]

Init ==
    /\ cap = [i \in Identity |-> EmptyCap]
    /\ quota = [p \in Profile |-> NoQuota]
    /\ voucher = [v \in Voucher |-> NoVoucher]
    /\ st = [t \in Task |-> NoSettlement]
    /\ progress = [t \in Task |-> [claimed |-> 0, state |-> "none"]]
    /\ evidence = [t \in Task |-> [receipt |-> "none", bundle |-> "none"]]
    /\ delivery = [t \in Task |-> "none"]
    /\ intent = [n \in Intent |-> [status |-> "none", task |-> None]]
    /\ paused = {}

-----------------------------------------------------------------------------
(* Capacity ledger                                                         *)

active_credits(c) == c.available + c.reserved + c.disputed

responsibility_credits(c) == c.reserved + c.disputed

\* assert_capacity_invariants, run on every changed row before it is flushed.
capacityInvariants(c) ==
    /\ c.bill = active_credits(c)
    /\ c.locked >= active_credits(c)
    /\ \A f \in {"available", "reserved", "disputed"} : c[f] >= 0

\* audit_capacity_anchor_and_maybe_trip: more credits than locked USDC switch
\* every pause on and fail the request.
anchorBreached ==
    SumFunctionOnSet([i \in Identity |-> cap[i].bill], Identity)
        > SumFunctionOnSet([i \in Identity |-> cap[i].locked], Identity)

\* assert_runtime_operation_allowed followed by the anchor audit.
allowed(op) == op \notin paused /\ ~anchorBreached

writeCap(i, row) == capacityInvariants(row) /\ cap' = [cap EXCEPT ![i] = row]

lock_usdc(i, a) ==
    /\ allowed("new_lock")
    /\ cap[i].locked + cap[i].burned + cap[i].released + a <= MaxLocked
    /\ writeCap(i, [cap[i] EXCEPT !.exists = TRUE, !.locked = @ + a, !.bill = @ + a,
                                  !.available = @ + a])
    /\ UNCHANGED <<quota, voucher, st, progress, evidence, delivery, intent, paused>>

assert_can_release_locked_funds(c, a) ==
    c.available >= a /\ responsibility_credits(c) = 0

\* The pauses do not stop it.
release_unused(i, a) ==
    /\ ~anchorBreached
    /\ cap[i].exists
    /\ assert_can_release_locked_funds(cap[i], a)
    /\ writeCap(i, [cap[i] EXCEPT !.available = @ - a, !.bill = @ - a, !.locked = @ - a,
                                  !.released = @ + a])
    /\ UNCHANGED <<quota, voucher, st, progress, evidence, delivery, intent, paused>>

\* A dispute moves the escrow from the reserved to the disputed bucket.
freezable(i, e) == cap[i].exists /\ cap[i].reserved >= e

move_reserved_to_disputed(i, e) ==
    /\ freezable(i, e)
    /\ writeCap(i, [cap[i] EXCEPT !.reserved = @ - e, !.disputed = @ + e])

\* Mutant: nothing checks that the credits are there.
resolution_below_zero(i, e, settled, refunded) ==
    cap' = [cap EXCEPT ![i].reserved = @ - e, ![i].burned = @ + settled,
                       ![i].released = @ + refunded, ![i].bill = @ - e, ![i].locked = @ - e]

\* The bucket a resolution takes the escrow from: disputed if it can, whichever
\* task is being resolved.
resolutionBucket(c, e) ==
    IF c.disputed >= e THEN "disputed" ELSE "reserved"

\* Nothing happens, and nothing fails, for a buyer without a capacity row.
resolvable(i, e) ==
    cap[i].exists =>
        /\ cap[i].bill >= e
        /\ cap[i].locked >= e
        /\ cap[i][resolutionBucket(cap[i], e)] >= e

apply_capacity_resolution(i, e, settled, refunded) ==
    /\ resolvable(i, e)
    /\ IF cap[i].exists
       THEN writeCap(i, [cap[i] EXCEPT ![resolutionBucket(cap[i], e)] = @ - e,
                                       !.burned = @ + settled, !.released = @ + refunded,
                                       !.bill = @ - e, !.locked = @ - e])
       ELSE UNCHANGED cap

-----------------------------------------------------------------------------
(* Profile quotas                                                          *)

\* One request sets the allocation of the profiles it names, here all to the
\* same amount; the sum that may not exceed the locked USDC is theirs alone.
allocate(i, ps, a) ==
    /\ cap[i].exists
    /\ a * Cardinality(ps) <= cap[i].locked
    /\ \A p \in ps : Owner[p] = i /\ a >= quota[p].inProgress
    /\ quota' = [p \in Profile |->
                    IF p \in ps
                    THEN [quota[p] EXCEPT !.exists = TRUE, !.allocated = a,
                                          !.available = a - quota[p].inProgress]
                    ELSE quota[p]]
    /\ UNCHANGED <<cap, voucher, st, progress, evidence, delivery, intent, paused>>

spendable(p, a) == p # None => quota[p].exists /\ a <= quota[p].available

spend_profile_credits(p, a) ==
    IF p = None THEN UNCHANGED quota
    ELSE quota' = [quota EXCEPT ![p].available = @ - a, ![p].inProgress = @ + a]

\* Never more than is in progress: the settled part is scaled down with it.
release_profile_credits(p, settled, refunded) ==
    IF p = None \/ ~quota[p].exists THEN UNCHANGED quota
    ELSE LET total == Min({settled + refunded, quota[p].inProgress})
             out   == IF settled + refunded = 0 THEN 0
                      ELSE (settled * total) \div (settled + refunded)
         IN  quota' = [quota EXCEPT ![p].inProgress = @ - total,
                                    ![p].released = @ + out,
                                    ![p].available = @ + (total - out)]

-----------------------------------------------------------------------------
(* Vouchers                                                                *)

create_voucher(v, b, s, a, p) ==
    /\ allowed("new_authorization")
    /\ voucher[v].status = "none"
    /\ cap[b].exists /\ cap[b].available >= a
    /\ spendable(p, a)
    /\ spend_profile_credits(p, a)
    /\ voucher' = [voucher EXCEPT ![v] = [status |-> "created", buyer |-> b, seller |-> s,
                                          amount |-> a, profile |-> p, expired |-> FALSE]]
    /\ UNCHANGED <<cap, st, progress, evidence, delivery, intent, paused>>

\* Clock: the expiry time of a voucher passes.
expire(v) ==
    /\ voucher[v].status # "none" /\ ~voucher[v].expired
    /\ voucher' = [voucher EXCEPT ![v].expired = TRUE]
    /\ UNCHANGED <<cap, quota, st, progress, evidence, delivery, intent, paused>>

\* The status EXPIRED that an expired voucher is given is rolled back with
\* the 409 that follows, so an expired voucher stays "created".
acceptable(v) ==
    /\ voucher[v].status = "created"
    /\ ~voucher[v].expired
    /\ cap[voucher[v].buyer].available >= voucher[v].amount

reserve(v) ==
    LET b == voucher[v].buyer IN
    writeCap(b, [cap[b] EXCEPT !.available = @ - voucher[v].amount,
                               !.reserved = @ + voucher[v].amount])

accept_voucher(v) ==
    /\ allowed("new_authorization")
    /\ acceptable(v)
    /\ reserve(v)
    /\ voucher' = [voucher EXCEPT ![v].status = "accepted"]
    /\ UNCHANGED <<quota, st, progress, evidence, delivery, intent, paused>>

reject_voucher_row(v) ==
    /\ voucher[v].status = "created"
    /\ voucher' = [voucher EXCEPT ![v].status = "rejected"]
    /\ UNCHANGED <<cap, quota, st, progress, evidence, delivery, intent, paused>>

mark_voucher_used_if_linked(t) ==
    LET v == st[t].voucher IN
    voucher' = IF v # None /\ voucher[v].status = "accepted"
               THEN [voucher EXCEPT ![v].status = "used"]
               ELSE voucher

-----------------------------------------------------------------------------
(* Payment intents                                                         *)

\* A new intent that names a task is authorized at once.
create_payment_intent(n, t) ==
    /\ intent[n].status = "none"
    /\ intent' = [intent EXCEPT ![n] = [status |-> IF t = None THEN "created"
                                                   ELSE "authorized", task |-> t]]
    /\ UNCHANGED <<cap, quota, voucher, st, progress, evidence, delivery, paused>>

bind_payment_intent(n, t) ==
    /\ intent[n].status \in {"created", "authorized"}
    /\ intent' = [intent EXCEPT ![n] = [status |-> "authorized", task |-> t]]
    /\ UNCHANGED <<cap, quota, voucher, st, progress, evidence, delivery, paused>>

mark_intents_settled_for_task(t) ==
    intent' = [n \in Intent |->
                  IF intent[n].task = t /\ intent[n].status \in {"created", "authorized"}
                  THEN [intent[n] EXCEPT !.status = "settled"] ELSE intent[n]]

\* The sweep closes the open intents whose expiry has passed: any set ns.
expire_stale_intents(ns) ==
    /\ ns # {}
    /\ \A n \in ns : intent[n].status \in {"created", "authorized"}
    /\ intent' = [n \in Intent |-> IF n \in ns THEN [intent[n] EXCEPT !.status = "expired"]
                                   ELSE intent[n]]
    /\ UNCHANGED <<cap, quota, voucher, st, progress, evidence, delivery, paused>>

-----------------------------------------------------------------------------
(* Settlement state                                                        *)

\* _apply_transition and PostgresSettlementStore.save: the new row is written
\* if its status is reachable and, once accepted, the parties and the escrow
\* are the old ones. A refused transition is audited and rolled back.
storable(old, new) ==
    /\ can_transition(old.status, new.status)
    /\ is_post_accepted(old.status) =>
          \A f \in {"escrow", "client", "worker"} : old[f] = new[f]

\* Mutant: the status is written without consulting VALID_TRANSITIONS.
apply_any_transition(t, new) ==
    st[t].status # "none" /\ st' = [st EXCEPT ![t] = new]

apply_transition(t, new) ==
    /\ st[t].status # "none"
    /\ storable(st[t], new)
    /\ st' = [st EXCEPT ![t] = new]

\* Routes that change only the settlement row.
statusStep(t, new) ==
    /\ apply_transition(t, new)
    /\ UNCHANGED <<cap, quota, voucher, progress, evidence, delivery, intent, paused>>

voucherFits(v, c, e) ==
    v # None => /\ voucher[v].status = "accepted"
                /\ voucher[v].buyer = c
                /\ voucher[v].amount = e

create_settlement(t, c, e, v, p) ==
    /\ allowed("new_task")
    /\ voucherFits(v, c, e)
    /\ st[t].status = "none"
    /\ st' = [st EXCEPT ![t] =
                 [NoSettlement EXCEPT !.status = "draft", !.client = c, !.escrow = e,
                                      !.voucher = v,
                                      !.profile = IF p = None /\ v # None
                                                  THEN voucher[v].profile ELSE p]]
    /\ UNCHANGED <<cap, quota, voucher, progress, evidence, delivery, intent, paused>>

mark_settlement_pending(t) ==
    allowed("new_task") /\ statusStep(t, [st[t] EXCEPT !.status = "pending"])

\* client -> worker edges of the unfinished settlements other than t.
paymentEdges(t) ==
    {<<st[u].client, st[u].worker>> : u \in
        {u \in Task \ {t} : st[u].worker # None /\ st[u].status \notin TerminalStatus}}

\* The identities a payment of x flows on to: what every set that holds x and
\* follows the edges contains (the depth-first search of
\* worker_reaches_buyer_on_edges).
reach(edges, x) ==
    {y \in Identity : \A R \in SUBSET Identity :
        (x \in R /\ \A e \in edges : e[1] \in R => e[2] \in R) => y \in R}

closesCycle(t, buyer, worker) ==
    worker # buyer /\ buyer \in reach(paymentEdges(t), worker)

lock_settlement(t, w) ==
    /\ allowed("new_task")
    /\ w # st[t].client
    /\ ~(LockRequiresPending /\ st[t].status = "draft")
    /\ statusStep(t, [st[t] EXCEPT !.status = "accepted", !.worker = w])
    /\ ~closesCycle(t, st[t].client, w)

start_settlement(t) ==
    allowed("new_task") /\ statusStep(t, [st[t] EXCEPT !.status = "in_progress"])

\* _assert_p7_delivery_gate: a delivery session has to be verified.
deliveryGate(t) == delivery[t] \in {"none", "verified"}

submit_settlement(t) ==
    /\ allowed("new_task")
    /\ deliveryGate(t)
    /\ statusStep(t, [st[t] EXCEPT !.status = "delivered"])

\* Leaves the reserved credits and the voucher as they are.
fail_settlement(t) ==
    allowed("new_task") /\ statusStep(t, [st[t] EXCEPT !.status = "cancelled"])

-----------------------------------------------------------------------------
(* Progress, receipts, delivery                                            *)

\* The status of a new receipt is the one its sender states.
submit_progress_receipt(t, pct, state) ==
    /\ pct >= progress[t].claimed
    /\ apply_transition(t, [st[t] EXCEPT !.status = "progress_submitted"])
    /\ progress' = [progress EXCEPT ![t] = [claimed |-> pct, state |-> state]]
    /\ UNCHANGED <<cap, quota, voucher, evidence, delivery, intent, paused>>

\* confirm_progress_receipt by the buyer, or timeout_confirm_progress.
confirm_progress_receipt(t) ==
    /\ progress[t].state = "pending"
    /\ apply_transition(t, [st[t] EXCEPT !.status = "progress_confirmed"])
    /\ progress' = [progress EXCEPT ![t].state = "confirmed"]
    /\ UNCHANGED <<cap, quota, voucher, evidence, delivery, intent, paused>>

confirmed_progress_percent(t) ==
    IF progress[t].state = "confirmed" THEN progress[t].claimed ELSE 0

submit_receipt(t, r) ==
    /\ evidence[t].receipt # "success"
    /\ evidence' = [evidence EXCEPT ![t].receipt = r]
    /\ UNCHANGED <<cap, quota, voucher, st, progress, delivery, intent, paused>>

submit_bundle(t, b) ==
    /\ evidence[t].bundle = "none"
    /\ evidence' = [evidence EXCEPT ![t].bundle = b]
    /\ UNCHANGED <<cap, quota, voucher, st, progress, delivery, intent, paused>>

\* A delivery-verification session is opened for the task, and verified.
deliverySession(t) ==
    /\ t \in Verified
    /\ \/ delivery[t] = "none" /\ delivery' = [delivery EXCEPT ![t] = "open"]
       \/ delivery[t] = "open" /\ delivery' = [delivery EXCEPT ![t] = "verified"]
    /\ UNCHANGED <<cap, quota, voucher, st, progress, evidence, intent, paused>>

-----------------------------------------------------------------------------
(* Payout                                                                  *)

\* round(escrow * percent / 100, 2)
share(e, pct) == (e * pct + 50) \div 100

\* ensure_success_execution_receipt_before_seller_payout
receiptForPayout(t, settled) == settled > 0 => evidence[t].receipt = "success"

paidOut(t, status, settled) ==
    [st[t] EXCEPT !.status = status, !.released = settled,
                  !.refunded = st[t].escrow - settled]

\* What every payout does after its own checks.
finalize(t, status, settled) ==
    /\ apply_transition(t, paidOut(t, status, settled))
    /\ apply_capacity_resolution(st[t].client, st[t].escrow, settled,
                                 st[t].escrow - settled)
    /\ mark_voucher_used_if_linked(t)
    /\ UNCHANGED <<progress, evidence, delivery, paused>>

\* At most what is confirmed; with nothing confirmed, only after delivery.
withinConfirmed(t, pct) ==
    IF confirmed_progress_percent(t) > 0
    THEN pct <= confirmed_progress_percent(t)
    ELSE st[t].status = "delivered"

partial_settlement(t, pct) ==
    /\ allowed("new_settlement")
    /\ withinConfirmed(t, pct)
    /\ receiptForPayout(t, share(st[t].escrow, pct))
    /\ finalize(t, "settled", share(st[t].escrow, pct))
    /\ mark_intents_settled_for_task(t)
    /\ UNCHANGED quota

regret_settlement(t) ==
    LET settled == share(st[t].escrow, confirmed_progress_percent(t)) IN
    /\ allowed("new_settlement")
    /\ receiptForPayout(t, settled)
    /\ finalize(t, "settled", settled)
    /\ mark_intents_settled_for_task(t)
    /\ UNCHANGED quota

\* The only payout that returns the profile's quota.
buyer_accept_settlement(t) ==
    /\ st[t].status = "delivered"
    /\ allowed("new_settlement")
    /\ deliveryGate(t)
    /\ receiptForPayout(t, st[t].escrow)
    /\ finalize(t, "settled", st[t].escrow)
    /\ release_profile_credits(st[t].profile, st[t].escrow, 0)
    /\ mark_intents_settled_for_task(t)

\* open_dispute from any status that allows it, buyer_reject_settlement from
\* "delivered" only: the same change.
dispute(t) ==
    /\ st[t].status # "none"
    /\ move_reserved_to_disputed(st[t].client, st[t].escrow)
    /\ apply_transition(t, [st[t] EXCEPT !.status = "disputed"])
    /\ UNCHANGED <<quota, voucher, progress, evidence, delivery, intent, paused>>

open_dispute(t) == dispute(t)

buyer_reject_settlement(t) == st[t].status = "delivered" /\ dispute(t)

\* Nothing to the seller when the bundle's step counts are wrong or nothing is
\* confirmed; all of it from 90%. A failed bundle withdraws that bonus only
\* below 50%, where it is not given anyway.
adjust_auto_split_for_rules(t) ==
    LET confirmed == confirmed_progress_percent(t)
    IN  IF evidence[t].bundle = "counts" \/ confirmed = 0 THEN 0
        ELSE IF confirmed >= 90 THEN st[t].escrow
        ELSE share(st[t].escrow, confirmed)

\* build_auto_arbitration_context leaves the rest of the rules inputs that
\* cannot change the split when something is confirmed.
auto_arbitrate(t) ==
    LET settled == adjust_auto_split_for_rules(t)
        target  == IF settled = 0 THEN "refunded" ELSE "settled"
    IN  /\ st[t].status # "none"
        /\ can_transition(st[t].status, "arbitrated")
        /\ receiptForPayout(t, settled)
        /\ can_transition("arbitrated", target)
        /\ st' = [st EXCEPT ![t] = paidOut(t, target, settled)]
        /\ apply_capacity_resolution(st[t].client, st[t].escrow, settled,
                                     st[t].escrow - settled)
        /\ mark_voucher_used_if_linked(t)
        /\ IF target = "settled" THEN mark_intents_settled_for_task(t)
           ELSE UNCHANGED intent
        /\ UNCHANGED <<quota, progress, evidence, delivery, paused>>

-----------------------------------------------------------------------------
(* Safety mode                                                             *)

\* set_runtime_safety_mode (all or none) and set_runtime_operational_pauses.
setPauses(ps) ==
    /\ paused # ps
    /\ paused' = ps
    /\ UNCHANGED <<cap, quota, voucher, st, progress, evidence, delivery, intent>>

-----------------------------------------------------------------------------
CapacityRoutes ==
    \/ \E i \in Client, a \in Amount : lock_usdc(i, a) \/ release_unused(i, a)
    \/ \E i \in Identity, ps \in (SUBSET Profile) \ {{}}, a \in Amount : allocate(i, ps, a)
    \/ \E ps \in PauseSets : setPauses(ps)

VoucherRoutes ==
    \/ \E v \in Voucher, b \in Client, s \in Identity, a \in Amount, p \in Profile \cup {None} :
          b # s /\ create_voucher(v, b, s, a, p)
    \/ \E v \in Voucher : expire(v) \/ accept_voucher(v) \/ reject_voucher_row(v)
    \/ \E n \in Intent, t \in Task \cup {None} : create_payment_intent(n, t)
    \/ \E n \in Intent, t \in Task : bind_payment_intent(n, t)
    \/ \E ns \in SUBSET Intent : expire_stale_intents(ns)

StatusRoutes ==
    \/ \E t \in Task, c \in Client, e \in Amount, v \in Voucher \cup {None},
          p \in Profile \cup {None} : create_settlement(t, c, e, v, p)
    \/ \E t \in Task :
          \/ mark_settlement_pending(t)
          \/ \E w \in Identity : lock_settlement(t, w)
          \/ start_settlement(t)
          \/ submit_settlement(t)
          \/ fail_settlement(t)

EvidenceRoutes ==
    \E t \in Task :
        \/ \E pct \in Percent, state \in ProgressState :
              submit_progress_receipt(t, pct, state)
        \/ confirm_progress_receipt(t)
        \/ \E r \in ReceiptStatus : submit_receipt(t, r)
        \/ \E b \in BundleVerdict : submit_bundle(t, b)
        \/ deliverySession(t)

PayoutRoutes ==
    \E t \in Task :
        \/ \E pct \in Percent : partial_settlement(t, pct)
        \/ regret_settlement(t)
        \/ buyer_accept_settlement(t)
        \/ open_dispute(t)
        \/ buyer_reject_settlement(t)
        \/ auto_arbitrate(t)

Next == CapacityRoutes \/ VoucherRoutes \/ StatusRoutes \/ EvidenceRoutes \/ PayoutRoutes

Spec == Init /\ [][Next]_vars

-----------------------------------------------------------------------------
CapRow == [exists : BOOLEAN, locked : Nat, bill : Nat, available : Nat, reserved : Nat,
           disputed : Nat, burned : Nat, released : Nat]

SettlementRow ==
    [status : TaskStatus \cup {"none"}, escrow : Nat, client : Identity \cup {None},
     worker : Identity \cup {None}, voucher : Voucher \cup {None},
     profile : Profile \cup {None}, released : Nat, refunded : Nat]

QuotaRow == [exists : BOOLEAN, allocated : Nat, available : Nat, inProgress : Nat,
             released : Nat]

VoucherRow == [status : {"none", "created", "accepted", "rejected", "used"},
               buyer : Identity \cup {None}, seller : Identity \cup {None}, amount : Nat,
               profile : Profile \cup {None}, expired : BOOLEAN]

ProgressRow == [claimed : 0..100, state : {"none", "pending", "confirmed"}]

EvidenceRow == [receipt : {"none", "success", "failed"}, bundle : {"none"} \cup BundleVerdict]

IntentRow == [status : {"none", "created", "authorized", "settled", "expired"},
              task : Task \cup {None}]

\* The rows have the columns of db/models/orm.py, and no bucket is negative.
TypeOK ==
    /\ cap \in [Identity -> CapRow]
    /\ quota \in [Profile -> QuotaRow]
    /\ voucher \in [Voucher -> VoucherRow]
    /\ st \in [Task -> SettlementRow]
    /\ progress \in [Task -> ProgressRow]
    /\ evidence \in [Task -> EvidenceRow]
    /\ delivery \in [Task -> {"none", "open", "verified"}]
    /\ intent \in [Intent -> IntentRow]
    /\ paused \subseteq Operation

releasedFor(i) ==
    SumFunctionOnSet([t \in Task |-> st[t].released], {t \in Task : st[t].client = i})

\* What leaves a buyer's capacity towards sellers is never more than what the
\* buyer's settlements say was paid (apply_capacity_resolution is called with
\* the amounts the route wrote into the settlement).
BurnedIsPaid == \A i \in Identity : cap[i].burned <= releasedFor(i)

\* Credits only enter through lock_usdc: every other route, whichever bucket
\* it moves them to or takes them from, keeps locked + burned + released.
CreditsConserved ==
    \A i \in Identity :
       LET total(c) == c.locked + c.burned + c.released
       IN  total(cap'[i]) = total(cap[i])
             \/ \E a \in Amount : total(cap'[i]) = total(cap[i]) + a
                                  /\ cap'[i].available = cap[i].available + a

\* payment_cycle_guard: however locks, payouts and failures interleave, the
\* payments of the unfinished settlements never form a directed cycle.
AcyclicPayments ==
    LET open == {t \in Task : st[t].worker # None /\ st[t].status \notin TerminalStatus}
    IN  \A S \in (SUBSET open) \ {{}} :
            \E t \in S : \A u \in S : st[u].client # st[t].worker

\* settlement_receipt_release_guard: no route of this module pays a seller for
\* a task without a successful execution receipt.
PaidOnlyWithReceipt ==
    \A t \in Task : st[t].released > 0 => evidence[t].receipt = "success"

\* A settlement that was paid out or refunded keeps its split, and the split
\* is the escrow: no second payout, dispute or arbitration of the same task.
PayoutFinal ==
    \A t \in Task :
       st[t].status \in {"settled", "refunded"} =>
           /\ st'[t] = st[t]
           /\ st[t].released + st[t].refunded = st[t].escrow

\* A payment intent is settled only together with the task it is bound to.
IntentFollowsTask ==
    \A n \in Intent : intent[n].status = "settled" => st[intent[n].task].status = "settled"

\* A payout closes the voucher of the task (mark_voucher_used_if_linked).
PaidVoucherIsUsed ==
    \A t \in Task :
        (st[t].status \in {"settled", "refunded"} /\ st[t].voucher # None) =>
            voucher[st[t].voucher].status = "used"
=============================================================================
