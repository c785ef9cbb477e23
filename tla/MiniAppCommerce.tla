-------------------------- MODULE MiniAppCommerce --------------------------
(***************************************************************************)
(* MiniApp commerce: the order with its fulfilment sub-state, its bill,    *)
(* risk assessment, disputes and verification runs, driven by the session  *)
(* routes, by the chat concierge and by the escrow timeout sweep.  Orders  *)
(* are in the memory of the API process and saved whole to a JSON file;    *)
(* bills, runs, assessments and disputes are only in memory.  The model    *)
(* assumes that the sweep is called in that process; a Celery worker would *)
(* sweep the copy of the file it loaded when it started.                   *)
(***************************************************************************)
EXTENDS Naturals, FiniteSets

CONSTANTS Orders,
          Paths,         \* how an order is made: "app" or "chat"
          MaxEvidence,   \* bound on the evidence bundles of an order
          MaxDisputes,   \* bound on the disputes opened on an order
          Holds,         \* may the risk assessment put an order on hold?
          LateCalls      \* may a route be called for an order past its stage? the
                         \* routes do not refuse that, the pages do not do it

BoundAssumption == MaxEvidence \in Nat /\ MaxDisputes \in Nat

\* OrderStatus.  EXECUTED is never assigned.
Statuses == {"none", "DRAFT", "QUOTED", "SIGNED", "POLICY_CHECKED", "LOCKED",
             "EVIDENCE_SUBMITTED", "VERIFIED", "SETTLED", "REFUNDED", "REJECTED"}

\* FulfillmentStatus.
Fulfillment == {"PENDING_ACCEPT", "ACCEPTED", "PROCESSING", "DELIVERED",
                "VERIFIED", "SETTLED", "DISPUTED", "REFUNDED"}

\* MiniAppOrder.  stale: nothing has touched it for the sweep's timeout.
Order == [status : Statuses, ful : Fulfillment, sigs : SUBSET {"buyer", "seller"},
          binding : BOOLEAN, evidence : 0 .. MaxEvidence, stale : BOOLEAN]

BillStatus == {"none", "created", "locked", "settled", "refunded", "disputed", "rejected"}

\* VerificationRun: its result and the evidence it judged.
Run == [res : {"none", "PASS", "FAIL", "RISK_HOLD"}, ev : 0 .. MaxEvidence]
NoRun == [res |-> "none", ev |-> 0]

VARIABLES ord, bill, run, risk,
          open,           \* disputes of an order that are open
          opened, decided, \* history: disputes ever opened, ever resolved
          disk,           \* orders.json
          paid            \* history: what an order's money was released to

vars == <<ord, bill, run, risk, open, opened, decided, disk, paid>>

TypeOK ==
    /\ ord \in [Orders -> Order]
    /\ bill \in [Orders -> BillStatus]
    /\ run \in [Orders -> Run]
    /\ risk \in [Orders -> {"none", "ok", "hold"}]
    /\ open \in [Orders -> 0 .. MaxDisputes] /\ opened \in [Orders -> 0 .. MaxDisputes]
    /\ decided \in [Orders -> 0 .. MaxDisputes]
    /\ disk \in [Orders -> Order]
    /\ paid \in [Orders -> SUBSET {"seller", "buyer"}]

NewOrder == [status |-> "none", ful |-> "PENDING_ACCEPT", sigs |-> {},
             binding |-> FALSE, evidence |-> 0, stale |-> FALSE]

Init ==
    /\ ord = [o \in Orders |-> NewOrder]
    /\ bill = [o \in Orders |-> "none"]
    /\ run = [o \in Orders |-> NoRun]
    /\ risk = [o \in Orders |-> "none"]
    /\ open = [o \in Orders |-> 0] /\ opened = [o \in Orders |-> 0]
    /\ decided = [o \in Orders |-> 0]
    /\ disk = [o \in Orders |-> NewOrder]
    /\ paid = [o \in Orders |-> {}]

Exists(o) == ord[o].status # "none"

\* _touch and _persist: the order is fresh again and all orders are saved.
Put(o, r) ==
    LET new == [ord EXCEPT ![o] = [r EXCEPT !.stale = FALSE]] IN
    ord' = new /\ disk' = new

\* update_bill: a missing bill is passed over.
update_bill(o, s) ==
    bill' = IF bill[o] = "none" THEN bill ELSE [bill EXCEPT ![o] = s]

-----------------------------------------------------------------------------
\* POST /commerce/orders with an offer, and without one: create_order saves
\* the file before it adds the order, so a draft is not in it yet.
create_order(o) ==
    /\ ~Exists(o) /\ "app" \in Paths
    /\ Put(o, [NewOrder EXCEPT !.status = "QUOTED"])
    /\ bill' = [bill EXCEPT ![o] = "created"]
    /\ UNCHANGED <<run, risk, open, opened, decided, paid>>

create_draft(o) ==
    /\ ~Exists(o) /\ "app" \in Paths
    /\ ord' = [ord EXCEPT ![o].status = "DRAFT"]
    /\ disk' = ord
    /\ UNCHANGED <<bill, run, risk, open, opened, decided, paid>>

\* handle_confirm of the concierge: quoted, checked and locked in one go,
\* with no on-chain binding; or refused by the limits.
handle_confirm(o) ==
    /\ ~Exists(o) /\ "chat" \in Paths
    /\ \/ /\ Put(o, [NewOrder EXCEPT !.status = "LOCKED"])
          /\ bill' = [bill EXCEPT ![o] = "locked"]
       \/ /\ Put(o, [NewOrder EXCEPT !.status = "REFUNDED", !.ful = "REFUNDED"])
          /\ bill' = [bill EXCEPT ![o] = "rejected"]
    /\ UNCHANGED <<run, risk, open, opened, decided, paid>>

\* POST /commerce/orders/sign: no status is asked for.
sign_order(o) ==
    \E role \in {"buyer", "seller"} :
        LET sigs == ord[o].sigs \union {role} IN
        /\ Exists(o)
        /\ LateCalls \/ (ord[o].status = "QUOTED" /\ role \notin ord[o].sigs)
        /\ Put(o, [ord[o] EXCEPT !.sigs = sigs,
              !.status = IF sigs = {"buyer", "seller"} THEN "SIGNED" ELSE @])
        /\ UNCHANGED <<bill, run, risk, open, opened, decided, paid>>

\* accept_order, from the route and from the chat.
accept_order(o) ==
    /\ ord[o].ful = "PENDING_ACCEPT"
    /\ ord[o].status \in {"QUOTED", "SIGNED", "POLICY_CHECKED", "LOCKED"}
    /\ Put(o, [ord[o] EXCEPT !.ful = "ACCEPTED"])
    /\ UNCHANGED <<bill, run, risk, open, opened, decided, paid>>

start_processing(o) ==
    /\ ord[o].status = "LOCKED" /\ ord[o].ful = "ACCEPTED"
    /\ Put(o, [ord[o] EXCEPT !.ful = "PROCESSING"])
    /\ UNCHANGED <<bill, run, risk, open, opened, decided, paid>>

deliver_order(o) ==
    /\ ord[o].status = "LOCKED" /\ ord[o].ful \in {"ACCEPTED", "PROCESSING"}
    /\ ord[o].evidence < MaxEvidence
    /\ Put(o, [ord[o] EXCEPT !.evidence = @ + 1, !.ful = "DELIVERED",
                             !.status = "EVIDENCE_SUBMITTED"])
    /\ UNCHANGED <<bill, run, risk, open, opened, decided, paid>>

\* apply_policy, called by policy-check and by lock.
apply_policy(o) ==
    /\ ord[o].status \in {"SIGNED", "QUOTED", "POLICY_CHECKED"}
    /\ \E ok \in BOOLEAN :
          Put(o, [ord[o] EXCEPT !.status = IF ok THEN "POLICY_CHECKED" ELSE "REJECTED"])
    /\ UNCHANGED <<bill, run, risk, open, opened, decided, paid>>

\* POST /settlement/lock.
settlement_lock(o) ==
    /\ ord[o].status \in {"SIGNED", "POLICY_CHECKED"}
    /\ \E b \in BOOLEAN :
          Put(o, [ord[o] EXCEPT !.status = "LOCKED", !.binding = b])
    /\ update_bill(o, "locked")
    /\ UNCHANGED <<run, risk, open, opened, decided, paid>>

\* POST /evidence/bundles.
submit_evidence(o) ==
    /\ ord[o].status \in {"LOCKED", "EVIDENCE_SUBMITTED"}
    /\ ord[o].evidence < MaxEvidence
    /\ Put(o, [ord[o] EXCEPT !.evidence = @ + 1, !.status = "EVIDENCE_SUBMITTED",
          !.ful = IF @ \in {"PENDING_ACCEPT", "ACCEPTED", "PROCESSING"}
                  THEN "DELIVERED" ELSE @])
    /\ UNCHANGED <<bill, run, risk, open, opened, decided, paid>>

\* assess_risk of POST /risk/assess.
risk_assess(o) ==
    /\ Exists(o)
    /\ \E h \in IF Holds THEN {"ok", "hold"} ELSE {"ok"} :
          risk' = [risk EXCEPT ![o] = h]
    /\ UNCHANGED <<ord, bill, run, open, opened, decided, disk, paid>>

\* POST /verification/runs: needs evidence, asks for no status, assesses the
\* risk when nobody has, and a PASS makes the order VERIFIED.
verification_runs(o) ==
    \E h \in IF risk[o] # "none" THEN {risk[o]}
             ELSE IF Holds THEN {"ok", "hold"} ELSE {"ok"},
       good \in BOOLEAN :
        LET res == IF ~good THEN "FAIL" ELSE IF h = "hold" THEN "RISK_HOLD" ELSE "PASS" IN
        /\ Exists(o) /\ ord[o].evidence > 0
        /\ LateCalls \/ ord[o].status = "EVIDENCE_SUBMITTED"
        /\ risk' = [risk EXCEPT ![o] = h]
        /\ run' = [run EXCEPT ![o] = [res |-> res, ev |-> ord[o].evidence]]
        /\ IF res = "PASS"
           THEN Put(o, [ord[o] EXCEPT !.status = "VERIFIED", !.ful = "VERIFIED"])
           ELSE UNCHANGED <<ord, disk>>
        /\ UNCHANGED <<bill, open, opened, decided, paid>>


\* The refusals of POST /settlement/finalize.
finalize_allowed(o) ==
    /\ run[o].res = "PASS"
    /\ risk[o] # "hold"
    /\ open[o] = 0
    /\ ord[o].binding
    /\ ord[o].status = "VERIFIED"

settlement_finalize(o) ==
    /\ finalize_allowed(o)
    /\ Put(o, [ord[o] EXCEPT !.status = "SETTLED", !.ful = "SETTLED"])
    /\ update_bill(o, "settled")
    /\ paid' = [paid EXCEPT ![o] = @ \union {"seller"}]
    /\ UNCHANGED <<run, risk, open, opened, decided>>

-----------------------------------------------------------------------------
\* POST /disputes.
open_dispute(o) ==
    /\ Exists(o) /\ ord[o].status # "SETTLED"
    /\ LateCalls \/ ord[o].status \in {"LOCKED", "EVIDENCE_SUBMITTED", "VERIFIED"}
    /\ opened[o] < MaxDisputes
    /\ open' = [open EXCEPT ![o] = @ + 1]
    /\ opened' = [opened EXCEPT ![o] = @ + 1]
    /\ IF ord[o].ful \in {"SETTLED", "REFUNDED"} THEN UNCHANGED <<ord, disk>>
       ELSE Put(o, [ord[o] EXCEPT !.ful = "DISPUTED"])
    /\ update_bill(o, "disputed")
    /\ UNCHANGED <<decided, run, risk, paid>>

\* mark_refunded: whoever asks, unless the order is settled.
mark_refunded(r) == [r EXCEPT !.status = "REFUNDED", !.ful = "REFUNDED"]

\* restore_fulfillment: guessed from the main status.
restore_fulfillment(r) ==
    IF r.ful # "DISPUTED" THEN r
    ELSE [r EXCEPT !.ful = IF r.status = "EVIDENCE_SUBMITTED" THEN "DELIVERED"
                           ELSE IF r.status \in {"VERIFIED", "SETTLED"} THEN r.status
                           ELSE "ACCEPTED"]

\* POST /disputes/resolve with a refund, and with any other outcome.
resolve_refund(o) ==
    /\ open[o] > 0
    /\ ord[o].status # "SETTLED"
    /\ open' = [open EXCEPT ![o] = @ - 1]
    /\ Put(o, mark_refunded(ord[o]))
    /\ update_bill(o, "refunded")
    /\ decided' = [decided EXCEPT ![o] = @ + 1]
    /\ paid' = [paid EXCEPT ![o] = @ \union {"buyer"}]
    /\ UNCHANGED <<run, risk, opened>>

resolve_release(o) ==
    /\ open[o] > 0
    /\ open' = [open EXCEPT ![o] = @ - 1]
    /\ Put(o, restore_fulfillment(ord[o]))
    /\ update_bill(o, "locked")
    /\ decided' = [decided EXCEPT ![o] = @ + 1]
    /\ UNCHANGED <<run, risk, opened, paid>>

\* The orders sweep_timed_out_escrows refunds.
sweepable(r) ==
    /\ r.status \in {"LOCKED", "EVIDENCE_SUBMITTED"}
    /\ r.ful # "DISPUTED"
    /\ r.stale

\* Nothing touches a sweepable order for ESCROW_TIMEOUT_SWEEP_HOURS.
Age(o) ==
    /\ ord[o].status \in {"LOCKED", "EVIDENCE_SUBMITTED"} /\ ~ord[o].stale
    /\ ord' = [ord EXCEPT ![o].stale = TRUE]
    /\ disk' = [disk EXCEPT ![o].stale = TRUE]
    /\ UNCHANGED <<bill, run, risk, open, opened, decided, paid>>

\* The sweep of one order in the process that serves the API.
sweep_timed_out_escrows(o) ==
    /\ sweepable(ord[o])
    /\ Put(o, mark_refunded(ord[o]))
    /\ update_bill(o, "refunded")
    /\ paid' = [paid EXCEPT ![o] = @ \union {"buyer"}]
    /\ UNCHANGED <<run, risk, open, opened, decided>>

\* The API process restarts: orders come back from the file, the rest is gone.
ApiRestarts ==
    /\ ord # disk \/ \E o \in Orders : bill[o] # "none"
    /\ ord' = disk
    /\ bill' = [o \in Orders |-> "none"]
    /\ run' = [o \in Orders |-> NoRun]
    /\ risk' = [o \in Orders |-> "none"]
    /\ open' = [o \in Orders |-> 0]
    /\ UNCHANGED <<opened, decided, disk, paid>>

Act(o) ==
    \/ create_order(o) \/ create_draft(o) \/ handle_confirm(o)
    \/ sign_order(o) \/ accept_order(o) \/ start_processing(o)
    \/ deliver_order(o) \/ apply_policy(o) \/ settlement_lock(o)
    \/ submit_evidence(o) \/ risk_assess(o) \/ verification_runs(o)
    \/ settlement_finalize(o) \/ open_dispute(o) \/ resolve_refund(o)
    \/ resolve_release(o)

Next == \E o \in Orders : Act(o) \/ Age(o) \/ sweep_timed_out_escrows(o)

\* The clock runs, and the sweep is called again and again.
Fairness == \A o \in Orders : WF_vars(Age(o)) /\ WF_vars(sweep_timed_out_escrows(o))

Spec == Init /\ [][Next]_vars /\ Fairness

\* The API process may restart at any time.
NextRestart == Next \/ ApiRestarts

-----------------------------------------------------------------------------
\* The escrow of an order is released to one side only.
PaidOnce == \A o \in Orders : Cardinality(paid[o]) <= 1

\* What was settled had passed on the evidence the order holds, not on an
\* earlier bundle.
SettledEvidencePassed ==
    \A o \in Orders :
        ord[o].status \in {"VERIFIED", "SETTLED"} =>
            run[o].res = "PASS" /\ run[o].ev = ord[o].evidence

\* The bill of a finished order says how it finished.
BillFollowsOrder ==
    \A o \in Orders :
        /\ ord[o].status = "SETTLED" => bill[o] = "settled"
        /\ ord[o].status = "REFUNDED" => bill[o] \in {"refunded", "rejected"}

\* Locked money does not stay with an order nobody pushes on: it is verified,
\* refunded or under dispute sooner or later.
EscrowDrains ==
    \A o \in Orders :
        ord[o].status \in {"LOCKED", "EVIDENCE_SUBMITTED"} ~>
            \/ ord[o].status \notin {"LOCKED", "EVIDENCE_SUBMITTED"}
            \/ ord[o].ful = "DISPUTED"

\* Money goes to the seller only when every dispute of the order is decided.
NoSettleUnderDispute ==
    \A o \in Orders :
      "seller" \in paid'[o] \ paid[o] => decided[o] = opened[o]
=============================================================================
