------------------------ MODULE DeliveryVerification ------------------------
(***************************************************************************)
(* Delivery verification (services/delivery_verification.py and its        *)
(* routes): what a seller, a carrier and a buyer report about a task is    *)
(* collected in a session, and a session that has what its scene requires  *)
(* opens the gate of the settlement routes.                                *)
(*                                                                         *)
(* Every handler runs to its end without waiting, so it is one action. Of  *)
(* the events only the kinds are kept, of the proofs only the types, and   *)
(* of a deadline whether it has passed. Covering the important fields of a *)
(* scene takes one proof, "if_fields".                                     *)
(***************************************************************************)
EXTENDS Integers, Sequences, SequencesExt

CONSTANTS
    Task,
    Scene,      \* the scenes in use
    Limit,      \* sessions one sweep may confirm
    MaxSession, \* bound: sessions
    Proof       \* types of proof that are submitted

SceneAssumption ==
    Scene \subseteq {"logistics_delivery", "b2b_procurement", "ride_hailing", "flight_booking",
                     "api_tool_call", "software_development", "healthcare_medical"}

VARIABLES
    sessions,   \* _SESSIONS, in the order they were made
    gate        \* the last answer of the settlement gate, until something changes

vars == <<sessions, gate>>

\* One scene of each kind; "zero" and "none" are silent windows of 0 and null.
scene_policy(sc) ==
    CASE sc = "logistics_delivery" ->
             [mode |-> "physical_triple", silent |-> "window", high_risk |-> FALSE,
              events |-> {"seller_shipped", "logistics_intake_ok", "logistics_delivered"},
              proofs |-> {{"delivery_photo_tagged", "delivery_photo_or_code"}}, ack |-> TRUE]
      [] sc = "b2b_procurement" ->
             [mode |-> "physical_triple", silent |-> "window", high_risk |-> FALSE,
              events |-> {"seller_shipped", "logistics_intake_ok", "logistics_delivered"},
              proofs |-> {{"goods_receipt"}}, ack |-> FALSE]
      [] sc = "ride_hailing" ->
             [mode |-> "ride_track", silent |-> "window", high_risk |-> FALSE,
              events |-> {"seller_trip_completed"},
              proofs |-> {{"route_or_odometer"}}, ack |-> FALSE]
      [] sc = "flight_booking" ->
             [mode |-> "ticket_stub", silent |-> "none", high_risk |-> FALSE,
              events |-> {"seller_issued_confirmation"}, proofs |-> {{"pnr"}}, ack |-> FALSE]
      [] sc = "api_tool_call" ->
             [mode |-> "digital_light", silent |-> "zero", high_risk |-> FALSE,
              events |-> {"execution_receipt_success"}, proofs |-> {}, ack |-> FALSE]
      [] sc = "software_development" ->
             [mode |-> "digital_light", silent |-> "window", high_risk |-> FALSE,
              events |-> {"execution_receipt_success"},
              proofs |-> {{"deliverable_hash"}}, ack |-> FALSE]
      [] sc = "healthcare_medical" ->
             [mode |-> "digital_light", silent |-> "none", high_risk |-> TRUE,
              events |-> {"execution_receipt_success", "buyer_confirmed"},
              proofs |-> {}, ack |-> FALSE]

Status == {"CREATED", "AWAITING_SELLER_SHIP", "AWAITING_LOGISTICS_INTAKE", "IN_TRANSIT",
           "AWAITING_BUYER_RECEIPT", "BUYER_CONFIRMED", "BUYER_SILENT_DEFAULT",
           "VERIFIED", "REJECTED", "WRONG_ITEM"}

mode(s) == scene_policy(s.scene).mode
digital(s) == mode(s) \in {"digital_light", "ride_track"}

DeliverProof == {"delivery_photo_tagged", "delivery_photo_or_code"}

-----------------------------------------------------------------------------
\* Deciding about a session

\* proof_fields_covered is never missing here; only the digital branch below asks.
required_satisfied(s) ==
    LET pol == scene_policy(s.scene)
    IN  /\ pol.events \subseteq s.events
        /\ \A alternatives \in pol.proofs : alternatives \cap s.proofs # {}
        /\ pol.ack => \/ {"buyer_confirmed", "buyer_silent_default"} \cap s.events # {}
                      \/ "recipient_ack" \in s.proofs

assert_seller_logistics_chain_ok(s) ==
    CASE mode(s) = "physical_triple" ->
             /\ {"seller_shipped", "logistics_intake_ok", "logistics_delivered"} \subseteq s.events
             /\ DeliverProof \cap s.proofs # {}
      [] mode(s) = "ride_track" -> "seller_trip_completed" \in s.events
      [] mode(s) = "ticket_stub" -> "seller_issued_confirmation" \in s.events
      [] OTHER -> TRUE

cover_proof_fields_from_if(s) ==
    IF "if_fields" \in s.proofs
    THEN [s EXCEPT !.fields_ok = TRUE, !.events = @ \cup {"proof_fields_covered"}]
    ELSE [s EXCEPT !.fields_ok = FALSE]

try_verify(s) ==
    LET t == IF digital(s) /\ s.receipt_ok THEN cover_proof_fields_from_if(s) ELSE s
        consent == {"buyer_confirmed", "buyer_silent_default"} \cap t.events # {}
        auto == /\ digital(t) /\ ~scene_policy(t.scene).high_risk /\ t.receipt_ok
                /\ t.fields_ok \/ scene_policy(t.scene).silent = "zero"
    IN  IF s.status \in {"VERIFIED", "WRONG_ITEM"} THEN s
        ELSE IF \/ scene_policy(t.scene).high_risk /\ "buyer_confirmed" \notin t.events
                \/ ~required_satisfied(t)
                \/ ~consent /\ ~auto
        THEN t
        ELSE [t EXCEPT !.status = "VERIFIED",
                       !.events = IF consent THEN @ ELSE @ \cup {"auto_verified_digital"}]

silent_due(s) ==
    /\ s.status \notin {"VERIFIED", "BUYER_CONFIRMED", "BUYER_SILENT_DEFAULT", "WRONG_ITEM", "REJECTED"}
    /\ ~scene_policy(s.scene).high_risk
    /\ scene_policy(s.scene).silent = "window"
    /\ s.deadline = "passed"

apply_silent_buyer_default(s) ==
    IF silent_due(s) /\ assert_seller_logistics_chain_ok(s)
    THEN try_verify([s EXCEPT !.status = "BUYER_SILENT_DEFAULT",
                              !.events = @ \cup {"buyer_silent_default"}])
    ELSE s

\* A sweep looks at the oldest sessions, finished ones included.
swept(ss, limit) ==
    [i \in DOMAIN ss |-> IF i <= 2 * limit THEN apply_silent_buyer_default(ss[i]) ELSE ss[i]]

\* The first session that was made for a task.
session_for_task(t) == SelectInSeq(sessions, LAMBDA s : s.task = t)

-----------------------------------------------------------------------------
\* The handlers

update(i, s) == sessions' = [sessions EXCEPT ![i] = s] /\ gate' = "none"

create_verification_session(t, sc) ==
    LET first == session_for_task(t)
    IN  /\ first # 0 => sessions[first].status \in {"VERIFIED", "REJECTED"}
        /\ Len(sessions) < MaxSession
        /\ sessions' = Append(sessions,
               [task |-> t, scene |-> sc, deadline |-> "none",
                status |-> IF scene_policy(sc).mode = "digital_light" THEN "CREATED"
                                                                     ELSE "AWAITING_SELLER_SHIP",
                events |-> {}, proofs |-> {}, receipt_ok |-> FALSE, fields_ok |-> FALSE])
        /\ gate' = "none"


may_ship(s) == mode(s) = "physical_triple" => s.status = "AWAITING_SELLER_SHIP"

seller_ship(i) ==
    LET s == sessions[i]
        ride == mode(s) = "ride_track"
    IN  /\ may_ship(s)
        /\ update(i, [s EXCEPT
               !.events = @ \cup {CASE mode(s) = "physical_triple" -> "seller_shipped"
                                    [] mode(s) = "ticket_stub" -> "seller_issued_confirmation"
                                    [] ride -> "seller_trip_completed"
                                    [] OTHER -> "seller_delivered_digital"},
               !.status = IF mode(s) = "physical_triple" THEN "AWAITING_LOGISTICS_INTAKE"
                                                        ELSE "AWAITING_BUYER_RECEIPT",
               !.deadline = IF ride THEN "running" ELSE @])

logistics_intake(i, item_matches) ==
    LET s == sessions[i]
    IN  /\ mode(s) = "physical_triple"
        /\ s.status = "AWAITING_LOGISTICS_INTAKE"
        /\ update(i, IF item_matches
                     THEN [s EXCEPT !.events = @ \cup {"logistics_intake_ok"}, !.status = "IN_TRANSIT"]
                     ELSE [s EXCEPT !.events = @ \cup {"logistics_wrong_item"}, !.status = "WRONG_ITEM"])

\* A tagged photo needs the tag of a challenge; whoever asks for one gets it.
submit_proof(i, p) == update(i, [sessions[i] EXCEPT !.proofs = @ \cup {p}])

logistics_deliver(i, p) ==
    LET s == sessions[i]
    IN  /\ mode(s) = "physical_triple"
        /\ s.status = "IN_TRANSIT"
        /\ "logistics_intake_ok" \in s.events
        /\ update(i, [s EXCEPT !.proofs = @ \cup {p}, !.events = @ \cup {"logistics_delivered"},
                               !.status = "AWAITING_BUYER_RECEIPT", !.deadline = "running"])

\* post_mark_receipt; a success that was reported once stays an event.
mark_execution_receipt(i, ok) ==
    LET s == sessions[i]
        marked == [s EXCEPT !.receipt_ok = ok,
                            !.events = IF ok THEN @ \cup {"execution_receipt_success"} ELSE @]
    IN  update(i, try_verify(marked))

post_verify(i) == update(i, try_verify(sessions[i]))

buyer_confirm(i, confirm) ==
    LET s == sessions[i]
    IN  /\ s.status \notin {"VERIFIED", "WRONG_ITEM"}
        /\ mode(s) = "physical_triple" => assert_seller_logistics_chain_ok(s)
        /\ update(i, IF confirm
               THEN try_verify([s EXCEPT !.events = @ \cup {"buyer_confirmed"}, !.status = "BUYER_CONFIRMED"])
               ELSE [s EXCEPT !.events = @ \cup {"buyer_rejected"}, !.status = "REJECTED"])

post_apply_silent(i) == update(i, apply_silent_buyer_default(sessions[i]))

expire_silent_buyers == sessions' = swept(sessions, Limit) /\ gate' = "none"

\* The gate of submit and buyer-accept: it sweeps, and then looks at the first
\* session of the task once more.
require_verified_for_settle(t) ==
    LET ss == swept(sessions, Limit)
        i == session_for_task(t)
        tried == try_verify(ss[i])
    IN  /\ i # 0
        /\ sessions' = [ss EXCEPT ![i] = tried]
        /\ gate' = IF tried.status = "VERIFIED" THEN "open" ELSE t

deadline_passes(i) ==
    /\ sessions[i].deadline = "running"
    /\ update(i, [sessions[i] EXCEPT !.deadline = "passed"])

Init == sessions = <<>> /\ gate = "none"

Next ==
    \/ \E t \in Task : \/ \E sc \in Scene : create_verification_session(t, sc)
                       \/ require_verified_for_settle(t)
    \/ \E i \in DOMAIN sessions :
           \/ seller_ship(i) \/ post_verify(i) \/ post_apply_silent(i) \/ deadline_passes(i)
           \/ \E b \in BOOLEAN : \/ logistics_intake(i, b)
                                 \/ mark_execution_receipt(i, b)
                                 \/ buyer_confirm(i, b)
           \/ \E p \in Proof : submit_proof(i, p) \/ logistics_deliver(i, p)
    \/ expire_silent_buyers

Spec == Init /\ [][Next]_vars

-----------------------------------------------------------------------------
TypeOK ==
    /\ \A i \in DOMAIN sessions :
           /\ sessions[i].task \in Task /\ sessions[i].scene \in Scene
           /\ sessions[i].status \in Status /\ sessions[i].deadline \in {"none", "running", "passed"}
           /\ sessions[i].proofs \subseteq Proof
    /\ gate \in {"none", "open"} \cup Task

\* However the reports came in, and however often: what is VERIFIED was delivered
\* with the proofs of its scene, and its buyer agreed, let the window pass after
\* the delivery, or had left the decision to a receipt.
VerifiedIsProved ==
    \A i \in DOMAIN sessions :
        LET s == sessions[i]
        IN  s.status = "VERIFIED" =>
                /\ s.scene = "logistics_delivery" =>
                       /\ {"seller_shipped", "logistics_intake_ok", "logistics_delivered"} \subseteq s.events
                       /\ DeliverProof \cap s.proofs # {}
                /\ s.scene = "b2b_procurement" => "goods_receipt" \in s.proofs
                /\ s.scene = "ride_hailing" => "route_or_odometer" \in s.proofs
                /\ s.scene = "flight_booking" => "pnr" \in s.proofs
                /\ \/ "buyer_confirmed" \in s.events
                   \/ "buyer_silent_default" \in s.events /\ s.deadline # "none"
                   \/ s.scene \in {"ride_hailing", "api_tool_call", "software_development"}
                      /\ "execution_receipt_success" \in s.events

\* A buyer's silence counts only when the whole chain was reported, photo included.
SilenceNeedsChain ==
    \A i \in DOMAIN sessions :
        LET s == sessions[i]
        IN  ("buyer_silent_default" \in s.events /\ mode(s) = "physical_triple") =>
                /\ {"seller_shipped", "logistics_intake_ok", "logistics_delivered"} \subseteq s.events
                /\ DeliverProof \cap s.proofs # {}
                /\ s.deadline # "none"

\* A parcel that was refused as the wrong item is never delivered.
WrongItemIsFinal ==
    \A i \in DOMAIN sessions :
        sessions[i].status = "WRONG_ITEM" => sessions'[i].status = "WRONG_ITEM"

\* The gate never refuses a task whose buyer's window has passed with the chain complete.
GateSweepsFirst ==
    gate \in Task =>
        LET s == sessions[session_for_task(gate)]
        IN  ~(silent_due(s) /\ assert_seller_logistics_chain_ok(s))
=============================================================================
