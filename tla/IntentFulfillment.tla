------------------------- MODULE IntentFulfillment -------------------------
(***************************************************************************)
(* Owner confirmations (services/human_confirmation_policy.py), the ledger *)
(* of sellers who did not confirm (services/accept_fulfillment.py) and the *)
(* fulfilment of an intent that asks both (services/intent_fulfillment.py),*)
(* for one buyer and one seller.                                           *)
(*                                                                         *)
(* A confirmation session is found again by its scene, role and step and   *)
(* by an interaction_ref that names the two parties only, so all sessions  *)
(* here have the same one. Between reading a session and consuming it no   *)
(* handler waits, so a handler is one action. Discovery, negotiation and   *)
(* the rows of a deal are left out; a deal stands for contract, voucher    *)
(* and settlement, which one transaction makes. The demo switch that skips *)
(* the owners altogether is left out.                                      *)
(***************************************************************************)
EXTENDS Integers, Sequences, FiniteSets, SequencesExt

CONSTANTS
    Intents,     \* what the buyer asks for: scene and amount
    Auto,        \* parties ("buyer", "seller") whose saved policy covers every amount
    ByHand,      \* clients make sessions through the route too
    Demo,        \* APP_ENV is development, local or test
    MaxSession,  \* bound: sessions
    MaxDeal,     \* bound: deals
    MaxHits,     \* bound: reputation hits
    Threshold    \* non-confirmations from which a seller's owner is always asked

IntentsAssumption ==
    /\ \A i \in Intents :
           i.scene \in {"food_delivery", "b2b_procurement", "api_tool_call", "healthcare_medical"}
    /\ Threshold \in Nat \ {0}

VARIABLES
    sessions,    \* _SESSIONS, in the order they were made
    events,      \* _LEDGER["events"]: what the ledger knows of seller sessions
    count,       \* non_confirm_count of the seller
    hits,        \* deductions from the seller's reputation row
    deals,       \* deals made
    answer       \* the last answer of fulfill_intent and the intent it was about

vars == <<sessions, events, count, hits, deals, answer>>

Step == {"select_offer", "accept_order"}
Role == {"buyer", "seller"}
Status == {"PENDING", "CONFIRMED", "REJECTED", "USED", "EXPIRED", "CANCELLED"}

-----------------------------------------------------------------------------
\* The policy catalogue

high_risk(sc) == sc = "healthcare_medical"

gate_mode(sc, role, step) ==
    CASE role = "seller" /\ step = "select_offer" -> "AUTO"
      [] role = "seller" /\ sc \in {"food_delivery", "api_tool_call"} -> "POLICY_AUTO"
      [] role = "buyer" /\ sc = "api_tool_call" -> "POLICY_AUTO"
      [] OTHER -> "OWNER_CONFIRM"

resolve_gate(sc, role, step, auto) ==
    \/ gate_mode(sc, role, step) = "OWNER_CONFIRM"
    \/ gate_mode(sc, role, step) = "POLICY_AUTO" /\ ~auto

buyer_fulfill_confirm_steps(sc) ==
    IF sc \in {"b2b_procurement", "healthcare_medical"}
    THEN <<"select_offer", "accept_order">> ELSE <<"accept_order">>

scene_requires_important_fields(sc) ==
    sc \in {"food_delivery", "b2b_procurement", "api_tool_call", "healthcare_medical"}

policy_auto(party, sc) == party \in Auto /\ ~high_risk(sc)

-----------------------------------------------------------------------------
\* Sessions

\* A session past its deadline is marked when it is next looked at.
expire_if_needed(s) ==
    IF s.late /\ s.status \in {"PENDING", "CONFIRMED"} THEN [s EXCEPT !.status = "EXPIRED"] ELSE s

look_at(S, k) == [S EXCEPT ![k] = expire_if_needed(@)]
expire_all(S) == [k \in DOMAIN S |-> expire_if_needed(S[k])]

new_session(i, role, step) ==
    [intent |-> i, scene |-> i.scene, role |-> role, step |-> step, max |-> i.amount,
     status |-> "PENDING", late |-> FALSE, said |-> "nothing"]

covers(s, sc, role, step) == s.scene = sc /\ s.role = role /\ s.step = step /\ s.status = "USED"

step_already_satisfied(S, sc, role, step, auto) ==
    \/ ~resolve_gate(sc, role, step, auto)
    \/ \E k \in DOMAIN S : covers(S[k], sc, role, step)

assert_step_allowed(S, k, i, role, step) ==
    /\ k \in DOMAIN S
    /\ ~S[k].late /\ S[k].status = "CONFIRMED"
    /\ S[k].scene = i.scene /\ S[k].role = role /\ S[k].step = step
    /\ i.amount <= S[k].max

consume(S, k) == [S EXCEPT ![k].status = "USED"]

-----------------------------------------------------------------------------
\* The ledger. A ledger state is the triple of sessions, events and count.

ledger == [sess |-> sessions, ev |-> events, n |-> count]

record_seller_non_confirm(L, k, reason) ==
    IF [session |-> k, what |-> reason] \in L.ev THEN L
    ELSE [L EXCEPT !.ev = @ \cup {[session |-> k, what |-> reason]}, !.n = @ + 1]

record_seller_confirm(L, k) == [L EXCEPT !.ev = @ \cup {[session |-> k, what |-> "confirmed"]}]

seller_requires_forced_confirm(sc, n) == high_risk(sc) \/ n >= Threshold

seller_accept(s) == s.role = "seller" /\ s.step = "accept_order"

mark_session_expired_cancelled(S, k) == [S EXCEPT ![k].status = "CANCELLED"]

\* Whether process_expired_seller_session does anything for session k.
timed_out(S, k) == seller_accept(S[k]) /\ expire_if_needed(S[k]).status \in {"EXPIRED", "CANCELLED"}

process_expired_seller_session(L, k) ==
    LET R == record_seller_non_confirm(L, k, "timeout")
    IN  [R EXCEPT !.sess = mark_session_expired_cancelled(look_at(@, k), k)]

\* Only sessions that look pending, or are marked already, are listed.
list_pending_seller_accept_sessions(S) ==
    [k \in DOMAIN S |-> IF seller_accept(S[k]) /\ S[k].status = "PENDING"
                        THEN expire_if_needed(S[k]) ELSE S[k]]

\* Whether a fulfilment sees a seller's timeout, and the ledger after looking.
check_interaction_seller_timeout(L, k) ==
    IF k \in DOMAIN L.sess /\ timed_out(L.sess, k)
    THEN [hit |-> TRUE, led |-> process_expired_seller_session(L, k)]
    ELSE IF \E e \in L.ev : e.what = "timeout"
    THEN [hit |-> TRUE, led |-> IF k \in DOMAIN L.sess THEN [L EXCEPT !.sess = look_at(@, k)] ELSE L]
    ELSE LET S == list_pending_seller_accept_sessions(
                      IF k \in DOMAIN L.sess THEN look_at(L.sess, k) ELSE L.sess)
             M == [L EXCEPT !.sess = S]
             gone == {j \in DOMAIN S : seller_accept(S[j]) /\ S[j].status = "EXPIRED"}
         IN  IF gone = {} THEN [hit |-> FALSE, led |-> M]
             ELSE [hit |-> TRUE,
                   led |-> process_expired_seller_session(
                               M, CHOOSE j \in gone : \A m \in gone : j <= m)]

write(L) == sessions' = L.sess /\ events' = L.ev /\ count' = L.n

-----------------------------------------------------------------------------
\* Routes of the confirmations

create_owner_confirmation_session(i, role, step) ==
    /\ ByHand
    /\ Len(sessions) < MaxSession
    /\ resolve_gate(i.scene, role, step, FALSE)
    /\ sessions' = Append(sessions, new_session(i, role, step))
    /\ UNCHANGED <<events, count, hits, deals, answer>>

decide_confirmation_session(S, k, yes) ==
    [S EXCEPT ![k].status = IF yes THEN "CONFIRMED" ELSE "REJECTED",
              ![k].said = IF yes THEN "yes" ELSE "no"]

\* A timeout is noticed here, in the decision and by the sweep, each of which
\* also lowers the reputation.
notice_timeout(k) ==
    /\ sessions[k].status # "CANCELLED" /\ timed_out(sessions, k)
    /\ hits < MaxHits
    /\ write(process_expired_seller_session(ledger, k))
    /\ hits' = hits + 1

get_owner_confirmation_session(k) ==
    /\ \/ notice_timeout(k)
       \/ /\ ~seller_accept(sessions[k])
          /\ sessions' = look_at(sessions, k)
          /\ UNCHANGED <<events, count, hits>>
    /\ UNCHANGED <<deals, answer>>

decide_owner_confirmation_session(k, yes) ==
    /\ \/ notice_timeout(k)
       \/ /\ expire_if_needed(sessions[k]).status = "PENDING"
          /\ LET L == [ledger EXCEPT !.sess = decide_confirmation_session(@, k, yes)]
             IN  IF ~yes /\ seller_accept(sessions[k])
                 THEN /\ hits < MaxHits
                      /\ write(record_seller_non_confirm(L, k, "reject"))
                      /\ hits' = hits + 1
                 ELSE write(L) /\ UNCHANGED hits
    /\ UNCHANGED <<deals, answer>>

overdue(S) == {k \in DOMAIN S : seller_accept(S[k]) /\ S[k].status = "EXPIRED"}

\* The sweep lists at most 200 sessions, more than there are here.
expire_pending_seller_accepts ==
    LET S == list_pending_seller_accept_sessions(sessions)
        gone == overdue(S)
        fresh == {k \in gone : [session |-> k, what |-> "timeout"] \notin events}
    IN  /\ gone # {}
        /\ hits + Cardinality(gone) <= MaxHits
        /\ sessions' = [k \in DOMAIN S |-> IF k \in gone THEN [S[k] EXCEPT !.status = "CANCELLED"]
                                           ELSE S[k]]
        /\ events' = events \cup {[session |-> k, what |-> "timeout"] : k \in gone}
        /\ count' = count + Cardinality(fresh)
        /\ hits' = hits + Cardinality(gone)
        /\ UNCHANGED <<deals, answer>>

assert_confirmation_gate(k) ==
    /\ assert_step_allowed(sessions, k, sessions[k].intent, sessions[k].role, sessions[k].step)
    /\ sessions' = consume(sessions, k)
    /\ UNCHANGED <<events, count, hits, deals, answer>>

-----------------------------------------------------------------------------
\* Fulfilling an intent: stages

\* The session given for a buyer step is good for it.
applies(S, k, i, step) == assert_step_allowed(S, k, i, "buyer", step)

missing_buyer_step(S, k, i) ==
    LET steps == buyer_fulfill_confirm_steps(i.scene)
        ok(step) == \/ step_already_satisfied(S, i.scene, "buyer", step, policy_auto("buyer", i.scene))
                    \/ applies(S, k, i, step)
    IN  IF \A n \in DOMAIN steps : ok(steps[n]) THEN "none"
        ELSE IF ok(steps[1]) THEN steps[2] ELSE steps[1]

\* Of the buyer's steps only the choice of an offer is consumed before the fields.
consumed_before_fields(S, k, i) ==
    IF /\ ~step_already_satisfied(S, i.scene, "buyer", "select_offer", policy_auto("buyer", i.scene))
       /\ Len(buyer_fulfill_confirm_steps(i.scene)) = 2 /\ applies(S, k, i, "select_offer")
    THEN consume(S, k) ELSE S

consumed_after_fields(S, k, i) ==
    IF /\ ~step_already_satisfied(S, i.scene, "buyer", "accept_order", policy_auto("buyer", i.scene))
       /\ applies(S, k, i, "accept_order")
    THEN consume(S, k) ELSE S

must_seller_confirm(sc, n) ==
    \/ gate_mode(sc, "seller", "accept_order") = "OWNER_CONFIRM"
    \/ seller_requires_forced_confirm(sc, n)

seller_auto(sc, n) == policy_auto("seller", sc) /\ ~seller_requires_forced_confirm(sc, n)

said(i, what) == answer' = [intent |-> i, what |-> what]

\* Completing at once is a demo shortcut; elsewhere it is refused once the deal is made.
final_status(auto_complete) == IF auto_complete /\ Demo THEN "SETTLED" ELSE "IN_PROGRESS"

deal(i, auto_complete, n) ==
    [intent |-> i, status |-> final_status(auto_complete), seller |-> must_seller_confirm(i.scene, n)]

make_deal(i, funded, auto_complete, n) ==
    IF ~funded THEN /\ said(i, "error") /\ UNCHANGED deals
    ELSE /\ Len(deals) < MaxDeal
         /\ deals' = Append(deals, deal(i, auto_complete, n))
         /\ said(i, IF auto_complete /\ ~Demo THEN "auto_complete_forbidden" ELSE "made")

fields_missing(i, matched) ==
    (scene_requires_important_fields(i.scene) \/ high_risk(i.scene)) /\ ~matched

\* The seller need not be asked, or has said yes before.
seller_settled(S, i) ==
    \/ ~must_seller_confirm(i.scene, count)
    \/ step_already_satisfied(S, i.scene, "seller", "accept_order", seller_auto(i.scene, count))

\* The whole call: cs and ss are the buyer's and the seller's session given (0: none),
\* matched whether a matched capture was given or may be made in the demo.
fulfill_intent(i, cs, ss, matched, funded, auto_complete) ==
    LET S1 == consumed_before_fields(sessions, cs, i)
        step == missing_buyer_step(sessions, cs, i)
        S2 == consumed_after_fields(S1, cs, i)
        T == check_interaction_seller_timeout([ledger EXCEPT !.sess = S2], ss)
        L == T.led
    IN  IF step # "none"
        THEN /\ Len(sessions) < MaxSession
             /\ sessions' = Append(expire_all(S1), new_session(i, "buyer", step))
             /\ said(i, "awaiting_owner_confirmation")
             /\ UNCHANGED <<events, count, hits, deals>>
        ELSE IF fields_missing(i, matched)
        THEN /\ sessions' = S1
             /\ said(i, "awaiting_important_fields_match")
             /\ UNCHANGED <<events, count, hits, deals>>
        ELSE IF T.hit
        THEN /\ hits < MaxHits
             /\ write(L)
             /\ hits' = hits + 1
             /\ said(i, "cancelled_seller_timeout")
             /\ UNCHANGED deals
        ELSE IF seller_settled(L.sess, i)
        THEN /\ write(L)
             /\ make_deal(i, funded, auto_complete, count)
             /\ UNCHANGED hits
        ELSE IF assert_step_allowed(L.sess, ss, i, "seller", "accept_order")
        THEN /\ write(record_seller_confirm([L EXCEPT !.sess = consume(@, ss)], ss))
             /\ make_deal(i, funded, auto_complete, count)
             /\ UNCHANGED hits
        ELSE /\ Len(sessions) < MaxSession
             /\ write([L EXCEPT !.sess = Append(@, new_session(i, "seller", "accept_order"))])
             /\ said(i, "awaiting_seller_confirmation")
             /\ UNCHANGED <<hits, deals>>

\* Time passes a session's deadline.
deadline_passes(k) ==
    /\ ~sessions[k].late
    /\ sessions' = [sessions EXCEPT ![k].late = TRUE]
    /\ UNCHANGED <<events, count, hits, deals, answer>>

-----------------------------------------------------------------------------
Init ==
    /\ sessions = <<>>
    /\ events = {}
    /\ count = 0
    /\ hits = 0
    /\ deals = <<>>
    /\ answer = [what |-> "none"]

\* A session of the other role does what none does.
given(role) == {k \in DOMAIN sessions : sessions[k].role = role} \cup {0}

Next ==
    \/ \E i \in Intents, role \in Role, step \in Step : create_owner_confirmation_session(i, role, step)
    \/ \E k \in DOMAIN sessions :
           \/ get_owner_confirmation_session(k)
           \/ \E yes \in BOOLEAN : decide_owner_confirmation_session(k, yes)
           \/ assert_confirmation_gate(k)
           \/ deadline_passes(k)
    \/ expire_pending_seller_accepts
    \/ \E i \in Intents, cs \in given("buyer"), ss \in given("seller"),
          matched, funded, auto_complete \in BOOLEAN :
           fulfill_intent(i, cs, ss, matched, funded, auto_complete)

Spec == Init /\ [][Next]_vars

-----------------------------------------------------------------------------
\* The shape of sessions, events and deals.
TypeOK ==
    /\ \A k \in DOMAIN sessions :
           /\ sessions[k].role \in Role /\ sessions[k].step \in Step /\ sessions[k].status \in Status
           /\ sessions[k].late \in BOOLEAN /\ sessions[k].said \in {"nothing", "yes", "no"}
    /\ \A e \in events : e.session \in DOMAIN sessions /\ e.what \in {"timeout", "reject", "confirmed"}
    /\ count \in Nat /\ hits \in Nat
    /\ \A n \in DOMAIN deals : deals[n].status \in {"SETTLED", "IN_PROGRESS"}

\* record_seller_non_confirm: whoever notices that a seller did not confirm, and however
\* often, one session counts once, and a session that was accepted is never also counted
\* as refused or timed out.
CountedOnce ==
    /\ count = Cardinality({e \in events : e.what \in {"timeout", "reject"}})
    /\ \A e, f \in events : e.session = f.session => e = f

\* fulfill_intent: behind every deal there is, for each step of the buyer and for the
\* seller where the scene or the seller's record asks for it, a session whose owner said
\* yes and which was consumed.
DealsHadYes ==
    \A n \in DOMAIN deals :
        LET sc == deals[n].intent.scene
            yes(role, step) == \E k \in DOMAIN sessions : covers(sessions[k], sc, role, step) /\ sessions[k].said = "yes"
        IN  /\ \A m \in DOMAIN buyer_fulfill_confirm_steps(sc) :
                   \/ ~resolve_gate(sc, "buyer", buyer_fulfill_confirm_steps(sc)[m], policy_auto("buyer", sc))
                   \/ yes("buyer", buyer_fulfill_confirm_steps(sc)[m])
            /\ deals[n].seller => yes("seller", "accept_order")

\* seller_requires_forced_confirm: a deal made by a seller at or over the threshold had
\* the Yes of the seller's owner, also in a scene that normally accepts by itself.
ForcedSellersAreAsked ==
     Len(deals') > Len(deals) /\ count >= Threshold =>
         \E k \in DOMAIN sessions' :
             /\ sessions'[k].scene = deals'[Len(deals')].intent.scene
             /\ seller_accept(sessions'[k]) /\ sessions'[k].said = "yes"

\* fulfill_intent consumes the buyer's last Yes only after the important fields matched:
\* an attempt that stops there leaves it for the next one.
YesSurvivesFieldGate ==
     answer' # answer /\ answer'.what = "awaiting_important_fields_match" =>
         \A k \in DOMAIN sessions : sessions[k].step = "accept_order" => sessions'[k] = sessions[k]
=============================================================================
