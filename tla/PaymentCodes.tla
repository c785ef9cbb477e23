---------------------------- MODULE PaymentCodes ----------------------------
(* Payment codes: a buyer's voucher with a time limit, which the seller       *)
(* accepts or rejects by hand, or which two saved automation policies decide  *)
(* in the request that creates it.  A request reads the rows into its         *)
(* session, decides on what it read, and its commit writes the columns it     *)
(* changed as absolute values; nothing locks a row.                           *)
EXTENDS Integers, FiniteSets, FiniteSetsExt, Sequences

CONSTANTS Ids,       \* voucher ids
          Types,     \* task types: with the precision and the counterparty,
                     \* the scope a policy admits or not
          Amounts,   \* bill credits asked for
          Bounds,    \* responsibility boundary ids
          Offers,    \* automation policies the operators save
          Requests,  \* requests in flight
          Credits,   \* credits the buyer starts with
          Ttl,       \* seconds a code lives, in ticks
          MaxTime,   \* ticks of the clock
          Nil        \* no voucher, no policy, no boundary, no request

BoundsAssumption ==
    Credits \in Nat /\ Ttl \in Nat \ {0} /\ MaxTime \in Nat /\ Amounts \subseteq Nat \ {0}

VARIABLES policy,   \* agent_automation_policies of the two identities
          voucher,  \* the vouchers table
          cap,      \* the buyer's capacity row
          events,   \* voucher_events, by voucher
          req,      \* what each request under way has read
          now

vars == <<policy, voucher, cap, events, req, now>>

Parties == {"buyer", "seller"}

\* types = {} admits every type.
Policies == [preauth : BOOLEAN, auto : BOOLEAN, ack : BOOLEAN, limit : Nat,
             types : SUBSET Types, bound : Bounds \cup {Nil}]

OffersAssumption == Offers \subseteq Policies

\* The payload of a code; its hash is modelled by the payload itself.
Codes == [amount : Amounts, type : Types, mode : {"manual", "preauth"},
          expires : Nat, bound : Bounds \cup {Nil}]

Vouchers ==
    [status : {"created", "accepted", "rejected"}, amount : Amounts, type : Types,
     mode : {"manual", "preauth"}, expires : Nat, told : Codes]

Bodies == [op : {"create"}, id : Ids, amount : Amounts, type : Types, mode : {"manual", "preauth"}]
            \cup [op : {"accept", "reject"}, id : Ids]

TypeOK ==
    /\ policy \in [Parties -> Policies \cup {Nil}]
    /\ voucher \in [Ids -> Vouchers \cup {Nil}]
    /\ cap.available \in 0..Credits /\ cap.reserved \in 0..Credits
    /\ \A i \in Ids : Len(events[i]) <= 3 * Cardinality(Requests)
    /\ now \in 0..MaxTime

Init ==
    /\ policy = [p \in Parties |-> Nil]
    /\ voucher = [i \in Ids |-> Nil]
    /\ cap = [available |-> Credits, reserved |-> 0]
    /\ events = [i \in Ids |-> <<>>]
    /\ req = [r \in Requests |-> Nil]
    /\ now = 0

-----------------------------------------------------------------------------
(* Policies.                                                                  *)

\* PUT /v1/identities/{id}/automation-policy: preauthorization needs the
\* responsibility acknowledged.
upsert_automation_policy(who, p) ==
    /\ p.preauth => p.ack
    /\ policy' = [policy EXCEPT ![who] = p]
    /\ UNCHANGED <<voucher, cap, events, req, now>>

admits(p, type, amount) ==
    /\ p.ack
    /\ p.types # {} => type \in p.types
    /\ amount <= p.limit

evaluate_buyer_preauth_for_create(p, b) == p # Nil /\ p.preauth /\ admits(p, b.type, b.amount)

evaluate_seller_preauth(sp, bp, b) ==
    /\ sp # Nil /\ sp.preauth /\ sp.auto
    /\ admits(sp, b.type, b.amount)
    /\ sp.bound # Nil /\ bp # Nil /\ bp.bound # Nil => bp.bound = sp.bound

-----------------------------------------------------------------------------
(* Codes.                                                                     *)

bound_of(p) == IF p = Nil THEN Nil ELSE p.bound

build_payment_code_payload(v, p) ==
    [amount |-> v.amount, type |-> v.type, mode |-> v.mode,
     expires |-> v.expires, bound |-> bound_of(p)]

-----------------------------------------------------------------------------
(* A request: begin reads, finish decides and commits.                        *)

begin(r, b) ==
    /\ req[r] = Nil
    /\ IF b.op = "create" THEN voucher[b.id] = Nil ELSE voucher[b.id] # Nil
    /\ req' = [req EXCEPT ![r] = [body |-> b, voucher |-> voucher[b.id], cap |-> cap,
                                  policy |-> IF b.op = "create" THEN policy ELSE Nil]]
    /\ UNCHANGED <<policy, voucher, cap, events, now>>

reserve(c, amount) == [available |-> c.available - amount, reserved |-> c.reserved + amount]

\* The row a manual code starts as; the other columns follow in the request.
fresh(seen, status) ==
    LET b == seen.body
        v == [amount |-> b.amount, type |-> b.type, mode |-> b.mode, expires |-> now + Ttl]
    IN  [status |-> status, amount |-> b.amount, type |-> b.type, mode |-> b.mode,
         expires |-> now + Ttl, told |-> build_payment_code_payload(v, seen.policy["buyer"])]

\* What preauthorization makes of a new code.
auto_result(seen) ==
    IF seen.body.mode = "manual" THEN "created"
    ELSE IF evaluate_seller_preauth(seen.policy["seller"], seen.policy["buyer"], seen.body)
         THEN "accepted" ELSE "rejected"

may_create(seen) ==
    /\ seen.body.mode = "preauth" =>
          evaluate_buyer_preauth_for_create(seen.policy["buyer"], seen.body)
    /\ seen.cap.available >= seen.body.amount


\* accept_voucher_row; an expired voucher is marked so and rolled back.
may_accept(seen) ==
    /\ seen.voucher.status = "created"
    /\ now < seen.voucher.expires
    /\ seen.cap.available >= seen.voucher.amount

outcome(status) == IF status = "created" THEN <<>> ELSE <<status>>

create_payment_code(r) ==
    LET seen == req[r]
        status == auto_result(seen)
    IN  /\ may_create(seen)
        /\ voucher[seen.body.id] = Nil
        /\ voucher' = [voucher EXCEPT ![seen.body.id] = fresh(seen, status)]
        /\ cap' = IF status = "accepted" THEN reserve(seen.cap, seen.body.amount) ELSE cap
        /\ events' = [events EXCEPT ![seen.body.id] = @ \o <<"created", "code">> \o outcome(status)]

accept_payment_code(r) ==
    LET seen == req[r]
        i == seen.body.id
    IN  /\ may_accept(seen)
        /\ voucher' = [voucher EXCEPT ![i].status = "accepted"]
        /\ cap' = reserve(seen.cap, seen.voucher.amount)
        /\ events' = [events EXCEPT ![i] = Append(@, "accepted")]

reject_payment_code(r) ==
    LET seen == req[r]
        i == seen.body.id
    IN  /\ seen.voucher.status = "created"
        /\ voucher' = [voucher EXCEPT ![i].status = "rejected"]
        /\ events' = [events EXCEPT ![i] = Append(@, "rejected")]
        /\ UNCHANGED cap

finish(r) ==
    /\ req[r] # Nil
    /\ \/ req[r].body.op = "create" /\ create_payment_code(r)
       \/ req[r].body.op = "accept" /\ accept_payment_code(r)
       \/ req[r].body.op = "reject" /\ reject_payment_code(r)
    /\ req' = [req EXCEPT ![r] = Nil]
    /\ UNCHANGED <<policy, now>>

\* Refused, or the commit failed: nothing is written.
refused(r) ==
    /\ req[r] # Nil
    /\ req' = [req EXCEPT ![r] = Nil]
    /\ UNCHANGED <<policy, voucher, cap, events, now>>

Tick == now < MaxTime /\ now' = now + 1 /\ UNCHANGED <<policy, voucher, cap, events, req>>

Next ==
    \/ \E who \in Parties, p \in Offers : upsert_automation_policy(who, p)
    \/ \E r \in Requests : (\E b \in Bodies : begin(r, b)) \/ finish(r) \/ refused(r)
    \/ Tick

Spec == Init /\ [][Next]_vars

-----------------------------------------------------------------------------
Accepted == {i \in Ids : voucher[i] # Nil /\ voucher[i].status = "accepted"}

(* The credits set aside are those of the accepted vouchers, by hand or by    *)
(* policy, and none come or go (accept_voucher_row).                          *)
AcceptedReserves ==
    /\ cap.reserved = MapThenSumSet(LAMBDA i : voucher[i].amount, Accepted)
    /\ cap.available + cap.reserved = Credits

(* The events a buyer reads tell one outcome, the one the voucher has         *)
(* (record_voucher_event in every path).                                      *)
EventsTellOutcome ==
    \A i \in Ids : voucher[i] # Nil =>
        LET told == SelectSeq(events[i], LAMBDA e : e \in {"accepted", "rejected"})
        IN  told = outcome(voucher[i].status)

(* A preauthorized code never waits for a person: the request that makes it   *)
(* leaves it accepted or rejected (create_payment_code).                      *)
PreauthIsDecided ==
    \A i \in Ids : voucher[i] # Nil /\ voucher[i].mode = "preauth" => voucher[i].status # "created"
=============================================================================
