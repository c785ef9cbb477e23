----------------------------- MODULE A2ABridge -----------------------------
(* The A2A bridge of one agent: tasks negotiated with other agents, kept as   *)
(* an append-only event log with a snapshot per task.  Every write carries an *)
(* EIP-712 signature with a nonce that is spent once.  The handlers hold the  *)
(* event loop from their first check to their answer, the call to Karma       *)
(* included, so one is under way at a time; the process may stop in the       *)
(* middle, after the nonce is spent or the voucher published and before the   *)
(* event is written.                                                          *)
(*                                                                            *)
(* Amounts are in quarters of a USDC micro unit, signed amounts in micros;    *)
(* Amounts holds no odd half, where Python rounds to even.                    *)
EXTENDS Integers, Sequences, SequencesExt, FiniteSets

CONSTANTS Tasks, Wallets, Requesters,
          Nonces,     \* nonces a wallet uses
          Amounts,    \* confirmed amounts, in quarter micros
          MaxSigned,  \* signatures made
          MaxEvents,  \* events logged
          Nil         \* nothing: no requester, no voucher, no task, no request

ASSUME BoundsAssumption ==
    MaxSigned \in Nat /\ MaxEvents \in Nat /\ Amounts \subseteq Nat /\ 0 \in Amounts

VARIABLES signed,    \* signatures the wallets have made
          expired,   \* those past their deadline
          used,      \* used_nonces: pairs of wallet and nonce
          log,       \* task_events, in the order of seq
          snapshot,  \* task_snapshots
          karma,     \* vouchers the Karma API has created for this bridge
          busy       \* the request under way, Nil when there is none

vars == <<signed, expired, used, log, snapshot, karma, busy>>

Ops == {"create", "confirm", "submit", "cancel", "handoff"}
Micros == {(a + 2) \div 4 : a \in Amounts}
Signatures == [agent : Wallets, op : Ops, task : Tasks, micro : Micros, nonce : Nonces]

\* A voucher id names who made it up and when: the bridge ("a2a", and "vcr" in
\* a handoff) at an event, or Karma.
VoucherIds == {Nil} \cup ({"a2a", "vcr", "karma"} \X Nat)

Events ==
    [op : Ops, task : Tasks, requester : Requesters \cup {Nil}, amount : Amounts,
     voucher : VoucherIds, buyer : {"unknown", Nil}, sig : Signatures]

States ==
    [status : {"negotiating", "accepted", "completed", "cancelled"},
     requester : Requesters \cup {Nil}, voucher : VoucherIds, signer : Wallets,
     handoff : VoucherIds, applied : Nat]

ASSUME NilAssumption == Nil \notin Events \cup States

TypeOK ==
    /\ signed \subseteq Signatures /\ expired \subseteq signed
    /\ used \subseteq Wallets \X Nonces
    /\ log \in Seq(Events)
    /\ snapshot \in [Tasks -> States \cup {Nil}]
    /\ \A v \in karma : v.task \in Tasks /\ v.buyer = "unknown"
    /\ busy \in Events \cup {Nil}

Init ==
    /\ signed = {} /\ expired = {} /\ used = {} /\ karma = {}
    /\ log = <<>> /\ busy = Nil
    /\ snapshot = [t \in Tasks |-> Nil]

-----------------------------------------------------------------------------
(* The task store.                                                            *)

Blank == [status |-> "negotiating", requester |-> Nil, voucher |-> Nil,
          signer |-> Nil, handoff |-> Nil, applied |-> 0]

\* Mutant: a handoff also sets the voucher of the task.
apply_event_handoff(st, e) ==
    [st EXCEPT !.applied = @ + 1, !.signer = e.sig.agent,
               !.status = CASE e.op = "confirm" -> "accepted" [] e.op = "submit" -> "completed"
                            [] e.op = "cancel" -> "cancelled" [] OTHER -> @,
               !.voucher = IF e.voucher # Nil THEN e.voucher ELSE @]

apply_event(st, e) ==
    LET s == [st EXCEPT !.applied = @ + 1, !.signer = e.sig.agent]
    IN  CASE e.op = "create"  -> [s EXCEPT !.status = "negotiating", !.requester = e.requester,
                                           !.voucher = Nil]
          [] e.op = "confirm" -> [s EXCEPT !.status = "accepted",
                                           !.voucher = IF e.voucher = Nil THEN @ ELSE e.voucher]
          [] e.op = "submit"  -> [s EXCEPT !.status = "completed"]
          [] e.op = "cancel"  -> [s EXCEPT !.status = "cancelled"]
          [] e.op = "handoff" -> [s EXCEPT !.handoff = e.voucher]

\* The snapshot of a task from its events in the order of seq.
rebuild(events, t) ==
    FoldLeft(LAMBDA st, e : IF e.task = t THEN apply_event(st, e) ELSE st, Blank, events)

\* One transaction: the event, and the snapshot rebuilt from the log.
append_event(e) ==
    /\ log' = Append(log, e)
    /\ snapshot' = [snapshot EXCEPT ![e.task] = rebuild(log', e.task)]

\* A transaction of its own, before the event's.
consume_nonce(agent, nonce) ==
    /\ <<agent, nonce>> \notin used
    /\ used' = used \cup {<<agent, nonce>>}

-----------------------------------------------------------------------------
(* Signatures.                                                                *)

sign_a2a_task_op(s) ==
    /\ Cardinality(signed) < MaxSigned
    /\ signed' = signed \cup {s}
    /\ UNCHANGED <<expired, used, log, snapshot, karma, busy>>

Deadline(s) ==
    /\ expired' = expired \cup {s}
    /\ UNCHANGED <<signed, used, log, snapshot, karma, busy>>

\* Mutant: the operation is left out of the typed data.
verify_a2a_task_op_any(s) ==
    s \notin expired /\ \E o \in Ops : [s EXCEPT !.op = o] \in signed

verify_a2a_task_op(s) == s \in signed /\ s \notin expired

\* Mutant: a nonce that is already there is not an error.
verify_write_auth_again(s) ==
    verify_a2a_task_op(s) /\ used' = used \cup {<<s.agent, s.nonce>>}

verify_write_auth(s) == verify_a2a_task_op(s) /\ consume_nonce(s.agent, s.nonce)

-----------------------------------------------------------------------------
(* The handlers, up to the nonce; Publish and Write do the rest.              *)

Handling(op, t, s) ==
    [op |-> op, task |-> t, requester |-> Nil, amount |-> 0,
     voucher |-> Nil, buyer |-> Nil, sig |-> s]

may_create(t) == snapshot[t] = Nil

receive_task(t, s, requester) ==
    /\ may_create(t)
    /\ verify_write_auth(s)
    /\ busy' = [Handling("create", t, s) EXCEPT !.requester = requester]

\* The amount of the signature is compared when the confirmed one, rounded to
\* micros, is not zero.
amount_matches(amount, s) ==
    LET expected_micro == (amount + 2) \div 4
    IN  expected_micro # 0 => s.micro = expected_micro

confirm_task(t, s, amount) ==
    /\ snapshot[t] # Nil
    /\ amount_matches(amount, s)
    /\ verify_write_auth(s)
    /\ busy' = [Handling("confirm", t, s) EXCEPT !.amount = amount]

submit_task(t, s) ==
    /\ snapshot[t] # Nil
    /\ verify_write_auth(s)
    /\ busy' = Handling("submit", t, s)

cancel_task(t, s) ==
    /\ snapshot[t] # Nil
    /\ verify_write_auth(s)
    /\ busy' = Handling("cancel", t, s)

\* The handoff names a voucher of its own making.
get_handoff(t, s) ==
    /\ snapshot[t] # Nil
    /\ verify_write_auth(s)
    /\ busy' = [Handling("handoff", t, s) EXCEPT !.voucher = <<"vcr", Len(log) + 1>>]

\* A signed request reaches the bridge when no other is under way.
Receive ==
    /\ busy = Nil /\ Len(log) < MaxEvents
    /\ \E s \in Signatures :
        \/ s.op = "create" /\ \E r \in Requesters : receive_task(s.task, s, r)
        \/ s.op = "confirm" /\ \E a \in Amounts : confirm_task(s.task, s, a)
        \/ s.op = "submit" /\ submit_task(s.task, s)
        \/ s.op = "cancel" /\ cancel_task(s.task, s)
        \/ s.op = "handoff" /\ get_handoff(s.task, s)
    /\ UNCHANGED <<signed, expired, log, snapshot, karma>>

\* a2a_task_to_voucher, for a confirmation with an amount: the bridge asks the
\* Karma API for a voucher and makes one up when it gets none.  The request
\* it rebuilds the task from has no requester, so the buyer is "unknown".
local_voucher == [busy EXCEPT !.voucher = <<"a2a", Len(log) + 1>>, !.buyer = "unknown"]

needs_voucher == busy # Nil /\ busy.op = "confirm" /\ busy.amount > 0 /\ busy.voucher = Nil

\* try_publish_voucher: Karma creates the voucher; its answer may be lost.
try_publish_voucher ==
    /\ needs_voucher
    /\ LET v == <<"karma", Cardinality(karma) + 1>>
       IN  /\ karma' = karma \cup {[id |-> v, task |-> busy.task, buyer |-> "unknown"]}
           /\ busy' \in {[local_voucher EXCEPT !.voucher = v], local_voucher}
    /\ UNCHANGED <<signed, expired, used, log, snapshot>>

\* It is not asked, refuses, or is not there.
a2a_task_to_voucher ==
    /\ needs_voucher
    /\ busy' = local_voucher
    /\ UNCHANGED <<signed, expired, used, log, snapshot, karma>>

Write ==
    /\ busy # Nil /\ ~needs_voucher
    /\ append_event(busy)
    /\ busy' = Nil
    /\ UNCHANGED <<signed, expired, used, karma>>

\* The process stops and starts again on the same file.
Crash ==
    /\ busy # Nil
    /\ busy' = Nil
    /\ UNCHANGED <<signed, expired, used, log, snapshot, karma>>

Next ==
    \/ \E s \in Signatures : sign_a2a_task_op(s)
    \/ \E s \in signed \ expired : Deadline(s)
    \/ Receive
    \/ try_publish_voucher \/ a2a_task_to_voucher \/ Write \/ Crash

Spec == Init /\ [][Next]_vars

-----------------------------------------------------------------------------
(* No signature makes two events, whether its request is repeated, late, or   *)
(* sent again after the process stopped (consume_nonce), and every event is   *)
(* one its signer signed: this operation, on this task (verify_write_auth).   *)
SignedOnce ==
    \A i, j \in DOMAIN log :
        /\ log[i].sig \in signed
        /\ log[i].sig.agent = log[j].sig.agent /\ log[i].sig.nonce = log[j].sig.nonce => i = j

(* A task is created once, and before anything else happens to it             *)
(* (receive_task, the 404 of the other handlers).                             *)
CreatedOnce ==
    \A i \in DOMAIN log :
        log[i].op = "create" <=> \A j \in 1..(i - 1) : log[j].task # log[i].task

(* The voucher of a task is the one of its last confirmation that made one,   *)
(* whatever came after: a later confirmation without an amount, a             *)
(* cancellation, a handoff with a voucher id of its own (rebuild).            *)
made(t) ==
    {i \in DOMAIN log : log[i].task = t /\ log[i].op = "confirm" /\ log[i].voucher # Nil}

lastMade(t, voucher) ==
    \/ made(t) = {} /\ voucher = Nil
    \/ \E i \in made(t) : (\A j \in made(t) : j <= i) /\ voucher = log[i].voucher

VoucherIsLastConfirmed ==
    \A t \in Tasks : snapshot[t] # Nil => lastMade(t, snapshot[t].voucher)

(* A voucher is made for the amount its signer signed, to half a micro unit.  *)
VoucherAmountIsSigned ==
    \A i \in DOMAIN log :
        log[i].op = "confirm" /\ log[i].voucher # Nil =>
            LET d == log[i].amount - 4 * log[i].sig.micro IN -2 <= d /\ d <= 2

(* A task of the bridge is what its log of signed operations says: created    *)
(* once and first, with the voucher of its last confirmation, for the signed  *)
(* amount (rebuild, receive_task, confirm_task).                              *)
TasksFollowLog == CreatedOnce /\ VoucherIsLastConfirmed /\ VoucherAmountIsSigned

\* The signatures of the log.
Done == [i \in 1..Len(log) |-> log[i].sig]

Log == INSTANCE SignedLog WITH granted <- signed, done <- Done

(* The bridge, with its nonce in one transaction and its event in another, a  *)
(* call to Karma between them and a process that may stop at any point,       *)
(* implements a log that takes each signed operation at most once.            *)
RefinesSignedLog == Log!Spec
=============================================================================
