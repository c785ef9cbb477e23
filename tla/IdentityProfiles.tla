-------------------------- MODULE IdentityProfiles --------------------------
(* Identity profiles of the core API: projections of on-chain DIDs, and the   *)
(* sub-identities a parent acts through.  A request reads rows into its       *)
(* session, decides on what it read and writes at its commit; the database    *)
(* holds it to unique keys and to nothing else.  Identities here are DID      *)
(* projections; a plain id has no DID and never gets one.                     *)
EXTENDS Naturals, FiniteSets

CONSTANTS Agents,    \* agent addresses; an identity id is the address's projection
          Dids,      \* on-chain DIDs
          Subs,      \* sub-identity ids
          Vouchers,  \* voucher ids
          Requests,  \* requests in flight
          MaxActive, \* MAX_ACTIVE_SUB_IDENTITIES
          Nil        \* no row, no DID, no request

VARIABLES db,   \* the three tables
          req   \* what each request under way has read

vars == <<db, req>>

Profiles == [did : Dids \cup {Nil}, readonly : BOOLEAN]
SubRows == [parent : Agents, status : {"active", "deleted"}]
VoucherRows == [sub : Subs, status : {"open", "closed"}]  \* open: created or accepted

TypeOK ==
    /\ db.profile \in [Agents -> Profiles \cup {Nil}]
    /\ db.sub \in [Subs -> SubRows \cup {Nil}]
    /\ db.voucher \in [Vouchers -> VoucherRows \cup {Nil}]

Init ==
    /\ db = [profile |-> [a \in Agents |-> Nil], sub |-> [s \in Subs |-> Nil],
             voucher |-> [v \in Vouchers |-> Nil]]
    /\ req = [r \in Requests |-> Nil]

-----------------------------------------------------------------------------
(* The handlers on the tables d they read.                                    *)

taken(d, a, did) == \E b \in Agents \ {a} : d.profile[b] # Nil /\ d.profile[b].did = did


\* POST /v1/identities/project-from-did.
may_project(d, a, did) ==
    IF d.profile[a] = Nil THEN ~taken(d, a, did)
    ELSE ~(d.profile[a].readonly /\ d.profile[a].did \notin {Nil, did})

active(d, a) == {s \in Subs : d.sub[s] # Nil /\ d.sub[s].parent = a /\ d.sub[s].status = "active"}

\* create_sub_identity.
may_create_sub(d, a) == Cardinality(active(d, a)) < MaxActive

\* delete_sub_identity: not while a voucher that is created or accepted names it.
may_delete_sub(d, s) ==
    /\ d.sub[s] # Nil /\ d.sub[s].status = "active"
    /\ \A v \in Vouchers : d.voucher[v] # Nil => ~(d.voucher[v].sub = s /\ d.voucher[v].status = "open")

\* create_voucher: the sub-identity is active and its parent is the party.
validate_sub_identity_binding(d, a, s) == s \in active(d, a)

-----------------------------------------------------------------------------
begin(r, op, key, arg) ==
    /\ req[r] = Nil
    /\ req' = [req EXCEPT ![r] = [op |-> op, key |-> key, arg |-> arg, seen |-> db]]
    /\ UNCHANGED db

\* What the database still refuses at the flush: a second row of one identity,
\* and a DID another row has.
unique_keys(q) ==
    /\ q.seen.profile[q.key] = Nil => db.profile[q.key] = Nil
    /\ ~taken(db, q.key, q.arg)

project_identity_from_did(q) ==
    /\ q.op = "project"
    /\ may_project(q.seen, q.key, q.arg)
    /\ unique_keys(q)
    /\ db' = [db EXCEPT !.profile[q.key] = [did |-> q.arg, readonly |-> TRUE]]

\* POST /v1/identities/{id}/profile/init: a profile that is there is returned.
init_identity_profile(q) ==
    /\ q.op = "init"
    /\ q.seen.profile[q.key] = Nil /\ db.profile[q.key] = Nil
    /\ db' = [db EXCEPT !.profile[q.key] = [did |-> Nil, readonly |-> TRUE]]

create_sub_identity(q) ==
    /\ q.op = "addsub"
    /\ may_create_sub(q.seen, q.key)
    /\ db.sub[q.arg] = Nil
    /\ db' = [db EXCEPT !.sub[q.arg] = [parent |-> q.key, status |-> "active"]]

delete_sub_identity(q) ==
    /\ q.op = "delsub"
    /\ may_delete_sub(q.seen, q.key)
    /\ db' = [db EXCEPT !.sub[q.key].status = "deleted"]

create_voucher(q) ==
    /\ q.op = "voucher"
    /\ \E a \in Agents : validate_sub_identity_binding(q.seen, a, q.arg)
    /\ db.voucher[q.key] = Nil
    /\ db' = [db EXCEPT !.voucher[q.key] = [sub |-> q.arg, status |-> "open"]]

finish(r) ==
    /\ req[r] # Nil
    /\ \/ project_identity_from_did(req[r]) \/ init_identity_profile(req[r])
       \/ create_sub_identity(req[r]) \/ delete_sub_identity(req[r]) \/ create_voucher(req[r])
    /\ req' = [req EXCEPT ![r] = Nil]

\* Refused, found in place, or the commit failed.
refused(r) ==
    /\ req[r] # Nil
    /\ req' = [req EXCEPT ![r] = Nil]
    /\ UNCHANGED db

\* The settlement uses the voucher, or the seller rejects it.
mark_voucher_used(v) ==
    /\ db.voucher[v] # Nil /\ db.voucher[v].status = "open"
    /\ db' = [db EXCEPT !.voucher[v].status = "closed"]
    /\ UNCHANGED req

Next ==
    \/ \E r \in Requests :
        \/ \E a \in Agents, d \in Dids : begin(r, "project", a, d)
        \/ \E a \in Agents : begin(r, "init", a, Nil)
        \/ \E a \in Agents, s \in Subs : db.sub[s] = Nil /\ begin(r, "addsub", a, s)
        \/ \E s \in Subs : db.sub[s] # Nil /\ begin(r, "delsub", s, Nil)
        \/ \E v \in Vouchers, s \in Subs : db.voucher[v] = Nil /\ begin(r, "voucher", v, s)
        \/ finish(r) \/ refused(r)
    \/ \E v \in Vouchers : mark_voucher_used(v)

Spec == Init /\ [][Next]_vars

-----------------------------------------------------------------------------
(* One on-chain DID is projected to one identity (project_identity_from_did,  *)
(* the unique column), requests at the same time included.                    *)
OneIdentityPerDid ==
    \A a, b \in Agents :
        db.profile[a] # Nil /\ db.profile[b] # Nil /\ db.profile[a].did # Nil
        /\ db.profile[a].did = db.profile[b].did => a = b

(* A projection keeps the DID it is bound to.                                 *)
DidIsKept ==
    \A a \in Agents : db.profile[a] # Nil /\ db.profile[a].did # Nil
         => db'.profile[a].did = db.profile[a].did

(* No parent has more active sub-identities than the cap.                     *)
SubIdentityCap == \A a \in Agents : Cardinality(active(db, a)) <= MaxActive

(* A voucher that is created or accepted names no deleted sub-identity, so    *)
(* that someone answers for it until it is used or rejected.                  *)
OpenVoucherHasParty ==
    \A v \in Vouchers : db.voucher[v] # Nil /\ db.voucher[v].status = "open"
        => db.sub[db.voucher[v].sub].status = "active"
=============================================================================
