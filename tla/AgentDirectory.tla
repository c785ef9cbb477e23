--------------------------- MODULE AgentDirectory ---------------------------
(* The agent directory and its three gates: who an agent is and whose it is  *)
(* (P1), what its owner declared and signed (P2 boundary), and whether it    *)
(* may take an order.  The directory row is in the database; the profile     *)
(* card and the boundary card are in JSON files, which every API process     *)
(* caches once and rewrites whole.  A handler that is refused after it has   *)
(* written the files rolls back the row and not the files.                   *)
(*                                                                           *)
(* A hash is modelled by the content it is the hash of; a capability by the  *)
(* industry it hints at ("settle" stands for the common ones); the do-not    *)
(* text by whether there is one, which is whether there are service specs.   *)
EXTENDS FiniteSets, Naturals

CONSTANTS Agents,      \* agent ids that connect
          Owners,      \* identities that own agents
          Industries,  \* industry ids, which are also the scene ids
          Procs,       \* API processes (uvicorn workers)
          Roles,       \* the roles a connect asks for: worker, client
          Prod,        \* is_prod_like_env(): FALSE in development and test
          Nil          \* no row, no card, no boundary, no owner, no class

VARIABLES row,     \* the agents table, with the onboarding metadata
          risk,    \* identity profiles an administrator has marked
          disk,    \* the two JSON files
          cache    \* per process: its copy of the files, Nil before first use

vars == <<row, risk, disk, cache>>

Caps == Industries \cup {"settle"}
Classes == {"user", "merchant"}

Cards == [profile : Classes, scenes : SUBSET Industries, specs : SUBSET Industries]

Boundaries ==
    [profile : Classes \cup {Nil}, conf : {"buyer", "seller"}, owner : Owners \cup Agents,
     scenes : SUBSET Industries, caps : SUBSET Caps, specs : SUBSET Industries]

Rows ==
    [owner : Owners \cup {Nil}, class : Classes \cup {Nil}, role : {"worker", "client"},
     caps : SUBSET Caps, ownKey : BOOLEAN, ready : BOOLEAN,
     hash : Boundaries, acked : BOOLEAN, ackHash : Boundaries \cup {Nil}]

Files == [card : [Agents -> Cards \cup {Nil}], bound : [Agents -> Boundaries \cup {Nil}]]

TypeOK ==
    /\ row \in [Agents -> Rows \cup {Nil}]
    /\ risk \subseteq Owners
    /\ disk \in Files
    /\ cache \in [Procs -> Files \cup {Nil}]

Init ==
    /\ row = [a \in Agents |-> Nil]
    /\ risk = {}
    /\ disk = [card |-> [a \in Agents |-> Nil], bound |-> [a \in Agents |-> Nil]]
    /\ cache = [p \in Procs |-> Nil]

-----------------------------------------------------------------------------
(* The files.  A process reads them when it first needs them and never again. *)

ensure_loaded(p) == IF cache[p] = Nil THEN disk ELSE cache[p]

get_profile_card(p, a) == ensure_loaded(p).card[a]
get_agent_boundary(p, a) == ensure_loaded(p).bound[a]

\* save_profile_card and save_agent_boundary: the cache of this process, then
\* the whole cache over the file.  A connect without a card saves none.
save_files(p, a, card, b) ==
    LET f == ensure_loaded(p)
        g == [card |-> IF card = Nil THEN f.card ELSE [f.card EXCEPT ![a] = card],
              bound |-> [f.bound EXCEPT ![a] = b]]
    IN  /\ cache' = [cache EXCEPT ![p] = g]
        /\ disk' = g

-----------------------------------------------------------------------------
(* The boundary card.                                                         *)

\* The side whose confirmation steps the catalog prescribes.
confirmation_side(class, role) == IF class = "user" \/ role = "client" THEN "buyer" ELSE "seller"

materialize_agent_boundary(a, class, role, caps, card, owner) ==
    [profile |-> class,
     conf    |-> confirmation_side(class, role),
     owner   |-> IF owner = Nil THEN a ELSE owner,
     scenes  |-> IF card = Nil THEN caps \cap Industries ELSE card.scenes,
     caps    |-> caps,
     specs   |-> IF card = Nil THEN {} ELSE card.specs]

\* _assess_complete: a buyer needs capabilities; a seller also scenes, a spec
\* for each of them and a do-not text.
boundary_complete(b) ==
    /\ b.caps # {}
    /\ \/ b.conf = "buyer"
       \/ b.scenes # {} /\ b.specs # {} /\ b.scenes \subseteq b.specs

\* A card that publishes the steps of the other side leaves out steps its own
\* side must confirm.
looser_than_catalog(b, side) == b.conf # side

\* materialize_onboarding: the card of a validated template.  A user's card
\* carries the catalog's default interests and no specs.
materialize_onboarding(class, industries) ==
    IF class = "user" THEN [profile |-> class, scenes |-> Industries, specs |-> {}]
                      ELSE [profile |-> class, scenes |-> industries, specs |-> industries]

-----------------------------------------------------------------------------
(* P1 readiness, as one process sees the records.                             *)

\* The ack counts when it is bound to the boundary this process publishes and
\* to the hash of the row.
ack_bound(r, live) == r.acked /\ r.ackHash = live /\ r.ackHash = r.hash

\* The directory row and the profile card by themselves: class, active owner,
\* own key in production, a card, and a merchant's specs.
record_in_order(r, card) ==
    /\ r.class # Nil
    /\ r.owner # Nil /\ r.owner \notin risk
    /\ Prod => r.ownKey
    /\ card # Nil
    /\ r.class = "merchant" => card.specs # {}

evaluate_p1_readiness(r, files, a) ==
    LET card == files.card[a]
        live == IF files.bound[a] # Nil THEN files.bound[a]
                ELSE materialize_agent_boundary(a, r.class, r.role, r.caps, card, r.owner)
    IN  /\ record_in_order(r, card)
        /\ boundary_complete(live)
        /\ r.hash = live
        /\ ack_bound(r, live)

-----------------------------------------------------------------------------
(* connect_agent: the upsert every path shares.                               *)

\* Mutant: the owner of the row is not compared with the caller's.
may_update_any(a, owner) == TRUE

\* Anti-hijack: an owned agent id is updated only in its owner's name.
may_update(a, owner) == row[a] # Nil /\ row[a].owner # Nil => owner = row[a].owner

\* The row before the boundary is worked out: inserted, or merged into.
upsert(a, owner, class, role, caps, key) ==
    LET all == caps \cup (IF role = "worker" THEN {"settle"} ELSE {})
    IN  IF row[a] = Nil
        THEN [owner |-> owner, class |-> class, role |-> role, caps |-> all,
              ownKey |-> key, ready |-> FALSE,
              hash |-> Nil, acked |-> FALSE, ackHash |-> Nil]
        ELSE [row[a] EXCEPT !.owner = IF owner = Nil THEN @ ELSE owner,
                            !.class = IF class = Nil THEN @ ELSE class,
                            !.role = role, !.caps = @ \cup all,
                            !.ownKey = @ \/ key]

\* The boundary to publish.  A complete one is kept by a connect that brings
\* neither a card nor a class; any other connect derives it again.
next_boundary(p, a, r, class, card) ==
    LET old == get_agent_boundary(p, a)
    IN  IF old # Nil /\ boundary_complete(old) /\ card = Nil /\ class = Nil
        THEN old
        ELSE materialize_agent_boundary(a, class, r.role, r.caps, card, r.owner)

\* A boundary that differs from the one the row names takes the ack and the
\* readiness with it, unless the caller brought an ack of the new one.
bind_boundary(r, prev, b) ==
    IF prev \in {Nil, b} \/ (r.acked /\ r.ackHash = b)
    THEN [r EXCEPT !.hash = b]
    ELSE [r EXCEPT !.hash = b, !.acked = FALSE, !.ready = FALSE]

\* refresh_p1_ready: the flag, and never the hash.
refresh_p1_ready(r, files, a) == [r EXCEPT !.ready = evaluate_p1_readiness(r, files, a)]

-----------------------------------------------------------------------------
(* The handlers.                                                              *)

\* What a connect leaves behind, once its boundary b is worked out: the files
\* at once, the row r only if the transaction commits.
written(p, a, card, b) == [ensure_loaded(p) EXCEPT !.card[a] = IF card = Nil THEN @ ELSE card,
                                                  !.bound[a] = b]

\* POST /v1/agents/connect.
connect_agent_route(p, a, owner, class, role, caps) ==
    LET r == upsert(a, owner, class, role, caps, Prod /\ class # Nil)
        b == next_boundary(p, a, r, class, Nil)
        prev == IF row[a] = Nil THEN Nil ELSE row[a].hash
    IN  /\ ~(Prod /\ role = "worker" /\ class = Nil)
        /\ class # Nil => owner # Nil
        /\ may_update(a, owner)
        /\ save_files(p, a, Nil, b)
        /\ row' = [row EXCEPT ![a] = refresh_p1_ready(bind_boundary(r, prev, b),
                                                     written(p, a, Nil, b), a)]
        /\ UNCHANGED risk

\* _build_responsibility_ack_record: the platform attests any hash outside
\* production; an owner's signature verifies against the hash it was made over.
ack_accepted(signed, over, hash) == IF signed THEN over = hash ELSE ~Prod

\* POST /v1/agents/connect-from-template and the core of one-click.
\* The ack is built for the boundary of the template alone; when the directory's merged
\* capabilities make the published boundary another one, it is built again.
\* The platform attests either; an owner's signature covers only the first,
\* and the refusal comes after the files are written.
connect_from_template(p, a, owner, class, industries, signed) ==
    LET role == IF class = "user" THEN "client" ELSE "worker"
        card == materialize_onboarding(class, industries)
        caps == card.scenes \cup {"settle"}
        pre == materialize_agent_boundary(a, class, role, caps, card, owner)
        r == [upsert(a, owner, class, role, caps, Prod) EXCEPT !.acked = TRUE, !.ackHash = pre]
        b == next_boundary(p, a, r, class, card)
        prev == IF row[a] = Nil THEN pre ELSE row[a].hash
        bound == bind_boundary(r, prev, b)
        acked == IF b = pre THEN bound ELSE [bound EXCEPT !.acked = TRUE, !.ackHash = b]
    IN  /\ ack_accepted(signed, pre, pre)
        /\ may_update(a, owner)
        /\ save_files(p, a, card, b)
        /\ row' = IF b = pre \/ ack_accepted(signed, pre, b)
                  THEN [row EXCEPT ![a] = refresh_p1_ready(acked, written(p, a, card, b), a)]
                  ELSE row
        /\ UNCHANGED risk

\* resolve_one_click: a side and a vertical stand for a profile and industries.
resolve_one_click(side, vertical) ==
    [class |-> IF side = "buyer" THEN "user" ELSE "merchant", industries |-> {vertical}]

one_click_connect(p, a, owner, side, vertical, signed) ==
    LET tmpl == resolve_one_click(side, vertical)
    IN  connect_from_template(p, a, owner, tmpl.class, tmpl.industries, signed)

\* POST /v1/agents: a new id, without a refresh.
register_agent(p, a, role, caps) ==
    LET r == upsert(a, Nil, Nil, role, caps, FALSE)
        b == next_boundary(p, a, r, Nil, Nil)
    IN  /\ row[a] = Nil
        /\ save_files(p, a, Nil, b)
        /\ row' = [row EXCEPT ![a] = bind_boundary(r, Nil, b)]
        /\ UNCHANGED risk

\* Every discovery and every fulfilment upserts the demo merchants, owned or
\* not, and refreshes nothing.
ensure_directory_merchants(p, a, caps) ==
    LET r == upsert(a, Nil, Nil, "worker", caps, FALSE)
        b == next_boundary(p, a, r, Nil, Nil)
        prev == IF row[a] = Nil THEN Nil ELSE row[a].hash
    IN  /\ save_files(p, a, Nil, b)
        /\ row' = [row EXCEPT ![a] = bind_boundary(r, prev, b)]
        /\ UNCHANGED risk

\* GET /v1/agents/{id}/p1-status.
get_agent_p1_status(p, a) ==
    /\ row[a] # Nil
    /\ row' = [row EXCEPT ![a] = refresh_p1_ready(@, ensure_loaded(p), a)]
    /\ cache' = [cache EXCEPT ![p] = ensure_loaded(p)]
    /\ UNCHANGED <<risk, disk>>

\* POST /v1/admin/controls/identities/{id}/risk-mark.
mark_identity_risk(o, marked) ==
    /\ risk' = IF marked THEN risk \cup {o} ELSE risk \ {o}
    /\ UNCHANGED <<row, disk, cache>>

\* A process is replaced: the next one reads the files again.
Restart(p) ==
    /\ cache[p] # Nil
    /\ cache' = [cache EXCEPT ![p] = Nil]
    /\ UNCHANGED <<row, risk, disk>>

\* A connect whose commit fails: get_db rolls the row back, the files stay.
RolledBack(p, a, owner, class, role, caps) ==
    LET r == upsert(a, owner, class, role, caps, Prod /\ class # Nil)
    IN  /\ class # Nil => owner # Nil
        /\ may_update(a, owner)
        /\ save_files(p, a, Nil, next_boundary(p, a, r, class, Nil))
        /\ UNCHANGED <<row, risk>>

Next ==
    \/ \E p \in Procs, a \in Agents :
        \/ \E o \in Owners \cup {Nil}, c \in Classes \cup {Nil}, role \in Roles,
              i \in SUBSET Industries : connect_agent_route(p, a, o, c, role, i)
        \/ \E o \in Owners, c \in Classes, i \in (SUBSET Industries) \ {{}}, s \in BOOLEAN :
              connect_from_template(p, a, o, c, i, s)
        \/ \E o \in Owners, side \in {"buyer", "seller"}, v \in Industries, s \in BOOLEAN :
              one_click_connect(p, a, o, side, v, s)
        \/ \E role \in Roles, i \in SUBSET Industries : register_agent(p, a, role, i)
        \/ \E i \in SUBSET Industries : ensure_directory_merchants(p, a, i)
        \/ get_agent_p1_status(p, a)
    \/ \E o \in Owners, m \in BOOLEAN : mark_identity_risk(o, m)
    \/ \E p \in Procs : Restart(p)

Spec == Init /\ [][Next]_vars

\* With commits that may fail.
NextRollback ==
    \/ Next
    \/ \E p \in Procs, a \in Agents, o \in Owners \cup {Nil}, c \in Classes \cup {Nil},
          role \in Roles, i \in SUBSET Industries : RolledBack(p, a, o, c, role, i)

-----------------------------------------------------------------------------
(* P2: the check a counterparty asks for, and the gate of an order.           *)

conf_role(role, r, b) == IF r.class = "user" \/ b.profile = "user" THEN "buyer" ELSE role

\* The gate of a scene: a seller covers the scene that is asked for.
scene_uncovered(b, as, scene) == as = "seller" /\ scene \notin b.scenes \cup b.specs

\* The gaps of a boundary card for one scene.
verify_boundary_card(r, b, role, scene, complete) ==
    LET as == conf_role(role, r, b)
        failed == [looser    |-> looser_than_catalog(b, as),
                   specs     |-> as = "seller" /\ ~(b.scenes # {} /\ b.scenes \subseteq b.specs),
                   incomplete |-> complete /\ ~boundary_complete(b),
                   hash      |-> b # r.hash,
                   uncovered |-> scene_uncovered(b, as, scene)]
    IN  {g \in DOMAIN failed : failed[g]}

\* GET /v1/agents/{id}/boundary/verify?scene_id= answers ok.
verify_agent_boundary(p, a, scene) ==
    LET r == row[a]
        stored == get_agent_boundary(p, a)
        b == IF stored # Nil THEN stored
             ELSE materialize_agent_boundary(a, r.class, r.role, r.caps, get_profile_card(p, a), r.owner)
    IN  verify_boundary_card(r, b, b.conf, scene, r.class = "merchant") = {}

\* fulfill-intent goes on with seller a.
assert_seller_boundary_for_fulfill(p, a, scene) ==
    LET b == get_agent_boundary(p, a)
        hard == {"looser", "uncovered"} \cup (IF Prod THEN {"specs", "incomplete"} ELSE {})
    IN  /\ Prod => row[a].ready
        /\ b # Nil
        /\ verify_boundary_card(row[a], b, "seller", scene, Prod) \cap hard = {}

-----------------------------------------------------------------------------
(* A ready row names the boundary its owner acknowledged, complete and in the *)
(* owner's name, whatever was refused, rolled back or upserted in between     *)
(* (connect_agent, evaluate_p1_readiness).                                    *)
ReadyIsAcked ==
    \A a \in Agents : row[a] # Nil /\ row[a].ready =>
        /\ row[a].acked /\ row[a].ackHash = row[a].hash
        /\ row[a].hash.owner = row[a].owner
        /\ boundary_complete(row[a].hash)

(* An owned agent id keeps its owner (the anti-hijack check of connect_agent, *)
(* which the demo merchants' upsert is exempt from).                          *)
OwnerKept ==
    \A a \in Agents : row[a] # Nil /\ row[a].owner # Nil => row'[a].owner = row[a].owner

(* A counterparty who is told that a ready seller's boundary is in order for  *)
(* a scene is not refused by the gate of the order                            *)
(* (verify_agent_boundary, assert_seller_boundary_for_fulfill).               *)
VerifiedIsAccepted ==
    \A p \in Procs, a \in Agents, s \in Industries :
        row[a] # Nil /\ row[a].ready /\ verify_agent_boundary(p, a, s)
            => assert_seller_boundary_for_fulfill(p, a, s)
=============================================================================
