---------------------------- MODULE TrustLedger ----------------------------
(***************************************************************************)
(* The credentials of a main identity and the trust ledger they are        *)
(* written to (services/identity_gateway/state_machine.py and the          *)
(* credential half of store.py, with the routes of identity_card.py).      *)
(*                                                                         *)
(* Every transition is checked against CREDENTIAL_TRANSITIONS and appended *)
(* to a hash chain, which is cut at its head when it grows past            *)
(* _LEDGER_MAX and then hashed again. The ledger is saved before the       *)
(* identities are, each to a file of its own. A hash is the pair of the    *)
(* hash before it and the content, so equal hashes mean equal histories.   *)
(***************************************************************************)
EXTENDS Integers, Sequences, SequencesExt, FiniteSetsExt

CONSTANTS
    CredentialType,     \* contains "wallet" and "telegram"
    LedgerMax,          \* _LEDGER_MAX
    MaxCredential,      \* bound: credentials of the identity
    MaxEvent,           \* bound: entries ever written
    MaxTime             \* bound: the clock

LedgerAssumption == LedgerMax \in Nat \ {0} /\ "wallet" \in CredentialType

VARIABLES
    credentials,            \* ident.credentials, in the order of issue
    verification_status,    \* as last recomputed
    ledger,                 \* _LEDGER
    alerts,                 \* categories of the alerts broadcast
    written,                \* entries ever written
    card,                   \* the card just presented, or the one being made
    now

vars == <<credentials, verification_status, ledger, alerts, written, card, now>>

CREDENTIAL_TRANSITIONS ==
    {<<"", "issue", "pending">>, <<"pending", "verify", "verified">>,
     <<"pending", "reject", "failed">>, <<"pending", "revoke", "revoked">>,
     <<"failed", "reissue", "pending">>, <<"expired", "reverify", "pending">>,
     <<"verified", "expire", "expired">>, <<"verified", "revoke", "revoked">>}

to_state(from, action) ==
    (CHOOSE t \in CREDENTIAL_TRANSITIONS : t[1] = from /\ t[2] = action)[3]

legal(from, action) == \E t \in CREDENTIAL_TRANSITIONS : t[1] = from /\ t[2] = action

Never == MaxTime + 1

NoCard == [level |-> "none", begun |-> 0]

Status == {"pending", "verified", "failed", "expired", "revoked"}

VerifiedTypes(creds) == {c.type : c \in {d \in ToSet(creds) : d.status = "verified"}}

Level(types) ==
    IF Cardinality(types) >= 3 /\ "wallet" \in types THEN "enhanced"
    ELSE IF types # {} THEN "basic" ELSE "unverified"

-----------------------------------------------------------------------------
\* The ledger

entry_hash(prev, e) == <<prev, e.entity, e.event, e.from, e.to>>

rehash(entries) ==
    FoldLeft(LAMBDA chain, e :
                 Append(chain, [e EXCEPT !.hash = entry_hash(
                     IF chain = <<>> THEN "GENESIS" ELSE Last(chain).hash, e)]),
             <<>>, entries)

truncate(entries) == rehash(Tail(entries))

append_ledger(chain, entity, event, from, to) ==
    LET prev == IF chain = <<>> THEN "GENESIS" ELSE Last(chain).hash
        e == [entity |-> entity, event |-> event, from |-> from, to |-> to, hash |-> "GENESIS"]
        longer == Append(chain, [e EXCEPT !.hash = entry_hash(prev, e)])
    IN  IF Len(longer) > LedgerMax THEN truncate(longer) ELSE longer

cut(n) == IF Len(ledger) + n > LedgerMax THEN {"environment"} ELSE {}

\* The index of the first entry whose hash is wrong, or 0.
broken_at(chain) ==
    LET bad == {i \in DOMAIN chain : chain[i].hash # entry_hash(
                    IF i = 1 THEN "GENESIS" ELSE chain[i - 1].hash, chain[i])}
    IN  IF bad = {} THEN 0 ELSE Min(bad)

-----------------------------------------------------------------------------
\* The credentials. An operator with three parts returns the credentials, the
\* ledger and the level after one transition.

recompute_verification_status(creds) == Level(VerifiedTypes(creds))

mutated(creds, chain, i, action) ==
    [creds |-> [creds EXCEPT ![i].status = to_state(creds[i].status, action)],
     chain |-> append_ledger(chain, i, action, creds[i].status, to_state(creds[i].status, action))]

apply(result, n) ==
    /\ written + n <= MaxEvent
    /\ credentials' = result.creds
    /\ ledger' = result.chain
    /\ written' = written + n
    /\ alerts' = alerts \cup cut(n)
    /\ verification_status' = recompute_verification_status(result.creds)

\* verify_credential, reject_credential and revoke_credential; the same
\* function refuses what the table does not have, and broadcasts that.
mutate_credential(i, action) ==
    /\ legal(credentials[i].status, action)
    /\ apply(mutated(credentials, ledger, i, action), 1)
    /\ card' = NoCard
    /\ UNCHANGED now

illegal_transition(i, action) ==
    /\ ~legal(credentials[i].status, action)
    /\ alerts' = alerts \cup {"illegal_transition"}
    /\ card' = NoCard
    /\ UNCHANGED <<credentials, verification_status, ledger, written, now>>

active(creds, type) ==
    {i \in DOMAIN creds : creds[i].type = type /\ creds[i].status \in {"pending", "verified"}}

may_issue(creds, type) == active(creds, type) = {}

issued(creds, chain, type, expires) ==
    [creds |-> Append(creds, [type |-> type, status |-> "pending", expires |-> expires]),
     chain |-> append_ledger(chain, Len(creds) + 1, "issue", "", "pending")]

issue_credential(type, expires) ==
    /\ Len(credentials) < MaxCredential
    /\ may_issue(credentials, type)
    /\ apply(issued(credentials, ledger, type, expires), 1)
    /\ card' = NoCard
    /\ UNCHANGED now

\* bind_by_2fa, as far as it reaches the ledger: the binding is an event, the
\* first live telegram credential is revoked, and a new one is issued and verified.
bind_by_2fa ==
    LET bound == [creds |-> credentials,
                  chain |-> append_ledger(ledger, 0, "telegram_bind", "unbound", "telegram_bound")]
        live == active(credentials, "telegram")
        freed == IF live = {} THEN bound
                 ELSE mutated(bound.creds, bound.chain, Min(live), "revoke")
        fresh == issued(freed.creds, freed.chain, "telegram", Never)
    IN  /\ Len(credentials) < MaxCredential
        /\ may_issue(freed.creds, "telegram")
        /\ apply(mutated(fresh.creds, fresh.chain, Len(fresh.creds), "verify"),
                 IF live = {} THEN 3 ELSE 4)
        /\ card' = NoCard
        /\ UNCHANGED now

stale(creds) ==
    {i \in DOMAIN creds : creds[i].status = "verified" /\ creds[i].expires <= now}

expire_stale_credentials ==
    FoldLeft(LAMBDA r, i : IF i \in stale(credentials) THEN mutated(r.creds, r.chain, i, "expire")
                                                        ELSE r,
             [creds |-> credentials, chain |-> ledger],
             [i \in DOMAIN credentials |-> i])

\* identity_card expires what is due, reads the status and records who saw it.
identity_card ==
    LET fresh == expire_stale_credentials
    IN  /\ apply([creds |-> fresh.creds,
                  chain |-> append_ledger(fresh.chain, 0, "card_presented", "", "")],
                 Cardinality(stale(credentials)) + 1)
        /\ card' = [level |-> verification_status', begun |-> now]
        /\ UNCHANGED now

set_identity_class ==
    /\ apply([creds |-> credentials,
              chain |-> append_ledger(ledger, 0, "identity_class_changed", "", "")], 1)
    /\ card' = NoCard
    /\ UNCHANGED now

\* health_report runs the same verification and reports a failure once more.
verify_ledger_integrity ==
    /\ alerts' = IF broken_at(ledger) = 0 THEN alerts ELSE alerts \cup {"ledger_tamper"}
    /\ card' = NoCard
    /\ UNCHANGED <<credentials, verification_status, ledger, written, now>>

Tick ==
    /\ now < MaxTime
    /\ now' = now + 1
    /\ card' = NoCard
    /\ UNCHANGED <<credentials, verification_status, ledger, alerts, written>>

Init ==
    /\ credentials = <<>>
    /\ verification_status = "unverified"
    /\ ledger = <<>>
    /\ alerts = {}
    /\ written = 0
    /\ card = NoCard
    /\ now = 0

Next ==
    \/ \E i \in DOMAIN credentials, a \in {"verify", "reject", "revoke"} :
           mutate_credential(i, a) \/ illegal_transition(i, a)
    \/ \E type \in CredentialType, ttl \in {1, Never} : issue_credential(type, Min({now + ttl, Never}))
    \/ bind_by_2fa
    \/ identity_card
    \/ set_identity_class
    \/ verify_ledger_integrity
    \/ Tick

Spec == Init /\ [][Next]_vars

-----------------------------------------------------------------------------
\* What can happen to the files.

\* The process dies after the ledger was saved and before the identities were.
crash_between_saves(i, action) ==
    /\ legal(credentials[i].status, action)
    /\ written < MaxEvent
    /\ ledger' = mutated(credentials, ledger, i, action).chain
    /\ written' = written + 1
    /\ card' = NoCard
    /\ UNCHANGED <<credentials, verification_status, alerts, now>>

Credential == DOMAIN credentials

\* The same with a process that can die between its two saves.
NextCrash ==
    \/ Next
    \/ \E i \in Credential, a \in {"verify", "reject", "revoke"} : crash_between_saves(i, a)

-----------------------------------------------------------------------------
TypeOK ==
    /\ \A i \in Credential :
           credentials[i] \in [type : CredentialType, status : Status, expires : 1..Never]
    /\ verification_status \in {"unverified", "basic", "enhanced"}
    /\ Len(ledger) <= LedgerMax /\ written \in 0..MaxEvent /\ now \in 0..MaxTime
    /\ alerts \subseteq {"illegal_transition", "environment", "ledger_tamper"}

\* An identity never has two credentials of one type that are pending or
\* verified, whatever was revoked, rejected, bound again or has expired between.
OneActivePerType ==
    \A i, j \in Credential :
        /\ credentials[i].type = credentials[j].type
        /\ {credentials[i].status, credentials[j].status} \subseteq {"pending", "verified"}
        => i = j

\* The ledger tells the status of every credential it has an entry of: the last
\* one ends where the credential is, and what follows an entry starts where it ended.
LedgerTellsStatus ==
    \A i \in Credential :
        LET own == SelectSeq(ledger, LAMBDA e : e.entity = i)
        IN  /\ own # <<>> => Last(own).to = credentials[i].status
            /\ \A k \in 1..(Len(own) - 1) : own[k].to = own[k + 1].from

\* An untouched ledger always verifies, after it was cut at its head too.
NoFalseTamperAlert == broken_at(ledger) = 0 /\ "ledger_tamper" \notin alerts

\* The level is the one the credentials give, also when a binding revoked, issued
\* and verified in one go.
LevelDerived == verification_status = Level(VerifiedTypes(credentials))

\* A card that was just presented counts no credential whose expiry had come when
\* the card was asked for.
CardIsCurrent ==
    card.level \notin {"none", "reading"} =>
        card.level = Level({c.type : c \in {d \in ToSet(credentials) :
                                             d.status = "verified" /\ d.expires > card.begun}})

=============================================================================
