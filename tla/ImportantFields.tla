-------------------------- MODULE ImportantFields --------------------------
(***************************************************************************)
(* Locking the important fields of a deal                                  *)
(* (services/important_fields_capture.py with _crypto and _standard): the  *)
(* protocol captures the fields, buyer and seller each submit what they    *)
(* read, encrypted for their role, and the capture is sealed when all      *)
(* three agree.                                                            *)
(*                                                                         *)
(* One capture. A document is one of four: two spellings of the captured   *)
(* fields, other fields, and fields that do not validate; comparing hashes *)
(* is comparing canonical forms. A ciphertext is a document, the role it   *)
(* was encrypted for and its envelope; opening it for another role fails,  *)
(* except in the old envelope, which knows no role.                        *)
(***************************************************************************)
EXTENDS Integers, FiniteSets

CONSTANTS
    Agent,         \* agents who submit
    MaxAttempts,   \* MAX_ATTEMPTS_PER_CAPTURE
    Nonce,         \* nonces
    MaxCount,      \* bound: attempt_count
    NoAgent        \* no agent named

ASSUME AttemptsAssumption == MaxAttempts \in Nat \ {0}
ASSUME AgentAssumption == NoAgent \notin Agent

VARIABLES
    party,                   \* buyer_agent_id and seller_agent_id of the capture
    status, attempts, used,  \* its status, attempt_count and used_nonces
    submit,                  \* what each role submitted last
    accepted,                \* submissions accepted so far
    late                     \* the capture is past its time

fieldVars == <<party, status, attempts, used, submit, accepted, late>>

Role == {"buyer", "seller"}
Document == {"captured", "respelled", "other", "invalid"}
ProtocolCapture == [status: {"CAPTURED", "PARTIAL", "MATCHED", "COUNTERED", "FAILED", "EXPIRED"}]
PartySubmit == [doc: Document, for: Role \cup {"any"}, by: Agent \cup {NoAgent}]
NoSubmit == [none |-> TRUE]

canonicalize(doc) == IF doc = "respelled" THEN "captured" ELSE doc
validate_fields(doc) == doc # "invalid"
fields_hash(doc) == canonicalize(doc)
protocol_fields_hash == fields_hash("captured")

decrypt_canonical_fields(ct, role) == ct.for \in {role, "any"}

other(role) == IF role = "buyer" THEN "seller" ELSE "buyer"

\* A capture past its time is closed by the next call, unless it is sealed.
expired == late /\ status # "MATCHED"

read_expired ==
    /\ expired /\ status # "EXPIRED"
    /\ status' = "EXPIRED"
    /\ UNCHANGED <<party, attempts, used, submit, accepted, late>>

-----------------------------------------------------------------------------
party_may_submit(role, by) ==
    /\ party[role] # NoAgent => by = party[role]
    /\ by # NoAgent /\ submit[other(role)] # NoSubmit => submit[other(role)].by # by

\* Mutant: a sealed capture takes another submission.
open_though_sealed == ~expired /\ status \notin {"FAILED", "EXPIRED"}

open_for_submit == ~expired /\ status \notin {"MATCHED", "FAILED", "EXPIRED"}

reject_nonce(role, by, nonce) ==
    /\ open_for_submit /\ party_may_submit(role, by)
    /\ nonce \in used /\ attempts < MaxCount
    /\ attempts' = attempts + 1
    /\ UNCHANGED <<party, status, used, submit, accepted, late>>

reject_attempts(role, by, nonce) ==
    /\ open_for_submit /\ party_may_submit(role, by)
    /\ nonce \notin used /\ attempts >= MaxAttempts
    /\ status' = "FAILED"
    /\ UNCHANGED <<party, attempts, used, submit, accepted, late>>

attempts_left(n) == n < MaxAttempts

\* Whatever the ciphertext holds, the nonce and the attempt are spent.
submit_encrypted(role, ct, nonce) ==
    /\ open_for_submit /\ party_may_submit(role, ct.by)
    /\ nonce \notin used /\ attempts_left(attempts)
    /\ used' = used \cup {nonce}
    /\ attempts' = attempts + 1
    /\ IF decrypt_canonical_fields(ct, role) /\ validate_fields(ct.doc)
       THEN /\ submit' = [submit EXCEPT ![role] = ct]
            /\ status' = "PARTIAL"
            /\ accepted' = accepted + 1
       ELSE UNCHANGED <<submit, status, accepted>>
    /\ UNCHANGED <<party, late>>

triple_ok(b, s) ==
    fields_hash(b.doc) = fields_hash(s.doc) /\ fields_hash(s.doc) = protocol_fields_hash

\* A sealed capture answers as before; any other one is compared, a failed one too.
may_finalize == ~expired /\ status # "MATCHED"

finalize_triple_match ==
    /\ may_finalize
    /\ submit["buyer"] # NoSubmit /\ submit["seller"] # NoSubmit
    /\ LET b == submit["buyer"]
           s == submit["seller"]
       IN  IF b.by # NoAgent /\ b.by = s.by
           THEN status' = "FAILED" /\ UNCHANGED attempts
           ELSE IF triple_ok(b, s) THEN status' = "MATCHED" /\ UNCHANGED attempts
           ELSE /\ attempts < MaxCount
                /\ attempts' = attempts + 1
                /\ status' = IF attempts + 1 >= MaxAttempts THEN "FAILED" ELSE "COUNTERED"
    /\ UNCHANGED <<party, used, submit, accepted, late>>

ttl_passes ==
    /\ ~late
    /\ late' = TRUE
    /\ UNCHANGED <<party, status, attempts, used, submit, accepted>>

\* require_matched_capture: whether a fulfilment may go on.
require_matched_capture == ~expired /\ status = "MATCHED"

-----------------------------------------------------------------------------
\* A capture names both parties, one or none; two named parties are different.
FieldsInit ==
    /\ party \in [Role -> Agent \cup {NoAgent}]
    /\ party["buyer"] # NoAgent => party["buyer"] # party["seller"]
    /\ status = "CAPTURED"
    /\ attempts = 0
    /\ used = {}
    /\ submit = [r \in Role |-> NoSubmit]
    /\ accepted = 0
    /\ late = FALSE

FieldsNext ==
    \/ \E role \in Role, nonce \in Nonce :
           \/ \E by \in Agent \cup {NoAgent} : reject_nonce(role, by, nonce) \/ reject_attempts(role, by, nonce)
           \/ \E ct \in PartySubmit : submit_encrypted(role, ct, nonce)
    \/ finalize_triple_match
    \/ read_expired
    \/ ttl_passes

FieldsSpec == FieldsInit /\ [][FieldsNext]_fieldVars

-----------------------------------------------------------------------------
\* Statuses, submissions and counters are what the store can hold.
FieldsTypeOK ==
    /\ party \in [Role -> Agent \cup {NoAgent}]
    /\ [status |-> status] \in ProtocolCapture
    /\ \A r \in Role : submit[r] = NoSubmit \/ submit[r] \in PartySubmit
    /\ attempts \in 0..MaxCount /\ used \subseteq Nonce

\* finalize_triple_match: a sealed capture has two submissions that both say what the
\* protocol captured, each opened with its own role's key, from different agents where
\* both are named.
MatchedAgrees ==
    require_matched_capture =>
        \A r \in Role :
            /\ submit[r] # NoSubmit
            /\ canonicalize(submit[r].doc) = "captured"
            /\ submit[r].for \in {r, "any"}
            /\ submit[r].by # NoAgent => submit[r].by # submit[other(r)].by

\* A role that names its agent holds only submissions of that agent, whoever else
\* sends one.
BoundPartiesOnly ==
    \A r \in Role : submit[r] # NoSubmit /\ party[r] # NoAgent => submit[r].by = party[r]

\* The attempt budget: however submissions, replays and comparisons mix, no more than
\* the budget is ever accepted, and every accepted one had a nonce of its own.
BudgetHolds == accepted <= MaxAttempts /\ accepted <= Cardinality(used)

sealKept == status = "MATCHED" => UNCHANGED <<status, submit, attempts>>

\* A sealed capture is agreed by the parties it names within their budget, and it
\* never changes again, also when its time passes.
FieldsSealed ==
    /\ [](MatchedAgrees /\ BoundPartiesOnly /\ BudgetHolds)
    /\ [][sealKept]_fieldVars
=============================================================================
