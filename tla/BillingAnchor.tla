---------------------------- MODULE BillingAnchor ----------------------------
(***************************************************************************)
(* Receipts of one task on their way to the chain: ReceiptSyncService fans *)
(* a receipt out to the database, the subscribers and the Merkle           *)
(* accumulator; AnchoringBridge decides when unanchored receipts are       *)
(* appended to the tree on Solana. Between reading what is unanchored and  *)
(* marking it anchored the bridge awaits the chain.                        *)
(***************************************************************************)
EXTENDS Integers, Sequences, FiniteSets, SequencesExt

CONSTANTS
    Receipt,
    Checker,                  \* callers of check_and_anchor
    anchor_every_n_receipts, max_batch_size,
    AnchorOnTime,             \* anchor_every_n_seconds is not 0
    anchoring_threshold,      \* of the sync service
    Retries,                  \* whether a sync whose route 1 failed is repeated
    MaxSyncs                  \* bound: syncs, retries included

VARIABLES
    stored, leaves, synced,   \* route 1, route 3, and how often sync ran
    triggered,                \* anchorings the sync service asked for
    receipts,                 \* the receipts the bridge knows, in order
    task_state,               \* billing state: "open" or one of force_anchor_states
    last_state, last_anchor,  \* _AnchoringState
    anchored,                 \* _anchored
    tree,                     \* what append_batch put on the chain
    batch                     \* what a checker is anchoring

syncVars == <<stored, leaves, synced, triggered>>
bridgeVars == <<receipts, task_state, last_state, last_anchor, anchored, tree, batch>>
vars == <<syncVars, bridgeVars>>

Init ==
    /\ stored = {} /\ leaves = <<>> /\ synced = 0 /\ triggered = 0
    /\ receipts = <<>> /\ task_state = "open" /\ last_state = "" /\ last_anchor = "never"
    /\ anchored = {} /\ tree = <<>> /\ batch = [c \in Checker |-> <<>>]

-----------------------------------------------------------------------------
(* Sync                                                                    *)

asks(n) == n % anchoring_threshold = 0

\* One route failing does not stop the others. A caller that sees the
\* failure may sync the receipt again.
sync(r, pg) ==
    /\ synced < MaxSyncs
    /\ r \notin (IF Retries THEN stored ELSE ToSet(leaves))
    /\ stored' = IF pg THEN stored \cup {r} ELSE stored
    /\ leaves' = Append(leaves, r)
    /\ synced' = synced + 1
    /\ triggered' = IF asks(synced + 1) THEN triggered + 1 ELSE triggered
    /\ receipts' = IF pg THEN Append(receipts, r) ELSE receipts
    /\ UNCHANGED <<task_state, last_state, last_anchor, anchored, tree, batch>>

-----------------------------------------------------------------------------
(* The bridge                                                              *)

set_state(s) ==
    /\ s # task_state
    /\ task_state' = s
    /\ UNCHANGED <<syncVars, receipts, last_state, last_anchor, anchored, tree, batch>>

force_anchor_states == {"settled"}

get_unanchored_receipts ==
    LET un == SelectSeq(receipts, LAMBDA r : r \notin anchored)
    IN SubSeq(un, 1, IF Len(un) < max_batch_size THEN Len(un) ELSE max_batch_size)

state_changed == task_state # last_state

forced == state_changed /\ task_state \in force_anchor_states

by_policy(n) ==
    \/ n >= anchor_every_n_receipts
    \/ AnchorOnTime /\ last_anchor = "long_ago" /\ n >= 1
    \/ state_changed

\* A forced anchoring returns before last_state is written, so the change is
\* seen again by the next check.
note_state == IF forced THEN last_state ELSE task_state

check_and_anchor(c) ==
    LET un == get_unanchored_receipts IN
    /\ batch[c] = <<>>
    /\ last_state' = note_state
    /\ batch' = [batch EXCEPT ![c] = IF forced \/ by_policy(Len(un)) THEN un ELSE <<>>]
    /\ UNCHANGED <<syncVars, receipts, task_state, last_anchor, anchored, tree>>

\* append_batch succeeded and the receipts are marked.
do_anchor(c) ==
    /\ batch[c] # <<>>
    /\ tree' = tree \o batch[c]
    /\ anchored' = anchored \cup ToSet(batch[c])
    /\ last_anchor' = "now"
    /\ batch' = [batch EXCEPT ![c] = <<>>]
    /\ UNCHANGED <<syncVars, receipts, task_state, last_state>>

\* append_batch raised; start_periodic_check logs it and goes on.
anchor_failed(c) ==
    /\ batch[c] # <<>>
    /\ batch' = [batch EXCEPT ![c] = <<>>]
    /\ UNCHANGED <<syncVars, receipts, task_state, last_state, last_anchor, anchored, tree>>

time_passes ==
    /\ last_anchor = "now"
    /\ last_anchor' = "long_ago"
    /\ UNCHANGED <<syncVars, receipts, task_state, last_state, anchored, tree, batch>>

Next ==
    \/ \E r \in Receipt, pg \in BOOLEAN : sync(r, pg)
    \/ \E s \in {"open", "settled"} : set_state(s)
    \/ \E c \in Checker : check_and_anchor(c) \/ do_anchor(c) \/ anchor_failed(c)
    \/ time_passes

Spec == Init /\ [][Next]_vars

\* start_periodic_check loops for ever; the chain accepts a batch in the end.
Fairness == \A c \in Checker : WF_vars(check_and_anchor(c)) /\ SF_vars(do_anchor(c))

FairSpec == Spec /\ Fairness

-----------------------------------------------------------------------------
(* The Merkle root of a sequence of leaves                                 *)

RECURSIVE root_of(_)
root_of(level) ==
    IF Len(level) = 1 THEN level[1]
    ELSE root_of([i \in 1..((Len(level) + 1) \div 2) |->
                    <<level[2 * i - 1],
                      IF 2 * i <= Len(level) THEN level[2 * i] ELSE level[2 * i - 1]>>])

compute_root(ls) == IF ls = <<>> THEN <<>> ELSE root_of(ls)

-----------------------------------------------------------------------------
TypeOK ==
    /\ stored \subseteq Receipt
    /\ anchored \subseteq ToSet(receipts)
    /\ ToSet(receipts) = stored

\* A receipt is on the chain at most once.
AnchoredOnce == \A i, j \in DOMAIN tree : tree[i] = tree[j] => i = j

\* Appending a receipt to the accumulator changes its root, as long as no
\* receipt is appended twice: a root stands for one sequence of receipts.
RootTellsLeaves ==
    leaves' # leaves => compute_root(leaves') # compute_root(leaves)

\* Everything known when a task is settled for good is anchored.
SettledIsAnchored ==
    <>[](task_state = "settled") => <>[](ToSet(receipts) = anchored)
=============================================================================
