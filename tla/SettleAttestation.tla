------------------------- MODULE SettleAttestation -------------------------
(***************************************************************************)
(* The P8 settlement attestations: the scene policies that say who may     *)
(* confirm a settlement, the gate checklist and the auto-verify decision,  *)
(* and the JSON store the sealed attestations live in.  Every process of   *)
(* the service keeps the store in memory and rewrites the whole file on    *)
(* each seal.  The auto-confirm route is refused before it gets this far,  *)
(* as no stored settlement has a confirm window.                           *)
(***************************************************************************)
EXTENDS Naturals, FiniteSets

CONSTANTS Procs,        \* processes of the service
          Tasks,
          Scenes,       \* scenes of the catalogue in play
          MaxSeals     \* bound on the attestations sealed

SealsAssumption == MaxSeals \in Nat

\* scene_settle_policy over settlement-reputation.v1.json, by kind of scene.
scene_settle_policy(s) ==
    CASE s = "food"    -> [mode |-> "instant", owner |-> FALSE, auto |-> TRUE,
                           p7 |-> TRUE, profile |-> "daily"]
      [] s = "hotel"   -> [mode |-> "checkout", owner |-> TRUE, auto |-> FALSE,
                           p7 |-> TRUE, profile |-> "daily"]
      [] s = "api"     -> [mode |-> "metered", owner |-> FALSE, auto |-> TRUE,
                           p7 |-> FALSE, profile |-> "digital"]
      [] s = "finance" -> [mode |-> "delayed_explicit", owner |-> TRUE,
                           auto |-> FALSE, p7 |-> TRUE, profile |-> "high_risk"]
      [] OTHER         -> [mode |-> "milestone", owner |-> TRUE, auto |-> FALSE,
                           p7 |-> TRUE, profile |-> "professional"]

explicit_buyer(pol) == pol.profile = "high_risk"

Ids == 1 .. MaxSeals

\* One file or one process's dictionaries: attestations and the task index.
Store == [att : SUBSET Ids, ref : [Tasks -> Ids \union {0}]]
Empty == [att |-> {}, ref |-> [t \in Tasks |-> 0]]

VARIABLES scene,     \* the scene of each task
          session,   \* its delivery verification: none, open or VERIFIED
          task,      \* delivered, owner_confirmed
          disk,      \* the file
          mem, loaded,
          nextId,
          sealed     \* history: attestations whose seal was answered, by task

vars == <<scene, session, task, disk, mem, loaded, nextId, sealed>>
storeVars == <<disk, mem, loaded, nextId, sealed>>

TypeOK ==
    /\ scene \in [Tasks -> Scenes]
    /\ session \in [Tasks -> {"none", "open", "VERIFIED"}]
    /\ task \in [Tasks -> {"delivered", "owner_confirmed"}]
    /\ disk \in Store
    /\ mem \in [Procs -> Store] /\ loaded \in [Procs -> BOOLEAN]
    /\ nextId \in 1 .. (MaxSeals + 1)
    /\ sealed \in [Tasks -> SUBSET Ids]

Init ==
    /\ scene \in [Tasks -> Scenes]
    /\ session = [t \in Tasks |-> "none"]
    /\ task = [t \in Tasks |-> "delivered"]
    /\ disk = Empty
    /\ mem = [p \in Procs |-> Empty] /\ loaded = [p \in Procs |-> FALSE]
    /\ nextId = 1
    /\ sealed = [t \in Tasks |-> {}]

-----------------------------------------------------------------------------
\* require_verified_for_settle inside the gate, which asks for a session.
verified(t) == session[t] = "VERIFIED"

\* The P7 part of assert_settle_gates: digital scenes may settle without a
\* session, metered ones in any case.
p7_ok(t, pol) ==
    \/ ~pol.p7
    \/ verified(t)
    \/ pol.mode = "metered" /\ pol.profile = "digital"
    \/ session[t] = "none" /\ pol.profile = "digital"

\* assert_settle_gates of a task with a success receipt.
assert_settle_gates(t, confirmed, agent_auto) ==
    LET pol == scene_settle_policy(scene[t]) IN
    /\ p7_ok(t, pol)
    /\ pol.owner => confirmed \/ (agent_auto /\ pol.auto)
    /\ agent_auto => /\ pol.auto
                     /\ pol.mode # "delayed_explicit"
                     /\ ~explicit_buyer(pol)

agent_auto_verify_decision(t, delivery_verified) ==
    LET pol == scene_settle_policy(scene[t]) IN
    /\ pol.auto
    /\ pol.mode # "delayed_explicit"
    /\ ~explicit_buyer(pol)
    /\ pol.p7 => \/ delivery_verified \/ verified(t) \/ pol.profile = "digital"

\* Delivery verification proceeds on its own.
SessionAdvances(t) ==
    /\ \/ session[t] = "none" /\ session' = [session EXCEPT ![t] = "open"]
       \/ session[t] = "open" /\ session' = [session EXCEPT ![t] = "VERIFIED"]
    /\ UNCHANGED <<scene, task>> /\ UNCHANGED storeVars

-----------------------------------------------------------------------------
\* _ensure_loaded: read the file once; an unreadable one is taken as empty.
ensure_loaded(p) == IF loaded[p] THEN mem[p] ELSE disk

\* seal_settlement_attestation on process p: its memory with the new record
\* and the task index moved to it, written out whole.
seal_settlement_attestation(p, t) ==
    LET m == ensure_loaded(p)
        new == [att |-> m.att \union {nextId}, ref |-> [m.ref EXCEPT ![t] = nextId]]
    IN  /\ nextId \in Ids
        /\ mem' = [mem EXCEPT ![p] = new]
        /\ loaded' = [loaded EXCEPT ![p] = TRUE]
        /\ disk' = new
        /\ nextId' = nextId + 1
        /\ sealed' = [sealed EXCEPT ![t] = @ \union {nextId}]

\* POST /attestations/seal.
seal_attestation(p, t) ==
    /\ seal_settlement_attestation(p, t)
    /\ UNCHANGED <<scene, session, task>>

\* buyer-accept: the owner confirms and the outcome is sealed.
BuyerAccept(p, t) ==
    /\ task[t] = "delivered"
    /\ p7_ok(t, scene_settle_policy(scene[t]))
    /\ task' = [task EXCEPT ![t] = "owner_confirmed"]
    /\ seal_settlement_attestation(p, t)
    /\ UNCHANGED <<scene, session>>

\* A process restarts: its dictionaries are gone.
Restart(p) ==
    /\ loaded[p]
    /\ loaded' = [loaded EXCEPT ![p] = FALSE]
    /\ mem' = [mem EXCEPT ![p] = Empty]
    /\ UNCHANGED <<scene, session, task, disk, nextId, sealed>>

Next ==
    \/ \E t \in Tasks : SessionAdvances(t)
    \/ \E p \in Procs, t \in Tasks : seal_attestation(p, t)
    \/ \E p \in Procs, t \in Tasks : BuyerAccept(p, t)
    \/ \E p \in Procs : Restart(p)

Spec == Init /\ [][Next]_vars

\* get_attestation_for_task and verify_outcome_commitment as process p
\* answers them: 0 and FALSE are the 404 answers.
get_attestation_for_task(p, t) ==
    LET m == ensure_loaded(p) IN IF m.ref[t] \in m.att THEN m.ref[t] ELSE 0

verify_outcome_commitment(p, i) == i \in ensure_loaded(p).att

-----------------------------------------------------------------------------
\* Anyone can verify the commitment of a settlement whose seal was answered,
\* whichever process is asked and whatever was restarted since.
SealedVerifiable ==
    \A p \in Procs, t \in Tasks : \A i \in sealed[t] : verify_outcome_commitment(p, i)

\* The attestation found for a task is the last one sealed for that task.
TaskIndexIsLatest ==
    \A p \in Procs, t \in Tasks :
        sealed[t] # {} =>
            \A i \in sealed[t] : i <= get_attestation_for_task(p, t)

\* Where the decision lets the agent confirm, the gate checklist agrees, for
\* the same task at the same moment.
DecisionMeetsGate ==
    \A t \in Tasks :
        agent_auto_verify_decision(t, FALSE) => assert_settle_gates(t, FALSE, TRUE)
=============================================================================
