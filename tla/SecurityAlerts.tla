--------------------------- MODULE SecurityAlerts ---------------------------
(***************************************************************************)
(* Security monitoring: the in-memory event deque, the windowed alert      *)
(* report with its thresholds, cooldown, baseline and escalation, the      *)
(* automatic brake the alert route applies, the control plane's freeze     *)
(* record, and the operator's own brakes.  Rates are integers over Scale,  *)
(* a common multiple of the possible request counts, so they are exact.    *)
(***************************************************************************)
EXTENDS Integers, Sequences, FiniteSets, SequencesExt, FiniteSetsExt

CONSTANTS Kinds,        \* the event kinds that arrive
          Paths,        \* request paths; GroupOf gives a path's route_group
          GroupOf,
          MaxEvents,    \* _MAX_EVENTS, the deque's maxlen
          MaxTime,      \* bound on the clock
          MaxSnapshots, \* _MAX_BASELINE_SNAPSHOTS
          Window, FundsWindow, BaselineWindow,
          Cooldown, CaptureInterval, FreezeDuration,
          Scale,
          FailedAuth, RateLimit, RuntimeErrors, RuntimeRate, RuntimeMin,
          Denied, DeniedRate, DeniedMin, Privileged, DriftTimes, MinSamples,
          Override,     \* scope -> threshold overrides of the count alerts
          BrakeFlags,   \* values of auto_brake_on_transition_critical in use
          Operator      \* does an operator use the admin controls?

AllKinds == {"failed_auth", "rate_limited", "verify", "runtime_error",
             "transition", "transition_denied", "arbitrator", "admin"}

Pauses == {"new_lock", "new_authorization", "new_task", "new_settlement"}

Global == <<"global", "global">>
Scopes == {Global} \union {<<"path", p>> : p \in Paths}
            \union {<<"route_group", GroupOf[p]>> : p \in Paths}
            \union {<<"actor", "admin">>}

AlertTypes == {"auth_failure_spike", "rate_limit_spike",
               "private_runtime_error_rate", "settlement_transition_denied_spike",
               "settlement_transition_denied_rate", "privileged_action_spike",
               "auth_failure_baseline_drift", "rate_limit_baseline_drift",
               "private_runtime_error_baseline_drift"}

VARIABLES
    events,      \* _EVENTS
    lastEmitted, \* _LAST_ALERT_EMITTED_AT: signature -> time
    snapshots,   \* _BASELINE_SNAPSHOTS
    paused,      \* the pauses of the runtime safety state
    freezeUntil, \* _FREEZE["global_until"]
    released,    \* history: an operator changed the brakes since the last one
    pages,       \* history: <<signature, severity, time>> of recent alerts
    report,      \* the last ops report: critical condition seen, and its level
    now

vars == <<events, lastEmitted, snapshots, paused, freezeUntil, released,
          pages, report, now>>
brakes == <<paused, freezeUntil, released>>

Times == 0 .. MaxTime
Never == -1
Signatures == AlertTypes \X Scopes

Event == [kind : AllKinds, path : Paths, at : Times]
Snapshot == [at : Times, failed : Nat, limited : Nat, rate : Nat]

TypeOK ==
    /\ events \in Seq(Event) /\ Len(events) <= MaxEvents
    /\ lastEmitted \in [Signatures -> Times \union {Never}]
    /\ snapshots \in Seq(Snapshot) /\ Len(snapshots) <= MaxSnapshots
    /\ paused \in SUBSET Pauses
    /\ freezeUntil \in Nat /\ released \in BOOLEAN
    /\ pages \subseteq Signatures \X {"medium", "high", "critical"} \X Times
    /\ report \in {"none", "watch", "page"} /\ now \in Times

Init ==
    /\ events = <<>> /\ snapshots = <<>>
    /\ lastEmitted = [s \in Signatures |-> Never]
    /\ paused = {} /\ freezeUntil = 0 /\ released = FALSE
    /\ pages = {} /\ report = "none" /\ now = 0

\* A deque with a maxlen drops its oldest element on append.
Appended(q, x, max) ==
    IF Len(q) < max THEN Append(q, x) ELSE Append(Tail(q), x)

record_security_event(kind, path) ==
    events' = Appended(events, [kind |-> kind, path |-> path, at |-> now], MaxEvents)

RecordEvent ==
    \E k \in Kinds, p \in Paths :
        /\ record_security_event(k, p)
        /\ UNCHANGED <<lastEmitted, snapshots, brakes, pages, report, now>>

Tick ==
    /\ now < MaxTime
    /\ now' = now + 1
    /\ UNCHANGED <<events, lastEmitted, snapshots, brakes, pages, report>>

-----------------------------------------------------------------------------
list_recent_events(window) == {i \in 1 .. Len(events) : events[i].at >= now - window}

InScope(e, scope) ==
    \/ scope = Global
    \/ scope = <<"path", e.path>>
    \/ scope = <<"route_group", GroupOf[e.path]>>
    \/ scope = <<"actor", "admin">> /\ e.kind \in {"arbitrator", "admin"}

\* _dimension_counter: the events of these kinds in one scope.
Count(kinds, scope, window) ==
    Cardinality({i \in list_recent_events(window) :
                    events[i].kind \in kinds /\ InScope(events[i], scope)})

scope_threshold(default, scope) ==
    IF scope \in DOMAIN Override THEN Override[scope] ELSE default

Rate(part, whole) == IF whole > 0 THEN (part * Scale) \div whole ELSE 0

Alert(type, severity, scope) == [type |-> type, severity |-> severity, scope |-> scope]

\* A count alert: over every scope, with a severity per kind of scope.  The
\* global threshold takes no override, and a scope with no event has no counter.
Spikes(kinds, type, threshold, severity, scopes, window) ==
    {Alert(type, severity[s[1]], s) : s \in {s \in scopes :
        LET n == Count(kinds, s, window)
            t == IF s = Global THEN threshold ELSE scope_threshold(threshold, s)
        IN  n >= t /\ (s # Global => n > 0)}}

PathScopes == {s \in Scopes : s[1] \in {"global", "path", "route_group"}}

AuthFailureAlerts(w) ==
    Spikes({"failed_auth"}, "auth_failure_spike", FailedAuth,
           [global |-> "high", path |-> "high", route_group |-> "medium"],
           PathScopes, w)

RateLimitAlerts(w) ==
    Spikes({"rate_limited"}, "rate_limit_spike", RateLimit,
           [global |-> "medium", path |-> "medium", route_group |-> "medium"],
           PathScopes, w)

\* Errors need a minimum of requests in the same scope; the rate decides
\* between HIGH and CRITICAL.
RuntimeErrorAlerts(w) ==
    {Alert("private_runtime_error_rate",
           IF Rate(Count({"runtime_error"}, s, w), Count({"verify"}, s, w))
                >= RuntimeRate
           THEN "critical" ELSE "high", s) :
        s \in {s \in PathScopes :
            /\ Count({"verify"}, s, w) >= RuntimeMin
            /\ Count({"runtime_error"}, s, w) >=
                  IF s = Global THEN RuntimeErrors
                  ELSE scope_threshold(RuntimeErrors, s)}}

Transitions == {"transition", "transition_denied"}

DeniedRateCritical(w) ==
    /\ Count(Transitions, Global, w) >= DeniedMin
    /\ Rate(Count({"transition_denied"}, Global, w), Count(Transitions, Global, w))
         >= DeniedRate

TransitionAlerts(w) ==
    Spikes({"transition_denied"}, "settlement_transition_denied_spike", Denied,
           [global |-> "high", path |-> "medium"],
           {s \in PathScopes : s[1] # "route_group"}, w)
    \union (IF DeniedRateCritical(w)
            THEN {Alert("settlement_transition_denied_rate", "critical", Global)}
            ELSE {})

PrivilegedAlerts(w) ==
    Spikes({"arbitrator", "admin"}, "privileged_action_spike", Privileged,
           [global |-> "high", actor |-> "medium"],
           {Global, <<"actor", "admin">>}, w)

-----------------------------------------------------------------------------
Baseline == {i \in 1 .. Len(snapshots) : snapshots[i].at >= now - BaselineWindow}

\* current >= average * multiplier, with the average's division cleared.
Drifted(current, field) ==
    LET total == MapThenSumSet(LAMBDA i : snapshots[i][field], Baseline)
    IN  /\ Cardinality(Baseline) >= MinSamples
        /\ total > 0
        /\ current * Cardinality(Baseline) >= total * DriftTimes

ErrorRate(w) == Rate(Count({"runtime_error"}, Global, w), Count({"verify"}, Global, w))

BaselineAlerts(w) ==
    LET drift(type, severity, cond) ==
            IF cond THEN {Alert(type, severity, Global)} ELSE {}
    IN  drift("auth_failure_baseline_drift", "high",
              Drifted(Count({"failed_auth"}, Global, w), "failed"))
        \union drift("rate_limit_baseline_drift", "medium",
              Drifted(Count({"rate_limited"}, Global, w), "limited"))
        \union drift("private_runtime_error_baseline_drift", "high",
              /\ Count({"verify"}, Global, w) >= RuntimeMin
              /\ Drifted(ErrorRate(w), "rate"))

\* _maybe_capture_baseline_snapshot, at the end of every report that is not
\* a dry run, whatever its window.
CaptureDue ==
    \/ CaptureInterval = 0 \/ snapshots = <<>>
    \/ now - Last(snapshots).at >= CaptureInterval

maybe_capture_baseline_snapshot(w) ==
    snapshots' = IF CaptureDue
                 THEN Appended(snapshots,
                        [at |-> now, rate |-> ErrorRate(w),
                         failed |-> Count({"failed_auth"}, Global, w),
                         limited |-> Count({"rate_limited"}, Global, w)], MaxSnapshots)
                 ELSE snapshots

CandidateAlerts(w) ==
    AuthFailureAlerts(w) \union RateLimitAlerts(w) \union RuntimeErrorAlerts(w)
    \union TransitionAlerts(w) \union PrivilegedAlerts(w) \union BaselineAlerts(w)


Signature(a) == <<a.type, a.scope>>

should_emit_alert_now(sig) ==
    lastEmitted[sig] = Never \/ now - lastEmitted[sig] >= Cooldown

Emitted(w) == {a \in CandidateAlerts(w) : should_emit_alert_now(Signature(a))}

EscalationLevel(active, candidates) ==
    IF \E a \in active : a.severity = "critical" THEN "page"
    ELSE IF candidates # {} THEN "watch" ELSE "none"

-----------------------------------------------------------------------------
\* set_runtime_safety_mode: one switch for the four pauses.
SafetyMode(enabled) == IF enabled THEN Pauses ELSE {}

\* What the alert route does when the report carries the critical alert:
\* the brake, a freeze record and the event that records it.
Brake ==
    /\ paused' = SafetyMode(TRUE)
    /\ freezeUntil' = now + FreezeDuration
    /\ record_security_event("admin", CHOOSE p \in Paths : TRUE)
    /\ released' = FALSE

ShouldBrake(active) ==
    \E a \in active : a.type = "settlement_transition_denied_rate"
                      /\ a.severity = "critical"

get_security_ops_alerts(brake) ==
    \E active \in {Emitted(Window)} :
    /\ lastEmitted' = [s \in {Signature(a) : a \in active} |-> now] @@ lastEmitted
    /\ pages' = {x \in pages : now - x[3] < Cooldown}
                 \union {<<<<a.type, a.scope>>, a.severity, now>> : a \in active}
    /\ report' = EscalationLevel(active, CandidateAlerts(Window))
    /\ maybe_capture_baseline_snapshot(Window)
    /\ \/ ~(brake /\ ShouldBrake(active)) /\ UNCHANGED <<brakes, events>>
       \/ brake /\ ShouldBrake(active) /\ Brake
    /\ UNCHANGED now

OpsPoll == \E brake \in BrakeFlags : get_security_ops_alerts(brake)

\* The dashboard's report has no cooldown and emits nothing, but it captures
\* a baseline snapshot of its own, longer window.
funds_overview ==
    /\ maybe_capture_baseline_snapshot(FundsWindow)
    /\ UNCHANGED <<events, lastEmitted, brakes, pages, report, now>>

-----------------------------------------------------------------------------
AdminEvent == record_security_event("admin", CHOOSE p \in Paths : TRUE)

\* POST /v1/admin/controls/safety-mode, and the same switch without an event
\* under /v1/security/runtime.
update_admin_safety_mode ==
    /\ Operator
    /\ \E enabled \in BOOLEAN : paused' = SafetyMode(enabled)
    /\ released' = TRUE
    /\ AdminEvent
    /\ UNCHANGED <<lastEmitted, snapshots, freezeUntil, pages, report, now>>

update_runtime_safety_mode ==
    /\ Operator
    /\ \E enabled \in BOOLEAN : paused' = SafetyMode(enabled)
    /\ released' = TRUE
    /\ UNCHANGED <<events, lastEmitted, snapshots, freezeUntil, pages, report, now>>

\* The four switches are set to the body's values, so a partial pause lifts
\* the rest of an earlier brake.
update_admin_operational_pauses ==
    /\ Operator
    /\ \E P \in {{"new_lock"}, {"new_settlement"}, Pauses} : paused' = P
    /\ released' = TRUE
    /\ AdminEvent
    /\ UNCHANGED <<lastEmitted, snapshots, freezeUntil, pages, report, now>>

\* classify_and_maybe_freeze of a critical incident; only the global scope
\* moves the end of the freeze.
admin_emergency_freeze ==
    /\ Operator
    /\ \E d \in 1 .. FreezeDuration, global \in BOOLEAN :
         freezeUntil' = IF global THEN now + d ELSE freezeUntil
    /\ AdminEvent
    /\ UNCHANGED <<lastEmitted, snapshots, paused, released, pages, report, now>>

\* The anchor audit trips the brake when the capacity sums break the anchor.
audit_capacity_anchor_and_maybe_trip ==
    /\ paused' = SafetyMode(TRUE)
    /\ UNCHANGED <<events, lastEmitted, snapshots, freezeUntil, released, pages, report, now>>

Next ==
    \/ RecordEvent \/ Tick \/ OpsPoll \/ funds_overview
    \/ update_admin_safety_mode \/ update_runtime_safety_mode
    \/ update_admin_operational_pauses \/ admin_emergency_freeze
    \/ audit_capacity_anchor_and_maybe_trip

Spec == Init /\ [][Next]_vars

-----------------------------------------------------------------------------
\* Nobody is alerted twice for one thing: two emissions of an alert type for
\* the same scope are at least a cooldown apart.
EmissionsSpaced ==
    \A x, y \in pages : x[1] = y[1] => x[3] = y[3]

\* The cooldown never costs a brake: after a poll that sees a critical rate
\* of denied settlement transitions, everything is paused, or an operator
\* changed the brakes since the last automatic one.
CriticalPollBrakes ==
    DeniedRateCritical(Window) /\ OpsPoll => paused' = Pauses \/ released'
=============================================================================
