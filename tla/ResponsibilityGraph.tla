------------------------- MODULE ResponsibilityGraph -------------------------
(***************************************************************************)
(* The responsibility graph of services/responsibility_graph.py: edges are *)
(* ingested, each one with the risk signals it gives rise to; scans read   *)
(* scores and path features; a task's edges are checked for their order.   *)
(* An ingestion reads the graph when it looks for signals and commits      *)
(* later; a scan reads when it starts and stores when it ended.            *)
(***************************************************************************)
EXTENDS Integers, FiniteSetsExt, SequencesExt

CONSTANTS
    Identity,
    EdgeType,      \* of the three edge types
    Tag,           \* what tells two edges of one kind apart: voucher, metadata
    max_hops,      \* of a scan
    min_score_threshold, \* of a scan, in tenths of a point
    burst_seconds,
    MaxClock,      \* bound: events
    MaxScans,      \* bound: scans
    InFlight       \* bound: transactions open at once

EdgeTypeAssumption ==
    EdgeType \subseteq {"voucher_accept", "task_delegation", "manual_link"}

VARIABLES
    edges,    \* committed ResponsibilityEdgeModel rows
    signals,  \* committed ResponsibilitySignalModel rows
    tx,       \* ingestions that have not committed
    scan,     \* the scan that is being executed
    scans,    \* finished scans, each the base of the next
    clock

vars == <<edges, signals, tx, scan, scans, clock>>

NoScan == [on |-> FALSE]

Init ==
    /\ edges = {} /\ signals = {} /\ tx = {}
    /\ scan = NoScan /\ scans = <<>> /\ clock = 0

\* build_edge_hash: everything but the time.
build_edge_hash(e) == <<e.source, e.target, e.type, e.tag>>

tick == clock < MaxClock /\ clock' = clock + 1

quiet == Cardinality(tx) + (IF scan.on THEN 1 ELSE 0) < InFlight

-----------------------------------------------------------------------------
(* Signals                                                                 *)

successors(E, nodes) == {e.target : e \in {f \in E : f.source \in nodes}}


\* Breadth first from start, at most six edges.
find_cycle_path_hashes(E, start, target) ==
    LET level[n \in 0..6] == IF n = 0 THEN {start} ELSE successors(E, level[n - 1])
    IN start # target /\ \E n \in 1..6 : target \in level[n]

\* Mutant: the signal goes to the identity the edge points to.
SignalOfTarget(type, severity, e) ==
    [type |-> type, severity |-> severity, identity |-> e.target, edge |-> build_edge_hash(e),
     fresh |-> TRUE]

Signal(type, severity, e) ==
    [type |-> type, severity |-> severity, identity |-> e.source, edge |-> build_edge_hash(e),
     fresh |-> TRUE]

detect_signals(E, e) ==
    (IF e.source = e.target THEN {Signal("direct_loop", "high", e)} ELSE {})
    \cup (IF \E r \in E : /\ r.source = e.target /\ r.target = e.source
                          /\ build_edge_hash(r) # build_edge_hash(e)
          THEN {Signal("mutual_exchange", "medium", e)} ELSE {})
    \cup (IF find_cycle_path_hashes(E, e.target, e.source)
          THEN {Signal("cycle_authorization", "high", e)} ELSE {})

-----------------------------------------------------------------------------
(* Scores and path features                                                *)

SIGNAL_TYPE_WEIGHTS == [direct_loop |-> 6, mutual_exchange |-> 4, cycle_authorization |-> 7]

SEVERITY_WEIGHTS == [info |-> 2, medium |-> 5, high |-> 8]

\* In tenths of a point (both weights are doubled above); an old signal
\* counts by RECENCY_FLOOR.
get_identity_score(sigs, id) ==
    LET points(s) == (SIGNAL_TYPE_WEIGHTS[s.type] * SEVERITY_WEIGHTS[s.severity]
                      * (IF s.fresh THEN 10 ELSE 2)) \div 4
        weighted_points == MapThenSumSet(points, {s \in sigs : s.identity = id})
    IN IF weighted_points > 1000 THEN 1000 ELSE weighted_points

by_created_at(E) == SetToSortSeq(E, LAMBDA a, b : a.at < b.at)

\* One edge out of the node at the head of the queue.
traverse(id, item, st, e) ==
    IF e.target = id \/ e.target \in item.path
    THEN [st EXCEPT !.cycles = @ + 1]
    ELSE IF e.target \notin DOMAIN st.depth \/ item.hops + 1 < st.depth[e.target]
    THEN [st EXCEPT !.depth = [n \in DOMAIN st.depth \cup {e.target} |->
                                  IF n = e.target THEN item.hops + 1 ELSE st.depth[n]],
                    !.queue = Append(@, [node |-> e.target, hops |-> item.hops + 1,
                                         path |-> item.path \cup {e.target}])]
    ELSE st

RECURSIVE breadth_first(_, _, _)
breadth_first(E, id, st) ==
    IF st.queue = <<>> THEN st
    ELSE LET item == Head(st.queue)
             rest == [st EXCEPT !.queue = Tail(@)]
             out  == by_created_at({e \in E : e.source = item.node})
         IN breadth_first(E, id, IF item.hops >= max_hops THEN rest
                                 ELSE FoldLeft(LAMBDA s, e : traverse(id, item, s, e), rest, out))

get_identity_path_features(E, id) ==
    breadth_first(E, id,
        [queue |-> <<[node |-> id, hops |-> 0, path |-> {id}]>>,
         depth |-> [n \in {id} |-> 0], cycles |-> 0])

-----------------------------------------------------------------------------
(* Ingesting and scanning                                                  *)

NewEdge ==
    {[source |-> s, target |-> t, type |-> y, tag |-> g, at |-> clock] :
        s \in Identity, t \in Identity, y \in EdgeType, g \in Tag}

known(e) == \E f \in edges : build_edge_hash(f) = build_edge_hash(e)

\* The row is flushed, so the search sees it, but nobody else does.
ingest_edge(e) ==
    /\ quiet /\ tick
    /\ ~known(e)
    /\ tx' = tx \cup {[edge |-> e, found |-> detect_signals(edges \cup {e}, e)]}
    /\ UNCHANGED <<edges, signals, scan, scans>>

\* edge_hash is unique: the second of two equal ingestions fails.
ingest_commit(t) ==
    /\ tx' = tx \ {t}
    /\ IF known(t.edge) THEN UNCHANGED <<edges, signals>>
       ELSE edges' = edges \cup {t.edge} /\ signals' = signals \cup t.found
    /\ UNCHANGED <<scan, scans, clock>>

signals_age ==
    /\ signals' = {[s EXCEPT !.fresh = FALSE] : s \in signals}
    /\ signals' # signals
    /\ UNCHANGED <<edges, tx, scan, scans, clock>>

resolve_incremental_since == IF scans = <<>> THEN 0 ELSE Last(scans).completed_at

resolve_scan_identities ==
    LET since == resolve_incremental_since
        new   == {e \in edges : e.at >= since}
    IN {e.source : e \in new} \cup {e.target : e \in new}

should_flag(id) ==
    \/ get_identity_score(signals, id) >= min_score_threshold
    \/ get_identity_path_features(edges, id).cycles > 0

scan_begin ==
    /\ quiet
    /\ Len(scans) < MaxScans
    /\ scan' = [on |-> TRUE, seen |-> edges, identities |-> resolve_scan_identities,
                flagged |-> {id \in resolve_scan_identities : should_flag(id)}]
    /\ UNCHANGED <<edges, signals, tx, scans, clock>>

scan_commit ==
    /\ scan.on /\ tick
    /\ scans' = Append(scans, [identities |-> scan.identities, flagged |-> scan.flagged,
                               seen |-> scan.seen, completed_at |-> clock])
    /\ scan' = NoScan
    /\ UNCHANGED <<edges, signals, tx>>

Next ==
    \/ \E e \in NewEdge : ingest_edge(e)
    \/ \E t \in tx : ingest_commit(t)
    \/ signals_age
    \/ scan_begin
    \/ scan_commit

Spec == Init /\ [][Next]_vars

-----------------------------------------------------------------------------
(* The order of a task's edges                                             *)

EDGE_STAGE_ORDER == [voucher_accept |-> 1, task_delegation |-> 2, manual_link |-> 3]

stage(e) == EDGE_STAGE_ORDER[e.type]

out_of_order(E) ==
    FoldLeft(LAMBDA st, e : [last_stage |-> Max({st.last_stage, stage(e)}),
                             hashes |-> st.hashes \cup (IF stage(e) < st.last_stage THEN {e} ELSE {})],
             [last_stage |-> 0, hashes |-> {}], by_created_at(E)).hashes

\* Three edges in a row of one direction and type within the window.
burst(E) ==
    \E e \in E : LET group == by_created_at({f \in E : f.source = e.source /\ f.target = e.target
                                                       /\ f.type = e.type})
                 IN \E i \in 1..(Len(group) - 2) : group[i + 2].at - group[i].at <= burst_seconds

missing_anchor(E) == E # {} /\ \A e \in E : e.type # "voucher_accept"

is_consistent(E) == ~missing_anchor(E) /\ out_of_order(E) = {} /\ ~burst(E)

-----------------------------------------------------------------------------
TypeOK ==
    /\ \A e \in edges : e.source \in Identity /\ e.target \in Identity /\ e.at \in 0..MaxClock
    /\ \A s \in signals : \E e \in edges : build_edge_hash(e) = s.edge /\ s.identity = e.source
    /\ clock \in 0..MaxClock

\* Every closed path of distinct identities has a cycle signal on one of its
\* edges, whatever the order the edges came in.
CyclesAreSignalled ==
    \A c \in UNION {[1..n -> Identity] : n \in 2..Cardinality(Identity)} :
        LET on_path(s, t) == \E i \in DOMAIN c : c[i] = s /\ c[(i % Len(c)) + 1] = t
        IN /\ \A i, j \in DOMAIN c : i # j => c[i] # c[j]
           /\ \A i \in DOMAIN c : \E e \in edges : e.source = c[i] /\ e.target = c[(i % Len(c)) + 1]
           => \E s \in signals : s.type = "cycle_authorization" /\ on_path(s.edge[1], s.edge[2])

\* A finished scan has flagged every identity that it scanned and that lies on
\* a closed path of at most max_hops edges.
ScanFlagsCycles ==
    \A i \in DOMAIN scans : \A id \in scans[i].identities :
        (\E n \in 1..max_hops : \E p \in [0..n -> Identity] :
            /\ p[0] = id /\ p[n] = id
            /\ \A k \in 1..n : \E e \in scans[i].seen : e.source = p[k - 1] /\ e.target = p[k])
        => id \in scans[i].flagged

\* A chain of incremental scans leaves out nobody: who had an edge when the
\* last scan started was scanned by it or by one before it.
EveryoneScanned ==
    scans # <<>> =>
        \A e \in Last(scans).seen : \A id \in {e.source, e.target} :
            \E i \in DOMAIN scans : id \in scans[i].identities /\ e \in scans[i].seen
                /\ (i > 1 => e.at >= scans[i - 1].completed_at)

\* An edge is reported as out of order exactly when an edge of a later stage
\* came before it, so that a consistent task starts with its anchor.
OrderReportIsExact ==
    /\ out_of_order(edges) = {e \in edges : \E f \in edges : f.at < e.at /\ stage(f) > stage(e)}
    /\ is_consistent(edges) /\ edges # {} => by_created_at(edges)[1].type = "voucher_accept"
=============================================================================
