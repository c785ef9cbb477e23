--------------------------- MODULE SettlementProofs ---------------------------
(***************************************************************************)
(* Machine-checked proofs about the settlement routes and the arbitration  *)
(* pool, for any identities, tasks, vouchers, profiles, intents, amounts   *)
(* and arbitrators that meet SettlementAssumption.                         *)
(***************************************************************************)
EXTENDS Arbitration, SumTheorems, TLAPS

\* A settlement is paid out when its escrow has been divided.
Paid == {"settled", "refunded"}
paid(t) == st[t].status \in Paid

\* An unused row is empty; a used one has a client, and its split is the escrow
\* once it is paid and nothing before.
RowsOK ==
    \A t \in Task :
        /\ st[t].status = "none" => st[t] = NoSettlement
        /\ st[t].status # "none" => st[t].client \in Identity
        /\ paid(t) => st[t].released + st[t].refunded = st[t].escrow
        /\ ~paid(t) => st[t].released = 0

\* The check made on every changed row holds of all rows.
CapacityOK == \A i \in Identity : capacityInvariants(cap[i])

VouchersOK ==
    /\ \A v \in Voucher : voucher[v].status # "none" => voucher[v].buyer \in Identity
    /\ \A t \in Task : st[t].voucher # None => voucher[st[t].voucher].status \in {"accepted", "used"}
    /\ PaidVoucherIsUsed

IntentsOK ==
    \A n \in Intent : intent[n].status = "settled" =>
        intent[n].task \in Task /\ st[intent[n].task].status = "settled"

\* The inductive invariant.
SInv == TypeOK /\ RowsOK /\ CapacityOK /\ VouchersOK /\ IntentsOK /\ BurnedIsPaid

-----------------------------------------------------------------------------
\* The life cycle and the split.

\* The canonical statuses are their own canonical names.
LEMMA CanonicalNames == \A s \in TaskStatus : canonical_task_status(s) = s
  BY DEF TaskStatus, canonical_task_status, LegacyToCanonical

\* A finished settlement can only be frozen, which no route does.
LEMMA NoWayBack ==
    ASSUME NEW from \in TaskStatus, NEW to \in TaskStatus \ {"frozen"}, can_transition(from, to)
    PROVE  from \notin TerminalStatus
  <1>1. to \in ValidTransitions[from]
    BY CanonicalNames DEF can_transition
  <1> QED BY <1>1 DEF ValidTransitions, TerminalStatus, TaskStatus

\* A share in per cent of an escrow is at most the escrow.
LEMMA ShareBound ==
    ASSUME NEW e \in Nat, NEW pct \in 0..100
    PROVE  share(e, pct) \in 0..e
  <1>1. e * pct \in Nat /\ e * pct <= e * 100
    OBVIOUS
  <1> QED BY <1>1 DEF share

\* The smaller of two numbers.
LEMMA MinOfTwo ==
    ASSUME NEW x \in Nat, NEW y \in Nat
    PROVE  Min({x, y}) \in Nat /\ Min({x, y}) <= x /\ Min({x, y}) <= y
  <1>1. \E z \in {x, y} : \A w \in {x, y} : z <= w
    OBVIOUS
  <1> QED BY <1>1 DEF Min

-----------------------------------------------------------------------------
\* What a step does to the rows, and what that keeps.

\* No row changes its parties, its voucher or its split, and none is paid out.
rowsKept ==
    \A u \in Task : /\ st'[u].client = st[u].client /\ st'[u].voucher = st[u].voucher
                    /\ st'[u].released = st[u].released
                    /\ paid(u)' = paid(u) /\ (paid(u) => st'[u] = st[u])

\* A route that leaves the settlement rows alone keeps the vouchers in order, provided it
\* undoes no acceptance and leaves every voucher a known buyer.
LEMMA VouchersFrame ==
    ASSUME SInv, rowsKept,
           \A v \in Voucher : voucher'[v].status # "none" => voucher'[v].buyer \in Identity,
           \A v \in Voucher : voucher[v].status \in {"accepted", "used"}
                                 => voucher'[v].status = voucher[v].status
    PROVE  VouchersOK'
  <1>1. \A t \in Task : st[t].voucher \in Voucher \cup {None}
    BY DEF SInv, TypeOK, SettlementRow
  <1> QED BY <1>1 DEF SInv, VouchersOK, PaidVoucherIsUsed, rowsKept, paid, Paid

\* A route that leaves the settlement rows alone and settles no intent keeps the intents.
LEMMA IntentsFrame ==
    ASSUME SInv, rowsKept,
           \A n \in Intent : intent'[n].status = "settled"
                                => intent[n].status = "settled" /\ intent'[n].task = intent[n].task
    PROVE  IntentsOK'
  BY DEF SInv, IntentsOK, rowsKept, paid, Paid

\* The settlements of one client and what they released.
ofClient(i) == {t \in Task : st[t].client = i}
releases == [t \in Task |-> st[t].released]

\* What releasedFor adds up is the sum of a function over the settlements of one client.
LEMMA Releases ==
    ASSUME SettlementAssumption, SInv
    PROVE  /\ \A i : /\ releasedFor(i) = SumFunctionOnSet(releases, ofClient(i))
                     /\ IsFiniteSet(ofClient(i)) /\ ofClient(i) \subseteq Task
           /\ \A t \in Task : releases[t] = st[t].released /\ releases[t] \in Nat
  <1>1. \A i : ofClient(i) \subseteq Task
    BY DEF ofClient
  <1>2. \A i : IsFiniteSet(ofClient(i))
    BY <1>1, FS_Subset DEF SettlementAssumption
  <1>3. \A i : releasedFor(i) = SumFunctionOnSet(releases, ofClient(i))
    BY Zenon DEF releasedFor, releases, ofClient
  <1>4. \A t \in Task : releases[t] = st[t].released /\ releases[t] \in Nat
    BY DEF SInv, TypeOK, SettlementRow, releases
  <1> QED BY <1>1, <1>2, <1>3, <1>4

\* One settlement of the client releases another amount.
LEMMA ReleaseGrows ==
    ASSUME SettlementAssumption, SInv, NEW j, NEW t \in ofClient(j), NEW k,
           \A u \in Task : k[u] \in Nat, \A u \in Task : u # t => k[u] = releases[u]
    PROVE  SumFunctionOnSet(k, ofClient(j))
               = (SumFunctionOnSet(releases, ofClient(j)) - releases[t]) + k[t]
  <1>1. IsFiniteSet(ofClient(j)) /\ ofClient(j) \subseteq Task
    BY Releases
  <1>2. \A u \in ofClient(j) : releases[u] \in Int /\ k[u] \in Int
    BY <1>1, Releases
  <1>3. \A u \in ofClient(j) \ {t} : releases[u] = k[u]
    BY <1>1
  <1> QED BY <1>1, <1>2, <1>3, SumChange

\* While no row and no burned column changes, the burned credits are still at most what was paid.
LEMMA BurnedFrame ==
    ASSUME SettlementAssumption, SInv, rowsKept,
           \A i \in Identity : cap'[i].burned = cap[i].burned
    PROVE  BurnedIsPaid'
  <1> SUFFICES ASSUME NEW i \in Identity PROVE cap'[i].burned <= releasedFor(i)'
    BY DEF BurnedIsPaid
  <1>1. ofClient(i)' = ofClient(i)
    BY DEF ofClient, rowsKept
  <1>2. \A t \in Task : releases'[t] = releases[t]
    BY DEF releases, rowsKept
  <1>3. SumFunctionOnSet(releases', ofClient(i)') = SumFunctionOnSet(releases, ofClient(i))
    BY <1>1, <1>2, Releases, SumKept
  <1>4. releasedFor(i)' = SumFunctionOnSet(releases', ofClient(i)')
    BY Zenon DEF releasedFor, releases, ofClient
  <1>5. releasedFor(i)' = releasedFor(i)
    BY <1>3, <1>4, Releases
  <1> QED BY <1>5 DEF SInv, BurnedIsPaid

\* One settlement changes status short of a payout.
LEMMA RowMoves ==
    ASSUME SInv, NEW t \in Task, NEW new \in SettlementRow, st' = [st EXCEPT ![t] = new],
           st[t].status \notin Paid \cup {"none"}, new.status \notin Paid \cup {"none"},
           new.client = st[t].client, new.voucher = st[t].voucher,
           new.released = st[t].released
    PROVE  st' \in [Task -> SettlementRow] /\ RowsOK' /\ rowsKept
  <1>1. st \in [Task -> SettlementRow]
    BY DEF SInv, TypeOK
  <1>2. st' \in [Task -> SettlementRow]
    BY <1>1
  <1>3. st'[t] = new /\ \A u \in Task : u # t => st'[u] = st[u]
    BY <1>1
  <1>4. rowsKept
    BY <1>3 DEF rowsKept, paid
  <1>5. RowsOK'
    BY <1>3 DEF SInv, RowsOK, paid
  <1> QED BY <1>2, <1>4, <1>5

\* A capacity row is written only if it passes assert_capacity_invariants.
IntRow == [exists : BOOLEAN, locked : Int, bill : Int, available : Int, reserved : Int,
           disputed : Int, burned : Nat, released : Nat]

\* writeCap writes one row, and only rows that pass the capacity checks.
LEMMA CapWritten ==
    ASSUME SInv, NEW i \in Identity, NEW row \in IntRow, writeCap(i, row)
    PROVE  /\ cap' \in [Identity -> CapRow] /\ CapacityOK'
           /\ cap'[i] = row /\ \A j \in Identity : j # i => cap'[j] = cap[j]
  <1>1. cap \in [Identity -> CapRow] /\ cap' = [cap EXCEPT ![i] = row]
    BY DEF SInv, TypeOK, writeCap
  <1>2. row.available >= 0 /\ row.reserved >= 0 /\ row.disputed >= 0
    BY DEF writeCap, capacityInvariants
  <1>3. row.bill >= 0 /\ row.locked >= 0
    BY <1>2 DEF writeCap, capacityInvariants, active_credits, IntRow
  <1>4. row \in CapRow
    BY <1>2, <1>3 DEF IntRow, CapRow
  <1>5. cap' \in [Identity -> CapRow] /\ cap'[i] = row /\ \A j \in Identity : j # i => cap'[j] = cap[j]
    BY <1>1, <1>4
  <1>6. CapacityOK'
    BY <1>5 DEF SInv, CapacityOK, writeCap, capacityInvariants, active_credits
  <1> QED BY <1>5, <1>6

\* Changing one column of a row keeps its shape.
LEMMA ColumnUpdates ==
    ASSUME NEW c \in IntRow
    PROVE  /\ \A x \in BOOLEAN : [c EXCEPT !.exists = x] \in IntRow
           /\ \A x \in Int : [c EXCEPT !.locked = x] \in IntRow
           /\ \A x \in Int : [c EXCEPT !.bill = x] \in IntRow
           /\ \A x \in Int : [c EXCEPT !.available = x] \in IntRow
           /\ \A x \in Int : [c EXCEPT !.reserved = x] \in IntRow
           /\ \A x \in Int : [c EXCEPT !.disputed = x] \in IntRow
           /\ \A x \in Nat : [c EXCEPT !.burned = x] \in IntRow
           /\ \A x \in Nat : [c EXCEPT !.released = x] \in IntRow
  <1>1. \A x \in BOOLEAN : [c EXCEPT !.exists = x] \in IntRow
    BY DEF IntRow
  <1>2. \A x \in Int : [c EXCEPT !.locked = x] \in IntRow /\ [c EXCEPT !.bill = x] \in IntRow
    BY DEF IntRow
  <1>3. \A x \in Int : [c EXCEPT !.available = x] \in IntRow /\ [c EXCEPT !.reserved = x] \in IntRow
    BY DEF IntRow
  <1>4. \A x \in Int : [c EXCEPT !.disputed = x] \in IntRow
    BY DEF IntRow
  <1>5. \A x \in Nat : [c EXCEPT !.burned = x] \in IntRow /\ [c EXCEPT !.released = x] \in IntRow
    BY DEF IntRow
  <1> QED BY <1>1, <1>2, <1>3, <1>4, <1>5

\* The columns of a stored capacity row are natural numbers.
LEMMA Columns ==
    ASSUME NEW c \in CapRow
    PROVE  /\ c \in IntRow /\ c.exists \in BOOLEAN
           /\ c.locked \in Nat /\ c.bill \in Nat /\ c.available \in Nat /\ c.reserved \in Nat
           /\ c.disputed \in Nat /\ c.burned \in Nat /\ c.released \in Nat
  <1>1. c \in IntRow
    BY DEF CapRow, IntRow
  <1> QED BY <1>1 DEF CapRow

\* lock_usdc
LEMMA LockedRow ==
    ASSUME NEW c \in CapRow, NEW a \in Nat, NEW row,
           row = [c EXCEPT !.exists = TRUE, !.locked = @ + a, !.bill = @ + a, !.available = @ + a]
    PROVE  /\ row \in IntRow /\ row.burned = c.burned
           /\ row.locked = c.locked + a /\ row.released = c.released
           /\ row.available = c.available + a
  <1>1. PICK l \in Int, b \in Int, v \in Int :
            l = c.locked + a /\ b = c.bill + a /\ v = c.available + a
    BY Columns
  <1>2. row = [c EXCEPT !.exists = TRUE, !.locked = l, !.bill = b, !.available = v]
    BY Zenon, <1>1
  <1>3. PICK r1 \in IntRow : r1 = [c EXCEPT !.exists = TRUE]
    BY Columns, ColumnUpdates
  <1>4. PICK r2 \in IntRow : r2 = [r1 EXCEPT !.locked = l]
    BY ColumnUpdates
  <1>5. PICK r3 \in IntRow : r3 = [r2 EXCEPT !.bill = b]
    BY ColumnUpdates
  <1>6. PICK r4 \in IntRow : r4 = [r3 EXCEPT !.available = v]
    BY ColumnUpdates
  <1>7. row \in IntRow
    BY Zenon, <1>2, <1>3, <1>4, <1>5, <1>6
  <1>8. /\ row.locked = l /\ row.burned = c.burned /\ row.released = c.released
        /\ row.available = v
    BY <1>2 DEF CapRow
  <1> QED BY <1>1, <1>7, <1>8

\* release_unused
LEMMA UnusedRow ==
    ASSUME NEW c \in CapRow, NEW a \in Nat, NEW row,
           row = [c EXCEPT !.available = @ - a, !.bill = @ - a, !.locked = @ - a, !.released = @ + a]
    PROVE  /\ row \in IntRow /\ row.burned = c.burned
           /\ row.locked = c.locked - a /\ row.released = c.released + a
  <1>1. PICK l \in Int, b \in Int, v \in Int :
            l = c.locked - a /\ b = c.bill - a /\ v = c.available - a
    BY Columns
  <1>2. PICK r \in Nat : r = c.released + a
    BY Columns
  <1>3. row = [c EXCEPT !.available = v, !.bill = b, !.locked = l, !.released = r]
    BY Zenon, <1>1, <1>2
  <1>4. PICK r1 \in IntRow : r1 = [c EXCEPT !.available = v]
    BY Columns, ColumnUpdates
  <1>5. PICK r2 \in IntRow : r2 = [r1 EXCEPT !.bill = b]
    BY ColumnUpdates
  <1>6. PICK r3 \in IntRow : r3 = [r2 EXCEPT !.locked = l]
    BY ColumnUpdates
  <1>7. PICK r4 \in IntRow : r4 = [r3 EXCEPT !.released = r]
    BY ColumnUpdates
  <1>8. row \in IntRow
    BY Zenon, <1>3, <1>4, <1>5, <1>6, <1>7
  <1>9. row.locked = l /\ row.burned = c.burned /\ row.released = r
    BY <1>3 DEF CapRow
  <1> QED BY <1>1, <1>2, <1>8, <1>9

\* accept_voucher
LEMMA ReservedRow ==
    ASSUME NEW c \in CapRow, NEW e \in Nat, NEW row,
           row = [c EXCEPT !.available = @ - e, !.reserved = @ + e]
    PROVE  /\ row \in IntRow /\ row.burned = c.burned
           /\ row.locked = c.locked /\ row.released = c.released
  <1>1. PICK v \in Int, u \in Int : v = c.available - e /\ u = c.reserved + e
    BY Columns
  <1>2. row = [c EXCEPT !.available = v, !.reserved = u]
    BY Zenon, <1>1
  <1>3. PICK r1 \in IntRow : r1 = [c EXCEPT !.available = v]
    BY Columns, ColumnUpdates
  <1>4. PICK r2 \in IntRow : r2 = [r1 EXCEPT !.reserved = u]
    BY ColumnUpdates
  <1>5. row \in IntRow
    BY Zenon, <1>2, <1>3, <1>4
  <1>6. row.locked = c.locked /\ row.burned = c.burned /\ row.released = c.released
    BY <1>2 DEF CapRow
  <1> QED BY <1>5, <1>6

\* move_reserved_to_disputed
LEMMA DisputedRow ==
    ASSUME NEW c \in CapRow, NEW e \in Nat, NEW row,
           row = [c EXCEPT !.reserved = @ - e, !.disputed = @ + e]
    PROVE  /\ row \in IntRow /\ row.burned = c.burned
           /\ row.locked = c.locked /\ row.released = c.released
  <1>1. PICK v \in Int, u \in Int : v = c.reserved - e /\ u = c.disputed + e
    BY Columns
  <1>2. row = [c EXCEPT !.reserved = v, !.disputed = u]
    BY Zenon, <1>1
  <1>3. PICK r1 \in IntRow : r1 = [c EXCEPT !.reserved = v]
    BY Columns, ColumnUpdates
  <1>4. PICK r2 \in IntRow : r2 = [r1 EXCEPT !.disputed = u]
    BY ColumnUpdates
  <1>5. row \in IntRow
    BY Zenon, <1>2, <1>3, <1>4
  <1>6. row.locked = c.locked /\ row.burned = c.burned /\ row.released = c.released
    BY <1>2 DEF CapRow
  <1> QED BY <1>5, <1>6

\* A resolution takes the escrow from one bucket and divides it.
resolvedRow(c, e, settled, refunded) ==
    [c EXCEPT ![resolutionBucket(c, e)] = @ - e, !.burned = @ + settled,
              !.released = @ + refunded, !.bill = @ - e, !.locked = @ - e]

\* What a resolution adds to burned and released, and takes from locked.
LEMMA ResolvedRow ==
    ASSUME NEW c \in CapRow, NEW e \in Nat, NEW settled \in Nat, NEW refunded \in Nat
    PROVE  \A row : row = resolvedRow(c, e, settled, refunded)
             => /\ row \in IntRow /\ row.burned = c.burned + settled
                /\ row.locked = c.locked - e /\ row.released = c.released + refunded
  <1>1. PICK l \in Int, b \in Int, d \in Int, w \in Int :
            l = c.locked - e /\ b = c.bill - e /\ d = c.disputed - e /\ w = c.reserved - e
    BY Columns
  <1>2. PICK u \in Nat, r \in Nat : u = c.burned + settled /\ r = c.released + refunded
    BY Columns
  <1>3. resolutionBucket(c, e) \in {"disputed", "reserved"}
    BY Zenon DEF resolutionBucket
  <1>4. ASSUME NEW q \in IntRow
        PROVE  [q EXCEPT !.burned = u, !.released = r, !.bill = b, !.locked = l] \in IntRow
    <2>1. PICK r1 \in IntRow : r1 = [q EXCEPT !.burned = u]
      BY ColumnUpdates
    <2>2. PICK r2 \in IntRow : r2 = [r1 EXCEPT !.released = r]
      BY ColumnUpdates
    <2>3. PICK r3 \in IntRow : r3 = [r2 EXCEPT !.bill = b]
      BY ColumnUpdates
    <2>4. PICK r4 \in IntRow : r4 = [r3 EXCEPT !.locked = l]
      BY ColumnUpdates
    <2> QED BY Zenon, <2>1, <2>2, <2>3, <2>4
  <1>5. PICK r5 \in IntRow : r5 = [c EXCEPT !.disputed = d]
    BY Columns, ColumnUpdates
  <1>6. PICK r6 \in IntRow : r6 = [c EXCEPT !.reserved = w]
    BY Columns, ColumnUpdates
  <1>7. ASSUME NEW row,
               \/ row = [c EXCEPT !.disputed = d, !.burned = u, !.released = r, !.bill = b, !.locked = l]
               \/ row = [c EXCEPT !.reserved = w, !.burned = u, !.released = r, !.bill = b, !.locked = l]
        PROVE  row \in IntRow /\ row.locked = l /\ row.burned = u /\ row.released = r
    <2>1. row \in IntRow
      BY Zenon, <1>4, <1>5, <1>6, <1>7
    <2>2. row.locked = l /\ row.burned = u /\ row.released = r
      BY <1>7 DEF CapRow
    <2> QED BY <2>1, <2>2
  <1>8. ASSUME NEW row, row = resolvedRow(c, e, settled, refunded)
        PROVE  \/ row = [c EXCEPT !.disputed = d, !.burned = u, !.released = r, !.bill = b, !.locked = l]
               \/ row = [c EXCEPT !.reserved = w, !.burned = u, !.released = r, !.bill = b, !.locked = l]
    <2>1. CASE resolutionBucket(c, e) = "disputed"
      BY Zenon, <1>1, <1>2, <1>8, <2>1 DEF resolvedRow
    <2>2. CASE resolutionBucket(c, e) = "reserved"
      BY Zenon, <1>1, <1>2, <1>8, <2>2 DEF resolvedRow
    <2> QED BY Zenon, <1>3, <2>1, <2>2
  <1> QED BY Zenon, <1>1, <1>2, <1>7, <1>8

-----------------------------------------------------------------------------
\* The routes, one lemma for each kind of change.

\* The settlement rows stay as they are.
LEMMA SameRows ==
    ASSUME SInv, UNCHANGED st
    PROVE  rowsKept /\ RowsOK'
  BY DEF SInv, RowsOK, rowsKept, paid

\* lock_usdc and release_unused keep the invariant: they touch no burned credit.
LEMMA LockUsdcStep ==
    ASSUME SettlementAssumption, SInv, NEW i \in Client, NEW a \in Amount,
           lock_usdc(i, a) \/ release_unused(i, a)
    PROVE  SInv'
  <1>1. i \in Identity /\ a \in Nat
    BY DEF SettlementAssumption
  <1>2. cap[i] \in CapRow
    BY <1>1 DEF SInv, TypeOK
  <1>3. PICK row \in IntRow : writeCap(i, row) /\ row.burned = cap[i].burned
    <2>1. CASE lock_usdc(i, a)
      <3>1. PICK row : row = [cap[i] EXCEPT !.exists = TRUE, !.locked = @ + a, !.bill = @ + a,
                                            !.available = @ + a]
        OBVIOUS
      <3>2. row \in IntRow /\ row.burned = cap[i].burned
        BY <1>1, <1>2, <3>1, LockedRow
      <3> QED BY <2>1, <3>1, <3>2 DEF lock_usdc
    <2>2. CASE release_unused(i, a)
      <3>1. PICK row : row = [cap[i] EXCEPT !.available = @ - a, !.bill = @ - a, !.locked = @ - a,
                                            !.released = @ + a]
        OBVIOUS
      <3>2. row \in IntRow /\ row.burned = cap[i].burned
        BY <1>1, <1>2, <3>1, UnusedRow
      <3> QED BY <2>2, <3>1, <3>2 DEF release_unused
    <2> QED BY <2>1, <2>2
  <1>4. /\ cap' \in [Identity -> CapRow] /\ CapacityOK'
        /\ \A j \in Identity : cap'[j].burned = cap[j].burned
    BY <1>1, <1>3, CapWritten
  <1>5. UNCHANGED <<quota, voucher, st, progress, evidence, delivery, intent, paused>>
    BY DEF lock_usdc, release_unused
  <1>6. TypeOK'
    BY <1>4, <1>5 DEF SInv, TypeOK
  <1>7. rowsKept /\ RowsOK'
    BY <1>5, SameRows
  <1>8. VouchersOK' /\ IntentsOK'
    BY <1>5, <1>7, VouchersFrame, IntentsFrame DEF SInv, VouchersOK
  <1>9. BurnedIsPaid'
    BY <1>4, <1>7, BurnedFrame
  <1> QED BY <1>4, <1>6, <1>7, <1>8, <1>9 DEF SInv

\* A step that changes only quotas, progress, evidence, delivery sessions or pauses.
LEMMA SideStep ==
    ASSUME SettlementAssumption, SInv, UNCHANGED <<cap, voucher, st, intent>>,
           quota' \in [Profile -> QuotaRow], progress' \in [Task -> ProgressRow],
           evidence' \in [Task -> EvidenceRow],
           delivery' \in [Task -> {"none", "open", "verified"}], paused' \subseteq Operation
    PROVE  SInv'
  <1>1. TypeOK'
    BY DEF SInv, TypeOK
  <1>2. rowsKept /\ RowsOK'
    BY SameRows
  <1>3. VouchersOK' /\ IntentsOK'
    BY <1>2, VouchersFrame, IntentsFrame DEF SInv, VouchersOK
  <1>4. BurnedIsPaid'
    BY <1>2, BurnedFrame
  <1>5. CapacityOK'
    BY DEF SInv, CapacityOK, capacityInvariants, active_credits
  <1> QED BY <1>1, <1>2, <1>3, <1>4, <1>5 DEF SInv

\* allocate keeps the invariant: quotas are not part of the capacity columns.
LEMMA AllocateStep ==
    ASSUME SettlementAssumption, SInv, NEW i \in Identity, NEW ps \in SUBSET Profile,
           NEW a \in Amount, allocate(i, ps, a)
    PROVE  SInv'
  <1>1. a \in Nat
    BY DEF SettlementAssumption
  <1>2. quota \in [Profile -> QuotaRow]
    BY DEF SInv, TypeOK
  <1>3. \A p \in ps : [quota[p] EXCEPT !.exists = TRUE, !.allocated = a,
                                       !.available = a - quota[p].inProgress] \in QuotaRow
    <2> TAKE p \in ps
    <2>1. quota[p] \in QuotaRow /\ a >= quota[p].inProgress
      BY <1>2 DEF allocate
    <2>2. a - quota[p].inProgress \in Nat
      BY <1>1, <2>1 DEF QuotaRow
    <2> QED BY <1>1, <2>1, <2>2 DEF QuotaRow
  <1>4. quota' \in [Profile -> QuotaRow]
    BY <1>2, <1>3 DEF allocate
  <1> QED BY <1>4, SideStep DEF allocate, SInv, TypeOK

\* Receipts, bundles and delivery sessions keep the invariant.
LEMMA EvidenceStep ==
    ASSUME SettlementAssumption, SInv, NEW t \in Task,
           \/ \E r \in ReceiptStatus : submit_receipt(t, r)
           \/ \E b \in BundleVerdict : submit_bundle(t, b)
           \/ deliverySession(t)
    PROVE  SInv'
  <1>1. evidence \in [Task -> EvidenceRow] /\ delivery \in [Task -> {"none", "open", "verified"}]
    BY DEF SInv, TypeOK
  <1>2. evidence' \in [Task -> EvidenceRow]
    BY <1>1 DEF SettlementAssumption, EvidenceRow, submit_receipt, submit_bundle, deliverySession
  <1>3. delivery' \in [Task -> {"none", "open", "verified"}]
    BY <1>1 DEF submit_receipt, submit_bundle, deliverySession
  <1>4. UNCHANGED <<cap, quota, voucher, st, progress, intent, paused>>
    BY DEF submit_receipt, submit_bundle, deliverySession
  <1> QED BY <1>2, <1>3, <1>4, SideStep DEF SInv, TypeOK

\* Pausing and resuming keep the invariant.
LEMMA PauseStep ==
    ASSUME SettlementAssumption, SInv, NEW ps \in PauseSets, setPauses(ps)
    PROVE  SInv'
  <1>1. paused' \subseteq Operation
    BY DEF SettlementAssumption, setPauses
  <1> QED BY <1>1, SideStep DEF setPauses, SInv, TypeOK

\* Vouchers before any task is paid through them.
LEMMA CreateVoucherStep ==
    ASSUME SettlementAssumption, SInv, NEW v \in Voucher, NEW b \in Client, NEW s \in Identity,
           NEW a \in Amount, NEW p \in Profile \cup {None}, create_voucher(v, b, s, a, p)
    PROVE  SInv'
  <1>1. b \in Identity /\ a \in Nat /\ None \notin Profile
    BY DEF SettlementAssumption
  <1>2. voucher \in [Voucher -> VoucherRow] /\ quota \in [Profile -> QuotaRow]
    BY DEF SInv, TypeOK
  <1>3. quota' \in [Profile -> QuotaRow]
    <2>1. CASE p = None
      BY <1>2, <2>1 DEF create_voucher, spend_profile_credits
    <2>2. CASE p \in Profile
      <3>1. quota[p] \in QuotaRow /\ a <= quota[p].available
        BY <1>1, <1>2, <2>2 DEF create_voucher, spendable
      <3>2. quota' = [quota EXCEPT ![p].available = @ - a, ![p].inProgress = @ + a]
        BY <1>1, <2>2 DEF create_voucher, spend_profile_credits
      <3>3. quota[p].available - a \in Nat /\ quota[p].inProgress + a \in Nat
        BY <1>1, <3>1 DEF QuotaRow
      <3> QED BY <1>2, <2>2, <3>1, <3>2, <3>3 DEF QuotaRow
    <2> QED BY <2>1, <2>2
  <1>4. PICK row \in VoucherRow : /\ voucher' = [voucher EXCEPT ![v] = row]
                                  /\ row.buyer = b /\ row.status = "created"
    <2>1. PICK row : row = [status |-> "created", buyer |-> b, seller |-> s, amount |-> a,
                            profile |-> p, expired |-> FALSE]
      OBVIOUS
    <2>2. row \in VoucherRow /\ row.buyer = b /\ row.status = "created"
      BY <1>1, <2>1 DEF VoucherRow
    <2> QED BY <2>1, <2>2 DEF create_voucher
  <1>5. /\ voucher' \in [Voucher -> VoucherRow]
        /\ \A w \in Voucher : w # v => voucher'[w] = voucher[w]
        /\ voucher'[v].buyer \in Identity /\ voucher[v].status = "none"
    BY <1>1, <1>2, <1>4 DEF create_voucher
  <1>6. UNCHANGED <<cap, st, progress, evidence, delivery, intent, paused>>
    BY DEF create_voucher
  <1>7. TypeOK'
    BY <1>3, <1>5, <1>6 DEF SInv, TypeOK
  <1>8. rowsKept /\ RowsOK'
    BY <1>6, SameRows
  <1>9. VouchersOK'
    BY <1>5, <1>8, VouchersFrame DEF SInv, VouchersOK
  <1>10. IntentsOK' /\ BurnedIsPaid'
    BY <1>6, <1>8, IntentsFrame, BurnedFrame
  <1>11. CapacityOK'
    BY <1>6 DEF SInv, CapacityOK, capacityInvariants, active_credits
  <1> QED BY <1>7, <1>8, <1>9, <1>10, <1>11 DEF SInv

\* Expiry and rejection of a voucher keep the invariant.
LEMMA VoucherRowStep ==
    ASSUME SettlementAssumption, SInv, NEW v \in Voucher, expire(v) \/ reject_voucher_row(v)
    PROVE  SInv'
  <1>1. voucher \in [Voucher -> VoucherRow]
    BY DEF SInv, TypeOK
  <1>2. /\ voucher' \in [Voucher -> VoucherRow]
        /\ \A w \in Voucher : /\ voucher'[w].buyer = voucher[w].buyer
                              /\ voucher[w].status # "none" \/ voucher'[w].status = "none"
                              /\ voucher[w].status \in {"accepted", "used"}
                                    => voucher'[w].status = voucher[w].status
    <2>1. voucher[v] \in VoucherRow
      BY <1>1
    <2>2. PICK row \in VoucherRow : /\ voucher' = [voucher EXCEPT ![v] = row]
                                    /\ row.buyer = voucher[v].buyer /\ voucher[v].status # "none"
                                    /\ voucher[v].status \in {"accepted", "used"}
                                          => row.status = voucher[v].status
      <3>1. CASE expire(v)
        <4>1. [voucher[v] EXCEPT !.expired = TRUE] \in VoucherRow
          BY <2>1 DEF VoucherRow
        <4> QED BY <2>1, <3>1, <4>1 DEF expire, VoucherRow
      <3>2. CASE reject_voucher_row(v)
        <4>1. [voucher[v] EXCEPT !.status = "rejected"] \in VoucherRow
          BY <2>1 DEF VoucherRow
        <4> QED BY <2>1, <3>2, <4>1 DEF reject_voucher_row, VoucherRow
      <3> QED BY <3>1, <3>2
    <2> QED BY <1>1, <2>2
  <1>3. UNCHANGED <<cap, quota, st, progress, evidence, delivery, intent, paused>>
    BY DEF expire, reject_voucher_row
  <1>4. TypeOK'
    BY <1>2, <1>3 DEF SInv, TypeOK
  <1>5. rowsKept /\ RowsOK'
    BY <1>3, SameRows
  <1>6. VouchersOK'
    BY <1>2, <1>5, VouchersFrame DEF SInv, VouchersOK
  <1>7. IntentsOK' /\ BurnedIsPaid'
    BY <1>3, <1>5, IntentsFrame, BurnedFrame
  <1>8. CapacityOK'
    BY <1>3 DEF SInv, CapacityOK, capacityInvariants, active_credits
  <1> QED BY <1>4, <1>5, <1>6, <1>7, <1>8 DEF SInv

\* Moving credits between two buckets of a row.
movedCap ==
    /\ cap' \in [Identity -> CapRow] /\ CapacityOK'
    /\ \A j \in Identity : /\ cap'[j].burned = cap[j].burned
                           /\ cap'[j].locked = cap[j].locked
                           /\ cap'[j].released = cap[j].released

\* Moving credits from available to reserved leaves the burned credits alone.
LEMMA ReservedCap ==
    ASSUME SInv, NEW i \in Identity, NEW e \in Nat,
           writeCap(i, [cap[i] EXCEPT !.available = @ - e, !.reserved = @ + e])
    PROVE  movedCap
  <1>1. PICK c \in CapRow : c = cap[i]
    BY DEF SInv, TypeOK
  <1>2. PICK row : row = [c EXCEPT !.available = @ - e, !.reserved = @ + e]
    OBVIOUS
  <1>3. /\ row \in IntRow /\ row.burned = c.burned
        /\ row.locked = c.locked /\ row.released = c.released
    BY Zenon, <1>2, ReservedRow
  <1>4. writeCap(i, row)
    BY Zenon, <1>1, <1>2
  <1> QED BY <1>1, <1>3, <1>4, CapWritten DEF movedCap

\* Moving credits from reserved to disputed leaves the burned credits alone.
LEMMA DisputedCap ==
    ASSUME SInv, NEW i \in Identity, NEW e \in Nat, move_reserved_to_disputed(i, e)
    PROVE  movedCap
  <1>1. PICK c \in CapRow : c = cap[i]
    BY DEF SInv, TypeOK
  <1>2. PICK row : row = [c EXCEPT !.reserved = @ - e, !.disputed = @ + e]
    OBVIOUS
  <1>3. /\ row \in IntRow /\ row.burned = c.burned
        /\ row.locked = c.locked /\ row.released = c.released
    BY Zenon, <1>2, DisputedRow
  <1>4. writeCap(i, row)
    BY Zenon, <1>1, <1>2 DEF move_reserved_to_disputed
  <1> QED BY <1>1, <1>3, <1>4, CapWritten DEF movedCap

\* Accepting a voucher keeps the invariant: it reserves the credits in the same step.
LEMMA AcceptStep ==
    ASSUME SettlementAssumption, SInv, NEW v \in Voucher, accept_voucher(v)
    PROVE  SInv'
  <1>1. voucher \in [Voucher -> VoucherRow]
    BY DEF SInv, TypeOK
  <1>2. voucher[v].status = "created" /\ voucher' = [voucher EXCEPT ![v].status = "accepted"]
    BY DEF accept_voucher, acceptable
  <1>3. PICK i \in Identity, a \in Nat : i = voucher[v].buyer /\ a = voucher[v].amount
    BY <1>1, <1>2 DEF SInv, VouchersOK, VoucherRow
  <1>4. writeCap(i, [cap[i] EXCEPT !.available = @ - a, !.reserved = @ + a])
    BY Zenon, <1>3 DEF accept_voucher, reserve
  <1>5. /\ cap' \in [Identity -> CapRow] /\ CapacityOK'
        /\ \A j \in Identity : cap'[j].burned = cap[j].burned
    BY <1>4, ReservedCap DEF movedCap
  <1>6. /\ voucher' \in [Voucher -> VoucherRow]
        /\ \A w \in Voucher : /\ voucher'[w].buyer = voucher[w].buyer
                              /\ voucher[w].status # "none" \/ voucher'[w].status = "none"
                              /\ voucher[w].status \in {"accepted", "used"}
                                    => voucher'[w].status = voucher[w].status
    BY <1>1, <1>2 DEF VoucherRow
  <1>7. UNCHANGED <<quota, st, progress, evidence, delivery, intent, paused>>
    BY DEF accept_voucher
  <1>8. TypeOK'
    BY <1>5, <1>6, <1>7 DEF SInv, TypeOK
  <1>9. rowsKept /\ RowsOK'
    BY <1>7, SameRows
  <1>10. VouchersOK'
    BY <1>6, <1>9, VouchersFrame DEF SInv, VouchersOK
  <1>11. IntentsOK' /\ BurnedIsPaid'
    BY <1>5, <1>7, <1>9, IntentsFrame, BurnedFrame
  <1> QED BY <1>5, <1>8, <1>9, <1>10, <1>11 DEF SInv

\* Before its task is settled an intent is only created, bound or expired.
LEMMA IntentStep ==
    ASSUME SettlementAssumption, SInv,
           \/ \E n \in Intent, t \in Task \cup {None} : create_payment_intent(n, t)
           \/ \E n \in Intent, t \in Task : bind_payment_intent(n, t)
           \/ \E ns \in SUBSET Intent : expire_stale_intents(ns)
    PROVE  SInv'
  <1>1. intent \in [Intent -> IntentRow]
    BY DEF SInv, TypeOK
  <1>2. /\ intent' \in [Intent -> IntentRow]
        /\ \A n \in Intent : intent'[n].status = "settled"
                                => intent[n].status = "settled" /\ intent'[n].task = intent[n].task
    <2>1. CASE \E n \in Intent, t \in Task \cup {None} : create_payment_intent(n, t)
      BY <1>1, <2>1 DEF IntentRow, create_payment_intent
    <2>2. CASE \E n \in Intent, t \in Task : bind_payment_intent(n, t)
      BY <1>1, <2>2 DEF IntentRow, bind_payment_intent
    <2>3. CASE \E ns \in SUBSET Intent : expire_stale_intents(ns)
      BY <1>1, <2>3 DEF IntentRow, expire_stale_intents
    <2> QED BY <2>1, <2>2, <2>3
  <1>3. UNCHANGED <<cap, quota, voucher, st, progress, evidence, delivery, paused>>
    BY DEF create_payment_intent, bind_payment_intent, expire_stale_intents
  <1>4. TypeOK'
    BY <1>2, <1>3 DEF SInv, TypeOK
  <1>5. rowsKept /\ RowsOK'
    BY <1>3, SameRows
  <1>6. IntentsOK' /\ VouchersOK' /\ BurnedIsPaid'
    BY <1>2, <1>3, <1>5, IntentsFrame, VouchersFrame, BurnedFrame DEF SInv, VouchersOK
  <1>7. CapacityOK'
    BY <1>3 DEF SInv, CapacityOK, capacityInvariants, active_credits
  <1> QED BY <1>4, <1>5, <1>6, <1>7 DEF SInv

\* A settlement that moves on without being paid out.
LEMMA MoveOn ==
    ASSUME SettlementAssumption, SInv, NEW t \in Task, NEW new \in SettlementRow,
           apply_transition(t, new), new.status \in TaskStatus \ (Paid \cup {"frozen"}),
           new.client = st[t].client, new.voucher = st[t].voucher, new.released = st[t].released,
           UNCHANGED <<quota, voucher, evidence, delivery, intent, paused>>,
           progress' \in [Task -> ProgressRow],
           cap' \in [Identity -> CapRow], CapacityOK',
           \A i \in Identity : cap'[i].burned = cap[i].burned
    PROVE  SInv'
  <1>1. st[t] \in SettlementRow
    BY DEF SInv, TypeOK
  <1>2. st[t].status \in TaskStatus /\ st' = [st EXCEPT ![t] = new]
    BY <1>1 DEF apply_transition, SettlementRow
  <1>3. can_transition(st[t].status, new.status)
    BY DEF apply_transition, storable
  <1>4. st[t].status \notin TerminalStatus
    BY <1>2, <1>3, NoWayBack
  <1>5. st[t].status \notin Paid \cup {"none"} /\ new.status \notin Paid \cup {"none"}
    BY <1>4 DEF TerminalStatus, Paid, TaskStatus, apply_transition
  <1>6. st' \in [Task -> SettlementRow] /\ RowsOK' /\ rowsKept
    BY <1>2, <1>5, RowMoves
  <1>7. TypeOK'
    BY <1>6 DEF SInv, TypeOK
  <1>8. VouchersOK' /\ IntentsOK'
    BY <1>6, VouchersFrame, IntentsFrame DEF SInv, VouchersOK
  <1>9. BurnedIsPaid'
    BY <1>6, BurnedFrame
  <1> QED BY <1>6, <1>7, <1>8, <1>9 DEF SInv

\* Another status in the same row.
LEMMA StatusRow ==
    ASSUME SInv, NEW t \in Task, NEW s \in TaskStatus
    PROVE  /\ [st[t] EXCEPT !.status = s] \in SettlementRow
           /\ [st[t] EXCEPT !.status = s].status = s
           /\ [st[t] EXCEPT !.status = s].client = st[t].client
           /\ [st[t] EXCEPT !.status = s].voucher = st[t].voucher
           /\ [st[t] EXCEPT !.status = s].released = st[t].released
  <1>1. st[t] \in SettlementRow
    BY DEF SInv, TypeOK
  <1> QED BY <1>1 DEF SettlementRow

\* A transition to a status that pays nothing keeps the invariant, whatever the route did
\* to the unburned columns and to the progress row.
LEMMA StatusMove ==
    ASSUME SettlementAssumption, SInv, NEW t \in Task,
           NEW s \in TaskStatus \ (Paid \cup {"frozen"}),
           apply_transition(t, [st[t] EXCEPT !.status = s]),
           UNCHANGED <<quota, voucher, evidence, delivery, intent, paused>>,
           progress' \in [Task -> ProgressRow],
           cap' \in [Identity -> CapRow], CapacityOK',
           \A i \in Identity : cap'[i].burned = cap[i].burned
    PROVE  SInv'
  <1>1. PICK new : new = [st[t] EXCEPT !.status = s]
    OBVIOUS
  <1>2. /\ new \in SettlementRow /\ new.status = s /\ new.client = st[t].client
        /\ new.voucher = st[t].voucher /\ new.released = st[t].released
    BY <1>1, StatusRow
  <1>3. apply_transition(t, new)
    BY Zenon, <1>1
  <1> QED BY <1>2, <1>3, MoveOn

\* The capacity rows as they are satisfy the capacity checks.
LEMMA SameCap ==
    ASSUME SInv, UNCHANGED cap
    PROVE  /\ cap' \in [Identity -> CapRow] /\ CapacityOK'
           /\ \A i \in Identity : cap'[i].burned = cap[i].burned
  BY DEF SInv, TypeOK, CapacityOK, capacityInvariants, active_credits

\* The four routes that only move the status keep the invariant.
LEMMA StatusRouteStep ==
    ASSUME SettlementAssumption, SInv, NEW t \in Task,
           \/ mark_settlement_pending(t) \/ start_settlement(t)
           \/ submit_settlement(t) \/ fail_settlement(t)
    PROVE  SInv'
  <1>1. PICK s \in {"pending", "in_progress", "delivered", "cancelled"} :
            statusStep(t, [st[t] EXCEPT !.status = s])
    BY Zenon DEF mark_settlement_pending, start_settlement, submit_settlement, fail_settlement
  <1>2. s \in TaskStatus \ (Paid \cup {"frozen"})
    BY DEF TaskStatus, Paid
  <1>3. /\ apply_transition(t, [st[t] EXCEPT !.status = s])
        /\ UNCHANGED <<cap, quota, voucher, progress, evidence, delivery, intent, paused>>
    BY Zenon, <1>1 DEF statusStep
  <1>4. progress' \in [Task -> ProgressRow]
    BY <1>3 DEF SInv, TypeOK
  <1> QED BY Zenon, <1>2, <1>3, <1>4, SameCap, StatusMove

\* Locking a settlement to a worker keeps the invariant.
LEMMA LockSettlementStep ==
    ASSUME SettlementAssumption, SInv, NEW t \in Task, NEW w \in Identity, lock_settlement(t, w)
    PROVE  SInv'
  <1>1. PICK new : new = [st[t] EXCEPT !.status = "accepted", !.worker = w]
    OBVIOUS
  <1>2. apply_transition(t, new)
        /\ UNCHANGED <<cap, quota, voucher, progress, evidence, delivery, intent, paused>>
    BY Zenon, <1>1 DEF lock_settlement, statusStep
  <1>3. PICK r1 \in SettlementRow : r1 = [st[t] EXCEPT !.status = "accepted"]
    BY StatusRow DEF TaskStatus
  <1>4. [r1 EXCEPT !.worker = w] \in SettlementRow
    BY DEF SettlementRow
  <1>5. new \in SettlementRow
    BY Zenon, <1>1, <1>3, <1>4
  <1>6. st[t] \in SettlementRow
    BY DEF SInv, TypeOK
  <1>7. /\ new.status = "accepted" /\ new.client = st[t].client
        /\ new.voucher = st[t].voucher /\ new.released = st[t].released
    BY <1>1, <1>6 DEF SettlementRow
  <1>8. new.status \in TaskStatus \ (Paid \cup {"frozen"})
    BY <1>7 DEF TaskStatus, Paid
  <1>9. progress' \in [Task -> ProgressRow]
    BY <1>2 DEF SInv, TypeOK
  <1> QED BY <1>2, <1>5, <1>7, <1>8, <1>9, SameCap, MoveOn

\* Progress receipts and their confirmation keep the invariant.
LEMMA ProgressStep ==
    ASSUME SettlementAssumption, SInv, NEW t \in Task,
           \/ \E pct \in Percent, state \in ProgressState : submit_progress_receipt(t, pct, state)
           \/ confirm_progress_receipt(t)
    PROVE  SInv'
  <1>1. PICK s \in {"progress_submitted", "progress_confirmed"} :
            apply_transition(t, [st[t] EXCEPT !.status = s])
    BY Zenon DEF submit_progress_receipt, confirm_progress_receipt
  <1>2. s \in TaskStatus \ (Paid \cup {"frozen"})
    BY DEF TaskStatus, Paid
  <1>3. UNCHANGED <<cap, quota, voucher, evidence, delivery, intent, paused>>
    BY DEF submit_progress_receipt, confirm_progress_receipt
  <1>4. progress \in [Task -> ProgressRow]
    BY DEF SInv, TypeOK
  <1>5. progress' \in [Task -> ProgressRow]
    <2>1. CASE \E pct \in Percent, state \in ProgressState : submit_progress_receipt(t, pct, state)
      BY <1>4, <2>1 DEF submit_progress_receipt, SettlementAssumption, ProgressRow
    <2>2. CASE confirm_progress_receipt(t)
      BY <1>4, <2>2 DEF confirm_progress_receipt, ProgressRow
    <2> QED BY <2>1, <2>2
  <1> QED BY Zenon, <1>1, <1>2, <1>3, <1>5, SameCap, StatusMove

\* Opening a dispute keeps the invariant.
LEMMA DisputeStep ==
    ASSUME SettlementAssumption, SInv, NEW t \in Task, dispute(t)
    PROVE  SInv'
  <1>1. PICK i \in Identity, e \in Nat : i = st[t].client /\ e = st[t].escrow
    BY DEF SInv, TypeOK, RowsOK, SettlementRow, dispute
  <1>2. move_reserved_to_disputed(i, e)
    BY <1>1 DEF dispute
  <1>3. /\ cap' \in [Identity -> CapRow] /\ CapacityOK'
        /\ \A j \in Identity : cap'[j].burned = cap[j].burned
    BY <1>2, DisputedCap DEF movedCap
  <1>4. /\ apply_transition(t, [st[t] EXCEPT !.status = "disputed"])
        /\ UNCHANGED <<quota, voucher, progress, evidence, delivery, intent, paused>>
    BY Zenon DEF dispute
  <1>5. progress' \in [Task -> ProgressRow]
    BY <1>4 DEF SInv, TypeOK
  <1>6. "disputed" \in TaskStatus \ (Paid \cup {"frozen"})
    BY DEF TaskStatus, Paid
  <1> QED BY Zenon, <1>3, <1>4, <1>5, <1>6, StatusMove

\* The row of a new settlement, and the linked voucher it found accepted.
LEMMA NewRow ==
    ASSUME SettlementAssumption, SInv, NEW t \in Task, NEW c \in Client, NEW e \in Amount,
           NEW v \in Voucher \cup {None}, NEW p \in Profile \cup {None},
           create_settlement(t, c, e, v, p)
    PROVE  \E new \in SettlementRow :
               /\ st' = [st EXCEPT ![t] = new]
               /\ new.status = "draft" /\ new.client = c /\ new.voucher = v /\ new.released = 0
               /\ new.worker = None
  <1>1. c \in Identity /\ e \in Nat
    BY DEF SettlementAssumption
  <1>2. PICK q \in Profile \cup {None} :
            q = IF p = None /\ v # None THEN voucher[v].profile ELSE p
    BY DEF SInv, TypeOK, VoucherRow
  <1>3. PICK new : new = [NoSettlement EXCEPT !.status = "draft", !.client = c, !.escrow = e,
                                              !.voucher = v, !.profile = q]
    OBVIOUS
  <1>4. st' = [st EXCEPT ![t] = new]
    BY Zenon, <1>2, <1>3 DEF create_settlement
  <1>5. /\ new = [status |-> "draft", escrow |-> e, client |-> c, worker |-> None,
                  voucher |-> v, profile |-> q, released |-> 0, refunded |-> 0]
    BY <1>3 DEF NoSettlement
  <1>6. /\ new \in SettlementRow
        /\ new.status = "draft" /\ new.client = c /\ new.voucher = v /\ new.released = 0
        /\ new.worker = None
    BY <1>1, <1>5 DEF SettlementRow, TaskStatus
  <1> QED BY <1>4, <1>6

\* Creating a settlement keeps the invariant: its row is new, its voucher becomes used.
LEMMA CreateSettlementStep ==
    ASSUME SettlementAssumption, SInv, NEW t \in Task, NEW c \in Client, NEW e \in Amount,
           NEW v \in Voucher \cup {None}, NEW p \in Profile \cup {None},
           create_settlement(t, c, e, v, p)
    PROVE  SInv'
  <1>1. c \in Identity /\ e \in Nat /\ None \notin Identity \cup Voucher
    BY DEF SettlementAssumption
  <1>2. PICK new \in SettlementRow :
            /\ st' = [st EXCEPT ![t] = new]
            /\ new.status = "draft" /\ new.client = c /\ new.voucher = v /\ new.released = 0
    BY NewRow
  <1>3. st[t].status = "none" /\ voucherFits(v, c, e)
        /\ UNCHANGED <<cap, quota, voucher, progress, evidence, delivery, intent, paused>>
    BY DEF create_settlement
  <1>4. st \in [Task -> SettlementRow]
    BY DEF SInv, TypeOK
  <1>5. /\ st' \in [Task -> SettlementRow] /\ st'[t] = new
        /\ \A u \in Task : u # t => st'[u] = st[u]
    BY <1>2, <1>4
  <1>6. st[t].client = None /\ st[t].released = 0 /\ st[t].voucher = None
    BY <1>3 DEF SInv, RowsOK, NoSettlement
  <1>7. TypeOK'
    BY <1>3, <1>5 DEF SInv, TypeOK
  <1>8. RowsOK'
    BY <1>1, <1>2, <1>5 DEF SInv, RowsOK, paid, Paid
  <1>9. VouchersOK'
    <2>1. \A u \in Task : st'[u].voucher # None =>
              voucher[st'[u].voucher].status \in {"accepted", "used"}
      BY <1>2, <1>3, <1>5 DEF SInv, VouchersOK, voucherFits
    <2>2. \A u \in Task : st'[u].status \in {"settled", "refunded"} => st'[u] = st[u]
      BY <1>2, <1>5
    <2> QED BY <1>3, <2>1, <2>2 DEF SInv, VouchersOK, PaidVoucherIsUsed
  <1>10. IntentsOK'
    BY <1>3, <1>5 DEF SInv, IntentsOK
  <1>11. CapacityOK'
    BY <1>3, SameCap
  <1>12. BurnedIsPaid'
    <2> SUFFICES ASSUME NEW i \in Identity PROVE cap'[i].burned <= releasedFor(i)'
      BY DEF BurnedIsPaid
    <2>1. \A u \in Task : releases'[u] = releases[u] /\ releases'[u] \in Nat
      BY <1>2, <1>4, <1>5, <1>6 DEF releases, SettlementRow
    <2>2. ofClient(i)' = IF i = c THEN ofClient(i) \cup {t} ELSE ofClient(i)
      BY <1>1, <1>2, <1>5, <1>6 DEF ofClient
    <2>3. t \notin ofClient(i) /\ releases'[t] = 0
      BY <1>1, <1>2, <1>5, <1>6 DEF ofClient, releases
    <2>4. releasedFor(i)' = SumFunctionOnSet(releases', ofClient(i)')
      BY Zenon DEF releasedFor, releases, ofClient
    <2>5. releasedFor(i)' = releasedFor(i)
      <3>1. CASE i = c
        <4>1. ofClient(i)' = ofClient(i) \cup {t}
          BY <2>2, <3>1
        <4>2. \A u \in ofClient(i) : releases[u] \in Int /\ releases'[u] = releases[u]
          BY <2>1, Releases
        <4>3. SumFunctionOnSet(releases', ofClient(i)')
                  = SumFunctionOnSet(releases, ofClient(i)) + releases'[t]
          BY <2>1, <2>3, <4>1, <4>2, Releases, SumPlus
        <4>4. SumFunctionOnSet(releases, ofClient(i)) \in Int
          BY <4>2, Releases, SumType
        <4> QED BY <2>3, <2>4, <4>3, <4>4, Releases
      <3>2. CASE i # c
        <4>1. ofClient(i)' = ofClient(i)
          BY <2>2, <3>2
        <4>2. SumFunctionOnSet(releases', ofClient(i)') = SumFunctionOnSet(releases, ofClient(i))
          BY <2>1, <4>1, Releases, SumKept
        <4> QED BY <2>4, <4>2, Releases
      <3> QED BY <3>1, <3>2
    <2> QED BY <1>3, <2>5 DEF SInv, BurnedIsPaid
  <1> QED BY <1>7, <1>8, <1>9, <1>10, <1>11, <1>12 DEF SInv

-----------------------------------------------------------------------------
\* The payouts.

\* The row of a divided escrow.
LEMMA PaidRow ==
    ASSUME SInv, NEW t \in Task, NEW target \in Paid, NEW settled \in 0..st[t].escrow
    PROVE  \E new \in SettlementRow :
               /\ new = paidOut(t, target, settled)
               /\ new.status = target /\ new.released = settled
               /\ new.refunded = st[t].escrow - settled /\ new.escrow = st[t].escrow
               /\ new.client = st[t].client /\ new.voucher = st[t].voucher
  <1>1. PICK c \in SettlementRow : c = st[t]
    BY DEF SInv, TypeOK
  <1>2. PICK r \in Nat : r = c.escrow - settled
    BY <1>1 DEF SettlementRow
  <1>3. target \in TaskStatus /\ settled \in Nat
    BY <1>1 DEF Paid, TaskStatus, SettlementRow
  <1>4. PICK r1 \in SettlementRow : r1 = [c EXCEPT !.status = target]
    BY <1>3 DEF SettlementRow
  <1>5. PICK r2 \in SettlementRow : r2 = [r1 EXCEPT !.released = settled]
    BY <1>3 DEF SettlementRow
  <1>6. PICK new \in SettlementRow : new = [r2 EXCEPT !.refunded = r]
    BY DEF SettlementRow
  <1>7. new = [c EXCEPT !.status = target, !.released = settled, !.refunded = r]
    BY Zenon, <1>4, <1>5, <1>6
  <1>8. new = paidOut(t, target, settled)
    BY Zenon, <1>1, <1>2, <1>7 DEF paidOut
  <1>9. /\ new.status = target /\ new.released = settled /\ new.refunded = r
        /\ new.escrow = c.escrow /\ new.client = c.client /\ new.voucher = c.voucher
    BY <1>7 DEF SettlementRow
  <1> QED BY <1>1, <1>2, <1>8, <1>9

\* What a resolution may do to the buyer's row, and that it keeps the credits.
LEMMA ResolvedCap ==
    ASSUME SInv, NEW i \in Identity, NEW e \in Nat, NEW settled \in Nat, NEW refunded \in Nat,
           settled + refunded = e, apply_capacity_resolution(i, e, settled, refunded)
    PROVE  /\ cap' \in [Identity -> CapRow] /\ CapacityOK'
           /\ \A j \in Identity : j # i => cap'[j] = cap[j]
           /\ cap'[i].burned <= cap[i].burned + settled
           /\ cap'[i].locked + cap'[i].burned + cap'[i].released
                  = cap[i].locked + cap[i].burned + cap[i].released
  <1>1. PICK c \in CapRow : c = cap[i]
    BY DEF SInv, TypeOK
  <1>2. CASE ~cap[i].exists
    <2>1. UNCHANGED cap
      BY <1>2 DEF apply_capacity_resolution
    <2> QED BY <1>1, <2>1, SameCap, Columns
  <1>3. CASE cap[i].exists
    <2>1. PICK row : row = resolvedRow(c, e, settled, refunded)
      OBVIOUS
    <2>2. writeCap(i, row)
      BY Zenon, <1>1, <1>3, <2>1 DEF apply_capacity_resolution, resolvedRow
    <2>3. /\ row \in IntRow /\ row.burned = c.burned + settled
          /\ row.locked = c.locked - e /\ row.released = c.released + refunded
      BY <2>1, ResolvedRow
    <2>4. /\ cap' \in [Identity -> CapRow] /\ CapacityOK'
          /\ cap'[i] = row /\ \A j \in Identity : j # i => cap'[j] = cap[j]
      BY <2>2, <2>3, CapWritten
    <2>5. c.burned \in Nat /\ c.locked \in Nat /\ c.released \in Nat
      BY Columns
    <2>6. /\ row.burned <= c.burned + settled
          /\ row.locked + row.burned + row.released = c.locked + c.burned + c.released
      <3>1. PICK b \in Nat, l \in Nat, r \in Nat : b = c.burned /\ l = c.locked /\ r = c.released
        BY Zenon, <2>5
      <3>2. PICK x, y, z : x = row.burned /\ y = row.locked /\ z = row.released
        BY Zenon
      <3>3. x = b + settled /\ y = l - e /\ z = r + refunded
        BY Zenon, <2>3, <3>1, <3>2
      <3>4. x <= b + settled /\ y + x + z = l + b + r
        BY <3>3
      <3> QED BY Zenon, <3>1, <3>2, <3>4
    <2> QED BY Zenon, <1>1, <2>4, <2>6
  <1> QED BY <1>2, <1>3

\* The linked voucher is used, the others stay.
LEMMA VoucherUsed ==
    ASSUME SettlementAssumption, SInv, NEW t \in Task, mark_voucher_used_if_linked(t)
    PROVE  /\ voucher' \in [Voucher -> VoucherRow]
           /\ \A w \in Voucher : /\ voucher'[w].buyer = voucher[w].buyer
                                 /\ voucher[w].status = "none" => voucher'[w].status = "none"
                                 /\ voucher[w].status = "used" => voucher'[w].status = "used"
                                 /\ voucher[w].status = "accepted"
                                       => voucher'[w].status \in {"accepted", "used"}
           /\ st[t].voucher # None => voucher'[st[t].voucher].status = "used"
  <1>1. voucher \in [Voucher -> VoucherRow]
    BY DEF SInv, TypeOK
  <1>2. PICK v \in Voucher \cup {None} : v = st[t].voucher
    BY DEF SInv, TypeOK, SettlementRow
  <1>3. v # None => v \in Voucher /\ voucher[v].status \in {"accepted", "used"}
    BY <1>2 DEF SInv, VouchersOK
  <1>4. CASE v # None /\ voucher[v].status = "accepted"
    <2>1. voucher' = [voucher EXCEPT ![v].status = "used"]
      BY <1>2, <1>4 DEF mark_voucher_used_if_linked
    <2> QED BY <1>1, <1>2, <1>3, <1>4, <2>1 DEF VoucherRow
  <1>5. CASE ~(v # None /\ voucher[v].status = "accepted")
    <2>1. voucher' = voucher
      BY <1>2, <1>5 DEF mark_voucher_used_if_linked
    <2> QED BY <1>1, <1>2, <1>3, <1>5, <2>1
  <1> QED BY <1>4, <1>5

\* A payout of an open settlement, by whichever route.
payout(t, target, settled) ==
    /\ st[t].status \in TaskStatus \ Paid
    /\ st' = [st EXCEPT ![t] = paidOut(t, target, settled)]
    /\ apply_capacity_resolution(st[t].client, st[t].escrow, settled, st[t].escrow - settled)
    /\ mark_voucher_used_if_linked(t)
    /\ UNCHANGED <<progress, evidence, delivery, paused>>
    /\ quota' \in [Profile -> QuotaRow] /\ intent' \in [Intent -> IntentRow]
    /\ \A n \in Intent : intent'[n].status = "settled" =>
           \/ intent[n].status = "settled" /\ intent'[n].task = intent[n].task
           \/ intent'[n].task = t /\ target = "settled"

\* A payout resolves the escrow of the client it belongs to, settled plus refunded.
LEMMA ResolvedParty ==
    ASSUME SInv, NEW t \in Task, NEW target \in Paid, NEW settled \in 0..st[t].escrow,
           payout(t, target, settled)
    PROVE  \E i \in Identity, e \in Nat, refunded \in Nat :
               /\ i = st[t].client /\ e = st[t].escrow /\ refunded = e - settled
               /\ settled \in Nat /\ settled + refunded = e
               /\ apply_capacity_resolution(i, e, settled, refunded)
  <1>1. PICK i \in Identity, e \in Nat : i = st[t].client /\ e = st[t].escrow
    BY DEF payout, SInv, TypeOK, RowsOK, SettlementRow, TaskStatus
  <1>2. PICK refunded \in Nat : refunded = e - settled
    BY <1>1
  <1>3. settled \in Nat /\ settled + refunded = e
    BY <1>1, <1>2
  <1> QED BY <1>1, <1>2, <1>3 DEF payout

\* A payout keeps the invariant: what it burns is what it marks as released.
LEMMA PayoutStep ==
    ASSUME SettlementAssumption, SInv, NEW t \in Task, NEW target \in Paid,
           NEW settled \in 0..st[t].escrow, payout(t, target, settled)
    PROVE  SInv'
  <1>1. PICK new \in SettlementRow :
            /\ new = paidOut(t, target, settled)
            /\ new.status = target /\ new.released = settled
            /\ new.refunded = st[t].escrow - settled /\ new.escrow = st[t].escrow
            /\ new.client = st[t].client /\ new.voucher = st[t].voucher
    BY PaidRow
  <1>2. st \in [Task -> SettlementRow] /\ st' = [st EXCEPT ![t] = new]
    BY <1>1 DEF SInv, TypeOK, payout
  <1>3. /\ st' \in [Task -> SettlementRow] /\ st'[t] = new
        /\ \A u \in Task : u # t => st'[u] = st[u]
    BY <1>2
  <1>4. PICK i \in Identity, e \in Nat, refunded \in Nat :
            /\ i = st[t].client /\ e = st[t].escrow /\ refunded = e - settled
            /\ settled \in Nat /\ settled + refunded = e
            /\ apply_capacity_resolution(i, e, settled, refunded)
    BY ResolvedParty
  <1>5. refunded = e - settled
    BY <1>4
  <1>6. settled \in Nat /\ settled + refunded = e /\ apply_capacity_resolution(i, e, settled, refunded)
    BY <1>4
  <1>7. /\ cap' \in [Identity -> CapRow] /\ CapacityOK'
        /\ \A j \in Identity : j # i => cap'[j] = cap[j]
        /\ cap'[i].burned <= cap[i].burned + settled
    BY <1>6, ResolvedCap
  <1>8. /\ voucher' \in [Voucher -> VoucherRow]
        /\ \A w \in Voucher : /\ voucher'[w].buyer = voucher[w].buyer
                              /\ voucher[w].status = "none" => voucher'[w].status = "none"
                              /\ voucher[w].status = "used" => voucher'[w].status = "used"
                              /\ voucher[w].status = "accepted"
                                    => voucher'[w].status \in {"accepted", "used"}
        /\ st[t].voucher # None => voucher'[st[t].voucher].status = "used"
    BY VoucherUsed DEF payout
  <1>9. TypeOK'
    BY <1>3, <1>7, <1>8 DEF SInv, TypeOK, payout
  <1>10. st[t].released = 0 /\ target \notin {"none"}
    BY DEF SInv, RowsOK, paid, Paid, payout
  <1>11. RowsOK'
    <2>1. /\ new.status # "none" /\ new.client \in Identity /\ new.status \in Paid
          /\ new.released + new.refunded = new.escrow
      BY <1>1, <1>4, <1>5, <1>6, <1>10
    <2> QED BY <1>3, <2>1 DEF SInv, RowsOK, paid
  <1>12. VouchersOK'
    <2>1. \A u \in Task : st'[u].voucher = st[u].voucher /\ st[u].voucher \in Voucher \cup {None}
      BY <1>1, <1>2, <1>3 DEF SettlementRow
    <2>2. \A u \in Task : st'[u].voucher # None =>
              voucher'[st'[u].voucher].status \in {"accepted", "used"}
      BY <1>8, <2>1 DEF SInv, VouchersOK
    <2>3. PaidVoucherIsUsed'
      BY <1>1, <1>3, <1>8, <2>1 DEF SInv, VouchersOK, PaidVoucherIsUsed
    <2>4. \A w \in Voucher : voucher'[w].status # "none" => voucher'[w].buyer \in Identity
      BY <1>8 DEF SInv, VouchersOK
    <2> QED BY <2>2, <2>3, <2>4 DEF VouchersOK
  <1>13. IntentsOK'
    BY <1>1, <1>3 DEF SInv, IntentsOK, TaskStatus, Paid, payout
  <1>14. BurnedIsPaid'
    <2> SUFFICES ASSUME NEW j \in Identity PROVE cap'[j].burned <= releasedFor(j)'
      BY DEF BurnedIsPaid
    <2>1. /\ \A u \in Task : releases'[u] \in Nat
          /\ \A u \in Task : u # t => releases'[u] = releases[u]
          /\ releases'[t] = settled /\ releases[t] = 0
      BY <1>1, <1>2, <1>3, <1>6, <1>10 DEF releases, SettlementRow
    <2>2. ofClient(j)' = ofClient(j) /\ (t \in ofClient(j) <=> j = i)
      BY <1>1, <1>3, <1>4 DEF ofClient
    <2>3. releasedFor(j)' = SumFunctionOnSet(releases', ofClient(j)')
      BY Zenon DEF releasedFor, releases, ofClient
    <2>4. cap[j].burned <= releasedFor(j) /\ cap[j].burned \in Nat
      BY Columns DEF SInv, BurnedIsPaid, TypeOK
    <2>5. CASE j = i
      <3>1. \A u \in ofClient(j) : releases[u] \in Int /\ releases'[u] \in Int
        BY <2>1, Releases
      <3>2. \A u \in ofClient(j) \ {t} : releases[u] = releases'[u]
        BY <2>1, Releases
      <3>3. SumFunctionOnSet(releases', ofClient(j))
                = (SumFunctionOnSet(releases, ofClient(j)) - releases[t]) + releases'[t]
        BY <2>1, <2>2, <2>5, ReleaseGrows
      <3>4. PICK s \in Int : s = SumFunctionOnSet(releases, ofClient(j))
        BY <3>1, Releases, SumType
      <3>5. releasedFor(j)' = s + settled
        BY <1>6, <2>1, <2>2, <2>3, <3>3, <3>4
      <3>6. releasedFor(j) = s
        BY <3>4, Releases
      <3>7. cap'[j].burned \in Nat
        BY <1>7, Columns
      <3> QED BY <1>6, <1>7, <2>4, <2>5, <3>5, <3>6, <3>7
    <2>6. CASE j # i
      <3>1. \A u \in ofClient(j) : releases'[u] = releases[u]
        BY <2>1, <2>2, <2>6, Releases
      <3>2. SumFunctionOnSet(releases', ofClient(j)') = SumFunctionOnSet(releases, ofClient(j))
        BY <2>2, <3>1, Releases, SumKept
      <3>3. releasedFor(j)' = releasedFor(j)
        BY <2>3, <3>2, Releases
      <3> QED BY <1>7, <2>4, <2>6, <3>3
    <2> QED BY <2>5, <2>6
  <1> QED BY <1>7, <1>9, <1>11, <1>12, <1>13, <1>14 DEF SInv

\* The only intents a payout settles are those of its task.
LEMMA IntentsSettled ==
    ASSUME SInv, NEW t \in Task, mark_intents_settled_for_task(t)
    PROVE  /\ intent' \in [Intent -> IntentRow]
           /\ \A n \in Intent : intent'[n].status = "settled" =>
                  \/ intent[n].status = "settled" /\ intent'[n].task = intent[n].task
                  \/ intent'[n].task = t
  <1>1. intent \in [Intent -> IntentRow]
    BY DEF SInv, TypeOK
  <1> QED BY <1>1 DEF mark_intents_settled_for_task, IntentRow

\* The quota gives back at most what is in progress.
LEMMA QuotaReleased ==
    ASSUME SettlementAssumption, SInv, NEW p \in Profile \cup {None}, NEW settled \in Nat,
           release_profile_credits(p, settled, 0)
    PROVE  quota' \in [Profile -> QuotaRow]
  <1>1. quota \in [Profile -> QuotaRow]
    BY DEF SInv, TypeOK
  <1>2. CASE p = None \/ ~quota[p].exists
    BY <1>1, <1>2 DEF release_profile_credits
  <1>3. CASE ~(p = None \/ ~quota[p].exists)
    <2>1. p \in Profile /\ quota[p] \in QuotaRow
      BY <1>1, <1>3
    <2>2. quota[p].inProgress \in Nat /\ quota[p].released \in Nat /\ quota[p].available \in Nat
      BY <2>1 DEF QuotaRow
    <2>3. PICK total \in Nat : /\ total = Min({settled + 0, quota[p].inProgress})
                               /\ total <= quota[p].inProgress
      BY <2>2, MinOfTwo
    <2>4. PICK out : out = IF settled + 0 = 0 THEN 0 ELSE (settled * total) \div (settled + 0)
      OBVIOUS
    <2>5. out \in 0..total
      <3>1. CASE settled = 0
        BY <2>4, <3>1
      <3>2. CASE settled # 0
        <4>1. (settled * total) \div settled = total
          BY <3>2
        <4> QED BY <2>4, <3>2, <4>1
      <3> QED BY <3>1, <3>2
    <2>6. PICK a \in Nat, b \in Nat, c \in Nat :
              /\ a = quota[p].inProgress - total /\ b = quota[p].released + out
              /\ c = quota[p].available + (total - out)
      BY <2>2, <2>3, <2>5
    <2>7. quota' = [quota EXCEPT ![p].inProgress = @ - total, ![p].released = @ + out,
                                 ![p].available = @ + (total - out)]
      BY Zenon, <1>3, <2>3, <2>4 DEF release_profile_credits
    <2>8. quota' = [quota EXCEPT ![p] = [quota[p] EXCEPT !.inProgress = a, !.released = b,
                                                         !.available = c]]
      BY <1>1, <2>1, <2>6, <2>7
    <2>9. [quota[p] EXCEPT !.inProgress = a, !.released = b, !.available = c] \in QuotaRow
      BY <2>1 DEF QuotaRow
    <2> QED BY <1>1, <2>8, <2>9
  <1> QED BY <1>2, <1>3

\* Every payout that ends in finalize.
LEMMA FinalizePays ==
    ASSUME SettlementAssumption, SInv, NEW t \in Task, NEW settled \in 0..st[t].escrow,
           finalize(t, "settled", settled), mark_intents_settled_for_task(t),
           quota' \in [Profile -> QuotaRow]
    PROVE  payout(t, "settled", settled)
  <1>1. "settled" \in Paid /\ "settled" \in TaskStatus \ {"frozen"}
    BY DEF Paid, TaskStatus
  <1>2. paidOut(t, "settled", settled).status = "settled"
    BY <1>1, PaidRow
  <1>3. /\ st[t].status # "none"
        /\ storable(st[t], paidOut(t, "settled", settled))
        /\ st' = [st EXCEPT ![t] = paidOut(t, "settled", settled)]
    BY Zenon DEF finalize, apply_transition
  <1>4. can_transition(st[t].status, "settled")
    BY <1>2, <1>3 DEF storable
  <1>5. st[t].status \in TaskStatus
    BY <1>3 DEF SInv, TypeOK, SettlementRow
  <1>6. st[t].status \in TaskStatus \ Paid
    BY <1>1, <1>4, <1>5, NoWayBack DEF TerminalStatus, Paid
  <1>7. /\ apply_capacity_resolution(st[t].client, st[t].escrow, settled, st[t].escrow - settled)
        /\ mark_voucher_used_if_linked(t) /\ UNCHANGED <<progress, evidence, delivery, paused>>
    BY Zenon DEF finalize
  <1> QED BY Zenon, <1>3, <1>6, <1>7, IntentsSettled DEF payout

\* What the split starts from.
LEMMA Confirmed ==
    ASSUME SInv, NEW t \in Task
    PROVE  st[t].escrow \in Nat /\ confirmed_progress_percent(t) \in 0..100
  BY DEF SInv, TypeOK, SettlementRow, ProgressRow, confirmed_progress_percent

\* A route that pays out, and asks for the receipt.
guardedPayout(t) ==
    \E target \in Paid, settled \in 0..st[t].escrow :
        payout(t, target, settled) /\ receiptForPayout(t, settled)

\* partial_settlement is a payout of a settlement that has its receipt.
LEMMA PartialPays ==
    ASSUME SettlementAssumption, SInv, NEW t \in Task, NEW pct \in Percent,
           partial_settlement(t, pct)
    PROVE  guardedPayout(t)
  <1>1. PICK settled \in 0..st[t].escrow : settled = share(st[t].escrow, pct)
    <2>1. pct \in 0..100
      BY DEF SettlementAssumption
    <2> QED BY <2>1, Confirmed, ShareBound
  <1>2. /\ finalize(t, "settled", settled) /\ receiptForPayout(t, settled)
        /\ mark_intents_settled_for_task(t) /\ UNCHANGED quota
    BY Zenon, <1>1 DEF partial_settlement
  <1>3. quota' \in [Profile -> QuotaRow]
    BY <1>2 DEF SInv, TypeOK
  <1> QED BY <1>2, <1>3, FinalizePays DEF guardedPayout, Paid

\* regret_settlement is a payout of a settlement that has its receipt.
LEMMA RegretPays ==
    ASSUME SettlementAssumption, SInv, NEW t \in Task, regret_settlement(t)
    PROVE  guardedPayout(t)
  <1>1. PICK settled \in 0..st[t].escrow :
            settled = share(st[t].escrow, confirmed_progress_percent(t))
    BY Confirmed, ShareBound
  <1>2. /\ finalize(t, "settled", settled) /\ receiptForPayout(t, settled)
        /\ mark_intents_settled_for_task(t) /\ UNCHANGED quota
    BY Zenon, <1>1 DEF regret_settlement
  <1>3. quota' \in [Profile -> QuotaRow]
    BY <1>2 DEF SInv, TypeOK
  <1> QED BY <1>2, <1>3, FinalizePays DEF guardedPayout, Paid

\* buyer_accept_settlement is a payout of a settlement that has its receipt.
LEMMA AcceptPays ==
    ASSUME SettlementAssumption, SInv, NEW t \in Task, buyer_accept_settlement(t)
    PROVE  guardedPayout(t)
  <1>1. PICK settled \in 0..st[t].escrow : settled = st[t].escrow
    BY Confirmed
  <1>2. /\ finalize(t, "settled", settled) /\ receiptForPayout(t, settled)
        /\ mark_intents_settled_for_task(t)
        /\ release_profile_credits(st[t].profile, settled, 0)
    BY Zenon, <1>1 DEF buyer_accept_settlement
  <1>3. st[t].profile \in Profile \cup {None} /\ settled \in Nat
    BY <1>1, Confirmed DEF SInv, TypeOK, SettlementRow
  <1>4. quota' \in [Profile -> QuotaRow]
    BY <1>2, <1>3, QuotaReleased
  <1> QED BY <1>2, <1>4, FinalizePays DEF guardedPayout, Paid

\* auto_arbitrate is a payout of a settlement that has its receipt.
LEMMA AutoArbitratePays ==
    ASSUME SettlementAssumption, SInv, NEW t \in Task, auto_arbitrate(t)
    PROVE  guardedPayout(t)
  <1>1. PICK settled \in 0..st[t].escrow : settled = adjust_auto_split_for_rules(t)
    <2>1. share(st[t].escrow, confirmed_progress_percent(t)) \in 0..st[t].escrow
      BY Confirmed, ShareBound
    <2>2. adjust_auto_split_for_rules(t) \in 0..st[t].escrow
      BY <2>1, Confirmed DEF adjust_auto_split_for_rules
    <2> QED BY <2>2
  <1>2. PICK target \in Paid : target = IF settled = 0 THEN "refunded" ELSE "settled"
    BY DEF Paid
  <1>3. /\ st[t].status # "none" /\ can_transition(st[t].status, "arbitrated")
        /\ st' = [st EXCEPT ![t] = paidOut(t, target, settled)]
        /\ apply_capacity_resolution(st[t].client, st[t].escrow, settled, st[t].escrow - settled)
        /\ mark_voucher_used_if_linked(t) /\ receiptForPayout(t, settled)
        /\ UNCHANGED <<quota, progress, evidence, delivery, paused>>
    BY Zenon, <1>1, <1>2 DEF auto_arbitrate
  <1>4. IF target = "settled" THEN mark_intents_settled_for_task(t) ELSE UNCHANGED intent
    BY Zenon, <1>1, <1>2 DEF auto_arbitrate
  <1>5. st[t].status \in TaskStatus /\ "arbitrated" \in TaskStatus \ {"frozen"}
    BY <1>3 DEF SInv, TypeOK, SettlementRow, TaskStatus
  <1>6. st[t].status \in TaskStatus \ Paid
    BY <1>3, <1>5, NoWayBack DEF TerminalStatus, Paid
  <1>7. /\ intent' \in [Intent -> IntentRow]
        /\ \A n \in Intent : intent'[n].status = "settled" =>
               \/ intent[n].status = "settled" /\ intent'[n].task = intent[n].task
               \/ intent'[n].task = t /\ target = "settled"
    BY <1>4, IntentsSettled DEF SInv, TypeOK
  <1>8. quota' \in [Profile -> QuotaRow]
    BY <1>3 DEF SInv, TypeOK
  <1>9. payout(t, target, settled)
    BY Zenon, <1>3, <1>6, <1>7, <1>8 DEF payout
  <1> QED BY <1>3, <1>9 DEF guardedPayout

\* The payout routes are the disputes and the guarded payouts.
LEMMA PayoutRoute ==
    ASSUME SettlementAssumption, SInv, PayoutRoutes
    PROVE  \E t \in Task : dispute(t) \/ guardedPayout(t)
  BY PartialPays, RegretPays, AcceptPays, AutoArbitratePays
  DEF PayoutRoutes, open_dispute, buyer_reject_settlement

-----------------------------------------------------------------------------
\* The invariant of the settlement routes.

\* The empty database satisfies the invariant.
LEMMA SInit == ASSUME SettlementAssumption, Init PROVE SInv
  <1>1. TypeOK
    <2>1. EmptyCap \in CapRow
      BY DEF EmptyCap, CapRow
    <2>2. NoQuota \in QuotaRow /\ NoVoucher \in VoucherRow
      BY DEF NoQuota, QuotaRow, NoVoucher, VoucherRow
    <2>3. NoSettlement \in SettlementRow
      BY DEF NoSettlement, SettlementRow
    <2>4. /\ [claimed |-> 0, state |-> "none"] \in ProgressRow
          /\ [receipt |-> "none", bundle |-> "none"] \in EvidenceRow
          /\ [status |-> "none", task |-> None] \in IntentRow
      BY DEF ProgressRow, EvidenceRow, IntentRow
    <2> QED BY <2>1, <2>2, <2>3, <2>4 DEF Init, TypeOK
  <1>2. \A t \in Task : st[t] = NoSettlement /\ st[t].status = "none" /\ st[t].released = 0
                        /\ st[t].voucher = None /\ st[t].client = None
    BY DEF Init, NoSettlement
  <1>3. RowsOK
    BY <1>2 DEF RowsOK, paid, Paid
  <1>4. CapacityOK
    BY DEF Init, CapacityOK, capacityInvariants, active_credits, EmptyCap
  <1>5. VouchersOK
    <2>1. \A v \in Voucher : voucher[v].status = "none"
      BY DEF Init, NoVoucher
    <2> QED BY <1>2, <2>1 DEF VouchersOK, PaidVoucherIsUsed
  <1>6. IntentsOK
    BY DEF Init, IntentsOK
  <1>7. BurnedIsPaid
    <2> SUFFICES ASSUME NEW i \in Identity PROVE cap[i].burned <= releasedFor(i)
      BY DEF BurnedIsPaid
    <2>1. cap[i].burned = 0
      BY DEF Init, EmptyCap
    <2>2. ofClient(i) = {}
      BY <1>2 DEF ofClient, SettlementAssumption
    <2>3. releasedFor(i) = SumFunctionOnSet(releases, {})
      BY Zenon, <2>2 DEF releasedFor, releases, ofClient
    <2> QED BY <2>1, <2>3, SumEmpty
  <1> QED BY <1>1, <1>3, <1>4, <1>5, <1>6, <1>7 DEF SInv

\* Every route keeps the invariant.
LEMMA SNext == ASSUME SettlementAssumption, SInv, [Next]_vars PROVE SInv'
  <1>1. CASE CapacityRoutes
    BY <1>1, LockUsdcStep, AllocateStep, PauseStep DEF CapacityRoutes
  <1>2. CASE VoucherRoutes
    BY <1>2, CreateVoucherStep, VoucherRowStep, AcceptStep, IntentStep DEF VoucherRoutes
  <1>3. CASE StatusRoutes
    BY <1>3, CreateSettlementStep, StatusRouteStep, LockSettlementStep DEF StatusRoutes
  <1>4. CASE EvidenceRoutes
    BY <1>4, ProgressStep, EvidenceStep DEF EvidenceRoutes
  <1>5. CASE PayoutRoutes
    BY <1>5, PayoutRoute, DisputeStep, PayoutStep DEF guardedPayout
  <1>6. CASE UNCHANGED vars
    <2>1. UNCHANGED <<cap, voucher, st, intent>> /\ UNCHANGED <<quota, progress, evidence, delivery, paused>>
      BY <1>6 DEF vars
    <2> QED BY <2>1, SideStep DEF SInv, TypeOK
  <1> QED BY <1>1, <1>2, <1>3, <1>4, <1>5, <1>6 DEF Next

-----------------------------------------------------------------------------
\* What a step does to the settlement rows.

\* A row that is not finished moves on, or a new one is written; the payments
\* it takes part in are the ones before, or the new one closes no cycle.
moves(t) ==
    \E new \in SettlementRow :
        /\ st' = [st EXCEPT ![t] = new] /\ UNCHANGED evidence
        /\ st[t].status \notin TerminalStatus /\ new.status \in TaskStatus \ Paid
        /\ new.released = 0
        /\ \/ new.worker = None
           \/ new.worker = st[t].worker /\ new.client = st[t].client
           \/ \E w \in Identity : /\ new.worker = w /\ new.client = st[t].client
                                  /\ w # st[t].client /\ ~closesCycle(t, st[t].client, w)

\* A transition to a status that pays nothing moves its own row only.
LEMMA StatusMoves ==
    ASSUME SInv, NEW t \in Task, NEW s \in TaskStatus \ (Paid \cup {"frozen"}),
           apply_transition(t, [st[t] EXCEPT !.status = s]), UNCHANGED evidence
    PROVE  moves(t)
  <1>1. st[t] \in SettlementRow
    BY DEF SInv, TypeOK
  <1>2. PICK new \in SettlementRow : new = [st[t] EXCEPT !.status = s]
    BY StatusRow
  <1>3. /\ new.status = s /\ new.client = st[t].client
        /\ new.worker = st[t].worker /\ new.released = st[t].released
    BY <1>1, <1>2 DEF SettlementRow
  <1>4. apply_transition(t, new)
    BY Zenon, <1>2
  <1>5. /\ st[t].status \in TaskStatus /\ st' = [st EXCEPT ![t] = new]
        /\ can_transition(st[t].status, s)
    BY <1>1, <1>3, <1>4 DEF apply_transition, storable, SettlementRow
  <1>6. st[t].status \notin TerminalStatus
    BY <1>5, NoWayBack
  <1>7. st[t].released = 0
    BY <1>6 DEF SInv, RowsOK, paid, Paid, TerminalStatus
  <1> QED BY <1>3, <1>5, <1>6, <1>7 DEF moves

\* Locking a settlement moves its own row only, and closes no cycle.
LEMMA LockMoves ==
    ASSUME SInv, NEW t \in Task, NEW w \in Identity, lock_settlement(t, w)
    PROVE  moves(t)
  <1>1. st[t] \in SettlementRow
    BY DEF SInv, TypeOK
  <1>2. PICK r1 \in SettlementRow : r1 = [st[t] EXCEPT !.status = "accepted"]
    BY StatusRow DEF TaskStatus
  <1>3. PICK new \in SettlementRow : new = [r1 EXCEPT !.worker = w]
    BY DEF SettlementRow
  <1>4. new = [st[t] EXCEPT !.status = "accepted", !.worker = w]
    BY Zenon, <1>2, <1>3
  <1>5. /\ new.status = "accepted" /\ new.client = st[t].client
        /\ new.worker = w /\ new.released = st[t].released
    BY <1>1, <1>4 DEF SettlementRow
  <1>6. apply_transition(t, new) /\ UNCHANGED evidence
    BY Zenon, <1>4 DEF lock_settlement, statusStep
  <1>7. w # st[t].client /\ ~closesCycle(t, st[t].client, w)
    BY Zenon DEF lock_settlement
  <1>8. /\ st[t].status \in TaskStatus /\ st' = [st EXCEPT ![t] = new]
        /\ can_transition(st[t].status, "accepted")
    BY <1>1, <1>5, <1>6 DEF apply_transition, storable, SettlementRow
  <1>9. "accepted" \in TaskStatus \ (Paid \cup {"frozen"})
    BY DEF TaskStatus, Paid
  <1>10. st[t].status \notin TerminalStatus
    BY <1>8, <1>9, NoWayBack
  <1>11. st[t].released = 0
    BY <1>10 DEF SInv, RowsOK, paid, Paid, TerminalStatus
  <1> QED BY <1>5, <1>6, <1>7, <1>8, <1>9, <1>10, <1>11 DEF moves

\* Creating a settlement moves its own row only.
LEMMA CreateMoves ==
    ASSUME SettlementAssumption, SInv, NEW t \in Task, NEW c \in Client, NEW e \in Amount,
           NEW v \in Voucher \cup {None}, NEW p \in Profile \cup {None},
           create_settlement(t, c, e, v, p)
    PROVE  moves(t)
  <1>1. PICK new \in SettlementRow :
            /\ st' = [st EXCEPT ![t] = new]
            /\ new.status = "draft" /\ new.released = 0 /\ new.worker = None
    BY NewRow
  <1>2. st[t].status = "none" /\ UNCHANGED evidence
    BY DEF create_settlement
  <1> QED BY <1>1, <1>2 DEF moves, TerminalStatus, TaskStatus, Paid

\* Every step keeps the rows and the successful receipts, moves one row on, or
\* pays one out.
LEMMA RowSteps ==
    ASSUME SettlementAssumption, SInv, [Next]_vars
    PROVE  \/ /\ UNCHANGED st
              /\ \A t \in Task : evidence[t].receipt = "success" => evidence'[t].receipt = "success"
           \/ \E t \in Task : moves(t)
           \/ \E t \in Task : guardedPayout(t)
  <1>1. CASE CapacityRoutes
    BY <1>1 DEF CapacityRoutes, lock_usdc, release_unused, allocate, setPauses
  <1>2. CASE VoucherRoutes
    BY <1>2 DEF VoucherRoutes, create_voucher, expire, accept_voucher, reject_voucher_row,
                create_payment_intent, bind_payment_intent, expire_stale_intents
  <1>3. CASE StatusRoutes
    <2>1. ASSUME NEW t \in Task,
                 \/ mark_settlement_pending(t) \/ start_settlement(t)
                 \/ submit_settlement(t) \/ fail_settlement(t)
          PROVE  moves(t)
      <3>1. PICK s \in {"pending", "in_progress", "delivered", "cancelled"} :
                statusStep(t, [st[t] EXCEPT !.status = s])
        BY Zenon, <2>1 DEF mark_settlement_pending, start_settlement, submit_settlement,
                           fail_settlement
      <3>2. s \in TaskStatus \ (Paid \cup {"frozen"})
        BY DEF TaskStatus, Paid
      <3>3. apply_transition(t, [st[t] EXCEPT !.status = s]) /\ UNCHANGED evidence
        BY Zenon, <3>1 DEF statusStep
      <3> QED BY Zenon, <3>2, <3>3, StatusMoves
    <2> QED BY <1>3, <2>1, LockMoves, CreateMoves DEF StatusRoutes
  <1>4. CASE EvidenceRoutes
    <2>1. ASSUME NEW t \in Task,
                 \/ \E pct \in Percent, state \in ProgressState :
                        submit_progress_receipt(t, pct, state)
                 \/ confirm_progress_receipt(t)
          PROVE  moves(t)
      <3>1. PICK s \in {"progress_submitted", "progress_confirmed"} :
                apply_transition(t, [st[t] EXCEPT !.status = s])
        BY Zenon, <2>1 DEF submit_progress_receipt, confirm_progress_receipt
      <3>2. s \in TaskStatus \ (Paid \cup {"frozen"})
        BY DEF TaskStatus, Paid
      <3>3. UNCHANGED evidence
        BY <2>1 DEF submit_progress_receipt, confirm_progress_receipt
      <3> QED BY Zenon, <3>1, <3>2, <3>3, StatusMoves
    <2>2. ASSUME NEW t \in Task, \/ \E r \in ReceiptStatus : submit_receipt(t, r)
                                 \/ \E b \in BundleVerdict : submit_bundle(t, b)
                                 \/ deliverySession(t)
          PROVE  /\ UNCHANGED st
                 /\ \A u \in Task : evidence[u].receipt = "success"
                                       => evidence'[u].receipt = "success"
      <3>1. evidence \in [Task -> EvidenceRow]
        BY DEF SInv, TypeOK
      <3> QED BY <2>2, <3>1 DEF EvidenceRow, submit_receipt, submit_bundle, deliverySession
    <2> QED BY <1>4, <2>1, <2>2 DEF EvidenceRoutes
  <1>5. CASE PayoutRoutes
    <2>1. ASSUME NEW t \in Task, dispute(t) PROVE moves(t)
      <3>1. "disputed" \in TaskStatus \ (Paid \cup {"frozen"})
        BY DEF TaskStatus, Paid
      <3>2. apply_transition(t, [st[t] EXCEPT !.status = "disputed"]) /\ UNCHANGED evidence
        BY Zenon, <2>1 DEF dispute
      <3> QED BY Zenon, <3>1, <3>2, StatusMoves
    <2> QED BY <1>5, <2>1, PayoutRoute
  <1>6. CASE UNCHANGED vars
    BY <1>6 DEF vars
  <1> QED BY <1>1, <1>2, <1>3, <1>4, <1>5, <1>6 DEF Next

\* With a receipt or without.
anyPayout(t) ==
    \E target \in Paid, settled \in 0..st[t].escrow : payout(t, target, settled)

rowStep == UNCHANGED st \/ \E t \in Task : moves(t) \/ anyPayout(t)

\* Every route moves one row, pays one row, or leaves the rows alone.
LEMMA RouteIsRowStep ==
    ASSUME SettlementAssumption, SInv, [Next]_vars
    PROVE  rowStep
  BY RowSteps DEF rowStep, guardedPayout, anyPayout

\* A paid row never changes again, and no row becomes unused.
LEMMA PaidRowsStay ==
    ASSUME SInv, rowStep
    PROVE  \A t \in Task : /\ paid(t) => st'[t] = st[t]
                           /\ st[t].status # "none" => st'[t].status # "none"
  <1>1. st \in [Task -> SettlementRow]
    BY DEF SInv, TypeOK
  <1>2. CASE \E t \in Task : moves(t)
    <2>1. PICK t \in Task, new \in SettlementRow :
              /\ st' = [st EXCEPT ![t] = new]
              /\ st[t].status \notin TerminalStatus /\ new.status \in TaskStatus \ Paid
      BY <1>2 DEF moves
    <2> QED BY <1>1, <2>1 DEF paid, Paid, TerminalStatus, TaskStatus
  <1>3. CASE \E t \in Task : anyPayout(t)
    <2> PICK t \in Task : anyPayout(t)
      BY <1>3
    <2>1. PICK target \in Paid, settled \in 0..st[t].escrow : payout(t, target, settled)
      BY DEF anyPayout
    <2>2. PICK new \in SettlementRow : new = paidOut(t, target, settled) /\ new.status = target
      BY PaidRow
    <2>3. st' = [st EXCEPT ![t] = new] /\ st[t].status \notin Paid
      BY <2>1, <2>2 DEF payout
    <2> QED BY <1>1, <2>2, <2>3 DEF paid, Paid
  <1> QED BY <1>2, <1>3 DEF rowStep

\* A payout releases what the receipt attests.
LEMMA ReceiptStep ==
    ASSUME SettlementAssumption, SInv, PaidOnlyWithReceipt, [Next]_vars
    PROVE  PaidOnlyWithReceipt'
  <1>1. st \in [Task -> SettlementRow]
    BY DEF SInv, TypeOK
  <1>2. CASE \E t \in Task : moves(t)
    <2>1. PICK t \in Task, new \in SettlementRow :
              st' = [st EXCEPT ![t] = new] /\ new.released = 0 /\ UNCHANGED evidence
      BY <1>2 DEF moves
    <2>2. st'[t].released = 0 /\ \A u \in Task : u # t => st'[u] = st[u]
      BY <1>1, <2>1
    <2> QED BY <2>1, <2>2 DEF PaidOnlyWithReceipt
  <1>3. CASE \E t \in Task : guardedPayout(t)
    <2> PICK t \in Task : guardedPayout(t)
      BY <1>3
    <2>1. PICK target \in Paid, settled \in 0..st[t].escrow :
              payout(t, target, settled) /\ receiptForPayout(t, settled)
      BY DEF guardedPayout
    <2>2. PICK new \in SettlementRow : new = paidOut(t, target, settled) /\ new.released = settled
      BY PaidRow
    <2>3. st' = [st EXCEPT ![t] = new] /\ UNCHANGED evidence
      BY <2>1, <2>2 DEF payout
    <2>4. st'[t].released = settled /\ \A u \in Task : u # t => st'[u] = st[u]
      BY <1>1, <2>2, <2>3
    <2> QED BY <2>1, <2>3, <2>4 DEF PaidOnlyWithReceipt, receiptForPayout
  <1> QED BY <1>2, <1>3, RowSteps DEF PaidOnlyWithReceipt

\* Locking apart, no step changes locked + burned + released of anyone.
creditsKept ==
    \A i \in Identity : cap'[i].locked + cap'[i].burned + cap'[i].released
                            = cap[i].locked + cap[i].burned + cap[i].released

\* A payout moves credits between columns and burns the rest: none appears or vanishes.
LEMMA PayoutKeepsCredits ==
    ASSUME SInv, NEW t \in Task, NEW target \in Paid, NEW settled \in 0..st[t].escrow,
           payout(t, target, settled)
    PROVE  creditsKept
  <1>1. PICK i \in Identity, e \in Nat, refunded \in Nat :
            /\ settled \in Nat /\ settled + refunded = e
            /\ apply_capacity_resolution(i, e, settled, refunded)
    BY ResolvedParty
  <1> QED BY <1>1, ResolvedCap DEF creditsKept

\* release_unused moves available credits to released.
LEMMA ReleaseKeepsCredits ==
    ASSUME SettlementAssumption, SInv, NEW i \in Client, NEW a \in Amount, release_unused(i, a)
    PROVE  creditsKept
  <1>1. i \in Identity /\ a \in Nat
    BY DEF SettlementAssumption
  <1>2. PICK c \in CapRow : c = cap[i]
    BY <1>1 DEF SInv, TypeOK
  <1>3. PICK row : row = [c EXCEPT !.available = @ - a, !.bill = @ - a, !.locked = @ - a,
                                   !.released = @ + a]
    OBVIOUS
  <1>4. writeCap(i, row)
    BY Zenon, <1>2, <1>3 DEF release_unused
  <1>5. /\ row \in IntRow /\ row.burned = c.burned
        /\ row.locked = c.locked - a /\ row.released = c.released + a
    BY Zenon, <1>1, <1>3, UnusedRow
  <1>6. cap'[i] = row /\ \A j \in Identity : j # i => cap'[j] = cap[j]
    BY <1>1, <1>4, <1>5, CapWritten
  <1>7. row.locked + row.burned + row.released = c.locked + c.burned + c.released
    BY <1>1, <1>5, Columns
  <1> QED BY <1>2, <1>6, <1>7 DEF creditsKept

\* lock_usdc is the one route that adds credits.
LEMMA LockAddsCredits ==
    ASSUME SettlementAssumption, SInv, NEW i \in Client, NEW a \in Amount, lock_usdc(i, a)
    PROVE  CreditsConserved
  <1>1. i \in Identity /\ a \in Nat
    BY DEF SettlementAssumption
  <1>2. PICK c \in CapRow : c = cap[i]
    BY <1>1 DEF SInv, TypeOK
  <1>3. PICK row : row = [c EXCEPT !.exists = TRUE, !.locked = @ + a, !.bill = @ + a,
                                   !.available = @ + a]
    OBVIOUS
  <1>4. writeCap(i, row)
    BY Zenon, <1>2, <1>3 DEF lock_usdc
  <1>5. /\ row \in IntRow /\ row.burned = c.burned
        /\ row.locked = c.locked + a /\ row.released = c.released
        /\ row.available = c.available + a
    BY Zenon, <1>1, <1>3, LockedRow
  <1>6. cap'[i] = row /\ \A j \in Identity : j # i => cap'[j] = cap[j]
    BY <1>1, <1>4, <1>5, CapWritten
  <1>7. row.locked + row.burned + row.released = (c.locked + c.burned + c.released) + a
    BY <1>1, <1>5, Columns
  <1> QED BY <1>2, <1>5, <1>6, <1>7 DEF CreditsConserved

\* Every route conserves the credits.
LEMMA CreditsStep ==
    ASSUME SettlementAssumption, SInv, [Next]_vars
    PROVE  CreditsConserved
  <1>1. creditsKept => CreditsConserved
    BY DEF creditsKept, CreditsConserved
  <1>2. UNCHANGED cap => creditsKept
    BY DEF creditsKept
  <1>3. CASE CapacityRoutes
    BY <1>1, <1>2, <1>3, ReleaseKeepsCredits, LockAddsCredits DEF CapacityRoutes, allocate, setPauses
  <1>4. CASE VoucherRoutes
    <2>1. ASSUME NEW v \in Voucher, accept_voucher(v) PROVE creditsKept
      <3>1. voucher[v].status # "none"
        BY <2>1 DEF accept_voucher, acceptable
      <3>2. PICK i \in Identity, a \in Nat : i = voucher[v].buyer /\ a = voucher[v].amount
        BY <3>1 DEF SInv, TypeOK, VouchersOK, VoucherRow
      <3>3. writeCap(i, [cap[i] EXCEPT !.available = @ - a, !.reserved = @ + a])
        BY Zenon, <2>1, <3>2 DEF accept_voucher, reserve
      <3> QED BY Zenon, <3>3, ReservedCap DEF movedCap, creditsKept
    <2> QED BY <1>1, <1>2, <1>4, <2>1
            DEF VoucherRoutes, create_voucher, expire, reject_voucher_row,
                create_payment_intent, bind_payment_intent, expire_stale_intents
  <1>5. CASE StatusRoutes
    BY <1>1, <1>2, <1>5 DEF StatusRoutes, create_settlement, mark_settlement_pending, lock_settlement,
                            start_settlement, submit_settlement, fail_settlement, statusStep
  <1>6. CASE EvidenceRoutes
    BY <1>1, <1>2, <1>6 DEF EvidenceRoutes, submit_progress_receipt, confirm_progress_receipt,
                            submit_receipt, submit_bundle, deliverySession
  <1>7. CASE PayoutRoutes
    <2>1. ASSUME NEW t \in Task, dispute(t) PROVE creditsKept
      <3>1. PICK i \in Identity, e \in Nat : i = st[t].client /\ e = st[t].escrow
        BY <2>1 DEF SInv, TypeOK, RowsOK, SettlementRow, dispute
      <3>2. move_reserved_to_disputed(i, e)
        BY <2>1, <3>1 DEF dispute
      <3> QED BY Zenon, <3>2, DisputedCap DEF movedCap, creditsKept
    <2>2. ASSUME NEW t \in Task, guardedPayout(t) PROVE creditsKept
      BY <2>2, PayoutKeepsCredits DEF guardedPayout
    <2> QED BY <1>1, <1>7, <2>1, <2>2, PayoutRoute
  <1>8. CASE UNCHANGED vars
    BY <1>1, <1>2, <1>8 DEF vars
  <1> QED BY <1>3, <1>4, <1>5, <1>6, <1>7, <1>8 DEF Next

-----------------------------------------------------------------------------
\* The anchor audit and the payment cycles.

\* No more credits than locked USDC, of one identity or of all of them.
LEMMA AnchorHolds == ASSUME SettlementAssumption, SInv PROVE ~anchorBreached
  <1> DEFINE bills  == [i \in Identity |-> cap[i].bill]
             locked == [i \in Identity |-> cap[i].locked]
  <1>1. \A i \in Identity : bills[i] \in Int /\ locked[i] \in Int /\ bills[i] <= locked[i]
    BY DEF SInv, TypeOK, CapRow, CapacityOK, capacityInvariants, active_credits
  <1>2. IsFiniteSet(Identity)
    BY DEF SettlementAssumption
  <1>3. SumFunctionOnSet(bills, Identity) <= SumFunctionOnSet(locked, Identity)
    <2> HIDE DEF bills, locked
    <2> QED BY <1>1, <1>2, SumMonotone
  <1>4. SumFunctionOnSet(bills, Identity) \in Int /\ SumFunctionOnSet(locked, Identity) \in Int
    <2> HIDE DEF bills, locked
    <2> QED BY <1>1, <1>2, SumType
  <1>5. anchorBreached <=> SumFunctionOnSet(bills, Identity) > SumFunctionOnSet(locked, Identity)
    BY Zenon DEF anchorBreached
  <1> HIDE DEF bills, locked
  <1> QED BY <1>3, <1>4, <1>5

\* What the search finds holds its start and follows the edges.
LEMMA Reach ==
    ASSUME NEW edges, NEW x \in Identity
    PROVE  /\ x \in reach(edges, x)
           /\ \A e \in edges : e[1] \in reach(edges, x) /\ e[2] \in Identity
                                  => e[2] \in reach(edges, x)
  BY DEF reach

openPayments == {t \in Task : st[t].worker # None /\ st[t].status \notin TerminalStatus}

\* A set of tasks whose workers are all clients of the set.
circular(S) == \A t \in S : \E u \in S : st[u].client = st[t].worker

\* Payments are acyclic when no nonempty set of them is circular.
LEMMA Acyclic ==
    AcyclicPayments <=> \A S \in SUBSET openPayments : circular(S) => S = {}
  BY DEF AcyclicPayments, openPayments, circular

\* A payment that closes no cycle leaves the payments acyclic.
LEMMA NewPayment ==
    ASSUME SettlementAssumption, SInv, AcyclicPayments, NEW t \in Task, NEW w \in Identity,
           st'[t].worker = w, st'[t].client = st[t].client, w # st[t].client,
           ~closesCycle(t, st[t].client, w),
           \A u \in Task : u # t => st'[u] = st[u]
    PROVE  AcyclicPayments'
  <1> DEFINE R == reach(paymentEdges(t), w)
  <1>1. w \in R /\ st[t].client \notin R
    BY Reach DEF closesCycle
  <1>2. SUFFICES ASSUME NEW S \in SUBSET openPayments', circular(S)'
                 PROVE  S = {}
    BY DEF AcyclicPayments, openPayments, circular
  <1>3. \A u \in S : u \in Task /\ (u # t => u \in openPayments)
    BY DEF openPayments
  <1> DEFINE Q == {u \in S : u # t /\ st[u].client \in R}
  <1>4. \A u \in S : u # t /\ st[u].client \in R => st[u].worker \in R
    <2> SUFFICES ASSUME NEW u \in S, u # t, st[u].client \in R PROVE st[u].worker \in R
      OBVIOUS
    <2>1. u \in openPayments /\ st[u] \in SettlementRow
      BY <1>3 DEF SInv, TypeOK
    <2>2. st[u].worker \in Identity
      BY <2>1 DEF openPayments, SettlementRow
    <2>3. <<st[u].client, st[u].worker>> \in paymentEdges(t)
      BY <1>3, <2>1 DEF paymentEdges, openPayments
    <2>4. PICK e \in paymentEdges(t) : e[1] = st[u].client /\ e[2] = st[u].worker
      BY <2>3
    <2> QED BY <2>2, <2>4, Reach
  <1>5. \A u \in S : st'[u].client = st[u].client
    BY <1>3
  <1>6. \A u \in S : u # t => st'[u].worker = st[u].worker
    BY <1>3
  <1>7. Q = {}
    <2>1. Q \in SUBSET openPayments
      BY <1>3
    <2>2. ASSUME NEW u \in Q PROVE \E x \in Q : st[x].client = st[u].worker
      <3>1. PICK x \in S : st'[x].client = st'[u].worker
        BY <1>2, <2>2 DEF circular
      <3>2. st[x].client = st[u].worker
        BY <1>5, <1>6, <2>2, <3>1
      <3>3. st[x].client \in R
        BY <1>4, <2>2, <3>2
      <3> QED BY <1>1, <2>2, <3>1, <3>2, <3>3
    <2>3. circular(Q)
      BY <2>2 DEF circular
    <2> HIDE DEF Q
    <2> QED BY <2>1, <2>3, Acyclic
  <1>8. t \notin S
    <2> SUFFICES ASSUME t \in S PROVE FALSE
      OBVIOUS
    <2>1. PICK x \in S : st'[x].client = w
      BY <1>2 DEF circular
    <2>2. x # t /\ st[x].client \in R
      BY <1>1, <1>5, <2>1
    <2> QED BY <1>7, <2>1, <2>2
  <1>9. S \in SUBSET openPayments /\ circular(S)
    BY <1>2, <1>3, <1>5, <1>6, <1>8 DEF circular
  <1> QED BY <1>9, Acyclic

\* Payments that end, or never start, leave the rest acyclic.
LEMMA FewerPayments ==
    ASSUME AcyclicPayments,
           \A u \in openPayments' : /\ u \in openPayments /\ st'[u].client = st[u].client
                                    /\ st'[u].worker = st[u].worker
    PROVE  AcyclicPayments'
  <1>1. SUFFICES ASSUME NEW S \in SUBSET openPayments', circular(S)'
                 PROVE  S = {}
    BY DEF AcyclicPayments, openPayments, circular
  <1>2. S \in SUBSET openPayments /\ circular(S)
    BY <1>1 DEF circular
  <1> QED BY <1>2, Acyclic

\* Every route keeps the payments acyclic.
LEMMA AcyclicStep ==
    ASSUME SettlementAssumption, SInv, AcyclicPayments, rowStep
    PROVE  AcyclicPayments'
  <1>1. st \in [Task -> SettlementRow]
    BY DEF SInv, TypeOK
  <1>2. CASE UNCHANGED st
    BY <1>2, FewerPayments DEF openPayments
  <1>3. CASE \E t \in Task : moves(t)
    <2>1. PICK t \in Task, new \in SettlementRow :
              /\ st' = [st EXCEPT ![t] = new] /\ st[t].status \notin TerminalStatus
              /\ \/ new.worker = None
                 \/ new.worker = st[t].worker /\ new.client = st[t].client
                 \/ \E w \in Identity :
                        /\ new.worker = w /\ new.client = st[t].client
                        /\ w # st[t].client /\ ~closesCycle(t, st[t].client, w)
      BY <1>3 DEF moves
    <2>2. st'[t] = new /\ \A u \in Task : u # t => st'[u] = st[u]
      BY <1>1, <2>1
    <2>3. CASE new.worker = None
      BY <2>2, <2>3, FewerPayments DEF openPayments
    <2>4. CASE new.worker = st[t].worker /\ new.client = st[t].client
      BY <2>1, <2>2, <2>4, FewerPayments DEF openPayments
    <2>5. CASE \E w \in Identity :
                   /\ new.worker = w /\ new.client = st[t].client
                   /\ w # st[t].client /\ ~closesCycle(t, st[t].client, w)
      BY <2>2, <2>5, NewPayment
    <2> QED BY <2>1, <2>3, <2>4, <2>5
  <1>4. CASE \E t \in Task : anyPayout(t)
    <2> PICK t \in Task : anyPayout(t)
      BY <1>4
    <2>1. PICK target \in Paid, settled \in 0..st[t].escrow : payout(t, target, settled)
      BY DEF anyPayout
    <2>2. PICK new \in SettlementRow : new = paidOut(t, target, settled) /\ new.status = target
      BY PaidRow
    <2>3. st' = [st EXCEPT ![t] = new]
      BY <2>1, <2>2 DEF payout
    <2>4. st'[t] = new /\ \A u \in Task : u # t => st'[u] = st[u]
      BY <1>1, <2>3
    <2> QED BY <2>2, <2>4, FewerPayments DEF openPayments, Paid, TerminalStatus
  <1> QED BY <1>2, <1>3, <1>4 DEF rowStep

-----------------------------------------------------------------------------
\* The arbitration pool.

Outcome == {"buyer_wins", "seller_wins", "partial"}

\* A case has its columns; once decided it has one of three outcomes, its votes
\* are of assigned arbitrators, and it belongs to a task that exists.
CaseOK(c, row) ==
    /\ c = [status |-> c.status, required |-> c.required, assigned |-> c.assigned,
            votes |-> c.votes, outcome |-> c.outcome, percent |-> c.percent,
            materials |-> c.materials]
    /\ c.votes \in [Arbitrator -> [decision : Outcome \cup {"none"}, percent : 0..100]]
    /\ c.percent \in 0..100
    /\ voted(c.votes) \subseteq c.assigned
    /\ c.status \in {"decided", "executed"} =>
          /\ c.outcome \in Outcome
          /\ Cardinality(voted(c.votes)) >= c.required
          /\ c.outcome = decide(c.votes).outcome
    /\ c.status # "none" => row.status # "none"

\* The settlement of an executed case.
ExecOK(c, row) ==
    c.status = "executed" =>
        \/ /\ c.outcome = "buyer_wins" /\ row.status = "refunded" /\ row.released = 0
        \/ /\ c.outcome = "seller_wins" /\ row.status = "settled" /\ row.released = row.escrow
        \/ /\ c.outcome = "partial" /\ row.status = "settled"
           /\ row.released = share(row.escrow, c.percent)

\* The inductive invariant with arbitration.
AInv ==
    /\ SInv
    /\ case \in [Task -> {case[t] : t \in Task}]
    /\ \A t \in Task : CaseOK(case[t], st[t]) /\ ExecOK(case[t], st[t])

\* The invariant says who decided a closed case.
LEMMA AInvDecides == AInv => DecidedByAssigned
  BY DEF AInv, CaseOK, DecidedByAssigned, finalized

\* The invariant says what an executed case paid.
LEMMA AInvExecutes == AInv => ExecutedAsDecided
  BY DEF AInv, ExecOK, ExecutedAsDecided

\* The mean of percentages is a percentage.
LEMMA MeanOfVotes ==
    ASSUME NEW S, IsFiniteSet(S), S # {}, NEW f, \A a \in S : f[a] \in 0..100
    PROVE  SumFunctionOnSet(f, S) \div Cardinality(S) \in 0..100
  <1>1. PICK n \in Nat : n = Cardinality(S) /\ n > 0
    BY FS_CardinalityType, FS_EmptySet
  <1>2. PICK total : total = SumFunctionOnSet(f, S)
    OBVIOUS
  <1>3. total \in Nat
    BY <1>2, SumOfNaturals
  <1>4. total <= 100 * n
    BY <1>1, <1>2, SumBound
  <1>5. total \div n \in 0..100
    BY <1>1, <1>3, <1>4
  <1> QED BY <1>1, <1>2, <1>5

\* decide returns an outcome and a percentage.
LEMMA DecideType ==
    ASSUME ArbitrationAssumption,
           NEW votes \in [Arbitrator -> [decision : Outcome \cup {"none"}, percent : 0..100]]
    PROVE  decide(votes).outcome \in Outcome /\ decide(votes).percent \in 0..100
  <1> DEFINE partial == votesFor(votes, "partial")
             f == [a \in partial |-> votes[a].percent]
  <1>1. IsFiniteSet(partial) /\ \A a \in partial : f[a] \in 0..100
    BY FS_Subset DEF ArbitrationAssumption, votesFor
  <1>2. partial # {} => SumFunctionOnSet(f, partial) \div Cardinality(partial) \in 0..100
    <2> HIDE DEF f, partial
    <2> QED BY <1>1, MeanOfVotes
  <1>3. decide(votes).outcome \in Outcome
    BY DEF decide, Outcome
  <1>4. PICK mean : mean = SumFunctionOnSet(f, partial) \div Cardinality(partial)
    OBVIOUS
  <1>5. PICK even \in BOOLEAN :
            even = ~(Cardinality(votesFor(votes, "buyer_wins")) # Cardinality(votesFor(votes, "seller_wins")))
    OBVIOUS
  <1>6. decide(votes).percent = IF ~even THEN 0 ELSE IF partial = {} THEN 50 ELSE mean
    BY Zenon, <1>4, <1>5 DEF decide
  <1>7. decide(votes).percent \in 0..100
    <2> HIDE DEF f, partial
    <2> QED BY <1>2, <1>4, <1>6
  <1> QED BY <1>3, <1>7

\* One case is rewritten, or none.
LEMMA CaseRewritten ==
    ASSUME SettlementAssumption, AInv, rowStep, SInv', NEW t \in Task, NEW row,
           case' = [case EXCEPT ![t] = row], CaseOK(row, st'[t]), ExecOK(row, st'[t])
    PROVE  AInv'
  <1>1. case \in [Task -> {case[u] : u \in Task}]
    BY DEF AInv
  <1>2. case'[t] = row /\ \A u \in Task : u # t => case'[u] = case[u]
    BY <1>1
  <1>3. case' \in [Task -> {case'[u] : u \in Task}]
    BY <1>1
  <1>4. \A u \in Task : /\ paid(u) => st'[u] = st[u]
                        /\ st[u].status # "none" => st'[u].status # "none"
    BY PaidRowsStay DEF AInv
  <1>5. \A u \in Task : CaseOK(case'[u], st'[u])
    BY <1>2, <1>4 DEF AInv, CaseOK
  <1>6. \A u \in Task : ExecOK(case'[u], st'[u])
    BY <1>2, <1>4 DEF AInv, ExecOK, paid, Paid
  <1> QED BY <1>3, <1>5, <1>6 DEF AInv

\* A settlement route that leaves the cases alone keeps the arbitration invariant.
LEMMA CasesKept ==
    ASSUME SettlementAssumption, AInv, rowStep, SInv', UNCHANGED case
    PROVE  AInv'
  <1>1. \A u \in Task : /\ paid(u) => st'[u] = st[u]
                        /\ st[u].status # "none" => st'[u].status # "none"
    BY PaidRowsStay DEF AInv
  <1>2. \A u \in Task : CaseOK(case'[u], st'[u])
    BY <1>1 DEF AInv, CaseOK
  <1>3. \A u \in Task : ExecOK(case'[u], st'[u])
    BY <1>1 DEF AInv, ExecOK, paid, Paid
  <1> QED BY <1>2, <1>3 DEF AInv

\* The parts of SInv under a step that leaves the settlement state alone.
LEMMA SettlementKept ==
    ASSUME SettlementAssumption, SInv, UNCHANGED vars
    PROVE  SInv' /\ rowStep
  BY SNext DEF rowStep, vars

\* A new case turns a dispute into an arbitration.
LEMMA CreateCaseRows ==
    ASSUME SettlementAssumption, SInv, NEW t \in Task, NEW n, create_arbitration_case(t, n)
    PROVE  SInv' /\ rowStep /\ UNCHANGED cap /\ st'[t].status # "none"
  <1>1. UNCHANGED <<cap, quota, voucher, progress, evidence, delivery, intent, paused>>
    BY DEF create_arbitration_case
  <1>2. st \in [Task -> SettlementRow] /\ st[t].status \in {"disputed", "arbitrated"}
    BY DEF create_arbitration_case, SInv, TypeOK
  <1>3. CASE st[t].status = "disputed"
    <2>1. "arbitrated" \in TaskStatus \ (Paid \cup {"frozen"})
      BY DEF TaskStatus, Paid
    <2>2. apply_transition(t, [st[t] EXCEPT !.status = "arbitrated"])
      BY Zenon, <1>3 DEF create_arbitration_case
    <2>3. progress' \in [Task -> ProgressRow]
      BY <1>1 DEF SInv, TypeOK
    <2>4. SInv'
      BY Zenon, <1>1, <2>1, <2>2, <2>3, SameCap, StatusMove
    <2>5. moves(t)
      BY Zenon, <1>1, <2>1, <2>2, StatusMoves
    <2>6. rowStep
      BY <2>5 DEF rowStep
    <2> QED BY Zenon, <1>1, <1>2, <1>3, <2>4, <2>6, PaidRowsStay
  <1>4. CASE st[t].status = "arbitrated"
    <2>1. UNCHANGED st
      BY <1>4 DEF create_arbitration_case
    <2>2. UNCHANGED vars
      BY <1>1, <2>1 DEF vars
    <2> QED BY <1>1, <1>4, <2>1, <2>2, SettlementKept
  <1> QED BY <1>2, <1>3, <1>4

\* Opening a case keeps the arbitration invariant.
LEMMA CreateCaseStep ==
    ASSUME SettlementAssumption, AInv, NEW t \in Task, NEW n, create_arbitration_case(t, n)
    PROVE  AInv'
  <1>1. PICK row : row = [NoCase EXCEPT !.status = "open", !.required = n]
    OBVIOUS
  <1>2. row = [status |-> "open", required |-> n, assigned |-> {},
               votes |-> [a \in Arbitrator |-> NoVote], outcome |-> "none",
               percent |-> 0, materials |-> {}]
    BY <1>1 DEF NoCase
  <1>3. SInv' /\ rowStep /\ st'[t].status # "none"
    BY CreateCaseRows DEF AInv
  <1>4. /\ row.status = "open" /\ row.percent = 0 /\ row.assigned = {}
        /\ row.votes = [a \in Arbitrator |-> NoVote]
    BY <1>2
  <1>5. voted(row.votes) = {} /\ row.votes \in
            [Arbitrator -> [decision : Outcome \cup {"none"}, percent : 0..100]]
    BY <1>4 DEF voted, NoVote
  <1>6. row = [status |-> row.status, required |-> row.required, assigned |-> row.assigned,
               votes |-> row.votes, outcome |-> row.outcome, percent |-> row.percent,
               materials |-> row.materials]
    BY <1>2
  <1>7. CaseOK(row, st'[t]) /\ ExecOK(row, st'[t])
    BY <1>3, <1>4, <1>5, <1>6 DEF CaseOK, ExecOK
  <1>8. case' = [case EXCEPT ![t] = row]
    BY Zenon, <1>1 DEF create_arbitration_case
  <1> QED BY <1>3, <1>7, <1>8, CaseRewritten

\* Assignment and material change neither votes nor decision.
LEMMA AssignStep ==
    ASSUME SettlementAssumption, AInv, NEW t \in Task, NEW n \in AssignCount,
           assign_arbitrators(t, n)
    PROVE  AInv'
  <1>1. PICK c : c = case[t]
    OBVIOUS
  <1>2. PICK more : case' = [case EXCEPT ![t] = [c EXCEPT !.assigned = c.assigned \cup more,
                                                         !.status = "voting"]]
    <2>1. \E more : case' = [case EXCEPT ![t] = [case[t] EXCEPT
                                !.assigned = case[t].assigned \cup more, !.status = "voting"]]
      BY Zenon DEF assign_arbitrators
    <2> QED BY Zenon, <1>1, <2>1
  <1>3. CaseOK(c, st[t])
    BY <1>1 DEF AInv
  <1>4. c = [status |-> c.status, required |-> c.required, assigned |-> c.assigned,
             votes |-> c.votes, outcome |-> c.outcome, percent |-> c.percent,
             materials |-> c.materials]
    BY Zenon, <1>3 DEF CaseOK
  <1>5. PICK row : row = [c EXCEPT !.assigned = c.assigned \cup more, !.status = "voting"]
    OBVIOUS
  <1>6. row = [status |-> "voting", required |-> c.required, assigned |-> c.assigned \cup more,
               votes |-> c.votes, outcome |-> c.outcome, percent |-> c.percent,
               materials |-> c.materials]
    BY <1>4, <1>5
  <1>7. SInv' /\ rowStep /\ UNCHANGED st
    BY SettlementKept DEF AInv, assign_arbitrators, vars
  <1>8. /\ row.status = "voting" /\ row.assigned = c.assigned \cup more /\ row.votes = c.votes
        /\ row.percent = c.percent /\ row.outcome = c.outcome
    BY <1>6
  <1>9. row = [status |-> row.status, required |-> row.required, assigned |-> row.assigned,
               votes |-> row.votes, outcome |-> row.outcome, percent |-> row.percent,
               materials |-> row.materials]
    BY <1>6
  <1>10. c.status # "none"
    BY <1>1 DEF assign_arbitrators
  <1>11. CaseOK(row, st'[t]) /\ ExecOK(row, st'[t])
    BY <1>3, <1>7, <1>8, <1>9, <1>10 DEF CaseOK, ExecOK
  <1>12. case' = [case EXCEPT ![t] = row]
    BY Zenon, <1>2, <1>5
  <1> QED BY <1>7, <1>11, <1>12, CaseRewritten

\* Submitting material keeps the arbitration invariant.
LEMMA MaterialStep ==
    ASSUME SettlementAssumption, AInv, NEW t \in Task, NEW m, submit_material(t, m)
    PROVE  AInv'
  <1>1. PICK c : c = case[t]
    OBVIOUS
  <1>2. case \in [Task -> {case[u] : u \in Task}] /\ CaseOK(c, st[t]) /\ ExecOK(c, st[t])
    BY <1>1 DEF AInv
  <1>3. PICK all : all = c.materials \cup {m}
    OBVIOUS
  <1>4. PICK row : row = [c EXCEPT !.materials = all]
    OBVIOUS
  <1>5. case' = [case EXCEPT ![t] = row]
    BY Zenon, <1>1, <1>3, <1>4 DEF submit_material
  <1>6. c = [status |-> c.status, required |-> c.required, assigned |-> c.assigned,
             votes |-> c.votes, outcome |-> c.outcome, percent |-> c.percent,
             materials |-> c.materials]
    BY Zenon, <1>2 DEF CaseOK
  <1>7. row = [status |-> c.status, required |-> c.required, assigned |-> c.assigned,
               votes |-> c.votes, outcome |-> c.outcome, percent |-> c.percent,
               materials |-> all]
    BY <1>4, <1>6
  <1>8. SInv' /\ rowStep /\ UNCHANGED st
    BY SettlementKept DEF AInv, submit_material, vars
  <1>9. /\ row.status = c.status /\ row.required = c.required /\ row.assigned = c.assigned
        /\ row.votes = c.votes /\ row.outcome = c.outcome /\ row.percent = c.percent
    BY <1>7
  <1>10. row = [status |-> row.status, required |-> row.required, assigned |-> row.assigned,
                votes |-> row.votes, outcome |-> row.outcome, percent |-> row.percent,
                materials |-> row.materials]
    BY <1>7
  <1>11. CaseOK(row, st'[t]) /\ ExecOK(row, st'[t])
    BY <1>2, <1>8, <1>9, <1>10 DEF CaseOK, ExecOK
  <1> QED BY <1>5, <1>8, <1>11, CaseRewritten

\* A vote of an assigned arbitrator; the one that completes the number decides.
LEMMA VoteStep ==
    ASSUME SettlementAssumption, ArbitrationAssumption, AInv, NEW t \in Task,
           NEW a \in Arbitrator, NEW d \in Outcome, NEW pct \in 0..100, cast_vote(t, a, d, pct)
    PROVE  AInv'
  <1>1. PICK c : c = case[t]
    OBVIOUS
  <1>2. CaseOK(c, st[t]) /\ c.status \notin {"none", "decided", "executed"} /\ a \in c.assigned
    BY <1>1 DEF AInv, cast_vote, finalized
  <1>3. PICK votes : votes = [c.votes EXCEPT ![a] = [decision |-> d, percent |-> pct]]
    OBVIOUS
  <1>4. votes \in [Arbitrator -> [decision : Outcome \cup {"none"}, percent : 0..100]]
    BY <1>2, <1>3 DEF CaseOK
  <1>5. voted(votes) \subseteq c.assigned
    BY <1>2, <1>3 DEF CaseOK, voted
  <1> DEFINE enough == Cardinality(voted(votes)) >= c.required
  <1>6. PICK s, o, p : /\ s = IF enough THEN "decided"
                              ELSE IF c.status = "open" THEN "voting" ELSE c.status
                       /\ o = IF enough THEN decide(votes).outcome ELSE c.outcome
                       /\ p = IF enough THEN decide(votes).percent ELSE c.percent
    OBVIOUS
  <1>7. PICK row : row = [c EXCEPT !.votes = votes, !.status = s, !.outcome = o, !.percent = p]
    OBVIOUS
  <1>8. case' = [case EXCEPT ![t] = row]
    BY Zenon, <1>1, <1>3, <1>6, <1>7 DEF cast_vote
  <1>9. c = [status |-> c.status, required |-> c.required, assigned |-> c.assigned,
              votes |-> c.votes, outcome |-> c.outcome, percent |-> c.percent,
              materials |-> c.materials]
    BY Zenon, <1>2 DEF CaseOK
  <1>10. row = [status |-> s, required |-> c.required, assigned |-> c.assigned,
                votes |-> votes, outcome |-> o, percent |-> p, materials |-> c.materials]
    BY <1>7, <1>9
  <1>11. /\ row.status = s /\ row.required = c.required /\ row.assigned = c.assigned
         /\ row.votes = votes /\ row.outcome = o /\ row.percent = p
    BY <1>10
  <1>12. row = [status |-> row.status, required |-> row.required, assigned |-> row.assigned,
                votes |-> row.votes, outcome |-> row.outcome, percent |-> row.percent,
                materials |-> row.materials]
    BY <1>10
  <1>13. SInv' /\ rowStep /\ UNCHANGED st
    BY SettlementKept DEF AInv, cast_vote, vars
  <1>14. p \in 0..100 /\ (enough => o \in Outcome /\ o = decide(votes).outcome)
    BY <1>2, <1>4, <1>6, DecideType DEF CaseOK
  <1>15. s \in {"decided", "executed"} => enough
    BY <1>2, <1>6
  <1>16. s # "executed" /\ st'[t].status # "none"
    BY <1>2, <1>6, <1>13 DEF CaseOK
  <1>17. CaseOK(row, st'[t])
    BY <1>4, <1>5, <1>11, <1>12, <1>14, <1>15, <1>16 DEF CaseOK
  <1>18. ExecOK(row, st'[t])
    BY <1>11, <1>16 DEF ExecOK
  <1> QED BY <1>8, <1>13, <1>17, <1>18, CaseRewritten

\* What a decision gives the seller is a share of the escrow.
LEMMA DecidedShare ==
    ASSUME AInv, NEW t \in Task, case[t].status = "decided"
    PROVE  /\ case[t].outcome \in Outcome /\ st[t].status # "none"
           /\ decidedSplit(t) \in 0..st[t].escrow
  <1>1. case[t].outcome \in Outcome /\ st[t].status # "none" /\ case[t].percent \in 0..100
    BY DEF AInv, CaseOK
  <1>2. st[t].escrow \in Nat
    BY Confirmed DEF AInv
  <1>3. share(st[t].escrow, case[t].percent) \in 0..st[t].escrow
    BY <1>1, <1>2, ShareBound
  <1>4. decidedSplit(t) = IF case[t].outcome = "buyer_wins" THEN 0
                          ELSE IF case[t].outcome = "seller_wins" THEN st[t].escrow
                          ELSE share(st[t].escrow, case[t].percent)
    BY <1>1 DEF decidedSplit, Outcome
  <1> QED BY <1>1, <1>2, <1>3, <1>4

\* The execution pays out the task, if no other route has.
LEMMA ExecutePays ==
    ASSUME SettlementAssumption, AInv, NEW t \in Task, execute_arbitration_case(t)
    PROVE  \E target \in Paid, settled \in 0..st[t].escrow :
               /\ payout(t, target, settled)
               /\ settled = decidedSplit(t)
               /\ target = IF case[t].outcome = "buyer_wins" THEN "refunded" ELSE "settled"
  <1>1. case[t].status = "decided"
    BY DEF execute_arbitration_case
  <1>2. PICK settled \in 0..st[t].escrow : settled = decidedSplit(t)
    BY <1>1, DecidedShare
  <1>3. PICK target \in Paid :
            target = IF case[t].outcome = "buyer_wins" THEN "refunded" ELSE "settled"
    BY DEF Paid
  <1>4. PICK from : from = IF st[t].status = "disputed" THEN "arbitrated" ELSE st[t].status
    OBVIOUS
  <1>5. /\ can_transition(from, target)
        /\ st' = [st EXCEPT ![t] = paidOut(t, target, settled)]
        /\ apply_capacity_resolution(st[t].client, st[t].escrow, settled, st[t].escrow - settled)
        /\ mark_voucher_used_if_linked(t)
        /\ UNCHANGED <<quota, progress, evidence, delivery, intent, paused>>
    BY Zenon, <1>2, <1>3, <1>4 DEF execute_arbitration_case
  <1>6. st[t].status \in TaskStatus /\ from \in TaskStatus /\ target \in TaskStatus \ {"frozen"}
    BY <1>1, <1>4, DecidedShare DEF AInv, SInv, TypeOK, SettlementRow, TaskStatus, Paid
  <1>7. st[t].status \in TaskStatus \ Paid
    BY <1>4, <1>5, <1>6, NoWayBack DEF TerminalStatus, Paid
  <1>8. quota' \in [Profile -> QuotaRow] /\ intent' \in [Intent -> IntentRow] /\ intent' = intent
    BY <1>5 DEF AInv, SInv, TypeOK
  <1>9. payout(t, target, settled)
    BY <1>5, <1>7, <1>8 DEF payout
  <1> QED BY <1>2, <1>3, <1>9

\* Executing a decision keeps the arbitration invariant and is a payout of the rows.
LEMMA ExecuteStep ==
    ASSUME SettlementAssumption, AInv, NEW t \in Task, execute_arbitration_case(t)
    PROVE  AInv' /\ rowStep
  <1>1. PICK target \in Paid, settled \in 0..st[t].escrow :
            /\ payout(t, target, settled)
            /\ settled = decidedSplit(t)
            /\ target = IF case[t].outcome = "buyer_wins" THEN "refunded" ELSE "settled"
    BY ExecutePays
  <1>2. SInv' /\ rowStep
    BY <1>1, PayoutStep DEF AInv, rowStep, anyPayout
  <1>3. PICK c : c = case[t]
    OBVIOUS
  <1>4. /\ CaseOK(c, st[t]) /\ c.status = "decided" /\ c.outcome \in Outcome
        /\ st[t].status # "none"
    BY <1>3, DecidedShare DEF AInv, execute_arbitration_case
  <1>5. PICK row : row = [c EXCEPT !.status = "executed"]
    OBVIOUS
  <1>6. case' = [case EXCEPT ![t] = row]
    BY Zenon, <1>3, <1>5 DEF execute_arbitration_case
  <1>7. c = [status |-> c.status, required |-> c.required, assigned |-> c.assigned,
             votes |-> c.votes, outcome |-> c.outcome, percent |-> c.percent,
             materials |-> c.materials]
    BY Zenon, <1>4 DEF CaseOK
  <1>8. row = [status |-> "executed", required |-> c.required, assigned |-> c.assigned,
               votes |-> c.votes, outcome |-> c.outcome, percent |-> c.percent,
               materials |-> c.materials]
    BY <1>5, <1>7
  <1>9. /\ row.status = "executed" /\ row.required = c.required /\ row.assigned = c.assigned
        /\ row.votes = c.votes /\ row.outcome = c.outcome /\ row.percent = c.percent
    BY <1>8
  <1>10. row = [status |-> row.status, required |-> row.required, assigned |-> row.assigned,
                votes |-> row.votes, outcome |-> row.outcome, percent |-> row.percent,
                materials |-> row.materials]
    BY <1>8
  <1>11. PICK new \in SettlementRow :
             /\ new = paidOut(t, target, settled)
             /\ new.status = target /\ new.released = settled /\ new.escrow = st[t].escrow
    BY PaidRow DEF AInv
  <1>12. st'[t] = new
    BY <1>1, <1>11 DEF payout, AInv, SInv, TypeOK
  <1>13. CaseOK(row, st'[t])
    BY <1>4, <1>9, <1>10, <1>11, <1>12 DEF CaseOK, Paid
  <1>14. ExecOK(row, st'[t])
    <2>1. settled = IF c.outcome = "buyer_wins" THEN 0
                    ELSE IF c.outcome = "seller_wins" THEN st[t].escrow
                    ELSE share(st[t].escrow, c.percent)
      BY <1>1, <1>3, <1>4 DEF decidedSplit, Outcome
    <2> QED BY <1>1, <1>3, <1>4, <1>9, <1>11, <1>12, <2>1 DEF ExecOK, Outcome
  <1> QED BY <1>2, <1>6, <1>13, <1>14, CaseRewritten

\* No case is open at the start.
LEMMA AInit == ASSUME SettlementAssumption, ArbInit PROVE AInv
  <1>1. SInv /\ case = [t \in Task |-> NoCase]
    BY SInit DEF ArbInit
  <1>2. voted(NoCase.votes) = {}
    BY DEF voted, NoCase, NoVote
  <1>3. NoCase.votes \in [Arbitrator -> [decision : Outcome \cup {"none"}, percent : 0..100]]
    BY DEF NoCase, NoVote
  <1>4. \A t \in Task : CaseOK(NoCase, st[t]) /\ ExecOK(NoCase, st[t])
    BY <1>2, <1>3 DEF CaseOK, ExecOK, NoCase
  <1> QED BY <1>1, <1>4 DEF AInv

\* Every arbitration action and every route keeps the arbitration invariant.
LEMMA ANext ==
    ASSUME SettlementAssumption, ArbitrationAssumption, AInv, [ArbNext]_<<vars, arbVars>>
    PROVE  AInv' /\ rowStep
  <1>1. AInv' => SInv'
    BY DEF AInv
  <1>2. SInv
    BY DEF AInv
  <1>3. ASSUME UNCHANGED vars PROVE rowStep
    BY <1>2, <1>3, SettlementKept
  <1>4. CASE Next /\ UNCHANGED arbVars
    <2>1. SInv' /\ rowStep
      BY <1>2, <1>4, SNext, RouteIsRowStep
    <2> QED BY <1>4, <2>1, CasesKept DEF arbVars
  <1>5. CASE \E a \in Arbitrator : join_arbitration_pool(a) \/ deactivate(a)
    <2>1. UNCHANGED vars /\ UNCHANGED case
      BY <1>5 DEF join_arbitration_pool, deactivate
    <2> QED BY <1>2, <2>1, SettlementKept, CasesKept
  <1>6. CASE \E t \in Task, n \in Required : create_arbitration_case(t, n)
    BY <1>2, <1>6, CreateCaseStep, CreateCaseRows
  <1>7. CASE \E t \in Task, n \in AssignCount : assign_arbitrators(t, n)
    BY <1>3, <1>7, AssignStep DEF assign_arbitrators
  <1>8. CASE \E t \in Task, m \in Package : submit_material(t, m)
    BY <1>3, <1>8, MaterialStep DEF submit_material
  <1>9. ASSUME NEW t \in Task, NEW a \in Arbitrator, NEW d \in Outcome, NEW pct \in 0..100,
               cast_vote(t, a, d, pct)
        PROVE  AInv' /\ rowStep
    BY <1>3, <1>9, VoteStep DEF cast_vote
  <1>10. CASE \E t \in Task, a \in Arbitrator, d \in {"buyer_wins", "seller_wins"} :
                  cast_vote(t, a, d, 0)
    BY <1>9, <1>10 DEF Outcome
  <1>11. CASE \E t \in Task, a \in Arbitrator, pct \in Percent : cast_vote(t, a, "partial", pct)
    <2>1. Percent \subseteq 0..100
      BY DEF SettlementAssumption
    <2> QED BY <1>9, <1>11, <2>1 DEF Outcome
  <1>12. CASE \E t \in Task : execute_arbitration_case(t)
    BY <1>12, ExecuteStep
  <1>13. CASE UNCHANGED <<vars, arbVars>>
    BY <1>2, <1>13, SettlementKept, CasesKept DEF arbVars
  <1> QED BY <1>4, <1>5, <1>6, <1>7, <1>8, <1>10, <1>11, <1>12, <1>13 DEF ArbNext

\* No arbitration action adds or loses credits.
LEMMA ArbCredits ==
    ASSUME SettlementAssumption, AInv, [ArbNext]_<<vars, arbVars>>
    PROVE  CreditsConserved
  <1>1. creditsKept => CreditsConserved
    BY DEF creditsKept, CreditsConserved
  <1>2. UNCHANGED cap => creditsKept
    BY DEF creditsKept
  <1>3. SInv
    BY DEF AInv
  <1>4. ASSUME NEW t \in Task, execute_arbitration_case(t) PROVE creditsKept
    BY <1>3, <1>4, ExecutePays, PayoutKeepsCredits
  <1>5. CASE Next
    BY <1>3, <1>5, CreditsStep
  <1>6. CASE ~Next
    <2>1. UNCHANGED cap \/ \E t \in Task : execute_arbitration_case(t)
      BY <1>6 DEF ArbNext, vars, join_arbitration_pool, deactivate, create_arbitration_case,
                  assign_arbitrators, submit_material, cast_vote
    <2> QED BY <1>1, <1>2, <1>4, <2>1
  <1> QED BY <1>5, <1>6

\* A decision once made stays as it is.
LEMMA DecisionStays ==
    ASSUME AInv, [ArbNext]_<<vars, arbVars>>
    PROVE  DecisionFinal
  <1>1. case \in [Task -> {case[t] : t \in Task}]
    BY DEF AInv
  <1>2. CASE UNCHANGED case
    BY <1>2 DEF DecisionFinal
  <1>3. ASSUME NEW t \in Task, NEW row, case' = [case EXCEPT ![t] = row],
               \/ ~finalized(t)
               \/ /\ row.votes = case[t].votes /\ row.outcome = case[t].outcome
                  /\ row.percent = case[t].percent
        PROVE  DecisionFinal
    BY <1>1, <1>3 DEF DecisionFinal
  <1>4. ASSUME NEW t \in Task PROVE CaseOK(case[t], st[t])
    BY DEF AInv
  <1>5. CASE \E t \in Task, n \in Required : create_arbitration_case(t, n)
    BY <1>3, <1>5 DEF create_arbitration_case, finalized
  <1>6. CASE \E t \in Task, n \in AssignCount : assign_arbitrators(t, n)
    BY <1>3, <1>6 DEF assign_arbitrators
  <1>7. CASE \E t \in Task, m \in Package : submit_material(t, m)
    <2>1. PICK t \in Task, m \in Package : submit_material(t, m)
      BY <1>7
    <2>2. PICK c, all : c = case[t] /\ all = c.materials \cup {m}
      OBVIOUS
    <2>3. PICK row : row = [c EXCEPT !.materials = all]
      OBVIOUS
    <2>4. case' = [case EXCEPT ![t] = row]
      BY Zenon, <2>1, <2>2, <2>3 DEF submit_material
    <2>5. row.votes = c.votes /\ row.outcome = c.outcome /\ row.percent = c.percent
      BY <1>4, <2>2, <2>3 DEF CaseOK
    <2> QED BY <1>3, <2>2, <2>4, <2>5
  <1>8. CASE \E t \in Task, a \in Arbitrator : \E d, pct : cast_vote(t, a, d, pct)
    <2>1. PICK t \in Task, a \in Arbitrator : \E d, pct : cast_vote(t, a, d, pct)
      BY <1>8
    <2>2. ~finalized(t) /\ \E row : case' = [case EXCEPT ![t] = row]
      BY Zenon, <2>1 DEF cast_vote
    <2> QED BY <1>3, <2>2
  <1>9. CASE \E t \in Task : execute_arbitration_case(t)
    <2>1. PICK t \in Task : execute_arbitration_case(t)
      BY <1>9
    <2>2. PICK c : c = case[t]
      OBVIOUS
    <2>3. PICK row : row = [c EXCEPT !.status = "executed"]
      OBVIOUS
    <2>4. case' = [case EXCEPT ![t] = row]
      BY Zenon, <2>1, <2>2, <2>3 DEF execute_arbitration_case
    <2>5. row.votes = c.votes /\ row.outcome = c.outcome /\ row.percent = c.percent
      BY <1>4, <2>2, <2>3 DEF CaseOK
    <2> QED BY <1>3, <2>2, <2>4, <2>5
  <1> QED BY <1>2, <1>5, <1>6, <1>7, <1>8, <1>9
          DEF ArbNext, arbVars, join_arbitration_pool, deactivate

-----------------------------------------------------------------------------
\* The theorems. Spec is the settlement routes alone, ArbSpec the routes with
\* the arbitration pool.

\* The rows are well formed, every capacity row passes its own check and the
\* other parts of SInv hold, for any interleaving of the settlement routes.
THEOREM SettlementInvariant == ASSUME SettlementAssumption PROVE Spec => []SInv
  <1>1. Init => SInv
    BY SInit
  <1>2. SInv /\ [Next]_vars => SInv'
    BY SNext
  <1> QED BY <1>1, <1>2, PTL DEF Spec

\* The same with the arbitration pool, whose decisions and executions keep
\* their own invariant.
THEOREM ArbitrationInvariant ==
    ASSUME SettlementAssumption, ArbitrationAssumption PROVE ArbSpec => []AInv
  <1>1. ArbInit => AInv
    BY AInit
  <1>2. AInv /\ [ArbNext]_<<vars, arbVars>> => AInv'
    BY ANext
  <1> QED BY <1>1, <1>2, PTL DEF ArbSpec

\* What left a buyer's capacity towards sellers is never more than what the
\* buyer's settlements were paid; a payout closes its voucher, and an intent is
\* settled only with its task. All routes and the arbitration pool together.
THEOREM MoneyFollowsTasks ==
    ASSUME SettlementAssumption, ArbitrationAssumption
    PROVE  ArbSpec => [](TypeOK /\ BurnedIsPaid /\ PaidVoucherIsUsed /\ IntentFollowsTask)
  <1>1. AInv => TypeOK /\ BurnedIsPaid /\ PaidVoucherIsUsed /\ IntentFollowsTask
    BY DEF AInv, SInv, VouchersOK, IntentsOK, IntentFollowsTask
  <1> QED BY <1>1, ArbitrationInvariant, PTL

\* There are never more credits than locked USDC: the anchor audit that runs
\* before and after every guarded request never has to trip.
THEOREM AnchorNeverBreached ==
    ASSUME SettlementAssumption, ArbitrationAssumption PROVE ArbSpec => []~anchorBreached
  <1>1. AInv => ~anchorBreached
    BY AnchorHolds DEF AInv
  <1> QED BY <1>1, ArbitrationInvariant, PTL

\* However locks, payouts, failures and arbitrations interleave, the payments
\* of the unfinished settlements never form a directed cycle.
THEOREM PaymentsStayAcyclic ==
    ASSUME SettlementAssumption, ArbitrationAssumption PROVE ArbSpec => []AcyclicPayments
  <1>1. ArbInit => AcyclicPayments
    <2>1. ArbInit => openPayments = {}
      BY DEF ArbInit, Init, NoSettlement, openPayments
    <2> QED BY <2>1, Acyclic
  <1>2. AInv /\ AcyclicPayments /\ [ArbNext]_<<vars, arbVars>> => AcyclicPayments'
    BY ANext, AcyclicStep DEF AInv
  <1> QED BY <1>1, <1>2, ArbitrationInvariant, PTL DEF ArbSpec

\* Credits only enter through lock_usdc, whichever bucket a route moves them to.
THEOREM CreditsAlwaysConserved ==
    ASSUME SettlementAssumption, ArbitrationAssumption
    PROVE  ArbSpec => [][CreditsConserved]_<<vars, arbVars>>
  <1>1. AInv /\ [ArbNext]_<<vars, arbVars>> => [CreditsConserved]_<<vars, arbVars>>
    BY ArbCredits
  <1> QED BY <1>1, ArbitrationInvariant, PTL DEF ArbSpec

\* A settlement that was paid out or refunded keeps its split, and the split is
\* the escrow: no second payout, dispute or arbitration of the same task.
THEOREM PayoutsAreFinal ==
    ASSUME SettlementAssumption, ArbitrationAssumption
    PROVE  ArbSpec => [][PayoutFinal]_<<vars, arbVars>>
  <1>1. AInv /\ [ArbNext]_<<vars, arbVars>> => [PayoutFinal]_<<vars, arbVars>>
    BY ANext, PaidRowsStay DEF AInv, SInv, RowsOK, PayoutFinal, paid, Paid
  <1> QED BY <1>1, ArbitrationInvariant, PTL DEF ArbSpec

\* No route of the settlement service pays a seller without a successful
\* execution receipt. Arbitration asks for none, so this is of Spec alone.
THEOREM PaymentsNeedReceipts ==
    ASSUME SettlementAssumption PROVE Spec => []PaidOnlyWithReceipt
  <1>1. Init => PaidOnlyWithReceipt
    BY DEF Init, NoSettlement, PaidOnlyWithReceipt
  <1>2. SInv /\ PaidOnlyWithReceipt /\ [Next]_vars => PaidOnlyWithReceipt'
    BY ReceiptStep
  <1> QED BY <1>1, <1>2, SettlementInvariant, PTL DEF Spec

\* A decision rests on the required number of votes, all of assigned members,
\* and what was executed is what was decided and stays what the settlement says.
THEOREM DecisionsAreCarriedOut ==
    ASSUME SettlementAssumption, ArbitrationAssumption
    PROVE  ArbSpec => [](DecidedByAssigned /\ ExecutedAsDecided)
  <1>1. AInv => DecidedByAssigned /\ ExecutedAsDecided
    BY AInvDecides, AInvExecutes
  <1> QED BY <1>1, ArbitrationInvariant, PTL

\* Once a case is decided its votes and its outcome never change.
THEOREM DecisionsAreFinal ==
    ASSUME SettlementAssumption, ArbitrationAssumption
    PROVE  ArbSpec => [][DecisionFinal]_<<vars, arbVars>>
  <1>1. AInv /\ [ArbNext]_<<vars, arbVars>> => [DecisionFinal]_<<vars, arbVars>>
    BY DecisionStays
  <1> QED BY <1>1, ArbitrationInvariant, PTL DEF ArbSpec


=============================================================================
