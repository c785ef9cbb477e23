-------------------------- MODULE A2ABridgeProofs --------------------------
(* The bridge carries out a signed operation at most once, for any number of  *)
(* wallets, tasks, nonces and requests.  The nonce and the event are written  *)
(* in two transactions, so the log alone does not say which nonces are spent: *)
(* the invariant adds that the nonce of the request under way is in the table *)
(* and not yet in the log.  A task follows the log: its snapshot is a fold    *)
(* over it, which is taken apart one event at a time.                         *)
EXTENDS A2ABridge, SumTheorems, TLAPS

Key(s) == <<s.agent, s.nonce>>

TypeInv ==
    /\ signed \subseteq Signatures
    /\ log \in Seq(Events)
    /\ busy \in Events \cup {Nil}
    /\ IsFiniteSet(karma)

\* Every event of the log was signed and its nonce is in the table.
LogSpent == \A i \in DOMAIN log : log[i].sig \in signed /\ Key(log[i].sig) \in used

\* The request under way was signed, and its nonce is in the table on its own
\* account.
BusySpent ==
    busy # Nil => /\ busy.sig \in signed /\ Key(busy.sig) \in used
                  /\ \A i \in DOMAIN log : Key(log[i].sig) # Key(busy.sig)

KeysOnce == \A i, j \in DOMAIN log : Key(log[i].sig) = Key(log[j].sig) => i = j

IInv == TypeInv /\ LogSpent /\ BusySpent /\ KeysOnce

-----------------------------------------------------------------------------
\* What appending does to the positions of a log.
LEMMA AppendPositions ==
    ASSUME NEW S, NEW s \in Seq(S), NEW e \in S
    PROVE  /\ Append(s, e) \in Seq(S)
           /\ Len(Append(s, e)) = Len(s) + 1
           /\ DOMAIN s = 1..Len(s) /\ DOMAIN Append(s, e) = 1..(Len(s) + 1)
           /\ \A i \in 1..Len(s) : Append(s, e)[i] = s[i]
           /\ Append(s, e)[Len(s) + 1] = e
  OBVIOUS

\* A request that passes the signature check holds a signature and a nonce
\* nobody has used.
LEMMA AuthSpends ==
    ASSUME NEW s \in Signatures, IInv, verify_write_auth(s)
    PROVE  /\ s \in signed
           /\ used' = used \cup {Key(s)}
           /\ \A i \in DOMAIN log : Key(log[i].sig) # Key(s)
  BY DEF IInv, LogSpent, verify_write_auth, verify_a2a_task_op, consume_nonce, Key

\* Receiving a request keeps the invariant, whatever the operation.
LEMMA ReceiveKeeps ==
    ASSUME IInv, Receive
    PROVE  IInv'
<1>1. PICK s \in Signatures :
        /\ verify_write_auth(s)
        /\ busy' \in Events /\ busy'.sig = s
  <2>1. PICK s \in Signatures :
        \/ s.op = "create" /\ \E r \in Requesters : receive_task(s.task, s, r)
        \/ s.op = "confirm" /\ \E a \in Amounts : confirm_task(s.task, s, a)
        \/ s.op = "submit" /\ submit_task(s.task, s)
        \/ s.op = "cancel" /\ cancel_task(s.task, s)
        \/ s.op = "handoff" /\ get_handoff(s.task, s)
    BY DEF Receive
  <2>2. s.task \in Tasks
    BY DEF Signatures
  <2>3. \A op \in Ops : Handling(op, s.task, s) \in Events /\ Handling(op, s.task, s).sig = s
    BY <2>2, BoundsAssumption DEF Handling, Events, VoucherIds
  <2>4. Len(log) + 1 \in Nat
    BY DEF IInv, TypeInv
  <2>5. <<"vcr", Len(log) + 1>> \in VoucherIds
    BY <2>4 DEF VoucherIds
  <2>6. verify_write_auth(s) /\ busy' \in Events /\ busy'.sig = s
    <3>1. CASE \E r \in Requesters : receive_task(s.task, s, r)
      BY <3>1, <2>3 DEF receive_task, Events, Ops
    <3>2. CASE \E a \in Amounts : confirm_task(s.task, s, a)
      BY <3>2, <2>3 DEF confirm_task, Events, Ops
    <3>3. CASE submit_task(s.task, s)
      BY <3>3, <2>3 DEF submit_task, Ops
    <3>4. CASE cancel_task(s.task, s)
      BY <3>4, <2>3 DEF cancel_task, Ops
    <3>5. CASE get_handoff(s.task, s)
      BY <3>5, <2>3, <2>5 DEF get_handoff, Events, Ops
    <3> QED
      BY <2>1, <3>1, <3>2, <3>3, <3>4, <3>5
  <2> QED
    BY <2>6
<1>2. signed' = signed /\ log' = log /\ karma' = karma
  BY DEF Receive
<1>3. s \in signed /\ used' = used \cup {Key(s)} /\ \A i \in DOMAIN log : Key(log[i].sig) # Key(s)
  BY <1>1, AuthSpends
<1>4. TypeInv'
  BY <1>1, <1>2 DEF IInv, TypeInv
<1>5. LogSpent' /\ KeysOnce'
  BY <1>2, <1>3 DEF IInv, LogSpent, KeysOnce, Key
<1>6. BusySpent'
  BY <1>1, <1>2, <1>3 DEF BusySpent, Key
<1> QED
  BY <1>4, <1>5, <1>6 DEF IInv

\* Making a voucher leaves the signature of the request alone.
LEMMA VoucherKeeps == IInv /\ (try_publish_voucher \/ a2a_task_to_voucher) => IInv'
<1> SUFFICES ASSUME IInv, try_publish_voucher \/ a2a_task_to_voucher PROVE IInv'
  OBVIOUS
<1>1. busy \in Events /\ busy # Nil
  BY DEF IInv, TypeInv, try_publish_voucher, a2a_task_to_voucher, needs_voucher
<1>2. <<"a2a", Len(log) + 1>> \in VoucherIds /\ <<"karma", Cardinality(karma) + 1>> \in VoucherIds
  BY FS_CardinalityType DEF IInv, TypeInv, VoucherIds
<1>3. local_voucher \in Events /\ local_voucher.sig = busy.sig
  BY <1>1, <1>2 DEF local_voucher, Events
<1>4. LET v == [local_voucher EXCEPT !.voucher = <<"karma", Cardinality(karma) + 1>>]
      IN  v \in Events /\ v.sig = busy.sig
  BY <1>2, <1>3 DEF Events
<1>5. busy' \in Events /\ busy'.sig = busy.sig
  BY <1>3, <1>4 DEF try_publish_voucher, a2a_task_to_voucher
<1>6. signed' = signed /\ log' = log /\ used' = used
  BY DEF try_publish_voucher, a2a_task_to_voucher
<1>7. IsFiniteSet(karma')
  BY FS_AddElement DEF IInv, TypeInv, try_publish_voucher, a2a_task_to_voucher
<1>8. TypeInv'
  BY <1>5, <1>6, <1>7 DEF IInv, TypeInv
<1>9. LogSpent' /\ KeysOnce' /\ BusySpent'
  BY <1>1, <1>5, <1>6 DEF IInv, LogSpent, KeysOnce, BusySpent, Key
<1> QED
  BY <1>8, <1>9 DEF IInv

\* Writing the event moves the nonce of the request into the log.
LEMMA WriteKeeps == IInv /\ Write => IInv'
<1> SUFFICES ASSUME IInv, Write PROVE IInv'
  OBVIOUS
<1>1. busy \in Events /\ busy # Nil /\ log \in Seq(Events)
  BY DEF IInv, TypeInv, Write
<1>2. log' = Append(log, busy) /\ busy' = Nil /\ signed' = signed /\ used' = used /\ karma' = karma
  BY DEF Write, append_event
<1>3. /\ log' \in Seq(Events) /\ Len(log) \in Nat
      /\ DOMAIN log = 1..Len(log) /\ DOMAIN log' = 1..(Len(log) + 1)
      /\ \A i \in 1..Len(log) : log'[i] = log[i]
      /\ log'[Len(log) + 1] = busy
  BY <1>1, <1>2, AppendPositions
<1>4. TypeInv' /\ BusySpent'
  BY <1>2, <1>3 DEF IInv, TypeInv, BusySpent
<1>5. \A i \in DOMAIN log' : i \in DOMAIN log \/ i = Len(log) + 1
  BY <1>3
<1>6. LogSpent'
  BY <1>1, <1>2, <1>3, <1>5 DEF IInv, LogSpent, BusySpent, Key
<1>7. KeysOnce'
  BY <1>1, <1>2, <1>3, <1>5 DEF IInv, KeysOnce, BusySpent, Key
<1> QED
  BY <1>4, <1>6, <1>7 DEF IInv

\* The invariant is inductive.
LEMMA Inductive == IInv /\ [Next]_vars => IInv'
<1> SUFFICES ASSUME IInv, [Next]_vars PROVE IInv'
  OBVIOUS
<1>1. CASE \E s \in Signatures : sign_a2a_task_op(s)
  BY <1>1 DEF sign_a2a_task_op, IInv, TypeInv, LogSpent, BusySpent, KeysOnce, Key
<1>2. CASE \E s \in signed \ expired : Deadline(s)
  BY <1>2 DEF Deadline, IInv, TypeInv, LogSpent, BusySpent, KeysOnce, Key
<1>3. CASE Crash
  BY <1>3 DEF Crash, IInv, TypeInv, LogSpent, BusySpent, KeysOnce, Key
<1>4. CASE UNCHANGED vars
  BY <1>4 DEF vars, IInv, TypeInv, LogSpent, BusySpent, KeysOnce, Key
<1> QED
  BY <1>1, <1>2, <1>3, <1>4, ReceiveKeeps, VoucherKeeps, WriteKeeps DEF Next

LEMMA Initially == Init => IInv
  BY FS_EmptySet DEF Init, IInv, TypeInv, LogSpent, BusySpent, KeysOnce

-----------------------------------------------------------------------------
\* No signature makes two events, and every event is one its signer signed:
\* consume_nonce and verify_write_auth of the bridge, repeated requests, lost
\* answers and stops of the process included.
THEOREM SignedOnceAlways == Spec => []SignedOnce
<1>1. IInv => SignedOnce
  BY DEF IInv, KeysOnce, LogSpent, SignedOnce, Key
<1> QED
  BY <1>1, Initially, Inductive, PTL DEF Spec

-----------------------------------------------------------------------------
\* The log of signatures after an event is written.
LEMMA DoneGrows == IInv /\ Write => Done' = Append(Done, busy.sig)
<1> SUFFICES ASSUME IInv, Write PROVE Done' = Append(Done, busy.sig)
  OBVIOUS
<1>1. busy \in Events /\ log \in Seq(Events) /\ log' = Append(log, busy)
  BY DEF IInv, TypeInv, Write, append_event
<1>2. /\ Len(log) \in Nat /\ Len(log') = Len(log) + 1
      /\ \A i \in 1..Len(log) : log'[i] = log[i]
      /\ log'[Len(log) + 1] = busy
  BY <1>1, AppendPositions
<1>3. \A i \in 1..Len(log) : log[i] \in Events
  BY <1>1
<1>4. Done \in Seq(Signatures) /\ Len(Done) = Len(log) /\ busy.sig \in Signatures
  BY <1>1, <1>2, <1>3 DEF Done, Events
<1>5. /\ Append(Done, busy.sig) \in Seq(Signatures)
      /\ Len(Append(Done, busy.sig)) = Len(log) + 1
      /\ \A i \in 1..Len(log) : Append(Done, busy.sig)[i] = Done[i]
      /\ Append(Done, busy.sig)[Len(log) + 1] = busy.sig
  BY <1>4, AppendPositions
<1>6. Done' = [i \in 1..(Len(log) + 1) |-> log'[i].sig]
  BY <1>2 DEF Done
<1>7. \A i \in 1..(Len(log) + 1) : log'[i].sig = Append(Done, busy.sig)[i]
  BY <1>2, <1>5 DEF Done
<1>8. Append(Done, busy.sig) = [i \in 1..(Len(log) + 1) |-> Append(Done, busy.sig)[i]]
  BY <1>5
<1> QED
  BY <1>6, <1>7, <1>8

\* A step of the bridge is a step of the abstract log, or none.
LEMMA StepRefines == IInv /\ [Next]_vars => [Log!Next]_(Log!vars)
<1> SUFFICES ASSUME IInv, [Next]_vars PROVE [Log!Next]_(Log!vars)
  OBVIOUS
<1>1. CASE \E s \in Signatures : sign_a2a_task_op(s)
  <2>1. PICK s \in Signatures : sign_a2a_task_op(s)
    BY <1>1
  <2>2. signed' = signed \cup {s} /\ Done' = Done
    BY <2>1 DEF sign_a2a_task_op, Done
  <2>3. CASE s \in signed
    BY <2>2, <2>3 DEF Log!vars
  <2>4. CASE s \notin signed
    <3>1. s \in (signed' \ signed) \cap Signatures
      BY <2>2, <2>4
    <3> QED
      BY <2>2, <3>1 DEF Log!Next, Log!Sign
  <2> QED
    BY <2>3, <2>4
<1>2. CASE Write
  <2>1. busy \in Events /\ busy # Nil /\ signed' = signed
    BY <1>2 DEF IInv, TypeInv, Write
  <2>2. busy.sig \in Signatures /\ busy.sig \in signed
    BY <2>1 DEF IInv, BusySpent, Events
  <2>3. DOMAIN Done = DOMAIN log /\ \A i \in DOMAIN log : Done[i] = log[i].sig
    BY DEF IInv, TypeInv, Done
  <2>4. ~Log!Spent(busy.sig)
    BY <2>1, <2>3 DEF Log!Spent, IInv, BusySpent, Key
  <2>5. Done' = Append(Done, busy.sig)
    BY <1>2, DoneGrows
  <2> QED
    BY <2>1, <2>2, <2>4, <2>5 DEF Log!Next, Log!CarryOut
<1>3. CASE signed' = signed /\ log' = log
  BY <1>3 DEF Log!vars, Done
<1>4. \/ \E s \in Signatures : sign_a2a_task_op(s)
      \/ Write
      \/ signed' = signed /\ log' = log
  BY DEF Next, Deadline, Receive, try_publish_voucher, a2a_task_to_voucher, Crash, vars
<1> QED
  BY <1>1, <1>2, <1>3, <1>4

\* The bridge implements the abstract log that takes each signed operation at
\* most once (a2a_server.py and task_store.py against SignedLog).
THEOREM BridgeRefinesSignedLog == Spec => RefinesSignedLog
<1>1. Init => Log!Init
  BY DEF Init, Log!Init, Done
<1> QED
  BY <1>1, Initially, Inductive, StepRefines, PTL DEF Spec, RefinesSignedLog, Log!Spec

-----------------------------------------------------------------------------
\* The snapshot of a task, event by event: g holds the states after each set of
\* the positions of events, the last of them applied last.
step(st, e, t) == IF e.task = t THEN apply_event(st, e) ELSE st

PartialStates(g, events, t) ==
    g = [s \in SUBSET (DOMAIN events) |->
            IF s = {} THEN Blank ELSE step(g[s \ {Max(s)}], events[Max(s)], t)]

\* rebuild is one of these functions at the whole log.
LEMMA RebuildUnfolds ==
    ASSUME NEW events, NEW t, \E g : PartialStates(g, events, t)
    PROVE  \E g : PartialStates(g, events, t) /\ rebuild(events, t) = g[DOMAIN events]
<1> DEFINE iter == CHOOSE h : h = [s \in SUBSET (DOMAIN events) |->
                        IF s = {} THEN Blank ELSE step(h[s \ {Max(s)}], events[Max(s)], t)]
<1>1. iter = [s \in SUBSET (DOMAIN events) |->
                 IF s = {} THEN Blank ELSE step(iter[s \ {Max(s)}], events[Max(s)], t)]
  BY DEF PartialStates
<1>2. rebuild(events, t) = iter[DOMAIN events]
  BY DEF rebuild, FoldLeft, MapThenFoldSet, step
<1> QED
  BY <1>1, <1>2 DEF PartialStates

\* A set of positions has a last one.
LEMMA LastPosition ==
    ASSUME NEW n \in Nat, NEW s \in SUBSET (1..n), s # {}
    PROVE  Max(s) \in s /\ \A i \in s : i <= Max(s)
<1> DEFINE T == {n - i : i \in s}
<1>1. T \in SUBSET Nat /\ T # {}
  <2>1. \A i \in s : i \in 1..n /\ n - i \in Nat
    OBVIOUS
  <2> QED
    BY <2>1
<1>2. PICK d \in T : \A m \in T : d <= m
  <2> HIDE DEF T
  <2> QED
    BY <1>1, LeastNatural
<1>3. PICK i \in s : d = n - i
  OBVIOUS
<1>4. \A j \in s : n - i <= n - j
  BY <1>2, <1>3
<1>5. \A j \in s : i >= j
  BY <1>4
<1>6. Max(s) \in s /\ \A j \in s : Max(s) >= j
  BY <1>5 DEF Max
<1> QED
  BY <1>6

\* One position more is the last one.
LEMMA AddedPosition ==
    ASSUME NEW n \in Nat
    PROVE  Max(1..(n + 1)) = n + 1 /\ (1..(n + 1)) \ {n + 1} = 1..n /\ 1..(n + 1) # {}
<1> DEFINE s == 1..(n + 1)
<1>1. n + 1 \in s /\ s \ {n + 1} = 1..n
  OBVIOUS
<1>2. n + 1 \in Nat /\ s \in SUBSET (1..(n + 1)) /\ s # {}
  BY <1>1
<1>3. Max(s) \in s /\ \A i \in s : i <= Max(s)
  <2> HIDE DEF s
  <2> QED
    BY <1>2, LastPosition
<1>4. PICK m \in s : m = Max(s) /\ n + 1 <= m
  BY <1>1, <1>3
<1>5. m = n + 1
  BY <1>4
<1> QED
  BY <1>1, <1>2, <1>4, <1>5

\* The states after the sets of a given size determine those of the next size.
LEMMA PartialStatesExist ==
    ASSUME NEW n \in Nat, NEW events, DOMAIN events = 1..n, NEW t
    PROVE  \E g : PartialStates(g, events, t)
<1> DEFINE Level(k) == {s \in SUBSET (1..n) : Cardinality(s) <= k}
           Solves(g, k) == g = [s \in Level(k) |->
               IF s = {} THEN Blank ELSE step(g[s \ {Max(s)}], events[Max(s)], t)]
           T == {k \in Nat : ~ \E g : Solves(g, k)}
<1>1. IsFiniteSet(1..n) /\ Cardinality(1..n) = n
  BY FS_Interval
<1>2. \A s \in SUBSET (1..n) : IsFiniteSet(s) /\ Cardinality(s) \in Nat /\ Cardinality(s) <= n
  BY <1>1, FS_Subset, FS_CardinalityType
<1>3. \A s \in SUBSET (1..n) : s # {} => /\ Max(s) \in s
                                        /\ Cardinality(s \ {Max(s)}) = Cardinality(s) - 1
  BY <1>2, LastPosition, FS_RemoveElement
<1>4. \E g : Solves(g, 0)
  <2>1. \A s \in Level(0) : s = {}
    BY <1>2, FS_EmptySet
  <2>2. Solves([s \in Level(0) |-> Blank], 0)
    BY <2>1
  <2> QED
    BY <2>2
<1>5. ASSUME NEW k \in Nat, \E g : Solves(g, k) PROVE \E g : Solves(g, k + 1)
  <2>1. PICK g : Solves(g, k)
    BY <1>5
  <2> DEFINE h == [s \in Level(k + 1) |->
                      IF s = {} THEN Blank ELSE step(g[s \ {Max(s)}], events[Max(s)], t)]
  <2>2. \A s \in Level(k) : s \in Level(k + 1) /\ h[s] = g[s]
    <3> TAKE s \in Level(k)
    <3>1. s \in Level(k + 1)
      BY <1>2
    <3>2. g[s] = IF s = {} THEN Blank ELSE step(g[s \ {Max(s)}], events[Max(s)], t)
      BY <2>1
    <3> QED
      BY <3>1, <3>2
  <2>3. ASSUME NEW s \in Level(k + 1), s # {} PROVE s \ {Max(s)} \in Level(k)
    <3>1. PICK c \in Nat : c = Cardinality(s) /\ c <= k + 1
      BY <1>2
    <3>2. Cardinality(s \ {Max(s)}) = c - 1
      BY <1>3, <2>3, <3>1
    <3>3. c - 1 <= k
      BY <3>1
    <3>4. s \ {Max(s)} \in SUBSET (1..n)
      OBVIOUS
    <3> QED
      BY <3>2, <3>3, <3>4
  <2>4. Solves(h, k + 1)
    BY <2>2, <2>3
  <2> QED
    BY <2>4
<1>6. T = {}
  <2> SUFFICES ASSUME T # {} PROVE FALSE
    OBVIOUS
  <2>1. PICK k \in T : \A m \in T : k <= m
    <3>1. T \in SUBSET Nat
      OBVIOUS
    <3> HIDE DEF T
    <3> QED
      BY <3>1, LeastNatural
  <2> HIDE DEF Solves
  <2>2. k \in Nat /\ k # 0
    BY <1>4
  <2>3. k - 1 \in Nat /\ (k - 1) + 1 = k /\ ~ (k <= k - 1)
    BY <2>2
  <2>4. k - 1 \notin T
    BY <2>1, <2>3
  <2> QED
    BY <1>5, <2>3, <2>4
<1>7. Level(n) = SUBSET (1..n)
  BY <1>2
<1>8. PICK g : Solves(g, n)
  BY <1>6
<1> QED
  BY <1>7, <1>8 DEF PartialStates

\* One more event leaves the states after the earlier ones as they were.
LEMMA PartialStatesStay ==
    ASSUME NEW n \in Nat, NEW events, NEW more, NEW t, NEW g, NEW h,
           DOMAIN events = 1..n, DOMAIN more = 1..(n + 1),
           \A i \in 1..n : more[i] = events[i],
           PartialStates(g, events, t), PartialStates(h, more, t)
    PROVE  g[1..n] = h[1..n]
<1> DEFINE F == {r \in SUBSET (1..n) : g[r] # h[r]}
<1>1. \A r \in SUBSET (1..n) :
        /\ g[r] = IF r = {} THEN Blank ELSE step(g[r \ {Max(r)}], events[Max(r)], t)
        /\ h[r] = IF r = {} THEN Blank ELSE step(h[r \ {Max(r)}], more[Max(r)], t)
  <2>1. \A r \in SUBSET (1..n) : r \in SUBSET (DOMAIN events) /\ r \in SUBSET (DOMAIN more)
    OBVIOUS
  <2> QED
    BY Zenon, <2>1 DEF PartialStates
<1> SUFFICES ASSUME F # {} PROVE FALSE
  OBVIOUS
<1>2. PICK r \in F : \A x \in r : r \ {x} \notin F
  <2>1. F \in SUBSET SUBSET (1..n) /\ IsFiniteSet(1..n)
    BY FS_Interval
  <2> HIDE DEF F
  <2> QED
    BY <2>1, LeastSubset
<1>3. r # {}
  BY <1>1
<1>4. Max(r) \in r
  BY <1>3, LastPosition
<1>5. g[r \ {Max(r)}] = h[r \ {Max(r)}] /\ more[Max(r)] = events[Max(r)]
  BY <1>2, <1>4
<1> QED
  BY <1>1, <1>3, <1>5

\* rebuild takes one event at a time: the snapshot after one more event is the
\* one before it, with the event applied when it is one of the task.
LEMMA RebuildAppend ==
    ASSUME NEW events \in Seq(Events), NEW e \in Events, NEW t
    PROVE  rebuild(Append(events, e), t) = step(rebuild(events, t), e, t)
<1> DEFINE n == Len(events)
           more == Append(events, e)
<1>1. /\ n \in Nat /\ DOMAIN events = 1..n /\ DOMAIN more = 1..(n + 1)
      /\ \A i \in 1..n : more[i] = events[i]
      /\ more[n + 1] = e
  BY AppendPositions
<1> HIDE DEF n, more
<1>2. PICK g : PartialStates(g, events, t) /\ rebuild(events, t) = g[1..n]
  BY <1>1, PartialStatesExist, RebuildUnfolds
<1>3. PICK h : PartialStates(h, more, t) /\ rebuild(more, t) = h[1..(n + 1)]
  BY <1>1, PartialStatesExist, RebuildUnfolds
<1>4. g[1..n] = h[1..n]
  BY <1>1, <1>2, <1>3, PartialStatesStay
<1>5. Max(1..(n + 1)) = n + 1 /\ (1..(n + 1)) \ {n + 1} = 1..n /\ 1..(n + 1) # {}
  BY <1>1, AddedPosition
<1>6. 1..(n + 1) \in SUBSET (DOMAIN more)
  BY <1>1
<1>7. h[1..(n + 1)] = step(h[1..n], e, t)
  <2>1. \A s \in SUBSET (DOMAIN more) :
            s # {} => h[s] = step(h[s \ {Max(s)}], more[Max(s)], t)
    BY <1>3 DEF PartialStates
  <2>2. h[1..(n + 1)] = step(h[(1..(n + 1)) \ {Max(1..(n + 1))}], more[Max(1..(n + 1))], t)
    BY Zenon, <1>5, <1>6, <2>1
  <2> QED
    BY Zenon, <1>1, <1>5, <2>2
<1> QED
  BY Zenon, <1>2, <1>3, <1>4, <1>7 DEF more

\* An empty log leaves every task blank.
LEMMA RebuildNothing == ASSUME NEW t PROVE rebuild(<<>>, t) = Blank
<1>1. DOMAIN <<>> = 1..0
  OBVIOUS
<1>2. PICK g : PartialStates(g, <<>>, t) /\ rebuild(<<>>, t) = g[1..0]
  BY <1>1, PartialStatesExist, RebuildUnfolds
<1>3. 1..0 = {}
  OBVIOUS
<1> QED
  BY <1>1, <1>2, <1>3 DEF PartialStates

-----------------------------------------------------------------------------
\* What the tables say of a task: nothing before its creation, and afterwards
\* what rebuild makes of its events.
unknown(t) == \A i \in DOMAIN log : log[i].task # t

TaskFollows(t) ==
    \/ unknown(t) /\ snapshot[t] = Nil /\ rebuild(log, t) = Blank
    \/ /\ ~unknown(t) /\ snapshot[t] \in States /\ snapshot[t] = rebuild(log, t)
       /\ lastMade(t, snapshot[t].voucher)

\* A request under way creates a task that is not there, or works on one that
\* is, and a confirmation is for the amount its signature names.
BusyFits ==
    busy # Nil =>
        /\ busy.op = "create" <=> snapshot[busy.task] = Nil
        /\ busy.op = "confirm" => /\ amount_matches(busy.amount, busy.sig)
                                  /\ busy.voucher # Nil => busy.amount > 0

TaskInv ==
    /\ snapshot \in [Tasks -> States \cup {Nil}]
    /\ CreatedOnce /\ VoucherAmountIsSigned /\ BusyFits
    /\ \A t \in Tasks : TaskFollows(t)

\* No confirmed amount is so small that its signature is not compared.
NoDust == 1 \notin Amounts

\* A confirmation whose amount matches is for the signed amount, to half a unit.
LEMMA MatchIsClose ==
    ASSUME NoDust, NEW e \in Events, e.amount > 0, amount_matches(e.amount, e.sig)
    PROVE  LET d == e.amount - 4 * e.sig.micro IN -2 <= d /\ d <= 2
<1>1. PICK a \in Nat, m \in Int : a = e.amount /\ m = (a + 2) \div 4
  <2>1. e.amount \in Amounts
    BY DEF Events
  <2>2. PICK a \in Nat : a = e.amount
    BY <2>1, BoundsAssumption
  <2>3. (a + 2) \div 4 \in Int
    OBVIOUS
  <2> QED
    BY <2>2, <2>3
<1>2. a > 1
  BY <1>1 DEF NoDust, Events
<1>3. m # 0 /\ -2 <= a - 4 * m /\ a - 4 * m <= 2
  BY <1>1, <1>2
<1>4. e.sig.micro = m
  BY <1>1, <1>3 DEF amount_matches
<1> QED
  BY <1>1, <1>3, <1>4

\* Steps that leave the log, the snapshots and the request under way alone.
LEMMA TasksFrame == TaskInv /\ UNCHANGED <<log, snapshot, busy>> => TaskInv'
<1> SUFFICES ASSUME TaskInv, UNCHANGED <<log, snapshot, busy>> PROVE TaskInv'
  OBVIOUS
<1>1. \A t : TaskFollows(t) => TaskFollows(t)'
  BY DEF TaskFollows, unknown, lastMade, made
<1> QED
  BY <1>1 DEF TaskInv, CreatedOnce, VoucherAmountIsSigned, BusyFits

\* Steps that change only the request under way.
LEMMA RequestStep ==
    ASSUME TaskInv, UNCHANGED <<log, snapshot>>, BusyFits'
    PROVE  TaskInv'
<1>1. \A t : TaskFollows(t) => TaskFollows(t)'
  BY DEF TaskFollows, unknown, lastMade, made
<1> QED
  BY <1>1 DEF TaskInv, CreatedOnce, VoucherAmountIsSigned

\* Receiving a request checks that its task is there, or is not there yet.
LEMMA ReceiveFits == ASSUME TaskInv, Receive PROVE TaskInv'
<1>1. PICK s \in Signatures :
        \/ s.op = "create" /\ \E r \in Requesters : receive_task(s.task, s, r)
        \/ s.op = "confirm" /\ \E a \in Amounts : confirm_task(s.task, s, a)
        \/ s.op = "submit" /\ submit_task(s.task, s)
        \/ s.op = "cancel" /\ cancel_task(s.task, s)
        \/ s.op = "handoff" /\ get_handoff(s.task, s)
  BY DEF Receive
<1>2. UNCHANGED <<log, snapshot>>
  BY DEF Receive
<1>3. BusyFits'
  <2>1. CASE \E r \in Requesters : receive_task(s.task, s, r)
    BY <1>2, <2>1 DEF receive_task, may_create, Handling, BusyFits
  <2>2. CASE \E a \in Amounts : confirm_task(s.task, s, a)
    BY <1>2, <2>2 DEF confirm_task, Handling, BusyFits, amount_matches
  <2>3. CASE submit_task(s.task, s) \/ cancel_task(s.task, s)
    BY <1>2, <2>3 DEF submit_task, cancel_task, Handling, BusyFits
  <2>4. CASE get_handoff(s.task, s)
    BY <1>2, <2>4 DEF get_handoff, Handling, BusyFits
  <2> QED
    BY <1>1, <2>1, <2>2, <2>3, <2>4
<1> QED
  BY <1>2, <1>3, RequestStep

\* A voucher is made for a confirmation with an amount only.
LEMMA VoucherFits ==
    ASSUME IInv, TaskInv, try_publish_voucher \/ a2a_task_to_voucher
    PROVE  TaskInv'
<1>1. busy \in Events /\ busy # Nil /\ busy.op = "confirm" /\ busy.amount > 0
  BY DEF IInv, TypeInv, try_publish_voucher, a2a_task_to_voucher, needs_voucher
<1>2. /\ busy'.op = busy.op /\ busy'.task = busy.task
      /\ busy'.amount = busy.amount /\ busy'.sig = busy.sig
  BY <1>1 DEF try_publish_voucher, a2a_task_to_voucher, local_voucher, Events
<1>3. UNCHANGED <<log, snapshot>>
  BY DEF try_publish_voucher, a2a_task_to_voucher
<1>4. BusyFits'
  BY <1>1, <1>2, <1>3 DEF TaskInv, BusyFits, amount_matches
<1> QED
  BY <1>3, <1>4, RequestStep

\* What an event does to the snapshot of its task: a creation to a blank one,
\* any other event to one that is there.
LEMMA EventTypes ==
    ASSUME NEW e \in Events, NEW st,
           IF e.op = "create" THEN st = Blank ELSE st \in States
    PROVE  /\ apply_event(st, e) \in States
           /\ e.op = "create" => apply_event(st, e).voucher = Nil
           /\ e.op # "create" =>
                apply_event(st, e).voucher =
                    IF e.op = "confirm" /\ e.voucher # Nil THEN e.voucher ELSE st.voucher
<1>1. e.sig \in Signatures /\ e.sig.agent \in Wallets
  BY DEF Events, Signatures
<1>2. e.op \in Ops /\ e.voucher \in VoucherIds /\ e.requester \in Requesters \cup {Nil} /\ Nil \in VoucherIds
  BY DEF Events, VoucherIds
<1>3. CASE e.op = "create"
  <2>1. PICK s : s = [st EXCEPT !.applied = @ + 1, !.signer = e.sig.agent]
    OBVIOUS
  <2>2. s = [Blank EXCEPT !.applied = 1, !.signer = e.sig.agent]
    <3>1. st = Blank /\ Blank.applied = 0
      BY <1>3 DEF Blank
    <3>2. st.applied + 1 = 1
      BY <3>1
    <3> QED
      BY Zenon, <2>1, <3>1, <3>2
  <2>3. s = [status |-> "negotiating", requester |-> Nil, voucher |-> Nil,
             signer |-> e.sig.agent, handoff |-> Nil, applied |-> 1]
    BY <2>2 DEF Blank
  <2>4. apply_event(st, e) = [s EXCEPT !.status = "negotiating", !.requester = e.requester,
                                       !.voucher = Nil]
    BY <1>3, <2>1 DEF apply_event
  <2>5. apply_event(st, e) =
            [status |-> "negotiating", requester |-> e.requester, voucher |-> Nil,
             signer |-> e.sig.agent, handoff |-> Nil, applied |-> 1]
    BY <2>3, <2>4
  <2>6. apply_event(st, e) \in States /\ apply_event(st, e).voucher = Nil
    BY <1>1, <1>2, <2>5 DEF States
  <2> QED
    BY <1>3, <2>6
<1>4. CASE e.op # "create"
  <2>1. st \in States /\ st.applied + 1 \in Nat
    BY <1>4 DEF States
  <2>2. PICK s \in States : /\ s = [st EXCEPT !.applied = @ + 1, !.signer = e.sig.agent]
                            /\ s.voucher = st.voucher
    <3>1. PICK s : s = [st EXCEPT !.applied = @ + 1, !.signer = e.sig.agent]
      OBVIOUS
    <3>2. s \in States /\ s.voucher = st.voucher
      BY <1>1, <2>1, <3>1 DEF States
    <3> QED
      BY <3>1, <3>2
  <2>3. e.op \in {"confirm", "submit", "cancel", "handoff"}
    BY <1>2, <1>4 DEF Ops
  <2>4. CASE e.op = "confirm"
    <3>1. apply_event(st, e) =
            [s EXCEPT !.status = "accepted",
                      !.voucher = IF e.voucher = Nil THEN s.voucher ELSE e.voucher]
      BY <2>2, <2>4 DEF apply_event
    <3> QED
      BY <1>2, <1>4, <2>2, <2>4, <3>1 DEF States
  <2>5. CASE e.op = "submit"
    BY <1>4, <2>2, <2>5 DEF apply_event, States
  <2>6. CASE e.op = "cancel"
    BY <1>4, <2>2, <2>6 DEF apply_event, States
  <2>7. CASE e.op = "handoff"
    BY <1>2, <1>4, <2>2, <2>7 DEF apply_event, States
  <2> QED
    BY <2>3, <2>4, <2>5, <2>6, <2>7
<1> QED
  BY <1>3, <1>4

\* Writing an event keeps log, snapshots and vouchers together.
LEMMA WriteFits == ASSUME NoDust, IInv, TaskInv, Write PROVE TaskInv'
<1>1. PICK e \in Events, n \in Nat :
        /\ e = busy /\ e # Nil /\ n = Len(log) /\ e.task \in Tasks
        /\ DOMAIN log = 1..n /\ DOMAIN log' = 1..(n + 1)
        /\ \A i \in 1..n : log'[i] = log[i]
        /\ log'[n + 1] = e
  <2>1. busy \in Events /\ busy # Nil /\ log \in Seq(Events) /\ log' = Append(log, busy)
    BY DEF IInv, TypeInv, Write, append_event
  <2>2. Len(log) \in Nat /\ busy.task \in Tasks
    BY <2>1 DEF Events
  <2> QED
    BY <2>1, <2>2, AppendPositions
<1>2. /\ busy' = Nil
      /\ snapshot' = [snapshot EXCEPT ![e.task] = rebuild(log', e.task)]
  BY <1>1 DEF Write, append_event
<1>3. \A t : rebuild(log', t) = step(rebuild(log, t), e, t)
  BY <1>1, RebuildAppend DEF IInv, TypeInv, Write, append_event
<1>4. e.op = "create" <=> unknown(e.task)
  <2>1. unknown(e.task) <=> snapshot[e.task] = Nil
    BY <1>1, NilAssumption DEF TaskInv, TaskFollows
  <2> QED
    BY <1>1, <2>1 DEF TaskInv, BusyFits
<1>5. /\ snapshot'[e.task] = apply_event(rebuild(log, e.task), e)
      /\ snapshot'[e.task] = rebuild(log', e.task)
      /\ snapshot' \in [Tasks -> States \cup {Nil}]
      /\ \A t \in Tasks : t # e.task => snapshot'[t] = snapshot[t] /\ rebuild(log', t) = rebuild(log, t)
  <2>1. IF e.op = "create" THEN rebuild(log, e.task) = Blank ELSE rebuild(log, e.task) \in States
    BY <1>1, <1>4 DEF TaskInv, TaskFollows
  <2>2. apply_event(rebuild(log, e.task), e) \in States
    BY <2>1, EventTypes
  <2>3. rebuild(log', e.task) = apply_event(rebuild(log, e.task), e)
    BY <1>3 DEF step
  <2>4. snapshot \in [Tasks -> States \cup {Nil}]
    BY DEF TaskInv
  <2>5. \A t : t # e.task => rebuild(log', t) = rebuild(log, t)
    BY <1>3 DEF step
  <2> QED
    BY <1>1, <1>2, <2>2, <2>3, <2>4, <2>5
<1>6. ASSUME NEW t \in Tasks, t # e.task PROVE TaskFollows(t)'
  <2>1. unknown(t)' <=> unknown(t)
    BY <1>1, <1>6 DEF unknown
  <2>2. made(t)' = made(t) /\ \A i \in made(t) : log'[i] = log[i]
    BY <1>1, <1>6 DEF made
  <2>3. \A v : lastMade(t, v) => lastMade(t, v)'
    BY <2>2 DEF lastMade
  <2>4. TaskFollows(t)
    BY DEF TaskInv
  <2>5. snapshot'[t] = snapshot[t] /\ rebuild(log', t) = rebuild(log, t)
    BY <1>5, <1>6
  <2> QED
    BY <2>1, <2>3, <2>4, <2>5 DEF TaskFollows
<1>7. TaskFollows(e.task)'
  <2>1. ~unknown(e.task)'
    BY <1>1 DEF unknown
  <2>2. PICK st : st = rebuild(log, e.task)
    OBVIOUS
  <2>3. IF e.op = "create" THEN st = Blank
        ELSE st \in States /\ lastMade(e.task, st.voucher)
    BY <1>1, <1>4, <2>2 DEF TaskInv, TaskFollows
  <2>4. /\ apply_event(st, e) \in States
        /\ e.op = "create" => apply_event(st, e).voucher = Nil
        /\ e.op # "create" =>
              apply_event(st, e).voucher =
                  IF e.op = "confirm" /\ e.voucher # Nil THEN e.voucher ELSE st.voucher
    BY <2>3, EventTypes
  <2>5. made(e.task)' = IF e.op = "confirm" /\ e.voucher # Nil
                        THEN made(e.task) \cup {n + 1} ELSE made(e.task)
    <3>1. \A i \in 1..(n + 1) : i \in 1..n \/ i = n + 1
      BY <1>1
    <3>2. made(e.task)' = {i \in 1..(n + 1) :
              log'[i].task = e.task /\ log'[i].op = "confirm" /\ log'[i].voucher # Nil}
      BY <1>1 DEF made
    <3>3. made(e.task) = {i \in 1..n :
              log[i].task = e.task /\ log[i].op = "confirm" /\ log[i].voucher # Nil}
      BY <1>1 DEF made
    <3>4. 1..n \subseteq 1..(n + 1) /\ n + 1 \in 1..(n + 1) /\ n + 1 \notin 1..n
      BY <1>1
    <3> QED
      BY <1>1, <3>1, <3>2, <3>3, <3>4
  <2>6. made(e.task) \subseteq 1..n /\ \A i \in made(e.task) : log'[i] = log[i] /\ i <= n + 1
    BY <1>1 DEF made
  <2>7. lastMade(e.task, apply_event(st, e).voucher)'
    <3>1. CASE e.op = "create"
      <4>1. made(e.task) = {}
        BY <1>1, <1>4, <3>1 DEF made, unknown
      <4> QED
        BY <2>4, <2>5, <3>1, <4>1 DEF lastMade
    <3>2. CASE e.op = "confirm" /\ e.voucher # Nil
      BY <1>1, <2>4, <2>5, <2>6, <3>2 DEF lastMade
    <3>3. CASE e.op # "create" /\ ~(e.op = "confirm" /\ e.voucher # Nil)
      BY <2>3, <2>4, <2>5, <2>6, <3>3 DEF lastMade
    <3> QED
      BY <3>1, <3>2, <3>3
  <2>8. snapshot'[e.task] = apply_event(st, e) /\ snapshot'[e.task] = rebuild(log', e.task)
    BY <1>5, <2>2
  <2> QED
    BY <2>1, <2>4, <2>7, <2>8 DEF TaskFollows
<1>8. CreatedOnce'
  <2>1. ASSUME NEW i \in 1..n
        PROVE  log'[i].op = "create" <=> \A j \in 1..(i - 1) : log'[j].task # log'[i].task
    <3>1. \A j \in 1..(i - 1) : j \in 1..n
      BY <1>1
    <3>2. log[i].op = "create" <=> \A j \in 1..(i - 1) : log[j].task # log[i].task
      BY <1>1 DEF TaskInv, CreatedOnce
    <3> QED
      BY <1>1, <3>1, <3>2
  <2>2. log'[n + 1].op = "create" <=> \A j \in 1..((n + 1) - 1) : log'[j].task # log'[n + 1].task
    <3>1. 1..((n + 1) - 1) = 1..n
      BY <1>1
    <3> QED
      BY <1>1, <1>4, <3>1 DEF unknown
  <2>3. \A i \in 1..(n + 1) : i \in 1..n \/ i = n + 1
    BY <1>1
  <2> QED
    BY <1>1, <2>1, <2>2, <2>3 DEF CreatedOnce
<1>9. VoucherAmountIsSigned'
  <2>1. \A i \in 1..(n + 1) : i \in 1..n \/ i = n + 1
    BY <1>1
  <2>2. e.op = "confirm" /\ e.voucher # Nil =>
            LET d == e.amount - 4 * e.sig.micro IN -2 <= d /\ d <= 2
    BY <1>1, MatchIsClose DEF TaskInv, BusyFits
  <2>3. \A i \in 1..n : log[i].op = "confirm" /\ log[i].voucher # Nil =>
            LET d == log[i].amount - 4 * log[i].sig.micro IN -2 <= d /\ d <= 2
    BY <1>1 DEF TaskInv, VoucherAmountIsSigned
  <2> QED
    BY <1>1, <2>1, <2>2, <2>3 DEF VoucherAmountIsSigned
<1>10. BusyFits'
  BY <1>2 DEF BusyFits
<1> QED
  BY <1>5, <1>6, <1>7, <1>8, <1>9, <1>10 DEF TaskInv

\* A task of the bridge is what its log says, wherever the process stops: it is
\* created once and first, and has the voucher of its last confirmation, made
\* for the amount its signer signed (receive_task, confirm_task, rebuild). An
\* amount too small to be compared is the exception, hence NoDust.
THEOREM TasksAlwaysFollowLog == ASSUME NoDust PROVE Spec => []TasksFollowLog
<1>1. Init => TaskInv
  <2> SUFFICES ASSUME Init PROVE TaskInv
    OBVIOUS
  <2>1. log = <<>> /\ DOMAIN log = {} /\ busy = Nil /\ snapshot = [t \in Tasks |-> Nil]
    BY DEF Init
  <2>2. \A t \in Tasks : TaskFollows(t)
    BY <2>1, RebuildNothing DEF TaskFollows, unknown
  <2> QED
    BY <2>1, <2>2 DEF TaskInv, CreatedOnce, VoucherAmountIsSigned, BusyFits
<1>2. IInv /\ TaskInv /\ [Next]_vars => TaskInv'
  <2> SUFFICES ASSUME IInv, TaskInv, [Next]_vars PROVE TaskInv'
    OBVIOUS
  <2>1. CASE (\E s \in Signatures : sign_a2a_task_op(s)) \/ UNCHANGED vars
    BY <2>1, TasksFrame DEF sign_a2a_task_op, vars
  <2>2. CASE \E s \in signed \ expired : Deadline(s)
    BY <2>2, TasksFrame DEF Deadline
  <2>3. CASE Crash
    <3>1. UNCHANGED <<log, snapshot>> /\ BusyFits'
      BY <2>3 DEF Crash, BusyFits
    <3> QED
      BY <3>1, RequestStep
  <2> QED
    BY <2>1, <2>2, <2>3, ReceiveFits, VoucherFits, WriteFits DEF Next
<1>3. TaskInv => TasksFollowLog
  <2> SUFFICES ASSUME TaskInv PROVE VoucherIsLastConfirmed
    BY DEF TaskInv, TasksFollowLog
  <2> QED
    BY DEF TaskInv, TaskFollows, VoucherIsLastConfirmed
<1> QED
  BY <1>1, <1>2, <1>3, Initially, Inductive, PTL DEF Spec
=============================================================================
