---------------------------- MODULE MonitorProofs ----------------------------
(***************************************************************************)
(* Proofs about the coordinator, and about the Monitor with the engine and *)
(* the coordinator it drives, for every set of streams, keys and inputs,   *)
(* every static table and any length of a run.                             *)
(*                                                                         *)
(* The invariant MInv of the Monitor has a part for each of the things     *)
(* that have to stay in step: the position in the table, the times of      *)
(* calls, cycles and deadlines, the store and its bookkeeping, the queue,  *)
(* the tasks of the cycle, and what the verdicts have said.                *)
(***************************************************************************)
EXTENDS Monitor, TaskCoordinatorRefinement, SequenceTheorems, TLAPS
-----------------------------------------------------------------------------
(* The coordinator, called in any order and at any time *)

\* A deadline the cursor stands on is one of the table: its pause is a positive
\* number and its items are work items.
LEMMA TableEntry ==
  ASSUME NEW p \in IRs, NEW c \in 0 .. Len(Deadlines[p]) - 1
  PROVE  /\ Deadlines[p][c + 1].pause \in Nat \ {0}
         /\ Deadlines[p][c + 1].due \in Seq(Work)
<1>1. Deadlines[p] \in Seq([pause : Nat \ {0}, due : Seq(Work)])
  BY CoordinatorAssumption DEF DeadlineTable
<1>2. Len(Deadlines[p]) \in Nat /\ c + 1 \in 1 .. Len(Deadlines[p])
  BY <1>1
<1>3. Deadlines[p][c + 1] \in [pause : Nat \ {0}, due : Seq(Work)]
  BY <1>1, <1>2, ElementOfSeq
<1>4. QED
  BY <1>3

\* The cursor's successor is again a position of the table.
LEMMA NextCursor ==
  ASSUME NEW n \in Nat, n > 0, NEW c \in 0 .. n - 1
  PROVE  (c + 1) % n \in 0 .. n - 1
OBVIOUS

\* The invariant holds of a coordinator that was just built.
LEMMA IInvInit == Init => IInv
<1> SUFFICES ASSUME NEW p \in IRs, Build(p), clock = 0, due_work = [due |-> 0, items |-> {}]
             PROVE  IInv
  BY DEF Init
<1> USE CoordinatorAssumption
<1>1. Deadlines[p] \in Seq([pause : Nat \ {0}, due : Seq(Work)])
  BY DEF DeadlineTable
<1>2. CASE Deadlines[p] = <<>>
  BY <1>2, <1>1 DEF Build, IInv, TypeOK, NothingPassedOver, DueWithinPeriod, Dues, EmptyQueue, Batch
<1>3. CASE Deadlines[p] # <<>>
  <2>1. Len(Deadlines[p]) \in Nat \ {0} /\ 0 \in 0 .. Len(Deadlines[p]) - 1
    BY <1>3, <1>1
  <2>2. Deadlines[p][1].pause \in Nat \ {0} /\ Deadlines[p][1].due \in Seq(Work)
    BY <2>1, TableEntry
  <2>3. QED
    BY <1>3, <2>1, <2>2
    DEF Build, IInv, TypeOK, NothingPassedOver, DueWithinPeriod, Dues, EmptyQueue, Batch
<1>4. QED
  BY <1>2, <1>3

\* Taking a batch keeps the invariant, and leaves everything due later than it.
LEMMA CollectInv ==
  ASSUME IInv, Collect
  PROVE  IInv' /\ due_work'.due > due_work.due
<1> USE CoordinatorAssumption
<1>1. PICK t \in Dues : /\ CollectDueWork(t)
                        /\ clock' = IF clock < t THEN t ELSE clock
                        /\ clock' <= MaxTime
  BY DEF Collect
<1>2. t \in Nat /\ t > due_work.due /\ \A d \in Dues : t <= d
  BY <1>1 DEF IInv, TypeOK, NothingPassedOver, Dues, CollectDueWork, EarliestDue
<1>3. /\ due_work'.due = t
      /\ due_work' \in Batch
  <2>1. DynamicItems(t) \subseteq {e.item : e \in Entry}
    BY DEF DynamicItems, DueAt, IInv, TypeOK
  <2>2. StaticItems(t) \subseteq Work
    <3>1. CASE next_periodic_due = t
      <4>1. static_deadlines # <<>>
        BY <3>1, <1>2 DEF IInv, TypeOK
      <4>2. pending_periodic \in Seq(Work)
        BY <4>1, TableEntry DEF IInv, TypeOK
      <4>3. QED
        BY <4>2 DEF StaticItems
    <3>2. CASE next_periodic_due # t
      BY <3>2 DEF StaticItems
    <3>3. QED
      BY <3>1, <3>2
  <2>3. QED
    BY <1>1, <1>2, <2>1, <2>2 DEF CollectDueWork, Batch
<1>4. /\ event_queue' \in [DOMAIN event_queue -> Nat]
      /\ DOMAIN event_queue' = DOMAIN event_queue
      /\ DOMAIN event_queue \subseteq Entry
      /\ \A e \in DOMAIN event_queue : event_queue'[e] > t
      /\ \A e \in DOMAIN event_queue : event_queue'[e] <= clock' + e.period
  <2>1. event_queue' = [e \in DOMAIN event_queue |->
                          IF event_queue[e] = t THEN t + e.period ELSE event_queue[e]]
    BY <1>1 DEF CollectDueWork, PopBatchDueAt
  <2>2. clock \in Nat /\ clock' \in Nat /\ t <= clock' /\ clock <= clock'
    BY <1>1, <1>2 DEF IInv, TypeOK
  <2>3. \A e \in DOMAIN event_queue :
          /\ e.period \in Nat \ {0} /\ event_queue[e] \in Nat /\ t <= event_queue[e]
          /\ event_queue[e] <= clock + e.period
    BY <1>2 DEF IInv, TypeOK, DueWithinPeriod, Dues
  <2>4. QED
    BY <2>1, <2>2, <2>3, <1>2 DEF IInv, TypeOK
<1>5. /\ ir' = ir /\ static_deadlines' = static_deadlines
      /\ IF static_deadlines = <<>>
         THEN deadline_cursor' = 0 /\ next_periodic_due' = None /\ pending_periodic' = <<>>
         ELSE /\ deadline_cursor' \in 0 .. Len(static_deadlines) - 1
              /\ next_periodic_due' \in Nat
              /\ next_periodic_due' > t
              /\ pending_periodic' = static_deadlines[deadline_cursor' + 1].due
  <2>1. CASE next_periodic_due = t
    <3>1. static_deadlines # <<>>
      BY <2>1, <1>2 DEF IInv, TypeOK
    <3>2. static_deadlines \in Seq([pause : Nat \ {0}, due : Seq(Work)]) /\ ir \in IRs
      BY DEF IInv, TypeOK, DeadlineTable
    <3> DEFINE n == Len(static_deadlines)
               c == (deadline_cursor + 1) % n
    <3>3. n \in Nat /\ n > 0 /\ deadline_cursor \in 0 .. n - 1
      BY <3>1, <3>2 DEF IInv, TypeOK
    <3>4. c \in 0 .. n - 1
      BY <3>3, NextCursor
    <3>5. static_deadlines[c + 1].pause \in Nat \ {0}
      BY <3>4, <3>2, TableEntry DEF IInv, TypeOK
    <3>6. /\ deadline_cursor' = c
          /\ next_periodic_due' = t + static_deadlines[c + 1].pause
          /\ pending_periodic' = static_deadlines[c + 1].due
          /\ UNCHANGED <<ir, static_deadlines>>
      BY <2>1, <1>1 DEF CollectDueWork, AdvancePeriodicDeadline
    <3>7. QED
      BY <3>1, <3>4, <3>5, <3>6, <1>2
  <2>2. CASE next_periodic_due # t
    <3>1. UNCHANGED <<ir, static_deadlines, deadline_cursor, next_periodic_due, pending_periodic>>
      BY <2>2, <1>1 DEF CollectDueWork, static_vars
    <3>2. static_deadlines # <<>> => next_periodic_due \in Nat /\ next_periodic_due >= t
      BY <1>2 DEF IInv, TypeOK, Dues
    <3>3. QED
      BY <2>2, <3>1, <3>2, <1>2 DEF IInv, TypeOK
  <2>3. QED
    BY <2>1, <2>2
<1>6. TypeOK'
  BY <1>1, <1>2, <1>3, <1>4, <1>5 DEF IInv, TypeOK
<1>7. NothingPassedOver'
  BY <1>3, <1>4, <1>5 DEF NothingPassedOver, Dues
<1>8. DueWithinPeriod' /\ (due_work.due <= clock)'
  BY <1>1, <1>2, <1>3, <1>4 DEF DueWithinPeriod, IInv, TypeOK
<1>9. QED
  BY <1>2, <1>3, <1>6, <1>7, <1>8 DEF IInv

\* Scheduling an item at a time from the last batch on keeps the invariant.
LEMMA ScheduleInv ==
  ASSUME IInv, Schedule
  PROVE  IInv'
<1> USE CoordinatorAssumption
<1>1. PICK e \in Entry, now \in due_work.due .. clock :
             EnqueueItem(e, now) /\ UNCHANGED <<clock, due_work>>
  BY DEF Schedule
<1>2. event_queue' = [x \in DOMAIN event_queue \cup {e} |->
                        IF x = e THEN now + e.period ELSE event_queue[x]]
  BY <1>1 DEF EnqueueItem, Enqueue
<1>3. /\ now \in Nat /\ e.period \in Nat \ {0} /\ clock \in Nat
      /\ due_work.due \in Nat /\ due_work.due <= now /\ now <= clock
  BY DEF IInv, TypeOK, Batch
<1>4. /\ DOMAIN event_queue' \subseteq Entry
      /\ event_queue' \in [DOMAIN event_queue' -> Nat]
  BY <1>2, <1>3 DEF IInv, TypeOK
<1>5. UNCHANGED <<ir, static_deadlines, deadline_cursor, next_periodic_due,
                  pending_periodic, clock, due_work>>
  BY <1>1 DEF EnqueueItem, static_vars
<1>6. TypeOK'
  BY <1>4, <1>5 DEF IInv, TypeOK
<1>7. \A x \in DOMAIN event_queue' :
        event_queue'[x] > due_work.due /\ event_queue'[x] <= clock + x.period
  BY <1>2, <1>3 DEF IInv, NothingPassedOver, DueWithinPeriod, Dues
<1>8. NothingPassedOver'
  BY <1>5, <1>7 DEF IInv, NothingPassedOver, Dues
<1>9. QED
  BY <1>5, <1>6, <1>7, <1>8 DEF IInv, DueWithinPeriod

\* So does cancelling one.
LEMMA UnscheduleInv ==
  ASSUME IInv, Unschedule
  PROVE  IInv'
<1>1. PICK e \in Entry : CancelItem(e) /\ UNCHANGED <<clock, due_work>>
  BY DEF Unschedule
<1>2. /\ event_queue' = [x \in DOMAIN event_queue \ {e} |-> event_queue[x]]
      /\ UNCHANGED <<ir, static_deadlines, deadline_cursor, next_periodic_due,
                     pending_periodic, clock, due_work>>
  BY <1>1 DEF CancelItem, Cancel, static_vars
<1>3. TypeOK'
  BY <1>2 DEF IInv, TypeOK
<1>4. NothingPassedOver' /\ DueWithinPeriod'
  BY <1>2 DEF IInv, NothingPassedOver, DueWithinPeriod, Dues
<1>5. QED
  BY <1>2, <1>3, <1>4 DEF IInv

\* And so does an event that only moves the clock, past any number of deadlines.
LEMMA AdvanceInv ==
  ASSUME IInv, Advance
  PROVE  IInv'
<1> USE CoordinatorAssumption
<1>1. /\ clock' \in 0 .. MaxTime /\ clock \in Nat /\ clock < clock'
      /\ UNCHANGED <<ir, static_deadlines, deadline_cursor, next_periodic_due,
                     pending_periodic, event_queue, due_work>>
  BY DEF Advance, IInv, TypeOK, coordinator_vars, static_vars
<1>2. TypeOK' /\ NothingPassedOver'
  BY <1>1 DEF IInv, TypeOK, NothingPassedOver, Dues
<1>3. DueWithinPeriod' /\ (due_work.due <= clock)'
  <2>1. \A e \in DOMAIN event_queue : e.period \in Nat /\ event_queue[e] \in Nat
    BY DEF IInv, TypeOK
  <2>2. due_work.due \in Nat
    BY DEF IInv, TypeOK, Batch
  <2>3. QED
    BY <1>1, <2>1, <2>2 DEF IInv, DueWithinPeriod
<1>4. QED
  BY <1>2, <1>3 DEF IInv

\* The invariant is inductive, and a step that takes a batch takes a later one.
LEMMA IInvNext ==
  ASSUME IInv, [Next]_vars
  PROVE  IInv' /\ (due_work' # due_work => due_work'.due > due_work.due)
<1>1. CASE Collect
  BY <1>1, CollectInv
<1>2. CASE Schedule
  BY <1>2, ScheduleInv DEF Schedule
<1>3. CASE Unschedule
  BY <1>3, UnscheduleInv DEF Unschedule
<1>4. CASE Advance
  BY <1>4, AdvanceInv DEF Advance
<1>5. CASE UNCHANGED vars
  BY <1>5 DEF vars, coordinator_vars, static_vars, IInv, TypeOK, NothingPassedOver,
              DueWithinPeriod, Dues
<1>6. QED
  BY <1>1, <1>2, <1>3, <1>4, <1>5 DEF Next

\* The invariant of the coordinator holds in every state of every behaviour.
THEOREM Invariant == Spec => []IInv
<1>1. Init => IInv
  BY IInvInit
<1>2. IInv /\ [Next]_vars => IInv'
  BY IInvNext
<1>3. QED
  BY <1>1, <1>2, PTL DEF Spec

\* Every field keeps its type, and the static position is one of the table.
THEOREM TypeCorrect == Spec => []TypeOK
<1>1. IInv => TypeOK
  BY DEF IInv
<1>2. QED
  BY <1>1, Invariant, PTL

\* No deadline, static or dynamic, is skipped by a batch: what remains
\* scheduled after collect_due_work is due strictly later.
THEOREM NothingIsPassedOver == Spec => []NothingPassedOver
<1>1. IInv => NothingPassedOver
  BY DEF IInv
<1>2. QED
  BY <1>1, Invariant, PTL

\* An instance's next evaluation is never further away than its period.
THEOREM NothingIsPutOff == Spec => []DueWithinPeriod
<1>1. IInv => DueWithinPeriod
  BY DEF IInv
<1>2. QED
  BY <1>1, Invariant, PTL

\* Batches are taken at strictly increasing times.
THEOREM BatchesAreInOrder == Spec => BatchesInOrder
<1>1. IInv /\ [Next]_vars => [due_work' # due_work => due_work'.due > due_work.due]_vars
  BY IInvNext
<1>2. QED
  BY <1>1, Invariant, PTL DEF Spec, BatchesInOrder
-----------------------------------------------------------------------------
\* What TableAssumption says of the deadline the cursor stands on.
LEMMA CursorTable ==
  ASSUME TypeOK, static_deadlines # <<>>
  PROVE  LET n == Len(static_deadlines)
             c == deadline_cursor
             d == (c + 1) % n
         IN  /\ c \in 0 .. n - 1 /\ d \in 0 .. n - 1
             /\ pending_periodic # <<>>
             /\ DueSet(static_deadlines[c + 1])
                  = {s.item : s \in {r \in TableTasks[ir] : Ahead[ir][c][r] = 0}}
             /\ \A s \in TableTasks[ir] :
                  /\ s.period \in Nat /\ s \notin Entry
                  /\ Ahead[ir][c][s] \in Nat /\ Ahead[ir][d][s] \in Nat
                  /\ static_deadlines[d + 1].pause + Ahead[ir][d][s]
                       = IF Ahead[ir][c][s] = 0 THEN s.period ELSE Ahead[ir][c][s]
<1> DEFINE n == Len(static_deadlines)
           c == deadline_cursor
           d == (c + 1) % n
<1>1. /\ ir \in IRs /\ static_deadlines = Deadlines[ir] /\ c \in 0 .. n - 1
      /\ pending_periodic = static_deadlines[c + 1].due
  BY DEF TypeOK
<1>2. static_deadlines \in Seq([pause : Nat \ {0}, due : Seq(Work)])
  BY <1>1, CoordinatorAssumption DEF DeadlineTable
<1>3. n \in Nat /\ n > 0
  BY <1>1, <1>2
<1>4. d \in 0 .. n - 1
  BY <1>1, <1>3, NextCursor
<1>5. /\ TableTasks[ir] \subseteq [item : Work, period : Nat \ {0}]
      /\ \A s \in TableTasks[ir] : s \notin Entry
      /\ Ahead[ir] \in [0 .. n - 1 -> [TableTasks[ir] -> Nat]]
      /\ static_deadlines[c + 1].due # <<>>
      /\ DueSet(static_deadlines[c + 1])
           = {s.item : s \in {r \in TableTasks[ir] : Ahead[ir][c][r] = 0}}
      /\ \A s \in TableTasks[ir] :
           static_deadlines[d + 1].pause + Ahead[ir][d][s]
             = IF Ahead[ir][c][s] = 0 THEN s.period ELSE Ahead[ir][c][s]
  BY <1>1, TableAssumption
<1>6. \A s \in TableTasks[ir] : Ahead[ir][c][s] \in Nat /\ Ahead[ir][d][s] \in Nat
  BY <1>1, <1>4, <1>5
<1>7. QED
  BY <1>1, <1>4, <1>5, <1>6

\* Without a table there are no static tasks.
LEMMA NoTable ==
  ASSUME TypeOK
  PROVE  (TableTasks[ir] = {}) = (static_deadlines = <<>>)
BY TableAssumption DEF TypeOK

\* A coordinator that was just built has its static tasks armed, each for its
\* first period.
LEMMA RefinesInit == Init => Abstract!Init
<1> SUFFICES ASSUME NEW p \in IRs, Build(p), due_work = [due |-> 0, items |-> {}]
             PROVE  Abstract!Init
  BY DEF Init
<1>1. /\ ir = p /\ DOMAIN event_queue = {} /\ deadline_cursor = 0
  BY DEF Build, EmptyQueue
<1>2. NextOf = [s \in TableTasks[p] |-> s.period]
  <2>1. \A s \in TableTasks[p] : next_periodic_due + Ahead[p][0][s] = s.period
    <3> SUFFICES ASSUME NEW s \in TableTasks[p]
                 PROVE  next_periodic_due + Ahead[p][0][s] = s.period
      OBVIOUS
    <3>1. Deadlines[p] # <<>>
      BY TableAssumption
    <3>2. Deadlines[p] \in Seq([pause : Nat \ {0}, due : Seq(Work)])
      BY CoordinatorAssumption DEF DeadlineTable
    <3>3. Len(Deadlines[p]) > 0
      BY <3>1, <3>2
    <3>4. Deadlines[p][1].pause + Ahead[p][0][s] = s.period
      BY <3>3, TableAssumption
    <3>5. QED
      BY <3>1, <3>4 DEF Build
  <2>2. QED
    BY <1>1, <2>1 DEF NextOf
<1>3. QED
  BY <1>2 DEF Abstract!Init

\* Taking a batch fires exactly the sources that are next, and moves each by
\* its own period, also those the code only knows as positions of the table.
LEMMA RefinesCollect ==
  ASSUME IInv, Collect
  PROVE  Abstract!Next
<1>1. PICK t \in Dues : CollectDueWork(t)
  BY DEF Collect
<1> DEFINE dom == TableTasks[ir] \cup DOMAIN event_queue
           c == deadline_cursor
<1>2. t \in Nat /\ \A d \in Dues : d \in Nat /\ t <= d
  BY <1>1 DEF IInv, TypeOK, Dues, CollectDueWork, EarliestDue
<1>3. \A s \in DOMAIN event_queue :
        /\ s \notin TableTasks[ir] /\ s.period \in Nat
        /\ event_queue[s] \in Nat /\ t <= event_queue[s]
        /\ NextOf[s] = event_queue[s]
  <2>1. DOMAIN event_queue \subseteq Entry /\ ir \in IRs
    BY DEF IInv, TypeOK
  <2>2. \A s \in TableTasks[ir] : s \notin Entry
    BY <2>1, TableAssumption
  <2>3. QED
    BY <1>2, <2>1, <2>2, CoordinatorAssumption DEF IInv, TypeOK, Dues, NextOf
<1>4. \A s \in TableTasks[ir] :
        /\ static_deadlines # <<>>
        /\ next_periodic_due \in Nat /\ t <= next_periodic_due
        /\ Ahead[ir][c][s] \in Nat /\ s.period \in Nat
        /\ NextOf[s] = next_periodic_due + Ahead[ir][c][s]
  <2> SUFFICES ASSUME NEW s \in TableTasks[ir]
               PROVE  /\ static_deadlines # <<>>
                      /\ next_periodic_due \in Nat /\ t <= next_periodic_due
                      /\ Ahead[ir][c][s] \in Nat /\ s.period \in Nat
                      /\ NextOf[s] = next_periodic_due + Ahead[ir][c][s]
    OBVIOUS
  <2>1. static_deadlines # <<>> /\ TypeOK
    BY NoTable DEF IInv
  <2>2. next_periodic_due \in Nat /\ next_periodic_due \in Dues
    BY <2>1, CoordinatorAssumption DEF TypeOK, Dues
  <2>3. Ahead[ir][c][s] \in Nat /\ s.period \in Nat
    BY <2>1, CursorTable
  <2>4. QED
    BY <1>2, <2>1, <2>2, <2>3 DEF NextOf
<1>5. \A s \in dom : NextOf[s] \in Nat /\ t <= NextOf[s]
  BY <1>2, <1>3, <1>4
<1>6. {s.item : s \in {r \in dom : NextOf[r] = t}} = StaticItems(t) \cup DynamicItems(t)
  <2>1. {s.item : s \in {r \in DOMAIN event_queue : NextOf[r] = t}} = DynamicItems(t)
    BY <1>3 DEF DynamicItems, DueAt
  <2>2. {s.item : s \in {r \in TableTasks[ir] : NextOf[r] = t}} = StaticItems(t)
    <3>1. CASE next_periodic_due = t
      <4>1. static_deadlines # <<>>
        BY <3>1, <1>2, CoordinatorAssumption DEF IInv, TypeOK
      <4>2. {r \in TableTasks[ir] : NextOf[r] = t}
              = {r \in TableTasks[ir] : Ahead[ir][c][r] = 0}
        BY <3>1, <1>2, <1>4
      <4>3. StaticItems(t) = DueSet(static_deadlines[c + 1])
        BY <3>1, <4>1 DEF StaticItems, DueSet, IInv, TypeOK
      <4>4. QED
        BY <4>1, <4>2, <4>3, CursorTable DEF IInv
    <3>2. CASE next_periodic_due # t
      <4>1. \A s \in TableTasks[ir] : NextOf[s] # t
        BY <3>2, <1>2, <1>4
      <4>2. QED
        BY <3>2, <4>1 DEF StaticItems
    <3>3. QED
      BY <3>1, <3>2
  <2>3. QED
    BY <2>1, <2>2
<1>7. \E s \in dom : NextOf[s] = t
  <2>1. CASE \E e \in DOMAIN event_queue : event_queue[e] = t
    BY <2>1, <1>3
  <2>2. CASE next_periodic_due = t
    <3>1. static_deadlines # <<>>
      BY <2>2, <1>2, CoordinatorAssumption DEF IInv, TypeOK
    <3>2. pending_periodic # <<>> /\ pending_periodic \in Seq(Work)
      BY <3>1, CursorTable, TableEntry DEF IInv, TypeOK
    <3>3. 1 \in 1 .. Len(pending_periodic)
      BY <3>2
    <3>4. StaticItems(t) # {}
      BY <3>3, <2>2 DEF StaticItems
    <3>5. QED
      BY <3>4, <1>6
  <2>3. QED
    BY <1>1, <2>1, <2>2 DEF Dues
<1>8. NextOf' = [s \in dom |-> IF NextOf[s] = t THEN t + s.period ELSE NextOf[s]]
  <2>1. /\ ir' = ir /\ DOMAIN event_queue' = DOMAIN event_queue
        /\ \A e \in DOMAIN event_queue :
             event_queue'[e] = IF event_queue[e] = t THEN t + e.period ELSE event_queue[e]
    BY <1>1 DEF CollectDueWork, PopBatchDueAt
  <2>2. \A s \in TableTasks[ir] :
          next_periodic_due' + Ahead[ir][deadline_cursor'][s]
            = IF NextOf[s] = t THEN t + s.period ELSE NextOf[s]
    <3> SUFFICES ASSUME NEW s \in TableTasks[ir]
                 PROVE  next_periodic_due' + Ahead[ir][deadline_cursor'][s]
                          = IF NextOf[s] = t THEN t + s.period ELSE NextOf[s]
      OBVIOUS
    <3> DEFINE d == (c + 1) % Len(static_deadlines)
    <3>1. static_deadlines # <<>> /\ TypeOK
      BY <1>4 DEF IInv
    <3>2. CASE next_periodic_due = t
      <4>1. /\ deadline_cursor' = d
            /\ next_periodic_due' = t + static_deadlines[d + 1].pause
        BY <1>1, <3>2 DEF CollectDueWork, AdvancePeriodicDeadline
      <4>2. /\ static_deadlines[d + 1].pause + Ahead[ir][d][s]
                 = IF Ahead[ir][c][s] = 0 THEN s.period ELSE Ahead[ir][c][s]
            /\ Ahead[ir][d][s] \in Nat
        BY <3>1, CursorTable
      <4>3. static_deadlines[d + 1].pause \in Nat
        BY <3>1, CursorTable, TableEntry DEF TypeOK
      <4>4. (NextOf[s] = t) = (Ahead[ir][c][s] = 0)
        BY <1>2, <1>4, <3>2
      <4>5. NextOf[s] = t + Ahead[ir][c][s]
        BY <1>4, <3>2
      <4>6. next_periodic_due' + Ahead[ir][deadline_cursor'][s]
              = t + (static_deadlines[d + 1].pause + Ahead[ir][d][s])
        BY <1>2, <4>1, <4>2, <4>3
      <4>7. QED
        BY <1>4, <4>2, <4>4, <4>5, <4>6
    <3>3. CASE next_periodic_due # t
      <4>1. UNCHANGED <<deadline_cursor, next_periodic_due>>
        BY <1>1, <3>3 DEF CollectDueWork, static_vars
      <4>2. NextOf[s] # t
        BY <1>2, <1>4, <3>3
      <4>3. QED
        BY <1>4, <4>1, <4>2
    <3>4. QED
      BY <3>2, <3>3
  <2>3. QED
    BY <2>1, <2>2, <1>3 DEF NextOf
<1>9. /\ DOMAIN NextOf = dom
      /\ due_work' = [due |-> t, items |-> {s.item : s \in {r \in dom : NextOf[r] = t}}]
  BY <1>1, <1>6 DEF NextOf, CollectDueWork
<1>10. Abstract!Fire(t)
  BY <1>5, <1>7, <1>8, <1>9 DEF Abstract!Fire, Abstract!Earliest
<1>11. QED
  BY <1>7, <1>9, <1>10 DEF Abstract!Next

\* The other steps of the coordinator arm a source, disarm one, or do nothing
\* to the schedule.
LEMMA RefinesOther ==
  ASSUME IInv, Schedule \/ Unschedule \/ Advance \/ UNCHANGED vars
  PROVE  Abstract!Next \/ UNCHANGED Abstract!vars
<1>1. \A s \in TableTasks[ir] : s \notin Entry
  BY TableAssumption DEF IInv, TypeOK
<1>2. CASE Schedule
  <2>1. PICK e \in Entry, now \in due_work.due .. clock :
               EnqueueItem(e, now) /\ UNCHANGED <<clock, due_work>>
    BY <1>2 DEF Schedule
  <2>2. /\ event_queue' = [x \in DOMAIN event_queue \cup {e} |->
                             IF x = e THEN now + e.period ELSE event_queue[x]]
        /\ UNCHANGED <<ir, deadline_cursor, next_periodic_due>>
    BY <2>1 DEF EnqueueItem, Enqueue, static_vars
  <2>3. NextOf' = [r \in DOMAIN NextOf \cup {e} |-> IF r = e THEN now + e.period ELSE NextOf[r]]
    BY <2>2, <1>1 DEF NextOf
  <2>4. now \in 0 .. MaxTime /\ now >= due_work.due
    BY CoordinatorAssumption DEF IInv, TypeOK, Batch
  <2>5. Abstract!Arm(e, now)
    BY <2>1, <2>3, <2>4 DEF Abstract!Arm
  <2>6. QED
    BY <2>4, <2>5 DEF Abstract!Next
<1>3. CASE Unschedule
  <2>1. PICK e \in Entry : CancelItem(e) /\ UNCHANGED <<clock, due_work>>
    BY <1>3 DEF Unschedule
  <2>2. /\ event_queue' = [x \in DOMAIN event_queue \ {e} |-> event_queue[x]]
        /\ UNCHANGED <<ir, deadline_cursor, next_periodic_due>>
    BY <2>1 DEF CancelItem, Cancel, static_vars
  <2>3. NextOf' = [r \in DOMAIN NextOf \ {e} |-> NextOf[r]]
    BY <2>2, <1>1 DEF NextOf
  <2>4. Abstract!Disarm(e)
    BY <2>1, <2>3 DEF Abstract!Disarm
  <2>5. QED
    BY <2>4 DEF Abstract!Next
<1>4. CASE Advance \/ UNCHANGED vars
  BY <1>4 DEF Advance, vars, coordinator_vars, static_vars, NextOf, Abstract!vars
<1>5. QED
  BY <1>2, <1>3, <1>4

\* The coordinator implements PeriodicTasks: each stream, static or dynamic, is
\* scheduled at its activation plus the multiples of its own period.
THEOREM Refinement == Spec => ImplementsPeriodicTasks
<1>1. Init => Abstract!Init
  BY RefinesInit
<1>2. IInv /\ [Next]_vars => [Abstract!Next]_(Abstract!vars)
  BY RefinesCollect, RefinesOther DEF Next
<1>3. QED
  BY <1>1, <1>2, Invariant, PTL DEF Spec, ImplementsPeriodicTasks, Abstract!Spec
-----------------------------------------------------------------------------
(* The Monitor *)


\* The bookkeeping of a cycle in one form for streams with and without
\* parameters: the instances that ended in it, started in it, were written.
Gone(s) == IF Streams[s].parameterised THEN removed[s]
           ELSE IF s \in ended_outputs THEN {Unit} ELSE {}
Started(s) == IF Streams[s].parameterised THEN added[s]
              ELSE IF s \in started_outputs THEN {Unit} ELSE {}
Written(s) == IF Streams[s].parameterised THEN updated[s]
              ELSE IF s \in active_outputs THEN {Unit} ELSE {}

\* The position in the static table, as in TypeOK of TaskCoordinator.
Position ==
  /\ ir \in IRs
  /\ static_deadlines = Deadlines[ir]
  /\ IF static_deadlines = <<>>
     THEN next_periodic_due = None
     ELSE /\ deadline_cursor \in 0 .. Len(static_deadlines) - 1
          /\ next_periodic_due \in Nat
          /\ pending_periodic = static_deadlines[deadline_cursor + 1].due

\* Nothing is due before the latest batch, the latest cycle or, between calls,
\* the clock; within a call, all these are at most the time of the call.
Times ==
  /\ clock \in Nat /\ due_work.due \in Nat /\ call.ts \in Nat /\ cycle.ts \in Nat
  /\ \A d \in Dues : d > due_work.due /\ d >= cycle.ts
  /\ pc \in {"Idle", "Flush", "Cycle"}
  /\ pc = "Idle" =>
       /\ due_work.due <= clock /\ cycle.ts <= clock
       /\ \A d \in Dues : d >= clock
  /\ pc # "Idle" => due_work.due <= call.ts /\ cycle.ts <= call.ts /\ clock <= call.ts
  /\ pc = "Cycle" => due_work.due <= cycle.ts
  /\ pc = "Cycle" /\ cycle.source = "event" => cycle.ts = clock

\* Every instance is one of its stream, and what a cycle notes of a stream is
\* about instances that have a slot.
Store ==
  /\ DOMAIN slots = Stream /\ DOMAIN added = Stream
  /\ DOMAIN removed = Stream /\ DOMAIN updated = Stream
  /\ \A s \in Stream :
       /\ slots[s] \subseteq Keys(s)
       /\ Gone(s) \subseteq slots[s]
       /\ Started(s) \subseteq slots[s]
       /\ Written(s) \subseteq slots[s]
       /\ Gone(s) # {} => s \in ended_outputs

\* The items an instance has in the queue.
LocalEntries(s, k) ==
  (IF Streams[s].eval = "local" THEN {ComputeEntry(s, k)} ELSE {})
  \cup
  (IF TimeDriven(s) /\ Streams[s].end = "local" THEN {EndEntry(s, k)} ELSE {})

\* The queue holds the items of the instances that live, and no others.
Queue ==
  /\ event_queue \in [DOMAIN event_queue -> Nat]
  /\ DOMAIN event_queue =
       UNION {UNION {LocalEntries(s, k) : k \in Live(s)} : s \in {r \in Stream : Streams[r].startable}}

\* A cycle has tasks of the static schedule or an event, and tasks that name an
\* instance which lives; none is there between the cycles.  A stream is not
\* ended by both kinds.
Todo ==
  /\ pc # "Cycle" => todo = {}
  /\ \A w \in todo :
       \/ w.kind = "ComputeAll" /\ w.idx \in Stream
       \/ w.kind = "Activate" /\ w.idx \in Stream /\ Streams[w.idx].startable
       \/ w.kind = "DeactivateAll" /\ w.idx \in Stream /\ Streams[w.idx].end # "local"
       \/ /\ w.idx \in Stream /\ w.params \in Live(w.idx)
          /\ \/ w = [kind |-> "Compute", idx |-> w.idx, params |-> w.params]
             \/ /\ w = [kind |-> "Deactivate", idx |-> w.idx, params |-> w.params]
                /\ Streams[w.idx].end = "local"

\* The instances of a stream the verdicts have said to be alive.
Reported(s) == {k \in Keys(s) : <<s, k>> \in DOMAIN reported}

\* In a cycle the verdicts are behind by what the cycle started and ended.
Reports ==
  /\ reported \in [DOMAIN reported -> Nat]
  /\ DOMAIN reported \subseteq
       UNION {{<<s, k>> : k \in Keys(s)} : s \in {r \in Stream : Streams[r].startable}}
  /\ \A s \in Stream : Streams[s].startable =>
       IF pc = "Cycle"
       THEN slots[s] = Reported(s) \cup Started(s) /\ Reported(s) \cap Started(s) = {}
       ELSE Reported(s) = Live(s)

\* When the activation of an instance is, or will be, reported.
ActivatedAt(s, k) ==
  IF pc = "Cycle" /\ k \in Started(s) THEN cycle.ts ELSE reported[<<s, k>>]

\* A local clock is at a multiple of its period from there.
LocalClocks ==
  \A s \in Stream : \A k \in Keys(s) :
    LET e == ComputeEntry(s, k)
    IN  e \in DOMAIN event_queue =>
          (event_queue[e] - ActivatedAt(s, k)) % e.period = 0

MInv == Position /\ Times /\ Store /\ Queue /\ Todo /\ Reports /\ LocalClocks
-----------------------------------------------------------------------------
(* Facts about the definitions *)

\* An instance lives when it has a slot and did not end in this cycle.
LEMMA LiveIs == ASSUME NEW s \in Stream PROVE Live(s) = slots[s] \ Gone(s)
BY DEF Live, Gone

\* An item belongs to one instance.
LEMMA EntriesApart ==
  ASSUME NEW s, NEW k, NEW r, NEW j, NEW e \in LocalEntries(s, k)
  PROVE  /\ e \in LocalEntries(r, j) => r = s /\ j = k
         /\ e = ComputeEntry(r, j) => r = s /\ j = k /\ Streams[s].eval = "local"
         /\ e = EndEntry(r, j) => r = s /\ j = k /\ TimeDriven(s) /\ Streams[s].end = "local"
BY DEF LocalEntries, ComputeEntry, EndEntry

\* What is in the queue, item by item.
LEMMA QueueHolds ==
  ASSUME Queue, NEW e
  PROVE  e \in DOMAIN event_queue <=>
           \E s \in Stream : Streams[s].startable /\ \E k \in Live(s) : e \in LocalEntries(s, k)
BY DEF Queue

\* A recurring item of an instance has a positive period.
LEMMA EntryPeriod ==
  ASSUME NEW s \in Stream, NEW k \in Keys(s), NEW e \in LocalEntries(s, k)
  PROVE  e \in Entry /\ e.period \in Nat \ {0}
BY EngineAssumption, CoordinatorAssumption DEF LocalEntries

\* Everything in the queue is due at a number and recurs.
LEMMA QueueTypes ==
  ASSUME Store, Queue, NEW e \in DOMAIN event_queue
  PROVE  event_queue[e] \in Nat /\ e.period \in Nat \ {0}
<1>1. PICK s \in Stream : \E k \in Live(s) : e \in LocalEntries(s, k)
  BY QueueHolds
<1>2. PICK k \in Live(s) : e \in LocalEntries(s, k)
  BY <1>1
<1>3. k \in Keys(s)
  BY <1>2, LiveIs DEF Store
<1>4. QED
  BY <1>2, <1>3, EntryPeriod DEF Queue

\* The tasks of a deadline are there, those of streams with a global clock.
LEMMA TableEntryTasks ==
  ASSUME NEW p \in IRs, NEW c \in 0 .. Len(Deadlines[p]) - 1
  PROVE  /\ Deadlines[p][c + 1].pause \in Nat \ {0}
         /\ Deadlines[p][c + 1].due \in Seq(Work)
         /\ Deadlines[p][c + 1].due # <<>>
         /\ \A i \in 1 .. Len(Deadlines[p][c + 1].due) :
              Deadlines[p][c + 1].due[i] \in StaticTasks
<1>1. Deadlines[p] \in Seq([pause : Nat \ {0}, due : Seq(Work)])
  BY CoordinatorAssumption DEF DeadlineTable
<1>2. Len(Deadlines[p]) \in Nat /\ c + 1 \in 1 .. Len(Deadlines[p])
  BY <1>1
<1> QED
  BY <1>2, TableEntry, MonitorAssumption

\* All deadlines are numbers.
LEMMA DuesAreTimes == ASSUME Position, Store, Queue PROVE Dues \subseteq Nat
<1>1. \A e \in DOMAIN event_queue : event_queue[e] \in Nat
  BY QueueTypes
<1>2. next_periodic_due \in Nat \cup {None}
  BY DEF Position
<1>3. QED
  BY <1>1, <1>2 DEF Dues

\* Without periodic streams there are no deadlines at all.
LEMMA NoDues ==
  ASSUME Position, Store, Queue, ~HasPeriodicStreams
  PROVE  Dues = {}
<1>1. next_periodic_due = None
  BY MonitorAssumption DEF Position
<1>2. DOMAIN event_queue = {}
  BY QueueHolds DEF HasPeriodicStreams, TimeDriven, LocalEntries
<1>3. QED
  BY <1>1, <1>2 DEF Dues
-----------------------------------------------------------------------------
(* What the operations do *)

\* A batch leaves the cursor on the table and everything due later than itself;
\* it has tasks, and they are of the table or of items in the queue.
LEMMA CollectBatch ==
  ASSUME Position, Store, Queue, NEW t \in Dues, CollectDueWork(t)
  PROVE  /\ t \in Nat /\ due_work'.due = t
         /\ Position'
         /\ \A d \in Dues' : d > t
         /\ DOMAIN event_queue' = DOMAIN event_queue
         /\ \A e \in DOMAIN event_queue :
              event_queue'[e] = IF event_queue[e] = t THEN t + e.period ELSE event_queue[e]
         /\ event_queue' \in [DOMAIN event_queue' -> Nat]
         /\ due_work'.items # {}
         /\ \A w \in due_work'.items :
              w \in StaticTasks \/ \E e \in DOMAIN event_queue : w = e.item
<1> USE CoordinatorAssumption
<1>1. t \in Nat /\ \A d \in Dues : d \in Nat /\ t <= d
  BY DuesAreTimes DEF CollectDueWork, EarliestDue
<1>2. due_work' = [due |-> t, items |-> StaticItems(t) \cup DynamicItems(t)]
  BY DEF CollectDueWork
<1>3. /\ event_queue' = [e \in DOMAIN event_queue |->
                           IF event_queue[e] = t THEN t + e.period ELSE event_queue[e]]
      /\ \A e \in DOMAIN event_queue :
           /\ event_queue[e] \in Nat /\ e.period \in Nat \ {0} /\ t <= event_queue[e]
  BY <1>1, QueueTypes DEF CollectDueWork, PopBatchDueAt, Dues
<1>4. \A e \in DOMAIN event_queue : event_queue'[e] \in Nat /\ event_queue'[e] > t
  BY <1>1, <1>3
<1>5. /\ ir' = ir /\ static_deadlines' = static_deadlines
      /\ static_deadlines = <<>> => next_periodic_due' = None
      /\ static_deadlines # <<>> =>
           /\ deadline_cursor' \in 0 .. Len(static_deadlines) - 1
           /\ next_periodic_due' \in Nat
           /\ next_periodic_due' > t
           /\ pending_periodic' = static_deadlines[deadline_cursor' + 1].due
  <2>1. CASE next_periodic_due = t
    <3>1. static_deadlines # <<>>
      BY <2>1, <1>1 DEF Position
    <3>2. static_deadlines \in Seq([pause : Nat \ {0}, due : Seq(Work)])
      BY DEF Position, DeadlineTable
    <3> DEFINE n == Len(static_deadlines)
               c == (deadline_cursor + 1) % n
    <3>3. n \in Nat /\ n > 0 /\ deadline_cursor \in 0 .. n - 1
      BY <3>1, <3>2 DEF Position
    <3>4. c \in 0 .. n - 1
      BY <3>3, NextCursor
    <3>5. static_deadlines[c + 1].pause \in Nat \ {0}
      BY <3>4, TableEntryTasks DEF Position
    <3>6. /\ deadline_cursor' = c
          /\ next_periodic_due' = t + static_deadlines[c + 1].pause
          /\ pending_periodic' = static_deadlines[c + 1].due
          /\ ir' = ir /\ static_deadlines' = static_deadlines
      BY <2>1 DEF CollectDueWork, AdvancePeriodicDeadline
    <3>7. QED
      BY <3>1, <3>4, <3>5, <3>6, <1>1
  <2>2. CASE next_periodic_due # t
    <3>1. UNCHANGED <<ir, static_deadlines, deadline_cursor, next_periodic_due, pending_periodic>>
      BY <2>2 DEF CollectDueWork, static_vars
    <3>2. static_deadlines # <<>> => next_periodic_due \in Nat /\ next_periodic_due >= t
      BY <1>1 DEF Position, Dues
    <3>3. QED
      BY <2>2, <3>1, <3>2, <1>1 DEF Position
  <2>3. QED
    BY <2>1, <2>2
<1>6. Position'
  BY <1>5 DEF Position
<1>7. \A d \in Dues' : d > t
  BY <1>3, <1>4, <1>5 DEF Dues
<1>8. \A w \in DynamicItems(t) : \E e \in DOMAIN event_queue : w = e.item
  BY DEF DynamicItems, DueAt
<1>9. \A w \in StaticItems(t) : w \in StaticTasks
  <2>1. CASE next_periodic_due = t
    <3>1. static_deadlines # <<>>
      BY <2>1, <1>1 DEF Position
    <3>2. \A i \in 1 .. Len(pending_periodic) : pending_periodic[i] \in StaticTasks
      BY <3>1, TableEntryTasks DEF Position
    <3>3. QED
      BY <3>2 DEF StaticItems
  <2>2. QED
    BY <2>1 DEF StaticItems
<1>10. StaticItems(t) \cup DynamicItems(t) # {}
  <2>1. CASE next_periodic_due = t
    <3>1. static_deadlines # <<>>
      BY <2>1, <1>1 DEF Position
    <3>2. pending_periodic # <<>> /\ pending_periodic \in Seq(Work)
      BY <3>1, TableEntryTasks DEF Position
    <3>3. 1 \in 1 .. Len(pending_periodic)
      BY <3>2
    <3>4. QED
      BY <3>3, <2>1 DEF StaticItems
  <2>2. CASE \E e \in DOMAIN event_queue : event_queue[e] = t
    BY <2>2 DEF DynamicItems, DueAt
  <2>3. QED
    BY <2>1, <2>2 DEF Dues
<1>11. QED
  BY <1>1, <1>2, <1>3, <1>4, <1>6, <1>7, <1>8, <1>9, <1>10

\* A cycle begins with the instances that live, and with a clean sheet.
LEMMA CycleBegins ==
  ASSUME Store, BeginCycle
  PROVE  /\ Store'
         /\ \A s \in Stream :
              /\ slots'[s] = Live(s) /\ Live(s)' = Live(s)
              /\ Started(s)' = {}
<1>1. \A s \in Stream : Gone(s)' = {} /\ Started(s)' = {} /\ Written(s)' = {}
  BY DEF BeginCycle, Gone, Started, Written
<1>2. \A s \in Stream : slots'[s] = slots[s] \ Gone(s)
  <2> SUFFICES ASSUME NEW s \in Stream PROVE slots'[s] = slots[s] \ Gone(s)
    OBVIOUS
  <2>1. slots'[s] = IF s \notin ended_outputs THEN slots[s]
                    ELSE IF Streams[s].parameterised THEN slots[s] \ removed[s] ELSE {}
    BY DEF BeginCycle, FlushEndedStreams
  <2>2. CASE Streams[s].parameterised
    BY <2>1, <2>2 DEF Store, Gone
  <2>3. CASE ~Streams[s].parameterised
    BY <2>1, <2>3 DEF Store, Gone, Keys
  <2>4. QED
    BY <2>2, <2>3
<1>3. \A s \in Stream : Live(s) = slots[s] \ Gone(s) /\ Live(s)' = slots'[s] \ Gone(s)'
  BY DEF Live, Gone
<1>4. Store'
  BY <1>1, <1>2 DEF Store, BeginCycle, FlushEndedStreams
<1>5. QED
  BY <1>1, <1>2, <1>3, <1>4

\* A write touches nothing but the note that it happened.
LEMMA Writes ==
  ASSUME Store, NEW s \in Stream, NEW ks \in SUBSET slots[s], WriteInstances(s, ks)
  PROVE  /\ Store' /\ slots' = slots /\ event_queue' = event_queue
         /\ \A r \in Stream : Live(r)' = Live(r) /\ Started(r)' = Started(r)
<1>1. UNCHANGED <<slots, added, removed, started_outputs, ended_outputs, event_queue>>
  BY DEF WriteInstances
<1>2. \A r \in Stream :
        Gone(r)' = Gone(r) /\ Started(r)' = Started(r) /\ Live(r)' = Live(r)
  BY <1>1 DEF Gone, Started, Live
<1>3. \A r \in Stream : Written(r)' \subseteq Written(r) \cup (IF r = s THEN ks ELSE {})
  <2> SUFFICES ASSUME NEW r \in Stream
               PROVE  Written(r)' \subseteq Written(r) \cup (IF r = s THEN ks ELSE {})
    OBVIOUS
  <2>1. CASE Streams[r].parameterised
    BY <2>1 DEF WriteInstances, Written, Store
  <2>2. CASE ~Streams[r].parameterised
    <3>1. slots[r] \subseteq {Unit}
      BY <2>2 DEF Store, Keys
    <3>2. QED
      BY <2>2, <3>1 DEF WriteInstances, Written
  <2>3. QED
    BY <2>1, <2>2
<1>4. DOMAIN updated' = Stream
  BY DEF WriteInstances, Store
<1>5. QED
  BY <1>1, <1>2, <1>3, <1>4 DEF Store

\* An activation that finds a new key gives it a slot and its items, due one
\* period after the cycle.
LEMMA Activates ==
  ASSUME Store, Queue, NEW s \in Stream, Streams[s].startable, NEW ts \in Nat,
         ActivateInstance(s, ts), ~UNCHANGED <<engine_vars, event_queue>>
  PROVE  \E k \in Keys(s) \ slots[s] :
           /\ Store'
           /\ slots' = [slots EXCEPT ![s] = @ \cup {k}]
           /\ Started(s)' = Started(s) \cup {k} /\ Live(s)' = Live(s) \cup {k}
           /\ \A r \in Stream \ {s} : Started(r)' = Started(r) /\ Live(r)' = Live(r)
           /\ DOMAIN event_queue' = DOMAIN event_queue \cup LocalEntries(s, k)
           /\ \A e \in DOMAIN event_queue' :
                event_queue'[e] = IF e \in LocalEntries(s, k) THEN ts + e.period
                                  ELSE event_queue[e]
<1>1. PICK k \in Keys(s) \ slots[s] :
        LET q1 == IF TimeDriven(s) /\ Streams[s].eval = "local"
                  THEN Enqueue(event_queue, ComputeEntry(s, k), ts) ELSE event_queue
            q2 == IF TimeDriven(s) /\ Streams[s].end = "local"
                  THEN Enqueue(q1, EndEntry(s, k), ts) ELSE q1
        IN  /\ slots' = [slots EXCEPT ![s] = @ \cup {k}]
            /\ added' = IF Streams[s].parameterised
                        THEN [added EXCEPT ![s] = @ \cup {k}] ELSE added
            /\ started_outputs' = started_outputs \cup {s}
            /\ event_queue' = q2
            /\ UNCHANGED <<updated, removed, active_outputs, ended_outputs>>
  BY DEF ActivateInstance
<1>2. /\ slots' = [slots EXCEPT ![s] = @ \cup {k}]
      /\ added' = IF Streams[s].parameterised
                  THEN [added EXCEPT ![s] = @ \cup {k}] ELSE added
      /\ started_outputs' = started_outputs \cup {s}
      /\ UNCHANGED <<updated, removed, active_outputs, ended_outputs>>
  BY <1>1
<1>3. Started(s)' = Started(s) \cup {k}
  <2>1. CASE Streams[s].parameterised
    BY <2>1, <1>2 DEF Started, Store
  <2>2. CASE ~Streams[s].parameterised
    BY <2>2, <1>2 DEF Started, Keys
  <2>3. QED
    BY <2>1, <2>2
<1>4. \A r \in Stream \ {s} : Started(r)' = Started(r) /\ slots'[r] = slots[r]
  BY <1>2 DEF Started, Store
<1>5. \A r \in Stream : Gone(r)' = Gone(r) /\ Written(r)' = Written(r)
  BY <1>2 DEF Gone, Written
<1>6. slots'[s] = slots[s] \cup {k} /\ k \notin Gone(s)
  BY <1>2 DEF Store
<1>7. \A r \in Stream : Live(r) = slots[r] \ Gone(r) /\ Live(r)' = slots'[r] \ Gone(r)'
  BY DEF Live, Gone
<1>8. Live(s)' = Live(s) \cup {k} /\ \A r \in Stream \ {s} : Live(r)' = Live(r)
  BY <1>4, <1>5, <1>6, <1>7
<1>9. DOMAIN slots' = Stream /\ DOMAIN added' = Stream
      /\ DOMAIN removed' = Stream /\ DOMAIN updated' = Stream
  BY <1>2 DEF Store
<1>10. Store'
  BY <1>2, <1>3, <1>4, <1>5, <1>6, <1>9 DEF Store
<1>11. /\ DOMAIN event_queue' = DOMAIN event_queue \cup LocalEntries(s, k)
       /\ \A e \in DOMAIN event_queue' :
            event_queue'[e] = IF e \in LocalEntries(s, k) THEN ts + e.period
                              ELSE event_queue[e]
  <2> DEFINE c == ComputeEntry(s, k)
             d == EndEntry(s, k)
             q1 == IF Streams[s].eval = "local" THEN Enqueue(event_queue, c, ts) ELSE event_queue
  <2>1. event_queue' = IF TimeDriven(s) /\ Streams[s].end = "local"
                       THEN Enqueue(q1, d, ts) ELSE q1
    BY <1>1 DEF TimeDriven
  <2>2. c # d
    BY DEF ComputeEntry, EndEntry
  <2> HIDE DEF c, d
  <2>3. LocalEntries(s, k) = (IF Streams[s].eval = "local" THEN {c} ELSE {})
          \cup (IF TimeDriven(s) /\ Streams[s].end = "local" THEN {d} ELSE {})
    BY DEF LocalEntries, c, d
  <2>4. CASE TimeDriven(s) /\ Streams[s].end = "local"
    BY <2>1, <2>2, <2>3, <2>4 DEF Enqueue
  <2>5. CASE ~(TimeDriven(s) /\ Streams[s].end = "local")
    BY <2>1, <2>3, <2>5 DEF Enqueue
  <2>6. QED
    BY <2>4, <2>5
<1>12. QED
  BY <1>2, <1>3, <1>4, <1>8, <1>10, <1>11

\* An end notes the instance and takes its items out of the queue.
LEMMA Ends ==
  ASSUME Store, Queue, NEW s \in Stream, NEW gone \in SUBSET slots[s], EndInstances(s, gone)
  PROVE  /\ Store' /\ slots' = slots
         /\ Live(s)' = Live(s) \ gone
         /\ \A r \in Stream \ {s} : Live(r)' = Live(r)
         /\ \A r \in Stream : Started(r)' = Started(r)
         /\ DOMAIN event_queue' =
              DOMAIN event_queue \ UNION {LocalEntries(s, k) : k \in gone}
         /\ \A e \in DOMAIN event_queue' : event_queue'[e] = event_queue[e]
<1>1. /\ removed' = IF Streams[s].parameterised
                    THEN [removed EXCEPT ![s] = @ \cup gone] ELSE removed
      /\ ended_outputs' = IF gone = {} THEN ended_outputs ELSE ended_outputs \cup {s}
      /\ UNCHANGED <<slots, updated, added, active_outputs, started_outputs>>
  BY DEF EndInstances
<1>2. \A r \in Stream : Started(r)' = Started(r) /\ Written(r)' = Written(r)
  BY <1>1 DEF Started, Written
<1>3. Gone(s)' = Gone(s) \cup gone
  <2>1. CASE Streams[s].parameterised
    BY <2>1, <1>1 DEF Gone, Store
  <2>2. CASE ~Streams[s].parameterised
    <3>1. gone \subseteq {Unit}
      BY <2>2 DEF Store, Keys
    <3>2. QED
      BY <2>2, <3>1, <1>1 DEF Gone
  <2>3. QED
    BY <2>1, <2>2
<1>4. \A r \in Stream \ {s} : Gone(r)' = Gone(r)
  BY <1>1 DEF Gone, Store
<1>5. \A r \in Stream : Live(r) = slots[r] \ Gone(r) /\ Live(r)' = slots'[r] \ Gone(r)'
  BY DEF Live, Gone
<1>6. DOMAIN removed' = Stream /\ \A r \in Stream : Gone(r)' # {} => r \in ended_outputs'
  BY <1>1, <1>3, <1>4 DEF Store
<1>7. Store'
  BY <1>1, <1>2, <1>3, <1>4, <1>6 DEF Store
<1> DEFINE cancelled ==
             (IF TimeDriven(s) THEN {ComputeEntry(s, k) : k \in gone} ELSE {})
             \cup
             (IF TimeDriven(s) /\ Streams[s].end = "local"
              THEN {EndEntry(s, k) : k \in gone} ELSE {})
<1>8. event_queue' = [e \in DOMAIN event_queue \ cancelled |-> event_queue[e]]
  BY DEF EndInstances
<1>9. \A e \in DOMAIN event_queue :
        e \in cancelled <=> \E k \in gone : e \in LocalEntries(s, k)
  <2> SUFFICES ASSUME NEW e \in DOMAIN event_queue
               PROVE  e \in cancelled <=> \E k \in gone : e \in LocalEntries(s, k)
    OBVIOUS
  <2>1. ASSUME NEW k \in gone, e \in LocalEntries(s, k)
        PROVE  e \in cancelled
    BY <2>1 DEF LocalEntries, TimeDriven
  <2>2. ASSUME NEW k \in gone, e = ComputeEntry(s, k)
        PROVE  e \in LocalEntries(s, k)
    <3>1. PICK r \in Stream : \E j \in Live(r) : e \in LocalEntries(r, j)
      BY QueueHolds
    <3>2. PICK j \in Live(r) : e \in LocalEntries(r, j)
      BY <3>1
    <3>3. QED
      BY <2>2, <3>2, EntriesApart
  <2>3. ASSUME NEW k \in gone, e = EndEntry(s, k), TimeDriven(s), Streams[s].end = "local"
        PROVE  e \in LocalEntries(s, k)
    BY <2>3 DEF LocalEntries
  <2>4. QED
    BY <2>1, <2>2, <2>3
<1>10. /\ DOMAIN event_queue' = DOMAIN event_queue \ UNION {LocalEntries(s, k) : k \in gone}
       /\ \A e \in DOMAIN event_queue' : event_queue'[e] = event_queue[e]
  <2>1. DOMAIN event_queue' = DOMAIN event_queue \ cancelled
    BY <1>8
  <2>2. \A e \in DOMAIN event_queue' : event_queue'[e] = event_queue[e]
    BY <1>8
  <2> HIDE DEF cancelled
  <2>3. QED
    BY <2>1, <2>2, <1>9
<1>11. QED
  BY <1>1, <1>2, <1>3, <1>4, <1>5, <1>7, <1>10
-----------------------------------------------------------------------------
(* The steps keep the invariant *)

\* One period after a multiple of a period comes the next multiple.
LEMMA Multiples ==
  ASSUME NEW a \in Int, NEW p \in Nat \ {0}
  PROVE  /\ a % p = 0 => (a + p) % p = 0
         /\ p % p = 0
<1>1. \A x, y \in Int : x = y * p => x % p = 0
  OBVIOUS
<1>2. a % p = 0 => a = (a \div p) * p
  OBVIOUS
<1>3. a % p = 0 => a + p = ((a \div p) + 1) * p
  BY <1>2
<1>4. p = 1 * p
  OBVIOUS
<1>5. QED
  BY <1>1, <1>3, <1>4

\* Nothing the engine does not change changes what is derived from it.
LEMMA EngineRests ==
  ASSUME Store, UNCHANGED engine_vars
  PROVE  /\ Store'
         /\ \A s \in Stream :
              /\ slots'[s] = slots[s] /\ Live(s)' = Live(s)
              /\ Started(s)' = Started(s)
BY DEF Store, engine_vars, group_vars, flag_vars, Live, Gone, Started, Written

\* The queue, from its items one by one.
LEMMA QueueFrom ==
  ASSUME event_queue' \in [DOMAIN event_queue' -> Nat],
         \A e : e \in DOMAIN event_queue' <=>
           \E s \in Stream : Streams[s].startable /\ \E k \in Live(s)' : e \in LocalEntries(s, k)
  PROVE  Queue'
<1> DEFINE items == UNION {UNION {LocalEntries(s, k) : k \in Live(s)'} :
                             s \in {r \in Stream : Streams[r].startable}}
<1>1. \A e : e \in items <=>
        \E s \in Stream : Streams[s].startable /\ \E k \in Live(s)' : e \in LocalEntries(s, k)
  OBVIOUS
<1>2. DOMAIN event_queue' = items
  BY <1>1
<1>3. QED
  BY <1>2 DEF Queue

\* The monitor starts in the invariant.
LEMMA InitInv == MInit => MInv
<1> SUFFICES ASSUME MInit PROVE MInv
  OBVIOUS
<1> USE DEF MInit
<1>1. PICK spec \in IRs : Build(spec)
  BY DEF Init
<1>2. clock = 0 /\ due_work = [due |-> 0, items |-> {}]
  BY DEF Init
<1>3. Position /\ \A d \in Dues : d > 0
  <2>1. Deadlines[spec] \in Seq([pause : Nat \ {0}, due : Seq(Work)])
    BY CoordinatorAssumption DEF DeadlineTable
  <2>2. CASE Deadlines[spec] = <<>>
    BY <1>1, <2>1, <2>2 DEF Build, Position, Dues, EmptyQueue
  <2>3. CASE Deadlines[spec] # <<>>
    <3>1. Len(Deadlines[spec]) \in Nat \ {0} /\ 0 \in 0 .. Len(Deadlines[spec]) - 1
      BY <2>3, <2>1
    <3>2. Deadlines[spec][1].pause \in Nat \ {0}
      BY <3>1, TableEntryTasks
    <3>3. QED
      BY <1>1, <2>3, <3>1, <3>2 DEF Build, Position, Dues, EmptyQueue
  <2>4. QED
    BY <2>2, <2>3
<1>4. Store
  BY EngineAssumption DEF EngineInit, Store, Gone, Started, Written, Keys
<1>5. Queue
  <2>1. \A s \in Stream : Streams[s].startable => Live(s) = {}
    BY DEF EngineInit, Live
  <2>2. event_queue = [e \in {} |-> 0]
    BY <1>1 DEF Build, EmptyQueue
  <2>3. QED
    BY <2>1, <2>2 DEF Queue
<1>6. Times
  <2>1. \A d \in Dues : d \in Nat
    BY <1>3, <1>4, <1>5, DuesAreTimes
  <2>2. pc = "Idle" /\ call.ts = 0 /\ cycle.ts = 0 /\ due_work.due = 0
    BY <1>2 DEF NoCall
  <2>3. QED
    BY <1>2, <1>3, <2>1, <2>2 DEF Times
<1>7. Todo
  BY DEF EngineInit, Todo
<1>8. Reports
  BY DEF EngineInit, Reports, Reported, Live
<1>9. LocalClocks
  BY <1>1 DEF LocalClocks, Build, EmptyQueue
<1>10. QED
  BY <1>3, <1>4, <1>5, <1>6, <1>7, <1>8, <1>9 DEF MInv

\* A step that leaves the coordinator and the engine alone, between cycles.
LEMMA RestStep ==
  ASSUME MInv, UNCHANGED <<coordinator_vars, engine_vars, todo, reported>>,
         pc # "Cycle", pc' # "Cycle", Times'
  PROVE  MInv'
<1>1. Position'
  BY DEF MInv, Position, coordinator_vars, static_vars
<1>2. Store' /\ \A s \in Stream : Live(s)' = Live(s)
  BY EngineRests DEF MInv
<1>3. event_queue' = event_queue /\ todo' = todo /\ reported' = reported
  BY DEF coordinator_vars
<1>4. Queue'
  BY <1>2, <1>3, QueueFrom, QueueHolds DEF MInv, Queue
<1>5. Todo'
  BY <1>3 DEF MInv, Todo
<1>6. Reports'
  BY <1>2, <1>3 DEF MInv, Reports, Reported
<1>7. LocalClocks'
  BY <1>3 DEF MInv, LocalClocks, ActivatedAt
<1>8. QED
  BY <1>1, <1>2, <1>4, <1>5, <1>6, <1>7 DEF MInv

\* A call sets the time that the rest is measured by.
LEMMA CallStep ==
  ASSUME MInv, NEW ts \in clock .. MaxTime,
         (\E fresh \in SUBSET Inputs : HandleEvent(ts, fresh)) \/ AdvanceClock(ts)
  PROVE  MInv' /\ cycle' = cycle
<1>1. /\ pc = "Idle" /\ pc' = "Flush" /\ call'.ts = ts
      /\ UNCHANGED <<coordinator_vars, clock, due_work, engine_vars, todo, cycle, reported>>
  BY DEF HandleEvent, AdvanceClock
<1>2. Dues' = Dues
  BY <1>1 DEF Dues, coordinator_vars, static_vars
<1>3. Times'
  BY <1>1, <1>2 DEF MInv, Times
<1>4. QED
  BY <1>1, <1>3, RestStep

\* advance_clock returns once nothing is due before its time.
LEMMA AdvancedStep ==
  ASSUME MInv, ClockAdvanced
  PROVE  MInv' /\ cycle' = cycle
<1>1. /\ pc = "Flush" /\ pc' = "Idle" /\ call.kind = "advance" /\ FlushDone
      /\ clock' = call.ts /\ call' = NoCall
      /\ UNCHANGED <<coordinator_vars, due_work, engine_vars, todo, cycle, reported>>
  BY DEF ClockAdvanced
<1>2. Dues' = Dues /\ Dues \subseteq Nat
  BY <1>1, DuesAreTimes DEF MInv, Dues, coordinator_vars, static_vars
<1>3. \A d \in Dues : d >= call.ts
  <2>1. CASE HasPeriodicStreams
    BY <1>1, <1>2, <2>1 DEF FlushDone, Stops, MInv, Times
  <2>2. CASE ~HasPeriodicStreams
    BY <2>2, NoDues DEF MInv
  <2>3. QED
    BY <2>1, <2>2
<1>4. Times'
  BY <1>1, <1>2, <1>3 DEF MInv, Times, NoCall
<1>5. QED
  BY <1>1, <1>4, RestStep

\* A round of the flush begins a cycle with the tasks of the batch: those of the
\* table, and those of the items of the instances that live.
LEMMA FlushStep ==
  ASSUME MInv, FlushDeadline
  PROVE  MInv' /\ cycle'.ts >= cycle.ts
<1>1. PICK t \in Dues : /\ CollectDueWork(t) /\ ~Stops(t)
                        /\ cycle' = [source |-> "timed", ts |-> t]
  BY DEF FlushDeadline
<1>2. /\ pc = "Flush" /\ pc' = "Cycle" /\ todo' = due_work'.items
      /\ clock' = clock /\ call' = call /\ reported' = reported
  BY DEF FlushDeadline
<1>3. Position /\ Store /\ Queue /\ Dues \subseteq Nat
  BY DuesAreTimes DEF MInv
<1>4. /\ t \in Nat /\ due_work'.due = t
      /\ Position'
      /\ \A d \in Dues' : d > t
      /\ DOMAIN event_queue' = DOMAIN event_queue
      /\ \A e \in DOMAIN event_queue :
           event_queue'[e] = IF event_queue[e] = t THEN t + e.period ELSE event_queue[e]
      /\ event_queue' \in [DOMAIN event_queue' -> Nat]
      /\ due_work'.items # {}
      /\ \A w \in due_work'.items :
           w \in StaticTasks \/ \E e \in DOMAIN event_queue : w = e.item
  BY <1>1, <1>3, CollectBatch
<1>5. BeginCycle
  BY <1>4 DEF FlushDeadline
<1>6. /\ Store'
      /\ \A s \in Stream :
           slots'[s] = Live(s) /\ Live(s)' = Live(s) /\ Started(s)' = {}
  BY <1>3, <1>5, CycleBegins
<1>7. t >= cycle.ts /\ t <= call.ts
  BY <1>1, <1>2, <1>3 DEF MInv, Times, Stops
<1>8. Times'
  <2>1. \A d \in Dues' : d \in Nat
    <3>1. \A e \in DOMAIN event_queue' : event_queue'[e] \in Nat
      BY <1>4
    <3>2. QED
      BY <1>4, <3>1 DEF Dues, Position
  <2>2. QED
    BY <1>1, <1>2, <1>4, <1>7, <2>1 DEF MInv, Times
<1>9. Queue'
  BY <1>3, <1>4, <1>6, QueueFrom, QueueHolds
<1>10. Todo'
  <2> SUFFICES ASSUME NEW w \in todo'
               PROVE  \/ w.kind = "ComputeAll" /\ w.idx \in Stream
                      \/ w.kind = "Activate" /\ w.idx \in Stream /\ Streams[w.idx].startable
                      \/ w.kind = "DeactivateAll" /\ w.idx \in Stream /\ Streams[w.idx].end # "local"
                      \/ /\ w.idx \in Stream /\ w.params \in Live(w.idx)'
                         /\ \/ w = [kind |-> "Compute", idx |-> w.idx, params |-> w.params]
                            \/ /\ w = [kind |-> "Deactivate", idx |-> w.idx, params |-> w.params]
                               /\ Streams[w.idx].end = "local"
    BY <1>2 DEF Todo
  <2>1. CASE w \in StaticTasks
    BY <2>1, EngineAssumption DEF StaticTasks
  <2>2. CASE \E e \in DOMAIN event_queue : w = e.item
    <3>1. PICK e \in DOMAIN event_queue : w = e.item
      BY <2>2
    <3>2. PICK s \in Stream : \E k \in Live(s) : e \in LocalEntries(s, k)
      BY <1>3, QueueHolds
    <3>3. PICK k \in Live(s) : e \in LocalEntries(s, k)
      BY <3>2
    <3>4. k \in Live(s)'
      BY <1>6
    <3>5. CASE e = ComputeEntry(s, k)
      BY <3>1, <3>4, <3>5 DEF ComputeEntry
    <3>6. CASE e = EndEntry(s, k) /\ Streams[s].end = "local"
      BY <3>1, <3>4, <3>6 DEF EndEntry
    <3>7. QED
      BY <3>3, <3>5, <3>6 DEF LocalEntries
  <2>3. QED
    BY <1>2, <1>4, <2>1, <2>2
<1>11. Reports'
  BY <1>2, <1>6 DEF MInv, Reports, Reported
<1>12. LocalClocks'
  <2> SUFFICES ASSUME NEW s \in Stream, NEW k \in Keys(s), NEW e, e = ComputeEntry(s, k),
                      e \in DOMAIN event_queue'
               PROVE  (event_queue'[e] - ActivatedAt(s, k)') % e.period = 0
    BY DEF LocalClocks
  <2>1. ActivatedAt(s, k)' = ActivatedAt(s, k)
    BY <1>2, <1>6 DEF ActivatedAt
  <2>2. (event_queue[e] - ActivatedAt(s, k)) % e.period = 0
    BY <1>4 DEF MInv, LocalClocks
  <2>3. event_queue[e] \in Nat /\ e.period \in Nat \ {0}
    BY <1>3, <1>4, QueueTypes
  <2>4. ActivatedAt(s, k) \in Nat
    <3>1. PICK r \in Stream : Streams[r].startable /\ \E j \in Live(r) : e \in LocalEntries(r, j)
      BY <1>3, <1>4, QueueHolds
    <3>2. r = s /\ k \in Live(s)
      BY <3>1, EntriesApart
    <3>3. <<s, k>> \in DOMAIN reported
      BY <1>2, <3>1, <3>2 DEF MInv, Reports, Reported
    <3>4. QED
      BY <1>2, <3>3 DEF MInv, Reports, ActivatedAt
  <2>5. CASE event_queue[e] # t
    BY <2>1, <2>2, <2>5, <1>4
  <2>6. CASE event_queue[e] = t
    <3>1. event_queue'[e] - ActivatedAt(s, k)' = (event_queue[e] - ActivatedAt(s, k)) + e.period
      BY <2>1, <2>3, <2>4, <2>6, <1>4
    <3>2. event_queue[e] - ActivatedAt(s, k) \in Int
      BY <2>3, <2>4
    <3>3. QED
      BY <2>2, <2>3, <3>1, <3>2, Multiples
  <2>7. QED
    BY <2>5, <2>6
<1>13. QED
  BY <1>1, <1>4, <1>6, <1>7, <1>8, <1>9, <1>10, <1>11, <1>12 DEF MInv

\* An event begins its cycle when the deadlines before it were flushed.
LEMMA EventStep ==
  ASSUME MInv, ProcessEvent
  PROVE  MInv' /\ cycle'.ts >= cycle.ts
<1>1. /\ pc = "Flush" /\ pc' = "Cycle" /\ call.kind = "event" /\ FlushDone
      /\ BeginCycle
      /\ todo' = EventTasks(call.fresh)
      /\ cycle' = [source |-> "event", ts |-> call.ts] /\ clock' = call.ts
      /\ UNCHANGED <<coordinator_vars, due_work, call, reported>>
  BY DEF ProcessEvent
<1>2. Position /\ Store /\ Queue /\ Dues \subseteq Nat
  BY DuesAreTimes DEF MInv
<1>3. Dues' = Dues /\ event_queue' = event_queue
  BY <1>1 DEF Dues, coordinator_vars, static_vars
<1>4. Position'
  BY <1>1, <1>2 DEF Position, coordinator_vars, static_vars
<1>5. \A d \in Dues : d >= call.ts
  <2>1. CASE HasPeriodicStreams
    BY <1>1, <1>2, <2>1 DEF FlushDone, Stops, MInv, Times
  <2>2. CASE ~HasPeriodicStreams
    BY <1>2, <2>2, NoDues
  <2>3. QED
    BY <2>1, <2>2
<1>6. Times' /\ cycle'.ts >= cycle.ts
  BY <1>1, <1>2, <1>3, <1>5 DEF MInv, Times
<1>7. /\ Store'
      /\ \A s \in Stream :
           slots'[s] = Live(s) /\ Live(s)' = Live(s) /\ Started(s)' = {}
  BY <1>1, <1>2, CycleBegins
<1>8. Queue'
  BY <1>2, <1>3, <1>7, QueueFrom, QueueHolds DEF Queue
<1>9. Todo'
  <2>1. \A w \in EventTasks(call.fresh) :
          /\ w.idx \in Stream
          /\ \/ w.kind = "ComputeAll"
             \/ w.kind = "Activate" /\ Streams[w.idx].start = "event"
             \/ w.kind = "DeactivateAll" /\ Streams[w.idx].end = "event"
    BY DEF EventTasks
  <2>2. QED
    BY <1>1, <2>1, EngineAssumption DEF Todo
<1>10. Reports'
  BY <1>1, <1>7 DEF MInv, Reports, Reported
<1>11. LocalClocks'
  BY <1>1, <1>3, <1>7 DEF MInv, LocalClocks, ActivatedAt
<1>12. QED
  BY <1>4, <1>6, <1>7, <1>8, <1>9, <1>10, <1>11 DEF MInv

\* What a task does is one of four things.  Instances end only when the tasks
\* left do not name them: those run before or are of other instances.
LEMMA TaskKinds ==
  ASSUME MInv, NEW w \in NextTasks, RunTask(w, cycle.ts)
  PROVE  \/ \E s \in Stream : \E ks \in SUBSET slots[s] : WriteInstances(s, ks)
         \/ UNCHANGED <<engine_vars, event_queue>>
         \/ \E s \in Stream : Streams[s].startable /\ ActivateInstance(s, cycle.ts)
         \/ \E s \in Stream : \E gone \in SUBSET slots[s] :
              /\ EndInstances(s, gone)
              /\ \A v \in todo \ {w} :
                   \/ v.kind = "DeactivateAll"
                   \/ v.kind = "Deactivate" /\ (v.idx = s => v.params \notin gone)
<1>1. /\ w \in todo
      /\ \A v \in todo : PriorityLevel(w) <= PriorityLevel(v)
  BY DEF NextTasks
<1>2. \A v \in todo :
        \/ v.kind = "ComputeAll" /\ v.idx \in Stream
        \/ v.kind = "Activate" /\ v.idx \in Stream /\ Streams[v.idx].startable
        \/ v.kind = "DeactivateAll" /\ v.idx \in Stream /\ Streams[v.idx].end # "local"
        \/ /\ v.idx \in Stream /\ v.params \in Live(v.idx)
           /\ \/ v = [kind |-> "Compute", idx |-> v.idx, params |-> v.params]
              \/ /\ v = [kind |-> "Deactivate", idx |-> v.idx, params |-> v.params]
                 /\ Streams[v.idx].end = "local"
  BY DEF MInv, Todo
<1>3. \A s \in Stream : Live(s) \subseteq slots[s]
  BY DEF Live
<1>4. w.kind \in {"Deactivate", "DeactivateAll"} =>
        \A v \in todo : v.kind \in {"Deactivate", "DeactivateAll"}
  <2> SUFFICES ASSUME w.kind \in {"Deactivate", "DeactivateAll"}, NEW v \in todo
               PROVE  v.kind \in {"Deactivate", "DeactivateAll"}
    OBVIOUS
  <2>1. PriorityLevel(w) = UsizeMax /\ PriorityLevel(w) <= PriorityLevel(v)
    BY <1>1 DEF PriorityLevel
  <2>2. CASE v.kind = "Activate"
    BY <1>2, <2>1, <2>2, EngineAssumption DEF PriorityLevel, UsizeMax
  <2>3. CASE v.kind \in {"Compute", "ComputeAll"}
    BY <1>2, <2>1, <2>3, EngineAssumption DEF PriorityLevel, UsizeMax
  <2>4. QED
    BY <1>2, <2>2, <2>3
<1>5. CASE w.kind = "ComputeAll"
  BY <1>1, <1>2, <1>5 DEF RunTask, ComputeAll
<1>6. CASE w.kind = "Compute"
  <2>1. Compute(w.idx, w.params) /\ w.idx \in Stream /\ {w.params} \subseteq slots[w.idx]
    BY <1>1, <1>2, <1>3, <1>6 DEF RunTask
  <2>2. QED
    BY <2>1 DEF Compute
<1>7. CASE w.kind = "Activate"
  BY <1>1, <1>2, <1>7 DEF RunTask
<1>8. CASE w.kind = "DeactivateAll"
  <2>1. /\ w.idx \in Stream /\ Streams[w.idx].end # "local"
        /\ DeactivateAll(w.idx)
    BY <1>1, <1>2, <1>8 DEF RunTask
  <2>2. PICK gone \in SUBSET slots[w.idx] : EndInstances(w.idx, gone)
    BY <2>1 DEF DeactivateAll
  <2>3. \A v \in todo \ {w} :
          \/ v.kind = "DeactivateAll"
          \/ v.kind = "Deactivate" /\ v.idx # w.idx
    <3> SUFFICES ASSUME NEW v \in todo, v.kind # "DeactivateAll"
                 PROVE  v.kind = "Deactivate" /\ v.idx # w.idx
      OBVIOUS
    <3>1. v.kind = "Deactivate"
      BY <1>4, <1>8
    <3>2. Streams[v.idx].end = "local"
      BY <1>2, <3>1
    <3>3. QED
      BY <2>1, <3>1, <3>2
  <2>4. QED
    BY <2>1, <2>2, <2>3
<1>9. CASE w.kind = "Deactivate"
  <2>1. /\ w.idx \in Stream /\ {w.params} \subseteq slots[w.idx]
        /\ w = [kind |-> "Deactivate", idx |-> w.idx, params |-> w.params]
        /\ Deactivate(w.idx, w.params)
    BY <1>1, <1>2, <1>3, <1>9 DEF RunTask
  <2>2. PICK gone \in SUBSET {w.params} : EndInstances(w.idx, gone)
    BY <2>1 DEF Deactivate
  <2>3. \A v \in todo \ {w} :
          \/ v.kind = "DeactivateAll"
          \/ v.kind = "Deactivate" /\ (v.idx = w.idx => v.params # w.params)
    <3> SUFFICES ASSUME NEW v \in todo, v # w, v.kind # "DeactivateAll"
                 PROVE  v.kind = "Deactivate" /\ (v.idx = w.idx => v.params # w.params)
      OBVIOUS
    <3>1. v.kind = "Deactivate"
      BY <1>4, <1>9
    <3>2. v = [kind |-> "Deactivate", idx |-> v.idx, params |-> v.params]
      BY <1>2, <3>1
    <3>3. QED
      BY <2>1, <3>1, <3>2
  <2>4. QED
    BY <2>1, <2>2, <2>3
<1>10. QED
  BY <1>1, <1>2, <1>5, <1>6, <1>7, <1>8, <1>9

\* A step of a cycle that changes nothing but the store, the queue and the
\* tasks left.
LEMMA InCycle ==
  ASSUME MInv, pc = "Cycle",
         UNCHANGED <<ir, static_vars, clock, due_work, monitor_vars>>,
         \A d \in Dues' : d \in Dues \/ (d \in Nat /\ d > cycle.ts)
  PROVE  Position' /\ Times'
<1>1. /\ ir' = ir /\ static_deadlines' = static_deadlines
      /\ deadline_cursor' = deadline_cursor /\ next_periodic_due' = next_periodic_due
      /\ pending_periodic' = pending_periodic
      /\ clock' = clock /\ due_work' = due_work
      /\ pc' = pc /\ call' = call /\ cycle' = cycle
  BY DEF static_vars, monitor_vars
<1>2. Position'
  BY <1>1 DEF MInv, Position
<1>3. \A d \in Dues' : d > due_work.due /\ d >= cycle.ts
  BY DEF MInv, Times
<1>4. QED
  BY <1>1, <1>2, <1>3 DEF MInv, Times

\* The tasks of a cycle are still sound when some are gone and the instances
\* that the others name still live.
LEMMA TodoFrom ==
  ASSUME MInv, pc' = "Cycle", todo' \subseteq todo,
         \A w \in todo' : \/ w.kind \in {"Activate", "ComputeAll", "DeactivateAll"}
                          \/ w.params \in Live(w.idx) => w.params \in Live(w.idx)'
  PROVE  Todo'
BY DEF MInv, Todo

\* A task that changes no instance, a write at most.
LEMMA QuietTask ==
  ASSUME MInv, pc = "Cycle", todo' \subseteq todo,
         UNCHANGED <<ir, static_vars, clock, due_work, monitor_vars>>,
         Store', event_queue' = event_queue,
         \A s \in Stream :
           slots'[s] = slots[s] /\ Live(s)' = Live(s) /\ Started(s)' = Started(s)
  PROVE  MInv'
<1>1. pc' = pc /\ cycle' = cycle /\ reported' = reported /\ next_periodic_due' = next_periodic_due
  BY DEF monitor_vars, static_vars
<1>2. Dues' = Dues
  BY <1>1 DEF Dues
<1>3. Position' /\ Times'
  BY <1>2, InCycle
<1>4. Queue'
  BY QueueFrom, QueueHolds DEF MInv, Queue
<1>5. \A w \in todo : w.idx \in Stream
  BY DEF MInv, Todo
<1>6. Todo'
  BY <1>1, <1>5, TodoFrom
<1>7. Reports'
  BY <1>1 DEF MInv, Reports, Reported
<1>8. LocalClocks'
  BY <1>1 DEF MInv, LocalClocks, ActivatedAt
<1>9. QED
  BY <1>3, <1>4, <1>6, <1>7, <1>8 DEF MInv

\* An activation schedules the new instance; its clock starts with the cycle.
LEMMA ActivationTask ==
  ASSUME MInv, pc = "Cycle", todo' \subseteq todo,
         UNCHANGED <<ir, static_vars, clock, due_work, monitor_vars>>,
         NEW s \in Stream, Streams[s].startable, ActivateInstance(s, cycle.ts),
         ~UNCHANGED <<engine_vars, event_queue>>
  PROVE  MInv'
<1>1. pc' = pc /\ cycle' = cycle /\ reported' = reported /\ next_periodic_due' = next_periodic_due
  BY DEF monitor_vars, static_vars
<1>2. Store /\ Queue /\ cycle.ts \in Nat
  BY DEF MInv, Times
<1>3. PICK k \in Keys(s) \ slots[s] :
        /\ Store'
        /\ slots' = [slots EXCEPT ![s] = @ \cup {k}]
        /\ Started(s)' = Started(s) \cup {k} /\ Live(s)' = Live(s) \cup {k}
        /\ \A r \in Stream \ {s} : Started(r)' = Started(r) /\ Live(r)' = Live(r)
        /\ DOMAIN event_queue' = DOMAIN event_queue \cup LocalEntries(s, k)
        /\ \A e \in DOMAIN event_queue' :
             event_queue'[e] = IF e \in LocalEntries(s, k) THEN cycle.ts + e.period
                               ELSE event_queue[e]
  BY <1>2, Activates
<1>4. \A e \in LocalEntries(s, k) : e.period \in Nat \ {0}
  BY EntryPeriod
<1>5. \A e \in DOMAIN event_queue : event_queue[e] \in Nat
  BY <1>2, QueueTypes
<1>6. \A e \in DOMAIN event_queue' :
        /\ event_queue'[e] \in Nat
        /\ \/ e \in DOMAIN event_queue /\ event_queue'[e] = event_queue[e]
           \/ event_queue'[e] > cycle.ts
  BY <1>2, <1>3, <1>4, <1>5
<1>7. \A d \in Dues' : d \in Dues \/ (d \in Nat /\ d > cycle.ts)
  BY <1>1, <1>6 DEF Dues
<1>8. Position' /\ Times'
  BY <1>7, InCycle
<1>9. Queue'
  <2>1. ASSUME NEW e
        PROVE  e \in DOMAIN event_queue' <=>
                 \E r \in Stream : Streams[r].startable /\ \E j \in Live(r)' : e \in LocalEntries(r, j)
    BY <1>2, <1>3, QueueHolds
  <2>2. event_queue' \in [DOMAIN event_queue' -> Nat]
    <3>1. event_queue' = [e \in DOMAIN event_queue' |-> event_queue'[e]]
      BY DEF ActivateInstance, Enqueue, Queue, MInv
    <3>2. QED
      BY <1>6, <3>1
  <2>3. QED
    BY <2>1, <2>2, QueueFrom
<1>10. Todo'
  <2>1. \A w \in todo : w.idx \in Stream
    BY DEF MInv, Todo
  <2>2. \A r \in Stream : Live(r) \subseteq Live(r)'
    BY <1>3
  <2>3. QED
    BY <1>1, <2>1, <2>2, TodoFrom
<1>11. Reports'
  <2>1. slots'[s] = slots[s] \cup {k} /\ \A r \in Stream \ {s} : slots'[r] = slots[r]
    BY <1>2, <1>3 DEF Store
  <2>2. \A r \in Stream : Reported(r)' = Reported(r)
    BY <1>1 DEF Reported
  <2>3. ASSUME NEW r \in Stream, Streams[r].startable
        PROVE  slots'[r] = Reported(r)' \cup Started(r)' /\ Reported(r)' \cap Started(r)' = {}
    <3>1. slots[r] = Reported(r) \cup Started(r) /\ Reported(r) \cap Started(r) = {}
      BY <2>3 DEF MInv, Reports
    <3>2. CASE r = s
      BY <1>3, <2>1, <2>2, <3>1, <3>2
    <3>3. CASE r # s
      BY <1>3, <2>1, <2>2, <3>1, <3>3
    <3>4. QED
      BY <3>2, <3>3
  <2>4. QED
    BY <1>1, <2>3 DEF MInv, Reports
<1>12. LocalClocks'
  <2> SUFFICES ASSUME NEW r \in Stream, NEW j \in Keys(r), NEW e, e = ComputeEntry(r, j),
                      e \in DOMAIN event_queue'
               PROVE  (event_queue'[e] - ActivatedAt(r, j)') % e.period = 0
    BY DEF LocalClocks
  <2>1. CASE e \in LocalEntries(s, k)
    <3>1. r = s /\ j = k
      BY <2>1 DEF LocalEntries, ComputeEntry, EndEntry
    <3>2. ActivatedAt(r, j)' = cycle.ts
      BY <1>1, <1>3, <3>1 DEF ActivatedAt
    <3>3. event_queue'[e] = cycle.ts + e.period /\ e.period \in Nat \ {0}
      BY <1>3, <1>4, <2>1
    <3>4. event_queue'[e] - ActivatedAt(r, j)' = e.period
      BY <1>2, <3>2, <3>3
    <3>5. QED
      BY <3>3, <3>4, Multiples
  <2>2. CASE e \notin LocalEntries(s, k)
    <3>1. e \in DOMAIN event_queue /\ event_queue'[e] = event_queue[e]
      BY <1>3, <2>2
    <3>2. ~(r = s /\ j = k)
      <4>1. PICK t \in Stream : \E i \in Live(t) : e \in LocalEntries(t, i)
        BY <1>2, <3>1, QueueHolds
      <4>2. PICK i \in Live(t) : e \in LocalEntries(t, i)
        BY <4>1
      <4>3. QED
        BY <2>2, <4>2, EntriesApart
    <3>3. j \in Started(r)' <=> j \in Started(r)
      BY <1>3, <3>2
    <3>4. ActivatedAt(r, j)' = ActivatedAt(r, j)
      BY <1>1, <3>3 DEF ActivatedAt
    <3>5. QED
      BY <3>1, <3>4 DEF MInv, LocalClocks
  <2>3. QED
    BY <2>1, <2>2
<1>13. QED
  BY <1>3, <1>8, <1>9, <1>10, <1>11, <1>12 DEF MInv

\* An end takes the instance out of the queue; no task that is left names it.
LEMMA EndTask ==
  ASSUME MInv, pc = "Cycle", todo' \subseteq todo,
         UNCHANGED <<ir, static_vars, clock, due_work, monitor_vars>>,
         NEW s \in Stream, NEW gone \in SUBSET slots[s], EndInstances(s, gone),
         \A v \in todo' :
           \/ v.kind = "DeactivateAll"
           \/ v.kind = "Deactivate" /\ (v.idx = s => v.params \notin gone)
  PROVE  MInv'
<1>1. pc' = pc /\ cycle' = cycle /\ reported' = reported /\ next_periodic_due' = next_periodic_due
  BY DEF monitor_vars, static_vars
<1>2. Store /\ Queue
  BY DEF MInv
<1>3. /\ Store' /\ slots' = slots
      /\ Live(s)' = Live(s) \ gone
      /\ \A r \in Stream \ {s} : Live(r)' = Live(r)
      /\ \A r \in Stream : Started(r)' = Started(r)
      /\ DOMAIN event_queue' =
           DOMAIN event_queue \ UNION {LocalEntries(s, k) : k \in gone}
      /\ \A e \in DOMAIN event_queue' : event_queue'[e] = event_queue[e]
  BY <1>2, Ends
<1>4. Dues' \subseteq Dues
  BY <1>1, <1>3 DEF Dues
<1>5. Position' /\ Times'
  BY <1>4, InCycle
<1>6. Queue'
  <2>1. ASSUME NEW e, e \in DOMAIN event_queue'
        PROVE  \E r \in Stream : Streams[r].startable /\ \E j \in Live(r)' : e \in LocalEntries(r, j)
    <3>1. PICK r \in Stream : Streams[r].startable /\ \E j \in Live(r) : e \in LocalEntries(r, j)
      BY <1>2, <1>3, <2>1, QueueHolds
    <3>2. PICK j \in Live(r) : e \in LocalEntries(r, j)
      BY <3>1
    <3>3. ~(r = s /\ j \in gone)
      BY <1>3, <2>1, <3>2
    <3>4. j \in Live(r)'
      BY <1>3, <3>2, <3>3
    <3>5. QED
      BY <3>1, <3>2, <3>4
  <2>2. ASSUME NEW e, NEW r \in Stream, Streams[r].startable,
               NEW j \in Live(r)', e \in LocalEntries(r, j)
        PROVE  e \in DOMAIN event_queue'
    <3>1. j \in Live(r) /\ ~(r = s /\ j \in gone)
      BY <1>3, <2>2
    <3>2. e \in DOMAIN event_queue
      BY <1>2, <2>2, <3>1, QueueHolds
    <3>3. \A k \in gone : e \notin LocalEntries(s, k)
      BY <2>2, <3>1, EntriesApart
    <3>4. QED
      BY <1>3, <3>2, <3>3
  <2>3. event_queue' \in [DOMAIN event_queue' -> Nat]
    <3>1. event_queue' = [e \in DOMAIN event_queue' |-> event_queue'[e]]
      BY DEF EndInstances
    <3>2. \A e \in DOMAIN event_queue' : event_queue'[e] \in Nat
      BY <1>2, <1>3 DEF Queue
    <3>3. QED
      BY <3>1, <3>2
  <2>4. QED
    BY <2>1, <2>2, <2>3, QueueFrom
<1>7. Todo'
  <2>1. \A w \in todo : w.idx \in Stream
    BY DEF MInv, Todo
  <2>2. QED
    BY <1>1, <1>3, <2>1, TodoFrom
<1>8. Reports'
  BY <1>1, <1>3 DEF MInv, Reports, Reported
<1>9. LocalClocks'
  BY <1>1, <1>3 DEF MInv, LocalClocks, ActivatedAt
<1>10. QED
  BY <1>3, <1>5, <1>6, <1>7, <1>8, <1>9 DEF MInv

\* Every task keeps the invariant.
LEMMA TaskStep ==
  ASSUME MInv, RunNextTask
  PROVE  MInv' /\ cycle' = cycle
<1>1. PICK w \in NextTasks : RunTask(w, cycle.ts) /\ todo' = todo \ {w}
  BY DEF RunNextTask
<1>2. /\ pc = "Cycle" /\ todo' \subseteq todo
      /\ UNCHANGED <<ir, static_vars, clock, due_work, monitor_vars>>
      /\ Store
  BY <1>1 DEF RunNextTask, MInv
<1>3. ASSUME NEW s \in Stream, NEW ks \in SUBSET slots[s], WriteInstances(s, ks)
      PROVE  MInv'
  BY <1>2, <1>3, Writes, QuietTask
<1>4. ASSUME UNCHANGED <<engine_vars, event_queue>>
      PROVE  MInv'
  BY <1>2, <1>4, EngineRests, QuietTask
<1>5. ASSUME NEW s \in Stream, Streams[s].startable, ActivateInstance(s, cycle.ts)
      PROVE  MInv'
  BY <1>2, <1>4, <1>5, ActivationTask
<1>6. ASSUME NEW s \in Stream, NEW gone \in SUBSET slots[s], EndInstances(s, gone),
             \A v \in todo \ {w} :
               \/ v.kind = "DeactivateAll"
               \/ v.kind = "Deactivate" /\ (v.idx = s => v.params \notin gone)
      PROVE  MInv'
  BY <1>1, <1>2, <1>6, EndTask
<1>7. MInv'
  BY <1>1, <1>3, <1>4, <1>5, <1>6, TaskKinds
<1>8. QED
  BY <1>2, <1>7 DEF monitor_vars

\* A verdict tells what the cycle has noted of each stream; only streams with
\* a start are activated and ended.
LEMMA ChangesAre ==
  ASSUME NEW c
  PROVE  c \in OutputChanges <=>
           \E s \in Stream :
             \/ \E k \in Started(s) : /\ Streams[s].startable
                                      /\ c = [kind |-> "Activate", idx |-> s, params |-> k]
             \/ \E k \in Written(s) : c = [kind |-> "Update", idx |-> s, params |-> k]
             \/ \E k \in Gone(s) : /\ Streams[s].startable
                                   /\ c = [kind |-> "Deactivate", idx |-> s, params |-> k]
<1> DEFINE Change(kind, s, ks) == {[kind |-> kind, idx |-> s, params |-> k] : k \in ks}
           If(s, set) == IF s \in set THEN {Unit} ELSE {}
           Of(s) == IF Streams[s].parameterised
                    THEN Change("Activate", s, added[s]) \cup Change("Update", s, updated[s])
                           \cup Change("Deactivate", s, removed[s])
                    ELSE IF Streams[s].startable
                    THEN Change("Activate", s, If(s, started_outputs))
                           \cup Change("Update", s, If(s, active_outputs))
                           \cup Change("Deactivate", s, If(s, ended_outputs))
                    ELSE Change("Update", s, If(s, active_outputs))
<1>1. c \in OutputChanges <=> \E s \in Stream : c \in Of(s)
  BY DEF OutputChanges
<1>2. ASSUME NEW s \in Stream
      PROVE  c \in Of(s) <=>
               \/ \E k \in Started(s) : /\ Streams[s].startable
                                        /\ c = [kind |-> "Activate", idx |-> s, params |-> k]
               \/ \E k \in Written(s) : c = [kind |-> "Update", idx |-> s, params |-> k]
               \/ \E k \in Gone(s) : /\ Streams[s].startable
                                     /\ c = [kind |-> "Deactivate", idx |-> s, params |-> k]
  <2>1. CASE Streams[s].parameterised
    BY <2>1, EngineAssumption DEF Started, Written, Gone
  <2>2. CASE ~Streams[s].parameterised
    BY <2>2, EngineAssumption DEF Started, Written, Gone
  <2>3. QED
    BY <2>1, <2>2
<1> HIDE DEF Of
<1>3. QED
  BY <1>1, <1>2

\* The instances a verdict activates, ends and updates.
LEMMA ChangedAre ==
  ASSUME NEW i
  PROVE  /\ i \in Changed("Activate") <=>
              \E s \in Stream : Streams[s].startable /\ \E k \in Started(s) : i = <<s, k>>
         /\ i \in Changed("Deactivate") <=>
              \E s \in Stream : Streams[s].startable /\ \E k \in Gone(s) : i = <<s, k>>
         /\ i \in Changed("Update") <=>
              \E s \in Stream : \E k \in Written(s) : i = <<s, k>>
<1>1. ASSUME NEW kind
      PROVE  i \in Changed(kind) <=>
               \E c \in OutputChanges : c.kind = kind /\ i = <<c.idx, c.params>>
  BY DEF Changed
<1>2. ASSUME NEW kind, i \in Changed(kind)
      PROVE  \E s \in Stream :
               \/ kind = "Activate" /\ Streams[s].startable /\ \E k \in Started(s) : i = <<s, k>>
               \/ kind = "Update" /\ \E k \in Written(s) : i = <<s, k>>
               \/ kind = "Deactivate" /\ Streams[s].startable /\ \E k \in Gone(s) : i = <<s, k>>
  <2>1. PICK c \in OutputChanges : c.kind = kind /\ i = <<c.idx, c.params>>
    BY <1>1, <1>2
  <2>2. PICK s \in Stream :
          \/ \E k \in Started(s) : /\ Streams[s].startable
                                   /\ c = [kind |-> "Activate", idx |-> s, params |-> k]
          \/ \E k \in Written(s) : c = [kind |-> "Update", idx |-> s, params |-> k]
          \/ \E k \in Gone(s) : /\ Streams[s].startable
                                /\ c = [kind |-> "Deactivate", idx |-> s, params |-> k]
    BY ChangesAre
  <2>3. QED
    BY <2>1, <2>2
<1>3. ASSUME NEW s \in Stream, NEW k, i = <<s, k>>
      PROVE  /\ k \in Written(s) => i \in Changed("Update")
             /\ k \in Started(s) /\ Streams[s].startable => i \in Changed("Activate")
             /\ k \in Gone(s) /\ Streams[s].startable => i \in Changed("Deactivate")
  <2> DEFINE c(kind) == [kind |-> kind, idx |-> s, params |-> k]
  <2>1. \A kind : c(kind) \in OutputChanges => i \in Changed(kind)
    BY <1>1, <1>3
  <2>2. /\ k \in Written(s) => c("Update") \in OutputChanges
        /\ k \in Started(s) /\ Streams[s].startable => c("Activate") \in OutputChanges
        /\ k \in Gone(s) /\ Streams[s].startable => c("Deactivate") \in OutputChanges
    BY ChangesAre
  <2>3. QED
    BY <2>1, <2>2
<1>4. QED
  BY <1>2, <1>3

\* The end of a cycle: the verdicts catch up.
LEMMA EndStep ==
  ASSUME MInv, EndCycle
  PROVE  MInv' /\ cycle' = cycle
<1> DEFINE A == Changed("Activate")
           alive == (DOMAIN reported \cup A) \ Changed("Deactivate")
<1>1. /\ pc = "Cycle" /\ todo = {}
      /\ reported' = [i \in alive |-> IF i \in A THEN cycle.ts ELSE reported[i]]
      /\ IF cycle.source = "event"
         THEN pc' = "Idle" /\ call' = NoCall
         ELSE pc' = "Flush" /\ UNCHANGED call
      /\ UNCHANGED <<coordinator_vars, clock, due_work, engine_vars, todo, cycle>>
  BY DEF EndCycle
<1>2. Position' /\ event_queue' = event_queue /\ Dues' = Dues
  BY <1>1 DEF MInv, Position, coordinator_vars, static_vars, Dues
<1>3. /\ Store' /\ \A s \in Stream : Live(s)' = Live(s)
  BY <1>1, EngineRests DEF MInv
<1>4. Times'
  BY <1>1, <1>2 DEF MInv, Times, NoCall
<1>5. Queue'
  BY <1>2, <1>3, QueueFrom, QueueHolds DEF MInv, Queue
<1>6. Todo'
  BY <1>1 DEF Todo
<1>7. pc' # "Cycle"
  BY <1>1
<1>8. \A s \in Stream : Streams[s].startable =>
        \A k : /\ <<s, k>> \in A <=> k \in Started(s)
               /\ <<s, k>> \in Changed("Deactivate") <=> k \in Gone(s)
  BY ChangedAre
<1>9. \A s \in Stream : Streams[s].startable =>
        /\ Started(s) \subseteq Keys(s)
        /\ slots[s] = Reported(s) \cup Started(s)
        /\ Live(s) = slots[s] \ Gone(s)
  BY <1>1, LiveIs DEF MInv, Reports, Store
<1>10. DOMAIN reported' = alive
  BY <1>1
<1>11. Reports'
  <2>1. ASSUME NEW s \in Stream, Streams[s].startable
        PROVE  Reported(s)' = Live(s)'
    <3>1. Reported(s)' = {k \in Keys(s) : <<s, k>> \in alive}
      BY <1>10 DEF Reported
    <3>2. Reported(s)' = (Reported(s) \cup Started(s)) \ Gone(s)
      BY <2>1, <3>1, <1>8, <1>9 DEF Reported
    <3>3. QED
      BY <2>1, <3>2, <1>3, <1>9
  <2>2. A \subseteq UNION {{<<s, k>> : k \in Keys(s)} : s \in {r \in Stream : Streams[r].startable}}
    <3> SUFFICES ASSUME NEW i \in A
                 PROVE  \E s \in Stream : Streams[s].startable /\ \E k \in Keys(s) : i = <<s, k>>
      OBVIOUS
    <3>1. PICK s \in Stream : Streams[s].startable /\ \E k \in Started(s) : i = <<s, k>>
      BY ChangedAre
    <3>2. QED
      BY <3>1, <1>9
  <2>3. DOMAIN reported' \subseteq
          UNION {{<<s, k>> : k \in Keys(s)} : s \in {r \in Stream : Streams[r].startable}}
    BY <2>2, <1>10 DEF MInv, Reports
  <2>4. reported' \in [DOMAIN reported' -> Nat]
    <3>1. \A i \in DOMAIN reported : reported[i] \in Nat
      BY DEF MInv, Reports
    <3>2. cycle.ts \in Nat
      BY DEF MInv, Times
    <3>3. QED
      BY <1>1, <3>1, <3>2
  <2>5. QED
    BY <1>7, <2>1, <2>3, <2>4 DEF Reports
<1>12. LocalClocks'
  <2> SUFFICES ASSUME NEW s \in Stream, NEW k \in Keys(s), NEW e, e = ComputeEntry(s, k),
                      e \in DOMAIN event_queue
               PROVE  (event_queue[e] - ActivatedAt(s, k)') % e.period = 0
    BY <1>2 DEF LocalClocks
  <2>1. Streams[s].startable /\ k \in Live(s)
    <3>1. PICK r \in Stream : Streams[r].startable /\ \E j \in Live(r) : e \in LocalEntries(r, j)
      BY QueueHolds DEF MInv
    <3>2. PICK j \in Live(r) : e \in LocalEntries(r, j)
      BY <3>1
    <3>3. r = s /\ j = k
      BY <3>2, EntriesApart
    <3>4. QED
      BY <3>1, <3>3
  <2>2. k \in slots[s] \ Gone(s)
    BY <2>1, <1>9
  <2>3. <<s, k>> \in alive
    <3>1. k \in Reported(s) \cup Started(s) /\ k \notin Gone(s)
      BY <2>1, <2>2, <1>9
    <3>2. QED
      BY <2>1, <3>1, <1>8 DEF Reported
  <2>4. reported'[<<s, k>>] = IF k \in Started(s) THEN cycle.ts ELSE reported[<<s, k>>]
    BY <1>1, <1>8, <2>1, <2>3
  <2>5. ActivatedAt(s, k)' = ActivatedAt(s, k)
    BY <1>1, <1>7, <2>4 DEF ActivatedAt
  <2>6. QED
    BY <2>5 DEF MInv, LocalClocks
<1>13. QED
  BY <1>1, <1>2, <1>3, <1>4, <1>5, <1>6, <1>11, <1>12 DEF MInv

\* Nothing happens.
LEMMA StutterStep ==
  ASSUME MInv, UNCHANGED mvars
  PROVE  MInv' /\ cycle' = cycle
<1>1. /\ UNCHANGED <<coordinator_vars, clock, due_work, engine_vars, todo>>
      /\ pc' = pc /\ call' = call /\ cycle' = cycle /\ reported' = reported
  BY DEF mvars, monitor_vars
<1>2. event_queue' = event_queue /\ Dues' = Dues /\ Position'
  BY <1>1 DEF MInv, Position, coordinator_vars, static_vars, Dues
<1>3. Times'
  BY <1>1, <1>2 DEF MInv, Times
<1>4. Store' /\ \A s \in Stream :
        slots'[s] = slots[s] /\ Live(s)' = Live(s) /\ Started(s)' = Started(s)
  BY <1>1, EngineRests DEF MInv
<1>5. Queue'
  BY <1>2, <1>4, QueueFrom, QueueHolds DEF MInv, Queue
<1>6. Todo'
  BY <1>1, <1>4 DEF MInv, Todo
<1>7. Reports'
  BY <1>1, <1>4 DEF MInv, Reports, Reported
<1>8. LocalClocks'
  BY <1>1, <1>2, <1>4 DEF MInv, LocalClocks, ActivatedAt
<1>9. QED
  BY <1>1, <1>2, <1>3, <1>4, <1>5, <1>6, <1>7, <1>8 DEF MInv

\* Every step keeps the invariant, and none goes back in time.
LEMMA NextInv ==
  ASSUME MInv, [MNext]_mvars
  PROVE  MInv' /\ (cycle' # cycle => cycle'.ts >= cycle.ts)
BY CallStep, FlushStep, EventStep, AdvancedStep, TaskStep, EndStep, StutterStep
   DEF MNext, Internal
-----------------------------------------------------------------------------
(* The theorems *)

\* Every state of the monitor satisfies the invariant.
THEOREM MonitorInvariant == MSpec => []MInv
<1>1. MInit => MInv
  BY InitInv
<1>2. MInv /\ [MNext]_mvars => MInv'
  BY NextInv
<1>3. QED
  BY <1>1, <1>2, PTL DEF MSpec

\* The recurring items in the queue are those of the instances alive, at every
\* moment: activate_instance and deactivate_instance keep the store and the
\* queue together.
THEOREM QueueAlwaysMatches == MSpec => []QueueMatchesInstances
<1>1. MInv => QueueMatchesInstances
  <2> SUFFICES ASSUME MInv PROVE QueueMatchesInstances
    OBVIOUS
  <2>1. Queue /\ \A s \in Stream : Live(s) \subseteq Keys(s)
    BY LiveIs DEF MInv, Store
  <2>2. ASSUME NEW s \in Stream, Streams[s].startable, NEW k \in Keys(s), NEW e,
               \/ Streams[s].eval = "local" /\ e = ComputeEntry(s, k)
               \/ TimeDriven(s) /\ Streams[s].end = "local" /\ e = EndEntry(s, k)
        PROVE  e \in DOMAIN event_queue <=> k \in Live(s)
    <3>1. e \in LocalEntries(s, k)
      BY <2>2 DEF LocalEntries
    <3>2. QED
      BY <2>1, <2>2, <3>1, QueueHolds, EntriesApart
  <2>3. ASSUME NEW s \in Stream, Streams[s].startable, Streams[s].eval = "local"
        PROVE  {k \in Keys(s) : ComputeEntry(s, k) \in DOMAIN event_queue} = Live(s)
    BY <2>1, <2>2, <2>3
  <2>4. ASSUME NEW s \in Stream, Streams[s].startable, TimeDriven(s), Streams[s].end = "local"
        PROVE  {k \in Keys(s) : EndEntry(s, k) \in DOMAIN event_queue} = Live(s)
    BY <2>1, <2>2, <2>4
  <2>5. QED
    BY <2>3, <2>4 DEF QueueMatchesInstances
<1>2. QED
  BY <1>1, MonitorInvariant, PTL

\* A task that names an instance finds it: the expect of run_stream_instance
\* and the assertion of schedule_removal never fail.
THEOREM TasksFindTheirInstance == MSpec => []NoOrphanTask
<1>1. MInv => NoOrphanTask
  BY DEF MInv, Todo, NoOrphanTask
<1>2. QED
  BY <1>1, MonitorInvariant, PTL

\* No deadline before an event or the time of a call that returned is left.
THEOREM DeadlinesComeFirst == MSpec => []NothingOverdue
<1>1. MInv => NothingOverdue
  BY DEF MInv, Times, NothingOverdue
<1>2. QED
  BY <1>1, MonitorInvariant, PTL

\* A batch comes after all that was due before it: nothing the coordinator has
\* yet to collect is due at or before the latest batch.
THEOREM MonitorPassesNothingOver == MSpec => [](\A d \in Dues : d > due_work.due)
<1>1. MInv => \A d \in Dues : d > due_work.due
  BY DEF MInv, Times
<1>2. QED
  BY <1>1, MonitorInvariant, PTL

\* Between cycles a consumer of the verdicts knows which instances live.
THEOREM VerdictsTellWhatLives == MSpec => []ReportedIsLive
<1>1. MInv => ReportedIsLive
  <2> SUFFICES ASSUME MInv, pc # "Cycle"
               PROVE  DOMAIN reported =
                        UNION {{<<s, k>> : k \in Live(s)} : s \in {r \in Stream : Streams[r].startable}}
    BY DEF ReportedIsLive
  <2>1. \A s \in Stream : Streams[s].startable =>
          Live(s) = {k \in Keys(s) : <<s, k>> \in DOMAIN reported}
    BY DEF MInv, Reports, Reported
  <2>2. \A i \in DOMAIN reported :
          \E s \in Stream : Streams[s].startable /\ \E k \in Keys(s) : i = <<s, k>>
    BY DEF MInv, Reports
  <2>3. \A i : i \in DOMAIN reported <=>
          \E s \in Stream : Streams[s].startable /\ \E k \in Live(s) : i = <<s, k>>
    BY <2>1, <2>2
  <2> DEFINE alive == UNION {{<<s, k>> : k \in Live(s)} :
                               s \in {r \in Stream : Streams[r].startable}}
  <2>4. \A i : i \in alive <=>
          \E s \in Stream : Streams[s].startable /\ \E k \in Live(s) : i = <<s, k>>
    OBVIOUS
  <2> HIDE DEF alive
  <2>5. DOMAIN reported = alive
    BY <2>3, <2>4
  <2>6. QED
    BY <2>5 DEF alive
<1>2. QED
  BY <1>1, MonitorInvariant, PTL

\* A verdict activates only what was not alive and updates or ends only what
\* is: also when an instance ended a moment ago under the same key.
THEOREM VerdictsContinue == MSpec => []VerdictContinues
<1>1. MInv => VerdictContinues
  <2> SUFFICES ASSUME MInv, pc = "Cycle"
               PROVE  /\ Changed("Activate") \cap DOMAIN reported = {}
                      /\ \A i \in Changed("Update") \cup Changed("Deactivate") :
                           Streams[i[1]].startable => i \in DOMAIN reported \cup Changed("Activate")
    BY DEF VerdictContinues
  <2>1. \A s \in Stream : Streams[s].startable =>
          /\ slots[s] = Reported(s) \cup Started(s) /\ Reported(s) \cap Started(s) = {}
          /\ Started(s) \subseteq Keys(s)
          /\ Written(s) \subseteq slots[s] /\ Gone(s) \subseteq slots[s]
    BY DEF MInv, Reports, Store
  <2>2. ASSUME NEW i \in Changed("Activate")
        PROVE  i \notin DOMAIN reported
    <3>1. PICK s \in Stream : Streams[s].startable /\ \E k \in Started(s) : i = <<s, k>>
      BY ChangedAre
    <3>2. QED
      BY <3>1, <2>1 DEF Reported
  <2>3. ASSUME NEW i \in Changed("Update") \cup Changed("Deactivate"), Streams[i[1]].startable
        PROVE  i \in DOMAIN reported \cup Changed("Activate")
    <3>1. PICK s \in Stream : \E k \in Written(s) \cup Gone(s) : i = <<s, k>>
      BY <2>3, ChangedAre
    <3>2. PICK k \in Written(s) \cup Gone(s) : i = <<s, k>>
      BY <3>1
    <3>3. i[1] = s
      BY <3>2
    <3>4. Streams[s].startable /\ k \in Reported(s) \cup Started(s)
      BY <2>1, <2>3, <3>2, <3>3
    <3>5. QED
      BY <3>2, <3>4, ChangedAre DEF Reported
  <2>4. QED
    BY <2>2, <2>3
<1>2. QED
  BY <1>1, MonitorInvariant, PTL

\* A local clock ticks at the multiples of its period from the activation that
\* was reported.
THEOREM LocalClocksStartAtActivation == MSpec => []LocalClockFromActivation
<1>1. MInv => LocalClockFromActivation
  <2> SUFFICES ASSUME MInv, pc # "Cycle", NEW i \in DOMAIN reported,
                      NEW e, e = ComputeEntry(i[1], i[2]), e \in DOMAIN event_queue
               PROVE  (event_queue[e] - reported[i]) % e.period = 0
    BY DEF LocalClockFromActivation
  <2>1. PICK s \in Stream : \E k \in Keys(s) : i = <<s, k>>
    BY DEF MInv, Reports
  <2>2. PICK k \in Keys(s) : i = <<s, k>>
    BY <2>1
  <2>3. ActivatedAt(s, k) = reported[i] /\ e = ComputeEntry(s, k)
    BY <2>2 DEF ActivatedAt
  <2>4. QED
    BY <2>3 DEF MInv, LocalClocks
<1>2. QED
  BY <1>1, MonitorInvariant, PTL

\* Cycles come in the order of time.
THEOREM MonitorVerdictsInOrder == MSpec => VerdictsInOrder
<1>1. MInv /\ [MNext]_mvars => [cycle' # cycle => cycle'.ts >= cycle.ts]_mvars
  BY NextInv
<1>2. QED
  BY <1>1, MonitorInvariant, PTL DEF MSpec, VerdictsInOrder
=============================================================================
