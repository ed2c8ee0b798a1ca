--------------------------- MODULE TaskCoordinator ---------------------------
(***************************************************************************)
(* TaskCoordinator and EventQueue of core/src/runtime/dispatch/queue.rs:   *)
(* the cyclic table of static deadlines and the queue of dynamic ones, and *)
(* the batches collect_due_work takes from the two.                        *)
(*                                                                         *)
(* The caller is abstracted to a clock.  Evaluation cycles run at the due  *)
(* time of the last batch (a timed cycle) or at the time of an event, and  *)
(* enqueue and cancel items at that time.                                  *)
(***************************************************************************)
EXTENDS EventQueue, Sequences

CONSTANTS
  Work,           \* work items of the static schedule
  Entry,          \* recurring items of the dynamic queue
  IRs,            \* the specifications
  Deadlines,      \* Deadlines[ir]: the deadlines of ir.build_schedule()
  None,           \* Option::None
  MaxTime         \* a bound on time, for model checking

DeadlineTable == Seq([pause : Nat \ {0}, due : Seq(Work)])

ASSUME CoordinatorAssumption ==
  /\ \A e \in Entry : e.period \in Nat \ {0}
  /\ Deadlines \in [IRs -> DeadlineTable]
  /\ None \notin Nat
  /\ MaxTime \in Nat

VARIABLES
  ir,                 \* the specification the coordinator was built for
  static_deadlines,   \* the fields of TaskCoordinator
  deadline_cursor,
  next_periodic_due,
  pending_periodic,
  event_queue,
  clock,              \* the time of the latest event or batch
  due_work            \* the latest batch: [due, items]

static_vars ==
  <<static_deadlines, deadline_cursor, next_periodic_due, pending_periodic>>
coordinator_vars == <<ir, static_vars, event_queue>>
vars == <<coordinator_vars, clock, due_work>>

\* TaskCoordinator::build.  A specification without periodic streams has the
\* empty table, and next_periodic_due is None for it.
Build(spec) ==
  LET table == Deadlines[spec]
  IN  /\ ir = spec
      /\ static_deadlines = table
      /\ deadline_cursor = 0
      /\ next_periodic_due = IF table = <<>> THEN None ELSE table[1].pause
      /\ pending_periodic = IF table = <<>> THEN <<>> ELSE table[1].due
      /\ event_queue = EmptyQueue

Init ==
  /\ \E spec \in IRs : Build(spec)
  /\ clock = 0
  /\ due_work = [due |-> 0, items |-> {}]
-----------------------------------------------------------------------------
\* The times the two schedules are due at next.
Dues == {event_queue[e] : e \in DOMAIN event_queue} \cup ({next_periodic_due} \ {None})

\* earliest_due() = Some(t)
EarliestDue(t) == t \in Dues /\ \A d \in Dues : t <= d

\* Mutants: the tasks of the next slot are not loaded; the pause of the slot
\* that was taken is added.
AdvanceForgetsPending ==
  LET next == (deadline_cursor + 1) % Len(static_deadlines)
  IN  /\ deadline_cursor' = next
      /\ next_periodic_due' = next_periodic_due + static_deadlines[next + 1].pause
      /\ UNCHANGED <<static_deadlines, pending_periodic>>

AdvanceByOwnPause ==
  LET next == (deadline_cursor + 1) % Len(static_deadlines)
  IN  /\ deadline_cursor' = next
      /\ next_periodic_due' =
           next_periodic_due + static_deadlines[deadline_cursor + 1].pause
      /\ pending_periodic' = static_deadlines[next + 1].due
      /\ UNCHANGED static_deadlines

\* advance_periodic_deadline: the next slot becomes pending, its pause later.
AdvancePeriodicDeadline ==
  LET next == (deadline_cursor + 1) % Len(static_deadlines)
  IN  /\ deadline_cursor' = next
      /\ next_periodic_due' = next_periodic_due + static_deadlines[next + 1].pause
      /\ pending_periodic' = static_deadlines[next + 1].due
      /\ UNCHANGED static_deadlines

\* The items of a batch due at t.  The two schedules are compared by their
\* due times; a schedule that is not the earliest one contributes nothing.
StaticItems(t) ==
  IF next_periodic_due = t
  THEN {pending_periodic[i] : i \in 1 .. Len(pending_periodic)}
  ELSE {}

DynamicItems(t) == {e.item : e \in DueAt(event_queue, t)}

\* Mutant: when both schedules are due, only the static one is taken.
CollectStaticFirst(t) ==
  /\ EarliestDue(t)
  /\ IF next_periodic_due = t
     THEN /\ due_work' = [due |-> t, items |-> StaticItems(t)]
          /\ AdvancePeriodicDeadline /\ UNCHANGED event_queue
     ELSE /\ due_work' = [due |-> t, items |-> DynamicItems(t)]
          /\ event_queue' = PopBatchDueAt(event_queue, t)
          /\ UNCHANGED static_vars
  /\ UNCHANGED ir

(***************************************************************************)
(* collect_due_work, called when earliest_due() is Some(t).  The batch is  *)
(* a set: its order by priority_level is in its consumer, process_timed_   *)
(* tasks of module Monitor.                                                *)
(***************************************************************************)
CollectDueWork(t) ==
  /\ EarliestDue(t)
  /\ due_work' = [due |-> t, items |-> StaticItems(t) \cup DynamicItems(t)]
  /\ IF next_periodic_due = t THEN AdvancePeriodicDeadline ELSE UNCHANGED static_vars
  /\ event_queue' = PopBatchDueAt(event_queue, t)
  /\ UNCHANGED ir

\* enqueue_compute, enqueue_end
EnqueueItem(e, now) ==
  /\ event_queue' = Enqueue(event_queue, e, now)
  /\ UNCHANGED <<ir, static_vars>>

\* cancel_compute, cancel_end
CancelItem(e) ==
  /\ event_queue' = Cancel(event_queue, e)
  /\ UNCHANGED <<ir, static_vars>>
-----------------------------------------------------------------------------
(***************************************************************************)
(* The caller.  A cycle runs at a time from the last batch to the clock.   *)
(***************************************************************************)
Collect ==
  \E t \in Dues :
    /\ CollectDueWork(t)
    /\ clock' = IF clock < t THEN t ELSE clock
    /\ clock' <= MaxTime

Schedule ==
  \E e \in Entry, now \in due_work.due .. clock :
    EnqueueItem(e, now) /\ UNCHANGED <<clock, due_work>>

Unschedule == \E e \in Entry : CancelItem(e) /\ UNCHANGED <<clock, due_work>>

\* An event arrives, at any time: deadlines may be overdue then.
Advance ==
  /\ clock' \in clock + 1 .. MaxTime
  /\ UNCHANGED <<coordinator_vars, due_work>>

Next == Collect \/ Schedule \/ Unschedule \/ Advance

Spec == Init /\ [][Next]_vars
-----------------------------------------------------------------------------
Batch == [due : Nat, items : SUBSET (Work \cup {e.item : e \in Entry})]

\* The fields have their types, and a static position exists exactly for a
\* specification with periodic streams.
TypeOK ==
  /\ ir \in IRs
  /\ static_deadlines = Deadlines[ir]
  /\ IF static_deadlines = <<>>
     THEN deadline_cursor = 0 /\ next_periodic_due = None /\ pending_periodic = <<>>
     ELSE /\ deadline_cursor \in 0 .. Len(static_deadlines) - 1
          /\ next_periodic_due \in Nat
          /\ pending_periodic = static_deadlines[deadline_cursor + 1].due
  /\ DOMAIN event_queue \subseteq Entry
  /\ event_queue \in [DOMAIN event_queue -> Nat]
  /\ clock \in 0 .. MaxTime
  /\ due_work \in Batch

(***************************************************************************)
(* Nothing is passed over: whatever is scheduled is due strictly after the *)
(* last batch, so no batch was taken while an earlier one, or another part *)
(* of the same one, was waiting (collect_due_work's three-way comparison   *)
(* and the loop of pop_batch_due_at).                                      *)
(***************************************************************************)
NothingPassedOver == \A d \in Dues : d > due_work.due

(***************************************************************************)
(* No dynamic item is put off: it is due again within one period of the    *)
(* present, also when it was rescheduled from an overdue batch.            *)
(***************************************************************************)
DueWithinPeriod ==
  \A e \in DOMAIN event_queue : event_queue[e] <= clock + e.period

(***************************************************************************)
(* Batches are taken in the order of their due times, each time once, even *)
(* when static and dynamic deadlines coincide or the clock runs ahead.     *)
(***************************************************************************)
BatchesInOrder ==
  [][due_work' # due_work => due_work'.due > due_work.due]_vars

IInv == TypeOK /\ NothingPassedOver /\ DueWithinPeriod /\ due_work.due <= clock
=============================================================================
