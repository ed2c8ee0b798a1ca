----------------------------- MODULE EventQueue -----------------------------
(***************************************************************************)
(* The dynamic scheduler of core/src/runtime/dispatch/queue.rs.  A queue   *)
(* is a function from the recurring items it holds to the time each is due *)
(* next: the PriorityQueue of the code keeps one priority per key, and a   *)
(* push of a key that is there already replaces its priority.              *)
(*                                                                         *)
(* A recurring item is a record [item, period]; item is a work item, e.g.  *)
(* [kind |-> "Compute", idx |-> 2, params |-> p].                          *)
(***************************************************************************)
EXTENDS Integers, FiniteSets

\* EventQueue::new
EmptyQueue == [e \in {} |-> 0]

\* enqueue, behind enqueue_compute and enqueue_end
Enqueue(q, e, now) ==
  [x \in DOMAIN q \cup {e} |-> IF x = e THEN now + e.period ELSE q[x]]

\* cancel, behind cancel_compute and cancel_end; nothing when e is absent
Cancel(q, e) == [x \in DOMAIN q \ {e} |-> q[x]]

\* What the loop of pop_batch_due_at pops when the batch is due at t ...
DueAt(q, t) == {e \in DOMAIN q : q[e] = t}

\* Mutants: an item is pushed back for the same time; it is pushed one period
\* too late.
PopKeepsDue(q, t) == q

PopSkipsPeriod(q, t) ==
  [e \in DOMAIN q |-> IF q[e] = t THEN t + 2 * e.period ELSE q[e]]

\* ... and the queue it leaves: each popped item is pushed again.
PopBatchDueAt(q, t) ==
  [e \in DOMAIN q |-> IF q[e] = t THEN t + e.period ELSE q[e]]
=============================================================================
