---------------------- MODULE TaskCoordinatorRefinement ----------------------
(***************************************************************************)
(* The coordinator implements PeriodicTasks.  A static task has no due     *)
(* time of its own in the code: it is where the cyclic table has it next,  *)
(* that is next_periodic_due plus the pauses up to that deadline.          *)
(***************************************************************************)
EXTENDS TaskCoordinator

CONSTANTS
  TableTasks,   \* TableTasks[ir]: its static tasks, as records [item, period]
  Ahead          \* Ahead[ir][c][s]: from deadline c to the next one with s

DueSet(d) == {d.due[i] : i \in 1 .. Len(d.due)}

(***************************************************************************)
(* What the table of a specification is: a cycle in which every task comes *)
(* back one period after each of its deadlines.  TLC evaluates this for    *)
(* the tables module Schedule derives, so it is what derive_from_ir gives. *)
(***************************************************************************)
ASSUME TableAssumption ==
  /\ TableTasks \in [IRs -> SUBSET {s \in [item : Work, period : Nat \ {0}] : s \notin Entry}]
  /\ \A p \in IRs :
       LET table == Deadlines[p]
           n == Len(table)
       IN  /\ (TableTasks[p] = {}) = (table = <<>>)
           /\ Ahead[p] \in [0 .. n - 1 -> [TableTasks[p] -> Nat]]
           /\ n > 0 => \A s \in TableTasks[p] : table[1].pause + Ahead[p][0][s] = s.period
           /\ \A c \in 0 .. n - 1 :
                /\ table[c + 1].due # <<>>
                /\ DueSet(table[c + 1]) = {s.item : s \in {r \in TableTasks[p] : Ahead[p][c][r] = 0}}
                /\ \A s \in TableTasks[p] :
                     table[((c + 1) % n) + 1].pause + Ahead[p][(c + 1) % n][s]
                       = IF Ahead[p][c][s] = 0 THEN s.period ELSE Ahead[p][c][s]

\* The armed sources and their times.
NextOf ==
  [s \in TableTasks[ir] \cup DOMAIN event_queue |->
     IF s \in TableTasks[ir]
     THEN next_periodic_due + Ahead[ir][deadline_cursor][s]
     ELSE event_queue[s]]

Abstract ==
  INSTANCE PeriodicTasks
    WITH StaticSources <- {TableTasks[p] : p \in IRs}, Times <- 0 .. MaxTime,
         next <- NextOf, fired <- due_work

(***************************************************************************)
(* Every stream, static or dynamic, is evaluated at its activation time    *)
(* plus the multiples of its period, once each, in the order of time, with *)
(* everything that is due at the same time in one batch.                   *)
(***************************************************************************)
ImplementsPeriodicTasks == Abstract!Spec
=============================================================================
