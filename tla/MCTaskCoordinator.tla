-------------------------- MODULE MCTaskCoordinator --------------------------
(***************************************************************************)
(* The coordinator with the tables module Schedule derives for streams of  *)
(* periods 2, 3, 4 and with none, and dynamic items of periods 2 and 3.    *)
(***************************************************************************)
EXTENDS TaskCoordinatorRefinement

MCEvalLayer == [i \in 1 .. 3 |-> i]
MCStartLayer == [i \in 1 .. 3 |-> 0]

S == INSTANCE Schedule
       WITH NsTicks <- 1, EvalLayer <- MCEvalLayer, StartLayer <- MCStartLayer,
            UsizeMax <- 9, MaxSteps <- 30

PeriodicTask(kind, idx, period) ==
  [kind |-> kind, idx |-> idx, period |-> period, selfRef |-> FALSE]

MCIRs ==
  {{},
   {PeriodicTask("Evaluate", 1, 2)},
   {PeriodicTask("Evaluate", 1, 2), PeriodicTask("Start", 2, 3)},
   {PeriodicTask("Evaluate", 1, 4), PeriodicTask("Evaluate", 2, 2),
    PeriodicTask("End", 2, 2)}}

\* WorkItem::from(Task)
WorkItem(task) ==
  [kind |-> CASE task.kind = "Evaluate" -> "ComputeAll"
              [] task.kind = "Start" -> "Activate"
              [] task.kind = "End" -> "DeactivateAll",
   idx |-> task.idx]

MCDeadlines ==
  [p \in MCIRs |->
     LET table == S!DeriveFromIR(p).deadlines
     IN  [n \in 1 .. Len(table) |->
            [pause |-> table[n].pause,
             due |-> [i \in 1 .. Len(table[n].due) |-> WorkItem(table[n].due[i])]]]]

MCWork ==
  [kind : {"ComputeAll", "Activate", "DeactivateAll"}, idx : 1 .. 3]

MCEntry ==
  {[item |-> [kind |-> "Compute", idx |-> 3, params |-> "a"], period |-> 3],
   [item |-> [kind |-> "Deactivate", idx |-> 3, params |-> "a"], period |-> 2]}

MCTableTasks ==
  [p \in MCIRs |-> {[item |-> WorkItem(t), period |-> t.period] : t \in p}]

\* From deadline c, the sum of the pauses up to the first deadline with s.
MCAhead ==
  [p \in MCIRs |->
     LET table == MCDeadlines[p]
         n == Len(table)
         Has(c, s) == s.item \in DueSet(table[(c % n) + 1])
         Steps(c, s) == CHOOSE k \in 0 .. n - 1 :
                          Has(c + k, s) /\ \A j \in 0 .. k - 1 : ~Has(c + j, s)
     IN  [c \in 0 .. n - 1 |->
            [s \in MCTableTasks[p] |->
               S!MapThenSumSet(LAMBDA k : table[((c + k) % n) + 1].pause, 1 .. Steps(c, s))]]]
=============================================================================
