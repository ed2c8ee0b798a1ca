------------------------------ MODULE MCMonitor ------------------------------
(***************************************************************************)
(* Small specifications for the Monitor, and the constants that follow     *)
(* from one: its static tasks, their table, its recurring items.           *)
(***************************************************************************)
EXTENDS Monitor

LayerOf(field) == [s \in Stream |-> Streams[s][field]]

S == INSTANCE Schedule
       WITH NsTicks <- 1, EvalLayer <- LayerOf("eval_layer"),
            StartLayer <- LayerOf("start_layer"), MaxSteps <- 30

\* The periodic tasks of the ir, as derive_from_ir reads them off it.
PeriodicTasksOf ==
  LET Of(kind, field, period) ==
        {[kind |-> kind, idx |-> s, period |-> Streams[s][period], selfRef |-> FALSE] :
           s \in {r \in Stream : Streams[r][field] = "global"}}
  IN  Of("Evaluate", "eval", "period") \cup Of("Start", "start", "start_period")
        \cup Of("End", "end", "end_period")

MCIRs == {PeriodicTasksOf}

\* WorkItem::from(Task)
WorkItem(task) ==
  [kind |-> CASE task.kind = "Evaluate" -> "ComputeAll"
              [] task.kind = "Start" -> "Activate"
              [] task.kind = "End" -> "DeactivateAll",
   idx |-> task.idx]

\* TaskCoordinator::build asks for the schedule only with periodic streams.
MCDeadlines ==
  [p \in MCIRs |->
     LET table == IF HasPeriodicStreams THEN S!DeriveFromIR(p).deadlines ELSE <<>>
     IN  [n \in 1 .. Len(table) |->
            [pause |-> table[n].pause,
             due |-> [i \in 1 .. Len(table[n].due) |-> WorkItem(table[n].due[i])]]]]

MCWork == [kind : {"ComputeAll", "Activate", "DeactivateAll"}, idx : Stream]

MCEntry ==
  UNION {{ComputeEntry(s, k), EndEntry(s, k)} : s \in Stream, k \in Params \cup {Unit}}

Plain ==
  [parameterised |-> FALSE, startable |-> FALSE, start |-> "none", eval |-> "event",
   end |-> "none", start_gate |-> {}, eval_gate |-> {{}}, end_gate |-> {},
   period |-> 1, start_period |-> 1, end_period |-> 1,
   start_layer |-> 0, eval_layer |-> 1]

\* Instances activated by x, evaluated and ended by their own clocks.
LocalStreams ==
  <<[Plain EXCEPT !.parameterised = TRUE, !.startable = TRUE, !.start = "event",
                  !.start_gate = {{"x"}}, !.eval = "local", !.end = "local",
                  !.period = 2, !.end_period = 3]>>

\* Instances activated and ended by the global clock, evaluated by their own;
\* and streams without parameters that events activate and end.
GlobalStreams ==
  <<[Plain EXCEPT !.parameterised = TRUE, !.startable = TRUE, !.start = "global",
                  !.eval = "local", !.end = "global",
                  !.start_period = 3, !.period = 2, !.end_period = 4],
    [Plain EXCEPT !.startable = TRUE, !.start = "event", !.start_gate = {{"x"}},
                  !.eval = "global", !.period = 3, !.end = "event",
                  !.end_gate = {{"y"}}, !.start_layer = 1, !.eval_layer = 2],
    [Plain EXCEPT !.startable = TRUE, !.start = "event", !.start_gate = {{"x"}},
                  !.eval_gate = {{"x"}, {"y"}}, !.end = "event", !.end_gate = {{"x", "y"}}]>>
=============================================================================
