----------------------------- MODULE MCDataflow -----------------------------
(***************************************************************************)
(* A signal and three constraints.  Every dependency graph of up to three  *)
(* edges, with four mixes of rates, goes through the layer pass; three     *)
(* specifications that exercise each kind of access between streams of one *)
(* class and of two also run for some cycles.                              *)
(***************************************************************************)
EXTENDS Dataflow

MCSignals == {0}
MCConstraints == {1, 2, 3}
MCOrder == <<0, 3, 2, 1>>

Reads(from, site, to, mode, offset) ==
  [from |-> from, to |-> to, site |-> site, access |-> [mode |-> mode, offset |-> offset]]

Rates(a, b, c) == <<a, b, c>>
Events == Rates("Conditional", "Conditional", "Conditional")

Specification(edges, start, eval, end, startable, ending) ==
  [edges |-> edges, init_rate |-> start, execution_rate |-> eval, termination_rate |-> end,
   startable |-> startable, ending |-> ending]

\* A chain through all accesses, with a stream that reads its own past.
Chain ==
  Specification({Reads(1, "AtBody", 2, "Get", 0), Reads(1, "AtBody", 3, "Fresh", 0),
                 Reads(2, "AtBody", 3, "Cached", 0), Reads(3, "AtBody", 0, "Strict", 0),
                 Reads(3, "AtBody", 1, "Shift", 2), Reads(1, "AtCondition", 1, "Shift", 1),
                 Reads(1, "AtBody", 3, "Shift", 2), Reads(2, "AtBody", 0, "Shift", 1)},
                Events, Events, Events, {}, {})

\* A stream that starts on what another reads, and ends, beside a clocked one.
Lives ==
  Specification({Reads(1, "AtStart", 2, "Get", 0), Reads(2, "AtBody", 0, "Cached", 0),
                 Reads(2, "AtBody", 1, "Shift", 1), Reads(1, "AtBody", 0, "Fresh", 0),
                 Reads(1, "AtEnd", 2, "Get", 0), Reads(1, "AtEnd", 1, "Fresh", 0),
                 Reads(3, "AtBody", 1, "Cached", 0), Reads(1, "AtBody", 3, "Shift", 1)},
                Events, Rates("Conditional", "Conditional", "GlobalClock"), Events, {1}, {1})

\* Clocked streams beside events: started by events, reading events' past.
Mixed ==
  Specification({Reads(1, "AtBody", 3, "Cached", 0), Reads(1, "AtBody", 2, "Get", 0),
                 Reads(1, "AtBody", 3, "Shift", 1), Reads(3, "AtBody", 1, "Cached", 0),
                 Reads(3, "AtBody", 1, "Shift", 2), Reads(2, "AtStart", 3, "Get", 0),
                 Reads(2, "AtBody", 1, "Shift", 1)},
                Rates("Conditional", "Conditional", "Conditional"),
                Rates("GlobalClock", "LocalClock", "Conditional"),
                Rates("Conditional", "LocalClock", "Conditional"), {2}, {2})

Access(mode, offset) == [mode |-> mode, offset |-> offset]

MCEdges ==
  [from : MCConstraints, to : MCConstraints,
   site : {"AtStart", "AtBody"}, access : {Access("Get", 0)}]
  \cup [from : {1, 2}, to : {2}, site : {"AtEnd"}, access : {Access("Get", 0)}]
  \cup [from : {1, 2}, to : {2}, site : {"AtBody"}, access : {Access("Shift", 1)}]
  \cup [from : {1}, to : MCSignals, site : {"AtStart"}, access : {Access("Strict", 0)}]

AllConditional == [c \in MCConstraints |-> "Conditional"]

\* A stream that is started by events and evaluated by a clock; two clocks.
StartedByEvents == [c \in MCConstraints |-> IF c = 3 THEN "GlobalClock" ELSE "Conditional"]
TwoClocks == [c \in MCConstraints |-> IF c = 1 THEN "LocalClock" ELSE "GlobalClock"]

Graphs ==
  {[edges |-> es, init_rate |-> r[1], execution_rate |-> r[2], termination_rate |-> AllConditional,
    startable |-> {}, ending |-> {}] :
     es \in {{}} \cup {{a, b, c} : a, b, c \in MCEdges},
     r \in {<<AllConditional, AllConditional>>, <<AllConditional, StartedByEvents>>,
            <<StartedByEvents, TwoClocks>>, <<TwoClocks, TwoClocks>>}}
Flows == {Chain, Lives, Mixed}
MCSpecs == Graphs \cup Flows
MCMaxCycles == [p \in MCSpecs |-> IF p \in Flows THEN 4 ELSE 0]
=============================================================================
