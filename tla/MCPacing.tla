------------------------------ MODULE MCPacing ------------------------------
(***************************************************************************)
(* Two constraints over the inputs a and b.  Families of programs:         *)
(* filtered and gated readers, instances that start and end, clocks,       *)
(* streams with two clauses, and readers of such streams.                  *)
(***************************************************************************)
EXTENDS Pacing

a == -1
b == -2
MCInputs == {a, b}
MCExprs == {"p", "q", "r", "p && q", "p || q", "!p", "p && r", "r && p", "p && q || !p"}
MCOp == [e \in MCExprs |->
  CASE e \in {"p && q", "p && r", "r && p"} -> "And" [] e \in {"p || q", "p && q || !p"} -> "Or"
    [] e = "!p" -> "Not" [] OTHER -> "leaf"]
MCArgs == [e \in MCExprs |->
  CASE e = "!p" -> <<"p">> [] e = "p && r" -> <<"p", "r">> [] e = "r && p" -> <<"r", "p">>
    [] e = "p && q || !p" -> <<"p && q", "!p">> [] OTHER -> <<"p", "q">>]

\* The leaf q reads the input a, and r the stream 1.
MCLeafReads == [e \in MCExprs |->
  CASE e = "q" -> {[mode |-> "Strict", target |-> a]} [] e = "r" -> {[mode |-> "Strict", target |-> 1]}
    [] OTHER -> {}]

At(c) == {Event(c)}
A == WithStream(a)
B == WithStream(b)
Unannotated == {}
Annotations == {Unannotated, At(A), At(B), At(AndAC(A, B)), At(OrAC(A, B))}
Reads(mode, ts) == {[mode |-> mode, target |-> t] : t \in ts}
Clause(r, e, rs) == [pacing |-> r, cond |-> e, reads |-> rs]
Constraint(cs, start, end) == [clauses |-> cs, start |-> start, end |-> end]
Plain(c) == Constraint(<<c>>, {}, {})

Filters ==
  {<<Plain(Clause(r, e, Reads("Strict", ts))), Plain(Clause(r2, m[2], Reads(m[1], {1})))>> :
     r \in {Unannotated, At(OrAC(A, B))}, e \in {{}, {"p"}, {"p || q"}}, ts \in {{a}, {a, b}},
     r2 \in {Unannotated, At(A), At(OrAC(A, B))},
     m \in {"Strict"} \X {{}, {"p"}, {"p && q"}, {"p || q"}, {"!p"}, {"p && r"}, {"r && p"}} \cup {<<"Get", {}>>}}

ByA == {Clause(At(A), {}, {})}
Starts == {{}, ByA, {Clause(At(A), {"p"}, {})}, {Clause(At(OrAC(A, B)), {"p || q"}, {})},
           {Clause(Unannotated, {"p"}, Reads("Strict", {b}))}}
Ends == {{}} \cup {{[pacing |-> r, cond |-> {"p"}]} : r \in {At(A), At(B)}}
EndByRead == {[pacing |-> Unannotated, cond |-> {"r"}]}

Lives ==
  {<<Constraint(<<Clause(Unannotated, {}, Reads("Strict", {a}))>>, s, e),
     Constraint(<<Clause(Unannotated, {}, Reads("Strict", {1}))>>, s2, e2)>> :
     s \in Starts, e \in Ends, s2 \in Starts, e2 \in Ends}

Departures ==
  {<<Constraint(<<Clause(Unannotated, e, Reads("Strict", {a}))>>, s, {}),
     Constraint(<<Clause(Unannotated, e2, Reads("Strict", {1}))>>, s2, EndByRead)>> :
     e \in {{}, {"p"}}, e2 \in {{"p"}}, s \in Starts, s2 \in {{}, ByA}}

Clock(local, f) == IF local THEN {LocalPeriodic(f)} ELSE {GlobalPeriodic(f)}
Second == {[pacing |-> Clock(FALSE, 1), cond |-> {"p"}]}

Clocks ==
  {<<Constraint(<<Clause(Clock(l, f), {}, {})>>, s, e[1]),
     Constraint(<<Clause(m[2], {}, Reads(m[1], {1}))>>, s2, e[2])>> :
     l \in BOOLEAN, f \in {2, 3},
     m \in {"Strict"} \X {Unannotated, At(A), Clock(FALSE, 1), Clock(FALSE, 2), Clock(TRUE, 1), Clock(TRUE, 2)}
             \cup {<<"Fresh", Clock(FALSE, 1)>>},
     s \in {{}, ByA}, s2 \in {{}, ByA, {Clause(Clock(FALSE, 1), {}, {})}},
     e \in {<<{}, {}>>, <<{}, Second>>, <<Second, Second>>}}

Branches ==
  {<<Constraint(<<Clause(r, e, {}), Clause(r2, e2, Reads("Strict", ts))>>, {}, {}),
     Plain(Clause(At(A), {}, {}))>> :
     r \in Annotations, e \in {{}, {"p"}}, r2 \in Annotations \ {Unannotated}, e2 \in {{}, {"!p"}}, ts \in {{}, {b}}}

Readers ==
  {<<Constraint(<<Clause(r, e, {}), Clause(r2, e2, {})>>, {}, {}),
     Plain(Clause(r3, e3, Reads("Strict", {1})))>> :
     r \in {At(A), At(OrAC(A, B))}, e \in {{}, {"p"}, {"p && q"}},
     r2 \in {At(A), At(B)}, e2 \in {{}, {"!p"}, {"q"}},
     r3 \in {Unannotated, At(OrAC(A, B))}, e3 \in {{}, {"p || q"}, {"p && q || !p"}, {"r"}}}

\* A local clock needs a start: translate_eval_decl.
LocalsStart(p) ==
  \A s \in Out : p[s].start = {} =>
    \A i \in DOMAIN p[s].clauses : \A r \in p[s].clauses[i].pacing : ~IsLocal(r)

MCPrograms == {p \in Filters \cup Lives \cup Departures \cup Clocks \cup Branches \cup Readers : LocalsStart(p)}
=============================================================================
