------------------------------- MODULE Pacing -------------------------------
(***************************************************************************)
(* PacingAnalyzer of core/src/oorvir/source/analysis/pacing.rs: from the   *)
(* clauses of a specification to a pacing type of every stream, or to an   *)
(* error; then the cycles of the engine over the types it accepts, which   *)
(* rely on them: read_held_value_strict asserts that its target is fresh.  *)
(*                                                                         *)
(* An optional part of the source is a set with at most one element.  A    *)
(* constraint is a record                                                  *)
(*   clauses   a sequence of [pacing, cond, reads]                         *)
(*   start     {} or {[pacing, cond, reads]}                               *)
(*   end       {} or {[pacing, cond]}                                      *)
(* with reads a set of [mode, target].  Streams are in the order of their  *)
(* layers and have one instance each; arguments of accesses are left out.  *)
(* The solver of the external crate rusttyc is modelled by what it         *)
(* computes: the meet of all bounds a key is more concrete than.           *)
(***************************************************************************)
EXTENDS Rates, FiniteSets, Sequences, FiniteSetsExt

CONSTANTS
  N,            \* the constraints are the streams 1 .. N
  Op,           \* the operator of an expression: "And", "Or", "Not" or "leaf"
  Args,         \* its operands
  LeafReads,    \* the accesses of an expression that is a leaf
  Base,         \* the ticks of one second: a multiple of every frequency
  MaxTick,      \* bound: the last tick
  Programs      \* the specifications

Out == 1 .. N
Stream == Inputs \cup Out

Optional(S) == {x \in SUBSET S : \A y, z \in x : y = z}
Accesses == [mode : {"Strict", "Shift", "Get", "Fresh"}, target : Stream]
Clauses == [pacing : Optional(Rate), cond : Optional(Exprs), reads : SUBSET Accesses]
Constraints == [clauses : Seq(Clauses), start : Optional(Clauses),
                end : Optional([pacing : Optional(Rate), cond : Optional(Exprs)])]

ASSUME PacingAssumption ==
  /\ N \in Nat \ {0} /\ Base \in Nat \ {0} /\ MaxTick \in Nat
  /\ \A f \in Freq : Divides(f, Base)
  /\ IsFiniteSet(Inputs) /\ Inputs \cap Out = {}
  /\ \A p \in Programs : p \in [Out -> Constraints]

\* Expressions are trees: an operand is less deep than its expression.
ASSUME ExpressionAssumption ==
  /\ IsFiniteSet(Exprs)
  /\ \A e \in Exprs :
       \/ Op[e] = "leaf" /\ LeafReads[e] \subseteq Accesses
       \/ Op[e] \in {"And", "Or", "Not"} /\ \A i \in DOMAIN Args[e] : Args[e][i] \in Exprs
  /\ \E depth \in [Exprs -> 0 .. Cardinality(Exprs)] :
       \A e \in Exprs : Op[e] # "leaf" => \A i \in DOMAIN Args[e] : depth[Args[e][i]] < depth[e]

VARIABLES
  program,      \* the specification
  phase,        \* "infer", "accepted" or "rejected"
  bounds,       \* the explicit bounds found so far for each key
  types,        \* the type of each key
  tick,         \* the time in the runtime
  live,         \* the streams with an instance
  started,      \* the tick of their start, for the local clocks
  stale,        \* [reader, part, target] of strict reads that were not fresh
  missed        \* the streams with a clause to evaluate that were passed over

vars == <<program, phase, bounds, types, tick, live, started, stale, missed>>
runtime_vars == <<tick, live, started, stale, missed>>
-----------------------------------------------------------------------------
(* Conditions of the source *)

\* The leaves an expression stands for under one connective; has_logical_
\* connectives: a negation counts as a leaf when it has no connective inside.
Connective == [e \in Exprs |->
  LET C[x \in Exprs] == Op[x] \in {"And", "Or"} \/ (Op[x] = "Not" /\ C[Args[x][1]]) IN C[e]]

Decompose(e, op) ==
  LET D[x \in Exprs] ==
        IF Op[x] = op
        THEN LET l == D[Args[x][1]]  r == D[Args[x][2]]
             IN  [pure |-> l.pure /\ r.pure, leaves |-> l.leaves \cup r.leaves]
        ELSE [pure |-> ~Connective[x], leaves |-> {x}]
  IN  D[e]

BuildGuard(e) ==
  LET op == IF Op[e] = "Or" THEN "Or" ELSE "And"
      d  == Decompose(e, op)
  IN  IF ~d.pure THEN Cond("Mixed", {e})
      ELSE OfSet(IF op = "And" THEN "Conjunction" ELSE "Disjunction", d.leaves)

\* The expression that is the disjunction of two others as it is written, or
\* a set that stands for it when no condition is written that way.
Disjoined(x, y) ==
  LET written == {e \in Exprs : Op[e] = "Or" /\ x = {Args[e][1]} /\ y = {Args[e][2]}}
  IN  IF written = {} THEN x \cup y ELSE written

\* collect_guards: some clause without a condition leaves the stream open.
CollectGuards(clauses) ==
  IF \E i \in DOMAIN clauses : clauses[i].cond = {} THEN AnyCond
  ELSE LET parts == {Decompose(e, "Or") : e \in UNION {clauses[i].cond : i \in DOMAIN clauses}}
           combined[i \in DOMAIN clauses] ==
             IF i = 1 THEN clauses[i].cond ELSE Disjoined(combined[i - 1], clauses[i].cond)
       IN  IF \A d \in parts : d.pure THEN OfSet("Disjunction", UNION {d.leaves : d \in parts})
           ELSE Cond("Mixed", combined[Len(clauses)])

\* The accesses of an optional condition.
CondReads(cond) ==
  LET R[x \in Exprs] == IF Op[x] = "leaf" THEN LeafReads[x]
                        ELSE UNION {R[Args[x][i]] : i \in DOMAIN Args[x]}
  IN  UNION {R[e] : e \in cond}

SyncTargets(reads) == {r.target : r \in {a \in reads : a.mode \in {"Strict", "Shift"}}}
-----------------------------------------------------------------------------
(* The keys: a component of the type of a node, which is a stream or a part *)
(* of it.  A clause has the nodes "clause", "body" and "filter".            *)

Components == {"eval_pacing", "eval_condition", "start_pacing", "start_condition",
               "end_pacing", "end_condition"}
RateComponents == {"eval_pacing", "start_pacing", "end_pacing"}
Key(s, node, i, c) == [stream |-> s, node |-> node, clause |-> i, comp |-> c]
StreamKey(s, c) == Key(s, "stream", 0, c)

Nodes(p, s) ==
  IF s \in Inputs THEN {<<"stream", 0>>}
  ELSE {<<"stream", 0>>, <<"eval", 0>>, <<"start", 0>>, <<"target", 0>>, <<"start_cond", 0>>, <<"end", 0>>}
         \cup {<<node, i>> : node \in {"clause", "body", "filter"}, i \in DOMAIN p[s].clauses}

Keys(p) == UNION {{Key(s, n[1], n[2], c) : n \in Nodes(p, s), c \in Components} : s \in Stream}

\* expression_infer: the nodes of an expression below those of its targets
OfTargets(reads, c) == {StreamKey(t, c) : t \in SyncTargets(reads)}

\* The keys that a key of a node concretizes: impose_more_refined.
AboveClause(o, k) ==
  IF k.node = "body" THEN OfTargets(o.clauses[k.clause].reads, k.comp)
  ELSE IF k.node = "filter" THEN OfTargets(CondReads(o.clauses[k.clause].cond), k.comp)
  ELSE {[k EXCEPT !.node = n] : n \in {"body", "filter"}}

AboveStart(o, k) ==
  IF k.node = "target" THEN UNION {OfTargets(b.reads, k.comp) : b \in o.start}
  ELSE IF k.node = "start_cond" THEN UNION {OfTargets(CondReads(b.cond), k.comp) : b \in o.start}
  ELSE {[k EXCEPT !.node = n] : n \in {"target", "start_cond"}}

AboveEnd(o, k) == UNION {OfTargets(CondReads(b.cond), k.comp) : b \in o.end}

\* A stream takes over what it is not annotated with.
AboveStream(o, k) ==
  LET s == k.stream  c == k.comp
  IN  CASE c \in {"eval_pacing", "eval_condition"} ->
             IF Len(o.clauses) = 1 THEN {Key(s, "eval", 0, c)} ELSE {}
        [] c = "start_pacing" ->
             {Key(s, "start", 0, "eval_pacing") : b \in {x \in o.start : x.pacing = {}}}
        [] c = "start_condition" ->
             UNION {{Key(s, "eval", 0, c), Key(s, "start", 0, "eval_condition")} : b \in {x \in o.start : x.cond = {}}}
        [] c = "end_pacing" ->
             {Key(s, "end", 0, "eval_pacing") : b \in {x \in o.end : x.pacing = {}}}
        [] OTHER -> {}

Above(p, k) ==
  CASE k.stream \in Inputs -> {}
    [] k.node \in {"clause", "body", "filter"} -> AboveClause(p[k.stream], k)
    [] k.node \in {"start", "target", "start_cond"} -> AboveStart(p[k.stream], k)
    [] k.node = "end" -> AboveEnd(p[k.stream], k)
    [] k.node = "eval" -> {Key(k.stream, "clause", i, k.comp) : i \in DOMAIN p[k.stream].clauses}
    [] OTHER -> AboveStream(p[k.stream], k)

\* from_eval_expressions: several clauses must all be annotated, and joined.
Joinable(o) == Len(o.clauses) > 1 => \A i \in DOMAIN o.clauses : o.clauses[i].pacing # {}

JoinedRate(clauses) ==
  LET J[i \in DOMAIN clauses] ==
        LET r == CHOOSE x \in clauses[i].pacing : TRUE
        IN  IF i = 1 THEN r ELSE JoinEvents(J[i - 1], r)
  IN  J[Len(clauses)]

\* The bounds of key k that are no key: concretizes_explicit.
Explicit(p, k) ==
  LET s == k.stream  c == k.comp  o == p[s]
  IN  IF s \in Inputs THEN (IF c = "eval_pacing" THEN {Event(WithStream(s))} ELSE {})
      ELSE IF k.node = "clause" THEN
        (IF c = "eval_pacing" THEN o.clauses[k.clause].pacing
         ELSE IF c = "eval_condition" /\ Len(o.clauses) = 1
              THEN {BuildGuard(e) : e \in o.clauses[k.clause].cond} ELSE {})
      ELSE IF k.node # "stream" THEN {}
      ELSE IF c = "eval_pacing" /\ Len(o.clauses) > 1 THEN (IF Joinable(o) THEN {JoinedRate(o.clauses)} ELSE {})
      ELSE IF c = "eval_condition" /\ Len(o.clauses) > 1 THEN {CollectGuards(o.clauses)}
      ELSE IF c = "start_pacing" THEN UNION {b.pacing : b \in o.start}
      ELSE IF c = "start_condition" THEN {BuildGuard(e) : e \in UNION {b.cond : b \in o.start}}
      ELSE IF c = "end_pacing" THEN UNION {b.pacing : b \in o.end}
      ELSE IF c = "end_condition" THEN {BuildGuard(e) : e \in UNION {b.cond : b \in o.end}}
      ELSE {}
-----------------------------------------------------------------------------
(* The checks of the solved types *)

Polarity(c) == IF c = "end_condition" THEN "Negative" ELSE "Positive"

\* The type of a key; the order in which its bounds meet is the solver's.
Meet(c, bs) ==
  IF c \in RateComponents THEN FoldSet(MeetRates, AnyRate, bs)
  ELSE FoldSet(LAMBDA x, y : MeetConds(x, y, Polarity(c)), AnyCond, bs)

Conflicting(ty) == \E k \in DOMAIN ty : ty[k].kind = "Conflict"

\* check_explicit_bounds: what a stream is annotated with implies what its
\* expressions need; an end comes no later than the end of what it reads.
ExplicitBoundsHold(ty, o, s) ==
  LET T(node, i, c) == ty[Key(s, node, i, c)]
      S(c) == ty[StreamKey(s, c)]
      Implies(c, d) == Subsumes(c, d, "Positive")
  IN  /\ \A i \in DOMAIN o.clauses :
           /\ \A r \in o.clauses[i].pacing : IsSubtype(r, T("clause", i, "eval_pacing"))
           /\ \A e \in o.clauses[i].cond : Implies(BuildGuard(e), T("clause", i, "eval_condition"))
      /\ \A b \in o.start :
           /\ b.pacing # {} => IsSubtype(S("start_pacing"), T("start", 0, "eval_pacing"))
           /\ IsSubtype(S("start_pacing"), T("eval", 0, "start_pacing"))
           /\ b.cond # {} => Implies(S("start_condition"), T("start", 0, "start_condition"))
           /\ Implies(S("start_condition"), T("eval", 0, "start_condition"))
           /\ Implies(S("start_condition"), T("start", 0, "eval_condition"))
      /\ \A b \in o.end :
           /\ b.pacing # {} => IsSubtype(S("end_pacing"), T("end", 0, "eval_pacing"))
           /\ EndIsSubtype(T("eval", 0, "end_pacing"), S("end_pacing"))
           /\ Subsumes(T("eval", 0, "end_condition"), S("end_condition"), "Negative")

\* is_parameterized, for the node of an expression
IsParameterized(ty, s, node) ==
  \/ ty[Key(s, node, 0, "start_pacing")] # AnyRate
  \/ \E c \in {"start_condition", "eval_condition", "end_condition"} :
       ty[Key(s, node, 0, c)] # AnyCond

IsLocal(r) == r.kind = "LocalPeriodic"
SameClass(r, q) == (r.kind = "Event") = (q.kind = "Event") /\ (r = AnyRate) = (q = AnyRate)

GetAndFresh(reads) == {r.target : r \in {a \in reads : a.mode \in {"Get", "Fresh"}}}
StrictTargets(reads) == {r.target : r \in {a \in reads : a.mode = "Strict"}}

\* The accesses of a clause, of its condition too.
ClauseReads(b) == b.reads \cup CondReads(b.cond)

\* Neither what a start reads, nor what an end reads beyond the stream's own
\* life, may be parameterized.
StartsAndEndsFit(ty, o, s) ==
  LET S(c) == ty[StreamKey(s, c)]
  IN  /\ o.start # {} => ~IsParameterized(ty, s, "target") /\ ~IsParameterized(ty, s, "start_cond")
      /\ o.end # {} /\ IsParameterized(ty, s, "end") =>
           \A c \in {"start_pacing", "start_condition", "eval_condition", "end_condition"} :
             ty[Key(s, "end", 0, c)] = S(c)

\* Everything has a rate at which it happens.
RatesGiven(ty, o, s) ==
  LET S(c) == ty[StreamKey(s, c)]
  IN  /\ S("eval_pacing") # AnyRate
      /\ o.start # {} => S("start_pacing") # AnyRate
      /\ o.end # {} => S("end_pacing") # AnyRate


\* What a clause reads is not more restricted than the stream says it is.
TemplatesGiven(ty, o, s) ==
  \A i \in DOMAIN o.clauses, n \in {"body", "filter"} :
    LET T(c) == ty[Key(s, n, i, c)]
    IN  /\ o.start = {} => T("start_pacing") = AnyRate
        /\ UNION {b.cond : b \in o.start} = {} => T("start_condition") = AnyCond
        /\ o.clauses[i].cond = {} => T("eval_condition") = AnyCond
        /\ o.end = {} => T("end_condition") = AnyCond

\* Local clocks agree only for instances that start and end together.
LocalsLiveTogether(ty, o, s) ==
  LET LivesAs(t) == \A c \in {"start_pacing", "start_condition", "end_pacing", "end_condition"} :
                      ty[StreamKey(t, c)] = ty[StreamKey(s, c)]
  IN  /\ \A i \in DOMAIN o.clauses : IsLocal(ty[Key(s, "clause", i, "eval_pacing")]) =>
           \A t \in StrictTargets(ClauseReads(o.clauses[i])) : LivesAs(t)
      /\ IsLocal(ty[StreamKey(s, "end_pacing")]) =>
           \A t \in StrictTargets(UNION {CondReads(b.cond) : b \in o.end}) : LivesAs(t)

\* check_get_and_fresh_access
GetAndFreshFit(ty, o, s) ==
  LET Fit(c, reads) == \A t \in GetAndFresh(reads) :
                         SameClass(ty[StreamKey(s, c)], ty[StreamKey(t, "eval_pacing")])
  IN  /\ \A b \in o.start : Fit("start_pacing", ClauseReads(b))
      /\ \A i \in DOMAIN o.clauses : Fit("eval_pacing", ClauseReads(o.clauses[i]))
      /\ \A b \in o.end : Fit("end_pacing", CondReads(b.cond))

\* post_process, without its warnings
PostProcessed(ty, o, s) ==
  /\ RatesGiven(ty, o, s) /\ StartsAndEndsFit(ty, o, s) /\ TemplatesGiven(ty, o, s)
  /\ LocalsLiveTogether(ty, o, s) /\ GetAndFreshFit(ty, o, s)

WellPaced(ty, p) ==
  /\ ~Conflicting(ty)
  /\ \A s \in Out : Joinable(p[s]) /\ ExplicitBoundsHold(ty, p[s], s) /\ PostProcessed(ty, p[s], s)

\* One round of the solver: a key takes the bounds of the keys above it.
Propagate ==
  LET next == [k \in DOMAIN bounds |-> bounds[k] \cup UNION {bounds[j] : j \in Above(program, k)}]
  IN  /\ phase = "infer" /\ next # bounds
      /\ bounds' = next
      /\ UNCHANGED <<program, phase, types, runtime_vars>>

\* run, and what lower_start_info, lower_eval_info and lower_end_info keep
RuntimeKey(k) == \/ k.node = "stream" /\ k.comp \in RateComponents
                 \/ k.node = "clause" /\ k.comp = "eval_pacing"

Solve ==
  /\ phase = "infer"
  /\ \A k \in DOMAIN bounds : UNION {bounds[j] : j \in Above(program, k)} \subseteq bounds[k]
  /\ LET ty == [k \in DOMAIN bounds |-> Meet(k.comp, bounds[k])]
         accepted == WellPaced(ty, program)
     IN  /\ phase' = IF accepted THEN "accepted" ELSE "rejected"
         /\ types' = [k \in {j \in DOMAIN ty : accepted /\ RuntimeKey(j)} |-> ty[k]]
  /\ bounds' = <<>>
  /\ UNCHANGED <<program, runtime_vars>>
-----------------------------------------------------------------------------
(* A cycle of the engine.  Its state is a record acc with the streams that *)
(* are fresh, live and ended, and what went wrong; v holds the expressions *)
(* whose leaves are true in the cycle.                                     *)

StreamType(s, c) == types[StreamKey(s, c)]

\* The value of a condition and the accesses made for it: && and || stop
\* at their first operand when it decides.
Run(e, v) ==
  LET R[x \in Exprs] ==
        IF Op[x] = "leaf" THEN [val |-> x \in v, reads |-> LeafReads[x]]
        ELSE LET l == R[Args[x][1]] IN
             IF Op[x] = "Not" THEN [l EXCEPT !.val = ~l.val]
             ELSE IF l.val = (Op[x] = "Or") THEN l
             ELSE LET r == R[Args[x][2]] IN [val |-> r.val, reads |-> l.reads \cup r.reads]
  IN  R[e]

RunCond(cond, v) ==
  IF cond = {} THEN [val |-> TRUE, reads |-> {}] ELSE Run(CHOOSE e \in cond : TRUE, v)

\* read_held_value_strict, in a part of the reader: "start", "filter", "body"
\* or "end"
Stale(s, part, reads, fresh) ==
  {[reader |-> s, part |-> part, target |-> t] : t \in StrictTargets(reads) \ fresh}

TimeDriven(r) == r.kind \in {"GlobalPeriodic", "LocalPeriodic"}

\* Whether a rate is due in a cycle: an event with the inputs F, or the
\* deadlines of tick t when F is empty.
Due(r, s, F, t) ==
  LET since == IF IsLocal(r) THEN t - started[s] ELSE t
  IN  IF r.kind = "Event" THEN F # {} /\ Satisfied(r.ac, F)
      ELSE /\ F = {} /\ TimeDriven(r) /\ (IsLocal(r) => s \in live)
           /\ since > 0 /\ since % (Base \div r.freq) = 0

\* activate_instance
StartStep(s, F, t, v, acc) ==
  LET b == CHOOSE x \in program[s].start : TRUE
      cond == RunCond(b.cond, v)
      reads == cond.reads \cup (IF cond.val THEN b.reads ELSE {})
  IN  IF program[s].start = {} \/ ~Due(StreamType(s, "start_pacing"), s, F, t) THEN acc
      ELSE [acc EXCEPT !.live = IF cond.val THEN @ \cup {s} ELSE @,
                       !.stale = @ \cup Stale(s, "start", reads, acc.fresh)]

\* run_all_instances with first_match over the gated clauses
EvalStep(s, F, t, v, acc) ==
  LET clauses == program[s].clauses
      rate(i) == types[Key(s, "clause", i, "eval_pacing")]
      open == {i \in DOMAIN clauses :
                 rate(i) = StreamType(s, "eval_pacing") \/ Due(rate(i), s, F, t)}
      cond(i) == RunCond(clauses[i].cond, v)
      hits == {i \in open : cond(i).val}
      tried == {i \in open : \A h \in hits : i <= h}
      first == {i \in hits : \A h \in hits : i <= h}
      unmet == Stale(s, "filter", UNION {cond(i).reads : i \in tried}, acc.fresh)
                 \cup Stale(s, "body", UNION {clauses[i].reads : i \in first}, acc.fresh)
  IN  IF s \notin acc.live THEN acc
      ELSE IF Due(StreamType(s, "eval_pacing"), s, F, t)
      THEN [acc EXCEPT !.fresh = IF first = {} THEN @ ELSE @ \cup {s},
                       !.stale = @ \cup unmet]
      ELSE [acc EXCEPT !.missed = @ \cup {s : i \in {j \in DOMAIN clauses : Due(rate(j), s, F, t) /\ cond(j).val}}]

\* deactivate_instance: an end on a local clock is scheduled for a stream
\* with a time-driven evaluation only.
EndStep(s, F, t, v, acc) ==
  LET cond == RunCond(UNION {b.cond : b \in program[s].end}, v)
      r == StreamType(s, "end_pacing")
  IN  IF \/ program[s].end = {} \/ s \notin acc.live \/ ~Due(r, s, F, t)
         \/ IsLocal(r) /\ ~TimeDriven(StreamType(s, "eval_pacing"))
      THEN acc
      ELSE [acc EXCEPT !.ended = IF cond.val THEN @ \cup {s} ELSE @,
                       !.stale = @ \cup Stale(s, "end", cond.reads, acc.fresh)]

\* The layers in order, each start before its evaluation; then the ends.
CycleResult(F, t, v) ==
  LET begin == [fresh |-> F, live |-> live, ended |-> {}, stale |-> {}, missed |-> {}]
      L[s \in 0 .. N] == IF s = 0 THEN begin
                         ELSE EvalStep(s, F, t, v, StartStep(s, F, t, v, L[s - 1]))
      X[s \in 0 .. N] == IF s = 0 THEN L[N] ELSE EndStep(s, F, t, v, X[s - 1])
  IN  X[N]

\* The leaves that the conditions of the program have values for
Leaves ==
  LET L[x \in Exprs] == IF Op[x] = "leaf" THEN {x} ELSE UNION {L[Args[x][i]] : i \in DOMAIN Args[x]}
      conds(o) == UNION ({o.clauses[i].cond : i \in DOMAIN o.clauses} \cup {b.cond : b \in o.start \cup o.end})
  IN  UNION {L[e] : e \in UNION {conds(program[s]) : s \in Out}}

Cycle(F, t) ==
  /\ phase = "accepted"
  /\ \E v \in SUBSET Leaves :
       LET r == CycleResult(F, t, v)
       IN  /\ live' = r.live \ r.ended
           /\ started' = [s \in Out |-> IF s \in r.live \ live THEN t ELSE started[s]]
           /\ stale' = r.stale /\ missed' = r.missed
  /\ tick' = t
  /\ UNCHANGED <<program, phase, bounds, types>>

\* process_event_mut
EventCycle == \E F \in SUBSET Inputs \ {{}} : Cycle(F, tick)

\* process_timed_tasks, with everything that is due at the next tick
TimeCycle == tick < MaxTick /\ Cycle({}, tick + 1)

Init ==
  /\ program \in Programs
  /\ phase = "infer" /\ types = <<>>
  /\ bounds = [k \in Keys(program) |-> Explicit(program, k)]
  /\ tick = 0 /\ started = [s \in Out |-> 0]
  /\ live = {s \in Out : program[s].start = {}}
  /\ stale = {} /\ missed = {}

Next == Propagate \/ Solve \/ EventCycle \/ TimeCycle

Spec == Init /\ [][Next]_vars
-----------------------------------------------------------------------------
(* Properties *)

\* A strict access meets a value of the same cycle: the assertion of
\* read_held_value_strict, over every mix of rates, starts, filters and ends,
\* with the short-circuit of the runtime.  Accepted specifications violate it.
StrictReadsAreFresh == stale = {}

\* Whether a clause is due whenever its stream is
Whole(t, i) == types[Key(t, "clause", i, "eval_pacing")] = StreamType(t, "eval_pacing")

\* A stream with a value whenever it is evaluated, whatever holds.
AlwaysWritten(t) ==
  LET open == {i \in DOMAIN program[t].clauses : program[t].clauses[i].cond = {}}
  IN  open = DOMAIN program[t].clauses \/ \E i \in open : Whole(t, i)

\* The conditions of s that read t try the condition of t before.
TriedFirst(s, t) ==
  \A i \in DOMAIN program[s].clauses : \A e \in program[s].clauses[i].cond :
    t \in StrictTargets(CondReads({e})) =>
      Op[e] = "And" /\ \E j \in DOMAIN program[t].clauses : program[t].clauses[j].cond = {Args[e][1]}

\* The analysis accepts three kinds of targets that may have no value: with
\* clauses of different rates, for it knows their conditions and rates only as
\* a whole; with an end and no start, which never return; and filtered ones,
\* read in a condition before it is known that theirs holds.
Settled(r) ==
  LET t == r.target
  IN  \/ t \in Inputs
      \/ /\ program[t].end # {} => program[t].start # {}
         /\ \/ AlwaysWritten(t)
            \/ /\ \A i \in DOMAIN program[t].clauses : Whole(t, i)
               /\ r.part = "filter" => TriedFirst(r.reader, t)


\* A clause whose own rate is due and whose condition holds is never passed
\* over because the rate of its whole stream is not.
ClausesAreReached == missed = {}
=============================================================================
