------------------------------ MODULE Frontend ------------------------------
(***************************************************************************)
(* From the text of a specification to the verdicts of its checks: the     *)
(* passes of OORVSpecParser::parse_for_ast (core/src/parse.rs) in their    *)
(* order, one action each, the resolution of names (ast_build.rs), and     *)
(* then the events of the objects of the world, one object an event, with  *)
(* the streams that the passes made.                                       *)
(***************************************************************************)
EXTENDS Evaluator, Meaning

CONSTANTS
  Programs,    \* the files of the specifications that are tried, by name
  Objects,     \* the ids that events bring; 0 is none of them
  MaxEvents    \* bound: events

ASSUME FrontendAssumption == MaxEvents \in Nat /\ 0 \notin Objects

VARIABLES
  program,     \* the files, "main" is given to the parser
  pass,        \* the pass that is next, "running", "rejected" or "panicked"
  ast,         \* what the passes have made of it
  store,       \* the streams, when it runs
  events,      \* events processed
  raised,      \* the reports of the last event
  last         \* ghost: the last event, by class the object that reported last
               \* and the last values by object

vars == <<program, pass, ast, store, events, raised, last>>

Uid(c) == [name |-> UidOf(c), type |-> <<"Int64">>, uid |-> UidOf(c)]
World == ast.worlds[1]
Members == IF ast.worlds = <<>> THEN <<>> ELSE TypedMembers(World, ast.classes)
-----------------------------------------------------------------------------
(* The constrains that parse_constrain_decl makes *)

\* parse_startdecl and parse_evaldecl: what has a uid is started by it and
\* has a guard, an alarm of the world has its condition alone
Started(uid, e) == [uid |-> uid] @@ e
Evaluated(cond, value, e) == [cond |-> cond, value |-> value] @@ e

\* an alarm has a site: where, which check, which branch, its level
Alarm(level, uid, cond, says, site) ==
  Started(uid, Evaluated(IF uid = <<>> THEN cond ELSE And(cond, IdIs(uid)), Message(says, cond),
                         [name |-> <<>>, site |-> Append(site, level)]))

\* the statements of a branch
Info(uid, cond, says, site) == Alarm("info", uid, cond, says, site)
Alert(uid, cond, says, site) == Alarm("alert", uid, cond, says, site)
Violation(uid, cond, says, site) == Alarm("violation", uid, cond, says, site)
Branch(uid, cond, does, site) ==
  CASE does.level = "info"      -> Info(uid, cond, does.says, site)
    [] does.level = "alert"     -> Alert(uid, cond, does.says, site)
    [] does.level = "violation" -> Violation(uid, cond, does.says, site)

\* Mutant: the other branch has the condition of the first.
ElseUnnegated(cond) == cond

\* the statements of the other branch
ElseCond(cond) == Not(cond)
ElseInfo(uid, cond, says, site) == Alarm("info", uid, ElseCond(cond), says, site)
ElseAlert(uid, cond, says, site) == Alarm("alert", uid, ElseCond(cond), says, site)
ElseViolation(uid, cond, says, site) == Alarm("violation", uid, ElseCond(cond), says, site)
ElseBranch(uid, cond, does, site) ==
  CASE does.level = "info"      -> ElseInfo(uid, cond, does.says, site)
    [] does.level = "alert"     -> ElseAlert(uid, cond, does.says, site)
    [] does.level = "violation" -> ElseViolation(uid, cond, does.says, site)

\* the other branch of a check is a sequence of at most one
AlarmsOf(checks, self, uid, where) ==
  FlattenSeq([i \in DOMAIN checks |->
    LET cond == Tree(checks[i].cond, self) IN
    <<Branch(uid, cond, checks[i].does, <<where, i, 1>>)>> \o
    [j \in DOMAIN checks[i].else |-> ElseBranch(uid, cond, checks[i].else[j], <<where, i, 2>>)]])

Output(name, uid, value) == Started(uid, Evaluated(IdIs(uid), value, [name |-> name, site |-> <<>>]))
LetsOf(c) ==
  [i \in DOMAIN c.lets |->
     Output(Append(FullName(c), c.lets[i].name), UidOf(c), Tree(c.lets[i].value, FullName(c)))]

ClassConstrains(c) == LetsOf(c) \o AlarmsOf(c.checks, FullName(c), UidOf(c), FullName(c))
ModuleConstrains(classes) == FlattenSeq([i \in DOMAIN classes |-> ClassConstrains(classes[i])])
WorldConstrains(worlds) ==
  FlattenSeq([i \in DOMAIN worlds |-> AlarmsOf(worlds[i].checks, <<"world">>, <<>>, <<"world">>)])

\* add_signal_constrains: an output with the values of every instance, for
\* the signals that have no "uid" in their names
SignalOutputs(signals) ==
  LET fields == SelectSeq(signals, LAMBDA s : ~HasUid(s.name)) IN
  [i \in DOMAIN fields |-> Output(Params(fields[i].name), fields[i].uid, Ident(fields[i].name))]

\* the conditions of the text, and whether a quantifier is left in one
OnConditions(F(_, _), c) ==
  [c EXCEPT !.checks = [i \in DOMAIN @ |-> [@[i] EXCEPT !.cond = F(@, c)]],
            !.lets = [i \in DOMAIN @ |-> [@[i] EXCEPT !.value = F(@, c)]]]
QuantifierLeft ==
  \/ \E c \in Range(ast.classes) : \/ \E k \in Range(c.checks) : HasQuant(k.cond)
                                   \/ \E l \in Range(c.lets) : HasQuant(l.value)
  \/ ast.worlds # <<>> /\ \E k \in Range(World.checks) : HasQuant(k.cond)
-----------------------------------------------------------------------------
(* The passes *)

Reject(p) == pass = p /\ pass' = "rejected" /\ UNCHANGED <<program, ast, store, events, raised, last>>
Advance(p, next) == pass = p /\ pass' = next /\ UNCHANGED <<program, store, events, raised, last>>

Include ==
  LET text == Included(program, "main", {}) IN
  IF ~text.ok THEN Reject("include")
  ELSE /\ Advance("include", "quantifiers")
       /\ ast' = [ast EXCEPT !.classes = text.classes, !.worlds = text.worlds]

Quantifiers ==
  LET Pass(chain, c) == Expand(chain) IN
  /\ Advance("quantifiers", "lets")
  /\ ast' = [ast EXCEPT
       !.classes = [i \in DOMAIN @ |-> OnConditions(Pass, @[i])],
       !.worlds = [i \in DOMAIN @ |->
         [@[i] EXCEPT !.checks = [k \in DOMAIN @ |-> [@[k] EXCEPT !.cond = Expand(@)]]]]]

LetNames ==
  /\ Advance("lets", "parse")
  /\ ast' = [ast EXCEPT !.classes = [i \in DOMAIN @ |-> OnConditions(LetIdents, @[i])]]

WorldFails(world) ==
  \E k \in Range(world.checks) :
    LET cond == Tree(k.cond, <<"world">>) IN
    \/ MessageFails(k.does.says, cond)
    \/ \E other \in Range(k.else) : MessageFails(other.says, ElseCond(cond))

\* the uid of every class with the short name of a member's type
UidSignals ==
  LET named == OfMembers(IF ast.worlds = <<>> THEN <<>> ELSE World.members, ast.classes)
  IN  [i \in DOMAIN named |-> Uid(named[i])]

\* parse_spec
Parse ==
  IF QuantifierLeft
  THEN pass = "parse" /\ pass' = "panicked" /\ UNCHANGED <<program, ast, store, events, raised, last>>
  ELSE IF Len(ast.worlds) > 1 \/ \E w \in Range(ast.worlds) : WorldFails(w) THEN Reject("parse")
  ELSE /\ Advance("parse", "merge")
       /\ ast' = [ast EXCEPT !.signals = UidSignals,
                             !.constrains = ModuleConstrains(ast.classes) \o WorldConstrains(ast.worlds)]

\* merge_base_class_signals
Merge ==
  IF InheritanceFails(ast.classes) THEN Reject("merge")
  ELSE Advance("merge", "types") /\ ast' = [ast EXCEPT !.classes = MergeBases(@)]

\* convert_class_types_to_basic
Types ==
  IF TypesFail(ast.classes) THEN Reject("types")
  ELSE Advance("types", "qualify") /\ ast' = [ast EXCEPT !.classes = ToBasic(@)]

QualifyNames == Advance("qualify", "members") /\ ast' = [ast EXCEPT !.classes = Qualify(@)]

\* check_member_types_and_uses
CheckMembers ==
  IF ast.worlds # <<>> /\ MembersFail(World, ast.classes) THEN Reject("members")
  ELSE Advance("members", "rewrite") /\ UNCHANGED ast

\* rewrite_member_refs
Rewrite ==
  LET map == [m \in {Members[i].name : i \in DOMAIN Members} |->
                LET i == CHOOSE j \in DOMAIN Members :
                           Members[j].name = m /\ \A k \in DOMAIN Members : k > j => Members[k].name # m
                IN  Members[i].type]
      New(c) == [c EXCEPT !.cond = RewriteRefs(@, map, {}), !.value = RewriteRefs(@, map, {})]
  IN  /\ Advance("rewrite", "hoist")
      /\ ast' = [ast EXCEPT !.constrains = [i \in DOMAIN @ |-> New(@[i])]]

\* steps 7 and 8 of parse_for_ast
Hoist ==
  LET named == OfMembers(Members, ast.classes)
      fields == FlattenSeq([i \in DOMAIN named |->
                  [j \in DOMAIN named[i].signals |->
                     [name |-> named[i].signals[j].name, type |-> named[i].signals[j].type,
                      uid |-> UidOf(named[i])]]])
  IN  /\ Advance("hoist", "resolve")
      /\ ast' = [ast EXCEPT !.signals = @ \o fields,
                            !.constrains = @ \o SignalOutputs(ast.signals \o fields)]
-----------------------------------------------------------------------------
(* Resolution of names: ast_build.rs *)

Inputs == {s.name : s \in Range(ast.signals)}
Outputs == {c.name : c \in {d \in Range(ast.constrains) : d.name # <<>>}}

\* register_symbol and check_type_bound
SymbolsFail ==
  \/ Cardinality(Inputs \cup Outputs) #
       Len(ast.signals) + Len(SelectSeq(ast.constrains, LAMBDA c : c.name # <<>>))
  \/ \E s \in Range(ast.signals) : s.type \notin {Bool, <<"Int64">>}

\* bind_variable_ref and bind_callable_ref; scope has the variables
Binds(name, scope) == name \in Inputs \/ (Len(name) = 1 /\ name[1] \in scope)
Calls(name) == name \in Outputs

\* scan_expr
RECURSIVE Unbound(_, _)
Unbound(e, scope) ==
  \/ e.op \in {"ident", "id_is"} /\ ~Binds(e.name, scope)
  \/ e.op = "call" /\ ~Calls(e.name)
  \/ \E i \in DOMAIN e.args : Unbound(e.args[i], scope \cup BoundVars(e))

UnboundIn(c) ==
  LET scope == IF c.uid = <<>> THEN {} ELSE {"id"} IN
  \/ c.uid # <<>> /\ c.uid \notin Inputs
  \/ Unbound(c.cond, scope) \/ Unbound(c.value, scope)

\* translate_expr lowers the access of Now to one that always has a value,
\* and analyze_expr refuses a default for it
AlwaysThere(e) == e.op = "now"
RECURSIVE IllTyped(_)
IllTyped(e) == AlwaysThere(e) \/ \E i \in DOMAIN e.args : IllTyped(e.args[i])

\* lower_object_domains: the first output whose class has the short name
Domains ==
  LET Of(m) == SelectSeq(ast.constrains, LAMBDA c :
                 /\ c.name # <<>> /\ Last(c.name) = "_params" /\ Len(c.name) > 2
                 /\ c.name[Len(c.name) - 2] = Last(m.type))
      found == {m \in Range(Members) : Of(m) # <<>>}
  IN  [d \in {m.name : m \in found} |-> Of(CHOOSE m \in found : m.name = d)[1].name]

\* an instance of every output only when it is started
EmptyStore ==
  [held |-> [n \in Inputs |-> IF \E s \in Range(ast.signals) : s.name = n /\ s.uid = n THEN 0 ELSE FALSE],
   inst |-> [n \in Outputs |-> <<>>],
   started |-> [s \in {c.uid : c \in Range(ast.constrains)} |-> {}],
   domains |-> Domains]

Resolve ==
  IF SymbolsFail \/ \E c \in Range(ast.constrains) : UnboundIn(c) \/ IllTyped(c.value)
  THEN Reject("resolve")
  ELSE /\ pass = "resolve" /\ pass' = "running"
       /\ store' = EmptyStore
       /\ UNCHANGED <<program, ast, events, raised, last>>
-----------------------------------------------------------------------------
(* Events *)

FieldsOf(uid) == {s.name : s \in {r \in Range(ast.signals) : r.uid = uid /\ r.name # uid}}

\* the alarms of the world are due with every input, those of a class with its
RaisedBy(alarm, uid, new) ==
  IF alarm.uid = <<>> THEN WorldReports(alarm, new)
  ELSE IF alarm.uid = uid THEN ClassReports(alarm, new) ELSE {}

\* Object o of the class of uid reports values of all its fields: inputs,
\* then started instances, then the outputs of the instances whose id is the
\* uid, then alarms.
Report(c, o, values) ==
  LET uid == UidOf(c)
      held == [n \in Inputs |-> IF n = uid THEN o ELSE IF n \in DOMAIN values THEN values[n] ELSE store.held[n]]
      started == [store.started EXCEPT ![uid] = @ \cup {o}]
      mid == [store EXCEPT !.held = held, !.started = started]
      OutputOf(n) == CHOOSE d \in Range(ast.constrains) : d.name = n
      Written(n) ==
        LET d == OutputOf(n)
            eval == {i \in started[uid] : Value(d.cond, [id |-> i], mid)}
        IN  [i \in started[uid] |-> IF i \in eval THEN Value(d.value, [id |-> i], mid) ELSE store.inst[n][i]]
      new == [mid EXCEPT !.inst = [n \in Outputs |-> IF OutputOf(n).uid = uid THEN Written(n) ELSE store.inst[n]]]
      k == FullName(c)
      paths == [p \in {SubSeq(n, 3, Len(n)) : n \in DOMAIN values} |-> values[k \o p]]
  IN  /\ pass = "running" /\ events < MaxEvents
      /\ events' = events + 1
      /\ store' = new
      /\ raised' = UNION {{d.site \o <<w>> : w \in RaisedBy(d, uid, new)} :
                            d \in {x \in Range(ast.constrains) : x.name = <<>>}}
      /\ last' = [class |-> k, object |-> o,
                  latest |-> [j \in DOMAIN last.latest \cup {k} |-> IF j = k THEN o ELSE last.latest[j]],
                  by |-> LET old == IF k \in DOMAIN last.by THEN last.by[k] ELSE <<>>
                             mine == [i \in DOMAIN old \cup {o} |-> IF i = o THEN paths ELSE old[i]]
                         IN  [j \in DOMAIN last.by \cup {k} |-> IF j = k THEN mine ELSE last.by[j]]]
      /\ UNCHANGED <<program, pass, ast>>
-----------------------------------------------------------------------------
Init ==
  /\ program \in Programs
  /\ pass = "include"
  /\ ast = [classes |-> <<>>, worlds |-> <<>>, signals |-> <<>>, constrains |-> <<>>]
  /\ store = <<>>
  /\ events = 0
  /\ raised = {}
  /\ last = [class |-> <<>>, object |-> 0, latest |-> <<>>, by |-> <<>>]

Next ==
  \/ Include \/ Quantifiers \/ LetNames \/ Parse \/ Merge \/ Types \/ QualifyNames
  \/ CheckMembers \/ Rewrite \/ Hoist \/ Resolve
  \/ \E c \in Range(ast.classes) : UidOf(c) \in Inputs /\
       \E o \in Objects : \E values \in [FieldsOf(UidOf(c)) -> BOOLEAN] : Report(c, o, values)

Spec == Init /\ [][Next]_vars
-----------------------------------------------------------------------------
Text == Included(program, "main", {})

\* The inputs of a class of the world are its fields, inherited or nested,
\* as its declaration and those of its ancestors have them: three passes
\* rename and move signals, each with lookups of its own.
FieldsComplete ==
  pass = "running" =>
    \A m \in Range(Members) :
      LET c == The({d \in Range(Text.classes) : FullName(d) = m.type}) IN
      FieldsOf(UidOf(c)) = {FullName(c) \o f : f \in Fields(Text.classes, c)}

\* The verdicts of an event are those that the text calls for: the checks of
\* the object that reported, on its own fields, and those of the world on
\* the last values of all objects, each under the branch that holds and with
\* its witnesses.  Expansion, let names, rewriting of references, the
\* instances behind a domain and the guards all take part.
ChecksMeanWhatTheySay ==
  pass = "running" /\ events > 0 => raised = Due(Text, last)

\* What runs is well formed: one world, classes told apart by their names,
\* ancestors that exist and do not go round, members of exactly one class.
RunsWellFormed == pass = "running" => WellFormed(Text)

\* "Quantified object access such as `car.speed` must retain `car` as the
\* object parameter" (rewrite_member_refs): a check of the world judges and
\* names the objects that its variables stand for.
ObjectRetained ==
  pass = "running" /\ events > 0 =>
    {r \in raised : r[1] = <<"world">>} =
    {r \in Due(Text, last) : r[1] = <<"world">>}
=============================================================================
