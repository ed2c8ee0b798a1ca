------------------------------ MODULE Evaluator -----------------------------
(***************************************************************************)
(* The expressions of checks when an event is processed: the guards that   *)
(* runtime/eval/compiler.rs lowers, over the instances of the store.       *)
(*                                                                         *)
(* A store has the last value of every input (held), of every instance of  *)
(* every parameterised output (inst), the objects started for every uid    *)
(* and the stream that stands for a domain of objects.  Accesses of the    *)
(* world default to FALSE.                                                 *)
(***************************************************************************)
EXTENDS Language

\* collect_quantified_vars: the variables in an argument
RECURSIVE VarsIn(_, _)
VarsIn(e, vars) ==
  IF e.op = "ident" /\ e.name[1] \in vars THEN {e.name[1]}
  ELSE UNION {VarsIn(e.args[i], vars \ BoundVars(e)) : i \in DOMAIN e.args}

\* collect_quantified_accesses: the outputs called with a variable, in order
RECURSIVE Accesses(_, _)
Accesses(e, vars) ==
  IF e.op = "call" THEN SetToSeq({<<v, e.name>> : v \in VarsIn(e.args[1], vars)})
  ELSE FlattenSeq([i \in DOMAIN e.args |-> Accesses(e.args[i], vars \ BoundVars(e))])

\* binding_targets: a stream called with the variable, else one called with
\* another variable of its domain
Targets(e, v) ==
  LET OfVar(w) == SelectSeq(Accesses(e.args[1], BoundVars(e)), LAMBDA a : a[1] = w)
      sharing == SelectSeq(UniqueVars(e), LAMBDA w : DomainOf(e, w) = DomainOf(e, v) /\ OfVar(w) # <<>>)
  IN  OfVar(v) \o FlattenSeq([i \in DOMAIN sharing |-> OfVar(sharing[i])])

\* params_for_binding_target, fetch_domain_params
ObjectsOf(e, v, store) ==
  IF Targets(e, v) # <<>> THEN DOMAIN store.inst[Targets(e, v)[1][2]]
  ELSE IF DomainOf(e, v) \in DOMAIN store.domains
       THEN DOMAIN store.inst[store.domains[DomainOf(e, v)]] ELSE {}

\* enumerate_binding_combos
Combos(e, store) ==
  {m \in [BoundVars(e) -> UNION {ObjectsOf(e, v, store) : v \in BoundVars(e)}] :
     \A v \in BoundVars(e) : m[v] \in ObjectsOf(e, v, store)}

Bind(env, m) == [v \in DOMAIN env \cup DOMAIN m |-> IF v \in DOMAIN m THEN m[v] ELSE env[v]]

RECURSIVE Value(_, _, _)
Value(e, env, store) ==
  LET Of(i) == Value(e.args[i], env, store)
      Object == IF e.args[1].op = "zero" THEN 0 ELSE env[e.args[1].name[1]]
      Operand(i) == IF Len(e.args[i].name) = 1 THEN env[e.args[i].name[1]] ELSE Of(i)
      Body(m) == Value(e.args[1], Bind(env, m), store)
  IN  CASE e.op = "true"   -> TRUE
        [] e.op = "ident"  -> store.held[e.name]
        [] e.op = "call"   -> Object \in DOMAIN store.inst[e.name] /\ store.inst[e.name][Object]
        [] e.op = "id_is"  -> env["id"] = store.held[e.name]
        [] e.op = "differ" -> Operand(1) # Operand(2)
        [] e.op = "hold"   -> Of(1)
        [] e.op = "message" -> [i \in DOMAIN e.args |-> Of(i)]
        [] e.op = "not"    -> ~Of(1)
        [] e.op = "and"    -> Of(1) /\ Of(2)
        [] e.op = "or"     -> Of(1) \/ Of(2)
        [] e.op = "forall" -> \A m \in Combos(e, store) : Body(m)
        [] e.op = "exists" -> \E m \in Combos(e, store) : Body(m)

\* substitute_quantified_value: the value under a witness
Witnessed(alarm, witness, store) == Value(alarm.value, witness, store)

\* guarded_quantified and guarded: with exists a message for every witness,
\* equal ones only once (deduplicate_results)
WorldReports(alarm, store) ==
  IF alarm.cond.op = "exists"
  THEN {Witnessed(alarm, w, store) :
          w \in {m \in Combos(alarm.cond, store) : Value(alarm.cond.args[1], m, store)}}
  ELSE IF Value(alarm.cond, <<>>, store) THEN {Value(alarm.value, <<>>, store)} ELSE {}

\* the instances of an alarm of a class that report
ClassReports(alarm, store) ==
  {<<i>> : i \in {j \in store.started[alarm.uid] : Value(alarm.cond, [id |-> j], store)}}
=============================================================================
