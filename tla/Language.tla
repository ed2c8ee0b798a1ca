------------------------------ MODULE Language ------------------------------
(***************************************************************************)
(* The passes of core/src/parse.rs between the text of a specification and *)
(* its AST, as operators: inclusion of files, expansion of quantifiers,    *)
(* let names, inheritance, nested class types, member references.          *)
(*                                                                         *)
(* A name is a sequence of its segments, M::C::x is <<"M", "C", "x">>.  A  *)
(* condition is a chain of terms with "and" and "or" between them, as the  *)
(* text has it; Tree applies the precedences.  Signals are Boolean, so an  *)
(* access to a field is a condition.                                       *)
(***************************************************************************)
EXTENDS Naturals, Sequences, FiniteSets, SequencesExt, Functions

CONSTANTS
  UidNames,   \* the segments that contain the letters "uid"
  Within      \* <<v, w>>: the word w contains the letters of v, and more

Bool == <<"Bool">>
HasUid(name) == \E i \in DOMAIN name : name[i] \in UidNames
Params(name) == Append(name, "_params")
FullName(c) == Append(c.module, c.name)
UidOf(c) == Append(FullName(c), "uid")
-----------------------------------------------------------------------------
(* preprocess_include *)

\* The text of a file with its includes spliced in.  A file is unmarked when
\* it is done, so only a cycle is an error; the root is not marked at all.
RECURSIVE Included(_, _, _)
Included(files, file, seen) ==
  LET parts == [i \in DOMAIN files[file].includes |->
                  LET f == files[file].includes[i] IN
                  IF f \in seen \/ f \notin DOMAIN files THEN [ok |-> FALSE]
                  ELSE Included(files, f, seen \cup {f})]
  IN  IF \E i \in DOMAIN parts : ~parts[i].ok THEN [ok |-> FALSE]
      ELSE [ok |-> TRUE,
            classes |-> FlattenSeq([i \in DOMAIN parts |-> parts[i].classes]) \o files[file].classes,
            worlds |-> FlattenSeq([i \in DOMAIN parts |-> parts[i].worlds]) \o files[file].worlds]
-----------------------------------------------------------------------------
(* Conditions *)

Term(atom) == [neg |-> FALSE, atom |-> atom]
Name(path) == [kind |-> "name", path |-> path]
Paren(chain) == [kind |-> "paren", chain |-> chain]
\* v != w, and v.uid != w.uid
Differ(v, w) == [kind |-> "differ", uids |-> FALSE, vars |-> <<v, w>>]
UidsDiffer(v, w) == [kind |-> "differ", uids |-> TRUE, vars |-> <<v, w>>]
\* quantified over binds: <<[var, domain, list]>>, the domain a list of names
\* or the name of one
Quantified(all, binds, body) == [kind |-> "quant", all |-> all, binds |-> binds, body |-> body]
\* the header form [vars] [domains], which later passes keep
Header(all, vars, domains, body) ==
  [kind |-> "header", all |-> all, vars |-> vars, domains |-> domains, body |-> body]

Just(term) == [terms |-> <<term>>, ops |-> <<>>]
OnChain(chain, F(_)) == [chain EXCEPT !.terms = [i \in DOMAIN @ |-> [@[i] EXCEPT !.atom = F(@)]]]

\* The words of a chain from left to right, and a chain with other words.
RECURSIVE Words(_)
Words(chain) ==
  LET OfAtom(a) ==
        CASE a.kind = "name"   -> a.path
          [] a.kind = "paren"  -> Words(a.chain)
          [] a.kind = "differ" -> IF a.uids THEN <<a.vars[1], "uid", a.vars[2], "uid">> ELSE a.vars
          [] OTHER             -> Words(a.body)
  IN  FlattenSeq([i \in DOMAIN chain.terms |->
        (IF chain.terms[i].neg THEN <<"not">> ELSE <<>>) \o OfAtom(chain.terms[i].atom) \o
        (IF i \in DOMAIN chain.ops THEN <<chain.ops[i]>> ELSE <<>>)])

RECURSIVE Put(_, _)
Put(chain, words) ==
  LET UpTo(i) == Len(Words([terms |-> SubSeq(chain.terms, 1, i),
                            ops |-> SubSeq(chain.ops, 1, Min({i, Len(chain.ops)}))]))
      Own(i) == SubSeq(words, UpTo(i - 1) + (IF chain.terms[i].neg THEN 2 ELSE 1), UpTo(i))
      InAtom(a, own) ==
        CASE a.kind = "name"   -> [a EXCEPT !.path = SubSeq(own, 1, Len(@))]
          [] a.kind = "paren"  -> [a EXCEPT !.chain = Put(@, own)]
          [] a.kind = "differ" -> [a EXCEPT !.vars = IF a.uids THEN <<own[1], own[3]>> ELSE SubSeq(own, 1, 2)]
          [] OTHER             -> [a EXCEPT !.body = Put(@, own)]
  IN  [chain EXCEPT !.terms = [i \in DOMAIN @ |-> [@[i] EXCEPT !.atom = InAtom(@, Own(i))]]]

\* preprocess_quantifiers, replace_idents_with_order: where the variables are
\* found.  The search for a variable ends at the first word that contains its
\* letters, a keyword even, and goes on behind the next one that is found.
RECURSIVE Occurrences(_, _, _)
Occurrences(words, vars, from) ==
  LET rest == from .. Len(words)
      Letters(v) == {k \in rest : words[k] = v \/ <<v, words[k]>> \in Within}
      found == {k \in rest : words[k] \in vars /\ \A j \in Letters(words[k]) : k <= j}
  IN  IF found = {} THEN <<>> ELSE <<Min(found)>> \o Occurrences(words, vars, Min(found) + 1)

\* every word that is found is replaced, whatever it stands for
Instantiate(chain, value) ==
  LET words == Words(chain)
      found == Range(Occurrences(words, DOMAIN value, 1))
  IN  Put(chain, [k \in DOMAIN words |-> IF k \in found THEN value[words[k]] ELSE words[k]])

\* build_named_header: the variables in the order in which they are found, one
\* that is not found dropped unless none is
NamedHeader(all, named, body) ==
  LET domain == [v \in {named[i].var : i \in DOMAIN named} |->
                   named[CHOOSE i \in DOMAIN named : named[i].var = v].domain[1]]
      words == Words(body)
      found == Occurrences(words, DOMAIN domain, 1)
      used == [i \in DOMAIN found |-> words[found[i]]]
      vars == IF used = <<>> THEN [i \in DOMAIN named |-> named[i].var] ELSE used
  IN  Header(all, vars, [i \in DOMAIN vars |-> domain[vars[i]]], body)

\* The combinations of the elements of list domains, the last varying first.
RECURSIVE Combinations(_)
Combinations(lists) ==
  IF lists = <<>> THEN << <<>> >>
  ELSE LET front == Combinations(Front(lists)) IN
       FlattenSeq([i \in DOMAIN front |-> [j \in DOMAIN Last(lists).domain |->
                     [v \in DOMAIN front[i] \cup {Last(lists).var} |->
                        IF v = Last(lists).var THEN Last(lists).domain[j] ELSE front[i][v]]]])

\* The text that replaces a quantified term: the instances over the lists,
\* each in parentheses but not the whole, joined with "and" or "or".
ExpandTerm(term) ==
  LET a == term.atom
      named == SelectSeq(a.binds, LAMBDA b : ~b.list)
      combos == Combinations(SelectSeq(a.binds, LAMBDA b : b.list))
      WithHeader(body) == IF named = <<>> THEN body ELSE Just(Term(NamedHeader(a.all, named, body)))
      instances == [i \in DOMAIN combos |-> Term(Paren(WithHeader(Instantiate(a.body, combos[i]))))]
  IN  IF Len(named) = Len(a.binds)
      THEN Just([term EXCEPT !.atom = NamedHeader(a.all, named, a.body)])
      ELSE [terms |-> [instances EXCEPT ![1].neg = term.neg],
            ops |-> [i \in 1 .. Len(instances) - 1 |-> IF a.all THEN "and" ELSE "or"]]

RECURSIVE Expand(_)
Expand(chain) ==
  LET Part(t) == CASE t.atom.kind = "quant" -> ExpandTerm(t)
                   [] t.atom.kind = "paren" -> Just([t EXCEPT !.atom = Paren(Expand(@.chain))])
                   [] OTHER -> Just(t)
      parts == [i \in DOMAIN chain.terms |-> Part(chain.terms[i])]
  IN  [terms |-> FlattenSeq([i \in DOMAIN parts |-> parts[i].terms]),
       ops |-> FlattenSeq([i \in DOMAIN parts |->
                 parts[i].ops \o (IF i \in DOMAIN chain.ops THEN <<chain.ops[i]>> ELSE <<>>)])]

\* preprocess_let_idents in the class c: a name with a let of the same class
RECURSIVE LetIdents(_, _)
LetIdents(chain, c) ==
  LET lets == {c.lets[i].name : i \in DOMAIN c.lets}
      InAtom(a) ==
        CASE a.kind = "name"   -> IF Len(a.path) = 1 /\ a.path[1] \in lets
                                  THEN [kind |-> "let", path |-> FullName(c) \o a.path] ELSE a
          [] a.kind = "paren"  -> [a EXCEPT !.chain = LetIdents(@, c)]
          [] a.kind = "header" -> [a EXCEPT !.body = LetIdents(@, c)]
          [] OTHER             -> a
  IN  OnChain(chain, InAtom)
-----------------------------------------------------------------------------
(* Expressions of the AST *)

Expr(op, name, args, binds) == [op |-> op, name |-> name, args |-> args, binds |-> binds]
True == Expr("true", <<>>, <<>>, <<>>)
Zero == Expr("zero", <<>>, <<>>, <<>>)
Ident(name) == Expr("ident", name, <<>>, <<>>)
Call(name, arg) == Expr("call", name, <<arg>>, <<>>)
Not(e) == Expr("not", <<>>, <<e>>, <<>>)
And(e, f) == Expr("and", <<>>, <<e, f>>, <<>>)
IdIs(uid) == Expr("id_is", uid, <<>>, <<>>)
\* e.last(default: 0), and an access with a default that is for the values
\* of this event only
Hold(e) == Expr("hold", <<>>, <<e>>, <<>>)
Now(e) == Expr("now", <<>>, <<e>>, <<>>)
Says(args) == Expr("message", <<>>, args, <<>>)

BoundVars(e) == {b[1] : b \in Range(e.binds)}

\* the first binding of a name counts
DomainOf(e, v) ==
  e.binds[CHOOSE i \in DOMAIN e.binds :
            e.binds[i][1] = v /\ \A j \in 1 .. i - 1 : e.binds[j][1] # v][2]

\* unique_quantified_bindings
UniqueVars(e) ==
  LET first == {i \in DOMAIN e.binds : \A j \in 1 .. i - 1 : e.binds[j][1] # e.binds[i][1]}
      order == SetToSortSeq(first, <)
  IN  [i \in DOMAIN order |-> e.binds[order[i]][1]]

\* a quantifier inside another one was not expanded and is no term
RECURSIVE HasQuant(_)
HasQuant(chain) ==
  \E i \in DOMAIN chain.terms :
    LET a == chain.terms[i].atom IN
    CASE a.kind = "quant"  -> TRUE
      [] a.kind = "paren"  -> HasQuant(a.chain)
      [] a.kind = "header" -> HasQuant(a.body)
      [] OTHER             -> FALSE

\* construct_expr_node and construct_term_node: "or" binds weaker than "and",
\* and self is the class
RECURSIVE Tree(_, _)
Tree(chain, self) ==
  LET AtomNode(a) ==
        CASE a.kind = "name"   -> Ident(IF Head(a.path) = "self" THEN self \o Tail(a.path) ELSE a.path)
          [] a.kind = "let"    -> Call(a.path, Ident(<<"id">>))
          [] a.kind = "paren"  -> Tree(a.chain, self)
          [] a.kind = "differ" -> Expr("differ", <<>>, [i \in 1 .. 2 |->
                                    Ident(IF a.uids THEN <<a.vars[i], "uid">> ELSE <<a.vars[i]>>)], <<>>)
          [] a.kind = "header" -> Expr(IF a.all THEN "forall" ELSE "exists", <<>>, <<Tree(a.body, self)>>,
                                       [i \in DOMAIN a.vars |-> <<a.vars[i], a.domains[i]>>])
      op == IF \E i \in DOMAIN chain.ops : chain.ops[i] = "or" THEN "or" ELSE "and"
      at == CHOOSE k \in DOMAIN chain.ops :
              chain.ops[k] = op /\ \A j \in DOMAIN chain.ops : j > k => chain.ops[j] # op
      Part(i, j) == Tree([terms |-> SubSeq(chain.terms, i, j), ops |-> SubSeq(chain.ops, i, j - 1)], self)
  IN  IF Len(chain.terms) > 1
      THEN Expr(op, <<>>, <<Part(1, at), Part(at + 1, Len(chain.terms))>>, <<>>)
      ELSE LET e == AtomNode(chain.terms[1].atom) IN IF chain.terms[1].neg THEN Not(e) ELSE e
-----------------------------------------------------------------------------
(* Messages of the world: parse_world_decl.  The text of a message has     *)
(* holes: fields of variables, [var, field, last], with or without         *)
(* .last(default: 0), and blank ones.                                      *)

\* "{}", or a brace without the other
Blank == [var |-> "", field |-> "", last |-> FALSE]

\* preprocess_format_macros: what is in the holes becomes the arguments of a
\* format, without which the text is left alone; what stays behind in the
\* text must match the arguments
Arguments(text) == SelectSeq(text, LAMBDA hole : hole # Blank)
TextFails(text) == Len(Arguments(text)) \notin {0, Len(text)}

Quantifies(cond) == cond.op \in {"forall", "exists"}

\* replace_format_args_in_expr: under a quantifier a plain argument becomes
\* an access to the field of the domain, which is of no object
Argument(a, cond) ==
  CASE a.last -> Hold(Ident(<<a.var, a.field>>))
    [] ~a.last /\ Quantifies(cond) /\ a.var \in BoundVars(cond) ->
         Now(Ident(<<DomainOf(cond, a.var), a.field>>))
    [] OTHER -> Ident(<<a.var, a.field>>)

Message(text, cond) ==
  LET says == Arguments(text) IN Says([i \in DOMAIN says |-> Argument(says[i], cond)])

\* collect_binds_in_format_args
UsedOrder(says, cond) ==
  LET first == {i \in DOMAIN says : /\ ~says[i].last /\ says[i].var \in BoundVars(cond)
                                    /\ \A j \in 1 .. i - 1 : says[j].last \/ says[j].var # says[i].var}
      order == SetToSortSeq(first, <)
  IN  [i \in DOMAIN order |-> says[order[i]].var]

\* find_format_without_uid, expr_contains_signal_access_uid
WithoutUid(message) ==
  message.args # <<>> /\
  \A i \in DOMAIN message.args :
    message.args[i].op \in {"hold", "now"} => ~HasUid(message.args[i].args[1].name)

MessageFails(text, cond) ==
  LET says == Arguments(text) IN
  \/ TextFails(text)
  \/ Quantifies(cond) /\ UsedOrder(says, cond) \notin {<<>>, UniqueVars(cond)}
  \/ cond.op = "forall" /\ says # <<>>
  \/ WithoutUid(Message(text, cond))
-----------------------------------------------------------------------------
(* Classes *)

\* module_matches: whether a class can be named without its module
Visible(c, module, uses) == c.module = module \/ c.module \in uses

\* the classes that the name may mean for somebody in the module with uses
Candidates(classes, name, module, uses) ==
  {c \in Range(classes) : \/ FullName(c) = name
                          \/ <<c.name>> = name /\ Visible(c, module, uses)}

\* Mutant: only the direct base is merged.
BaseSignalsDirect(classes, name, module, uses, visited) ==
  LET found == Candidates(classes, name, module, uses) IN
  IF Cardinality(found) > 1 THEN [ok |-> FALSE]
  ELSE IF found = {} THEN [ok |-> TRUE, found |-> FALSE, signals |-> <<>>]
  ELSE [ok |-> TRUE, found |-> TRUE, signals |-> (CHOOSE d \in found : TRUE).signals]

\* collect_base_signals: every ancestor is looked up from the class that
\* inherits, and an ancestor of the base that is not found ends the chain
RECURSIVE BaseSignals(_, _, _, _, _)
BaseSignals(classes, name, module, uses, visited) ==
  LET found == Candidates(classes, name, module, uses)
      c == CHOOSE d \in found : TRUE
      above == IF c.base = <<>> THEN [ok |-> TRUE, found |-> TRUE, signals |-> <<>>]
               ELSE BaseSignals(classes, c.base, module, uses, visited \cup {name})
  IN  IF name \in visited \/ Cardinality(found) > 1 THEN [ok |-> FALSE]
      ELSE IF found = {} THEN [ok |-> TRUE, found |-> FALSE, signals |-> <<>>]
      ELSE IF ~above.ok THEN [ok |-> FALSE]
      ELSE [ok |-> TRUE, found |-> TRUE, signals |-> above.signals \o c.signals]

Bases(classes, c) == BaseSignals(classes, c.base, c.module, c.uses, {})

InheritanceFails(classes) ==
  \E c \in Range(classes) : c.base # <<>> /\ LET b == Bases(classes, c) IN ~b.ok \/ ~b.found

\* merge_base_class_signals: inherited signals come first
MergeBases(classes) ==
  [i \in DOMAIN classes |->
     IF classes[i].base = <<>> THEN classes[i]
     ELSE [classes[i] EXCEPT !.signals = Bases(classes, classes[i]).signals \o @]]

\* expand_type_into_signals for a signal of the class c: the types of nested
\* fields, too, are looked up from c, by module and name; the fields of a
\* class that is being expanded already are not expanded again
RECURSIVE Leaves(_, _, _, _)
Leaves(classes, c, s, visited) ==
  LET found == {d \in Range(classes) :
                  \E m \in {c.module} \cup c.uses : FullName(d) = m \o s.type}
      d == CHOOSE x \in found : TRUE
      inner == [i \in DOMAIN d.signals |->
                  Leaves(classes, c, [name |-> s.name \o d.signals[i].name, type |-> d.signals[i].type],
                         visited \cup {s.type})]
      Kept(i) == IF inner[i].signals = <<>>
                 THEN <<[name |-> s.name \o d.signals[i].name, type |-> d.signals[i].type]>>
                 ELSE inner[i].signals
  IN  IF Cardinality(found) > 1 THEN [ok |-> FALSE]
      ELSE IF found = {} THEN [ok |-> TRUE, signals |-> <<s>>]
      ELSE IF s.type \in visited THEN [ok |-> TRUE, signals |-> <<>>]
      ELSE IF \E i \in DOMAIN inner : ~inner[i].ok THEN [ok |-> FALSE]
      ELSE [ok |-> TRUE, signals |-> FlattenSeq([i \in DOMAIN inner |-> Kept(i)])]

\* convert_class_types_to_basic: its errors, and the classes it makes
TypesFail(classes) ==
  \/ \E i, j \in DOMAIN classes : i # j /\ FullName(classes[i]) = FullName(classes[j])
  \/ \E c \in Range(classes) : \E s \in Range(c.signals) : ~Leaves(classes, c, s, {}).ok

ToBasic(classes) ==
  [i \in DOMAIN classes |->
     [classes[i] EXCEPT !.signals =
        FlattenSeq([j \in DOMAIN @ |-> Leaves(classes, classes[i], @[j], {}).signals])]]

\* qualify_signal_names
Qualify(classes) ==
  [i \in DOMAIN classes |->
     [classes[i] EXCEPT !.signals =
        [j \in DOMAIN @ |-> [@[j] EXCEPT !.name = FullName(classes[i]) \o @]]]]
-----------------------------------------------------------------------------
(* Members of the world *)

\* the short name of a type, and the classes that have it in any module
OfMembers(members, classes) ==
  SelectSeq(classes, LAMBDA c : \E m \in Range(members) : Last(m.type) = c.name)

\* Mutant: one of several classes is taken.
MembersMissing(world, classes) ==
  \E m \in Range(world.members) : Candidates(classes, m.type, <<>>, world.uses) = {}

\* check_member_types_and_uses
MembersFail(world, classes) ==
  \E m \in Range(world.members) : Cardinality(Candidates(classes, m.type, <<>>, world.uses)) # 1

TypedMembers(world, classes) ==
  [i \in DOMAIN world.members |->
     [world.members[i] EXCEPT !.type =
        FullName(CHOOSE c \in Candidates(classes, @, <<>>, world.uses) : TRUE)]]

\* replace_prefix and param_call_expr: outside of quantifiers the object is 0
MemberRef(name, map, bound) ==
  LET target == map[Head(name)] \o Tail(name) IN
  CASE Head(name) \notin DOMAIN map -> Ident(name)
    [] Len(name) = 1 \/ HasUid(name) -> Ident(target)
    [] OTHER -> Call(Params(target), IF Head(name) \in bound THEN Ident(<<Head(name)>>) ELSE Zero)

\* a binding stands for the class of its domain and hides a member of its name
Scoped(e, map) ==
  [v \in DOMAIN map \cup BoundVars(e) |->
     IF v \notin BoundVars(e) THEN map[v]
     ELSE IF DomainOf(e, v) \in DOMAIN map THEN map[DomainOf(e, v)] ELSE <<DomainOf(e, v)>>]

\* rewrite_member_refs, transform_expr
RECURSIVE RewriteRefs(_, _, _)
RewriteRefs(e, map, bound) ==
  IF e.op = "ident"
  THEN IF Len(e.name) = 1 /\ e.name[1] \in bound THEN e ELSE MemberRef(e.name, map, bound)
  ELSE [e EXCEPT !.args = [i \in DOMAIN @ |-> RewriteRefs(@[i], Scoped(e, map), bound \cup BoundVars(e))]]
=============================================================================
