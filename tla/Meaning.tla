------------------------------- MODULE Meaning ------------------------------
(***************************************************************************)
(* What a specification says, read off its text without the passes of the  *)
(* front end: the fields of a class, whether a specification is well       *)
(* formed, and the reports its checks call for, given the last values of   *)
(* the fields of every object.                                             *)
(*                                                                         *)
(* last[k][o] has the values of the fields of object o of class k, by path.*)
(***************************************************************************)
EXTENDS Language

The(S) == CHOOSE x \in S : TRUE
BaseOf(classes, c) == Candidates(classes, c.base, c.module, c.uses)
TypeOf(classes, c, s) == {d \in Range(classes) : s.type = <<d.name>> /\ Visible(d, c.module, c.uses)}

RECURSIVE Fields(_, _)
Fields(classes, c) ==
  (IF c.base = <<>> THEN {} ELSE Fields(classes, The(BaseOf(classes, c)))) \cup
  UNION {LET d == TypeOf(classes, c, s) IN
         IF d = {} THEN {s.name} ELSE {s.name \o f : f \in Fields(classes, The(d))} :
           s \in Range(c.signals)}

RECURSIVE Ancestors(_, _)
Ancestors(classes, S) ==
  LET more == S \cup UNION {BaseOf(classes, c) : c \in {d \in S : d.base # <<>>}} IN
  IF more = S THEN S ELSE Ancestors(classes, more)

WellFormed(text) ==
  LET classes == Range(text.classes) IN
  /\ Len(text.worlds) <= 1
  /\ Cardinality({FullName(c) : c \in classes}) = Len(text.classes)
  /\ \A c \in classes : c.base # <<>> =>
       /\ Cardinality(BaseOf(text.classes, c)) = 1
       /\ c \notin Ancestors(text.classes, BaseOf(text.classes, c))
  /\ \A w \in Range(text.worlds) : \A m \in Range(w.members) :
       Cardinality(Candidates(text.classes, m.type, <<>>, w.uses)) = 1
-----------------------------------------------------------------------------
\* the class that the objects of a domain of the world have
ClassOf(text, domain) ==
  LET w == text.worlds[1]
      m == w.members[CHOOSE i \in DOMAIN w.members : w.members[i].name = domain]
  IN  The(Candidates(text.classes, m.type, <<>>, w.uses))

\* env gives a variable an object, [class, id], or a name.  A chain holds
\* when all terms of some stretch between two "or" do.
RECURSIVE Holds(_, _, _, _, _)
Holds(chain, self, env, text, last) ==
  LET Named(s) == IF s \in DOMAIN env /\ env[s].kind = "name" THEN env[s].name ELSE s
      Elements(b) == IF b.list THEN {[kind |-> "name", name |-> n] : n \in Range(b.domain)}
                    ELSE LET k == FullName(ClassOf(text, b.domain[1])) IN
                         {[kind |-> "object", class |-> k, id |-> o] :
                            o \in IF k \in DOMAIN last THEN DOMAIN last[k] ELSE {}}
      Envs(binds) ==
        LET vars == {b.var : b \in Range(binds)}
            OfVar(v) == UNION {Elements(b) : b \in {x \in Range(binds) : x.var = v}}
            own == {m \in [vars -> UNION {OfVar(v) : v \in vars}] : \A v \in vars : m[v] \in OfVar(v)}
        IN  {[v \in DOMAIN env \cup vars |-> IF v \in vars THEN m[v] ELSE env[v]] : m \in own}
      Lets(path) == IF self = <<>> THEN {} ELSE {i \in DOMAIN self.lets : path = <<self.lets[i].name>>}
      Field(path) ==
        LET names == [i \in DOMAIN path |-> Named(path[i])] IN
        IF Head(names) = "self" THEN last[FullName(self)][env["self"].id][Tail(names)]
        ELSE IF Lets(names) # {} THEN Holds(self.lets[The(Lets(names))].value, self, env, text, last)
        ELSE last[env[Head(names)].class][env[Head(names)].id][Tail(names)]
      Atom(a) ==
        CASE a.kind = "name"   -> Field(a.path)
          [] a.kind = "paren"  -> Holds(a.chain, self, env, text, last)
          [] a.kind = "differ" -> env[a.vars[1]] # env[a.vars[2]]
          [] a.kind = "quant"  ->
               IF a.all THEN \A m \in Envs(a.binds) : Holds(a.body, self, m, text, last)
               ELSE \E m \in Envs(a.binds) : Holds(a.body, self, m, text, last)
  IN  \E i, j \in DOMAIN chain.terms :
        /\ i <= j
        /\ i > 1 => chain.ops[i - 1] = "or"
        /\ j < Len(chain.terms) => chain.ops[j] = "or"
        /\ \A k \in i .. j - 1 : chain.ops[k] = "and"
        /\ \A k \in i .. j : chain.terms[k].neg # Atom(chain.terms[k].atom)

\* The reports due after the event last: <<where, number, branch, level,
\* numbers>> for the checks of the object that reported and of the world.
\* Messages of the world have fields of a domain, of the object that
\* reported last.
Due(text, last) ==
  LET k == last.class
      c == The({d \in Range(text.classes) : FullName(d) = k})
      self == [kind |-> "object", class |-> k, id |-> last.object]
      Latest(domain) == LET d == FullName(ClassOf(text, domain)) IN
                        IF d \in DOMAIN last.latest THEN last.latest[d] ELSE 0
      OfClass(check) == Holds(check.cond, c, [self |-> self], text, last.by)
      OfWorld(check) == Holds(check.cond, <<>>, <<>>, text, last.by)
      Named(does) == <<last.object>>
      Numbers(does) == LET says == Arguments(does.says) IN [j \in DOMAIN says |-> Latest(says[j].var)]
      Reports(checks, where, Met(_), Told(_)) ==
        {<<where, i, 1, checks[i].does.level, Told(checks[i].does)>> : i \in {j \in DOMAIN checks : Met(checks[j])}} \cup
        {<<where, i, 2, checks[i].else[1].level, Told(checks[i].else[1])>> :
           i \in {j \in DOMAIN checks : checks[j].else # <<>> /\ ~Met(checks[j])}}
  IN  Reports(c.checks, k, OfClass, Named) \cup
      Reports(text.worlds[1].checks, <<"world">>, OfWorld, Numbers)
=============================================================================
