----------------------------- MODULE MCFrontend -----------------------------
(***************************************************************************)
(* Specifications for Frontend: a library with a base class and a part, a  *)
(* module with a class that inherits twice over and has a part, and a      *)
(* world of objects.  The checks take one form each; the structures, some  *)
(* of them faulty, take one pair of checks.                                *)
(***************************************************************************)
EXTENDS Frontend

Self(path) == Term(Name(<<"self">> \o path))
Var(v, field) == Term(Name(<<v, field>>))
No(term) == [term EXCEPT !.neg = TRUE]
Chain(terms, ops) == [terms |-> terms, ops |-> ops]
In(v, domain) == [var |-> v, domain |-> <<domain>>, list |-> FALSE]
OneOf(v, names) == [var |-> v, domain |-> names, list |-> TRUE]
Some(binds, body) == Term(Quantified(FALSE, binds, body))
Every(binds, body) == Term(Quantified(TRUE, binds, body))
Does(level, says) == [level |-> level, says |-> says]
Check(cond, level, else) == [cond |-> cond, does |-> Does(level, <<>>), else |-> else]
Saying(cond, says) == [cond |-> cond, does |-> Does("alert", says), else |-> <<>>]
Otherwise(level) == <<Does(level, <<>>)>>
Arg(v, field) == [var |-> v, field |-> field, last |-> FALSE]
LastOf(v, field) == [var |-> v, field |-> field, last |-> TRUE]
Flag(name) == [name |-> <<name>>, type |-> Bool]
Class(module, name, base, uses, signals) ==
  [module |-> module, name |-> name, base |-> base, uses |-> uses, signals |-> signals,
   lets |-> <<>>, checks |-> <<>>]
Member(name, type) == [name |-> name, type |-> type]
File(includes, classes, worlds) == [includes |-> includes, classes |-> classes, worlds |-> worlds]

Lib == <<"Lib">>
Main == <<"Main">>
Vehicle == Class(Lib, "Vehicle", <<>>, {}, <<Flag("moving")>>)
Wheel == Class(Lib, "Wheel", <<>>, {}, <<Flag("flat")>>)
Motor == Class(Main, "Motor", <<"Vehicle">>, {Lib}, <<Flag("hot")>>)
Part == [name |-> <<"wheel">>, type |-> <<"Wheel">>]
Car(checks) ==
  [Class(Main, "Car", <<"Motor">>, {Lib}, <<Part>>) EXCEPT
     !.lets = <<[name |-> "risky", value |-> Chain(<<Self(<<"hot">>), No(Self(<<"moving">>))>>, <<"or">>)]>>,
     !.checks = checks]
Cars == <<Member("cars", <<"Car">>), Member("c", <<"Motor">>)>>
Fleet(members, checks) == [uses |-> {Main}, members |-> members, checks |-> checks]

Moving == Self(<<"moving">>)
Hot == Self(<<"hot">>)
Flat == Self(<<"wheel", "flat">>)

ClassConds ==
  {Just(Moving), Just(No(Flat)), Just(Term(Name(<<"risky">>))),
   Chain(<<Moving, Hot, Flat>>, <<"or", "and">>),
   Chain(<<No(Moving), Hot, No(Flat)>>, <<"and", "or">>),
   Chain(<<No(Term(Paren(Chain(<<Moving, Hot>>, <<"or">>)))), Flat>>, <<"or">>),
   Just(Every(<<OneOf("q", <<"moving", "hot">>)>>, Just(Self(<<"q">>)))),
   Just(Some(<<OneOf("q", <<"moving", "hot">>), OneOf("j", <<"hot", "moving">>)>>,
             Chain(<<Self(<<"q">>), No(Self(<<"j">>))>>, <<"and">>)))}

WorldConds ==
  {Just(Some(<<In("c", "cars")>>, Just(Var("c", "moving")))),
   Just(No(Some(<<In("c", "cars")>>, Just(Var("c", "hot"))))),
   Just(Every(<<In("x", "cars")>>, Chain(<<Var("x", "moving"), Var("x", "hot")>>, <<"or">>))),
   Just(Some(<<In("x", "cars"), In("y", "cars")>>,
             Chain(<<Term(Differ("x", "y")), Var("x", "moving"), No(Var("y", "moving"))>>, <<"and", "and">>))),
   Just(Every(<<In("x", "cars"), In("y", "cars")>>,
              Chain(<<No(Var("x", "hot")), Term(Differ("x", "y")), Var("y", "moving")>>, <<"or", "and">>))),
   Chain(<<Term(Paren(Just(Some(<<In("x", "cars")>>, Just(Var("x", "hot")))))),
           Some(<<In("y", "cars")>>, Just(Var("y", "moving")))>>, <<"and">>),
   Just(Every(<<OneOf("d", <<"moving", "hot">>), In("x", "cars")>>, Just(Term(Name(<<"x", "d">>)))))}

Source(members, class, world) ==
  ("main" :> File(<<"lib">>, <<Motor, Car(class)>>, <<Fleet(members, world)>>)) @@
  ("lib" :> File(<<>>, <<Vehicle, Wheel>>, <<>>))

Checked ==
  {Source(Cars, <<Check(Just(Moving), "alert", Otherwise("violation"))>>, <<Check(w, "violation", Otherwise("alert"))>>) :
     w \in WorldConds} \cup
  {Source(Cars, <<Check(k, "info", Otherwise("alert"))>>, <<>>) : k \in ClassConds}

\* structures: what the passes reject, and one that they do not
Simple == Source(Cars, <<Check(Just(Moving), "alert", <<>>)>>, <<>>)
OfMain(includes, classes, worlds) == [Simple EXCEPT !["main"] = File(includes, classes, worlds)]
Plain == Fleet(Cars, <<>>)
Nested == Just(Some(<<In("x", "cars")>>, Just(Some(<<In("y", "cars")>>, Just(Var("x", "hot"))))))
Structures ==
  {OfMain(<<"none">>, <<Motor, Car(<<>>)>>, <<Plain>>),
   OfMain(<<"lib", "lib">>, <<Motor, Car(<<>>)>>, <<Plain>>),
   [Simple EXCEPT !["lib"].includes = <<"lib">>],
   OfMain(<<"lib">>, <<Motor, Car(<<>>)>>, <<Plain, Plain>>),
   OfMain(<<"lib">>, <<Motor, Car(<<>>)>>, <<Fleet(Cars, <<Check(Nested, "alert", <<>>)>>)>>),
   OfMain(<<"lib">>, <<[Motor EXCEPT !.base = <<"Car">>], Car(<<>>)>>, <<Plain>>),
   OfMain(<<"lib">>, <<[Motor EXCEPT !.base = <<"Lib", "Vehicle">>, !.uses = {}], Car(<<>>)>>, <<Plain>>),
   OfMain(<<"lib">>, <<Class(Main, "Wheel", <<>>, {}, <<>>), Motor, Car(<<>>)>>, <<Plain>>),
   OfMain(<<"lib">>, <<Motor, Car(<<Check(Just(Self(<<"wheel">>)), "alert", <<>>)>>)>>, <<Plain>>),
   OfMain(<<"lib">>, <<[Motor EXCEPT !.signals = <<Flag("moving")>>], Car(<<>>)>>, <<Plain>>),
   OfMain(<<"lib">>, <<Motor, [Car(<<>>) EXCEPT !.signals = <<[Part EXCEPT !.type = <<"Car">>]>>]>>, <<Plain>>),
   OfMain(<<"lib">>, <<Motor, Car(<<>>)>>, <<Fleet(<<Member("cars", <<"Truck">>)>>, <<>>)>>),
   OfMain(<<"lib">>, <<Class(Main, "Vehicle", <<>>, {}, <<>>)>>,
          <<[Fleet(<<Member("all", <<"Vehicle">>)>>, <<>>) EXCEPT !.uses = {Main, Lib}]>>),
   OfMain(<<"lib">>, <<Class(Main, "Vehicle", <<>>, {}, <<Flag("hot")>>)>>,
          <<Fleet(<<Member("all", <<"Main", "Vehicle">>)>>, <<>>)>>),
   OfMain(<<"lib">>, <<Motor, Car(<<>>)>>, <<Fleet(<<>>, <<Check(Just(Some(<<In("x", "cars")>>, Just(Var("x", "hot")))), "alert", <<>>)>>)>>),
   OfMain(<<"lib">>, <<Motor, Car(<<Check(Just(Moving), "alert", <<>>)>>)>>, <<Fleet(<<>>, <<>>)>>),
   OfMain(<<"lib">>, <<Motor, Car(<<Check(Just(Every(<<OneOf("f", <<"moving", "hot">>)>>, Just(Self(<<"f">>)))), "alert", <<>>)>>)>>, <<Plain>>),
   OfMain(<<"lib">>, <<Motor, Car(<<>>)>>,
          <<Fleet(Cars, <<Check(Just(Some(<<In("x", "cars"), In("a", "cars")>>,
                                          Chain(<<Var("x", "hot"), Var("a", "hot")>>, <<"and">>))), "alert", <<>>)>>)>>),
   OfMain(<<"lib">>, <<Motor, Class(Main, "Van", <<"Motor">>, {Lib}, <<Part>>)>>,
          <<Fleet(<<Member("vans", <<"Van">>)>>, <<>>)>>)} \cup
  {OfMain(<<"lib">>, <<Motor, Car(<<>>)>>, <<Fleet(Cars, <<k>>)>>) :
     k \in {Saying(Just(Every(<<In("x", "cars")>>, Just(Var("x", "hot")))), <<Arg("x", "uid")>>),
            Saying(Just(Some(<<In("x", "cars")>>, Just(Var("x", "hot")))), <<Arg("x", "hot")>>),
            Saying(Just(Some(<<In("x", "cars")>>, Just(Var("x", "hot")))), <<Arg("x", "uid")>>),
            Saying(Just(Some(<<In("x", "cars")>>, Just(Var("x", "hot")))), <<LastOf("x", "uid")>>),
            Saying(Just(Some(<<In("x", "cars")>>, Just(Var("x", "hot")))), <<LastOf("cars", "uid")>>),
            Saying(Just(Some(<<In("x", "cars")>>, Just(Var("x", "hot")))), <<LastOf("cars", "uid"), Blank>>),
            Saying(Just(Some(<<In("x", "cars")>>, Just(Var("x", "hot")))), <<Blank>>),
            Check(Just(Every(<<In("x", "cars")>>, Just(Var("x", "hot")))), "violation",
                  <<Does("info", <<LastOf("cars", "uid")>>)>>),
            Saying(Just(Some(<<In("x", "cars"), In("y", "cars")>>,
                             Chain(<<Var("x", "hot"), Var("y", "hot")>>, <<"and">>))),
                   <<Arg("y", "uid"), Arg("x", "uid")>>)}}

MCPrograms == Checked \cup Structures
MCUidNames == {"uid"}
MCWithin ==
  {"a"} \X {"flat", "and"} \cup {"d"} \X {"uid", "and"} \cup {"f"} \X {"self", "flat"} \cup {<<"y", "risky">>}

\* a pair of cars told apart by their uids
UidPrograms ==
  {OfMain(<<"lib">>, <<Motor, Car(<<>>)>>,
          <<Fleet(Cars, <<Check(Just(Some(<<In("x", "cars"), In("y", "cars")>>,
                                          Just(Term(UidsDiffer("x", "y"))))), "alert", <<>>)>>)>>)}
=============================================================================
