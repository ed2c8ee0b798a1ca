--------------------------- MODULE MCScheduleBuild ---------------------------
(***************************************************************************)
(* Every specification made of two periodic streams, a periodic start and  *)
(* a periodic end (with or without a self reference), with periods that    *)
(* are equal, multiples of each other, and coprime.                        *)
(***************************************************************************)
EXTENDS ScheduleBuild

CONSTANT Periods   \* periods in ticks

MCEvalLayer == 1 :> 1 @@ 2 :> 2
MCStartLayer == 1 :> 0 @@ 2 :> 1

Pool(kind, idx, selfRefs) ==
  {{}} \cup {{[kind |-> kind, idx |-> idx, period |-> p, selfRef |-> r]} :
               p \in Periods, r \in selfRefs}

MCIRs ==
  {a \cup b \cup c \cup d :
     a \in Pool("Evaluate", 1, {FALSE}), b \in Pool("Evaluate", 2, {FALSE}),
     c \in Pool("Start", 2, {FALSE}), d \in Pool("End", 2, BOOLEAN)}

P1 == {2, 3, 4, 5, 6}

\* A 3 Hz stream next to whole nanoseconds: 3 ticks are a nanosecond.
PThirds == {3, 6, 10}
=============================================================================
