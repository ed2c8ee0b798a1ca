--------------------------- MODULE MCAsyncMonitor ---------------------------
(***************************************************************************)
(* Two ways to build the monitor, at the two ends of what an owner meets.  *)
(***************************************************************************)
EXTENDS AsyncMonitor

MCSetups ==
  {[mode |-> "replay", in_cap |-> 1, out_cap |-> 1, may_stop |-> FALSE],
   [mode |-> "live", in_cap |-> 0, out_cap |-> 0, may_stop |-> TRUE]}
=============================================================================
