------------------------------- MODULE MCClock -------------------------------
(***************************************************************************)
(* Two events at most, with gaps that meet and miss the deadlines; start   *)
(* times before and after the first event, and one before the session.     *)
(***************************************************************************)
EXTENDS Clock

MCGaps == {0, 1, 4}
MCStartTimes == {{}, {4}, {6}}
=============================================================================
