---------------------------- MODULE PeriodicTasks ----------------------------
(***************************************************************************)
(* What the scheduler promises, without tables, cursors or queues: every   *)
(* armed source fires at its own next time, and then exactly one period    *)
(* later; the sources that fire at one time fire together, earliest time   *)
(* first.                                                                  *)
(***************************************************************************)
EXTENDS Integers

CONSTANTS
  StaticSources,   \* the possible sets of sources that are armed from the start
  Entry,           \* the sources armed and disarmed at run time
  Times            \* the times at which a source may be armed

\* A source is a record [item, period].
VARIABLES
  next,    \* the armed sources, each with the time it fires at next
  fired    \* what fired last: [due, items]

vars == <<next, fired>>

Init ==
  /\ \E S \in StaticSources : next = [s \in S |-> s.period]
  /\ fired = [due |-> 0, items |-> {}]

Earliest(t) ==
  /\ \E s \in DOMAIN next : next[s] = t
  /\ \A s \in DOMAIN next : t <= next[s]

Fire(t) ==
  /\ Earliest(t)
  /\ fired' = [due |-> t, items |-> {s.item : s \in {r \in DOMAIN next : next[r] = t}}]
  /\ next' = [s \in DOMAIN next |-> IF next[s] = t THEN t + s.period ELSE next[s]]

Arm(s, now) ==
  /\ UNCHANGED fired
  /\ now >= fired.due
  /\ next' = [r \in DOMAIN next \cup {s} |-> IF r = s THEN now + s.period ELSE next[r]]

Disarm(s) ==
  /\ UNCHANGED fired
  /\ next' = [r \in DOMAIN next \ {s} |-> next[r]]

Next ==
  \/ \E s \in DOMAIN next : Fire(next[s])
  \/ \E s \in Entry : Disarm(s) \/ \E now \in Times : Arm(s, now)

Spec == Init /\ [][Next]_vars
=============================================================================
