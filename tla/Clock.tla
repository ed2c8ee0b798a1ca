-------------------------------- MODULE Clock --------------------------------
(***************************************************************************)
(* The time of a session: the codecs of core/src/runtime/settings/params   *)
(* .rs, the choice among them in oorv/src/main.rs, the anchor that input   *)
(* and output share, and the two loops that use them: OfflineWorker with   *)
(* the Monitor, and OnlineWorker with the wall clock.                      *)
(*                                                                         *)
(* Times are natural numbers of one unit; an absolute time counts from the *)
(* Unix epoch.  The specification has one stream with a global clock, due  *)
(* at the multiples of Period; what it evaluates is in Monitor.  RelNanos  *)
(* and RelSeconds are one codec here, as are the two deltas and the two    *)
(* epochs, which differ in how they are written.                           *)
(***************************************************************************)
EXTENDS Naturals, FiniteSets, Sequences, SequencesExt

CONSTANTS
  Period,       \* the period of the deadlines
  Origin,       \* the absolute time at which the input was recorded
  Boot,         \* the absolute time at which the session starts
  StartTimes,   \* values of --time-origin: sets of at most one absolute time
  Step,         \* the step of FixedStep: --input-delay
  Gaps,         \* bound: times between two events of a recording
  MaxEvents,    \* bound: events of the input
  MaxTime       \* bound: how long the wall clock runs

ASSUME ClockAssumption ==
  /\ {Period, Step} \subseteq Nat \ {0} /\ {Origin, Boot, MaxEvents, MaxTime} \subseteq Nat
  /\ Gaps \subseteq Nat /\ \A s \in StartTimes : s \subseteq Nat /\ \A t, u \in s : t = u

VARIABLES
  setup,        \* the command line and the columns of the input
  phase,        \* "setup", "running", "done", "failed" or "panicked"
  wall,         \* the system clock
  anchor,       \* the cell that both codecs share: {} or {an absolute time}
  accumulated,  \* the state of DeltaNanos, DeltaSeconds and FixedStep
  recorded,     \* the time of the recording so far
  last,         \* last_event: {} or {a raw timestamp}
  count,        \* events produced so far
  queue,        \* the live input queue: its length
  closed,       \* whether its sender is gone
  item,         \* what the live worker took: "none", "input" or "timeout"
  due,          \* the earliest deadline
  verdicts      \* [source, ts, raw] of the verdicts sent

vars == <<setup, phase, wall, anchor, accumulated, recorded, last, count, queue, closed, item, due, verdicts>>
live_vars == <<wall, queue, closed, item>>
replay_vars == <<recorded, last>>
-----------------------------------------------------------------------------
(* Setting up *)

OutputCodecs == {"Relative", "Epoch"}
\* launch_monitor: the codec of the input for the arguments
Codec(args) == IF args.online THEN "WallClock"
               ELSE IF args.delay THEN "FixedStep" ELSE args.format

ProvidedByInput(codec) == codec \notin {"FixedStep", "WallClock"}

Setups == {s \in [online : BOOLEAN, delay : BOOLEAN, format : {"Relative", "Delta", "Epoch"},
                  output : OutputCodecs, start : StartTimes, column : {"none", "named", "beyond"}] :
             /\ s.online => ~s.delay
             \* what has no effect on a codec of the session's own is fixed
             /\ s.online \/ s.delay => s.format = "Relative" /\ s.column = "none"
             /\ s.column = "beyond" => s.output = "Relative" /\ s.start = {}}

codec == Codec(setup)

\* Mutant: a start time is only for clocks that have none of their own.
InitAnchorLate(start) == IF codec = "Epoch" THEN {} ELSE IF start = {} THEN {wall} ELSE start

\* init_anchor: an epoch codec without a start time waits for its first event
InitAnchor(start) == IF start # {} THEN start ELSE IF codec = "Epoch" THEN {} ELSE {wall}

\* CsvFeedReader::create, Monitor::initialize and OnlineWorker::init
Setup ==
  /\ phase = "setup"
  /\ phase' = IF ProvidedByInput(codec) /\ setup.column = "none" THEN "failed" ELSE "running"
  /\ anchor' = InitAnchor(setup.start)
  /\ UNCHANGED <<setup, accumulated, count, due, verdicts, live_vars, replay_vars>>
-----------------------------------------------------------------------------
(* The codecs: decode yields the monitor's time, {} when it panics, and the *)
(* new accumulated time and anchor.                                         *)

Decoded(ts, acc, anch) == [ts |-> ts, accumulated |-> acc, anchor |-> anch]

DecodeRelative(raw) == Decoded({raw}, accumulated, anchor)

DecodeDelta(raw) == Decoded({accumulated + raw}, accumulated + raw, anchor)

\* Epoch and WallClock: the first one is the anchor, none may be before it
DecodeAnchored(time) ==
  IF anchor = {} THEN Decoded({0}, accumulated, {time})
  ELSE Decoded({time - a : a \in {b \in anchor : b <= time}}, accumulated, anchor)

Decode(raw) ==
  CASE codec = "Relative"  -> DecodeRelative(raw)
    [] codec = "Delta"     -> DecodeDelta(raw)
    [] codec = "FixedStep" -> DecodeDelta(Step)
    [] codec = "Epoch"     -> DecodeAnchored(raw)
    [] codec = "WallClock" -> DecodeAnchored(wall)

\* encode of the output codec, which adopted the anchor
Encode(ts, anch) ==
  IF setup.output = "Relative" THEN ts ELSE ts + (CHOOSE a \in anch : TRUE)

Adopt(d) == anchor' = d.anchor /\ accumulated' = d.accumulated

Verdict(source, ts, raw, anch) == [source |-> source, ts |-> Encode(ts, anch), raw |-> raw]
-----------------------------------------------------------------------------
(* Replay: OfflineWorker::process and the Monitor *)

\* The raw timestamp of the recorded time t, which comes gap after the last.
Raw(t, gap) == CASE codec = "Delta" -> gap
                 [] codec = "Epoch" -> Origin + t
                 [] OTHER -> t

\* Mutant: a deadline at the very end is left for the next event.
FlushedExclusive(ts, inclusive) == LET k == (ts + Period - 1) \div Period IN IF ts <= due THEN due ELSE k * Period

\* flush_deadlines: the next deadline when those before ts have run, and
\* the one at ts too unless inclusive
Flushed(ts, inclusive) ==
  IF inclusive THEN (IF ts <= due THEN due ELSE ((ts + Period - 1) \div Period) * Period)
  ELSE (IF ts < due THEN due ELSE (ts \div Period + 1) * Period)

TimedVerdicts(until, anch) ==
  [i \in 1 .. (until - due) \div Period |-> Verdict("Timed", due + (i - 1) * Period, 0, anch)]

\* next_record and handle_event
HandleEvent ==
  /\ phase = "running" /\ ~setup.online /\ count < MaxEvents
  /\ \E gap \in Gaps :
       LET t == recorded + gap
           raw == Raw(t, gap)
           d == Decode(raw)
       IN  IF d.ts = {} \/ setup.column = "beyond"
           THEN phase' = "panicked" /\ UNCHANGED <<anchor, accumulated, replay_vars, count, due, verdicts>>
           ELSE LET ts == CHOOSE x \in d.ts : TRUE  next == Flushed(ts, TRUE) IN
                /\ Adopt(d) /\ recorded' = t /\ last' = {raw} /\ count' = count + 1
                /\ due' = next
                /\ verdicts' = verdicts \o TimedVerdicts(next, d.anchor) \o <<Verdict("Event", ts, raw, d.anchor)>>
                /\ UNCHANGED phase
  /\ UNCHANGED <<setup, live_vars>>

\* The end of the input: advance_clock with the last timestamp once more
EndOfInput ==
  /\ phase = "running" /\ ~setup.online
  /\ phase' = "done"
  /\ IF last = {} THEN UNCHANGED <<anchor, accumulated, due, verdicts>>
     ELSE LET d == Decode(CHOOSE r \in last : TRUE)
              next == Flushed(CHOOSE x \in d.ts : TRUE, FALSE)
          IN  /\ Adopt(d) /\ due' = next
              /\ verdicts' = verdicts \o TimedVerdicts(next, d.anchor)
  /\ UNCHANGED <<setup, count, live_vars, replay_vars>>
-----------------------------------------------------------------------------
(* Live: OnlineWorker::process and the clock around it *)

Now == wall - (CHOOSE a \in anchor : TRUE)

Tick == /\ setup.online /\ phase = "running" /\ wall < Boot + MaxTime
        /\ wall' = wall + 1
        /\ UNCHANGED <<setup, phase, anchor, accumulated, replay_vars, count, queue, closed, item, due, verdicts>>

Submit == /\ setup.online /\ phase = "running" /\ ~closed /\ count < MaxEvents
          /\ queue' = queue + 1 /\ count' = count + 1
          /\ UNCHANGED <<setup, phase, wall, anchor, accumulated, replay_vars, closed, item, due, verdicts>>

Close == /\ setup.online /\ phase = "running" /\ ~closed
         /\ closed' = TRUE
         /\ UNCHANGED <<setup, phase, wall, anchor, accumulated, replay_vars, count, queue, item, due, verdicts>>

\* recv_timeout: something that is queued comes before a deadline, however
\* late that is
ReceiveInput ==
  /\ setup.online /\ phase = "running" /\ item = "none" /\ queue > 0
  /\ item' = "input" /\ queue' = queue - 1
  /\ UNCHANGED <<setup, phase, wall, anchor, accumulated, replay_vars, count, closed, due, verdicts>>

\* Mutant: the wait is not rounded up to the deadline.
WaitIsOverEarly == Now + 1 >= due
WaitIsOver == Now >= due

ReceiveTimeout ==
  /\ setup.online /\ phase = "running" /\ item = "none" /\ queue = 0 /\ ~closed
  /\ WaitIsOver
  /\ item' = "timeout"
  /\ UNCHANGED <<setup, phase, wall, anchor, accumulated, replay_vars, count, queue, closed, due, verdicts>>

ReceiveDisconnected ==
  /\ setup.online /\ phase = "running" /\ item = "none" /\ queue = 0 /\ closed
  /\ phase' = "done"
  /\ UNCHANGED <<setup, anchor, accumulated, replay_vars, count, live_vars, due, verdicts>>

\* The timestamp of an event is the time at which it is evaluated.
ProcessInput ==
  /\ setup.online /\ phase = "running" /\ item = "input"
  /\ LET d == Decode(0) IN
       IF d.ts = {} THEN phase' = "panicked" /\ UNCHANGED <<anchor, accumulated, verdicts, item>>
       ELSE /\ Adopt(d) /\ item' = "none" /\ UNCHANGED phase
            /\ verdicts' = Append(verdicts, Verdict("Event", CHOOSE x \in d.ts : TRUE, wall, d.anchor))
  /\ UNCHANGED <<setup, wall, replay_vars, count, queue, closed, due>>

ProcessDeadline ==
  /\ setup.online /\ phase = "running" /\ item = "timeout"
  /\ verdicts' = Append(verdicts, Verdict("Timed", due, wall, anchor))
  /\ due' = due + Period /\ item' = "none"
  /\ UNCHANGED <<setup, phase, wall, anchor, accumulated, replay_vars, count, queue, closed>>
-----------------------------------------------------------------------------
Init ==
  /\ setup \in Setups /\ phase = "setup" /\ wall = Boot /\ anchor = {}
  /\ accumulated = 0 /\ recorded = 0 /\ last = {} /\ count = 0
  /\ queue = 0 /\ closed = FALSE /\ item = "none" /\ due = Period /\ verdicts = <<>>

Worker == \/ Setup \/ HandleEvent \/ EndOfInput \/ ReceiveInput \/ ReceiveTimeout
          \/ ReceiveDisconnected \/ ProcessInput \/ ProcessDeadline

Next == Worker \/ Tick \/ Submit \/ Close

\* The worker thread and the system clock go on; nobody has to submit.
Fairness == WF_vars(Worker) /\ WF_vars(Tick)

Spec == Init /\ [][Next]_vars /\ Fairness
-----------------------------------------------------------------------------
(* Properties *)

\* The verdicts of a source, by their places, and how many there were of them
\* with the i-th verdict.
From(source) == {i \in DOMAIN verdicts : verdicts[i].source = source}
Upto(source, i) == {j \in From(source) : j <= i}
Number(source, i) == Cardinality(Upto(source, i))

Raws == [i \in DOMAIN verdicts |-> verdicts[i].raw]

\* The absolute time that the time zero of the monitor stands for.
Zero == IF setup.start # {} THEN CHOOSE t \in setup.start : TRUE
        ELSE IF codec = "Epoch" THEN verdicts[Min(From("Event"))].raw ELSE Boot

\* The absolute time of the event that verdict i is for, from what its source
\* says: deltas add up, and a session without times counts steps.
TrueTime(i) ==
  CASE codec = "Relative"  -> Zero + verdicts[i].raw
    [] codec = "Delta"     -> Zero + SumFunctionOnSet(Raws, Upto("Event", i))
    [] codec = "FixedStep" -> Zero + Number("Event", i) * Step
    [] OTHER               -> verdicts[i].raw

\* A verdict carries the time of its event, whatever the codecs of input and
\* output: the same absolute time, or the time since the start that both use.
TimesAsGiven ==
  \A i \in From("Event") :
    verdicts[i].ts = IF setup.output = "Epoch" THEN TrueTime(i) ELSE TrueTime(i) - Zero

\* No deadline is reported before it is due by the wall clock, and each has
\* its own time, in order, however long inputs kept the worker busy.
TimedOnTime ==
  \A i \in From("Timed") :
    LET time == Number("Timed", i) * Period
    IN  /\ verdicts[i].ts = Encode(time, anchor)
        /\ setup.online => verdicts[i].raw >= Zero + time

\* The time the session has reached: of the last event, or of the clock.
Reached(t) ==
  IF setup.online THEN phase = "running" /\ Now >= t
  ELSE From("Event") # {} /\ TrueTime(Max(From("Event"))) - Zero >= t

\* A deadline that the session has reached is reported, at the latest at the
\* end of a recording, when the last timestamp is decoded once more.  Live
\* input may delay it, and shutting down gives it up.
DeadlinesAreMet ==
  \A k \in 1 .. MaxTime \div Period :
    Reached(k * Period) ~> (due > k * Period \/ phase = "panicked" \/ (setup.online /\ phase = "done"))
=============================================================================
