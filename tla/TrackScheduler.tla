--------------------------- MODULE TrackScheduler ---------------------------
(***************************************************************************)
(* Early track refreshes (schedule.rs): a request that names a train or a  *)
(* station leaves a hint; every second a flusher releases the hints that   *)
(* have been quiet for the debounce into tracks/early-refresh.json, which  *)
(* the track fetcher, another process, reads at each of its polls.  Time   *)
(* is counted in rounds of the flusher, ages up to the bound that matters. *)
(***************************************************************************)
EXTENDS Naturals, FiniteSets, Functions

CONSTANTS
  Trains,      \* trains 1..n, numbered in the string order of their numbers
  Stations,
  Debounce,    \* DEFAULT_DEBOUNCE, in rounds
  MinGap,      \* DEFAULT_MIN_GAP, in rounds
  MaxPerFlush, \* DEFAULT_MAX_PER_FLUSH
  WritesFail   \* whether the hint file may be impossible to write

(* To be assumed of the constants.                                          *)
SchedulerConstants ==
  /\ Trains \subseteq Nat /\ IsFiniteSet(Trains)
  /\ Debounce \in Nat /\ MinGap \in Nat /\ MaxPerFlush \in Nat \ {0}
  /\ WritesFail \in BOOLEAN

VARIABLES
  touch,         \* last_touch: the ages of the hints that are queued
  stationTouch,  \* station_touch
  gap,           \* last_refresh: the age of a train's last release
  written,       \* what the flusher is about to write, or NoHints
  hintFile,      \* early-refresh.json
  quiet,         \* for how many rounds each hint has been quiet
  waiting,       \* trains released that no poll has read since
  early          \* _early_train_numbers of the fetcher's last poll

vars == <<touch, stationTouch, gap, written, hintFile, quiet,
          waiting, early>>

Hints == [trains : SUBSET Trains, stations : SUBSET Stations]
NoHints == [trains |-> {}, stations |-> {}]

(* Rounds after which a quiet hint should have been released: the gap of   *)
(* its own train, then the trains before it, MaxPerFlush at a time.        *)
Patience == MinGap + (Cardinality(Trains) - 1) \div MaxPerFlush

TypeOK ==
  /\ DOMAIN touch \subseteq Trains
  /\ \A t \in DOMAIN touch : touch[t] \in 0 .. Debounce
  /\ DOMAIN stationTouch \subseteq Stations
  /\ \A s \in DOMAIN stationTouch : stationTouch[s] \in 0 .. Debounce
  /\ gap \in [Trains -> 0 .. MinGap]
  /\ quiet \in [Trains -> 0 .. Patience + 1]
  /\ written \in Hints /\ hintFile \in Hints
  /\ waiting \subseteq Trains /\ early \subseteq Trains

Empty == [t \in {} |-> 0]

Init ==
  /\ touch = Empty /\ stationTouch = Empty
  /\ gap = [t \in Trains |-> MinGap]
  /\ written = NoHints /\ hintFile = NoHints
  /\ quiet = [t \in Trains |-> 0]
  /\ waiting = {} /\ early = {}

(* Each request restarts the debounce.                                     *)
Touched(ages, x) ==
  [y \in DOMAIN ages \cup {x} |-> IF y = x THEN 0 ELSE ages[y]]

EnqueueTrain(t) ==
  /\ touch' = Touched(touch, t)
  /\ quiet' = [quiet EXCEPT ![t] = 0]
  /\ UNCHANGED <<stationTouch, gap, written, hintFile, waiting, early>>

EnqueueStation(s) ==
  /\ stationTouch' = Touched(stationTouch, s)
  /\ UNCHANGED <<touch, gap, written, hintFile, quiet, waiting, early>>

(* Ages after another round, up to a bound.                                *)
Aged(ages, bound) ==
  [x \in DOMAIN ages |-> IF ages[x] < bound THEN ages[x] + 1 ELSE bound]

More(rounds) == IF rounds <= Patience THEN rounds + 1 ELSE rounds

Quiet(ages) == {x \in DOMAIN ages : ages[x] = Debounce}

(* Mutant: no minimum gap.                                                 *)
ReadyUngapped(ages, gaps) == Quiet(ages)

Ready(ages, gaps) == {t \in Quiet(ages) : gaps[t] = MinGap}

(* The first MaxPerFlush of the trains that are ready.                     *)
First(ready) ==
  {t \in ready : Cardinality({u \in ready : u < t}) < MaxPerFlush}

(* One round: take_early and take_stations under the lock.  With nothing   *)
(* due the file stays as it is.                                            *)
Flush ==
  /\ written = NoHints
  /\ LET ages == Aged(touch, Debounce)
         gaps == Aged(gap, MinGap)
         stationAges == Aged(stationTouch, Debounce)
         due == [trains |-> First(Ready(ages, gaps)),
                 stations |-> Quiet(stationAges)]
     IN  /\ touch' = Restrict(ages, DOMAIN ages \ due.trains)
         /\ gap' = [t \in Trains |-> IF t \in due.trains THEN 0 ELSE gaps[t]]
         /\ stationTouch' =
              Restrict(stationAges, DOMAIN stationAges \ due.stations)
         /\ quiet' = [t \in Trains |-> IF t \in Quiet(ages) \ due.trains
                                       THEN More(quiet[t]) ELSE 0]
         /\ waiting' = waiting \cup due.trains
         /\ written' = due
         /\ hintFile' = IF due = NoHints THEN hintFile ELSE NoHints
  /\ UNCHANGED early

(* A write that fails is ignored.                                          *)
WriteHints ==
  /\ written # NoHints
  /\ hintFile' \in {written} \cup (IF WritesFail THEN {NoHints} ELSE {})
  /\ written' = NoHints
  /\ UNCHANGED <<touch, stationTouch, gap, quiet, waiting, early>>

(* A poll of the track fetcher reads the trains only; a file that does not *)
(* parse has none.                                                         *)
ReadHints ==
  /\ early' = hintFile.trains
  /\ waiting' = waiting \ hintFile.trains
  /\ UNCHANGED <<touch, stationTouch, gap, written, hintFile, quiet>>

Next ==
  \/ \E t \in Trains : EnqueueTrain(t)
  \/ \E s \in Stations : EnqueueStation(s)
  \/ Flush \/ WriteHints \/ ReadHints

(* The flusher runs every second and the fetcher polls every minute.       *)
Fairness == WF_vars(Flush) /\ WF_vars(WriteHints) /\ WF_vars(ReadHints)

Spec == Init /\ [][Next]_vars /\ Fairness

(* A quiet hint is released in time, or renewed by another request: the    *)
(* cap and the string order do not let the trains before it pass again and *)
(* again (take_early: "The rest stay queued"), because each of them has to *)
(* wait for the minimum gap.  To be read where MinGap * MaxPerFlush is not *)
(* less than the number of trains.                                         *)
HintReleased == \A t \in Trains : quiet[t] <= Patience

(* A released hint is read by a poll of the fetcher (design.md: "hot poll  *)
(* reads the file").                                                       *)
HintReachesPoll ==
  \A t \in Trains : (t \in waiting) ~> (t \notin waiting)

=============================================================================
