--------------------------- MODULE StationSurvey ----------------------------
(***************************************************************************)
(* How long before a train a station shows its track: the survey of        *)
(* track-fetcher (coverage.py, status_parse.py) reads the status document  *)
(* of every train-day again and again, keeps a snapshot per cycle, merges  *)
(* snapshots into a report, and the lead times of the report become the    *)
(* lookahead of each station in both containers (lead_time.rs and .py).    *)
(* A train-day has one stop here.                                          *)
(***************************************************************************)
EXTENDS Integers, Sequences, SequencesExt, FiniteSets, FiniteSetsExt

CONSTANTS
  None,
  Queue,          \* the train-days, in request order
  StationOf,      \* train-day -> station
  Pages,          \* train-day -> documents that Amtrak may show of it
  TrackNumbers,   \* what posted_track_number accepts
  Interval, Duration, MaxCycles,   \* --interval, --duration, --max-cycles
  Minute,         \* the rounding of _ceil_minute
  SurveyBefore, SurveyHot,         \* the defaults the survey compares with
  Globals,        \* what an operator may configure as the global windows
  MinBefore, MaxBefore, HotLead, ObservedCount,
  MaxFiles        \* bound: snapshots ever written

(* A document has an arrival and a departure, each None or a side whose    *)
(* times and track may be None.                                            *)
Sides == {"arrival", "departure"}

Time == Int \cup {None}
Side == [scheduled : Time, estimated : Time, track : TrackNumbers \cup {None},
         asOf : Time, canceled : BOOLEAN]
Document == [Sides -> Side \cup {None}]
Row == [train : Range(Queue), fetched : Nat, sides : Document]

(* The constants of status_parse.py, of which MAX_WINDOW_BEFORE_SECS is    *)
(* twelve hours and the survey's defaults are those of a Config() without  *)
(* an environment; what config.py reads from it; the options of coverage.  *)
SurveyConstants ==
  /\ None \notin Int /\ None \notin Side /\ None \notin TrackNumbers
  /\ Queue \in Seq(Range(Queue)) /\ Pages \in [Range(Queue) -> SUBSET Document]
  /\ Interval \in Nat /\ Duration \in Nat
  /\ MaxCycles \in Nat /\ MaxFiles \in Nat
  /\ Minute \in Nat \ {0} /\ HotLead \in Nat
  /\ SurveyBefore \in Nat /\ SurveyHot \in Nat
  /\ Globals \subseteq [before : Nat, hot : Nat]
  /\ MinBefore \in Nat /\ MaxBefore \in Nat /\ ObservedCount \in Nat
  /\ MinBefore <= MaxBefore /\ SurveyBefore < MaxBefore

Surveyed == {StationOf[t] : t \in Range(Queue)}

VARIABLES
  now,
  phase,      \* "idle", or what watch_command does next
  deadline, cycle, began,
  left,       \* fetch_jobs: the queue that is left
  rows,       \* fetch_jobs: result["stops"]
  aborted,
  files,      \* the snapshots, in the order they were written
  first,      \* the first snapshot of this watch
  report      \* the last merged report, with the steps it was merged in

vars == <<now, phase, deadline, cycle, began, left, rows, aborted, files,
          first, report>>

NoReport == [rows |-> {}, parts |-> << >>]

TypeOK ==
  /\ now \in Nat /\ deadline \in Nat /\ began \in 0 .. now
  /\ phase \in {"idle", "watch", "fetch", "merge"}
  /\ cycle \in 0 .. MaxCycles
  /\ \A i \in DOMAIN left : left[i] \in Range(Queue)
  /\ rows \subseteq Row /\ \A r \in rows : r.fetched <= now
  /\ aborted \in BOOLEAN
  /\ Len(files) <= MaxFiles /\ first \in 1 .. Len(files) + 1
  /\ UNION Range(report.parts) \subseteq DOMAIN files

Init ==
  /\ now = 1 /\ phase = "idle" /\ deadline = 0 /\ cycle = 0 /\ began = 0
  /\ left = << >> /\ rows = {} /\ aborted = FALSE
  /\ files = << >> /\ first = 1 /\ report = NoReport

-----------------------------------------------------------------------------
(* Stop rows                                                               *)

(* compose_stop and _side_lead: when a side showed its track first, ahead  *)
(* of the event; None without a track, a stamp or a time.                  *)
Clock(side) == IF side.estimated # None THEN side.estimated ELSE side.scheduled

SideLead(side) ==
  IF None \in {side.track, side.asOf, Clock(side)} THEN None
  ELSE Clock(side) - side.asOf

Present(row) == {n \in Sides : row.sides[n] # None}
Posted(row) == {n \in Present(row) : row.sides[n].track # None}

Canceled(row) ==
  Present(row) # {} /\ \A n \in Present(row) : row.sides[n].canceled

(* lead_time_secs: of the side posted earlier, the greater lead.           *)
RowLead(row) ==
  LET leads == {SideLead(row.sides[n]) : n \in Posted(row)} \ {None}
  IN  IF leads = {} THEN None ELSE Max(leads)

(* chosen_lead_time_secs: of the side the fetcher publishes.               *)
ChosenLead(row) ==
  IF "departure" \in Posted(row) THEN SideLead(row.sides["departure"])
  ELSE IF "arrival" \in Posted(row) THEN SideLead(row.sides["arrival"])
  ELSE None

-----------------------------------------------------------------------------
(* merge_stop_rows: the rows of one train-day, each with the number of its *)
(* file, in the order they were fetched; those fetched at the same time    *)
(* keep the order of their files.                                          *)
Older(x, y) ==
  \/ x[2].fetched < y[2].fetched
  \/ x[2].fetched = y[2].fetched /\ x[1] < y[1]

Newest(bucket) == (CHOOSE x \in bucket : \A y \in bucket \ {x} : Older(y, x))[2]

Naming(bucket, n, track) ==
  {x \in bucket : x[2].sides[n] # None /\ x[2].sides[n].track = track}

(* Mutant: the stamp is that of the last poll that showed the track.       *)
EarliestAsOfRepeated(bucket, n, track) ==
  Newest(Naming(bucket, n, track)).sides[n].asOf

(* _earliest_as_of.                                                        *)
EarliestAsOf(bucket, n, track) ==
  LET stamps == {x[2].sides[n].asOf : x \in Naming(bucket, n, track)} \ {None}
  IN  IF stamps = {} THEN None ELSE Min(stamps)

NoSide == [scheduled |-> None, estimated |-> None, track |-> None,
           asOf |-> None, canceled |-> FALSE]

(* _merge_side: the times of the last document, the track of the last that *)
(* had one; a side the last document lacks has no times.                   *)
MergeSide(bucket, n) ==
  LET showing == {x \in bucket : n \in Posted(x[2])}
      last == IF Newest(bucket).sides[n] = None THEN NoSide
              ELSE Newest(bucket).sides[n]
      track == Newest(showing).sides[n].track
  IN  IF \A x \in bucket : x[2].sides[n] = None THEN None
      ELSE IF showing = {} THEN [last EXCEPT !.track = None, !.asOf = None]
      ELSE [last EXCEPT !.track = track,
                        !.asOf = EarliestAsOf(bucket, n, track)]

(* _merge_bucket.                                                          *)
MergeBucket(bucket) ==
  [train |-> Newest(bucket).train, fetched |-> Newest(bucket).fetched,
   sides |-> [n \in Sides |-> MergeSide(bucket, n)]]

(* Groups of rows, numbered in the order of the paths.                     *)
MergeStopRows(groups) ==
  LET seen == UNION Range(groups)
      Bucket(t) == {x \in (DOMAIN groups) \X seen :
                      x[2] \in groups[x[1]] /\ x[2].train = t}
  IN  {MergeBucket(Bucket(t)) : t \in {r.train : r \in seen}}

-----------------------------------------------------------------------------
(* The profile of a report, by station, and what the containers adopt.     *)

Live(stops, s) == {r \in stops : StationOf[r.train] = s /\ ~Canceled(r)}
WithTrack(stops, s) == {r \in Live(stops, s) : Posted(r) # {}}

(* Mutant: the leads of the side that is published.                        *)
LeadsChosen(stops, s) ==
  {<<r.train, ChosenLead(r)>> : r \in
     {x \in WithTrack(stops, s) : ChosenLead(x) # None}}

(* The leads of a station, one per train-day.                              *)
Leads(stops, s) ==
  {<<r.train, RowLead(r)>> : r \in
     {x \in WithTrack(stops, s) : RowLead(x) # None}}

CeilMinute(secs) ==
  IF secs <= 0 THEN 0 ELSE ((secs + Minute - 1) \div Minute) * Minute

(* suggested_window_before: a tenth more, at least a minute.               *)
SuggestedBefore(lead) ==
  IF lead <= 0 THEN None
  ELSE LET wanted == CeilMinute(lead + Max({Minute, (lead + 9) \div 10}))
       IN  Max({MinBefore, Min({MaxBefore, wanted})})

(* median_seconds: halves go away from zero.  Of the leads in order, the   *)
(* k-th.                                                                   *)
Ranked(leads, k) ==
  CHOOSE v \in {l[2] : l \in leads} :
    /\ Cardinality({l \in leads : l[2] < v}) < k
    /\ k <= Cardinality({l \in leads : l[2] <= v})

Median(leads) ==
  LET n == Cardinality(leads)
      sum == Ranked(leads, n \div 2) + Ranked(leads, n \div 2 + 1)
  IN  IF n % 2 = 1 THEN Ranked(leads, n \div 2 + 1)
      ELSE IF sum % 2 = 1 /\ sum > 0 THEN sum \div 2 + 1 ELSE sum \div 2

(* suggested_hot_window.                                                   *)
SuggestedHot(leads) ==
  IF leads = {} THEN None
  ELSE IF Median(leads) <= HotLead
    THEN Max({SurveyHot, CeilMinute(Max({Median(leads), 0}))})
    ELSE SurveyHot

(* _station_summary.                                                       *)
Summary(stops, s) ==
  LET leads == Leads(stops, s)
      before == IF leads = {} THEN None
                ELSE SuggestedBefore(Max({l[2] : l \in leads}))
  IN  [confidence |-> CASE Live(stops, s) = {} -> "none"
                        [] WithTrack(stops, s) = {} -> "no_track"
                        [] Cardinality(leads) < ObservedCount -> "sparse"
                        [] OTHER -> "observed",
       compared |-> IF before = None THEN "unknown"
                    ELSE IF before > SurveyBefore THEN "wider" ELSE "covered",
       before |-> before,
       hot |-> SuggestedHot(LeadsChosen(stops, s))]

(* adopt and _adopt, window_for, before_secs and hot_secs, given the       *)
(* configured globals: they need not be the defaults of the survey.        *)
WindowFor(row, global) ==
  IF row.confidence = "observed" /\ row.compared = "wider" /\ row.before # None
    THEN [before |-> row.before,
          hot |-> IF row.hot = None THEN global.hot ELSE row.hot]
    ELSE global

-----------------------------------------------------------------------------
(* watch_command                                                           *)

StartWatch ==
  /\ phase = "idle" /\ Len(files) < MaxFiles                \* bound MaxFiles
  /\ phase' = "watch" /\ deadline' = now + Duration /\ cycle' = 0
  /\ first' = Len(files) + 1
  /\ UNCHANGED <<now, began, left, rows, aborted, files, report>>

StartCycle ==
  /\ phase = "watch" /\ cycle < MaxCycles /\ now < deadline
  /\ Len(files) < MaxFiles                                  \* bound MaxFiles
  /\ phase' = "fetch" /\ cycle' = cycle + 1 /\ began' = now
  /\ left' = Queue /\ rows' = {} /\ aborted' = FALSE
  /\ UNCHANGED <<now, deadline, files, first, report>>

(* The list of trains cannot be read: no snapshot, and no further cycle.   *)
ListFails ==
  /\ phase = "watch" /\ cycle < MaxCycles /\ now < deadline
  /\ phase' = "merge" /\ cycle' = cycle + 1
  /\ UNCHANGED <<now, deadline, began, left, rows, aborted, files, first,
                 report>>

LoopEnds ==
  /\ phase = "watch"
  /\ cycle = MaxCycles \/ now >= deadline \/ Len(files) = MaxFiles
  /\ phase' = "merge"
  /\ UNCHANGED <<now, deadline, cycle, began, left, rows, aborted, files,
                 first, report>>

(* fetch_jobs: a request, after the delay.                                 *)
Request ==
  /\ phase = "fetch" /\ left # << >>
  /\ now' = now + 1
  /\ UNCHANGED <<phase, deadline, cycle, began, files, first, report>>

Read ==
  /\ Request
  /\ \E page \in Pages[Head(left)] :
       /\ \A n \in Sides : page[n] # None /\ page[n].asOf # None
                             => page[n].asOf <= now
       /\ rows' = rows \cup
            {[train |-> Head(left), fetched |-> now, sides |-> page]}
  /\ left' = Tail(left) /\ UNCHANGED aborted

Miss ==
  /\ Request
  /\ left' = Tail(left) /\ UNCHANGED <<rows, aborted>>

(* A refusal, or a page that died: the queue ends, what was read stays.    *)
Refused ==
  /\ Request
  /\ left' = << >> /\ aborted' = TRUE /\ UNCHANGED rows

(* next_pause.                                                             *)
NextPause ==
  LET pause == Max({0, Interval - (now - began)})
  IN  IF now >= deadline \/ pause >= deadline - now THEN None ELSE pause

(* _execute writes the snapshot, also of an aborted run; then the pause.   *)
EndCycle ==
  /\ phase = "fetch" /\ left = << >>
  /\ files' = Append(files, rows)
  /\ IF aborted \/ NextPause = None
       THEN phase' = "merge" /\ UNCHANGED now
       ELSE phase' = "watch" /\ now' = now + NextPause
  /\ UNCHANGED <<deadline, cycle, began, left, rows, aborted, first, report>>

(* The watch merges its own snapshots.                                     *)
MergeWatch ==
  /\ phase = "merge" /\ phase' = "idle"
  /\ LET mine == first .. Len(files)
     IN  report' = IF mine = {} THEN report
                   ELSE [rows |-> MergeStopRows([i \in mine |-> files[i]]),
                         parts |-> <<mine>>]
  /\ UNCHANGED <<now, deadline, cycle, began, left, rows, aborted, files,
                 first>>

(* merge_command: snapshots the user names, and the report before or after *)
(* them or not at all.                                                     *)
MergeCommand ==
  /\ phase = "idle"
  /\ \E chosen \in SUBSET DOMAIN files \ {{}},
        place \in {{}, {0}, {Len(files) + 1}} :
       /\ place # {} => report # NoReport
       /\ report' =
            [rows |-> MergeStopRows([i \in chosen \cup place |->
                        IF i \in chosen THEN files[i] ELSE report.rows]),
             parts |-> IF place = {} THEN <<chosen>>
                       ELSE Append(report.parts, chosen)]
  /\ Len(report'.parts) <= 2                               \* bound: two steps
  /\ UNCHANGED <<now, phase, deadline, cycle, began, left, rows, aborted,
                 files, first>>

Next ==
  \/ StartWatch \/ StartCycle \/ ListFails \/ LoopEnds
  \/ Read \/ Miss \/ Refused \/ EndCycle \/ MergeWatch \/ MergeCommand

Spec == Init /\ [][Next]_vars

-----------------------------------------------------------------------------
(* Every row that went into the report, and those of a train-day whose     *)
(* side showed a track.                                                    *)
Covered == UNION {files[i] : i \in UNION Range(report.parts)}
Showing(t, n) == {r \in Covered : r.train = t /\ n \in Posted(r)}

(* Later steps only added later snapshots.                                 *)
InOrder ==
  \A i, j \in DOMAIN report.parts : i < j =>
    \A a \in report.parts[i], b \in report.parts[j] : a < b

(* Amtrak went from one number to another and back.                        *)
Wavered(t, n) ==
  \E a, b, c \in Showing(t, n) :
    /\ a.fetched < b.fetched /\ b.fetched < c.fetched
    /\ a.sides[n].track = c.sides[n].track
    /\ a.sides[n].track # b.sides[n].track

(* The report says of every stop what its snapshots say together, whatever *)
(* was missed, refused or cleared meanwhile, and in whatever order it was  *)
(* put together: the track of the newest that showed one, and the earliest *)
(* stamp of that number (merge_stop_rows).  A report that is merged again  *)
(* with later snapshots says the same unless Amtrak went back to an        *)
(* earlier number, whose first stamp the earlier report no longer has.     *)
MergedExact ==
  \A m \in report.rows : \A n \in Sides :
    LET shown == Showing(m.train, n)
        newest == CHOOSE r \in shown : \A x \in shown : x.fetched <= r.fetched
        stamps == {r.sides[n].asOf : r \in
                     {x \in shown : x.sides[n].track = newest.sides[n].track}}
    IN  /\ InOrder
        => IF shown = {} THEN n \notin Posted(m)
           ELSE /\ m.sides[n] # None
                /\ m.sides[n].track = newest.sides[n].track
                /\ \/ Len(report.parts) > 1 /\ Wavered(m.train, n)
                   \/ m.sides[n].asOf = (IF stamps \subseteq {None} THEN None
                                         ELSE Min(stamps \ {None}))

(* A station that the profile calls observed is looked at early enough: at *)
(* every stop that was surveyed, and whichever side showed the track       *)
(* first, the lookahead in use reaches back to that moment, unless that is *)
(* more than MaxBefore.  One station is left out: where a global lookahead *)
(* below the survey's default stays in use, since the survey called the    *)
(* station covered by its own default.  And a profile shortens a           *)
(* configured lookahead only to more than that default, and a configured   *)
(* hot window to no less than the survey's (lead_time: "A station marked   *)
(* covered is not narrowed").                                              *)
WindowCovers ==
  \A s \in Surveyed, global \in Globals :
    LET row == Summary(report.rows, s)
        window == WindowFor(row, global)
    IN  /\ window.before < global.before => window.before > SurveyBefore
        /\ window.hot < global.hot => window.hot >= SurveyHot
        /\ row.confidence = "observed" =>
             \A r \in Live(report.rows, s) : \A n \in Posted(r) :
               \/ SideLead(r.sides[n]) = None
               \/ SideLead(r.sides[n]) <= window.before
               \/ window.before = MaxBefore
               \/ /\ window = global /\ global.before < SurveyBefore
                  /\ SideLead(r.sides[n]) <= SurveyBefore

=============================================================================
