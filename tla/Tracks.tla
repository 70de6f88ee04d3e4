------------------------------- MODULE Tracks -------------------------------
(***************************************************************************)
(* The parts that bring tracks to the feeds, each by itself: the RailData  *)
(* token, the hint scheduler, the track fetcher, the assignment store and  *)
(* the station survey.  A behaviour moves one part; the others stay in     *)
(* their initial state, so that every property holds of every part.        *)
(***************************************************************************)
EXTENDS RailDataToken, Functions

CONSTANTS
  None,
  \* TrackScheduler; its Trains and Stations
  HintTrains, HintStations, Debounce, MinGap, MaxPerFlush, WritesFail,
  \* TrackFetcher; its MaxAge and MaxTime
  Trains, Stations, Stops, Before, HotWindow, After, Poll, Base, Cooldown,
  MaxFetches, Ttl, MaxStale, Liveness, BackoffMin, BackoffMax, BrowserAge,
  CycleTime, Faults, FetcherTime,
  \* TrackBoards; its Tracks, MaxAge and MaxTime
  Runs, Scheduled, BoardTracks, Listed, MaxDelay, Lead, Grace, RowAge,
  WindowBefore, WindowAfter, BoardsTime,
  \* StationSurvey
  Queue, StationOf, Pages, TrackNumbers, Interval, Duration, MaxCycles, Minute,
  SurveyBefore, SurveyHot, Globals, MinBefore, MaxBefore, HotLead, ObservedCount,
  MaxFiles

VARIABLES
  part,
  touch, stationTouch, gap, written, hintFile, quiet, waiting, early,
  fetcherNow, cycle, wake, elapsed, picks, picked, stored, lastFetched,
  documents, tracked, lastSuccess, lastCycle, failures, browser, attempted,
  refused, trouble,
  boardsNow, predicted, bundle, boards, named,
  surveyNow, phase, deadline, round, began, left, rows, aborted, files,
  first, report

schedulerVars == <<touch, stationTouch, gap, written, hintFile, quiet, waiting,
                   early>>
fetcherVars == <<fetcherNow, cycle, wake, elapsed, picks, picked, stored,
                 lastFetched, documents, tracked, lastSuccess, lastCycle,
                 failures, browser, attempted, refused, trouble>>
boardsVars == <<boardsNow, predicted, bundle, boards, named>>
surveyVars == <<surveyNow, phase, deadline, round, began, left, rows, aborted,
                files, first, report>>

-----------------------------------------------------------------------------
Scheduler == INSTANCE TrackScheduler WITH
  Trains <- HintTrains, Stations <- HintStations

Fetcher == INSTANCE TrackFetcher WITH
  now <- fetcherNow, MaxAge <- BrowserAge, MaxTime <- FetcherTime

Boards == INSTANCE TrackBoards WITH
  now <- boardsNow, documents <- bundle,
  Tracks <- BoardTracks, MaxAge <- RowAge, MaxTime <- BoardsTime

Survey == INSTANCE StationSurvey WITH
  now <- surveyNow, cycle <- round

ASSUME PartsAssumption ==
  /\ Scheduler!SchedulerConstants
  /\ Fetcher!FetcherConstants
  /\ Boards!BoardsConstants
  /\ Survey!SurveyConstants

-----------------------------------------------------------------------------
TracksInit ==
  /\ part \in {"token", "scheduler", "fetcher", "boards", "survey"}
  /\ Init /\ Scheduler!Init /\ Fetcher!Init /\ Boards!Init /\ Survey!Init

TokenStep ==
  /\ part = "token" /\ Next
  /\ UNCHANGED <<part, schedulerVars, fetcherVars, boardsVars, surveyVars>>

SchedulerStep ==
  /\ part = "scheduler" /\ Scheduler!Next
  /\ UNCHANGED <<part, vars, fetcherVars, boardsVars, surveyVars>>

FetcherStep ==
  /\ part = "fetcher" /\ Fetcher!Next
  /\ UNCHANGED <<part, vars, schedulerVars, boardsVars, surveyVars>>

BoardsStep ==
  /\ part = "boards" /\ Boards!Next
  /\ UNCHANGED <<part, vars, schedulerVars, fetcherVars, surveyVars>>

SurveyStep ==
  /\ part = "survey" /\ Survey!Next
  /\ UNCHANGED <<part, vars, schedulerVars, fetcherVars, boardsVars>>

TracksNext ==
  \/ TokenStep \/ SchedulerStep \/ FetcherStep \/ BoardsStep \/ SurveyStep

TracksSpec ==
  TracksInit /\ [][TracksNext]_<<part, vars, schedulerVars,
                                 fetcherVars, boardsVars, surveyVars>>

-----------------------------------------------------------------------------
(* Every part keeps its variables in their domains.                        *)
TypesOK ==
  /\ TypeOK /\ Scheduler!TypeOK /\ Fetcher!TypeOK /\ Boards!TypeOK
  /\ Survey!TypeOK

(* A train that a client named is released in time (see TrackScheduler).   *)
HintReleased == Scheduler!HintReleased

(* A train in its hot window is asked about (see TrackFetcher).            *)
HotAttempted == Fetcher!HotAttempted

(* A train is not asked about again within the cooldown (TrackFetcher).    *)
CooldownKept == Fetcher!CooldownKept

(* A stamped track is of the run it was shown for (see TrackBoards).       *)
RightRun == Boards!RightRun

(* A track stays up while its run is about to leave (see TrackBoards).     *)
StaysUp == Boards!StaysUp

(* A merged report says what its snapshots say (see StationSurvey).        *)
MergedExact == Survey!MergedExact

(* An adopted window reaches back far enough (see StationSurvey).          *)
WindowCovers == Survey!WindowCovers
=============================================================================
