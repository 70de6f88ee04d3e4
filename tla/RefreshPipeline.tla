-------------------------- MODULE RefreshPipeline --------------------------
(***************************************************************************)
(* The three tasks of the combined service that decide which static        *)
(* schedule is published: run_snapshot_refresh stages a validated          *)
(* schedule, run_poller publishes a generation with it and then promotes   *)
(* it, and run_board_refresher observes platform labels, which are added   *)
(* to the schedule and wake the refresh.  They share StaticSnapshotState   *)
(* (active, pending) and SharedPlatforms (observed, dirty, known, and the  *)
(* permit of a tokio Notify).                                              *)
(*                                                                         *)
(* A snapshot is the number of the upstream schedule it was made from,     *)
(* whether it was augmented with the configured labels, the observed       *)
(* labels it was augmented with, and the order in which it was accepted,   *)
(* which also stands for the identity that Arc::ptr_eq compares.           *)
(***************************************************************************)
EXTENDS Naturals

CONSTANTS
  Labels,      \* platform labels the boards can show and nobody configured
  Covered,     \* for each upstream schedule, the labels at its stations
  MaxSchedule, \* bound: the last upstream schedule
  MaxFaults,   \* bound: faults
  MaxAccepted, \* bound: snapshots accepted
  Worlds,      \* what may happen around the service: see World
  Preempted    \* whether a task may rest while another does a whole round

FaultKinds == {"crash", "fetch", "read", "persist", "poll", "late"}

(* Whether the interval of the refresh ever elapses, which faults may      *)
(* happen, and the bound on changes of what the boards show.               *)
World == [daily : BOOLEAN, faults : SUBSET FaultKinds, changes : Nat]

ASSUME RefreshAssumption ==
  /\ MaxSchedule \in Nat /\ MaxFaults \in Nat
  /\ MaxAccepted \in Nat
  /\ Covered \in [0 .. MaxSchedule -> SUBSET Labels]
  /\ Worlds \subseteq World
  /\ Preempted \in BOOLEAN

Schedules == 0 .. MaxSchedule
Snapshot ==
  [schedule : Schedules, augmented : BOOLEAN, labels : SUBSET Labels, id : Nat]
None == [none |-> TRUE]

VARIABLES
  upstream, shown, changes,          \* the schedule's server and the boards
  env,                               \* the world this behaviour is in
  observed, dirty, known, permit,    \* SharedPlatforms
  file,                              \* observed-platforms.txt
  active, pending,                   \* StaticSnapshotState
  published,                         \* the current generation's snapshot
  refresh, full, comparison, staged, \* run_snapshot_refresh
  poll, candidate, wasPending,       \* run_poller
  board, unread, contents,           \* run_board_refresher
  faults, accepted, newest           \* history: the last snapshot accepted,
                                     \* ever and by this process

world == <<upstream, shown, changes, env>>
platforms == <<observed, dirty, known, permit>>
snapshots == <<active, pending>>
refresher == <<refresh, full, comparison, staged>>
poller == <<poll, candidate, wasPending>>
boards == <<board, unread, contents>>
history == <<accepted, newest>>
vars == <<world, platforms, file, snapshots, published, refresher, poller,
          boards, faults, history>>

Up == refresh # "down"

TypeOK ==
  /\ upstream \in Schedules /\ shown \subseteq Labels /\ changes \in Nat
  /\ env \in Worlds
  /\ observed \subseteq Labels /\ known \subseteq Labels
  /\ dirty \in BOOLEAN /\ permit \in BOOLEAN
  /\ file \subseteq Labels
  /\ active \in IF Up THEN Snapshot ELSE {None}
  /\ pending \in Snapshot \cup {None} /\ published \in Snapshot \cup {None}
  /\ refresh \in {"down", "wait", "debounce", "reload", "compare", "fetch",
                  "stage", "stations"}
  /\ full \subseteq Labels
  /\ comparison \in IF refresh = "fetch" THEN Snapshot ELSE {None}
  /\ staged \in IF refresh = "stage" THEN Snapshot ELSE {None}
  /\ poll \in {"idle", "publish", "promote"}
  /\ candidate \in IF poll = "idle" THEN {None} ELSE Snapshot
  /\ wasPending \in BOOLEAN
  /\ board \in {"idle", "read", "save"}
  /\ unread \subseteq Labels /\ contents \subseteq Labels
  /\ faults \in Nat /\ accepted \in Nat /\ newest \in Nat

Init ==
  /\ upstream = 0 /\ shown = {} /\ changes = 0 /\ env \in Worlds
  /\ observed = {} /\ dirty = FALSE /\ known = {} /\ permit = FALSE
  /\ file = {}
  /\ active = None /\ pending = None /\ published = None
  /\ refresh = "down" /\ full = {} /\ comparison = None /\ staged = None
  /\ poll = "idle" /\ candidate = None /\ wasPending = FALSE
  /\ board = "idle" /\ unread = {} /\ contents = {}
  /\ faults = 0 /\ accepted = 0 /\ newest = 0

Fault(kind) ==
  /\ kind \in env.faults
  /\ faults < MaxFaults                                    \* bound MaxFaults
  /\ faults' = faults + 1

----------------------------------------------------------------------------
(* The outside world                                                       *)

NewSchedule ==
  /\ upstream < MaxSchedule                              \* bound MaxSchedule
  /\ upstream' = upstream + 1
  /\ UNCHANGED <<shown, changes, env, platforms, file, snapshots, published,
                 refresher, poller, boards, faults, history>>

(* A board starts or stops naming a track, or starts or stops answering.   *)
BoardChanges(l) ==
  /\ changes < env.changes                              \* bound env.changes
  /\ changes' = changes + 1
  /\ shown' = IF l \in shown THEN shown \ {l} ELSE shown \cup {l}
  /\ UNCHANGED <<upstream, env, platforms, file, snapshots, published,
                 refresher, poller, boards, faults, history>>

----------------------------------------------------------------------------
(* Fetching: fetch_static                                                  *)

(* Bytes of a snapshot: a label whose station the schedule lacks adds no   *)
(* stop.                                                                   *)
Zip(s) == <<s.schedule, s.augmented, s.labels \cap Covered[s.schedule]>>

(* The schedule augmented with all labels; or, rejected, with the          *)
(* configured ones alone; or, rejected again, as it came.                  *)
Built(S) ==
  [schedule : {upstream}, augmented : {TRUE}, labels : {S, {}},
   id : {accepted + 1}]
AsItCame ==
  [schedule |-> upstream, augmented |-> FALSE, labels |-> {}, id |-> accepted + 1]

FetchResult(S, s) ==
  /\ s \in Built(S) \cup {AsItCame}
  /\ IF s.augmented /\ s.labels = S THEN UNCHANGED faults ELSE Fault("fetch")

----------------------------------------------------------------------------
(* Startup of run_combined                                                 *)

(* matches_platforms: one of the two candidate tables.                     *)
Matches(s) == s.augmented /\ s.labels \in {file, {}}

(* SharedPlatforms::load and the first active snapshot.                    *)
Begin(s) ==
  /\ ~Up
  /\ observed' = file
  /\ active' = s /\ newest' = s.id
  /\ known' = Covered[s.schedule]
  /\ refresh' = IF Matches(s) THEN "wait" ELSE "reload"
  /\ UNCHANGED <<world, dirty, permit, file, pending, published, full,
                 comparison, staged, poller, boards>>

(* recover_static                                                          *)
Recover ==
  /\ published # None
  /\ Begin(published)
  /\ UNCHANGED <<faults, accepted>>

(* bootstrap_static                                                        *)
Bootstrap ==
  /\ published = None
  /\ \E s \in Built(file) \cup {AsItCame} : FetchResult(file, s) /\ Begin(s)
  /\ accepted' = accepted + 1

Crash ==
  /\ Up /\ Fault("crash")
  /\ refresh' = "down" /\ full' = {} /\ comparison' = None /\ staged' = None
  /\ poll' = "idle" /\ candidate' = None /\ wasPending' = FALSE
  /\ board' = "idle" /\ unread' = {} /\ contents' = {}
  /\ active' = None /\ pending' = None
  /\ observed' = {} /\ dirty' = FALSE /\ known' = {} /\ permit' = FALSE
  /\ newest' = 0
  /\ UNCHANGED <<world, file, published, accepted>>

----------------------------------------------------------------------------
(* run_snapshot_refresh                                                    *)

IntervalElapses ==
  /\ env.daily
  /\ refresh = "wait"
  /\ refresh' = "reload"
  /\ UNCHANGED <<world, platforms, file, snapshots, published, full,
                 comparison, staged, poller, boards, faults, history>>

Notified ==
  /\ refresh = "wait" /\ permit
  /\ permit' = FALSE
  /\ refresh' = "debounce"
  /\ UNCHANGED <<world, observed, dirty, known, file, snapshots, published,
                 full, comparison, staged, poller, boards, faults, history>>

Debounced ==
  /\ refresh = "debounce"
  /\ refresh' = "reload"
  /\ UNCHANGED <<world, platforms, file, snapshots, published, full,
                 comparison, staged, poller, boards, faults, history>>

(* reload_observed: the file, or nothing if it cannot be read, replaces    *)
(* what this process has observed.                                         *)
Reload ==
  /\ refresh = "reload"
  /\ Preempted \/ board = "idle"
  /\ \/ observed' = file /\ UNCHANGED faults
     \/ observed' = {} /\ Fault("read")
  /\ permit' = (permit \/ observed' # observed)
  /\ refresh' = "compare"
  /\ UNCHANGED <<world, dirty, known, file, snapshots, published, full,
                 comparison, staged, poller, boards, history>>

(* refresh_snapshot_once picks what to compare with, then downloads.       *)
Compare ==
  /\ refresh = "compare"
  /\ full' = observed
  /\ comparison' = IF pending # None THEN pending ELSE active
  /\ refresh' = "fetch"
  /\ UNCHANGED <<world, platforms, file, snapshots, published, staged, poller,
                 boards, faults, history>>

Fetch ==
  /\ refresh = "fetch"
  /\ accepted < MaxAccepted                              \* bound MaxAccepted
  /\ \E s \in Built(full) \cup {AsItCame} :
       /\ FetchResult(full, s)
       /\ IF Zip(s) = Zip(comparison)
            THEN refresh' = "wait" /\ staged' = None
            ELSE refresh' = "stage" /\ staged' = s
  /\ full' = {} /\ comparison' = None
  /\ UNCHANGED <<world, platforms, file, snapshots, published, poller, boards,
                 history>>

(* Mutant: an error ends the task.                                         *)
FetchFailsAndEnds ==
  /\ refresh = "fetch" /\ Fault("fetch")
  /\ refresh' = "ended" /\ full' = {} /\ comparison' = None
  /\ UNCHANGED <<world, platforms, file, snapshots, published, staged, poller,
                 boards, history>>

(* Rejected: no download, or no version of it is valid.                    *)
FetchFails ==
  /\ refresh = "fetch" /\ Fault("fetch")
  /\ refresh' = "wait" /\ full' = {} /\ comparison' = None
  /\ UNCHANGED <<world, platforms, file, snapshots, published, staged, poller,
                 boards, history>>

Stage ==
  /\ refresh = "stage"
  /\ pending' = staged
  /\ accepted' = staged.id /\ newest' = staged.id
  /\ refresh' = "stations" /\ staged' = None
  /\ UNCHANGED <<world, platforms, file, active, published, full, comparison,
                 poller, boards, faults>>

(* set_known_stations, from whatever is pending now.                       *)
Stations ==
  /\ refresh = "stations"
  /\ known' = IF pending # None THEN Covered[pending.schedule] ELSE known
  /\ refresh' = "wait"
  /\ UNCHANGED <<world, observed, dirty, permit, file, snapshots, published,
                 full, comparison, staged, poller, boards, faults, history>>

----------------------------------------------------------------------------
(* run_poller: refresh_generation_once                                     *)

(* Mutant: only what is pending is published.                              *)
CandidatePendingOnly ==
  /\ Up /\ poll = "idle"
  /\ candidate' = pending
  /\ wasPending' = (pending # None)
  /\ poll' = "publish"
  /\ UNCHANGED <<world, platforms, file, snapshots, published, refresher,
                 boards, faults, history>>

Candidate ==
  /\ Up /\ poll = "idle"
  /\ candidate' = IF pending # None THEN pending ELSE active
  /\ wasPending' = (pending # None)
  /\ poll' = "publish"
  /\ UNCHANGED <<world, platforms, file, snapshots, published, refresher,
                 boards, faults, history>>

(* No source answers, the candidate is invalid or empty, or the store      *)
(* refuses it.                                                             *)
PollFails ==
  /\ poll = "publish" /\ Fault("poll")
  /\ poll' = "idle" /\ candidate' = None /\ wasPending' = FALSE
  /\ UNCHANGED <<world, platforms, file, snapshots, published, refresher,
                 boards, history>>

Publish ==
  /\ poll = "publish"
  /\ Preempted \/ refresh # "stations"
  /\ published' = candidate
  /\ IF wasPending
       THEN poll' = "promote" /\ UNCHANGED <<candidate, wasPending>>
       ELSE poll' = "idle" /\ candidate' = None /\ wasPending' = FALSE
  /\ UNCHANGED <<world, platforms, file, snapshots, refresher, boards, faults,
                 history>>

(* GenerationStore: the closing retention fails after the commit.          *)
PublishLateError ==
  /\ poll = "publish" /\ Fault("late")
  /\ published' = candidate
  /\ poll' = "idle" /\ candidate' = None /\ wasPending' = FALSE
  /\ UNCHANGED <<world, platforms, file, snapshots, refresher, boards,
                 history>>

(* Mutant: what is pending by now is promoted.                             *)
PromotePending ==
  /\ poll = "promote"
  /\ active' = pending
  /\ pending' = None
  /\ poll' = "idle" /\ candidate' = None /\ wasPending' = FALSE
  /\ UNCHANGED <<world, platforms, file, published, refresher, boards, faults,
                 history>>

(* Mutant: whatever is pending counts as published.                        *)
PromoteAndClear ==
  /\ poll = "promote"
  /\ active' = candidate
  /\ pending' = None
  /\ poll' = "idle" /\ candidate' = None /\ wasPending' = FALSE
  /\ UNCHANGED <<world, platforms, file, published, refresher, boards, faults,
                 history>>

(* Mutant: the committed snapshot does not become active.                  *)
PromoteNothing ==
  /\ poll = "promote"
  /\ active' = active
  /\ pending' = IF pending = candidate THEN None ELSE pending
  /\ poll' = "idle" /\ candidate' = None /\ wasPending' = FALSE
  /\ UNCHANGED <<world, platforms, file, published, refresher, boards, faults,
                 history>>

Promote ==
  /\ poll = "promote"
  /\ active' = candidate
  /\ pending' = IF pending = candidate THEN None ELSE pending
  /\ poll' = "idle" /\ candidate' = None /\ wasPending' = FALSE
  /\ UNCHANGED <<world, platforms, file, published, refresher, boards, faults,
                 history>>

----------------------------------------------------------------------------
(* run_board_refresher: refresh_once                                       *)

ReadBoards ==
  /\ Up /\ board = "idle"
  /\ board' = "read" /\ unread' = Labels
  /\ UNCHANGED <<world, platforms, file, snapshots, published, refresher,
                 poller, contents, faults, history>>

(* Mutant: nobody is notified.                                             *)
ObserveSilently(l) ==
  /\ board = "read" /\ l \in unread
  /\ unread' = unread \ {l}
  /\ IF l \in (shown \cap known) \ observed
       THEN observed' = observed \cup {l} /\ dirty' = TRUE
       ELSE UNCHANGED <<observed, dirty>>
  /\ UNCHANGED <<world, known, permit, file, snapshots, published, refresher,
                 poller, board, contents, faults, history>>

(* observe: a label that is new, at a known station.                       *)
Observe(l) ==
  /\ board = "read" /\ l \in unread
  /\ unread' = unread \ {l}
  /\ IF l \in (shown \cap known) \ observed
       THEN observed' = observed \cup {l} /\ dirty' = TRUE /\ permit' = TRUE
       ELSE UNCHANGED <<observed, dirty, permit>>
  /\ UNCHANGED <<world, known, file, snapshots, published, refresher, poller,
                 board, contents, faults, history>>

(* persist takes the contents under the lock and writes them outside it.   *)
Persist ==
  /\ board = "read" /\ unread = {}
  /\ IF dirty
       THEN board' = "save" /\ contents' = observed
       ELSE board' = "idle" /\ contents' = {}
  /\ dirty' = FALSE
  /\ UNCHANGED <<world, observed, known, permit, file, snapshots, published,
                 refresher, poller, unread, faults, history>>

Saved ==
  /\ board = "save"
  /\ file' = contents
  /\ board' = "idle" /\ contents' = {}
  /\ UNCHANGED <<world, platforms, snapshots, published, refresher, poller,
                 unread, faults, history>>

SaveFails ==
  /\ board = "save" /\ Fault("persist")
  /\ dirty' = TRUE
  /\ board' = "idle" /\ contents' = {}
  /\ UNCHANGED <<world, observed, known, permit, file, snapshots, published,
                 refresher, poller, unread, history>>

----------------------------------------------------------------------------

RefreshStep == Notified \/ Debounced \/ Compare \/ Fetch \/ Stage \/ Stations
PollStep == Candidate \/ Publish \/ Promote
BoardStep == ReadBoards \/ (\E l \in Labels : Observe(l)) \/ Persist \/ Saved

Next ==
  \/ NewSchedule \/ \E l \in Labels : BoardChanges(l)
  \/ Recover \/ Bootstrap \/ Crash
  \/ IntervalElapses \/ RefreshStep \/ Reload \/ FetchFails
  \/ PollStep \/ PollFails \/ PublishLateError
  \/ BoardStep \/ SaveFails

Spec == Init /\ [][Next]_vars

(* Every task keeps running, Docker restarts the process, and a reload     *)
(* finds a moment between two rounds of the boards.                        *)
FairSpec ==
  /\ Spec
  /\ WF_vars(Recover \/ Bootstrap) /\ WF_vars(IntervalElapses)
  /\ WF_vars(RefreshStep) /\ WF_vars(PollStep) /\ WF_vars(BoardStep)
  /\ SF_vars(Reload)

----------------------------------------------------------------------------
(* Properties                                                              *)

(* Static and realtime data are switched together: between publications    *)
(* the active snapshot is the one the published generation was built with, *)
(* whatever was staged meanwhile.  (StaticSnapshotState::active: "Returns  *)
(* the snapshot paired with the currently published generation".)          *)
ActivePaired ==
  Up /\ poll # "promote" /\ published # None => active = published

(* A snapshot accepted while another is being published is not lost: the   *)
(* newest accepted one is pending or active.  (promote_committed: "A newer *)
(* concurrently staged snapshot remains pending".)                         *)
NewestKept ==
  Up => newest = IF pending # None THEN pending.id ELSE active.id

(* Readers never go back to a schedule accepted earlier, also across       *)
(* restarts.                                                               *)
PublishedForward ==
  [][published # None => published' # None /\ published'.id >= published.id]_vars

(* The published schedule catches up with the upstream one, where the      *)
(* daily interval keeps elapsing.                                          *)
CatchesUp ==
  env.daily => <>[](published # None /\ published.schedule = upstream)

(* A label that the boards keep showing, at a station of the published     *)
(* schedule, becomes a platform stop of a published schedule.              *)
(* (run_snapshot_refresh: "a newly observed track also wakes this loop".)  *)
LabelPublished ==
  \A l \in Labels :
    <>[](l \in shown /\ published # None /\ l \in Covered[published.schedule])
      => <>[](published # None /\ l \in published.labels)

=============================================================================
