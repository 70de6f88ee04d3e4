---------------------------- MODULE FleetCohort ----------------------------
(***************************************************************************)
(* The three-container service.  VehiclePositions polls the fleet, writes  *)
(* each poll to the shared volume (write_fleet), and assembles and         *)
(* publishes the poll that fleet/CURRENT names once both siblings have     *)
(* contributed to it (assemble_forever).  TripUpdates and Alerts each read *)
(* the current fleet and write their decorated protobuf beside it          *)
(* (run_trip_updates, run_alerts).  Every process can restart on its own.  *)
(*                                                                         *)
(* Files of one fleet are told apart by the poll they come from, so that   *)
(* an id used twice can be told from the fleet it named first.  Polls are  *)
(* numbered from 1; a record with poll 0 stands for nothing.  Publication  *)
(* into the generation store is one step here (see GenerationStore), and   *)
(* accepting a schedule too (see RefreshPipeline).                         *)
(***************************************************************************)
EXTENDS Naturals, FiniteSets

CONSTANTS
  MaxSchedule, \* bound: the last upstream schedule
  MaxPolls,    \* bound: polls with the active schedule, unless one is cut short
  MaxFaults,   \* bound: faults
  Faults       \* the faults that may happen

FaultKinds ==
  {"crash", "clock", "source", "write", "store", "late", "restart", "contribute"}

ASSUME FleetAssumption ==
  /\ MaxSchedule \in Nat /\ MaxPolls \in Nat /\ MaxFaults \in Nat
  /\ Faults \subseteq FaultKinds

Decorators == {"trip-updates.pb", "alerts.pb"}

(* "<seconds>-<counter>"; the counter of a process starts at 1, so the     *)
(* second counter 0 stands for an empty marker.                            *)
Id == [second : Nat, counter : Nat]
NoId == [second |-> 0, counter |-> 0]

(* A combined schedule, and whether the official ZIP stored with it is the *)
(* download.                                                               *)
Snapshot == [schedule : 0 .. MaxSchedule, official : BOOLEAN]
None == [none |-> TRUE]

Fleet == [id : Id, poll : Nat, snapshot : Snapshot]
Contribution == [id : Id, poll : Nat, name : Decorators]
Generation ==
  [id : Id, poll : Nat, snapshot : Snapshot, parts : [Decorators -> Nat]]

NoSnapshot == [schedule |-> 0, official |-> FALSE]
NoFleet == [id |-> NoId, poll |-> 0, snapshot |-> NoSnapshot]
NoGeneration ==
  [id |-> NoId, poll |-> 0, snapshot |-> NoSnapshot,
   parts |-> [d \in Decorators |-> 0]]
NoWork(d) == [id |-> NoId, poll |-> 0, name |-> d]

VARIABLES
  upstream,                        \* the schedule's server
  fleets, current, contributions,  \* the volume: fleet/, fleet/CURRENT, contrib/
  published,                       \* the current generation of the store
  up, clock, counter,              \* VehiclePositions: its life and its ids
  active, pending,                 \* StaticSnapshotState
  poll, candidate, wasPending, fleet, \* run_poller and FleetCommitter
  assembled, assembly,             \* assemble_forever
  seen, work,                      \* run_trip_updates, run_alerts
  polls, faults, routine           \* counts; polls with the active schedule

volume == <<fleets, current, contributions>>
process == <<up, clock, counter>>
snapshots == <<active, pending>>
poller == <<poll, candidate, wasPending, fleet>>
assembler == <<assembled, assembly>>
decorators == <<seen, work>>
bounds == <<faults, routine>>
vars == <<upstream, volume, published, process, snapshots, poller, assembler,
          decorators, polls, bounds>>

VolumeTyped ==
  /\ upstream \in 0 .. MaxSchedule
  /\ fleets \subseteq Fleet /\ current \in Id
  /\ contributions \subseteq Contribution
  /\ published \in Generation

ProcessTyped ==
  /\ up \in BOOLEAN /\ clock \in Nat /\ counter \in Nat \ {0}
  /\ active \in IF up THEN Snapshot ELSE {None}
  /\ pending \in Snapshot \cup {None}

PollerTyped ==
  /\ poll \in IF up THEN {"idle", "build", "rename", "truncate", "point",
                          "promote"}
                    ELSE {"idle"}
  /\ candidate \in IF poll = "idle" THEN {None} ELSE Snapshot
  /\ wasPending \in BOOLEAN
  /\ fleet \in Fleet
  /\ poll \notin {"idle", "build"} => fleet.poll # 0 /\ fleet.id # NoId
  /\ polls \in Nat /\ faults \in Nat /\ routine \in Nat

CohortTyped ==
  /\ assembled \in Id /\ assembly \in Generation
  /\ seen \in [Decorators -> Id] /\ work \in [Decorators -> Contribution]

TypeOK == VolumeTyped /\ ProcessTyped /\ PollerTyped /\ CohortTyped

Init ==
  /\ upstream = 0
  /\ fleets = {} /\ current = NoId /\ contributions = {}
  /\ published = NoGeneration
  /\ up = FALSE /\ clock = 0 /\ counter = 1
  /\ active = None /\ pending = None
  /\ poll = "idle" /\ candidate = None /\ wasPending = FALSE /\ fleet = NoFleet
  /\ assembled = NoId /\ assembly = NoGeneration
  /\ seen = [d \in Decorators |-> NoId]
  /\ work = [d \in Decorators |-> NoWork(d)]
  /\ polls = 0 /\ faults = 0 /\ routine = 0

Fault(kind) ==
  /\ kind \in Faults
  /\ faults < MaxFaults                                    \* bound MaxFaults
  /\ faults' = faults + 1

----------------------------------------------------------------------------
(* Lives of VehiclePositions                                               *)

(* recover_static keeps the retained ZIP as its own official ZIP; or, with *)
(* an empty store, bootstrap_static downloads both.                        *)
Recovered ==
  IF published # NoGeneration
    THEN [published.snapshot EXCEPT !.official = FALSE]
    ELSE [schedule |-> upstream, official |-> TRUE]

(* Mutant: the counter starts at 0.                                        *)
StartAtZero ==
  /\ ~up
  /\ up' = TRUE
  /\ counter' = 0
  /\ clock' = clock + 1
  /\ active' = Recovered
  /\ assembled' = NoId
  /\ UNCHANGED <<upstream, volume, published, pending, poller, assembly,
                 decorators, polls, bounds>>

(* Loading the store and parsing the schedule takes more than a second, so *)
(* the clock has moved on, unless it was set back meanwhile.               *)
Start ==
  /\ ~up
  /\ up' = TRUE
  /\ counter' = 1
  /\ \/ clock' = clock + 1 /\ UNCHANGED bounds
     \/ clock' \in 1 .. clock /\ Fault("clock") /\ UNCHANGED routine
  /\ active' = Recovered
  /\ assembled' = NoId
  /\ UNCHANGED <<upstream, volume, published, pending, poller, assembly,
                 decorators, polls>>

Crash ==
  /\ up /\ Fault("crash")
  /\ routine' = 0
  /\ up' = FALSE
  /\ active' = None /\ pending' = None
  /\ poll' = "idle" /\ candidate' = None /\ wasPending' = FALSE
  /\ fleet' = NoFleet
  /\ assembled' = NoId /\ assembly' = NoGeneration
  /\ UNCHANGED <<upstream, volume, published, clock, counter, decorators, polls>>

----------------------------------------------------------------------------
(* The schedule                                                            *)

NewSchedule ==
  /\ upstream < MaxSchedule                              \* bound MaxSchedule
  /\ upstream' = upstream + 1
  /\ UNCHANGED <<volume, published, process, snapshots, poller, assembler,
                 decorators, polls, bounds>>

(* refresh_snapshot_once stages a ZIP that differs from the one pending, or *)
(* else from the active one; only the combined ZIPs are compared.          *)
StageSchedule ==
  /\ up
  /\ upstream # (IF pending # None THEN pending ELSE active).schedule
  /\ pending' = [schedule |-> upstream, official |-> TRUE]
  /\ UNCHANGED <<upstream, volume, published, process, active, poller,
                 assembler, decorators, polls, bounds>>

----------------------------------------------------------------------------
(* run_poller with the FleetCommitter                                      *)

Candidate ==
  /\ up /\ poll = "idle"
  /\ IF pending # None
       THEN routine' = routine
       ELSE routine < MaxPolls /\ routine' = routine + 1    \* bound MaxPolls
  /\ candidate' = IF pending # None THEN pending ELSE active
  /\ wasPending' = (pending # None)
  /\ poll' = "build"
  /\ UNCHANGED <<upstream, volume, published, process, snapshots, fleet,
                 assembler, decorators, polls, faults>>

Idle ==
  /\ poll' = "idle" /\ candidate' = None /\ wasPending' = FALSE
  /\ fleet' = NoFleet

(* No source answers, or what it answers is invalid or empty.              *)
PollFails ==
  /\ poll = "build" /\ Fault("source")
  /\ routine' = 0
  /\ Idle
  /\ UNCHANGED <<upstream, volume, published, process, snapshots, assembler,
                 decorators, polls>>

(* Mutant: the counter is read, not taken.                                 *)
MintAgain ==
  /\ poll = "build"
  /\ polls' = polls + 1
  /\ LET id == [second |-> clock, counter |-> counter] IN
       /\ fleet' = [id |-> id, poll |-> polls + 1, snapshot |-> candidate]
       /\ fleets' = {f \in fleets : f.id # id}
  /\ poll' = "rename"
  /\ UNCHANGED <<upstream, current, contributions, published, process,
                 snapshots, candidate, wasPending, assembler, decorators,
                 bounds>>

(* An id is taken, all files are written to a temporary directory, and a   *)
(* directory that already has the id is removed.                           *)
MintFleet ==
  /\ poll = "build"
  /\ polls' = polls + 1
  /\ counter' = counter + 1
  /\ LET id == [second |-> clock, counter |-> counter] IN
       /\ fleet' = [id |-> id, poll |-> polls + 1, snapshot |-> candidate]
       /\ fleets' = {f \in fleets : f.id # id}
  /\ poll' = "rename"
  /\ UNCHANGED <<upstream, current, contributions, published, up, clock,
                 snapshots, candidate, wasPending, assembler, decorators,
                 bounds>>

(* Mutant: a failed rename is ignored.                                     *)
RenameUnchecked ==
  /\ poll = "rename"
  /\ fleets' \in {fleets, fleets \cup {fleet}}
  /\ poll' = "truncate"
  /\ UNCHANGED <<upstream, current, contributions, published, process,
                 snapshots, candidate, wasPending, fleet, assembler,
                 decorators, polls, bounds>>

RenameFleet ==
  /\ poll = "rename"
  /\ fleets' = fleets \cup {fleet}
  /\ poll' = "truncate"
  /\ UNCHANGED <<upstream, current, contributions, published, process,
                 snapshots, candidate, wasPending, fleet, assembler,
                 decorators, polls, bounds>>

(* fleet/CURRENT is written in place: File::create, write_all, sync_all.   *)
TruncateMarker ==
  /\ poll = "truncate"
  /\ current' = NoId
  /\ poll' = "point"
  /\ UNCHANGED <<upstream, fleets, contributions, published, process,
                 snapshots, candidate, wasPending, fleet, assembler,
                 decorators, polls, bounds>>

PointMarker ==
  /\ poll = "point"
  /\ current' = fleet.id
  /\ IF wasPending
       THEN poll' = "promote" /\ UNCHANGED <<candidate, wasPending, fleet>>
       ELSE Idle
  /\ UNCHANGED <<upstream, fleets, contributions, published, process,
                 snapshots, assembler, decorators, polls, bounds>>

(* A step of write_fleet fails; the last sync may fail after the write.    *)
WriteFleetFails ==
  /\ poll \in {"rename", "truncate", "point"} /\ Fault("write")
  /\ routine' = 0
  /\ current' \in {current} \cup (IF poll = "point" THEN {fleet.id} ELSE {})
  /\ Idle
  /\ UNCHANGED <<upstream, fleets, contributions, published, process,
                 snapshots, assembler, decorators, polls>>

(* refresh_generation_once promotes as soon as the fleet is written.       *)
Promote ==
  /\ poll = "promote"
  /\ active' = candidate
  /\ pending' = IF pending = candidate THEN None ELSE pending
  /\ Idle
  /\ UNCHANGED <<upstream, volume, published, process, assembler, decorators,
                 polls, bounds>>

----------------------------------------------------------------------------
(* run_trip_updates and run_alerts                                         *)

(* Mutant: the id counts as seen before its contribution is written.       *)
ReadFleetSeen(d) ==
  /\ work[d].poll = 0
  /\ current # NoId /\ current # seen[d]
  /\ \E f \in fleets :
       /\ f.id = current
       /\ work' = [work EXCEPT ![d] =
                     [id |-> f.id, poll |-> f.poll, name |-> d]]
  /\ seen' = [seen EXCEPT ![d] = current]
  /\ UNCHANGED <<upstream, volume, published, process, snapshots, poller,
                 assembler, polls, bounds>>

ReadFleet(d) ==
  /\ work[d].poll = 0
  /\ current # NoId /\ current # seen[d]
  /\ \E f \in fleets :
       /\ f.id = current
       /\ work' = [work EXCEPT ![d] =
                     [id |-> f.id, poll |-> f.poll, name |-> d]]
  /\ UNCHANGED <<upstream, volume, published, process, snapshots, poller,
                 assembler, seen, polls, bounds>>

Contribute(d) ==
  /\ work[d].poll # 0
  /\ contributions' =
       {c \in contributions : c.id # work[d].id \/ c.name # d} \cup {work[d]}
  /\ seen' = [seen EXCEPT ![d] = work[d].id]
  /\ work' = [work EXCEPT ![d] = NoWork(d)]
  /\ UNCHANGED <<upstream, fleets, current, published, process, snapshots,
                 poller, assembler, polls, bounds>>

ContributeFails(d) ==
  /\ work[d].poll # 0 /\ Fault("contribute")
  /\ work' = [work EXCEPT ![d] = NoWork(d)]
  /\ UNCHANGED <<upstream, volume, published, process, snapshots, poller,
                 assembler, seen, polls, routine>>

RestartDecorator(d) ==
  /\ Fault("restart")
  /\ seen' = [seen EXCEPT ![d] = NoId]
  /\ work' = [work EXCEPT ![d] = NoWork(d)]
  /\ UNCHANGED <<upstream, volume, published, process, snapshots, poller,
                 assembler, polls, routine>>

----------------------------------------------------------------------------
(* assemble_forever                                                        *)

(* contributions_ready, and the contributions assemble_one reads.          *)
(* Mutant: a contribution to any fleet counts.                             *)
ContributedAny(id, d) == {c \in contributions : c.name = d}

Contributed(id, d) == {c \in contributions : c.id = id /\ c.name = d}

(* Mutant: one contribution is enough.                                     *)
ReadyAny(id) == \E d \in Decorators : Contributed(id, d) # {}

Ready(id) == \A d \in Decorators : Contributed(id, d) # {}

(* The contribution, or what the fleet itself has.                         *)
Part(f, d) ==
  LET C == Contributed(f.id, d) IN
  IF C = {} THEN f.poll ELSE (CHOOSE c \in C : TRUE).poll

(* Anything else leaves the assembler waiting for another second.          *)
Assemble ==
  /\ up /\ assembly.poll = 0
  /\ current # NoId /\ current # assembled
  /\ Ready(current)
  /\ \E f \in fleets :
       /\ f.id = current
       /\ assembly' = [id |-> f.id, poll |-> f.poll, snapshot |-> f.snapshot,
                       parts |-> [d \in Decorators |-> Part(f, d)]]
  /\ UNCHANGED <<upstream, volume, published, process, snapshots, poller,
                 assembled, decorators, polls, bounds>>

PublishCohort ==
  /\ assembly.poll # 0
  /\ published' = assembly
  /\ assembled' = assembly.id
  /\ assembly' = NoGeneration
  /\ UNCHANGED <<upstream, volume, process, snapshots, poller, decorators,
                 polls, bounds>>

(* GenerationStore: an error before, or after, its commit.                 *)
PublishCohortFails ==
  /\ assembly.poll # 0
  /\ \/ published' = published /\ Fault("store")
     \/ published' = assembly /\ Fault("late")
  /\ assembly' = NoGeneration
  /\ UNCHANGED <<upstream, volume, process, snapshots, poller, assembled,
                 decorators, polls, routine>>

----------------------------------------------------------------------------

PollStep ==
  \/ Candidate \/ MintFleet \/ RenameFleet
  \/ TruncateMarker \/ PointMarker \/ Promote
DecoratorStep(d) == ReadFleet(d) \/ Contribute(d)
AssemblerStep == Assemble \/ PublishCohort

Next ==
  \/ Start \/ Crash
  \/ NewSchedule \/ StageSchedule
  \/ PollStep \/ PollFails \/ WriteFleetFails
  \/ \E d \in Decorators :
       DecoratorStep(d) \/ ContributeFails(d) \/ RestartDecorator(d)
  \/ AssemblerStep \/ PublishCohortFails

Spec == Init /\ [][Next]_vars

(* Docker restarts VehiclePositions, its tasks and its siblings keep       *)
(* running, and the interval of the schedule refresh keeps elapsing.       *)
FairSpec ==
  /\ Spec
  /\ WF_vars(Start) /\ WF_vars(StageSchedule) /\ WF_vars(PollStep)
  /\ WF_vars(AssemblerStep)
  /\ \A d \in Decorators : WF_vars(DecoratorStep(d))

----------------------------------------------------------------------------
(* Properties                                                              *)

(* The published vehicle positions, trip updates and alerts are of one     *)
(* poll: a contribution made for one fleet is never published with         *)
(* another, whatever restarts in between (contributions_ready).            *)
WholeCohort ==
  \A d \in Decorators : published.parts[d] = published.poll

(* fleet/CURRENT is empty or names a fleet that is completely written,     *)
(* wherever write_fleet stops (cohort: "writes one fleet snapshot          *)
(* atomically and points fleet/CURRENT at it").                            *)
MarkerComplete == current # NoId => \E f \in fleets : f.id = current

(* The cohort is a barrier for every poll, and readers never see an        *)
(* earlier poll again, also across restarts.                               *)
Barrier ==
  INSTANCE FeedBarrier WITH
    decorated <- {<<c.name, c.poll>> : c \in contributions},
    shown <- published.poll
BarrierSpec == Barrier!Spec

(* Once polls stop, the current fleet is what is published, with the       *)
(* latest schedule, whatever failed before (assemble_forever retries).     *)
CohortCatchesUp ==
  <>[](/\ published # NoGeneration
       /\ published.id = current
       /\ published.snapshot.schedule = upstream)

(* The official ZIP of every published generation is the download.         *)
OfficialServed == published # NoGeneration => published.snapshot.official

=============================================================================
