------------------------- MODULE FleetCohort_proofs -------------------------
(***************************************************************************)
(* Proofs about FleetCohort, for every bound and every fault, as long as   *)
(* the clock of a restarted process is not set back behind an id it gave   *)
(* out before.                                                             *)
(***************************************************************************)
EXTENDS FleetCohort, TLAPS

ClockKept == "clock" \notin Faults

(* The ids that have been given out: this life's counter and the clock of  *)
(* earlier lives bound them.                                               *)
Used(id) ==
  IF up
    THEN id.second < clock \/ (id.second = clock /\ id.counter < counter)
    ELSE id.second <= clock

(* An id names one fleet.                                                  *)
IdInv ==
  /\ \A f \in fleets : Used(f.id) /\ f.id # NoId /\ f.poll # 0 /\ f.poll <= polls
  /\ \A f, g \in fleets : f.id = g.id => f.poll = g.poll

(* The fleet being written is the newest, and its id is its own.           *)
WriteInv ==
  /\ poll = "rename" =>
       /\ fleet.poll = polls /\ Used(fleet.id)
       /\ \A f \in fleets : f.id # fleet.id
  /\ poll \in {"truncate", "point"} => fleet \in fleets /\ fleet.poll = polls

(* What was made from a fleet names it and carries its poll.               *)
Source(x) == \E f \in fleets : f.id = x.id /\ f.poll = x.poll
SourceInv ==
  /\ \A c \in contributions : Source(c)
  /\ \A d \in Decorators :
       work[d].name = d /\ (work[d].poll # 0 => Source(work[d]))
  /\ assembly.poll # 0 => Source(assembly)

(* Published, assembled and current polls are in order.                    *)
OrderInv ==
  /\ published.poll <= polls
  /\ assembly.poll # 0 => published.poll <= assembly.poll
  /\ \A f \in fleets :
       f.id = current => published.poll <= f.poll /\ assembly.poll <= f.poll

(* What is being published is one poll, decorated by everybody.            *)
AssemblyInv ==
  /\ \A d \in Decorators : assembly.parts[d] = assembly.poll
  /\ assembly.poll # 0 =>
       \A d \in Decorators :
         \E c \in contributions : c.name = d /\ c.poll = assembly.poll

FleetInv == TypeOK /\ IdInv /\ WriteInv /\ MarkerComplete
CohortInv == FleetInv /\ SourceInv /\ OrderInv /\ AssemblyInv /\ WholeCohort

----------------------------------------------------------------------------
(* Type correctness                                                        *)

(* The records that stand for nothing are well typed.                      *)
LEMMA Blanks ==
  /\ NoId \in Id /\ NoFleet \in Fleet /\ NoGeneration \in Generation
  /\ NoFleet.id = NoId /\ NoFleet.poll = 0
  /\ NoGeneration.poll = 0
  /\ \A d \in Decorators : NoGeneration.parts[d] = 0
  /\ \A d \in Decorators : NoWork(d) \in Contribution /\ NoWork(d).poll = 0
BY FleetAssumption DEF NoId, Id, NoFleet, Fleet, NoSnapshot, Snapshot,
   NoGeneration, Generation, NoWork, Contribution

(* The initial state is well typed.                                        *)
LEMMA InitTyped == Init => TypeOK
<1> SUFFICES ASSUME Init PROVE TypeOK
  OBVIOUS
<1>1. VolumeTyped
  BY FleetAssumption, Blanks DEF Init, VolumeTyped
<1>2. ProcessTyped /\ PollerTyped
  <2>1. /\ ~up /\ up \in BOOLEAN /\ wasPending \in BOOLEAN
        /\ poll = "idle" /\ active = None /\ pending = None
        /\ candidate = None /\ fleet = NoFleet
        /\ clock = 0 /\ counter = 1 /\ polls = 0 /\ faults = 0 /\ routine = 0
    BY Zenon DEF Init
  <2> QED
    BY <2>1, Blanks DEF ProcessTyped, PollerTyped
<1>3. assembled \in Id /\ assembly \in Generation
  BY Blanks DEF Init
<1>4. seen \in [Decorators -> Id] /\ work \in [Decorators -> Contribution]
  BY Blanks, Zenon DEF Init
<1> QED
  BY <1>1, <1>2, <1>3, <1>4 DEF TypeOK, CohortTyped

(* A part of an assembly is the number of a poll.                          *)
LEMMA PartTyped ==
  ASSUME TypeOK, NEW f \in fleets, NEW d \in Decorators
  PROVE  Part(f, d) \in Nat
<1> DEFINE C == Contributed(f.id, d)
<1>1. CASE C = {}
  BY <1>1 DEF Part, TypeOK, VolumeTyped, Fleet
<1>2. CASE C # {}
  <2>1. (CHOOSE c \in C : TRUE) \in Contribution
    BY <1>2 DEF Contributed, TypeOK, VolumeTyped
  <2> QED
    BY <1>2, <2>1 DEF Part, Contribution
<1> QED
  BY <1>1, <1>2

(* Every step keeps the files of the volume well typed.                    *)
LEMMA NextVolume == TypeOK /\ [Next]_vars => VolumeTyped'
<1> SUFFICES ASSUME TypeOK, [Next]_vars PROVE VolumeTyped'
  OBVIOUS
<1> USE DEF TypeOK, VolumeTyped
<1>1. CASE UNCHANGED <<upstream, volume, published>>
  BY <1>1 DEF volume
<1>2. CASE NewSchedule
  BY <1>2, FleetAssumption DEF NewSchedule, volume
<1>3. CASE MintFleet
  BY <1>3 DEF MintFleet
<1>4. CASE RenameFleet
  BY <1>4 DEF RenameFleet, PollerTyped
<1>5. CASE TruncateMarker \/ PointMarker \/ WriteFleetFails
  BY <1>5, Blanks DEF TruncateMarker, PointMarker, WriteFleetFails,
     PollerTyped, Fleet
<1>6. ASSUME NEW d \in Decorators, Contribute(d) PROVE VolumeTyped'
  BY <1>6 DEF Contribute, CohortTyped
<1>7. CASE PublishCohort \/ PublishCohortFails
  BY <1>7 DEF PublishCohort, PublishCohortFails, CohortTyped, volume
<1>8. [Next]_vars =>
        \/ UNCHANGED <<upstream, volume, published>>
        \/ NewSchedule \/ MintFleet \/ RenameFleet
        \/ TruncateMarker \/ PointMarker \/ WriteFleetFails
        \/ \E d \in Decorators : Contribute(d)
        \/ PublishCohort \/ PublishCohortFails
  BY DEF Next, vars, Start, Crash, StageSchedule, PollStep, Candidate, Promote,
     PollFails, DecoratorStep, ReadFleet, ContributeFails, RestartDecorator,
     AssemblerStep, Assemble
<1> QED
  BY <1>1, <1>2, <1>3, <1>4, <1>5, <1>6, <1>7, <1>8

(* Every step keeps the state of VehiclePositions well typed.              *)
LEMMA NextProcess == TypeOK /\ [Next]_vars => ProcessTyped'
<1> SUFFICES ASSUME TypeOK, [Next]_vars PROVE ProcessTyped'
  OBVIOUS
<1> USE DEF TypeOK, ProcessTyped
<1>1. CASE UNCHANGED <<process, snapshots>>
  BY <1>1 DEF process, snapshots
<1>2. CASE Start
  <2>1. Recovered \in Snapshot
    BY DEF Recovered, Snapshot, Generation, VolumeTyped
  <2> QED
    BY <1>2, <2>1 DEF Start
<1>3. CASE Crash
  BY <1>3 DEF Crash
<1>4. CASE StageSchedule
  BY <1>4 DEF StageSchedule, Snapshot, VolumeTyped, process
<1>5. CASE MintFleet
  BY <1>5 DEF MintFleet, snapshots
<1>6. CASE Promote
  <2>1. up /\ candidate \in Snapshot
    BY <1>6 DEF Promote, PollerTyped
  <2> QED
    BY <1>6, <2>1 DEF Promote, process
<1>7. [Next]_vars =>
        \/ UNCHANGED <<process, snapshots>>
        \/ Start \/ Crash \/ StageSchedule \/ MintFleet \/ Promote
  BY DEF Next, vars, NewSchedule, PollStep, Candidate, RenameFleet,
     TruncateMarker, PointMarker, PollFails, WriteFleetFails, DecoratorStep,
     ReadFleet, Contribute, ContributeFails, RestartDecorator, AssemblerStep,
     Assemble, PublishCohort, PublishCohortFails
<1> QED
  BY <1>1, <1>2, <1>3, <1>4, <1>5, <1>6, <1>7

(* Every step keeps the poller and the counts well typed.                  *)
LEMMA NextPoller == TypeOK /\ [Next]_vars => PollerTyped'
<1> SUFFICES ASSUME TypeOK, [Next]_vars PROVE PollerTyped'
  OBVIOUS
<1> USE DEF TypeOK, PollerTyped, Fault, bounds
<1>1. CASE /\ UNCHANGED <<poller, polls>> /\ (up => up')
           /\ faults' \in Nat /\ routine' \in Nat
  BY <1>1 DEF poller
<1>2. CASE Crash \/ PollFails \/ WriteFleetFails \/ Promote
  <2>1. Idle /\ UNCHANGED polls /\ faults' \in Nat /\ routine' \in Nat
    <3>1. CASE Crash
      BY <1>2, <3>1 DEF Crash, Idle
    <3>2. CASE PollFails \/ WriteFleetFails \/ Promote
      BY <1>2, <3>2 DEF PollFails, WriteFleetFails, Promote
    <3> QED
      BY <1>2, <3>1, <3>2
  <2>2. wasPending' \in BOOLEAN
    BY <2>1, Zenon DEF Idle
  <2> QED
    BY <2>1, <2>2, Blanks DEF Idle
<1>3. CASE Candidate
  BY <1>3 DEF Candidate, ProcessTyped, process
<1>4. CASE MintFleet
  <2>1. fleet' \in Fleet /\ fleet'.poll # 0 /\ fleet'.id # NoId
    BY <1>4 DEF MintFleet, Fleet, Id, NoId, ProcessTyped
  <2> QED
    BY <1>4, <2>1 DEF MintFleet
<1>5. CASE RenameFleet \/ TruncateMarker
  BY <1>5 DEF RenameFleet, TruncateMarker, process
<1>6. CASE PointMarker
  BY <1>6, Blanks DEF PointMarker, Idle, process
<1>7. [Next]_vars =>
        \/ /\ UNCHANGED <<poller, polls>> /\ (up => up')
           /\ faults' \in Nat /\ routine' \in Nat
        \/ Crash \/ PollFails \/ WriteFleetFails \/ Promote
        \/ Candidate \/ MintFleet \/ RenameFleet \/ TruncateMarker
        \/ PointMarker
  <2> SUFFICES ASSUME ~(\/ Crash \/ PollFails \/ WriteFleetFails \/ PollStep),
                      [Next]_vars
               PROVE  /\ UNCHANGED <<poller, polls>> /\ (up => up')
                      /\ faults' \in Nat /\ routine' \in Nat
    BY DEF PollStep
  <2>1. CASE Start
    BY <2>1 DEF Start
  <2>2. CASE NewSchedule \/ StageSchedule \/ UNCHANGED vars
    BY <2>2 DEF NewSchedule, StageSchedule, vars, process
  <2>3. ASSUME NEW d \in Decorators,
               DecoratorStep(d) \/ ContributeFails(d) \/ RestartDecorator(d)
        PROVE  /\ UNCHANGED <<poller, polls>> /\ (up => up')
               /\ faults' \in Nat /\ routine' \in Nat
    BY <2>3 DEF DecoratorStep, ReadFleet, Contribute, ContributeFails,
       RestartDecorator, process
  <2>4. CASE AssemblerStep \/ PublishCohortFails
    BY <2>4 DEF AssemblerStep, Assemble, PublishCohort,
       PublishCohortFails, process
  <2> QED
    BY <2>1, <2>2, <2>3, <2>4 DEF Next
<1> QED
  BY <1>1, <1>2, <1>3, <1>4, <1>5, <1>6, <1>7

(* Every step keeps the decorators and the assembler well typed.           *)
LEMMA NextCohort == TypeOK /\ [Next]_vars => CohortTyped'
<1> SUFFICES ASSUME TypeOK, [Next]_vars PROVE CohortTyped'
  OBVIOUS
<1> USE DEF TypeOK, CohortTyped
<1>1. CASE UNCHANGED <<assembler, decorators>>
  BY <1>1 DEF assembler, decorators
<1>2. CASE Start \/ Crash
  BY <1>2, Blanks DEF Start, Crash, decorators
<1>3. ASSUME NEW d \in Decorators, ReadFleet(d) PROVE CohortTyped'
  <2>1. PICK f \in fleets :
          work' = [work EXCEPT ![d] =
                     [id |-> f.id, poll |-> f.poll, name |-> d]]
    BY <1>3 DEF ReadFleet
  <2>2. [id |-> f.id, poll |-> f.poll, name |-> d] \in Contribution
    BY DEF VolumeTyped, Fleet, Contribution
  <2> QED
    BY <1>3, <2>1, <2>2 DEF ReadFleet, assembler
<1>4. ASSUME NEW d \in Decorators,
             Contribute(d) \/ ContributeFails(d) \/ RestartDecorator(d)
      PROVE  CohortTyped'
  <2>1. NoWork(d) \in Contribution /\ NoId \in Id /\ work[d].id \in Id
    BY Blanks DEF Contribution
  <2> QED
    BY <1>4, <2>1 DEF Contribute, ContributeFails, RestartDecorator, assembler
<1>5. CASE Assemble
  <2>1. PICK f \in fleets :
          assembly' = [id |-> f.id, poll |-> f.poll, snapshot |-> f.snapshot,
                       parts |-> [d \in Decorators |-> Part(f, d)]]
    BY <1>5 DEF Assemble
  <2>2. [d \in Decorators |-> Part(f, d)] \in [Decorators -> Nat]
    BY PartTyped
  <2>3. assembly' \in Generation
    BY <2>1, <2>2 DEF Generation, VolumeTyped, Fleet
  <2> QED
    BY <1>5, <2>3 DEF Assemble, decorators
<1>6. CASE PublishCohort \/ PublishCohortFails
  BY <1>6, Blanks DEF PublishCohort, PublishCohortFails, Generation, decorators
<1>7. [Next]_vars =>
        \/ UNCHANGED <<assembler, decorators>>
        \/ Start \/ Crash
        \/ \E d \in Decorators : ReadFleet(d)
        \/ \E d \in Decorators :
              Contribute(d) \/ ContributeFails(d) \/ RestartDecorator(d)
        \/ Assemble \/ PublishCohort \/ PublishCohortFails
  BY DEF Next, vars, NewSchedule, StageSchedule, PollStep, Candidate,
     MintFleet, RenameFleet, TruncateMarker, PointMarker, Promote, PollFails,
     WriteFleetFails, DecoratorStep, AssemblerStep
<1> QED
  BY <1>1, <1>2, <1>3, <1>4, <1>5, <1>6, <1>7

(* Every step keeps the types.                                             *)
LEMMA NextTyped == TypeOK /\ [Next]_vars => TypeOK'
BY NextVolume, NextProcess, NextPoller, NextCohort DEF TypeOK

(* Type correctness (every process and file of the cohort).                *)
THEOREM TypeCorrect == Spec => []TypeOK
BY InitTyped, NextTyped, PTL DEF Spec

----------------------------------------------------------------------------
(* Ids and the fleets they name                                            *)

(* The id that a process is about to give out is not in use.               *)
LEMMA FreshId ==
  ASSUME TypeOK, IdInv, MintFleet
  PROVE  /\ fleets' = fleets
         /\ \A f \in fleets : f.id # fleet'.id
         /\ Used(fleet.id)' /\ fleet'.poll = polls' /\ fleet'.poll # 0
<1>1. up /\ clock \in Nat /\ counter \in Nat /\ polls \in Nat
  BY DEF MintFleet, TypeOK, ProcessTyped, PollerTyped
<1>2. /\ fleet'.id = [second |-> clock, counter |-> counter]
      /\ fleet'.poll = polls + 1 /\ polls' = polls + 1
      /\ fleets' = {f \in fleets : f.id # fleet'.id}
      /\ up' = up /\ clock' = clock /\ counter' = counter + 1
  BY DEF MintFleet
<1>3. \A f \in fleets : f.id # fleet'.id
  BY <1>1, <1>2 DEF IdInv, Used
<1> QED
  BY <1>1, <1>2, <1>3 DEF Used

(* Ids stay used, the clock keeping its promise; only a rename adds a fleet. *)
LEMMA UsedKept ==
  ASSUME TypeOK, ClockKept, [Next]_vars, NEW id \in Id, Used(id)
  PROVE  Used(id)'
<1>1. clock \in Nat /\ counter \in Nat /\ id.second \in Nat /\ id.counter \in Nat
  BY DEF TypeOK, ProcessTyped, Id
<1>2. CASE UNCHANGED process
  BY <1>2 DEF process, Used
<1>3. CASE Start
  BY <1>1, <1>3 DEF Start, Fault, ClockKept, Used
<1>4. CASE Crash
  BY <1>1, <1>4 DEF Crash, Used
<1>5. CASE MintFleet
  BY <1>1, <1>5 DEF MintFleet, Used
<1> QED
  BY <1>2, <1>3, <1>4, <1>5 DEF Next, vars, NewSchedule, StageSchedule,
     PollStep, Candidate, RenameFleet, TruncateMarker, PointMarker, Promote,
     PollFails, WriteFleetFails, DecoratorStep, ReadFleet, Contribute,
     ContributeFails, RestartDecorator, AssemblerStep, Assemble, PublishCohort,
     PublishCohortFails

(* Only a rename adds a fleet, and none is ever removed.                   *)
LEMMA FleetsKept ==
  ASSUME TypeOK, IdInv, [Next]_vars
  PROVE  /\ fleets' = fleets \/ RenameFleet
         /\ fleets \subseteq fleets'
         /\ polls' = polls \/ MintFleet
         /\ polls' \in Nat /\ polls <= polls'
<1>0. polls \in Nat
  BY DEF TypeOK, PollerTyped
<1>1. CASE MintFleet
  BY <1>0, <1>1, FreshId DEF MintFleet
<1>2. CASE RenameFleet
  BY <1>0, <1>2 DEF RenameFleet
<1>3. ~MintFleet /\ ~RenameFleet => UNCHANGED <<fleets, polls>>
  BY DEF Next, vars, volume, Start, Crash, NewSchedule, StageSchedule,
     PollStep, Candidate, TruncateMarker, PointMarker, Promote, PollFails,
     WriteFleetFails, DecoratorStep, ReadFleet, Contribute, ContributeFails,
     RestartDecorator, AssemblerStep, Assemble, PublishCohort,
     PublishCohortFails
<1> QED
  BY <1>0, <1>1, <1>2, <1>3

(* An id names one fleet, after every step.                                *)
LEMMA NextId ==
  ASSUME TypeOK, IdInv, WriteInv, ClockKept, [Next]_vars
  PROVE  IdInv'
<1>1. \A f \in fleets : f.id \in Id /\ f.poll \in Nat
  BY DEF TypeOK, VolumeTyped, Fleet
<1>2. CASE fleets' = fleets
  <2>1. \A f \in fleets : Used(f.id)'
    BY <1>1, UsedKept DEF IdInv
  <2>2. \A f \in fleets : f.poll <= polls'
    BY <1>1, FleetsKept DEF IdInv, TypeOK, PollerTyped
  <2> QED
    BY <1>2, <2>1, <2>2 DEF IdInv
<1>3. CASE RenameFleet
  <2>1. /\ fleet.id \in Id /\ fleet.id # NoId /\ fleet.poll # 0
        /\ fleet.poll = polls /\ Used(fleet.id) /\ polls' = polls
        /\ \A f \in fleets : f.id # fleet.id
        /\ fleets' = fleets \cup {fleet}
    BY <1>3 DEF RenameFleet, WriteInv, TypeOK, PollerTyped, Fleet
  <2>2. \A f \in fleets' : Used(f.id)'
    BY <1>1, <2>1, UsedKept DEF IdInv
  <2>3. polls \in Nat
    BY DEF TypeOK, PollerTyped
  <2> QED
    BY <2>1, <2>2, <2>3 DEF IdInv
<1> QED
  BY <1>2, <1>3, FleetsKept

(* The fleet being written stays the newest, with an id of its own.        *)
LEMMA NextWrite ==
  ASSUME TypeOK, IdInv, WriteInv, ClockKept, [Next]_vars
  PROVE  WriteInv'
<1>1. CASE MintFleet
  BY <1>1, FreshId DEF MintFleet, WriteInv
<1>2. CASE RenameFleet
  BY <1>2 DEF RenameFleet, WriteInv
<1>3. CASE TruncateMarker
  BY <1>3 DEF TruncateMarker, WriteInv
<1>4. CASE poll' \in {"idle", "build", "promote"}
  BY <1>4 DEF WriteInv
<1>5. CASE UNCHANGED <<poll, fleet>> /\ ~MintFleet /\ ~RenameFleet
  <2>1. fleets' = fleets /\ polls' = polls
    BY <1>5, FleetsKept
  <2>2. fleet.id \in Id
    BY DEF TypeOK, PollerTyped, Fleet
  <2>3. \A id \in Id : Used(id) => Used(id)'
    BY UsedKept
  <2> QED
    BY <1>5, <2>1, <2>2, <2>3 DEF WriteInv, Used
<1>6. [Next]_vars =>
        \/ MintFleet \/ RenameFleet \/ TruncateMarker
        \/ poll' \in {"idle", "build", "promote"}
        \/ UNCHANGED <<poll, fleet>>
  BY DEF Next, vars, poller, Start, Crash, NewSchedule, StageSchedule,
     PollStep, Candidate, PointMarker, Promote, Idle, PollFails,
     WriteFleetFails, DecoratorStep, ReadFleet, Contribute, ContributeFails,
     RestartDecorator, AssemblerStep, Assemble, PublishCohort,
     PublishCohortFails
<1> QED
  BY <1>1, <1>2, <1>3, <1>4, <1>5, <1>6

(* The marker stays empty or names a fleet that is written.                *)
LEMMA NextMarker ==
  ASSUME TypeOK, IdInv, WriteInv, MarkerComplete, [Next]_vars
  PROVE  MarkerComplete'
<1>1. CASE UNCHANGED current
  BY <1>1, FleetsKept DEF MarkerComplete
<1>2. CASE TruncateMarker
  BY <1>2 DEF TruncateMarker, MarkerComplete
<1>3. CASE PointMarker \/ WriteFleetFails
  <2>1. current' = current \/ (poll = "point" /\ current' = fleet.id)
    BY <1>3 DEF PointMarker, WriteFleetFails
  <2> QED
    BY <2>1, <1>1, FleetsKept DEF MarkerComplete, WriteInv
<1>4. [Next]_vars =>
        UNCHANGED current \/ TruncateMarker \/ PointMarker \/ WriteFleetFails
  BY DEF Next, vars, volume, Start, Crash, NewSchedule, StageSchedule,
     PollStep, Candidate, MintFleet, RenameFleet, Promote, PollFails,
     DecoratorStep, ReadFleet, Contribute, ContributeFails, RestartDecorator,
     AssemblerStep, Assemble, PublishCohort, PublishCohortFails
<1> QED
  BY <1>1, <1>2, <1>3, <1>4

(* fleet/CURRENT is empty or names a complete fleet, whatever fails and    *)
(* restarts, unless the clock is set back (write_fleet).                   *)
THEOREM MarkerAlwaysComplete ==
  ASSUME ClockKept PROVE Spec => []MarkerComplete
<1>1. Init => FleetInv
  BY InitTyped DEF Init, FleetInv, IdInv, WriteInv, MarkerComplete
<1>2. FleetInv /\ [Next]_vars => FleetInv'
  BY NextTyped, NextId, NextWrite, NextMarker, ClockKept DEF FleetInv
<1>3. FleetInv => MarkerComplete
  BY DEF FleetInv
<1> QED
  BY <1>1, <1>2, <1>3, PTL DEF Spec

----------------------------------------------------------------------------
(* What is made from a fleet                                               *)

(* Two things made for one id come from one poll.                          *)
LEMMA SamePoll ==
  ASSUME IdInv, NEW x, NEW y, Source(x), Source(y), x.id = y.id
  PROVE  x.poll = y.poll
BY DEF IdInv, Source

(* A contribution replaces only one that was made from the same poll, so   *)
(* what is decorated stays decorated.                                      *)
LEMMA DecoratedKept ==
  ASSUME TypeOK, IdInv, SourceInv, NEW d \in Decorators, Contribute(d)
  PROVE  \A c \in contributions :
           \E b \in contributions' : b.name = c.name /\ b.poll = c.poll
<1> SUFFICES ASSUME NEW c \in contributions
             PROVE  \E b \in contributions' : b.name = c.name /\ b.poll = c.poll
  OBVIOUS
<1>1. contributions' =
        {b \in contributions : b.id # work[d].id \/ b.name # d} \cup {work[d]}
  BY DEF Contribute
<1>2. CASE c.id # work[d].id \/ c.name # d
  BY <1>1, <1>2
<1>3. CASE c.id = work[d].id /\ c.name = d
  <2>1. c.poll = work[d].poll
    BY <1>3, SamePoll DEF SourceInv, Contribute
  <2>2. work[d].name = d
    BY DEF SourceInv
  <2> QED
    BY <1>1, <1>3, <2>1, <2>2
<1> QED
  BY <1>2, <1>3

(* What was made from a fleet keeps its source.                            *)
LEMMA NextSource ==
  ASSUME TypeOK, IdInv, SourceInv, [Next]_vars
  PROVE  SourceInv'
<1>1. \A x : Source(x) => \E f \in fleets' : f.id = x.id /\ f.poll = x.poll
  BY FleetsKept DEF Source
<1>2. \A c \in contributions' : Source(c)
  <2>1. ASSUME NEW d \in Decorators, Contribute(d)
        PROVE  \A c \in contributions' : Source(c)
    BY <2>1 DEF Contribute, SourceInv
  <2>2. (\E d \in Decorators : Contribute(d)) \/ UNCHANGED contributions
    BY DEF Next, vars, volume, Start, Crash, NewSchedule, StageSchedule,
       PollStep, Candidate, MintFleet, RenameFleet, TruncateMarker,
       PointMarker, Promote, PollFails, WriteFleetFails, DecoratorStep,
       ReadFleet, ContributeFails, RestartDecorator, AssemblerStep, Assemble,
       PublishCohort, PublishCohortFails
  <2> QED
    BY <2>1, <2>2 DEF SourceInv
<1>3. \A d \in Decorators :
        work'[d].name = d /\ (work'[d].poll # 0 => Source(work'[d]))
  <2>1. ASSUME NEW e \in Decorators, ReadFleet(e),
               NEW d \in Decorators
        PROVE  work'[d].name = d /\ (work'[d].poll # 0 => Source(work'[d]))
    <3>1. PICK f \in fleets :
            work' = [work EXCEPT ![e] =
                       [id |-> f.id, poll |-> f.poll, name |-> e]]
      BY <2>1 DEF ReadFleet
    <3> QED
      BY <2>1, <3>1 DEF SourceInv, Source, TypeOK, CohortTyped
  <2>2. ASSUME NEW e \in Decorators,
               Contribute(e) \/ ContributeFails(e) \/ RestartDecorator(e),
               NEW d \in Decorators
        PROVE  work'[d].name = d /\ (work'[d].poll # 0 => Source(work'[d]))
    <3>1. work' = [work EXCEPT ![e] = NoWork(e)]
      BY <2>2 DEF Contribute, ContributeFails, RestartDecorator
    <3>2. work'[d] = IF d = e THEN NoWork(d) ELSE work[d]
      BY <3>1 DEF TypeOK, CohortTyped
    <3> QED
      BY <3>2 DEF SourceInv, NoWork
  <2>3. \/ \E e \in Decorators : ReadFleet(e)
        \/ \E e \in Decorators :
             Contribute(e) \/ ContributeFails(e) \/ RestartDecorator(e)
        \/ UNCHANGED work
    BY DEF Next, vars, decorators, Start, Crash, NewSchedule, StageSchedule,
       PollStep, Candidate, MintFleet, RenameFleet, TruncateMarker,
       PointMarker, Promote, PollFails, WriteFleetFails, DecoratorStep,
       AssemblerStep, Assemble, PublishCohort, PublishCohortFails
  <2> QED
    BY <2>1, <2>2, <2>3 DEF SourceInv
<1>4. assembly'.poll # 0 => Source(assembly')
  <2>1. CASE Assemble
    BY <2>1 DEF Assemble, Source
  <2>2. CASE assembly' = NoGeneration \/ UNCHANGED assembly
    BY <2>2, Blanks DEF SourceInv
  <2>3. Assemble \/ assembly' = NoGeneration \/ UNCHANGED assembly
    BY DEF Next, vars, assembler, Start, Crash, NewSchedule, StageSchedule,
       PollStep, Candidate, MintFleet, RenameFleet, TruncateMarker,
       PointMarker, Promote, PollFails, WriteFleetFails, DecoratorStep,
       ReadFleet, Contribute, ContributeFails, RestartDecorator,
       AssemblerStep, PublishCohort, PublishCohortFails
  <2> QED
    BY <2>1, <2>2, <2>3
<1> QED
  BY <1>1, <1>2, <1>3, <1>4 DEF SourceInv, Source

(* An assembly takes its own poll of everybody.                            *)
LEMMA AssembledParts ==
  ASSUME TypeOK, IdInv, SourceInv, Assemble
  PROVE  \A d \in Decorators :
           /\ assembly'.parts[d] = assembly'.poll
           /\ \E c \in contributions : c.name = d /\ c.poll = assembly'.poll
<1> SUFFICES ASSUME NEW d \in Decorators
             PROVE  /\ assembly'.parts[d] = assembly'.poll
                    /\ \E c \in contributions :
                         c.name = d /\ c.poll = assembly'.poll
  OBVIOUS
<1>1. PICK f \in fleets :
        /\ f.id = current
        /\ assembly' = [id |-> f.id, poll |-> f.poll, snapshot |-> f.snapshot,
                        parts |-> [e \in Decorators |-> Part(f, e)]]
  BY DEF Assemble
<1>2. Source(f)
  BY DEF Source
<1>3. \A c \in Contributed(f.id, d) :
        c \in contributions /\ c.name = d /\ c.poll = f.poll
  BY <1>2, SamePoll DEF Contributed, SourceInv
<1>4. Contributed(f.id, d) # {}
  BY <1>1 DEF Assemble, Ready
<1>5. (CHOOSE c \in Contributed(f.id, d) : TRUE) \in Contributed(f.id, d)
  BY <1>4
<1> QED
  BY <1>1, <1>3, <1>4, <1>5 DEF Part

(* What is being published stays one poll, decorated by everybody.         *)
LEMMA NextAssembly ==
  ASSUME TypeOK, IdInv, SourceInv, AssemblyInv, [Next]_vars
  PROVE  AssemblyInv'
<1>1. CASE Assemble
  BY <1>1, AssembledParts DEF AssemblyInv, Assemble, volume
<1>2. CASE assembly' = NoGeneration
  BY <1>2, Blanks DEF AssemblyInv
<1>3. ASSUME NEW d \in Decorators, Contribute(d) PROVE AssemblyInv'
  <2>1. assembly' = assembly
    BY <1>3 DEF Contribute, assembler
  <2> QED
    BY <1>3, <2>1, DecoratedKept DEF AssemblyInv
<1>4. CASE UNCHANGED <<assembly, contributions>>
  BY <1>4 DEF AssemblyInv
<1>5. [Next]_vars =>
        \/ Assemble \/ assembly' = NoGeneration
        \/ \E d \in Decorators : Contribute(d)
        \/ UNCHANGED <<assembly, contributions>>
  BY DEF Next, vars, volume, assembler, Start, Crash, NewSchedule,
     StageSchedule, PollStep, Candidate, MintFleet, RenameFleet,
     TruncateMarker, PointMarker, Promote, PollFails, WriteFleetFails,
     DecoratorStep, ReadFleet, ContributeFails, RestartDecorator,
     AssemblerStep, PublishCohort, PublishCohortFails
<1> QED
  BY <1>1, <1>2, <1>3, <1>4, <1>5

(* What is published changes only to what was assembled.                   *)
LEMMA PublishedStep ==
  [Next]_vars =>
    \/ published' = published
    \/ /\ assembly.poll # 0 /\ published' = assembly
       /\ UNCHANGED contributions
BY DEF Next, vars, volume, Start, Crash, NewSchedule, StageSchedule, PollStep,
   Candidate, MintFleet, RenameFleet, TruncateMarker, PointMarker, Promote,
   PollFails, WriteFleetFails, DecoratorStep, ReadFleet, Contribute,
   ContributeFails, RestartDecorator, AssemblerStep, Assemble, PublishCohort,
   PublishCohortFails

(* Polls stay in order: published, being published, current.               *)
LEMMA NextOrder ==
  ASSUME TypeOK, IdInv, WriteInv, MarkerComplete, SourceInv, OrderInv,
         ClockKept, [Next]_vars
  PROVE  OrderInv'
<1>0. /\ polls \in Nat /\ published.poll \in Nat /\ assembly.poll \in Nat
      /\ \A f \in fleets : f.poll \in Nat
  BY DEF TypeOK, PollerTyped, VolumeTyped, CohortTyped, Generation, Fleet
<1>1. assembly.poll <= polls
  BY <1>0 DEF SourceInv, Source, IdInv
<1>2. published'.poll <= polls' /\ published'.poll \in Nat
  BY <1>0, <1>1, FleetsKept, PublishedStep DEF OrderInv
<1>3. CASE UNCHANGED <<assembly, current>>
  <2>1. published' = published \/ (assembly.poll # 0 /\ published' = assembly)
    BY PublishedStep
  <2>2. \A f \in fleets' : f.id = current => f \in fleets
    BY FleetsKept DEF RenameFleet, WriteInv, MarkerComplete, TypeOK, PollerTyped
  <2> QED
    BY <1>0, <1>2, <1>3, <2>1, <2>2 DEF OrderInv
<1>4. CASE Assemble
  <2>1. PICK f \in fleets : f.id = current /\ assembly'.poll = f.poll
    BY <1>4 DEF Assemble
  <2>2. UNCHANGED <<fleets, current, published>>
    BY <1>4 DEF Assemble, volume
  <2> QED
    BY <1>0, <1>2, <2>1, <2>2 DEF OrderInv, IdInv
<1>5. CASE UNCHANGED current /\ assembly' = NoGeneration /\ fleets' = fleets
  BY <1>0, <1>2, <1>5, Blanks, PublishedStep DEF OrderInv
<1>6. CASE TruncateMarker \/ PointMarker \/ WriteFleetFails
  <2>1. /\ UNCHANGED <<fleets, published, assembly, polls>>
        /\ \/ current' = current \/ current' = NoId
           \/ poll = "point" /\ current' = fleet.id
    BY <1>6 DEF TruncateMarker, PointMarker, WriteFleetFails, assembler
  <2>2. CASE current' = current \/ current' = NoId
    BY <2>1, <2>2, <1>2 DEF OrderInv, IdInv
  <2>3. CASE poll = "point" /\ current' = fleet.id
    <3>1. \A f \in fleets : f.id = fleet.id => f.poll = polls
      BY <2>3 DEF WriteInv, IdInv
    <3> QED
      BY <1>1, <2>1, <2>3, <3>1 DEF OrderInv
  <2> QED
    BY <2>1, <2>2, <2>3
<1>7. [Next]_vars =>
        \/ UNCHANGED <<assembly, current>>
        \/ Assemble
        \/ UNCHANGED current /\ assembly' = NoGeneration /\ fleets' = fleets
        \/ TruncateMarker \/ PointMarker \/ WriteFleetFails
  BY DEF Next, vars, volume, assembler, Start, Crash, NewSchedule,
     StageSchedule, PollStep, Candidate, MintFleet, RenameFleet, Promote,
     PollFails, DecoratorStep, ReadFleet, Contribute, ContributeFails,
     RestartDecorator, AssemblerStep, PublishCohort, PublishCohortFails
<1> QED
  BY <1>3, <1>4, <1>5, <1>6, <1>7

(* The inductive invariant holds at first and is kept.                     *)
LEMMA InitCohort == Init => CohortInv
<1> SUFFICES ASSUME Init PROVE CohortInv
  OBVIOUS
<1>1. FleetInv
  BY InitTyped DEF Init, FleetInv, IdInv, WriteInv, MarkerComplete
<1>2. SourceInv
  <2>1. \A d \in Decorators : work[d] = NoWork(d)
    BY DEF Init
  <2> QED
    BY <2>1, Blanks DEF Init, SourceInv, NoWork
<1>3. OrderInv /\ AssemblyInv /\ WholeCohort
  BY Blanks DEF Init, OrderInv, AssemblyInv, WholeCohort
<1> QED
  BY <1>1, <1>2, <1>3 DEF CohortInv

LEMMA NextCohortInv ==
  ASSUME ClockKept, CohortInv, [Next]_vars
  PROVE  CohortInv'
<1>1. FleetInv'
  BY NextTyped, NextId, NextWrite, NextMarker DEF CohortInv, FleetInv
<1>2. SourceInv' /\ AssemblyInv' /\ OrderInv'
  BY NextSource, NextAssembly, NextOrder DEF CohortInv, FleetInv
<1>3. WholeCohort'
  BY PublishedStep DEF CohortInv, AssemblyInv, WholeCohort
<1> QED
  BY <1>1, <1>2, <1>3 DEF CohortInv

(* The published feeds are of one poll, whatever fails and restarts,       *)
(* unless the clock is set back (contributions_ready, assemble_one).       *)
THEOREM CohortWhole ==
  ASSUME ClockKept PROVE Spec => []WholeCohort
<1>1. CohortInv /\ [Next]_vars => CohortInv'
  BY NextCohortInv, ClockKept
<1>2. CohortInv => WholeCohort
  BY DEF CohortInv
<1> QED
  BY InitCohort, <1>1, <1>2, PTL DEF Spec

(* The three containers implement the barrier: a poll is shown only when   *)
(* both decorations are on disk, and never after a later one.              *)
THEOREM CohortBarrier ==
  ASSUME ClockKept PROVE Spec => BarrierSpec
<1>1. Init => Barrier!Init
  BY Blanks DEF Init, Barrier!Init
<1>2. CohortInv /\ [Next]_vars => [Barrier!Next]_(Barrier!vars)
  <2> SUFFICES ASSUME CohortInv, [Next]_vars
               PROVE  [Barrier!Next]_(Barrier!vars)
    OBVIOUS
  <2>1. TypeOK /\ IdInv /\ SourceInv /\ OrderInv /\ AssemblyInv
    BY DEF CohortInv, FleetInv
  <2>2. ASSUME NEW d \in Decorators, Contribute(d)
        PROVE  [Barrier!Next]_(Barrier!vars)
    <3>1. published' = published
      BY <2>2 DEF Contribute
    <3>2. {<<c.name, c.poll>> : c \in contributions} \subseteq
            {<<c.name, c.poll>> : c \in contributions'}
      BY <2>1, <2>2, DecoratedKept
    <3> QED
      BY <3>1, <3>2 DEF Barrier!Next, Barrier!Decorate, Barrier!vars
  <2>3. CASE published' = assembly /\ assembly.poll # 0 /\ UNCHANGED contributions
    BY <2>1, <2>3
    DEF Barrier!Next, Barrier!Show, Barrier!vars, OrderInv, AssemblyInv
  <2>4. CASE UNCHANGED <<published, contributions>>
    BY <2>4 DEF Barrier!vars
  <2>5. \/ \E d \in Decorators : Contribute(d)
        \/ UNCHANGED contributions
    BY DEF Next, vars, volume, Start, Crash, NewSchedule, StageSchedule,
       PollStep, Candidate, MintFleet, RenameFleet, TruncateMarker,
       PointMarker, Promote, PollFails, WriteFleetFails, DecoratorStep,
       ReadFleet, ContributeFails, RestartDecorator, AssemblerStep, Assemble,
       PublishCohort, PublishCohortFails
  <2> QED
    BY <2>2, <2>3, <2>4, <2>5, PublishedStep
<1>3. CohortInv /\ [Next]_vars => CohortInv'
  BY NextCohortInv, ClockKept
<1> QED
  BY InitCohort, <1>1, <1>2, <1>3, PTL DEF Spec, BarrierSpec, Barrier!Spec

=============================================================================
