----------------------- MODULE RefreshPipeline_proofs -----------------------
(***************************************************************************)
(* Proofs about RefreshPipeline, for every set of labels, schedule, bound  *)
(* and kind of fault, and whether or not tasks are preempted.              *)
(***************************************************************************)
EXTENDS RefreshPipeline, TLAPS

(* Nothing runs while the process is down.                                 *)
DownInv == ~Up => poll = "idle" /\ pending = None

(* Snapshots are numbered in the order they are accepted.                  *)
OrderInv ==
  /\ refresh = "stage" => staged.id = accepted + 1
  /\ Up => newest <= accepted
  /\ published # None => published.id <= accepted
  /\ Up /\ published # None => published.id <= newest

(* The candidate of a poll is no older than what is published, and what    *)
(* was pending stays pending until it is promoted.                         *)
PollInv ==
  /\ poll # "idle" => candidate.id <= newest
  /\ poll = "publish" /\ published # None => published.id <= candidate.id
  /\ poll # "idle" /\ wasPending => pending # None
  /\ poll = "promote" => wasPending

(* A candidate that was not pending is the active snapshot, and the one    *)
(* awaiting promotion is published.                                        *)
PairInv ==
  /\ ActivePaired
  /\ poll = "publish" /\ ~wasPending => candidate = active
  /\ poll = "promote" => published = candidate

TypeInv == TypeOK /\ DownInv

ForwardInv == TypeInv /\ OrderInv /\ PollInv /\ NewestKept

----------------------------------------------------------------------------

(* The absent snapshot is not a snapshot.                                  *)
LEMMA NoneIsNoSnapshot == None \notin Snapshot
<1> SUFFICES ASSUME None \in Snapshot PROVE FALSE
  OBVIOUS
<1>1. DOMAIN None = {"none"}
  BY DEF None
<1>2. DOMAIN None = {"schedule", "augmented", "labels", "id"}
  BY DEF Snapshot
<1> QED
  BY <1>1, <1>2

(* What the fields of a snapshot are.                                      *)
LEMMA SnapshotFields ==
  ASSUME NEW s \in Snapshot
  PROVE  s.schedule \in Schedules /\ s.labels \subseteq Labels /\ s.id \in Nat
BY DEF Snapshot

(* What a fetch builds is a snapshot with the next number.                 *)
LEMMA FetchedSnapshot ==
  ASSUME upstream \in Schedules, accepted \in Nat,
         NEW S \in SUBSET Labels, NEW s \in Built(S) \cup {AsItCame}
  PROVE  s \in Snapshot /\ s.id = accepted + 1
<1>1. CASE s \in Built(S)
  <2>1. /\ s = [schedule |-> upstream, augmented |-> TRUE,
                labels |-> s.labels, id |-> accepted + 1]
        /\ s.labels \in {S, {}}
    BY <1>1 DEF Built
  <2>2. s.labels \in SUBSET Labels /\ accepted + 1 \in Nat
    BY <2>1
  <2>3. s.id = accepted + 1
    BY <2>1
  <2>4. [schedule |-> upstream, augmented |-> TRUE,
         labels |-> s.labels, id |-> accepted + 1] \in Snapshot
    BY <2>2 DEF Snapshot
  <2> QED
    BY <2>1, <2>3, <2>4
<1>2. CASE s = AsItCame
  BY <1>2 DEF AsItCame, Snapshot
<1> QED
  BY <1>1, <1>2

(* The stations of a schedule offer only labels of the boards.             *)
LEMMA KnownStations ==
  ASSUME NEW s \in Snapshot
  PROVE  Covered[s.schedule] \subseteq Labels
BY RefreshAssumption DEF Snapshot, Schedules

(* A fault is counted.                                                     *)
LEMMA FaultCounted ==
  ASSUME NEW k, Fault(k), faults \in Nat
  PROVE  faults' \in Nat
BY DEF Fault

----------------------------------------------------------------------------
(* Type correctness                                                        *)

(* A service not started yet is well formed.                               *)
LEMMA InitType == Init => TypeInv
<1> SUFFICES ASSUME Init PROVE TypeInv
  OBVIOUS
<1>1. ~Up /\ upstream \in Schedules
  BY RefreshAssumption DEF Init, Up, Schedules
<1>2. DownInv
  BY DEF Init, DownInv
<1>3. TypeOK
  <2>1. /\ dirty \in BOOLEAN /\ permit \in BOOLEAN /\ wasPending \in BOOLEAN
    BY DEF Init
  <2>2. /\ shown \subseteq Labels /\ observed \subseteq Labels
        /\ known \subseteq Labels /\ file \subseteq Labels
        /\ full \subseteq Labels /\ unread \subseteq Labels
        /\ contents \subseteq Labels
    BY DEF Init
  <2>3. /\ changes \in Nat /\ faults \in Nat /\ accepted \in Nat /\ newest \in Nat
    BY DEF Init
  <2> QED
    BY <1>1, <2>1, <2>2, <2>3 DEF Init, TypeOK
<1> QED
  BY <1>2, <1>3 DEF TypeInv

(* Every step of the three tasks keeps the state well formed.              *)
LEMMA NextType == TypeInv /\ [Next]_vars => TypeInv'
<1> SUFFICES ASSUME TypeInv, [Next]_vars PROVE TypeInv'
  OBVIOUS
<1> USE RefreshAssumption, NoneIsNoSnapshot, FaultCounted
    DEF TypeInv, TypeOK, DownInv, Up, world, platforms, snapshots, refresher, poller, boards, history
<1>1. CASE NewSchedule
  BY <1>1 DEF NewSchedule, Schedules
<1>2. CASE Recover
  <2>1. published.id \in Nat /\ Covered[published.schedule] \subseteq Labels
    BY <1>2, SnapshotFields, KnownStations DEF Recover
  <2> QED
    BY <1>2, <2>1 DEF Recover, Begin
<1>3. CASE Bootstrap
  <2> PICK s \in Built(file) \cup {AsItCame} : FetchResult(file, s) /\ Begin(s)
    BY <1>3 DEF Bootstrap
  <2>1. s \in Snapshot
    BY FetchedSnapshot
  <2>2. s.id \in Nat /\ Covered[s.schedule] \subseteq Labels
    BY <2>1, SnapshotFields, KnownStations
  <2>3. faults' \in Nat
    BY DEF FetchResult
  <2> QED
    BY <1>3, <2>1, <2>2, <2>3 DEF Bootstrap, Begin
<1>4. CASE Crash
  BY <1>4 DEF Crash
<1>5. CASE IntervalElapses
  BY <1>5 DEF IntervalElapses
<1>6. CASE Notified
  BY <1>6 DEF Notified
<1>7. CASE Debounced
  BY <1>7 DEF Debounced
<1>8. CASE Compare
  BY <1>8 DEF Compare
<1>9. CASE Fetch
  <2> PICK s \in Built(full) \cup {AsItCame} :
         /\ FetchResult(full, s)
         /\ IF Zip(s) = Zip(comparison)
              THEN refresh' = "wait" /\ staged' = None
              ELSE refresh' = "stage" /\ staged' = s
    BY <1>9 DEF Fetch
  <2>1. s \in Snapshot
    BY FetchedSnapshot
  <2>2. faults' \in Nat
    BY DEF FetchResult
  <2> QED
    BY <1>9, <2>1, <2>2 DEF Fetch
<1>10. CASE Stage
  <2>1. staged \in Snapshot /\ staged.id \in Nat
    BY <1>10, SnapshotFields DEF Stage
  <2> QED
    BY <1>10, <2>1 DEF Stage
<1>11. CASE Stations
  <2>1. known' \subseteq Labels
    BY <1>11, KnownStations DEF Stations
  <2> QED
    BY <1>11, <2>1 DEF Stations
<1>12. CASE Reload
  BY <1>12 DEF Reload
<1>13. CASE FetchFails
  BY <1>13 DEF FetchFails
<1>14. CASE Candidate
  BY <1>14 DEF Candidate
<1>15. CASE Publish
  BY <1>15 DEF Publish
<1>16. CASE Promote
  BY <1>16 DEF Promote
<1>17. CASE PollFails
  BY <1>17 DEF PollFails
<1>18. CASE PublishLateError
  BY <1>18 DEF PublishLateError
<1>19. CASE ReadBoards
  BY <1>19 DEF ReadBoards
<1>20. CASE Persist
  BY <1>20 DEF Persist
<1>21. CASE Saved
  BY <1>21 DEF Saved
<1>22. CASE SaveFails
  BY <1>22 DEF SaveFails
<1>23. ASSUME NEW l \in Labels, BoardChanges(l) PROVE TypeInv'
  BY <1>23 DEF BoardChanges
<1>24. ASSUME NEW l \in Labels, Observe(l) PROVE TypeInv'
  BY <1>24 DEF Observe
<1>25. CASE UNCHANGED vars
  BY <1>25 DEF vars
<1> QED
  BY <1>1, <1>2, <1>3, <1>4, <1>5, <1>6, <1>7, <1>8, <1>9, <1>10, <1>11, <1>12, <1>13, <1>14, <1>15, <1>16, <1>17, <1>18, <1>19, <1>20, <1>21, <1>22, <1>23, <1>24, <1>25
  DEF Next, RefreshStep, PollStep, BoardStep

(* Every snapshot, set and counter of the three tasks stays within its     *)
(* range, and an absent one is absent exactly when the code has none.      *)
THEOREM TypeCorrect == Spec => []TypeOK
<1>1. TypeInv => TypeOK
  BY DEF TypeInv
<1> QED
  BY <1>1, InitType, NextType, PTL DEF Spec

----------------------------------------------------------------------------
(* The order of snapshots                                                  *)

(* The order of snapshots holds before the first start.                    *)
LEMMA InitForward == Init => ForwardInv
<1> SUFFICES ASSUME Init PROVE ForwardInv
  OBVIOUS
<1>1. TypeInv
  BY InitType
<1> QED
  BY <1>1 DEF Init, ForwardInv, OrderInv, PollInv, NewestKept, Up

(* Steps that leave the snapshots and the poll alone.                      *)
LEMMA ForwardUnchanged ==
  ASSUME ForwardInv, TypeInv',
         refresh' # "stage" \/ UNCHANGED <<refresh, staged>>, Up' = Up,
         UNCHANGED <<active, pending, published, poll, candidate, wasPending,
                     accepted, newest>>
  PROVE  ForwardInv'
BY DEF ForwardInv, OrderInv, PollInv, NewestKept, Up

(* Every step keeps the order of snapshots.                                *)
LEMMA NextForward == ForwardInv /\ [Next]_vars => ForwardInv'
<1> SUFFICES ASSUME ForwardInv, [Next]_vars PROVE ForwardInv'
  OBVIOUS
<1>0. TypeInv /\ TypeInv'
  BY NextType DEF ForwardInv
<1> USE <1>0 DEF world, platforms, snapshots, refresher, poller, boards, history
<1>1. CASE NewSchedule
  BY <1>1, ForwardUnchanged DEF NewSchedule, Up
<1>2. CASE IntervalElapses
  BY <1>2, ForwardUnchanged DEF IntervalElapses, Up
<1>3. CASE Notified
  BY <1>3, ForwardUnchanged DEF Notified, Up
<1>4. CASE Debounced
  BY <1>4, ForwardUnchanged DEF Debounced, Up
<1>5. CASE Compare
  BY <1>5, ForwardUnchanged DEF Compare, Up
<1>6. CASE Stations
  BY <1>6, ForwardUnchanged DEF Stations, Up
<1>7. CASE Reload
  BY <1>7, ForwardUnchanged DEF Reload, Up
<1>8. CASE FetchFails
  BY <1>8, ForwardUnchanged DEF FetchFails, Up
<1>9. CASE ReadBoards
  BY <1>9, ForwardUnchanged DEF ReadBoards, Up
<1>10. CASE Persist
  BY <1>10, ForwardUnchanged DEF Persist, Up
<1>11. CASE Saved
  BY <1>11, ForwardUnchanged DEF Saved, Up
<1>12. CASE SaveFails
  BY <1>12, ForwardUnchanged DEF SaveFails, Up
<1>13. ASSUME NEW l \in Labels, BoardChanges(l) PROVE ForwardInv'
  BY <1>13, ForwardUnchanged DEF BoardChanges, Up
<1>14. ASSUME NEW l \in Labels, Observe(l) PROVE ForwardInv'
  BY <1>14, ForwardUnchanged DEF Observe, Up
<1>15. CASE UNCHANGED vars
  BY <1>15, ForwardUnchanged DEF vars, Up
<1>16. CASE Recover
  <2>1. published \in Snapshot /\ published.id \in Nat
    BY <1>16, SnapshotFields DEF Recover, TypeInv, TypeOK
  <2> QED
    BY <1>16, <2>1 DEF Recover, Begin, DownInv, TypeInv, ForwardInv, OrderInv, PollInv, NewestKept, Up
<1>17. CASE Bootstrap
  <2> PICK s \in Built(file) \cup {AsItCame} : FetchResult(file, s) /\ Begin(s)
    BY <1>17 DEF Bootstrap
  <2>1. s.id = accepted + 1 /\ accepted \in Nat
    BY FetchedSnapshot DEF TypeInv, TypeOK
  <2> QED
    BY <1>17, <2>1 DEF Bootstrap, Begin, DownInv, TypeInv, ForwardInv, OrderInv, PollInv, NewestKept, Up
<1>18. CASE Crash
  <2>1. ~Up'
    BY <1>18 DEF Crash, Up
  <2> QED
    BY <1>18, <2>1 DEF Crash, ForwardInv, OrderInv, PollInv, NewestKept, Up
<1>19. CASE Fetch
  <2> PICK s \in Built(full) \cup {AsItCame} :
         /\ FetchResult(full, s)
         /\ IF Zip(s) = Zip(comparison)
              THEN refresh' = "wait" /\ staged' = None
              ELSE refresh' = "stage" /\ staged' = s
    BY <1>19 DEF Fetch
  <2>1. s.id = accepted + 1
    BY FetchedSnapshot DEF TypeInv, TypeOK
  <2> QED
    BY <1>19, <2>1 DEF Fetch, ForwardInv, OrderInv, PollInv, NewestKept, Up
<1>20. CASE Stage
  <2>1. staged \in Snapshot /\ staged.id = accepted + 1 /\ accepted \in Nat
    BY <1>20 DEF Stage, ForwardInv, OrderInv, TypeInv, TypeOK
  <2>2. staged # None /\ Up /\ newest <= accepted
    BY <1>20, <2>1, NoneIsNoSnapshot DEF Stage, ForwardInv, OrderInv, Up
  <2>3. /\ newest \in Nat
        /\ published # None => published.id \in Nat
        /\ poll # "idle" => candidate.id \in Nat
    BY SnapshotFields DEF TypeInv, TypeOK
  <2>4. OrderInv'
    BY <1>20, <2>1, <2>3 DEF Stage, ForwardInv, OrderInv
  <2>5. PollInv'
    BY <1>20, <2>1, <2>2, <2>3 DEF Stage, ForwardInv, PollInv
  <2>6. NewestKept'
    BY <1>20, <2>2 DEF Stage, NewestKept
  <2> QED
    BY <2>4, <2>5, <2>6 DEF ForwardInv
<1>21. CASE Candidate
  <2>1. /\ candidate'.id = newest /\ newest \in Nat
        /\ wasPending' => pending # None
    BY <1>21 DEF Candidate, ForwardInv, NewestKept, TypeInv, TypeOK
  <2>2. OrderInv' /\ NewestKept'
    BY <1>21 DEF Candidate, ForwardInv, OrderInv, NewestKept, Up
  <2>3. PollInv'
    BY <1>21, <2>1 DEF Candidate, ForwardInv, OrderInv, PollInv
  <2> QED
    BY <2>2, <2>3 DEF ForwardInv
<1>22. CASE PollFails
  BY <1>22, NoneIsNoSnapshot, SnapshotFields DEF PollFails, TypeInv, TypeOK, DownInv, ForwardInv, OrderInv, PollInv, NewestKept, Up
<1>23. CASE Publish
  BY <1>23, NoneIsNoSnapshot, SnapshotFields DEF Publish, TypeInv, TypeOK, DownInv, ForwardInv, OrderInv, PollInv, NewestKept, Up
<1>24. CASE PublishLateError
  BY <1>24, NoneIsNoSnapshot, SnapshotFields DEF PublishLateError, TypeInv, TypeOK, DownInv, ForwardInv, OrderInv, PollInv, NewestKept, Up
<1>25. CASE Promote
  BY <1>25, NoneIsNoSnapshot, SnapshotFields DEF Promote, TypeInv, TypeOK, DownInv, ForwardInv, OrderInv, PollInv, NewestKept, Up
<1> QED
  BY <1>1, <1>2, <1>3, <1>4, <1>5, <1>6, <1>7, <1>8, <1>9, <1>10, <1>11, <1>12, <1>13, <1>14, <1>15, <1>16, <1>17, <1>18, <1>19, <1>20, <1>21, <1>22, <1>23, <1>24, <1>25
  DEF Next, RefreshStep, PollStep, BoardStep

(* A snapshot accepted while another is being published is neither lost    *)
(* nor promoted in its place (promote_committed), whatever fails and       *)
(* however the tasks interleave.                                           *)
THEOREM NewestIsKept == Spec => []NewestKept
<1>1. ForwardInv => NewestKept
  BY DEF ForwardInv
<1> QED
  BY <1>1, InitForward, NextForward, PTL DEF Spec

(* One publication never replaces a schedule by one accepted earlier.      *)
LEMMA StepForward ==
  ASSUME ForwardInv, [Next]_vars, published # None
  PROVE  published' # None /\ published'.id >= published.id
<1>0. published.id \in Nat
  BY SnapshotFields DEF ForwardInv, TypeInv, TypeOK
<1>1. CASE UNCHANGED published
  BY <1>0, <1>1
<1>2. CASE Publish \/ PublishLateError
  <2>1. candidate \in Snapshot /\ candidate.id \in Nat /\ published.id <= candidate.id
    BY <1>2, SnapshotFields
    DEF Publish, PublishLateError, ForwardInv, PollInv, TypeInv, TypeOK
  <2> QED
    BY <1>0, <1>2, <2>1, NoneIsNoSnapshot DEF Publish, PublishLateError
<1>3. [Next]_vars => UNCHANGED published \/ Publish \/ PublishLateError
  BY DEF Next, vars, world, platforms, snapshots, refresher, poller, boards, history,
     NewSchedule, BoardChanges, Recover, Bootstrap, Begin, Crash, IntervalElapses,
     RefreshStep, Notified, Debounced, Compare, Fetch, Stage, Stations, Reload,
     FetchFails, PollStep, Candidate, Promote, PollFails, BoardStep, ReadBoards,
     Observe, Persist, Saved, SaveFails
<1> QED
  BY <1>1, <1>2, <1>3

(* Readers never go back to a schedule accepted earlier, across restarts,  *)
(* rejected downloads and polls whose publication ends in an error.        *)
THEOREM PublishedMovesForward == Spec => PublishedForward
<1>1. ForwardInv /\ [Next]_vars =>
        [published # None => published' # None /\ published'.id >= published.id]_vars
  BY StepForward
<1> QED
  BY <1>1, InitForward, NextForward, PTL DEF Spec, PublishedForward

----------------------------------------------------------------------------
(* Static and realtime data are switched together                          *)

CommitsReported == \A w \in Worlds : "late" \notin w.faults

(* Every step keeps active and published snapshot in step, unless a        *)
(* publication reports an error after its commit.                          *)
LEMMA NextPaired ==
  ASSUME CommitsReported, TypeInv, PollInv, PairInv, [Next]_vars
  PROVE  PairInv'
<1> USE DEF TypeInv, DownInv, PairInv, ActivePaired, Up,
        world, platforms, snapshots, refresher, poller, boards, history
<1>1. CASE UNCHANGED <<Up, poll, candidate, wasPending, active, published>>
  BY <1>1
<1>2. CASE Recover \/ Bootstrap
  BY <1>2 DEF Recover, Bootstrap, Begin
<1>3. CASE Crash
  BY <1>3 DEF Crash
<1>4. CASE Candidate
  BY <1>4 DEF Candidate
<1>5. CASE PollFails
  BY <1>5 DEF PollFails
<1>6. CASE Publish
  BY <1>6 DEF Publish
<1>7. CASE Promote
  BY <1>7 DEF Promote
<1>8. ~PublishLateError
  BY DEF PublishLateError, Fault, CommitsReported, TypeOK
<1>9. [Next]_vars =>
        \/ UNCHANGED <<Up, poll, candidate, wasPending, active, published>>
        \/ Recover \/ Bootstrap \/ Crash \/ Candidate \/ PollFails \/ Publish
        \/ Promote \/ PublishLateError
  BY DEF Next, vars, NewSchedule, BoardChanges, IntervalElapses, RefreshStep,
     Notified, Debounced, Compare, Fetch, Stage, Stations, Reload, FetchFails,
     PollStep, BoardStep, ReadBoards, Observe, Persist, Saved, SaveFails
<1> QED
  BY <1>1, <1>2, <1>3, <1>4, <1>5, <1>6, <1>7, <1>8, <1>9

(* Between publications the active snapshot is the one the published       *)
(* generation was built with, as long as no publication reports an error   *)
(* after its commit.                                                       *)
THEOREM ActiveIsPaired ==
  ASSUME CommitsReported
  PROVE  Spec => []ActivePaired
<1>1. Init => PairInv
  BY DEF Init, PairInv, ActivePaired, Up
<1>2. ForwardInv /\ PairInv /\ [Next]_vars => PairInv'
  BY NextPaired DEF ForwardInv
<1>3. PairInv => ActivePaired
  BY DEF PairInv
<1> QED
  BY <1>1, <1>2, <1>3, InitForward, NextForward, PTL DEF Spec

============================================================================
