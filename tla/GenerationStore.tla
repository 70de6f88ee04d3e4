-------------------------- MODULE GenerationStore --------------------------
(***************************************************************************)
(* The durable generation store of src/writer.rs: GenerationPublisher      *)
(* writes immutable generations to disk and makes them visible one at a    *)
(* time, GenerationStore recovers the last good one after a restart and    *)
(* deletes superseded ones.  Publication is serialised by publish_lock, so *)
(* one program counter describes it; readers only load `current` and       *)
(* `generations`, so every state while serving is a state they can see.    *)
(*                                                                         *)
(* The disk is modelled twice: as the process sees it (dir, marker) and as *)
(* it survives a loss of power (durableDir, durableMarker).  The two are   *)
(* brought together by the directory syncs of the code.                    *)
(*                                                                         *)
(* Generations are numbered in the order of their identifiers (seconds,    *)
(* counter), which is the order of allocation while the clock does not     *)
(* step back.  Number 0 stands for "none".                                 *)
(***************************************************************************)
EXTENDS Integers, FiniteSets

CONSTANTS
  MaxGen,          \* bound: generations ever allocated
  MaxTime,         \* bound: ticks of the clock
  MaxFaults,       \* bound: I/O errors and crashes together
  MaxGenerations,  \* GenerationRetention.max_generations
  RetainSuperseded,\* GenerationRetention.retain_superseded, in ticks
  BudgetBytes,     \* GenerationRetention.budget_bytes, in generations; 0: none
  ScarceSpace,     \* whether the filesystem itself may be nearly full
  FaultPoints,     \* the places of the program (values of pc) where faults
                   \* may strike
  LazyWriteback    \* whether a killed process may leave unsynced writes behind

ASSUME StoreAssumption ==
  /\ MaxGen \in Nat /\ MaxTime \in Nat /\ MaxFaults \in Nat
  /\ MaxGenerations \in Nat \ {0}
  /\ RetainSuperseded \in Nat /\ BudgetBytes \in Nat
  /\ ScarceSpace \in BOOLEAN /\ LazyWriteback \in BOOLEAN

Gens == 1 .. MaxGen
Null == 0

(* temp is the directory .ID.tmp; final the complete directory ID; partial *)
(* the directory ID after an interrupted remove_dir_all.                   *)
DirState == {"absent", "temp", "final", "partial"}

VARIABLES
  dir, durableDir,         \* the generation directories
  marker, durableMarker,   \* the file naming the current generation
  written,                 \* when each manifest was written (its mtime)
  current, generations,    \* the store's memory: what readers can load
  pc, phase, todo,         \* where the process is, and what it has to delete
  next,                    \* the next identifier
  result, before,          \* the last publish: its result, current at its start
  now, faults,
  visible, lastSeen        \* history: the last feed set readers could see,
                           \* and when each generation last was it

disk == <<dir, durableDir, marker, durableMarker, written>>
memory == <<current, generations>>
control == <<pc, phase, todo>>
attempt == <<next, result, before>>
history == <<visible, lastSeen>>
vars == <<disk, memory, control, attempt, now, faults, history>>

Opening == {"select", "repair", "syncRepair"}
Passes == {"temps", "prune", "budget", "load"}
Writing == {"space", "write", "rename", "syncGens", "mark", "syncMark",
            "load_new", "swap"}

Serving ==
  \/ pc \in {"idle"} \cup Writing
  \/ pc \in Passes /\ phase \in {"pre", "post"}

new == next - 1            \* the generation being published

TypeOK ==
  /\ dir \in [Gens -> DirState] /\ durableDir \in [Gens -> DirState]
  /\ marker \in Gens \cup {Null} /\ durableMarker \in Gens \cup {Null}
  /\ written \in [Gens -> Nat]
  /\ current \in Gens \cup {Null} /\ generations \subseteq Gens
  /\ pc \in {"down", "idle"} \cup Opening \cup Passes \cup Writing
  /\ phase \in {"none", "recover", "reopen", "pre", "post"}
  /\ todo \subseteq Gens
  /\ next \in 1 .. MaxGen + 1
  /\ result \in {"none", "ok", "err"} /\ before \in Gens \cup {Null}
  /\ now \in Nat /\ faults \in Nat
  /\ visible \in Gens \cup {Null} /\ lastSeen \in [Gens -> Int]

Init ==
  /\ dir = [g \in Gens |-> "absent"] /\ durableDir = dir
  /\ marker = Null /\ durableMarker = Null
  /\ written = [g \in Gens |-> 0]
  /\ current = Null /\ generations = {}
  /\ pc = "down" /\ phase = "none" /\ todo = {}
  /\ next = 1 /\ result = "none" /\ before = Null
  /\ now = 0 /\ faults = 0
  /\ visible = Null /\ lastSeen = [g \in Gens |-> -1]

----------------------------------------------------------------------------
(* Retention: what the scans of the output directory decide                *)

Complete == {g \in Gens : dir[g] = "final"}
Candidates == {g \in Gens : dir[g] \in {"final", "partial"}}

(* The next newer directory, whose write time is the supersession time.    *)
Superseded(g) ==
  \E h \in Candidates :
    /\ h > g
    /\ \A k \in Candidates : k > g => h <= k
    /\ now - written[h] >= RetainSuperseded

(* plan_superseded_deletions: newest first, what is expired goes, and so   *)
(* does everything once max_generations are kept.                          *)
SupersededDeletions(cur) ==
  LET unprotected == Candidates \ {cur}
      fresh == {g \in unprotected : ~Superseded(g)}
      keptAbove(g) == Cardinality({h \in fresh : h > g})
                      + Cardinality(Candidates \cap {cur})
  IN  {g \in unprotected : g \notin fresh \/ keptAbove(g) >= MaxGenerations}

(* plan_deletions: oldest first until the bytes fit.  Each complete        *)
(* generation frees one unit; a partial directory frees none and is kept.  *)
OverBudget(incoming) ==
  LET unprotected == Complete \ {current}
      olderThan(g) == Cardinality({h \in unprotected : h < g})
      excess == Cardinality(Complete) + incoming - BudgetBytes
  IN  {g \in unprotected : BudgetBytes > 0 /\ olderThan(g) < excess}

Oldest(S, g) == g \in S /\ \A h \in S : g <= h
Newest(S, g) == g \in S /\ \A h \in S : g >= h

(* The generation whose directory is being removed: superseded ones go     *)
(* newest first, the others oldest first.  delete_generation itself spares *)
(* the current one once more.                                              *)
Deleting(g) ==
  /\ g # current
  /\ \/ pc = "prune" /\ Newest(todo, g)
     \/ pc = "budget" /\ Oldest(todo, g)
     \/ pc = "space" /\ ScarceSpace /\ Oldest(Candidates \ {current}, g)

----------------------------------------------------------------------------
(* Recovery: GenerationStore::open_with_retention                          *)

Restart ==
  /\ pc = "down"
  /\ pc' = "select"
  /\ UNCHANGED <<disk, memory, phase, todo, attempt, now, faults, history>>

(* The generation the marker names, or failing that the newest complete.   *)
Recovers(s) ==
  IF marker \in Complete THEN s = marker
  ELSE IF Complete = {} THEN s = Null
  ELSE Newest(Complete, s)

Select ==
  /\ pc = "select"
  /\ \E s \in Gens \cup {Null} :
       /\ Recovers(s)
       /\ current' = s
       /\ generations' = {s} \cap Gens
       /\ IF s \in {Null, marker}
            THEN pc' = "prune" /\ todo' = SupersededDeletions(s)
            ELSE pc' = "repair" /\ todo' = {}
  /\ phase' = "recover"
  /\ UNCHANGED <<disk, attempt, now, faults, history>>

(* replace_marker: write a temporary file, rename it over the marker, sync *)
RepairMarker ==
  /\ pc = "repair"
  /\ marker' = current
  /\ pc' = "syncRepair"
  /\ UNCHANGED <<dir, durableDir, durableMarker, written, memory, phase, todo,
                 attempt, now, faults, history>>

SyncRepair ==
  /\ pc = "syncRepair"
  /\ durableMarker' = marker
  /\ pc' = "prune"
  /\ todo' = SupersededDeletions(current)
  /\ UNCHANGED <<dir, durableDir, marker, written, memory, phase,
                 attempt, now, faults, history>>

(* Only what retention spared is read into memory.                         *)
LoadSurvivors ==
  /\ pc = "load"
  /\ generations' = Complete
  /\ pc' = "temps"
  /\ phase' = "reopen"
  /\ UNCHANGED <<disk, current, todo, attempt, now, faults, history>>

----------------------------------------------------------------------------
(* Retention passes: enforce_retention and what it calls                   *)

RemoveStaleTemps ==
  /\ pc = "temps"
  /\ dir' = [g \in Gens |-> IF dir[g] = "temp" THEN "absent" ELSE dir[g]]
  /\ pc' = "prune"
  /\ todo' = SupersededDeletions(current)
  /\ UNCHANGED <<durableDir, marker, durableMarker, written, memory, phase,
                 attempt, now, faults, history>>

(* Mutant: the directory goes, the reference in memory stays.              *)
DeleteFilesOnly(g) ==
  /\ Deleting(g)
  /\ dir' = [dir EXCEPT ![g] = "absent"]
  /\ todo' = todo \ {g}
  /\ UNCHANGED <<durableDir, marker, durableMarker, written, memory, pc, phase,
                 attempt, now, faults, history>>

(* delete_generation: out of memory first, then off the disk.  The removal *)
(* is not synced.                                                          *)
Delete(g) ==
  /\ Deleting(g)
  /\ generations' = generations \ {g}
  /\ dir' = [dir EXCEPT ![g] = "absent"]
  /\ todo' = todo \ {g}
  /\ UNCHANGED <<durableDir, marker, durableMarker, written, current, pc,
                 phase, attempt, now, faults, history>>

DeleteSuperseded(g) == pc = "prune" /\ Delete(g)
DeleteOverBudget(g) == pc = "budget" /\ Delete(g)

PruneDone ==
  /\ pc = "prune" /\ todo = {}
  /\ IF phase = "recover"
       THEN pc' = "load" /\ todo' = {}
       ELSE /\ pc' = "budget"
            /\ todo' = OverBudget(IF phase = "pre" THEN 1 ELSE 0)
  /\ UNCHANGED <<disk, memory, phase, attempt, now, faults, history>>

(* Recovery ends: readers see what was recovered.                          *)
OpenDone ==
  /\ pc = "budget" /\ todo = {} /\ phase = "reopen"
  /\ pc' = "idle" /\ phase' = "none"
  /\ visible' = current
  /\ UNCHANGED <<disk, memory, todo, attempt, now, faults, lastSeen>>

----------------------------------------------------------------------------
(* Publication: publish_inner, under publish_lock                          *)

(* Mutant: no retention before a publication.                              *)
StartUnpruned ==
  /\ pc = "idle"
  /\ next \in Gens
  /\ pc' = "space"
  /\ result' = "none" /\ before' = current
  /\ UNCHANGED <<disk, memory, phase, todo, next, now, faults, history>>

StartPublish ==
  /\ pc = "idle"
  /\ next \in Gens                                  \* bound MaxGen
  /\ pc' = "temps" /\ phase' = "pre"
  /\ result' = "none" /\ before' = current
  /\ UNCHANGED <<disk, memory, todo, next, now, faults, history>>

(* Mutant: retention until the bytes fit, whatever may be deleted.         *)
UntilBudgetMet ==
  /\ pc = "budget" /\ todo = {} /\ phase = "pre"
  /\ IF BudgetBytes > 0 /\ Cardinality(Complete) + 1 > BudgetBytes
       THEN pc' = "temps" /\ phase' = "pre"
       ELSE pc' = "space" /\ phase' = "none"
  /\ UNCHANGED <<disk, memory, todo, attempt, now, faults, history>>

BudgetMet ==
  /\ pc = "budget" /\ todo = {} /\ phase = "pre"
  /\ pc' = "space" /\ phase' = "none"
  /\ UNCHANGED <<disk, memory, todo, attempt, now, faults, history>>

(* ensure_publish_space: the oldest unprotected generation is deleted as   *)
(* long as the filesystem cannot hold the new one.                         *)
FreeSpace(g) == pc = "space" /\ Delete(g)

SpaceDone ==
  /\ pc = "space"
  /\ pc' = "write"
  /\ UNCHANGED <<disk, memory, phase, todo, attempt, now, faults, history>>

(* The temporary directory with its artifacts and manifest, synced.        *)
WriteTemporary ==
  /\ pc = "write"
  /\ dir' = [dir EXCEPT ![next] = "temp"]
  /\ written' = [written EXCEPT ![next] = now]
  /\ next' = next + 1
  /\ pc' = "rename"
  /\ UNCHANGED <<durableDir, marker, durableMarker, memory, phase, todo,
                 result, before, now, faults, history>>

RenameGeneration ==
  /\ pc = "rename"
  /\ dir' = [dir EXCEPT ![new] = "final"]
  /\ pc' = "syncGens"
  /\ UNCHANGED <<durableDir, marker, durableMarker, written, memory, phase,
                 todo, attempt, now, faults, history>>

(* Mutant: the rename is not synced before the marker names it.            *)
SkipSyncGenerations ==
  /\ pc = "syncGens"
  /\ pc' = "mark"
  /\ UNCHANGED <<disk, memory, phase, todo, attempt, now, faults, history>>

SyncGenerations ==
  /\ pc = "syncGens"
  /\ durableDir' = dir
  /\ pc' = "mark"
  /\ UNCHANGED <<dir, marker, durableMarker, written, memory, phase, todo,
                 attempt, now, faults, history>>

RenameMarker ==
  /\ pc = "mark"
  /\ marker' = new
  /\ pc' = "syncMark"
  /\ UNCHANGED <<dir, durableDir, durableMarker, written, memory, phase, todo,
                 attempt, now, faults, history>>

(* Mutant: the new marker is not synced before readers see it.             *)
SkipSyncMarker ==
  /\ pc = "syncMark"
  /\ pc' = "load_new"
  /\ UNCHANGED <<disk, memory, phase, todo, attempt, now, faults, history>>

SyncMarker ==
  /\ pc = "syncMark"
  /\ durableMarker' = marker
  /\ pc' = "load_new"
  /\ UNCHANGED <<dir, durableDir, marker, written, memory, phase, todo,
                 attempt, now, faults, history>>

(* load_generation reads the new directory back; commit then makes it      *)
(* addressable and, in a second critical section, current.                 *)
LoadNew ==
  /\ pc = "load_new"
  /\ dir[new] = "final"
  /\ generations' = generations \cup {new}
  /\ pc' = "swap"
  /\ UNCHANGED <<disk, current, phase, todo, attempt, now, faults, history>>

(* History: readers could still see feed set g just now.                   *)
Seen(g) == lastSeen' = [h \in Gens |-> IF h = g THEN now ELSE lastSeen[h]]

(* Mutant: the identifier of the next publication becomes current.         *)
SwapNext ==
  /\ pc = "swap"
  /\ current' = next
  /\ visible' = next
  /\ Seen(current)
  /\ pc' = "temps" /\ phase' = "post"
  /\ UNCHANGED <<disk, generations, todo, attempt, now, faults>>

Swap ==
  /\ pc = "swap"
  /\ current' = new
  /\ visible' = new
  /\ Seen(current)
  /\ pc' = "temps" /\ phase' = "post"
  /\ UNCHANGED <<disk, generations, todo, attempt, now, faults>>

PublishDone ==
  /\ pc = "budget" /\ todo = {} /\ phase = "post"
  /\ pc' = "idle" /\ phase' = "none" /\ result' = "ok"
  /\ UNCHANGED <<disk, memory, todo, next, before, now, faults, history>>

----------------------------------------------------------------------------
(* Faults                                                                  *)

Fault ==
  /\ pc \in FaultPoints
  /\ faults < MaxFaults                                    \* bound MaxFaults
  /\ faults' = faults + 1

(* remove_dir_all stops half way; the directory's own mtime then stands in *)
(* for that of a lost manifest.                                            *)
LeftPartial(g) ==
  /\ Deleting(g)
  /\ dir' = [dir EXCEPT ![g] = "partial"]
  /\ written' \in {written, [written EXCEPT ![g] = now]}

(* Any step of a publication may fail: `?' returns its error.  A deletion  *)
(* that fails has already taken the generation out of memory.              *)
PublishFails ==
  /\ Fault
  /\ Serving /\ pc # "idle"
  /\ pc' = "idle" /\ phase' = "none" /\ todo' = {} /\ result' = "err"
  /\ \/ UNCHANGED <<dir, written, generations>>
     \/ \E g \in Gens :
          /\ \/ LeftPartial(g)
             \/ Deleting(g) /\ UNCHANGED <<dir, written>>
          /\ generations' = generations \ {g}
  /\ UNCHANGED <<durableDir, marker, durableMarker, current, next, before, now,
                 history>>

(* The memory of the process is gone.                                      *)
Down ==
  /\ pc # "down"
  /\ pc' = "down" /\ phase' = "none" /\ todo' = {} /\ result' = "none"
  /\ current' = Null /\ generations' = {}
  /\ IF Serving THEN Seen(visible) ELSE UNCHANGED lastSeen
  /\ UNCHANGED <<next, before, now, visible>>

(* The process ends (an open that fails, a container replaced, an abort)   *)
(* and the system lives on: what it did is in the page cache.  Unless      *)
(* LazyWriteback, the cache has been written back when power is lost next. *)
Kill ==
  /\ Fault /\ Down
  /\ UNCHANGED <<dir, written>> \/ \E g \in Gens : LeftPartial(g)
  /\ marker' = marker
  /\ IF LazyWriteback
       THEN UNCHANGED <<durableDir, durableMarker>>
       ELSE durableDir' = dir' /\ durableMarker' = marker'

(* Power is lost: each unsynced change has reached the disk or not, and a  *)
(* removal that was not synced may be undone in part.                      *)
AfterPowerLoss(g) ==
  {dir[g], durableDir[g]} \cup
  IF \/ Deleting(g)
     \/ dir[g] = "absent" /\ durableDir[g] \in {"final", "partial"}
    THEN {"partial"} ELSE {}

PowerLoss ==
  /\ Fault /\ Down
  /\ \E d \in [Gens -> DirState] :
       /\ \A g \in Gens : d[g] \in AfterPowerLoss(g)
       /\ dir' = d /\ durableDir' = d
       /\ written' \in {written, [g \in Gens |->
            IF d[g] = "partial" /\ dir[g] # "partial" THEN now ELSE written[g]]}
  /\ marker' \in {marker, durableMarker} /\ durableMarker' = marker'

----------------------------------------------------------------------------
(* One step of the open or publication under way.                          *)
Step ==
  \/ Restart \/ Select \/ RepairMarker \/ SyncRepair \/ LoadSurvivors
  \/ RemoveStaleTemps \/ PruneDone \/ OpenDone
  \/ \E g \in Gens : DeleteSuperseded(g) \/ DeleteOverBudget(g) \/ FreeSpace(g)
  \/ BudgetMet \/ SpaceDone \/ WriteTemporary \/ RenameGeneration
  \/ SyncGenerations \/ RenameMarker \/ SyncMarker \/ LoadNew \/ Swap
  \/ PublishDone

(* A tick is long for one open or publication: it passes between them.     *)
Tick ==
  /\ pc \in {"idle", "down"}
  /\ now < MaxTime                                         \* bound MaxTime
  /\ now' = now + 1
  /\ UNCHANGED <<disk, memory, control, attempt, faults, history>>

(* Past the bounds the store only answers readers.                         *)
Exhausted ==
  /\ pc = "idle" /\ next > MaxGen /\ now = MaxTime
  /\ faults < MaxFaults => pc \notin FaultPoints
  /\ UNCHANGED vars

Next == Step \/ StartPublish \/ PublishFails \/ Kill \/ PowerLoss \/ Tick
        \/ Exhausted

Spec == Init /\ [][Next]_vars

(* The task that opens the store and publishes keeps running, and Docker   *)
(* restarts it when it ends.                                               *)
FairSpec == Spec /\ WF_vars(Step)

----------------------------------------------------------------------------
(* Safety                                                                  *)

(* What readers are told exists does: the current generation is            *)
(* addressable, and every addressable generation is a complete directory,  *)
(* whatever retention deleted and wherever a publication or a deletion     *)
(* failed.  (GenerationStore: "The generation referenced by the current    *)
(* feed set is never deleted".)                                            *)
ReadersIntact ==
  Serving => /\ current # Null => current \in generations
             /\ generations \subseteq Complete

(* What readers can see survives a loss of power: the rename of the        *)
(* current generation's directory has been synced.  (GenerationCommitter:  *)
(* "must not report success until the generation is durable"; open         *)
(* "recovers its durable last-good generation".)                           *)
CurrentDurable ==
  Serving /\ current # Null => durableDir[current] = "final"

(* The count cap bounds the volume: failed publications and interrupted    *)
(* deletions leave directories behind, yet never more than the one being   *)
(* published beyond max_generations, and none beyond it once a publication *)
(* has succeeded.                                                          *)
VolumeBounded ==
  Serving =>
    Cardinality(Candidates)
      <= MaxGenerations + (IF pc = "idle" /\ result = "ok" THEN 0 ELSE 1)

(* A reader who fetched a generation's manifest can fetch its artifacts    *)
(* for the retention window after it was last current, also across         *)
(* restarts.                                                               *)
(* (GenerationStore: "A superseded generation stays addressable for the    *)
(* retention window".)  To be read where neither the count cap nor the     *)
(* byte budget nor the filesystem is the limit.                            *)
ReaderWindow ==
  Serving => \A g \in Gens :
    lastSeen[g] >= 0 /\ now < lastSeen[g] + RetainSuperseded
      => g \in generations

(* "Durable publication failure. The store's current pointer is            *)
(* unchanged" (PublishError).                                              *)
ErrorKeepsCurrent == pc = "idle" /\ result = "err" => current = before

(* The store keeps the promise of FeedSet: one atomic move forward per     *)
(* publication, the current generation always addressable, and no restart  *)
(* takes readers back to an earlier feed set.                              *)
FS == INSTANCE FeedSet WITH
        feed <- visible, online <- Serving,
        offered <- IF Serving THEN generations ELSE {}
FeedSetSpec == FS!Spec

(* Every open and every publication comes to an end: the loops of          *)
(* retention and of ensure_publish_space terminate, and the store is ready *)
(* for the next publication again and again.                               *)
AlwaysIdleAgain == []<>(pc = "idle")

=============================================================================
