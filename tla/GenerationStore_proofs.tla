----------------------- MODULE GenerationStore_proofs -----------------------
(***************************************************************************)
(* Proofs about GenerationStore, for every bound, retention setting and    *)
(* set of fault points.                                                    *)
(***************************************************************************)
EXTENDS GenerationStore, FiniteSetTheorems, WellFoundedInduction, TLAPS

(* The values of the program counter at which the process has recovered a  *)
(* generation (or found none) and holds it in memory.                      *)
Recovered == pc \notin {"down", "select"}

(* After a step that has taken the identifier `new'.                       *)
Allocated == pc \in {"rename", "syncGens", "mark", "syncMark", "load_new", "swap"}

(* The phase tells which caller a retention pass returns to.               *)
PhaseInv ==
  /\ pc \in {"repair", "syncRepair", "load"} => phase = "recover"
  /\ pc \in {"temps", "budget"} => phase \in {"reopen", "pre", "post"}
  /\ pc = "prune" => phase # "none"
  /\ pc \in {"down", "select", "idle"} \cup Writing => phase = "none"

(* An identifier is left for the publication under way.                    *)
BoundInv ==
  /\ pc \in {"space", "write"} \/ phase = "pre" => next \in Gens
  /\ Allocated => new \in Gens

(* Identifiers from `next' on have never been used.                        *)
FreshInv ==
  /\ \A g \in Gens : g >= next => dir[g] = "absent" /\ durableDir[g] = "absent"
  /\ marker < next /\ durableMarker < next
  /\ current < next /\ visible < next

(* What a retention pass has planned to delete is still there.             *)
PlanInv ==
  /\ todo \subseteq Candidates
  /\ pc \notin {"prune", "budget"} => todo = {}

(* What is in memory is complete on disk.                                  *)
MemoryInv ==
  /\ generations \subseteq Complete
  /\ current # Null => current \in generations
  /\ ~Recovered => current = Null

(* The new generation is on its way from the temporary directory to the    *)
(* readers.                                                                *)
PublishInv ==
  Allocated =>
    /\ new \in Gens /\ current < new
    /\ pc = "rename" => dir[new] = "temp"
    /\ pc # "rename" => dir[new] = "final"
    /\ pc \in {"mark", "syncMark", "load_new", "swap"} => durableDir[new] = "final"
    /\ pc \in {"syncMark", "load_new", "swap"} => marker = new
    /\ pc \in {"load_new", "swap"} => durableMarker = new
    /\ pc = "swap" => new \in generations

TypeInv == TypeOK /\ PhaseInv /\ BoundInv

(* What readers see is durable, while a killed process leaves nothing      *)
(* unwritten.                                                              *)
DurableInv ==
  /\ Recovered /\ current # Null => durableDir[current] = "final"
  /\ ~Recovered => durableDir = dir /\ durableMarker = marker

(* Whatever a restart finds, it finds the last visible generation or a     *)
(* later one.                                                              *)
VisibleInv ==
  /\ visible <= marker /\ visible <= durableMarker
  /\ Recovered => visible <= current
  /\ Recovered /\ pc # "repair" => current <= marker
  /\ Recovered /\ pc \notin {"repair", "syncRepair"} => current <= durableMarker
  /\ ~Recovered /\ visible # Null => \E a \in Complete : visible <= a
  /\ Serving => visible = current

SafeInv == TypeInv /\ PlanInv /\ FreshInv /\ MemoryInv /\ PublishInv

----------------------------------------------------------------------------

(* Generations are numbers, and none of them stands for "none".            *)
LEMMA GensNat == Gens \subseteq Nat /\ Null \notin Gens
BY StoreAssumption DEF Gens, Null

(* Deletions never touch the current generation.                           *)
LEMMA DeletionTarget ==
  ASSUME TypeOK, NEW g, Deleting(g)
  PROVE  /\ g \in Gens /\ g # current
         /\ pc \in {"prune", "budget", "space"}
BY DEF Deleting, Newest, Oldest, TypeOK, Candidates

(* What the plans of retention select are existing generations.            *)
LEMMA PlansArePresent ==
  /\ \A c : SupersededDeletions(c) \subseteq Candidates
  /\ \A n : OverBudget(n) \subseteq Candidates
  /\ Candidates \subseteq Gens
  /\ \A c : SupersededDeletions(c) \subseteq Gens
  /\ \A n : OverBudget(n) \subseteq Gens
BY DEF SupersededDeletions, OverBudget, Candidates, Complete

----------------------------------------------------------------------------
(* Type correctness                                                        *)

(* An empty volume and a process not started are well formed.              *)
LEMMA InitType == Init => TypeInv
BY StoreAssumption, GensNat
   DEF Init, TypeInv, TypeOK, PhaseInv, BoundInv, Allocated, DirState, Null, Gens, Opening, Passes,
       Writing

(* The history of what readers saw stays a record of times.                *)
LEMMA SeenType ==
  ASSUME TypeOK, NEW g, Seen(g)
  PROVE  lastSeen' \in [Gens -> Int]
BY DEF Seen, TypeOK

(* An interrupted remove_dir_all leaves a directory in one of its states.  *)
LEMMA LeftPartialType ==
  ASSUME TypeOK, NEW g \in Gens, LeftPartial(g)
  PROVE  dir' \in [Gens -> DirState] /\ written' \in [Gens -> Nat]
BY DEF LeftPartial, TypeOK, DirState

(* A process that ends leaves nothing in memory.                           *)
LEMMA DownType ==
  ASSUME TypeOK, Down
  PROVE  /\ pc' = "down" /\ phase' = "none" /\ todo' = {} /\ result' = "none"
         /\ current' = Null /\ generations' = {}
         /\ UNCHANGED <<next, before, now, visible>>
         /\ lastSeen' \in [Gens -> Int]
BY SeenType DEF Down, TypeOK

(* Every step keeps the state well formed and its retention phase right.   *)
LEMMA NextType == TypeInv /\ [Next]_vars => TypeInv'
<1> SUFFICES ASSUME TypeInv, [Next]_vars PROVE TypeInv'
  OBVIOUS
<1> USE StoreAssumption, GensNat, PlansArePresent
    DEF TypeInv, TypeOK, PhaseInv, BoundInv, Allocated, new, disk, memory, control, attempt, history
<1>1. CASE Restart
  BY <1>1 DEF Restart, Opening, Passes, Writing, DirState, Gens, Null
<1>2. CASE Select
  BY <1>2 DEF Select, Opening, Passes, Writing, DirState, Gens, Null
<1>3. CASE RepairMarker
  BY <1>3 DEF RepairMarker, Opening, Passes, Writing, DirState, Gens, Null
<1>4. CASE SyncRepair
  BY <1>4 DEF SyncRepair, Opening, Passes, Writing, DirState, Gens, Null
<1>5. CASE LoadSurvivors
  BY <1>5 DEF LoadSurvivors, Complete, Opening, Passes, Writing, DirState, Gens, Null
<1>6. CASE RemoveStaleTemps
  BY <1>6 DEF RemoveStaleTemps, Opening, Passes, Writing, DirState, Gens, Null
<1>7. CASE PruneDone
  BY <1>7 DEF PruneDone, Opening, Passes, Writing, DirState, Gens, Null
<1>8. CASE OpenDone
  BY <1>8 DEF OpenDone, Opening, Passes, Writing, DirState, Gens, Null
<1>9. CASE BudgetMet
  BY <1>9 DEF BudgetMet, Opening, Passes, Writing, DirState, Gens, Null
<1>10. CASE SpaceDone
  BY <1>10 DEF SpaceDone, Opening, Passes, Writing, DirState, Gens, Null
<1>11. CASE WriteTemporary
  <2>1. next \in Gens /\ new' = next
    BY <1>11 DEF WriteTemporary, Gens
  <2>2. dir' \in [Gens -> DirState] /\ written' \in [Gens -> Nat]
    BY <1>11 DEF WriteTemporary, DirState
  <2>3. next' \in 1 .. MaxGen + 1
    BY <1>11, <2>1 DEF WriteTemporary, Gens
  <2>4. pc' = "rename" /\ phase' = phase
    BY <1>11 DEF WriteTemporary
  <2>5. TypeOK'
    BY <1>11, <2>2, <2>3, <2>4 DEF WriteTemporary, Writing
  <2>6. PhaseInv' /\ BoundInv'
    BY <2>1, <2>4, <1>11 DEF WriteTemporary, Writing
  <2>7. QED
    BY <2>5, <2>6
<1>12. CASE RenameGeneration
  BY <1>12 DEF RenameGeneration, Opening, Passes, Writing, DirState, Gens, Null
<1>13. CASE SyncGenerations
  BY <1>13 DEF SyncGenerations, Opening, Passes, Writing, DirState, Gens, Null
<1>14. CASE RenameMarker
  BY <1>14 DEF RenameMarker, Opening, Passes, Writing, DirState, Gens, Null
<1>15. CASE SyncMarker
  BY <1>15 DEF SyncMarker, Opening, Passes, Writing, DirState, Gens, Null
<1>16. CASE LoadNew
  BY <1>16 DEF LoadNew, Complete, Opening, Passes, Writing, DirState, Gens, Null
<1>17. CASE Swap
  BY <1>17, SeenType DEF Swap, Opening, Passes, Writing, DirState, Gens, Null
<1>18. CASE PublishDone
  BY <1>18 DEF PublishDone, Opening, Passes, Writing, DirState, Gens, Null
<1>19. CASE \E g \in Gens : DeleteSuperseded(g) \/ DeleteOverBudget(g) \/ FreeSpace(g)
  BY <1>19, DeletionTarget DEF DeleteSuperseded, DeleteOverBudget, FreeSpace, Delete, Opening, Passes, Writing, DirState, Gens, Null
<1>20. CASE StartPublish
  BY <1>20 DEF StartPublish, Opening, Passes, Writing, DirState, Gens, Null
<1>21. CASE PublishFails
  <2>1. generations' \subseteq Gens
    BY <1>21 DEF PublishFails
  <2>2. dir' \in [Gens -> DirState] /\ written' \in [Gens -> Nat]
    BY <1>21, LeftPartialType DEF PublishFails
  <2>3. QED
    BY <1>21, <2>1, <2>2 DEF PublishFails, Fault, Opening, Passes, Writing, DirState, Gens, Null
<1>22. CASE Kill
  <2>1. dir' \in [Gens -> DirState] /\ written' \in [Gens -> Nat]
    BY <1>22, LeftPartialType DEF Kill
  <2>2. durableDir' \in {durableDir, dir'} /\ durableMarker' \in {durableMarker, marker'}
    BY <1>22 DEF Kill
  <2>3. marker' \in Gens \cup {Null} /\ faults' \in Nat
    BY <1>22 DEF Kill, Fault
  <2>4. QED
    BY <1>22, <2>1, <2>2, <2>3, DownType DEF Kill, Writing, Null
<1>23. CASE PowerLoss
  <2>1. PICK d \in [Gens -> DirState] :
          /\ dir' = d /\ durableDir' = d
          /\ written' \in {written, [g \in Gens |->
               IF d[g] = "partial" /\ dir[g] # "partial" THEN now ELSE written[g]]}
    BY <1>23 DEF PowerLoss
  <2>2. written' \in [Gens -> Nat]
    BY <2>1
  <2>3. marker' \in Gens \cup {Null} /\ durableMarker' = marker' /\ faults' \in Nat
    BY <1>23 DEF PowerLoss, Fault
  <2>4. QED
    BY <1>23, <2>1, <2>2, <2>3, DownType DEF PowerLoss, Writing, Null
<1>24. CASE Tick
  BY <1>24 DEF Tick, Opening, Passes, Writing, DirState, Gens, Null
<1>25. CASE Exhausted
  BY <1>25 DEF Exhausted, vars, Opening, Passes, Writing, DirState, Gens, Null
<1>26. CASE UNCHANGED vars
  BY <1>26 DEF vars, Opening, Passes, Writing, DirState, Gens, Null
<1>27. QED
  BY <1>1, <1>2, <1>3, <1>4, <1>5, <1>6, <1>7, <1>8, <1>9, <1>10, <1>11, <1>12, <1>13, <1>14, <1>15, <1>16, <1>17, <1>18, <1>19, <1>20, <1>21, <1>22, <1>23, <1>24, <1>25, <1>26 DEF Next, Step

(* Every variable keeps its type, whatever the bounds.                     *)
THEOREM TypeCorrect == Spec => []TypeOK
<1>1. Init => TypeInv
  BY InitType
<1>2. TypeInv /\ [Next]_vars => TypeInv'
  BY NextType
<1>3. TypeInv => TypeOK
  BY DEF TypeInv
<1>4. QED
  BY <1>1, <1>2, <1>3, PTL DEF Spec

----------------------------------------------------------------------------
(* The state that survives of the process                          *)

(* A directory picked for deletion exists, a planned one unless the plan   *)
(* has already been carried out.                                           *)
LEMMA DeletionPresent ==
  ASSUME SafeInv, NEW g \in Gens, Deleting(g)
  PROVE  dir[g] # "absent"
BY DEF Deleting, Oldest, Newest, SafeInv, PlanInv, Candidates

(* A failed publication changes at most the directory it was deleting.     *)
LEMMA PublishFailsDisk ==
  ASSUME PublishFails
  PROVE  \/ UNCHANGED <<dir, written, generations>>
         \/ \E g \in Gens :
              /\ LeftPartial(g) \/ (Deleting(g) /\ UNCHANGED <<dir, written>>)
              /\ generations' = generations \ {g}
BY DEF PublishFails

(* A killed process changes at most the directory it was deleting.         *)
LEMMA KillDisk ==
  ASSUME SafeInv, Kill
  PROVE  /\ \A g \in Gens : dir[g] = "absent" => dir'[g] = "absent"
         /\ current # Null => dir'[current] = dir[current]
         /\ durableDir' \in {durableDir, dir'}
         /\ marker' = marker /\ durableMarker' \in {durableMarker, marker}
<1>1. CASE UNCHANGED <<dir, written>>
  BY <1>1 DEF Kill
<1>2. CASE \E g \in Gens : LeftPartial(g)
  <2>1. PICK g \in Gens : LeftPartial(g)
    BY <1>2
  <2>2. g # current /\ dir[g] # "absent" /\ dir' = [dir EXCEPT ![g] = "partial"]
    BY <2>1, DeletionTarget, DeletionPresent DEF LeftPartial, SafeInv, TypeInv
  <2>3. QED
    BY <2>2 DEF Kill, SafeInv, TypeInv, TypeOK
<1>3. QED
  BY <1>1, <1>2 DEF Kill

(* A loss of power invents no directory and spares those at rest.          *)
LEMMA PowerLossDisk ==
  ASSUME SafeInv, PowerLoss
  PROVE  /\ \A g \in Gens :
              dir[g] = "absent" /\ durableDir[g] = "absent" => dir'[g] = "absent"
         /\ \A g \in Gens :
              dir[g] = "final" /\ durableDir[g] = "final" /\ ~Deleting(g)
                => dir'[g] = "final"
         /\ durableDir' = dir'
         /\ marker' \in {marker, durableMarker} /\ durableMarker' = marker'
<1>1. PICK d \in [Gens -> DirState] :
        /\ \A g \in Gens : d[g] \in AfterPowerLoss(g)
        /\ dir' = d /\ durableDir' = d
  BY DEF PowerLoss
<1>2. ASSUME NEW g \in Gens, dir[g] = "absent", durableDir[g] = "absent"
      PROVE  dir'[g] = "absent"
  <2>1. ~Deleting(g)
    BY <1>2, DeletionPresent
  <2>2. AfterPowerLoss(g) = {"absent"}
    BY <1>2, <2>1 DEF AfterPowerLoss
  <2>3. QED
    BY <1>1, <2>2
<1>3. ASSUME NEW g \in Gens, dir[g] = "final", durableDir[g] = "final", ~Deleting(g)
      PROVE  dir'[g] = "final"
  <2>1. AfterPowerLoss(g) = {"final"}
    BY <1>3 DEF AfterPowerLoss
  <2>2. QED
    BY <1>1, <2>1
<1>4. QED
  BY <1>1, <1>2, <1>3 DEF PowerLoss

(* Every step keeps memory, disk and the publication under way in          *)
(* agreement.                                                              *)
LEMMA NextSafe ==
  ASSUME SafeInv, [Next]_vars, TypeInv'
  PROVE  SafeInv'
<1> USE StoreAssumption, GensNat, PlansArePresent
    DEF SafeInv, TypeInv, TypeOK, PhaseInv, BoundInv, PlanInv, FreshInv, MemoryInv, PublishInv,
        Recovered, Allocated, Complete, Candidates, new, Null, Gens, DirState, Opening, Passes,
        Writing, disk, memory, control, attempt, history
<1>1. CASE Restart
  BY <1>1 DEF Restart
<1>2. CASE Select
  <2>1. PICK s \in Gens \cup {Null} :
          /\ s \in Complete \cup {Null}
          /\ current' = s /\ generations' = {s} \cap Gens
          /\ \/ pc' = "prune" /\ todo' = SupersededDeletions(s)
             \/ pc' = "repair" /\ todo' = {}
    BY <1>2 DEF Select, Recovers, Newest
  <2>2. PlanInv'
    BY <1>2, <2>1 DEF Select
  <2>3. FreshInv'
    BY <1>2, <2>1 DEF Select
  <2>4. MemoryInv' /\ PublishInv'
    BY <1>2, <2>1 DEF Select
  <2>5. QED
    BY <2>2, <2>3, <2>4
<1>3. CASE RepairMarker
  BY <1>3 DEF RepairMarker
<1>4. CASE SyncRepair
  BY <1>4 DEF SyncRepair
<1>5. CASE LoadSurvivors
  BY <1>5 DEF LoadSurvivors
<1>6. CASE RemoveStaleTemps
  <2>1. Complete' = Complete
    BY <1>6 DEF RemoveStaleTemps
  <2>2. \A g \in Gens : dir[g] = "absent" => dir'[g] = "absent"
    BY <1>6 DEF RemoveStaleTemps
  <2>3. PlanInv' /\ FreshInv'
    BY <1>6, <2>2, PlansArePresent DEF RemoveStaleTemps
  <2>4. MemoryInv' /\ PublishInv'
    BY <1>6, <2>1 DEF RemoveStaleTemps
  <2>5. QED
    BY <2>3, <2>4
<1>7. CASE PruneDone
  BY <1>7 DEF PruneDone
<1>8. CASE OpenDone
  BY <1>8 DEF OpenDone
<1>9. CASE BudgetMet
  BY <1>9 DEF BudgetMet
<1>10. CASE SpaceDone
  BY <1>10 DEF SpaceDone
<1>11. CASE WriteTemporary
  BY <1>11 DEF WriteTemporary
<1>12. CASE RenameGeneration
  BY <1>12 DEF RenameGeneration
<1>13. CASE SyncGenerations
  BY <1>13 DEF SyncGenerations
<1>14. CASE RenameMarker
  BY <1>14 DEF RenameMarker
<1>15. CASE SyncMarker
  BY <1>15 DEF SyncMarker
<1>16. CASE LoadNew
  BY <1>16 DEF LoadNew
<1>17. CASE Swap
  BY <1>17 DEF Swap
<1>18. CASE PublishDone
  BY <1>18 DEF PublishDone
<1>19. CASE \E g \in Gens : DeleteSuperseded(g) \/ DeleteOverBudget(g) \/ FreeSpace(g)
  <2>1. PICK g \in Gens : Delete(g)
    BY <1>19 DEF DeleteSuperseded, DeleteOverBudget, FreeSpace
  <2>2. g # current /\ pc \in {"prune", "budget", "space"}
    BY <2>1, DeletionTarget DEF Delete
  <2>3. PlanInv' /\ FreshInv'
    BY <2>1 DEF Delete
  <2>4. MemoryInv' /\ PublishInv'
    BY <2>1, <2>2 DEF Delete
  <2>5. QED
    BY <2>3, <2>4
<1>20. CASE StartPublish
  BY <1>20 DEF StartPublish
<1>21. CASE PublishFails
  <2>1. CASE UNCHANGED <<dir, written, generations>>
    BY <1>21, <2>1 DEF PublishFails
  <2>2. CASE \E g \in Gens :
          /\ LeftPartial(g) \/ (Deleting(g) /\ UNCHANGED <<dir, written>>)
          /\ generations' = generations \ {g}
    <3>1. PICK g \in Gens :
            /\ LeftPartial(g) \/ (Deleting(g) /\ UNCHANGED <<dir, written>>)
            /\ generations' = generations \ {g}
      BY <2>2
    <3>2. Deleting(g)
      BY <3>1 DEF LeftPartial
    <3>3. g # current /\ dir[g] # "absent"
      BY <3>2, DeletionPresent, DeletionTarget
    <3>4. dir' = dir \/ dir' = [dir EXCEPT ![g] = "partial"]
      BY <3>1 DEF LeftPartial
    <3>5. PlanInv' /\ FreshInv'
      BY <1>21, <3>3, <3>4 DEF PublishFails
    <3>6. MemoryInv' /\ PublishInv'
      BY <1>21, <3>1, <3>3, <3>4 DEF PublishFails
    <3>7. QED
      BY <3>5, <3>6
  <2>3. \/ UNCHANGED <<dir, written, generations>>
        \/ \E g \in Gens :
             /\ LeftPartial(g) \/ (Deleting(g) /\ UNCHANGED <<dir, written>>)
             /\ generations' = generations \ {g}
    BY <1>21, PublishFailsDisk
  <2>4. QED
    BY <2>1, <2>2, <2>3
<1>22. CASE Kill
  <2>1. /\ \A g \in Gens : dir[g] = "absent" => dir'[g] = "absent"
        /\ durableDir' \in {durableDir, dir'}
        /\ marker' = marker /\ durableMarker' \in {durableMarker, marker}
    BY <1>22, KillDisk
  <2>2. /\ pc' = "down" /\ todo' = {} /\ current' = Null /\ generations' = {}
        /\ UNCHANGED <<next, visible>>
    BY <1>22, DownType DEF Kill
  <2>3. PlanInv'
    BY <2>2
  <2>4. FreshInv'
    <3>1. CASE durableDir' = durableDir
      BY <2>1, <2>2, <3>1
    <3>2. CASE durableDir' = dir'
      BY <2>1, <2>2, <3>2
    <3>3. QED
      BY <2>1, <3>1, <3>2
  <2>5. MemoryInv' /\ PublishInv'
    BY <2>2
  <2>6. QED
    BY <2>3, <2>4, <2>5
<1>23. CASE PowerLoss
  <2>1. /\ \A g \in Gens :
             dir[g] = "absent" /\ durableDir[g] = "absent" => dir'[g] = "absent"
        /\ durableDir' = dir'
        /\ marker' \in {marker, durableMarker} /\ durableMarker' = marker'
    BY <1>23, PowerLossDisk
  <2>2. /\ pc' = "down" /\ todo' = {} /\ current' = Null /\ generations' = {}
        /\ UNCHANGED <<next, visible>>
    BY <1>23, DownType DEF PowerLoss
  <2>3. PlanInv' /\ FreshInv'
    BY <2>1, <2>2
  <2>4. MemoryInv' /\ PublishInv'
    BY <2>2
  <2>5. QED
    BY <2>3, <2>4
<1>24. CASE Tick
  BY <1>24 DEF Tick
<1>25. CASE Exhausted
  BY <1>25 DEF Exhausted, vars
<1>26. CASE UNCHANGED vars
  BY <1>26 DEF vars
<1>27. QED
  BY <1>1, <1>2, <1>3, <1>4, <1>5, <1>6, <1>7, <1>8, <1>9, <1>10, <1>11, <1>12, <1>13, <1>14, <1>15, <1>16, <1>17, <1>18, <1>19, <1>20, <1>21, <1>22, <1>23, <1>24, <1>25, <1>26
     DEF Next, Step

----------------------------------------------------------------------------
(* What readers are promised                                              *)

(* The invariants hold of an empty volume.                                 *)
LEMMA InitSafe == Init => SafeInv /\ DurableInv /\ VisibleInv
BY InitType, StoreAssumption
   DEF Init, SafeInv, PlanInv, FreshInv, MemoryInv, PublishInv, DurableInv, VisibleInv,
       Recovered, Allocated, Serving, Writing, Passes, Null, Gens, Complete

(* Recovery and the idle store delete nothing, so a kill leaves them alone. *)
LEMMA KillAtRest ==
  ASSUME TypeOK, Kill, ~Recovered
  PROVE  dir' = dir
BY DeletionTarget DEF Kill, LeftPartial, Recovered

(* Recovery finds the marker's generation or else the newest.              *)
LEMMA SelectRecovers ==
  ASSUME TypeOK, Select
  PROVE  /\ current' \in Complete \cup {Null}
         /\ marker \in Complete => current' = marker
         /\ marker \notin Complete => \A a \in Complete : a <= current'
<1>1. PICK s \in Gens \cup {Null} : Recovers(s) /\ current' = s
  BY DEF Select
<1>2. CASE marker \in Complete
  BY <1>1, <1>2 DEF Recovers
<1>3. CASE marker \notin Complete /\ Complete = {}
  BY <1>1, <1>3 DEF Recovers
<1>4. CASE marker \notin Complete /\ Complete # {}
  <2>1. Newest(Complete, s)
    BY <1>1, <1>4 DEF Recovers
  <2>2. \A a \in Complete : a <= s
    BY <2>1, StoreAssumption DEF Newest, Complete, Gens
  <2>3. QED
    BY <1>1, <1>4, <2>1, <2>2 DEF Newest
<1>5. QED
  BY <1>2, <1>3, <1>4

(* Every step keeps what readers see on the disk, synced, and recoverable. *)
LEMMA NextDurable ==
  ASSUME ~LazyWriteback, SafeInv, DurableInv, VisibleInv, [Next]_vars, SafeInv'
  PROVE  DurableInv' /\ VisibleInv'
<1> USE StoreAssumption, GensNat
    DEF SafeInv, TypeInv, TypeOK, PhaseInv, BoundInv, MemoryInv, PublishInv,
        DurableInv, VisibleInv, Serving, Recovered, Allocated, Complete, new, Null, Gens,
        DirState, Opening, Passes, Writing, disk, memory, control, attempt, history
<1>1. CASE Restart
  BY <1>1 DEF Restart
<1>2. CASE Select
  <2>1. /\ current' \in Complete \cup {Null}
        /\ marker \in Complete => current' = marker
        /\ marker \notin Complete => \A a \in Complete : a <= current'
    BY <1>2, SelectRecovers
  <2>2. pc' \in {"prune", "repair"} /\ phase' = "recover"
        /\ (pc' = "prune" => current' \in {Null, marker})
    BY <1>2 DEF Select
  <2>3. UNCHANGED <<dir, durableDir, marker, durableMarker, visible>>
    BY <1>2 DEF Select
  <2>4. current' \in Gens \cup {Null} /\ marker \in Gens \cup {Null} /\ visible \in Gens \cup {Null}
    BY <2>1
  <2>5. DurableInv'
    BY <1>2, <2>1, <2>2, <2>3 DEF Select
  <2>6. visible' <= current'
    BY <1>2, <2>1, <2>3, <2>4 DEF Select
  <2>7. VisibleInv'
    BY <1>2, <2>1, <2>2, <2>3, <2>4, <2>6 DEF Select
  <2>8. QED
    BY <2>5, <2>7
<1>3. CASE RepairMarker
  BY <1>3 DEF RepairMarker
<1>4. CASE SyncRepair
  BY <1>4 DEF SyncRepair
<1>5. CASE LoadSurvivors
  BY <1>5 DEF LoadSurvivors
<1>6. CASE RemoveStaleTemps
  BY <1>6 DEF RemoveStaleTemps
<1>7. CASE PruneDone
  BY <1>7 DEF PruneDone
<1>8. CASE OpenDone
  BY <1>8 DEF OpenDone
<1>9. CASE BudgetMet
  BY <1>9 DEF BudgetMet
<1>10. CASE SpaceDone
  BY <1>10 DEF SpaceDone
<1>11. CASE WriteTemporary
  BY <1>11 DEF WriteTemporary
<1>12. CASE RenameGeneration
  BY <1>12 DEF RenameGeneration
<1>13. CASE SyncGenerations
  BY <1>13 DEF SyncGenerations
<1>14. CASE RenameMarker
  BY <1>14 DEF RenameMarker
<1>15. CASE SyncMarker
  BY <1>15 DEF SyncMarker
<1>16. CASE LoadNew
  BY <1>16 DEF LoadNew
<1>17. CASE Swap
  BY <1>17 DEF Swap
<1>18. CASE PublishDone
  BY <1>18 DEF PublishDone
<1>19. CASE \E g \in Gens : DeleteSuperseded(g) \/ DeleteOverBudget(g) \/ FreeSpace(g)
  <2>1. PICK g \in Gens : Delete(g)
    BY <1>19 DEF DeleteSuperseded, DeleteOverBudget, FreeSpace
  <2>2. g # current /\ pc \in {"prune", "budget", "space"}
    BY <2>1, DeletionTarget DEF Delete
  <2>3. QED
    BY <2>1, <2>2 DEF Delete
<1>20. CASE StartPublish
  BY <1>20 DEF StartPublish
<1>21. CASE PublishFails
  <2>1. /\ pc \in Passes \cup Writing /\ phase # "recover" /\ phase # "reopen"
        /\ pc' = "idle" /\ phase' = "none"
        /\ UNCHANGED <<durableDir, marker, durableMarker, current, visible>>
    BY <1>21 DEF PublishFails
  <2>2. Serving /\ Serving' /\ Recovered /\ Recovered'
    BY <1>21, <2>1 DEF PublishFails
  <2>3. pc \notin {"repair", "syncRepair"}
    BY <2>1
  <2>4. QED
    BY <2>1, <2>2, <2>3
<1>22. CASE Kill
  <2>1. /\ current # Null => dir'[current] = dir[current]
        /\ durableDir' = dir' /\ marker' = marker /\ durableMarker' = marker'
    BY <1>22, KillDisk DEF Kill
  <2>2. ~Recovered' /\ ~Serving' /\ visible' = visible
    BY <1>22, DownType DEF Kill
  <2>3. DurableInv'
    BY <2>1, <2>2
  <2>4. ASSUME visible # Null
        PROVE  \E a \in Complete' : visible <= a
    <3>1. CASE Recovered
      BY <2>1, <2>4, <3>1
    <3>2. CASE ~Recovered
      BY <1>22, <2>4, <3>2, KillAtRest DEF Kill
    <3>3. QED
      BY <3>1, <3>2
  <2>5. QED
    BY <2>1, <2>2, <2>3, <2>4
<1>23. CASE PowerLoss
  <2>1. /\ \A g \in Gens : dir[g] = "final" /\ durableDir[g] = "final" /\ ~Deleting(g)
                             => dir'[g] = "final"
        /\ durableDir' = dir'
        /\ marker' \in {marker, durableMarker} /\ durableMarker' = marker'
    BY <1>23, PowerLossDisk
  <2>2. ~Recovered' /\ ~Serving' /\ visible' = visible
    BY <1>23, DownType DEF PowerLoss
  <2>3. DurableInv'
    BY <2>1, <2>2
  <2>4. ASSUME visible # Null
        PROVE  \E a \in Complete' : visible <= a
    <3>1. CASE Recovered
      <4>1. current # Null /\ current \in Gens
        BY <2>4, <3>1
      <4>2. ~Deleting(current)
        BY DeletionTarget
      <4>3. dir[current] = "final" /\ durableDir[current] = "final"
        BY <3>1, <4>1
      <4>4. QED
        BY <2>1, <3>1, <4>1, <4>2, <4>3
    <3>2. CASE ~Recovered
      <4>1. PICK a \in Complete : visible <= a
        BY <2>4, <3>2
      <4>2. a \in Gens /\ ~Deleting(a) /\ dir[a] = "final" /\ durableDir[a] = "final"
        BY <3>2, <4>1, DeletionTarget
      <4>3. QED
        BY <2>1, <4>1, <4>2
    <3>3. QED
      BY <3>1, <3>2
  <2>5. visible' <= marker' /\ visible' <= durableMarker'
    BY <2>1, <2>2
  <2>6. VisibleInv'
    BY <2>2, <2>4, <2>5
  <2>7. QED
    BY <2>3, <2>6
<1>24. CASE Tick
  BY <1>24 DEF Tick
<1>25. CASE Exhausted
  BY <1>25 DEF Exhausted, vars
<1>26. CASE UNCHANGED vars
  BY <1>26 DEF vars
<1>27. QED
  BY <1>1, <1>2, <1>3, <1>4, <1>5, <1>6, <1>7, <1>8, <1>9, <1>10, <1>11, <1>12, <1>13, <1>14, <1>15, <1>16, <1>17, <1>18, <1>19, <1>20, <1>21, <1>22, <1>23, <1>24, <1>25, <1>26
     DEF Next, Step

(* Whatever fails, readers find the current generation and everything that *)
(* can be addressed complete on disk.                                      *)
THEOREM ReadersStayIntact == Spec => []ReadersIntact
<1>1. Init => SafeInv
  BY InitSafe
<1>2. SafeInv /\ [Next]_vars => SafeInv'
  BY NextType, NextSafe DEF SafeInv
<1>3. SafeInv => ReadersIntact
  BY DEF SafeInv, MemoryInv, ReadersIntact
<1>4. QED
  BY <1>1, <1>2, <1>3, PTL DEF Spec

(* Where a killed process leaves nothing unwritten, the invariants of      *)
(* durability hold from the first state on.                                *)
LEMMA DurableAlways ==
  ASSUME ~LazyWriteback
  PROVE  Spec => [](SafeInv /\ DurableInv /\ VisibleInv)
<1>1. Init => SafeInv /\ DurableInv /\ VisibleInv
  BY InitSafe
<1>2. /\ SafeInv /\ DurableInv /\ VisibleInv /\ [Next]_vars
      => (SafeInv /\ DurableInv /\ VisibleInv)'
  <2>1. SafeInv /\ [Next]_vars => SafeInv'
    BY NextType, NextSafe DEF SafeInv
  <2>2. QED
    BY <2>1, NextDurable
<1>3. QED
  BY <1>1, <1>2, PTL DEF Spec

(* What readers see survives a loss of power.                              *)
THEOREM CurrentStaysDurable ==
  ASSUME ~LazyWriteback
  PROVE  Spec => []CurrentDurable
<1>1. SafeInv /\ DurableInv => CurrentDurable
  BY DEF SafeInv, TypeInv, PhaseInv, DurableInv, CurrentDurable, Serving, Recovered,
         Writing, Passes
<1>2. QED
  BY <1>1, DurableAlways, PTL

(* Every step of the store is a step of the feed set or is invisible.      *)
LEMMA StepRefines ==
  ASSUME SafeInv, VisibleInv, [Next]_vars
  PROVE  [FS!Next]_(FS!vars)
<1> USE StoreAssumption, GensNat
    DEF SafeInv, TypeInv, TypeOK, PhaseInv, BoundInv, MemoryInv, PublishInv,
        VisibleInv, Serving, Recovered, Allocated, new, Null, Gens, Opening, Passes,
        Writing, memory, control, history, FS!vars
<1>1. CASE Restart
  BY <1>1 DEF Restart
<1>2. CASE Select
  BY <1>2 DEF Select
<1>3. CASE RepairMarker
  BY <1>3 DEF RepairMarker
<1>4. CASE SyncRepair
  BY <1>4 DEF SyncRepair
<1>5. CASE LoadSurvivors
  BY <1>5 DEF LoadSurvivors
<1>6. CASE RemoveStaleTemps
  BY <1>6 DEF RemoveStaleTemps
<1>7. CASE PruneDone
  BY <1>7 DEF PruneDone
<1>8. CASE OpenDone
  <2>1. ~Serving /\ Serving' /\ visible' = current /\ generations' = generations
    BY <1>8 DEF OpenDone
  <2>2. visible <= current /\ (current # 0 => current \in generations) /\ generations \subseteq Gens
    BY <1>8 DEF OpenDone
  <2>3. FS!Resume(current, generations)
    BY <2>1, <2>2 DEF FS!Resume
  <2>4. QED
    BY <2>2, <2>3 DEF FS!Next
<1>9. CASE BudgetMet
  BY <1>9 DEF BudgetMet
<1>10. CASE SpaceDone
  BY <1>10 DEF SpaceDone
<1>11. CASE WriteTemporary
  BY <1>11 DEF WriteTemporary
<1>12. CASE RenameGeneration
  BY <1>12 DEF RenameGeneration
<1>13. CASE SyncGenerations
  BY <1>13 DEF SyncGenerations
<1>14. CASE RenameMarker
  BY <1>14 DEF RenameMarker
<1>15. CASE SyncMarker
  BY <1>15 DEF SyncMarker
<1>16. CASE LoadNew
  <2>1. Serving /\ Serving' /\ visible' = visible /\ new \in Gens /\ new > visible
        /\ generations' = generations \cup {new}
    BY <1>16 DEF LoadNew
  <2>2. QED
    BY <2>1 DEF FS!Offer, FS!Next
<1>17. CASE Swap
  <2>1. Serving /\ Serving' /\ visible' = new /\ new \in Gens /\ new > visible
        /\ new \in generations /\ generations' = generations
    BY <1>17 DEF Swap
  <2>2. QED
    BY <2>1 DEF FS!Advance, FS!Next
<1>18. CASE PublishDone
  BY <1>18 DEF PublishDone
<1>19. CASE \E g \in Gens : DeleteSuperseded(g) \/ DeleteOverBudget(g) \/ FreeSpace(g)
  <2>1. PICK g \in Gens : Delete(g)
    BY <1>19 DEF DeleteSuperseded, DeleteOverBudget, FreeSpace
  <2>2. g # current /\ pc' = pc /\ phase' = phase /\ visible' = visible
        /\ generations' = generations \ {g}
    BY <2>1, DeletionTarget DEF Delete
  <2>3. CASE Serving
    BY <2>2, <2>3 DEF FS!Withdraw, FS!Next
  <2>4. CASE ~Serving
    BY <2>2, <2>4
  <2>5. QED
    BY <2>3, <2>4
<1>20. CASE StartPublish
  BY <1>20 DEF StartPublish
<1>21. CASE PublishFails
  <2>1. Serving /\ Serving' /\ visible' = visible /\ current' = current
    BY <1>21 DEF PublishFails
  <2>2. CASE generations' = generations
    BY <2>1, <2>2
  <2>3. CASE \E g \in Gens : g # current /\ generations' = generations \ {g}
    BY <2>1, <2>3 DEF FS!Withdraw, FS!Next
  <2>4. QED
    BY <2>2, <2>3, <1>21, PublishFailsDisk, DeletionTarget DEF LeftPartial
<1>22. CASE Kill
  <2>1. ~Serving' /\ visible' = visible
    BY <1>22, DownType DEF Kill
  <2>2. QED
    BY <2>1 DEF FS!Stop, FS!Next
<1>23. CASE PowerLoss
  <2>1. ~Serving' /\ visible' = visible
    BY <1>23, DownType DEF PowerLoss
  <2>2. QED
    BY <2>1 DEF FS!Stop, FS!Next
<1>24. CASE Tick
  BY <1>24 DEF Tick
<1>25. CASE Exhausted
  BY <1>25 DEF Exhausted, vars
<1>26. CASE UNCHANGED vars
  BY <1>26 DEF vars
<1>27. QED
  BY <1>1, <1>2, <1>3, <1>4, <1>5, <1>6, <1>7, <1>8, <1>9, <1>10, <1>11, <1>12, <1>13, <1>14, <1>15, <1>16, <1>17, <1>18, <1>19, <1>20, <1>21, <1>22, <1>23, <1>24, <1>25, <1>26
     DEF Next, Step

(* The store implements the feed set: readers only ever move forward, one  *)
(* complete generation at a time, and no restart takes them back.          *)
THEOREM StoreImplementsFeedSet ==
  ASSUME ~LazyWriteback
  PROVE  Spec => FeedSetSpec
<1>1. Init => FS!Init
  BY DEF Init, FS!Init, Serving, Writing, Passes, Null
<1>2. SafeInv /\ VisibleInv /\ [Next]_vars => [FS!Next]_(FS!vars)
  BY StepRefines
<1>3. QED
  BY <1>1, <1>2, DurableAlways, PTL DEF Spec, FeedSetSpec, FS!Spec

----------------------------------------------------------------------------
(* The count cap                                                           *)

(* A prune leaves at most max_generations directories; a publication adds  *)
(* one, and the pass that closes it removes what is over the cap again.    *)
CountInv ==
  /\ pc = "prune" => Cardinality(Candidates \ todo) <= MaxGenerations
  /\ pc \in {"load", "budget", "space", "write", "rename"}
     \/ (pc = "idle" /\ result = "ok") => Cardinality(Candidates) <= MaxGenerations
  /\ Serving => Cardinality(Candidates) <= MaxGenerations + 1

(* There are finitely many directories.                                    *)
LEMMA FiniteGens ==
  ASSUME NEW S \in SUBSET Gens
  PROVE  IsFiniteSet(S) /\ Cardinality(S) \in Nat
<1>1. IsFiniteSet(Gens)
  BY FS_Interval, StoreAssumption DEF Gens
<1> QED
  BY <1>1, FS_Subset, FS_CardinalityType

LEMMA FewerGens ==
  ASSUME NEW S \in SUBSET Gens, NEW R \in SUBSET S
  PROVE  Cardinality(R) <= Cardinality(S)
  BY FiniteGens, FS_Subset

(* A set of generations that is not empty has an oldest one.               *)
LEMMA OldestOf ==
  ASSUME NEW S \in SUBSET Gens, S # {}
  PROVE  \E m \in S : Oldest(S, m)
<1> DEFINE R == OpToRel(<, Nat)
<1>1. IsWellFoundedOn(R, Nat)
  BY NatLessThanWellFounded, Zenon
<1>2. \A x, y \in Nat : <<y, x>> \in R <=> y < x
  BY DEF OpToRel
<1>3. S \in SUBSET Nat
  BY GensNat
<1> HIDE DEF R
<1>4. PICK x \in S : \A y \in S : ~(<<y, x>> \in R)
  BY <1>1, <1>3, WFMin
<1>5. ASSUME NEW y \in S PROVE x <= y
  <2>1. x \in Nat /\ y \in Nat /\ ~(y < x)
    BY <1>2, <1>3, <1>4
  <2> QED
    BY <2>1
<1> QED
  BY <1>5 DEF Oldest

(* What plan_superseded_deletions keeps is within the cap: above the       *)
(* oldest that it keeps it has counted the others.                         *)
LEMMA KeptWithinCap ==
  ASSUME NEW c
  PROVE  Cardinality(Candidates \ SupersededDeletions(c)) <= MaxGenerations
<1> DEFINE fresh == {g \in Candidates \ {c} : ~Superseded(g)}
           newer(g) == {h \in fresh : h > g}
           shown == Candidates \cap {c}
           kept == Candidates \ SupersededDeletions(c)
           others == {g \in fresh : Cardinality(newer(g)) + Cardinality(shown)
                                      < MaxGenerations}
<1> SUFFICES Cardinality(kept) <= MaxGenerations
  OBVIOUS
<1>1. /\ Candidates \subseteq Gens /\ fresh \subseteq Gens /\ kept \subseteq Gens
      /\ shown \subseteq Gens /\ \A g : newer(g) \subseteq Gens
  BY DEF Candidates
<1>2. /\ Cardinality(shown) \in Nat /\ Cardinality(shown) <= 1
      /\ \A g : Cardinality(newer(g)) \in Nat
  <2>1. Cardinality({c}) = 1 /\ IsFiniteSet({c})
    BY FS_Singleton
  <2>2. shown \in SUBSET {c}
    OBVIOUS
  <2> HIDE DEF shown, newer
  <2> QED
    BY <1>1, <2>1, <2>2, FiniteGens, FS_Subset
<1>3. kept \subseteq shown \cup others
  <2> SUFFICES ASSUME NEW g \in kept, g # c PROVE g \in others
    BY DEF Candidates
  <2>1. g \in Candidates \ {c} /\ ~Superseded(g)
        /\ ~(Cardinality(newer(g)) + Cardinality(shown) >= MaxGenerations)
    BY DEF SupersededDeletions
  <2> HIDE DEF newer, shown
  <2> QED
    BY <2>1, <1>2, StoreAssumption
<1>4. CASE others = {}
  <2>1. kept \in SUBSET shown
    BY <1>3, <1>4
  <2>2. Cardinality(kept) <= Cardinality(shown) /\ Cardinality(kept) \in Nat
    BY <1>1, <2>1, FewerGens, FiniteGens
  <2> HIDE DEF kept, shown
  <2> QED
    BY <2>2, <1>2, StoreAssumption
<1>5. CASE others # {}
  <2>1. PICK m \in others : Oldest(others, m)
    BY <1>1, <1>5, OldestOf
  <2>2. kept \subseteq (shown \cup newer(m)) \cup {m}
    <3> SUFFICES ASSUME NEW g \in others, g # m PROVE g \in newer(m)
      BY <1>3
    <3>1. m <= g /\ m \in Nat /\ g \in Nat /\ g \in fresh
      BY <1>1, <2>1, GensNat DEF Oldest
    <3> QED
      BY <3>1
  <2>3. /\ IsFiniteSet(shown) /\ IsFiniteSet(newer(m)) /\ m \in Gens
        /\ Cardinality(newer(m)) + Cardinality(shown) < MaxGenerations
    BY <1>1, <2>1, FiniteGens
  <2> HIDE DEF kept, shown, newer, others, fresh
  <2>4. /\ IsFiniteSet(shown \cup newer(m))
        /\ Cardinality(shown \cup newer(m)) \in Nat
        /\ Cardinality(shown \cup newer(m))
             <= Cardinality(shown) + Cardinality(newer(m))
    <3>1. Cardinality(shown \cap newer(m)) \in Nat
      BY <1>1, FiniteGens
    <3>2. /\ IsFiniteSet(shown \cup newer(m))
          /\ Cardinality(shown \cup newer(m)) =
               Cardinality(shown) + Cardinality(newer(m))
                 - Cardinality(shown \cap newer(m))
      BY <2>3, FS_Union
    <3>3. Cardinality(shown \cup newer(m)) \in Nat
      BY <3>2, FS_CardinalityType
    <3> QED
      BY <1>2, <3>1, <3>2, <3>3
  <2>5. Cardinality((shown \cup newer(m)) \cup {m})
          <= Cardinality(shown \cup newer(m)) + 1
    BY <2>4, FS_AddElement
  <2>6. (shown \cup newer(m)) \cup {m} \in SUBSET Gens
    BY <1>1, <2>3
  <2>7. Cardinality(kept) <= Cardinality((shown \cup newer(m)) \cup {m})
        /\ Cardinality(kept) \in Nat
        /\ Cardinality((shown \cup newer(m)) \cup {m}) \in Nat
    BY <1>1, <2>2, <2>6, FewerGens, FiniteGens
  <2>8. Cardinality(newer(m)) \in Nat /\ Cardinality(shown) \in Nat
        /\ MaxGenerations \in Nat
    BY <1>2, StoreAssumption
  <2> QED
    BY <2>3, <2>4, <2>5, <2>7, <2>8
<1> QED
  BY <1>4, <1>5

(* A deletion removes a directory or leaves a part of it; either way no    *)
(* candidate appears.                                                      *)
LEMMA DeletedCandidate ==
  ASSUME SafeInv, NEW g \in Gens, Deleting(g)
  PROVE  g \in Candidates
  BY DEF Deleting, Newest, Oldest, SafeInv, PlanInv

LEMMA CountStep ==
  ASSUME SafeInv, CountInv, [Next]_vars
  PROVE  CountInv'
<1> DEFINE M == MaxGenerations
           count == Cardinality(Candidates)
<1>0. /\ Candidates \in SUBSET Gens /\ count \in Nat /\ M \in Nat
      /\ Candidates' \in SUBSET Gens /\ Cardinality(Candidates') \in Nat
      /\ (Candidates \ todo)' \in SUBSET Gens
      /\ Cardinality((Candidates \ todo)') \in Nat
  <2>1. Candidates \in SUBSET Gens /\ Candidates' \in SUBSET Gens
        /\ (Candidates \ todo)' \in SUBSET Gens
    BY DEF Candidates
  <2> QED
    BY <2>1, FiniteGens, StoreAssumption
<1> USE DEF CountInv, Serving, Passes, Writing
(* The plan of a retention pass is within the cap.                         *)
<1>1. ASSUME NEW c, dir' = dir, now' = now, written' = written,
             todo' = SupersededDeletions(c), pc' = "prune",
             ~Serving' \/ count <= M + 1
      PROVE  CountInv'
  <2>1. Candidates' = Candidates
    BY <1>1 DEF Candidates
  <2> QED
    BY <1>1, <2>1, KeptWithinCap
<1>2. ASSUME Candidates' = Candidates,
             pc' = "prune" => pc = "prune" /\ todo' = todo,
             pc' \in {"load", "budget", "space", "write", "rename"}
               \/ (pc' = "idle" /\ result' = "ok") => count <= M,
             Serving' => count <= M + 1
      PROVE  CountInv'
  BY <1>2
<1>3. CASE UNCHANGED dir /\ ~Serving' /\ pc' \notin {"prune", "load", "budget"}
  BY <1>3
<1>4. CASE Restart
  BY <1>3, <1>4 DEF Restart, disk
<1>5. CASE Select
  <2>1. PICK s \in Gens \cup {Null} :
          /\ UNCHANGED <<dir, now, written>> /\ phase' = "recover"
          /\ \/ pc' = "prune" /\ todo' = SupersededDeletions(s)
             \/ pc' = "repair"
    BY <1>5 DEF Select, disk
  <2> QED
    BY <1>1, <1>3, <2>1
<1>6. CASE RepairMarker
  BY <1>3, <1>6 DEF RepairMarker
<1>7. CASE SyncRepair
  BY <1>1, <1>7 DEF SyncRepair, SafeInv, TypeInv, PhaseInv
<1>8. CASE LoadSurvivors
  BY <1>2, <1>8 DEF LoadSurvivors, disk, Candidates
<1>9. CASE RemoveStaleTemps
  <2>1. Candidates' = Candidates
    BY <1>9 DEF RemoveStaleTemps, Candidates
  <2>2. SupersededDeletions(current)' = SupersededDeletions(current)
    BY <1>9, <2>1 DEF RemoveStaleTemps, SupersededDeletions, Superseded, memory
  <2>3. Cardinality(Candidates \ SupersededDeletions(current)) <= M
    BY KeptWithinCap
  <2> QED
    BY <1>9, <2>1, <2>3 DEF RemoveStaleTemps
<1>10. CASE PruneDone
  <2>1. Candidates' = Candidates /\ count <= M
    BY <1>10 DEF PruneDone, disk, Candidates
  <2> QED
    BY <1>0, <1>2, <1>10, <2>1 DEF PruneDone
<1>11. CASE OpenDone
  BY <1>0, <1>2, <1>11 DEF OpenDone, disk, Candidates
<1>12. CASE BudgetMet
  BY <1>0, <1>2, <1>12 DEF BudgetMet, disk, Candidates
<1>13. CASE SpaceDone
  BY <1>0, <1>2, <1>13 DEF SpaceDone, disk, Candidates
<1>14. CASE WriteTemporary
  <2>1. Candidates' = Candidates
    BY <1>14 DEF WriteTemporary, Candidates, SafeInv, FreshInv, TypeInv, TypeOK
  <2> QED
    BY <1>0, <1>2, <1>14, <2>1 DEF WriteTemporary
<1>15. CASE RenameGeneration
  <2>1. Candidates' = Candidates \cup {new}
    BY <1>15 DEF RenameGeneration, Candidates, SafeInv, TypeInv, TypeOK, BoundInv,
                 Allocated
  <2>2. Cardinality(Candidates \cup {new}) <= count + 1
    BY <1>0, FiniteGens, FS_AddElement
  <2> QED
    BY <1>0, <1>15, <2>1, <2>2 DEF RenameGeneration
<1>16. CASE SyncGenerations
  BY <1>2, <1>16 DEF SyncGenerations, Candidates
<1>17. CASE RenameMarker
  BY <1>2, <1>17 DEF RenameMarker, Candidates
<1>18. CASE SyncMarker
  BY <1>2, <1>18 DEF SyncMarker, Candidates
<1>19. CASE LoadNew
  BY <1>2, <1>19 DEF LoadNew, disk, Candidates
<1>20. CASE Swap
  BY <1>2, <1>20 DEF Swap, disk, Candidates
<1>21. CASE PublishDone
  BY <1>0, <1>2, <1>21 DEF PublishDone, disk, Candidates
<1>22. CASE \E g \in Gens : DeleteSuperseded(g) \/ DeleteOverBudget(g) \/ FreeSpace(g)
  <2>1. PICK g \in Gens : Delete(g) /\ pc \in {"prune", "budget", "space"}
    BY <1>22 DEF DeleteSuperseded, DeleteOverBudget, FreeSpace
  <2>2. Candidates' = Candidates \ {g}
    BY <2>1 DEF Delete, Candidates, SafeInv, TypeInv, TypeOK
  <2>3. Cardinality(Candidates') <= count
    BY <1>0, <2>2, FewerGens
  <2>4. (Candidates \ todo)' \subseteq Candidates \ todo
    BY <2>1, <2>2 DEF Delete
  <2>5. Cardinality((Candidates \ todo)') <= Cardinality(Candidates \ todo)
        /\ Cardinality(Candidates \ todo) \in Nat
    BY <1>0, <2>4, FewerGens, FiniteGens
  <2> QED
    BY <1>0, <2>1, <2>3, <2>5 DEF Delete
<1>23. CASE StartPublish
  BY <1>2, <1>23 DEF StartPublish, disk, Candidates
<1>24. CASE PublishFails
  <2>1. Candidates' = Candidates
    <3>1. CASE dir' = dir
      BY <3>1 DEF Candidates
    <3>2. CASE \E g \in Gens : LeftPartial(g)
      <4>1. PICK g \in Gens : LeftPartial(g)
        BY <3>2
      <4>2. g \in Candidates /\ dir' = [dir EXCEPT ![g] = "partial"]
        BY <4>1, DeletedCandidate DEF LeftPartial
      <4> QED
        BY <4>2 DEF Candidates, SafeInv, TypeInv, TypeOK
    <3> QED
      BY <1>24, <3>1, <3>2, PublishFailsDisk
  <2>2. Serving /\ pc' = "idle" /\ result' = "err"
    BY <1>24 DEF PublishFails
  <2> QED
    BY <1>2, <2>1, <2>2
<1>25. CASE Kill \/ PowerLoss
  BY <1>25, DownType DEF Kill, PowerLoss, SafeInv, TypeInv
<1>26. CASE Tick
  BY <1>2, <1>26 DEF Tick, disk, control, attempt, Candidates
<1>27. CASE UNCHANGED vars
  BY <1>2, <1>27 DEF vars, disk, control, attempt, Candidates
<1> QED
  BY <1>4, <1>5, <1>6, <1>7, <1>8, <1>9, <1>10, <1>11, <1>12, <1>13, <1>14, <1>15,
     <1>16, <1>17, <1>18, <1>19, <1>20, <1>21, <1>22, <1>23, <1>24, <1>25, <1>26,
     <1>27 DEF Next, Step, Exhausted

(* The count cap holds for every cap, bound, budget and set of fault       *)
(* points: the volume never holds more than max_generations directories    *)
(* and the one being published, and not that one either after a            *)
(* publication that succeeded (prune_superseded, enforce_retention).       *)
THEOREM VolumeAlwaysBounded == Spec => []VolumeBounded
<1>1. Init => SafeInv /\ CountInv
  BY InitSafe DEF Init, CountInv, Serving, Passes, Writing
<1>2. SafeInv /\ CountInv /\ [Next]_vars => SafeInv' /\ CountInv'
  BY NextType, NextSafe, CountStep DEF SafeInv
<1>3. SafeInv /\ CountInv => VolumeBounded
  <2>1. Candidates \in SUBSET Gens
    BY DEF Candidates
  <2> QED
    BY <2>1, FiniteGens, StoreAssumption DEF CountInv, VolumeBounded
<1> QED
  BY <1>1, <1>2, <1>3, PTL DEF Spec

=============================================================================
