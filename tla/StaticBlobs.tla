---------------------------- MODULE StaticBlobs ----------------------------
(***************************************************************************)
(* The bytes of the generation store in src/writer.rs.  A ZIP lives once,  *)
(* as a blob named by its digest; every generation holding it has a hard   *)
(* link to the blob, and the bytes are free only when the last link and    *)
(* the blob are gone.  The retention pass reads the link counts, plans     *)
(* which generations to delete so that the volume fits its budget, deletes *)
(* them and then the blobs without a link; an error ends it, and leaves a  *)
(* directory of which a part is removed.  In memory the same ZIPs are      *)
(* interned.                                                               *)
(*                                                                         *)
(* Publications, durability and the choice of the current generation are   *)
(* GenerationStore's; here a publication is its retention passes, the      *)
(* installation of its ZIPs and the commit, and what supersession removes  *)
(* is any prefix of the old generations.                                   *)
(***************************************************************************)
EXTENDS Naturals, FiniteSets, FiniteSetsExt

CONSTANTS
  Snapshots,       \* what may be published: the ZIP of each name
  Size,            \* the length of each ZIP
  Rest,            \* the length of a generation's other artifacts together
  BudgetBytes,     \* GenerationRetention.budget_bytes
  MaxGenerations,  \* GenerationRetention.max_generations
  LinkFails,       \* the names whose hard link may fail
  MaxGen,          \* bound: generations ever published
  MaxRefused       \* bound: removals of a directory that fail

(* static.zip, official-static.zip, platform-addon.zip; in the second set  *)
(* with the feeds and the manifest.                                        *)
Names == {"static", "official", "addon"}
Parts == Names \cup {"rest"}
Zips == DOMAIN Size
Gens == 1 .. MaxGen

(* To be assumed of the constants: every ZIP has a length, and a manifest  *)
(* is not empty.                                                           *)
BlobConstants ==
  /\ Size \in [Zips -> Nat] /\ Rest \in Nat \ {0}
  /\ {BudgetBytes, MaxGenerations, MaxGen, MaxRefused} \subseteq Nat
  /\ Snapshots \subseteq [Names -> Zips] /\ LinkFails \subseteq Names

VARIABLES
  dirs,      \* generations/: id -> its ZIPs, its parts linked and copied
  blobs,     \* the ZIPs in blobs/
  current,   \* the generation named by the marker, 0: none
  loaded,    \* the generations in memory
  intern,    \* the ZIPs of static_intern
  orphans,   \* history: ZIPs of generations whose removal failed
  refused,   \* the removals that failed
  pc, pass,  \* the publisher's place, and which retention pass it is in
  incoming,  \* what the coming generation is estimated to add
  snapshot,  \* what is being published
  next       \* the next identifier

vars == <<dirs, blobs, current, loaded, intern, orphans, refused, pc, pass,
          incoming, snapshot, next>>
memory == <<loaded, intern, orphans, refused>>
publication == <<current, incoming, snapshot, next>>

Init ==
  /\ dirs = <<>> /\ blobs = {} /\ current = 0 /\ loaded = {} /\ intern = {}
  /\ orphans = {} /\ refused = 0
  /\ pc = "idle" /\ pass = "before" /\ incoming = 0
  /\ snapshot \in Snapshots /\ next = 1

TypeOK ==
  /\ DOMAIN dirs \subseteq Gens
  /\ \A g \in DOMAIN dirs :
       /\ dirs[g].zip \in Snapshots
       /\ dirs[g].linked \subseteq Names /\ dirs[g].copied \subseteq Parts
  /\ orphans \subseteq Zips /\ refused \in 0 .. MaxRefused
  /\ blobs \subseteq Zips /\ intern \subseteq Zips
  /\ current \in Gens \cup {0} /\ loaded \subseteq DOMAIN dirs
  /\ pc \in {"idle", "prune", "budget", "gc", "space", "write", "commit", "down"}
  /\ pass \in {"before", "after", "open"} /\ incoming \in Nat
  /\ snapshot \in Snapshots /\ next \in 1 .. MaxGen + 1

----------------------------------------------------------------------------
(* What the scan of the output directory sees                              *)

Held(g) == {dirs[g].zip[n] : n \in Names}

Links(z) ==
  UNION {{g} \X {n \in dirs[g].linked : dirs[g].zip[n] = z} : g \in DOMAIN dirs}

Nlink(z) == Cardinality(Links(z)) + Cardinality({z} \cap blobs)

LengthOf(z) == Size[z]

(* shared_static_of: the static ZIP is linked by more than the blob and    *)
(* this generation.                                                        *)
Shared(g) == "static" \in dirs[g].linked /\ Nlink(dirs[g].zip["static"]) > 2

(* A copy has an inode of its own.                                         *)
CopyBytes(g, n) == IF n \in dirs[g].copied THEN LengthOf(dirs[g].zip[n]) ELSE 0

RestBytes(g) == IF "rest" \in dirs[g].copied THEN Rest ELSE 0

CopiedBytes(g) == RestBytes(g) + CopyBytes(g, "static")

(* marginal_file_bytes: of the files that the scan lists.                  *)
MarginalBytes(g) ==
  CopiedBytes(g) + (IF "static" \in dirs[g].linked /\ ~Shared(g)
                      THEN LengthOf(dirs[g].zip["static"]) ELSE 0)

(* scan_retention lists the static ZIPs, the rest and the blobs, each      *)
(* inode once; a copy of another ZIP is not among them.                    *)
ScannedBytes ==
  MapThenSumSet(LengthOf, blobs) + MapThenSumSet(CopiedBytes, DOMAIN dirs)

----------------------------------------------------------------------------
(* The plans                                                               *)

Unprotected == DOMAIN dirs \ {current}

(* plan_superseded_deletions: newest first, the expired ones go, and all   *)
(* that come after max_generations have been kept.                         *)
SupersededDeletions(expired) ==
  LET Kept(g) == Cardinality({current} \cap DOMAIN dirs)
                 + Cardinality({h \in Unprotected \ expired : h > g})
  IN {g \in Unprotected : g \in expired \/ Kept(g) >= MaxGenerations}

(* Mutant: the links are counted once, before the pass.                    *)
PlanStepStaleLinks(plan, g) ==
  LET z == dirs[g].zip["static"]
      freed == MarginalBytes(g) + (IF Shared(g) THEN LengthOf(z) ELSE 0)
  IN IF plan.total <= BudgetBytes \/ g = current \/ freed = 0 THEN plan
     ELSE [total |-> IF freed >= plan.total THEN 0 ELSE plan.total - freed,
           links |-> plan.links,
           doomed |-> plan.doomed \cup {g}]

(* One step of plan_deletions over the candidates, oldest first.           *)
PlanStep(plan, g) ==
  LET z == dirs[g].zip["static"]
      last == Shared(g) /\ plan.links[z] <= 1
      freed == MarginalBytes(g) + (IF last THEN LengthOf(z) ELSE 0)
  IN IF plan.total <= BudgetBytes \/ g = current \/ freed = 0 THEN plan
     ELSE [total |-> IF freed >= plan.total THEN 0 ELSE plan.total - freed,
           links |-> IF Shared(g) THEN [plan.links EXCEPT ![z] = @ - 1]
                     ELSE plan.links,
           doomed |-> plan.doomed \cup {g}]

PlanDeletions(total) ==
  LET linkers(z) == {g \in DOMAIN dirs : Shared(g) /\ dirs[g].zip["static"] = z}
      start == [total |-> total, doomed |-> {},
                links |-> [z \in Zips |-> Cardinality(linkers(z))]]
      plan[g \in 0 .. MaxGen] ==
        IF g = 0 THEN start
        ELSE IF g \in DOMAIN dirs THEN PlanStep(plan[g - 1], g) ELSE plan[g - 1]
  IN plan[MaxGen].doomed

----------------------------------------------------------------------------
(* Deleting                                                                *)

HeldBy(gens) == UNION {Held(g) : g \in gens}

(* Mutant: an entry goes with the first generation that held it.           *)
UninternAlways(gone, kept) == intern \ HeldBy(gone)

(* unintern_static: the entries no generation in memory still uses.        *)
Unintern(gone, kept) == intern \ (HeldBy(gone) \ HeldBy(kept))

(* Mutant: the generations stay in memory.                                 *)
DeleteOnDisk(doomed) ==
  /\ dirs' = [g \in DOMAIN dirs \ doomed |-> dirs[g]]
  /\ UNCHANGED <<loaded, intern, orphans>>

(* delete_generation, of each.                                             *)
Delete(doomed) ==
  /\ dirs' = [g \in DOMAIN dirs \ doomed |-> dirs[g]]
  /\ loaded' = loaded \ doomed
  /\ intern' = Unintern(loaded \cap doomed, loaded \ doomed)
  /\ orphans' = orphans

(* An error ends the publication or, in open, the process.                 *)
Abort(gens, zips, lost) ==
  LET opening == pass = "open"
  IN  /\ pc' = IF opening THEN "down" ELSE "idle"
      /\ loaded' = IF opening THEN {} ELSE gens
      /\ intern' = IF opening THEN {} ELSE zips
      /\ orphans' = IF opening THEN {} ELSE lost

(* remove_dir_all of g fails when those before it are deleted: g has left  *)
(* memory, its ZIPs stay interned, and any of its parts are left.          *)
DeleteFails(g, gone) ==
  /\ refused < MaxRefused /\ refused' = refused + 1        \* bound MaxRefused
  /\ \E parts \in SUBSET Parts :
       dirs' = [h \in DOMAIN dirs \ gone |->
                  IF h = g THEN [dirs[h] EXCEPT !.linked = @ \cap parts,
                                                !.copied = @ \cap parts]
                  ELSE dirs[h]]
  /\ Abort(loaded \ (gone \cup {g}), Unintern(loaded \cap gone, loaded \ gone),
           orphans \cup HeldBy(loaded \cap {g}))

Older(gens, g) == {h \in gens : h < g}
Newer(gens, g) == {h \in gens : h > g}

(* enforce_retention, first prune_superseded, then the byte budget, then   *)
(* the blobs nothing links.                                                *)
Prune ==
  /\ pc = "prune"
  /\ \E cutoff \in 0 .. MaxGen :
       LET doomed == SupersededDeletions(Unprotected \cap 1 .. cutoff)
       IN  \/ Delete(doomed) /\ pc' = "budget" /\ UNCHANGED refused
           \/ \E g \in doomed : DeleteFails(g, Newer(doomed, g))
  /\ UNCHANGED <<blobs, pass, publication>>

BudgetDoomed ==
  IF BudgetBytes = 0 THEN {} ELSE PlanDeletions(ScannedBytes + incoming)

MeetBudget ==
  /\ pc = "budget"
  /\ \/ Delete(BudgetDoomed) /\ pc' = "gc" /\ UNCHANGED refused
     \/ \E g \in BudgetDoomed : DeleteFails(g, Older(BudgetDoomed, g))
  /\ UNCHANGED <<blobs, pass, publication>>

Unlinked == {z \in blobs : Nlink(z) <= 1}

CollectBlobs ==
  /\ pc = "gc" /\ pc' = IF pass = "before" THEN "space" ELSE "idle"
  /\ blobs' = blobs \ Unlinked
  /\ UNCHANGED <<dirs, memory, pass, publication>>

CollectFails ==
  /\ pc = "gc"
  /\ \E gone \in SUBSET Unlinked : gone # Unlinked /\ blobs' = blobs \ gone
  /\ Abort(loaded, intern, orphans)
  /\ UNCHANGED <<dirs, refused, pass, publication>>

----------------------------------------------------------------------------
(* Publishing                                                              *)

(* estimate_incoming_bytes: each ZIP without a blob, name by name.         *)
Estimate(s) ==
  LET added(n) == IF s[n] \in blobs THEN 0 ELSE LengthOf(s[n])
  IN Rest + added("static") + added("official") + added("addon")

StartPublish ==
  /\ pc = "idle" /\ next <= MaxGen
  /\ \E s \in Snapshots : snapshot' = s /\ incoming' = Estimate(s)
  /\ pc' = "prune" /\ pass' = "before"
  /\ UNCHANGED <<dirs, blobs, current, memory, next>>

(* ensure_publish_space: one more generation goes while the filesystem is  *)
(* full; its blobs stay until the next pass.                               *)
FreeSpace ==
  /\ pc = "space"
  /\ \E g \in Unprotected :
       /\ Older(Unprotected, g) = {}
       /\ \/ Delete({g}) /\ UNCHANGED <<pc, refused>>
          \/ DeleteFails(g, {})
  /\ UNCHANGED <<blobs, pass, publication>>

SpaceDone ==
  /\ pc = "space" /\ pc' = "write"
  /\ UNCHANGED <<dirs, blobs, memory, pass, publication>>

(* install_shared_zip: the blob, then the link; a copy when linking fails. *)
Write ==
  /\ pc = "write" /\ pc' = "commit"
  /\ \E failing \in SUBSET LinkFails :
       dirs' = [g \in DOMAIN dirs \cup {next} |->
                  IF g = next THEN [zip |-> snapshot, linked |-> Names \ failing,
                                    copied |-> failing \cup {"rest"}]
                  ELSE dirs[g]]
  /\ blobs' = blobs \cup {snapshot[n] : n \in Names}
  /\ next' = next + 1
  /\ UNCHANGED <<current, memory, pass, incoming, snapshot>>

(* A publication that fails before its rename leaves blobs and a temporary *)
(* directory, which the next pass removes before it counts any link.       *)
WriteFails ==
  /\ pc = "write" /\ pc' = "idle"
  /\ \E made \in SUBSET {snapshot[n] : n \in Names} : blobs' = blobs \cup made
  /\ next' = next + 1
  /\ UNCHANGED <<dirs, current, memory, pass, incoming, snapshot>>

new == next - 1

(* commit after intern_static; then the closing pass.                      *)
Commit ==
  /\ pc = "commit" /\ pc' = "prune" /\ pass' = "after" /\ incoming' = 0
  /\ current' = new /\ loaded' = loaded \cup {new}
  /\ intern' = intern \cup Held(new)
  /\ UNCHANGED <<dirs, blobs, orphans, refused, snapshot, next>>

(* Failing before the marker leaves a directory that memory does not know. *)
CommitFails ==
  /\ pc = "commit" /\ pc' = "idle"
  /\ UNCHANGED <<dirs, blobs, memory, pass, publication>>

Crash ==
  /\ pc \notin {"idle", "down"} /\ pc' = "down"
  /\ loaded' = {} /\ intern' = {} /\ orphans' = {} /\ incoming' = 0
  /\ UNCHANGED <<dirs, blobs, current, refused, pass, snapshot, next>>

(* load_generation refuses a directory that lacks a part.                  *)
Complete(g) == dirs[g].linked \cup dirs[g].copied = Parts

(* open_with_retention: every survivor is loaded, interned and linked to   *)
(* its blobs (dedupe_static_files; a link that fails leaves the copy), and *)
(* a retention pass follows.                                               *)
Open ==
  /\ pc = "down" /\ pc' = "prune" /\ pass' = "open"
  /\ loaded' = {g \in DOMAIN dirs : Complete(g)} /\ intern' = HeldBy(loaded')
  /\ blobs' = blobs \cup HeldBy(loaded')
  /\ \E failing \in [DOMAIN dirs -> SUBSET LinkFails] :
       dirs' = [g \in DOMAIN dirs |->
                  IF Complete(g)
                    THEN LET copies == dirs[g].copied \cap failing[g]
                         IN  [dirs[g] EXCEPT !.linked = Names \ copies,
                                             !.copied = copies \cup {"rest"}]
                    ELSE dirs[g]]
  /\ UNCHANGED <<current, orphans, refused, incoming, snapshot, next>>

Next ==
  \/ StartPublish \/ Prune \/ MeetBudget \/ CollectBlobs \/ CollectFails
  \/ FreeSpace \/ SpaceDone \/ Write \/ WriteFails \/ Commit \/ CommitFails
  \/ Crash \/ Open

Spec == Init /\ [][Next]_vars

----------------------------------------------------------------------------
(* Properties                                                              *)

OwnBytes(g) ==
  CopiedBytes(g) + CopyBytes(g, "official") + CopyBytes(g, "addon")

LinkedBy(gens, names) ==
  {z \in Zips : \E g \in gens, n \in names :
                  n \in dirs[g].linked /\ dirs[g].zip[n] = z}

(* What these generations occupy once the blobs that none of them links    *)
(* are collected: every linked ZIP once, every copy and the rest.          *)
OccupiedBytes(gens) ==
  MapThenSumSet(LengthOf, LinkedBy(gens, Names)) + MapThenSumSet(OwnBytes, gens)

(* What the plan cannot see: copies of ZIPs that are not static.zip, and   *)
(* ZIPs that are published as static.zip but are linked only under other   *)
(* names, whose bytes went with their last link as static.zip.             *)
UnseenCopies(g) == CopyBytes(g, "official") + CopyBytes(g, "addon")

UnseenBytes ==
  MapThenSumSet(UnseenCopies, DOMAIN dirs)
  + MapThenSumSet(LengthOf,
      {z \in LinkedBy(DOMAIN dirs, Names) \ LinkedBy(DOMAIN dirs, {"static"}) :
         \E s \in Snapshots : s["static"] = z})

(* When a pass has deleted what it planned, the volume with the coming     *)
(* generation fits its budget, but for what the plan cannot see, or only   *)
(* the current generation and scraps of failed removals are left -         *)
(* although the plan only counts links and never looks again.              *)
Fits ==
  pc = "gc" =>
    \/ OccupiedBytes(DOMAIN dirs) + incoming <= BudgetBytes + UnseenBytes
    \/ \A g \in Unprotected : "rest" \notin dirs[g].copied

(* Blobs that no generation links as static.zip and none of these at all:  *)
(* leftovers, and official and add-on ZIPs; the plan takes them to stay.   *)
Stranded(gens) ==
  blobs \ (LinkedBy(DOMAIN dirs, {"static"}) \cup LinkedBy(gens, Names))

(* No generation goes without need: with the last that is to go the volume *)
(* would exceed its budget, but for what the plan takes to stay.           *)
Spares ==
  pc = "budget" =>
    \A last \in BudgetDoomed :
      LET spared == (DOMAIN dirs \ BudgetDoomed) \cup {last}
      IN  (\A g \in BudgetDoomed : g <= last) =>
            OccupiedBytes(spared) + incoming
              + MapThenSumSet(LengthOf, Stranded(spared)) > BudgetBytes

(* The budget, for official and augmented feeds: the plan deletes enough,  *)
(* and no generation more (writer.rs, enforce_retention, plan_deletions).  *)
BudgetMet == BudgetBytes > 0 => Fits /\ Spares

(* Memory: every ZIP of a generation that a reader can load is interned,   *)
(* so equal ZIPs are held once; and no other is, but for the ZIPs of       *)
(* generations whose directory could not be removed (intern_static,        *)
(* unintern_static and delete_generation in writer.rs).                    *)
InternExact ==
  pc # "down" =>
    HeldBy(loaded) \subseteq intern /\ intern \subseteq HeldBy(loaded) \cup orphans
=============================================================================
