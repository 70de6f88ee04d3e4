-------------------------------- MODULE Feed --------------------------------
(***************************************************************************)
(* The parts that make, store and deliver a generation, each by itself:    *)
(* delivery, building, advisories, static blobs, the validator's cache and *)
(* the retention window of the store.  A behaviour moves one part; the     *)
(* others stay in their initial state, so that every property holds of     *)
(* every part.                                                             *)
(***************************************************************************)
EXTENDS FeedDelivery

CONSTANTS
  \* FeedBuild
  Stops, Alias, Trips, Routes, Agencies, SelectableTypes, Covered, Tracks,
  Unknown, Batches,
  \* Advisories; its Faults and MaxTime
  Pages, Details, MaxDetailPages, Schedules, Poll, CycleTime, MaxStale, DetailTtl, DetailStale,
  Ttl, Interval, AdvisoryFaults, AdvisoryTime,
  \* StaticBlobs
  Snapshots, Size, Rest, BudgetBytes, MaxGenerations, LinkFails, MaxGen,
  MaxRefused,
  \* ValidatorCache
  Docs, Tables, NoTable, Flawed, Unusable, MaxEntries,
  \* GenerationStore; its MaxGen, MaxTime, MaxFaults
  StoreGens, StoreTime, StoreFaults, RetainSuperseded

VARIABLES
  part,
  augmented, platforms, table, board, stage, source, batch, products, verdict,
  now, known, cycle, rendered, due, held, wake, list, detail, due2, request,
  cache, alerts, missing, trouble,
  dirs, blobs, current, loaded, intern, orphans, refused, pc, pass, incoming,
  snapshot, next,
  decisions, doc, left, step, decision, result,
  dir, durableDir, marker, durableMarker, written, visibleNow, generations,
  place, phase, todo, nextGen, outcome, before, storeNow, faults, visible,
  lastSeen

buildVars == <<augmented, platforms, table, board, stage, source, batch,
               products, verdict>>
advisoryVars == <<now, known, cycle, rendered, due, held, wake, list, detail,
                  due2, request, cache, alerts, missing, trouble>>
blobVars == <<dirs, blobs, current, loaded, intern, orphans, refused, pc, pass,
              incoming, snapshot, next>>
validatorVars == <<decisions, doc, left, step, decision, result>>
storeVars == <<dir, durableDir, marker, durableMarker, written, visibleNow,
               generations, place, phase, todo, nextGen, outcome, before,
               storeNow, faults, visible, lastSeen>>

-----------------------------------------------------------------------------
Build == INSTANCE FeedBuild

Advisory == INSTANCE Advisories WITH
  next <- due2, Faults <- AdvisoryFaults, MaxTime <- AdvisoryTime

Blobs == INSTANCE StaticBlobs

Validator == INSTANCE ValidatorCache WITH
  cache <- decisions, stage <- step

(* Restarts only between publications, and no other limit than the window. *)
Store == INSTANCE GenerationStore WITH
  current <- visibleNow, pc <- place, next <- nextGen, result <- outcome,
  now <- storeNow,
  MaxGen <- StoreGens, MaxTime <- StoreTime, MaxFaults <- StoreFaults,
  MaxGenerations <- StoreGens, BudgetBytes <- 0, ScarceSpace <- FALSE,
  FaultPoints <- {"idle"}, LazyWriteback <- FALSE

ASSUME PartsAssumption ==
  /\ Build!BuildConstants
  /\ Validator!ValidatorConstants
  /\ Advisory!AdvisoryConstants
  /\ Blobs!BlobConstants
  /\ StoreGens \in Nat \ {0} /\ StoreTime \in Nat /\ StoreFaults \in Nat
  /\ RetainSuperseded \in Nat

-----------------------------------------------------------------------------
(* Where a part may begin in several ways, it does so when it is moved.    *)
FeedInit ==
  /\ part \in {"delivery", "build", "advisories", "blobs", "validator", "store"}
  /\ Init /\ Build!Init /\ Advisory!Init /\ Blobs!Init /\ Validator!Init
  /\ Store!Init
  /\ part # "advisories" => known = CHOOSE places \in Schedules : TRUE
  /\ part # "blobs" => snapshot = CHOOSE s \in Snapshots : TRUE
  /\ part # "validator" => doc = CHOOSE d \in Docs : TRUE

DeliveryStep ==
  /\ part = "delivery" /\ Next
  /\ UNCHANGED <<part, buildVars, advisoryVars, blobVars, validatorVars, storeVars>>

BuildStep ==
  /\ part = "build" /\ Build!Next
  /\ UNCHANGED <<part, vars, advisoryVars, blobVars, validatorVars, storeVars>>

AdvisoryStep ==
  /\ part = "advisories" /\ Advisory!Next
  /\ UNCHANGED <<part, vars, buildVars, blobVars, validatorVars, storeVars>>

BlobStep ==
  /\ part = "blobs" /\ Blobs!Next
  /\ UNCHANGED <<part, vars, buildVars, advisoryVars, validatorVars, storeVars>>

ValidatorStep ==
  /\ part = "validator" /\ Validator!Next
  /\ UNCHANGED <<part, vars, buildVars, advisoryVars, blobVars, storeVars>>

StoreStep ==
  /\ part = "store" /\ Store!Next
  /\ UNCHANGED <<part, vars, buildVars, advisoryVars, blobVars, validatorVars>>

FeedNext ==
  \/ DeliveryStep \/ BuildStep \/ AdvisoryStep \/ BlobStep \/ ValidatorStep
  \/ StoreStep

FeedSpec ==
  FeedInit /\ [][FeedNext]_<<part, vars, buildVars, advisoryVars, blobVars,
                             validatorVars, storeVars>>

-----------------------------------------------------------------------------
(* Every part keeps its variables in their domains.                        *)
TypesOK ==
  /\ TypeOK /\ Build!TypeOK /\ Advisory!TypeOK /\ Blobs!TypeOK
  /\ Validator!TypeOK /\ Store!TypeOK

(* What is built passes the checks of what is published (see FeedBuild).   *)
BuiltValidates == Build!BuiltValidates

(* Stamping tracks never costs an update its publication (FeedBuild).      *)
StampKeeps == Build!StampKeeps

(* A selector is kept exactly if its fields exist together (FeedBuild).    *)
SelectorExact == Build!SelectorExact

(* Published advisories are not older than the chain allows (Advisories).  *)
AdvisoriesCurrent == Advisory!AdvisoriesCurrent

(* A detail page lacks an answer only while it is due (see Advisories).    *)
DetailsStay == Advisory!DetailsStay

(* A pass deletes enough for the budget, and no more (see StaticBlobs).    *)
BudgetMet == Blobs!BudgetMet

(* Interned ZIPs are those of the loaded generations (see StaticBlobs).    *)
InternExact == Blobs!InternExact

(* A cached decision is the validator's (see ValidatorCache).              *)
CacheTruthful == Validator!CacheTruthful

(* A ZIP that was decided on is not run again (see ValidatorCache).        *)
RememberedServed == Validator!RememberedServed

(* A generation is addressable for the window (see GenerationStore).       *)
ReaderWindow == Store!ReaderWindow
=============================================================================
