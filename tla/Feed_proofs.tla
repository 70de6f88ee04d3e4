----------------------------- MODULE Feed_proofs -----------------------------
(***************************************************************************)
(* The parts of the feed, for every value of their constants.              *)
(***************************************************************************)
EXTENDS Feed, FeedDelivery_proofs, FiniteSetTheorems, SequenceTheorems,
        WellFoundedInduction, TLAPS

-----------------------------------------------------------------------------
(* The validator's cache                                                   *)

Entry == [zip : Validator!Zips, text : Validator!Decisions \cup {"torn"}]

(* An entry that can be read is the validator's word on its ZIP.           *)
Truthful(entry) ==
  entry.text # "torn" => entry.text = Validator!ReportOf(entry.zip)

TruthfulCache(entries) ==
  /\ entries \in Seq(Entry)
  /\ \A i \in 1 .. Len(entries) : Truthful(entries[i])

(* The tables that are left end with none; what was decided of the ZIP in  *)
(* hand is what its report says, and if nothing was, nothing is remembered.*)
FetchInv ==
  /\ doc \in Docs
  /\ step \in {"idle", "try", "validate", "store", "prune", "decide"}
  /\ left \in Seq(Validator!Range(Tables) \cup {NoTable})
  /\ step # "idle" => Len(left) > 0 /\ left[Len(left)] = NoTable
  /\ step \in {"store", "prune"} => decision = Validator!ReportOf(Validator!zip)
  /\ step = "decide" =>
       \/ decision = Validator!ReportOf(Validator!zip)
       \/ decision = "error" /\ Validator!Remembered(Validator!zip) = {}

ValidatorInv == TruthfulCache(decisions) /\ FetchInv

(* What is remembered from truthful entries is what a report says.         *)
LEMMA RememberedTruthful ==
  ASSUME TruthfulCache(decisions), NEW z
  PROVE  Validator!Remembered(z) \subseteq {Validator!ReportOf(z)}
  BY DEF TruthfulCache, Truthful, Validator!Remembered, Validator!Decisions

(* A part of a truthful directory is one.                                  *)
LEMMA PartTruthful ==
  ASSUME NEW entries, TruthfulCache(entries), NEW m \in Nat \ {0}, NEW n \in Nat,
         n <= Len(entries)
  PROVE  TruthfulCache(SubSeq(entries, m, n))
<1>1. \A i \in m .. n : entries[i] \in Entry /\ Truthful(entries[i])
  BY DEF TruthfulCache
<1>2. /\ SubSeq(entries, m, n) \in Seq(Entry)
      /\ Len(SubSeq(entries, m, n)) = IF m <= n THEN n - m + 1 ELSE 0
      /\ \A i \in 1 .. n - m + 1 : SubSeq(entries, m, n)[i] = entries[m + i - 1]
  BY <1>1, SubSeqProperties
<1> QED
  BY <1>1, <1>2 DEF TruthfulCache

LEMMA JoinTruthful ==
  ASSUME NEW some, NEW others, TruthfulCache(some), TruthfulCache(others)
  PROVE  TruthfulCache(some \o others)
<1>1. /\ some \o others \in Seq(Entry)
      /\ Len(some \o others) = Len(some) + Len(others)
      /\ \A i \in 1 .. Len(some) + Len(others) :
           (some \o others)[i] =
              IF i <= Len(some) THEN some[i] ELSE others[i - Len(some)]
  BY ConcatProperties DEF TruthfulCache
<1>2. Len(some) \in Nat /\ Len(others) \in Nat
  BY DEF TruthfulCache
<1> QED
  BY <1>1, <1>2 DEF TruthfulCache

LEMMA AppendTruthful ==
  ASSUME NEW entries, TruthfulCache(entries), NEW entry \in Entry, Truthful(entry)
  PROVE  TruthfulCache(Append(entries, entry))
<1>1. /\ Append(entries, entry) \in Seq(Entry)
      /\ Len(Append(entries, entry)) = Len(entries) + 1
      /\ \A i \in 1 .. Len(entries) : Append(entries, entry)[i] = entries[i]
      /\ Append(entries, entry)[Len(entries) + 1] = entry
  BY AppendProperties DEF TruthfulCache
<1>2. Len(entries) \in Nat
  BY DEF TruthfulCache
<1> QED
  BY <1>1, <1>2 DEF TruthfulCache

(* The ZIP in hand is one.                                                 *)
LEMMA ZipInHand ==
  ASSUME FetchInv, step # "idle"
  PROVE  Validator!zip \in Validator!Zips /\ Validator!zip = <<doc, left[1]>>
<1>1. left # << >> /\ Head(left) = left[1]
      /\ left[1] \in Validator!Range(Tables) \cup {NoTable}
  BY DEF FetchInv
<1> QED
  BY <1>1 DEF FetchInv, Validator!zip, Validator!Zips

(* A decision that a report gave is stored as it is.                       *)
LEMMA StoredTruthful ==
  ASSUME ValidatorInv, step = "store"
  PROVE  TruthfulCache(Validator!Stored(Validator!ReportOf(Validator!zip)))
<1> DEFINE z == Validator!zip
           text == Validator!ReportOf(z)
           old == {i \in DOMAIN decisions : decisions[i].zip = z}
           k == CHOOSE i \in old : TRUE
           others == IF old = {} THEN decisions ELSE Validator!RemoveAt(decisions, k)
<1>1. TruthfulCache(decisions) /\ decisions \in Seq(Entry)
  BY DEF ValidatorInv, TruthfulCache
<1>2. TruthfulCache(others)
  <2>1. CASE old = {}
    BY <1>1, <2>1
  <2>2. CASE old # {}
    <3>1. k \in 1 .. Len(decisions) /\ Len(decisions) \in Nat
      BY <1>1, <2>2
    <3>2. others = SubSeq(decisions, 1, k - 1)
                     \o SubSeq(decisions, k + 1, Len(decisions))
      BY <2>2 DEF Validator!RemoveAt
    <3> HIDE DEF k, others
    <3>3. TruthfulCache(SubSeq(decisions, 1, k - 1))
      BY <1>1, <3>1, PartTruthful
    <3>4. TruthfulCache(SubSeq(decisions, k + 1, Len(decisions)))
      BY <1>1, <3>1, PartTruthful
    <3> QED
      BY <3>2, <3>3, <3>4, JoinTruthful
  <2> QED
    BY <2>1, <2>2
<1>3. [zip |-> z, text |-> text] \in Entry /\ Truthful([zip |-> z, text |-> text])
  BY ZipInHand DEF ValidatorInv, Entry, Truthful, Validator!ReportOf, Validator!Decisions
<1>4. Validator!Stored(text) = Append(others, [zip |-> z, text |-> text])
  BY DEF Validator!Stored
<1> QED
  BY <1>2, <1>3, <1>4, AppendTruthful

(* A loss of power tears an entry, which then says nothing.                *)
LEMMA TornTruthful ==
  ASSUME TruthfulCache(decisions), decisions # << >>
  PROVE  TruthfulCache([decisions EXCEPT ![Len(decisions)].text = "torn"])
<1> DEFINE n == Len(decisions)
           torn == [decisions[n] EXCEPT !.text = "torn"]
<1>1. decisions \in Seq(Entry) /\ n \in 1 .. Len(decisions)
  BY DEF TruthfulCache
<1>2. decisions[n] \in Entry
  BY <1>1, ElementOfSeq
<1>3. torn \in Entry /\ torn.text = "torn"
  BY <1>2 DEF Entry
<1>4. [decisions EXCEPT ![Len(decisions)].text = "torn"]
        = [decisions EXCEPT ![n] = torn]
  OBVIOUS
<1> HIDE DEF torn, n
<1>5. /\ [decisions EXCEPT ![n] = torn] \in Seq(Entry)
      /\ Len([decisions EXCEPT ![n] = torn]) = Len(decisions)
      /\ \A j \in 1 .. Len(decisions) :
           [decisions EXCEPT ![n] = torn][j] = IF j = n THEN torn ELSE decisions[j]
  BY <1>1, <1>3, ExceptSeq
<1>6. Truthful(torn)
  BY <1>3 DEF Truthful
<1> QED
  BY <1>4, <1>5, <1>6 DEF TruthfulCache

(* Going on to the next table leaves a fetch that ends with none.          *)
LEMMA NextTableKeeps ==
  ASSUME FetchInv, step # "idle", Validator!NextTable, doc' = doc
  PROVE  FetchInv'
<1> DEFINE T == Validator!Range(Tables) \cup {NoTable}
<1>1. left \in Seq(T) /\ Len(left) > 0 /\ left[Len(left)] = NoTable /\ doc \in Docs
  BY DEF FetchInv
<1> HIDE DEF T
<1>2. CASE Len(left) > 1
  <2>1. step' = "try" /\ left' = Tail(left)
    BY <1>2 DEF Validator!NextTable
  <2>2. /\ Tail(left) \in Seq(T) /\ Len(Tail(left)) = Len(left) - 1
        /\ \A i \in 1 .. Len(Tail(left)) : Tail(left)[i] = left[i + 1]
    BY <1>1, <1>2, HeadTailProperties
  <2>3. Len(left) \in Nat
    BY <1>1
  <2>4. left'[Len(left')] = NoTable /\ Len(left') > 0
    BY <1>1, <1>2, <2>1, <2>2, <2>3
  <2> QED
    BY <1>1, <2>1, <2>2, <2>4 DEF FetchInv, T
<1>3. CASE ~(Len(left) > 1)
  <2>1. step' = "idle" /\ left' = << >>
    BY <1>3 DEF Validator!NextTable
  <2> QED
    BY <1>1, <2>1 DEF FetchInv
<1> QED
  BY <1>2, <1>3

(* At the start nothing is remembered and no fetch is under way.           *)
LEMMA ValidatorInit == Validator!Init => ValidatorInv
  BY DEF Validator!Init, ValidatorInv, TruthfulCache, FetchInv

(* Each step of a fetch keeps the directory truthful.                      *)
LEMMA ValidatorStepInv ==
  ASSUME ValidatorInv, [Validator!Next]_(Validator!vars)
  PROVE  ValidatorInv'
<1> DEFINE zipHand == Validator!zip
<1>1. CASE Validator!Fetch
  <2>1. Append(Tables, NoTable) \in Seq(Validator!Range(Tables) \cup {NoTable})
    <3>1. Tables \in Seq(Validator!Range(Tables) \cup {NoTable})
      BY PartsAssumption, SeqMonotonic DEF Validator!ValidatorConstants
    <3> QED
      BY <3>1, AppendProperties
  <2>2. /\ Len(Append(Tables, NoTable)) = Len(Tables) + 1
        /\ Append(Tables, NoTable)[Len(Tables) + 1] = NoTable
        /\ Len(Tables) \in Nat
    BY PartsAssumption DEF Validator!ValidatorConstants
  <2>3. left' = Append(Tables, NoTable) /\ step' = "try" /\ doc' \in Docs
        /\ decisions' = decisions
    BY <1>1 DEF Validator!Fetch
  <2>4. Len(left') > 0 /\ left'[Len(left')] = NoTable
    BY <2>2, <2>3
  <2> QED
    BY <2>1, <2>3, <2>4 DEF ValidatorInv, FetchInv, TruthfulCache, Truthful
<1>2. CASE Validator!Augment
  <2>1. step = "try" /\ decisions' = decisions /\ doc' = doc
    BY <1>2 DEF Validator!Augment
  <2>2. CASE Validator!NextTable
    BY <2>1, <2>2, NextTableKeeps DEF ValidatorInv, TruthfulCache, Truthful
  <2>3. CASE step' = "validate" /\ UNCHANGED <<left, result>>
    BY <2>1, <2>3 DEF ValidatorInv, FetchInv, TruthfulCache, Truthful
  <2> QED
    BY <1>2, <2>2, <2>3 DEF Validator!Augment
<1>3. CASE Validator!CacheHit
  <2>1. /\ step = "validate" /\ step' = "decide" /\ decisions' = decisions
        /\ doc' = doc /\ left' = left /\ Validator!zip' = Validator!zip
        /\ decision' \in Validator!Remembered(Validator!zip)
    BY <1>3 DEF Validator!CacheHit, Validator!zip
  <2>2. decision' = Validator!ReportOf(Validator!zip)
    BY <2>1, RememberedTruthful DEF ValidatorInv
  <2> QED
    BY <2>1, <2>2 DEF ValidatorInv, FetchInv, TruthfulCache, Truthful, Validator!ReportOf
<1>4. CASE Validator!RunValidator
  <2>1. /\ step = "validate" /\ decisions' = decisions
        /\ doc' = doc /\ left' = left /\ Validator!zip' = Validator!zip
        /\ Validator!Remembered(Validator!zip) = {}
        /\ step' = IF decision' \in Validator!Decisions THEN "store" ELSE "decide"
    BY <1>4 DEF Validator!RunValidator, Validator!zip, Validator!Cacheable
  <2>2. \/ decision' = Validator!ReportOf(Validator!zip) /\ step' = "store"
        \/ decision' = "error" /\ step' = "decide"
    <3>1. decision' \in {Validator!ReportOf(Validator!zip), "error"}
      BY <1>4 DEF Validator!RunValidator, Validator!Outcome
    <3>2. Validator!ReportOf(Validator!zip) \in Validator!Decisions
          /\ "error" \notin Validator!Decisions
      BY DEF Validator!ReportOf, Validator!Decisions
    <3> QED
      BY <2>1, <3>1, <3>2
  <2>3. Validator!Remembered(Validator!zip)' = Validator!Remembered(Validator!zip)
    BY <2>1 DEF Validator!Remembered
  <2>4. Validator!ReportOf(Validator!zip)' = Validator!ReportOf(Validator!zip)
    BY <2>1 DEF Validator!ReportOf
  <2> QED
    BY <2>1, <2>2, <2>3, <2>4 DEF ValidatorInv, FetchInv, TruthfulCache, Truthful
<1>5. CASE Validator!StoreDecision \/ Validator!StoreFails \/ Validator!Prune
  <2>1. /\ step \in {"store", "prune"} /\ step' \in {"prune", "decide"}
        /\ doc' = doc /\ left' = left /\ decision' = decision
        /\ Validator!zip' = Validator!zip
    BY <1>5 DEF Validator!StoreDecision, Validator!StoreFails, Validator!Prune,
                Validator!zip
  <2>2. decision = Validator!ReportOf(Validator!zip)
        /\ decision' = Validator!ReportOf(Validator!zip)'
    BY <2>1 DEF ValidatorInv, FetchInv, Validator!ReportOf
  <2>3. FetchInv'
    BY <2>1, <2>2 DEF ValidatorInv, FetchInv
  <2>4. TruthfulCache(decisions')
    <3>1. CASE Validator!StoreDecision
      <4>1. decisions' = Validator!Stored(Validator!ReportOf(Validator!zip))
        BY <2>2, <3>1 DEF Validator!StoreDecision, Validator!ReportOf
      <4> QED
        BY <3>1, <4>1, StoredTruthful DEF Validator!StoreDecision
    <3>2. CASE Validator!StoreFails
      BY <3>2 DEF Validator!StoreFails, ValidatorInv
    <3>3. CASE Validator!Prune
      <4>1. decisions \in Seq(Entry) /\ Len(decisions) \in Nat /\ MaxEntries \in Nat
        BY PartsAssumption
           DEF ValidatorInv, TruthfulCache, Validator!ValidatorConstants
      <4>2. \/ decisions' = decisions
            \/ /\ Len(decisions) - MaxEntries + 1 \in Nat \ {0}
               /\ decisions' = SubSeq(decisions, Len(decisions) - MaxEntries + 1,
                                      Len(decisions))
        BY <3>3, <4>1 DEF Validator!Prune, Validator!Pruned
      <4> DEFINE m == Len(decisions) - MaxEntries + 1
      <4>3. TruthfulCache(decisions)
        BY DEF ValidatorInv
      <4>4. m \in Nat \ {0} => TruthfulCache(SubSeq(decisions, m, Len(decisions)))
        BY <4>1, <4>3, PartTruthful
      <4> QED
        BY <4>2, <4>3, <4>4
    <3> QED
      BY <1>5, <3>1, <3>2, <3>3
  <2> QED
    BY <2>3, <2>4 DEF ValidatorInv, TruthfulCache, Truthful
<1>6. CASE Validator!Accept
  BY <1>6 DEF Validator!Accept, ValidatorInv, FetchInv, TruthfulCache, Truthful
<1>7. CASE Validator!Reject
  BY <1>7, NextTableKeeps
     DEF Validator!Reject, ValidatorInv, TruthfulCache, Truthful
<1>8. CASE Validator!Crash
  <2>1. step' = "idle" /\ left' = << >> /\ doc' = doc
    BY <1>8 DEF Validator!Crash
  <2>2. TruthfulCache(decisions')
    BY <1>8, TornTruthful DEF Validator!Crash, ValidatorInv
  <2> QED
    BY <2>1, <2>2 DEF ValidatorInv, FetchInv, TruthfulCache, Truthful
<1>9. CASE UNCHANGED Validator!vars
  BY <1>9 DEF Validator!vars, ValidatorInv, FetchInv, TruthfulCache, Truthful,
              Validator!zip, Validator!Remembered, Validator!ReportOf
<1> QED
  BY <1>1, <1>2, <1>3, <1>4, <1>5, <1>6, <1>7, <1>8, <1>9 DEF Validator!Next

(* A step of the composition is one of the validator's or none of them.    *)
LEMMA FeedIsValidator == FeedSpec => Validator!Spec
<1>1. FeedInit => Validator!Init
  BY DEF FeedInit
<1>2. [FeedNext]_<<part, vars, buildVars, advisoryVars, blobVars, validatorVars,
                   storeVars>> => [Validator!Next]_(Validator!vars)
  BY DEF FeedNext, DeliveryStep, BuildStep, AdvisoryStep, BlobStep,
         ValidatorStep, StoreStep, validatorVars, Validator!vars
<1> QED
  BY <1>1, <1>2, PTL DEF FeedSpec, Validator!Spec

(* The validator's part keeps its invariant.                               *)
LEMMA ValidatorAlways == Validator!Spec => []ValidatorInv
<1>1. ValidatorInv /\ [Validator!Next]_(Validator!vars) => ValidatorInv'
  BY ValidatorStepInv
<1> QED
  BY ValidatorInit, <1>1, PTL DEF Validator!Spec

(* A decision that can be read back is the one that a complete report on   *)
(* those bytes gives, for every list of tables, every directory size and   *)
(* wherever the program, the disk or the process fails                     *)
(* (CachedStaticValidator::validate, validator_outcome).                   *)
THEOREM CacheAlwaysTruthful == FeedSpec => []CacheTruthful
<1>1. ValidatorInv => CacheTruthful
  BY RememberedTruthful DEF ValidatorInv, CacheTruthful, Validator!CacheTruthful
<1> QED
  BY FeedIsValidator, ValidatorAlways, <1>1, PTL

(* A fetch of a document whose own bytes are remembered as accepted does   *)
(* not fail, whichever tables there are (fetch_static_at).                 *)
THEOREM RememberedAlwaysServed == FeedSpec => RememberedServed
<1> DEFINE Served ==
      (step = "decide" /\ result # result' /\ result' = <<"failed">>)
        => "accept" \notin Validator!Remembered(<<doc, NoTable>>)
<1>1. ASSUME ValidatorInv, [Validator!Next]_(Validator!vars),
             step = "decide", result # result', result' = <<"failed">>
      PROVE  "accept" \notin Validator!Remembered(<<doc, NoTable>>)
  <2>1. Validator!Reject
    <3>1. ~Validator!Accept
      BY <1>1 DEF Validator!Accept, Validator!zip
    <3> QED
      BY <1>1, <3>1
         DEF Validator!Next, Validator!vars, Validator!Fetch, Validator!Augment,
             Validator!CacheHit, Validator!RunValidator, Validator!StoreDecision,
             Validator!StoreFails, Validator!Prune, Validator!Crash
  <2>2. decision # "accept" /\ ~(Len(left) > 1)
    BY <1>1, <2>1 DEF Validator!Reject, Validator!NextTable
  <2>3. Validator!zip = <<doc, NoTable>>
    <3>1. left \in Seq(Validator!Range(Tables) \cup {NoTable})
          /\ Len(left) > 0 /\ left[Len(left)] = NoTable
      BY <1>1 DEF ValidatorInv, FetchInv
    <3>2. Len(left) \in Nat
      BY <3>1, LenProperties
    <3>3. Len(left) = 1
      <4> DEFINE n == Len(left)
      <4>1. n \in Nat /\ n > 0 /\ ~(n > 1)
        BY <2>2, <3>1, <3>2
      <4> HIDE DEF n
      <4>2. n = 1
        BY <4>1
      <4> QED
        BY <4>2 DEF n
    <3> QED
      BY <1>1, <3>1, <3>3, ZipInHand DEF ValidatorInv
  <2>4. CASE decision = "error"
    BY <1>1, <2>3, <2>4 DEF ValidatorInv, FetchInv, Validator!ReportOf
  <2>5. CASE decision = Validator!ReportOf(Validator!zip)
    BY <1>1, <2>2, <2>3, <2>5, RememberedTruthful DEF ValidatorInv
  <2> QED
    BY <1>1, <2>4, <2>5 DEF ValidatorInv, FetchInv
<1>2. ValidatorInv /\ [Validator!Next]_(Validator!vars) => [Served]_(Validator!vars)
  BY <1>1
<1> QED
  BY FeedIsValidator, ValidatorAlways, <1>2, PTL
     DEF RememberedServed, Validator!RememberedServed, Validator!Spec, Served

-----------------------------------------------------------------------------
(* Building a generation                                                   *)

(* The schedule, the labels known and the boards are about covered stops.  *)
ScheduleInv ==
  /\ augmented \in BOOLEAN
  /\ platforms \subseteq Build!Labels /\ table \subseteq Build!Labels
  /\ DOMAIN board \subseteq Covered /\ \A s \in DOMAIN board : board[s] \in Tracks

(* The parts count like their composition.                                 *)
LEMMA BuildCardinality ==
  ASSUME NEW S PROVE Build!Cardinality(S) = Cardinality(S)
  BY DEF Build!Cardinality, Cardinality

(* A call that a trip makes once, at a station, may be stamped with any of *)
(* the station's platforms.                                                *)
LEMMA PlatformAssignable ==
  ASSUME ScheduleInv, NEW trip \in DOMAIN Trips, NEW n \in DOMAIN Build!Calls(trip),
         NEW stop \in DOMAIN board, Build!Calls(trip)[n] = stop,
         Build!Platform(stop, board[stop]) \in table \cap Build!FeedStops,
         NEW u, u.sequence = n, u.stop = None,
         u.assigned = Build!Platform(stop, board[stop])
  PROVE  u.assigned # None /\ u.sequence # None /\ Build!ValidAssignment(u, trip)
<1> DEFINE spot == Build!Platform(stop, board[stop])
<1>1. /\ Covered \subseteq Stops
      /\ Stops \cap (Build!Labels \cup {Build!Station(s) : s \in Covered}) = {}
      /\ None \notin Nat \cup Stops \cup Build!Labels \cup {Build!Station(s) : s \in Covered}
      /\ Trips \in [DOMAIN Trips -> [route : DOMAIN Routes, calls : Seq(Stops)]]
  BY PartsAssumption DEF Build!BuildConstants
<1>2. n \in Nat
  <2>1. Build!Calls(trip) \in Seq(Stops)
    BY <1>1 DEF Build!Calls
  <2> QED
    BY <2>1
<1>3. spot \in Build!Labels /\ spot.stop = stop /\ stop \in Covered /\ stop \in Stops
  BY <1>1 DEF ScheduleInv, Build!Platform
<1>4. spot \in platforms
  <2>1. spot \notin Stops
    BY <1>1, <1>3
  <2>2. \A s : spot # Build!Station(s)
    <3>1. DOMAIN spot = {"stop", "track"}
      BY DEF Build!Platform
    <3>2. \A s : DOMAIN Build!Station(s) = {"stop"}
      BY DEF Build!Station
    <3>3. "track" \notin {"stop"} /\ "track" \in {"stop", "track"}
      OBVIOUS
    <3> QED
      BY <3>1, <3>2, <3>3
  <2> QED
    BY <2>1, <2>2 DEF Build!FeedStops
<1>5. Build!Parent(spot) = Build!Station(stop)
  BY <1>3, <1>4 DEF Build!Parent
<1>6. stop \notin platforms /\ stop \in Build!Divided
  BY <1>1, <1>3, <1>4 DEF ScheduleInv, Build!Divided
<1>7. Build!Parent(stop) = Build!Station(stop) /\ Build!Station(stop) # None
  BY <1>1, <1>3, <1>6 DEF Build!Parent
<1>8. spot # None /\ n # None
  BY <1>1, <1>2, <1>3
<1> HIDE DEF spot
<1> QED
  BY <1>5, <1>7, <1>8 DEF Build!ValidAssignment, spot

(* Stamping leaves a stop time valid that was.                             *)
LEMMA StampedStopValid ==
  ASSUME ScheduleInv, NEW u \in Build!StopTime, NEW trip,
         Build!ValidStop(u, trip)
  PROVE  Build!ValidStop(Build!StampStop(u, trip.id), trip)
<1>1. CASE ~Build!Stampable(u, trip.id)
  BY <1>1 DEF Build!StampStop
<1>2. CASE Build!Stampable(u, trip.id)
  <2> DEFINE stop == Build!MeantStop(u, trip.id)
             visits == Build!Visits(stop, trip.id)
             n == CHOOSE m \in visits : TRUE
             spot == Build!Platform(stop, board[stop])
             v == Build!StampStop(u, trip.id)
  <2>1. /\ u.event = "near" /\ stop \in DOMAIN board
        /\ spot \in table \cap Build!FeedStops /\ Cardinality(visits) = 1
    BY <1>2, BuildCardinality DEF Build!Stampable
  <2>2. v = [u EXCEPT !.sequence = n, !.stop = None, !.assigned = spot]
    BY <1>2 DEF Build!StampStop
  <2>3. n \in DOMAIN Build!Calls(trip.id) /\ Build!Calls(trip.id)[n] = stop
    <3>1. visits # {}
      BY <2>1, FS_EmptySet
    <3> QED
      BY <3>1 DEF Build!Visits
  <2>4. trip.id \in DOMAIN Trips
    BY DEF Build!ValidStop
  <2> HIDE DEF n, stop, visits, spot
  <2>5. /\ v.sequence = n /\ v.stop = None /\ v.assigned = spot
        /\ v.event = u.event /\ v.relationship = u.relationship
    BY <2>2 DEF Build!StopTime
  <2> HIDE DEF v
  <2>6. v.assigned # None /\ v.sequence # None /\ Build!ValidAssignment(v, trip.id)
    BY <2>1, <2>3, <2>4, <2>5, PlatformAssignable DEF spot
  <2>7. Build!ValidReference(v, trip.id)
    BY <2>3, <2>5, <2>6 DEF Build!ValidReference
  <2>8. Build!ValidStop(v, trip)
    BY <2>1, <2>4, <2>5, <2>6, <2>7 DEF Build!ValidStop
  <2> QED
    BY <2>8 DEF v
<1> QED
  BY <1>1, <1>2

(* A stamped stop time is one.                                             *)
LEMMA StampedStopType ==
  ASSUME ScheduleInv, NEW u \in Build!StopTime, NEW trip \in DOMAIN Trips
  PROVE  Build!StampStop(u, trip) \in Build!StopTime
<1>1. CASE ~Build!Stampable(u, trip)
  BY <1>1 DEF Build!StampStop
<1>2. CASE Build!Stampable(u, trip)
  <2> DEFINE stop == Build!MeantStop(u, trip)
             visits == Build!Visits(stop, trip)
             n == CHOOSE m \in visits : TRUE
             spot == Build!Platform(stop, board[stop])
  <2>1. spot \in table /\ Cardinality(visits) = 1
    BY <1>2, BuildCardinality DEF Build!Stampable
  <2>2. Build!StampStop(u, trip)
          = [u EXCEPT !.sequence = n, !.stop = None, !.assigned = spot]
    BY <1>2 DEF Build!StampStop
  <2>3. n \in Nat
    <3>1. visits # {}
      BY <2>1, FS_EmptySet
    <3>2. Build!Calls(trip) \in Seq(Stops)
      BY PartsAssumption DEF Build!BuildConstants, Build!Calls
    <3>3. DOMAIN Build!Calls(trip) \subseteq Nat
      BY <3>2
    <3> QED
      BY <3>1, <3>3 DEF Build!Visits
  <2>4. spot \in Build!StopIds
    BY <2>1 DEF ScheduleInv, Build!StopIds
  <2> HIDE DEF n, spot
  <2> QED
    BY <2>2, <2>3, <2>4 DEF Build!StopTime, Build!Optional
<1> QED
  BY <1>1, <1>2

(* Stamping an entity costs none of its stop times.                        *)
LEMMA StampKeepsStops ==
  ASSUME ScheduleInv, NEW e \in Build!Entity
  PROVE  Build!Kept(e) \subseteq Build!Kept(Build!Stamp(e))
<1> DEFINE update == e.update
           stamped == [i \in DOMAIN update.stops |->
                         Build!StampStop(update.stops[i], update.trip.id)]
<1>1. None \notin Build!UpdateType
  BY PartsAssumption DEF Build!BuildConstants
<1>2. CASE e.update = None \/ e.update.trip.id \notin DOMAIN Trips
  BY <1>2 DEF Build!Stamp
<1>3. CASE e.update # None /\ e.update.trip.id \in DOMAIN Trips
  <2>1. update \in Build!UpdateType
    BY <1>3 DEF Build!Entity, Build!Optional
  <2>2. update = [trip |-> update.trip, stops |-> update.stops]
        /\ update.stops \in Seq(Build!StopTime)
    BY <2>1 DEF Build!UpdateType
  <2>3. Build!Stamp(e).update = [trip |-> update.trip, stops |-> stamped]
    BY <1>3, <2>2 DEF Build!Stamp, Build!Entity
  <2>4. Build!Stamp(e).update # None
    <3>1. update.trip \in Build!TripRef
      BY <2>1 DEF Build!UpdateType
    <3>2. stamped \in Seq(Build!StopTime)
      <4> DEFINE n == Len(update.stops)
      <4>1. n \in Nat /\ DOMAIN update.stops = 1 .. n
            /\ \A i \in 1 .. n : update.stops[i] \in Build!StopTime
        BY <2>2
      <4> HIDE DEF n
      <4>2. stamped \in [1 .. n -> Build!StopTime]
        BY <1>3, <4>1, StampedStopType
      <4> HIDE DEF stamped
      <4> QED
        BY <4>1, <4>2, SeqDef
    <3> QED
      BY <1>1, <2>3, <3>1, <3>2 DEF Build!UpdateType
  <2> QED
    BY <1>3, <2>2, <2>3, <2>4, StampedStopValid DEF Build!Kept
<1> QED
  BY <1>2, <1>3

(* A set of numbers that is not empty has a least one: what fails for some *)
(* number fails for a first.                                               *)
LEMMA LeastOf ==
  ASSUME NEW S \in SUBSET Nat, S # {}
  PROVE  \E m \in S : \A n \in S : m <= n
<1> DEFINE R == OpToRel(<, Nat)
<1>1. IsWellFoundedOn(R, Nat)
  BY NatLessThanWellFounded, Zenon
<1>2. \A x, y \in Nat : <<y, x>> \in R <=> y < x
  BY DEF OpToRel
<1> HIDE DEF R
<1>3. PICK x \in S : \A y \in S : ~(<<y, x>> \in R)
  BY <1>1, WFMin
<1>4. ASSUME NEW y \in S PROVE x <= y
  <2>1. x \in Nat /\ y \in Nat /\ ~(y < x)
    BY <1>2, <1>3
  <2> QED
    BY <2>1
<1> QED
  BY <1>4

(* The candidate is what the entities, taken one by one, add up to.        *)
Steps(f, entities, n) ==
  f = [i \in 0 .. n |->
         IF i = 0 THEN Build!NoProducts ELSE Build!AddEntity(f[i - 1], entities[i])]

LEMMA StepsThere ==
  ASSUME NEW entities, NEW n \in Nat
  PROVE  \E f : Steps(f, entities, n)
<1> DEFINE bad == {m \in Nat : ~ \E f : Steps(f, entities, m)}
<1> SUFFICES ASSUME bad # {} PROVE FALSE
  OBVIOUS
<1>1. PICK m \in bad : \A k \in bad : m <= k
  BY LeastOf
<1>2. m \in Nat /\ ~ \E f : Steps(f, entities, m)
  OBVIOUS
<1>3. CASE m = 0
  <2> DEFINE f == [i \in 0 .. 0 |-> Build!NoProducts]
  <2>1. Steps(f, entities, 0)
    BY DEF Steps
  <2> QED
    BY <1>2, <1>3, <2>1
<1>4. CASE m # 0
  <2>1. m - 1 \in Nat /\ m - 1 \notin bad
    BY <1>1, <1>2, <1>4
  <2>2. PICK f : Steps(f, entities, m - 1)
    BY <2>1
  <2> DEFINE g == [i \in 0 .. m |-> IF i = m THEN Build!AddEntity(f[m - 1], entities[m])
                                    ELSE f[i]]
  <2>3. f = [i \in 0 .. m - 1 |->
               IF i = 0 THEN Build!NoProducts ELSE Build!AddEntity(f[i - 1], entities[i])]
    BY <2>2 DEF Steps
  <2>4. \A i \in 0 .. m - 1 : g[i] = f[i]
    BY <1>2
  <2>5. ASSUME NEW i \in 0 .. m
        PROVE  g[i] = IF i = 0 THEN Build!NoProducts
                      ELSE Build!AddEntity(g[i - 1], entities[i])
    <3>1. CASE i = m
      <4>1. g[i] = Build!AddEntity(f[m - 1], entities[m]) /\ m - 1 \in 0 .. m - 1
        BY <1>2, <1>4, <3>1
      <4> HIDE DEF g
      <4> QED
        BY <1>4, <2>4, <3>1, <4>1
    <3>2. CASE i # m
      <4>1. i \in 0 .. m - 1 /\ (i # 0 => i - 1 \in 0 .. m - 1)
        BY <1>2, <3>2
      <4>2. g[i] = f[i] /\ (i # 0 => g[i - 1] = f[i - 1])
        BY <2>4, <4>1
      <4> HIDE DEF g
      <4> QED
        BY <2>3, <4>1, <4>2
    <3> QED
      BY <3>1, <3>2
  <2>6. DOMAIN g = 0 .. m /\ g = [i \in 0 .. m |-> g[i]]
    OBVIOUS
  <2> HIDE DEF g
  <2>7. Steps(g, entities, m)
    BY <2>5, <2>6 DEF Steps
  <2> QED
    BY <1>2, <2>7
<1> QED
  BY <1>3, <1>4

LEMMA CandidateIsSteps ==
  ASSUME NEW entities, Len(entities) \in Nat
  PROVE  \E f : Steps(f, entities, Len(entities))
                /\ Build!Candidate(entities) = f[Len(entities)]
<1> DEFINE n == Len(entities)
           upTo == CHOOSE f : Steps(f, entities, n)
<1>1. Steps(upTo, entities, n)
  BY StepsThere
<1>2. Build!Candidate(entities) = upTo[n]
  BY DEF Build!Candidate, Steps
<1> QED
  BY <1>1, <1>2

(* A product whose entities have identifiers of their own.                 *)
Distinct(product) ==
  /\ \E S : product \in Seq(S)
  /\ IsFiniteSet(Build!Ids(product))
  /\ Cardinality(Build!Ids(product)) = Len(product)

LEMMA NothingDistinct ==
  /\ Distinct(<< >>) /\ Build!Ids(<< >>) = {} /\ DOMAIN << >> = {}
<1>1. << >> \in Seq({}) /\ Len(<< >>) = 0
  OBVIOUS
<1>2. DOMAIN << >> = {}
  OBVIOUS
<1>3. Build!Ids(<< >>) = {}
  BY <1>2 DEF Build!Ids
<1> QED
  BY <1>1, <1>2, <1>3, FS_EmptySet DEF Distinct

(* An entity that is added has an identifier that was not there.           *)
LEMMA AddDistinct ==
  ASSUME NEW product, Distinct(product), NEW id, id \notin Build!Ids(product), NEW payload
  PROVE  LET new == Append(product, [id |-> id, payload |-> payload])
         IN  /\ Distinct(new)
             /\ Build!Ids(new) = Build!Ids(product) \cup {id}
             /\ \A i \in DOMAIN new :
                  \/ i \in DOMAIN product /\ new[i] = product[i]
                  \/ new[i].payload = payload
<1> DEFINE e == [id |-> id, payload |-> payload]
           new == Append(product, e)
<1>1. PICK S : product \in Seq(S)
  BY DEF Distinct
<1> DEFINE T == S \cup {e}
<1>2. product \in Seq(T) /\ e \in T
  BY <1>1, SeqMonotonic
<1>3. /\ new \in Seq(T) /\ Len(new) = Len(product) + 1
      /\ \A i \in 1 .. Len(product) : new[i] = product[i]
      /\ new[Len(product) + 1] = e
  BY <1>2, AppendProperties
<1> HIDE DEF T
<1>4. /\ Len(product) \in Nat /\ DOMAIN product = 1 .. Len(product)
      /\ DOMAIN new = 1 .. Len(product) + 1
  BY <1>2, <1>3, LenProperties
<1> DEFINE n == Len(product)
<1> HIDE DEF new, n
<1>5. e.id = id /\ e.payload = payload
  OBVIOUS
<1> HIDE DEF e
<1>6. ASSUME NEW i \in DOMAIN new
      PROVE  \/ i \in DOMAIN product /\ new[i] = product[i]
             \/ i = n + 1 /\ new[i] = e
  <2>1. n \in Nat /\ i \in 1 .. n + 1
    BY <1>4 DEF n
  <2>2. i \in 1 .. n \/ i = n + 1
    BY <2>1
  <2> QED
    BY <1>3, <1>4, <2>2 DEF n
<1>7. n + 1 \in DOMAIN new /\ new[n + 1] = e
      /\ \A i \in DOMAIN product : i \in DOMAIN new /\ new[i] = product[i]
  BY <1>3, <1>4 DEF n
<1>8. Build!Ids(new) = Build!Ids(product) \cup {id}
  BY <1>5, <1>6, <1>7 DEF Build!Ids
<1>9. IsFiniteSet(Build!Ids(new)) /\ Cardinality(Build!Ids(new)) = Len(product) + 1
  BY <1>8, FS_AddElement DEF Distinct
<1>10. Distinct(new)
  BY <1>3, <1>9 DEF Distinct
<1> QED
  BY <1>5, <1>6, <1>8, <1>10 DEF new, e

(* What is built of entities with identifiers in ids.                      *)
Sound(out, ids) ==
  /\ out = [updates |-> out.updates, vehicles |-> out.vehicles, alerts |-> out.alerts]
  /\ Distinct(out.updates) /\ Distinct(out.vehicles) /\ Distinct(out.alerts)
  /\ Build!Ids(out.updates) \cup Build!Ids(out.vehicles) \cup Build!Ids(out.alerts)
       \subseteq ids
  /\ \A i \in DOMAIN out.updates : Build!ValidUpdate(out.updates[i].payload)
  /\ \A i \in DOMAIN out.vehicles : Build!ValidVehicle(out.vehicles[i].payload)
  /\ \A i \in DOMAIN out.alerts : Build!ValidAlert(out.alerts[i].payload)

(* Adding one more entity keeps it sound.                                  *)
LEMMA AddSound ==
  ASSUME NEW ids, NEW out, Sound(out, ids), NEW e, e.id \in ids
  PROVE  Sound(Build!AddEntity(out, e), ids)
<1> DEFINE more == Build!AddEntity(out, e)
<1>1. /\ more = [updates  |-> Build!AddUpdate(out.updates, e),
                 vehicles |-> Build!AddVehicle(out.vehicles, e),
                 alerts   |-> Build!AddAlert(out.alerts, e)]
      /\ more.updates = Build!AddUpdate(out.updates, e)
      /\ more.vehicles = Build!AddVehicle(out.vehicles, e)
      /\ more.alerts = Build!AddAlert(out.alerts, e)
  BY DEF Build!AddEntity
<1>2. /\ Distinct(more.updates) /\ Build!Ids(more.updates) \subseteq ids
      /\ \A i \in DOMAIN more.updates : Build!ValidUpdate(more.updates[i].payload)
  <2>1. \/ more.updates = out.updates
        \/ \E payload : /\ Build!ValidUpdate(payload) /\ e.id \notin Build!Ids(out.updates)
                     /\ more.updates = Append(out.updates, [id |-> e.id, payload |-> payload])
    BY <1>1 DEF Build!AddUpdate, Build!Add
  <2> HIDE DEF more
  <2>2. CASE more.updates = out.updates
    BY <2>2 DEF Sound
  <2>3. ASSUME NEW payload, Build!ValidUpdate(payload), e.id \notin Build!Ids(out.updates),
               more.updates = Append(out.updates, [id |-> e.id, payload |-> payload])
        PROVE  /\ Distinct(more.updates) /\ Build!Ids(more.updates) \subseteq ids
               /\ \A i \in DOMAIN more.updates : Build!ValidUpdate(more.updates[i].payload)
    <3>1. Distinct(out.updates)
      BY DEF Sound
    <3>2. /\ Distinct(more.updates)
          /\ Build!Ids(more.updates) = Build!Ids(out.updates) \cup {e.id}
          /\ \A i \in DOMAIN more.updates :
               \/ i \in DOMAIN out.updates /\ more.updates[i] = out.updates[i]
               \/ more.updates[i].payload = payload
      BY <2>3, <3>1, AddDistinct
    <3> QED
      BY <2>3, <3>2 DEF Sound
  <2> QED
    BY <2>1, <2>2, <2>3
<1>3. /\ Distinct(more.vehicles) /\ Build!Ids(more.vehicles) \subseteq ids
      /\ \A i \in DOMAIN more.vehicles : Build!ValidVehicle(more.vehicles[i].payload)
  <2>1. \/ more.vehicles = out.vehicles
        \/ \E payload : /\ Build!ValidVehicle(payload) /\ e.id \notin Build!Ids(out.vehicles)
                     /\ more.vehicles = Append(out.vehicles, [id |-> e.id, payload |-> payload])
    BY <1>1 DEF Build!AddVehicle, Build!Add
  <2> HIDE DEF more
  <2>2. CASE more.vehicles = out.vehicles
    BY <2>2 DEF Sound
  <2>3. ASSUME NEW payload, Build!ValidVehicle(payload), e.id \notin Build!Ids(out.vehicles),
               more.vehicles = Append(out.vehicles, [id |-> e.id, payload |-> payload])
        PROVE  /\ Distinct(more.vehicles) /\ Build!Ids(more.vehicles) \subseteq ids
               /\ \A i \in DOMAIN more.vehicles : Build!ValidVehicle(more.vehicles[i].payload)
    <3>1. Distinct(out.vehicles)
      BY DEF Sound
    <3>2. /\ Distinct(more.vehicles)
          /\ Build!Ids(more.vehicles) = Build!Ids(out.vehicles) \cup {e.id}
          /\ \A i \in DOMAIN more.vehicles :
               \/ i \in DOMAIN out.vehicles /\ more.vehicles[i] = out.vehicles[i]
               \/ more.vehicles[i].payload = payload
      BY <2>3, <3>1, AddDistinct
    <3> QED
      BY <2>3, <3>2 DEF Sound
  <2> QED
    BY <2>1, <2>2, <2>3
<1>4. /\ Distinct(more.alerts) /\ Build!Ids(more.alerts) \subseteq ids
      /\ \A i \in DOMAIN more.alerts : Build!ValidAlert(more.alerts[i].payload)
  <2>1. \/ more.alerts = out.alerts
        \/ \E payload : /\ Build!ValidAlert(payload) /\ e.id \notin Build!Ids(out.alerts)
                     /\ more.alerts = Append(out.alerts, [id |-> e.id, payload |-> payload])
    BY <1>1 DEF Build!AddAlert, Build!Add
  <2> HIDE DEF more
  <2>2. CASE more.alerts = out.alerts
    BY <2>2 DEF Sound
  <2>3. ASSUME NEW payload, Build!ValidAlert(payload), e.id \notin Build!Ids(out.alerts),
               more.alerts = Append(out.alerts, [id |-> e.id, payload |-> payload])
        PROVE  /\ Distinct(more.alerts) /\ Build!Ids(more.alerts) \subseteq ids
               /\ \A i \in DOMAIN more.alerts : Build!ValidAlert(more.alerts[i].payload)
    <3>1. Distinct(out.alerts)
      BY DEF Sound
    <3>2. /\ Distinct(more.alerts)
          /\ Build!Ids(more.alerts) = Build!Ids(out.alerts) \cup {e.id}
          /\ \A i \in DOMAIN more.alerts :
               \/ i \in DOMAIN out.alerts /\ more.alerts[i] = out.alerts[i]
               \/ more.alerts[i].payload = payload
      BY <2>3, <3>1, AddDistinct
    <3> QED
      BY <2>3, <3>2 DEF Sound
  <2> QED
    BY <2>1, <2>2, <2>3
<1> HIDE DEF more
<1>5. more = [updates |-> more.updates, vehicles |-> more.vehicles, alerts |-> more.alerts]
  BY <1>1
<1>6. Sound(more, ids)
  BY <1>2, <1>3, <1>4, <1>5 DEF Sound
<1> QED
  BY <1>6 DEF more

(* A candidate is sound, by induction on the entities that were added.     *)
LEMMA CandidateSound ==
  ASSUME NEW entities, Len(entities) \in Nat, NEW ids,
         \A i \in 1 .. Len(entities) : entities[i].id \in ids
  PROVE  Sound(Build!Candidate(entities), ids)
<1> DEFINE n == Len(entities)
<1>1. PICK f : Steps(f, entities, n) /\ Build!Candidate(entities) = f[n]
  BY CandidateIsSteps
<1> DEFINE bad == {m \in 0 .. n : ~Sound(f[m], ids)}
<1>2. n \in Nat
  OBVIOUS
<1>3. /\ f[0] = Build!NoProducts
      /\ \A i \in 1 .. n : f[i] = Build!AddEntity(f[i - 1], entities[i])
  <2>1. f = [i \in 0 .. n |->
               IF i = 0 THEN Build!NoProducts ELSE Build!AddEntity(f[i - 1], entities[i])]
    BY <1>1 DEF Steps
  <2> HIDE DEF n
  <2>2. \A i \in 0 .. n : f[i] = IF i = 0 THEN Build!NoProducts
                                 ELSE Build!AddEntity(f[i - 1], entities[i])
    BY <2>1
  <2>3. 0 \in 0 .. n /\ \A i \in 1 .. n : i \in 0 .. n /\ i # 0
    BY <1>2
  <2> QED
    BY <2>2, <2>3
<1>4. Sound(f[0], ids)
  <2>1. f[0] = [updates |-> << >>, vehicles |-> << >>, alerts |-> << >>]
    BY <1>3 DEF Build!NoProducts
  <2>2. f[0].updates = << >> /\ f[0].vehicles = << >> /\ f[0].alerts = << >>
    BY <2>1
  <2> QED
    BY <2>1, <2>2, NothingDistinct DEF Sound
<1>5. bad = {}
  <2> SUFFICES ASSUME bad # {} PROVE FALSE
    OBVIOUS
  <2>1. bad \in SUBSET Nat
    BY <1>2
  <2>2. PICK m \in bad : \A k \in bad : m <= k
    BY <2>1, LeastOf
  <2>3. m \in 1 .. n /\ m - 1 \in 0 .. n /\ m - 1 \notin bad
    BY <1>2, <1>4, <2>2
  <2>4. Sound(f[m - 1], ids)
    BY <2>3
  <2>5. Sound(f[m], ids)
    BY <1>3, <2>3, <2>4, AddSound
  <2> QED
    BY <2>5
<1>6. n \in 0 .. n
  BY <1>2
<1> QED
  BY <1>1, <1>5, <1>6

LEMMA DistinctAccepted ==
  ASSUME NEW product, Distinct(product), Build!NoId \notin Build!Ids(product)
  PROVE  Build!Accepts(product)
  BY BuildCardinality DEF Distinct, Build!Accepts

(* What is sound and has no empty identifier is accepted.                  *)
LEMMA SoundAccepted ==
  ASSUME NEW ids, Sound(products, ids), Build!NoId \notin ids
  PROVE  Build!Accepted
<1>1. /\ Build!Accepts(products.updates)
      /\ Build!Accepts(products.vehicles)
      /\ Build!Accepts(products.alerts)
  BY DistinctAccepted DEF Sound
<1>2. \A e \in Build!Range(products.updates) : Build!ValidUpdate(e.payload)
  BY DEF Sound, Build!Range
<1>3. \A e \in Build!Range(products.vehicles) : Build!ValidVehicle(e.payload)
  BY DEF Sound, Build!Range
<1>4. \A e \in Build!Range(products.alerts) : Build!ValidAlert(e.payload)
  BY DEF Sound, Build!Range
<1> QED
  BY <1>1, <1>2, <1>3, <1>4 DEF Build!Accepted

(* A source's identifiers.                                                 *)
SourceIds == {source[i].id : i \in DOMAIN source}

(* Stamping keeps an entity's identifier, and its stop times valid.        *)
StampedInv ==
  /\ source \in Seq(Build!Entity)
  /\ (\E S : batch \in Seq(S)) /\ Len(batch) = Len(source)
  /\ \A i \in DOMAIN source :
       /\ batch[i].id = source[i].id
       /\ Build!Kept(source[i]) \subseteq Build!Kept(batch[i])

StageInv ==
  /\ stage \in {"idle", "fetched", "built", "judged"}
  /\ verdict \in {"none", "source", "validate", "empty", "publish"}
  /\ stage = "idle" => source = << >>
  /\ stage \in {"idle", "fetched"} => products = Build!NoProducts
  /\ verdict = "validate" => stage = "judged" /\ Build!NoId \in SourceIds

BuildInv ==
  ScheduleInv /\ StampedInv /\ StageInv /\ Sound(products, SourceIds)

(* Nothing is sound, of any source.                                        *)
LEMMA NoProductsSound ==
  ASSUME NEW ids PROVE Sound(Build!NoProducts, ids)
<1>1. /\ Build!NoProducts.updates = << >> /\ Build!NoProducts.vehicles = << >>
      /\ Build!NoProducts.alerts = << >>
      /\ Build!NoProducts = [updates |-> << >>, vehicles |-> << >>, alerts |-> << >>]
  BY DEF Build!NoProducts
<1> QED
  BY <1>1, NothingDistinct DEF Sound

LEMMA BuildInit == Build!Init => BuildInv
<1> SUFFICES ASSUME Build!Init PROVE BuildInv
  OBVIOUS
<1>1. /\ source = << >> /\ batch = << >> /\ stage = "idle" /\ verdict = "none"
      /\ products = Build!NoProducts
  BY DEF Build!Init
<1>2. ScheduleInv
  BY DEF Build!Init, ScheduleInv
<1>3. StampedInv
  BY <1>1 DEF StampedInv
<1>4. StageInv
  BY <1>1 DEF StageInv
<1> QED
  BY <1>1, <1>2, <1>3, <1>4, NoProductsSound DEF BuildInv

(* A stamped batch has the entities that were returned.                    *)
LEMMA StampedBatch ==
  ASSUME ScheduleInv, NEW returned \in Seq(Build!Entity)
  PROVE  LET stamped == [i \in DOMAIN returned |-> Build!Stamp(returned[i])]
         IN  /\ \E S : stamped \in Seq(S)
             /\ Len(stamped) = Len(returned) /\ DOMAIN stamped = DOMAIN returned
             /\ \A i \in DOMAIN returned :
                  /\ stamped[i].id = returned[i].id
                  /\ Build!Kept(returned[i]) \subseteq Build!Kept(stamped[i])
<1> DEFINE n == Len(returned)
           stamped == [i \in DOMAIN returned |-> Build!Stamp(returned[i])]
           S == {Build!Stamp(returned[i]) : i \in DOMAIN returned}
<1>1. n \in Nat /\ DOMAIN returned = 1 .. n
      /\ \A i \in 1 .. n : returned[i] \in Build!Entity
  BY LenProperties, ElementOfSeq
<1>2. stamped \in [1 .. n -> S]
  BY <1>1
<1>3. \A i \in DOMAIN returned : stamped[i] = Build!Stamp(returned[i])
  OBVIOUS
<1> HIDE DEF stamped, S, n
<1>4. stamped \in Seq(S) /\ Len(stamped) = n /\ DOMAIN stamped = 1 .. n
  <2>1. stamped \in Seq(S)
    BY <1>1, <1>2, SeqDef
  <2>2. DOMAIN stamped = 1 .. Len(stamped) /\ Len(stamped) \in Nat
    BY <2>1, LenProperties
  <2>3. DOMAIN stamped = 1 .. n
    BY <1>2
  <2> DEFINE m == Len(stamped)
  <2>4. m \in Nat /\ 1 .. m = 1 .. n
    BY <2>2, <2>3
  <2> HIDE DEF m
  <2>5. m = n
    <3>1. (m > 0 => m \in 1 .. n) /\ (n > 0 => n \in 1 .. m)
      BY <1>1, <2>4
    <3> QED
      BY <1>1, <2>4, <3>1
  <2> QED
    BY <2>1, <2>3, <2>5 DEF m
<1>5. ASSUME NEW i \in DOMAIN returned
      PROVE  /\ stamped[i].id = returned[i].id
             /\ Build!Kept(returned[i]) \subseteq Build!Kept(stamped[i])
  <2>1. returned[i] \in Build!Entity /\ stamped[i] = Build!Stamp(returned[i])
    BY <1>1, <1>3
  <2>2. Build!Stamp(returned[i]).id = returned[i].id
    BY <2>1 DEF Build!Stamp, Build!Entity
  <2> QED
    BY <2>1, <2>2, StampKeepsStops
<1> QED
  BY <1>1, <1>4, <1>5 DEF stamped, n

(* What was valid stays so while the schedule does not change.             *)
LEMMA StampedStays ==
  ASSUME StampedInv, UNCHANGED <<platforms, source, batch>>
  PROVE  StampedInv'
<1>1. ASSUME NEW e PROVE Build!Kept(e)' = Build!Kept(e)
  BY DEF Build!Kept, Build!ValidStop, Build!ValidAssignment, Build!FeedStops,
         Build!Parent, Build!Divided
<1> QED
  BY <1>1 DEF StampedInv

LEMMA ValidStays ==
  ASSUME UNCHANGED platforms
  PROVE  \A e : /\ Build!ValidUpdate(e) => Build!ValidUpdate(e)'
                /\ Build!ValidAlert(e) => Build!ValidAlert(e)'
<1>1. ASSUME NEW e, Build!ValidUpdate(e) PROVE Build!ValidUpdate(e)'
  BY <1>1 DEF Build!ValidUpdate, Build!ValidStop, Build!ValidAssignment,
              Build!FeedStops, Build!Parent, Build!Divided
<1>2. ASSUME NEW e, Build!ValidAlert(e) PROVE Build!ValidAlert(e)'
  BY <1>2 DEF Build!ValidAlert, Build!ValidSelector, Build!FeedStops, Build!Divided
<1> QED
  BY <1>1, <1>2

LEMMA SoundStays ==
  ASSUME UNCHANGED <<platforms, source>>, Sound(products', SourceIds)
  PROVE  Sound(products, SourceIds)'
  BY ValidStays DEF Sound, SourceIds

(* Nothing changes between polls but the schedule, and in a poll all but it.*)
LEMMA BuildStepInv ==
  ASSUME BuildInv, [Build!Next]_(Build!vars)
  PROVE  BuildInv'
<1>1. CASE \/ \E label \in Build!Labels : Build!Observe(label) \/ Build!Forget(label)
           \/ Build!Rebuild
           \/ \E stop \in Covered : Build!ReadBoard(stop)
  <2>1. /\ stage = "idle" /\ UNCHANGED <<stage, source, batch, products, verdict>>
    BY <1>1 DEF Build!Observe, Build!Forget, Build!Rebuild, Build!ReadBoard
  <2>2. ScheduleInv'
    <3>1. CASE \/ \E label \in Build!Labels : Build!Observe(label) \/ Build!Forget(label)
               \/ Build!Rebuild
      BY <3>1 DEF Build!Observe, Build!Forget, Build!Rebuild, BuildInv, ScheduleInv,
                  Build!Labels
    <3>2. ASSUME NEW stop \in Covered, Build!ReadBoard(stop) PROVE ScheduleInv'
      <4>1. PICK shown \in SUBSET Tracks :
              board' = [s \in (DOMAIN board \ {stop})
                                \cup (IF shown = {} THEN {} ELSE {stop}) |->
                          IF s = stop THEN CHOOSE t \in shown : TRUE ELSE board[s]]
        BY <3>2 DEF Build!ReadBoard
      <4>2. shown # {} => (CHOOSE t \in shown : TRUE) \in Tracks
        OBVIOUS
      <4>3. DOMAIN board' \subseteq Covered
            /\ \A s \in DOMAIN board' : board'[s] \in Tracks
        BY <4>1, <4>2 DEF BuildInv, ScheduleInv
      <4> QED
        BY <3>2, <4>3 DEF Build!ReadBoard, BuildInv, ScheduleInv, Build!Labels
    <3> QED
      BY <1>1, <3>1, <3>2
  <2>3. source = << >> /\ source' = << >> /\ DOMAIN << >> = {}
    BY <2>1 DEF BuildInv, StageInv
  <2>4. StampedInv'
    BY <2>1, <2>3 DEF BuildInv, StampedInv
  <2>5. products' = Build!NoProducts
    BY <2>1 DEF BuildInv, StageInv
  <2>6. Sound(products, SourceIds)'
    <3>1. ASSUME NEW ids PROVE Sound(Build!NoProducts, ids)'
      BY NoProductsSound, PTL
    <3> QED
      BY <2>5, <3>1 DEF Sound, Build!NoProducts
  <2>7. StageInv'
    BY <2>1, <2>3 DEF BuildInv, StageInv, SourceIds
  <2> QED
    BY <2>2, <2>4, <2>6, <2>7 DEF BuildInv
<1>2. CASE Build!Fetch
  <2>1. PICK returned \in Batches :
          /\ source' = returned
          /\ batch' = [i \in DOMAIN returned |-> Build!Stamp(returned[i])]
          /\ IF returned = << >>
               THEN stage' = "judged" /\ verdict' = "source"
               ELSE stage' = "fetched" /\ verdict' = "none"
    BY <1>2 DEF Build!Fetch
  <2>2. products' = Build!NoProducts /\ UNCHANGED <<augmented, platforms, table, board>>
    BY <1>2 DEF Build!Fetch, Build!schedule
  <2>3. returned \in Seq(Build!Entity)
    BY PartsAssumption DEF Build!BuildConstants
  <2>4. /\ \E S : batch' \in Seq(S)
        /\ Len(batch') = Len(source')
        /\ \A i \in DOMAIN source' :
             /\ batch'[i].id = source'[i].id
             /\ Build!Kept(source'[i]) \subseteq Build!Kept(batch'[i])
    BY <2>1, <2>3, StampedBatch DEF BuildInv
  <2>5. ASSUME NEW e PROVE Build!Kept(e)' = Build!Kept(e)
    BY <2>2 DEF Build!Kept, Build!ValidStop, Build!ValidAssignment,
                Build!FeedStops, Build!Parent, Build!Divided
  <2>6. StampedInv'
    BY <2>1, <2>3, <2>4, <2>5 DEF StampedInv
  <2>7. ScheduleInv'
    BY <2>2 DEF BuildInv, ScheduleInv, Build!Labels
  <2>8. StageInv'
    BY <2>1, <2>2 DEF StageInv
  <2>9. Sound(products, SourceIds)'
    <3>1. ASSUME NEW ids PROVE Sound(Build!NoProducts, ids)'
      BY NoProductsSound, PTL
    <3> QED
      BY <2>2, <3>1 DEF Sound, Build!NoProducts
  <2> QED
    BY <2>6, <2>7, <2>8, <2>9 DEF BuildInv
<1>3. CASE Build!Build
  <2>1. /\ stage = "fetched" /\ stage' = "built" /\ verdict' = verdict
        /\ UNCHANGED <<augmented, platforms, table, board, source, batch>>
        /\ products' = Build!Candidate(batch)
    BY <1>3 DEF Build!Build, Build!schedule
  <2>2. ScheduleInv' /\ StampedInv'
    BY <2>1, StampedStays DEF BuildInv, ScheduleInv, Build!Labels
  <2>3. Len(batch) \in Nat /\ \A i \in 1 .. Len(batch) : batch[i].id \in SourceIds
    <3>1. Len(source) \in Nat /\ DOMAIN source = 1 .. Len(source)
      BY LenProperties DEF BuildInv, StampedInv
    <3> QED
      BY <3>1 DEF BuildInv, StampedInv, SourceIds
  <2>4. Sound(products', SourceIds)
    BY <2>1, <2>3, CandidateSound
  <2>5. Sound(products, SourceIds)'
    BY <2>1, <2>4, SoundStays
  <2>6. StageInv'
    BY <2>1 DEF BuildInv, StageInv, SourceIds
  <2> QED
    BY <2>2, <2>5, <2>6 DEF BuildInv
<1>4. CASE Build!Validate
  <2>1. /\ stage = "built" /\ stage' = "judged"
        /\ UNCHANGED <<augmented, platforms, table, board, source, batch, products>>
        /\ verdict' = IF ~Build!Accepted THEN "validate"
                      ELSE IF products = Build!NoProducts THEN "empty" ELSE "publish"
    BY <1>4 DEF Build!Validate, Build!schedule
  <2>2. ScheduleInv' /\ StampedInv'
    BY <2>1, StampedStays DEF BuildInv, ScheduleInv, Build!Labels
  <2>3. Sound(products, SourceIds) /\ SourceIds' = SourceIds
        /\ products' = products
    BY <2>1 DEF BuildInv, SourceIds
  <2>4. Sound(products, SourceIds)'
    BY <2>1, <2>3, SoundStays
  <2>5. verdict' = "validate" => Build!NoId \in SourceIds
    BY <2>1, <2>3, SoundAccepted
  <2>6. StageInv'
    BY <2>1, <2>3, <2>5 DEF StageInv
  <2> QED
    BY <2>2, <2>4, <2>6 DEF BuildInv
<1>5. CASE Build!Wait
  <2>1. /\ stage' = "idle" /\ verdict' = "none" /\ source' = << >> /\ batch' = << >>
        /\ UNCHANGED <<augmented, platforms, table, board>>
        /\ products' = Build!NoProducts
    BY <1>5 DEF Build!Wait, Build!schedule
  <2>2. ScheduleInv'
    BY <2>1 DEF BuildInv, ScheduleInv, Build!Labels
  <2>3. StampedInv' /\ StageInv'
    BY <2>1 DEF StampedInv, StageInv
  <2>4. Sound(products, SourceIds)'
    <3>1. ASSUME NEW ids PROVE Sound(Build!NoProducts, ids)'
      BY NoProductsSound, PTL
    <3> QED
      BY <2>1, <3>1 DEF Sound, Build!NoProducts
  <2> QED
    BY <2>2, <2>3, <2>4 DEF BuildInv
<1>6. CASE UNCHANGED Build!vars
  <2>1. UNCHANGED <<augmented, platforms, table, board, stage, source, batch,
                    products, verdict>>
    BY <1>6 DEF Build!vars
  <2>2. ScheduleInv' /\ StampedInv'
    BY <2>1, StampedStays DEF BuildInv, ScheduleInv, Build!Labels
  <2>3. Sound(products, SourceIds)'
    BY <2>1, SoundStays DEF BuildInv, SourceIds
  <2>4. StageInv'
    BY <2>1 DEF BuildInv, StageInv, SourceIds
  <2> QED
    BY <2>2, <2>3, <2>4 DEF BuildInv
<1> QED
  BY <1>1, <1>2, <1>3, <1>4, <1>5, <1>6 DEF Build!Next

(* A step of the composition is one of the builder's or none of them.      *)
LEMMA FeedIsBuild == FeedSpec => Build!Spec
<1>1. FeedInit => Build!Init
  BY DEF FeedInit
<1>2. [FeedNext]_<<part, vars, buildVars, advisoryVars, blobVars, validatorVars,
                   storeVars>> => [Build!Next]_(Build!vars)
  BY DEF FeedNext, DeliveryStep, BuildStep, AdvisoryStep, BlobStep,
         ValidatorStep, StoreStep, buildVars, Build!vars
<1> QED
  BY <1>1, <1>2, PTL DEF FeedSpec, Build!Spec

LEMMA BuildAlways == FeedSpec => []BuildInv
<1>1. BuildInv /\ [Build!Next]_(Build!vars) => BuildInv'
  BY BuildStepInv
<1> QED
  BY FeedIsBuild, BuildInit, <1>1, PTL DEF Build!Spec

(* Whatever a source returns, and whatever the schedule is, the candidate  *)
(* passes the validator unless an entity has no identifier                 *)
(* (GenerationBuilder::build, CandidateValidator::validate).               *)
THEOREM BuiltAlwaysValidates == FeedSpec => []BuiltValidates
<1>1. BuildInv => BuiltValidates
  BY DEF BuildInv, StageInv, SourceIds, BuiltValidates, Build!BuiltValidates
<1> QED
  BY BuildAlways, <1>1, PTL

(* No stop time that would be published loses its place for a track, in    *)
(* every schedule and whatever tracks are known and shown (WithTracks).    *)
THEOREM StampAlwaysKeeps == FeedSpec => []StampKeeps
<1>1. BuildInv => StampKeeps
  BY DEF BuildInv, StampedInv, StampKeeps, Build!StampKeeps
<1> QED
  BY BuildAlways, <1>1, PTL

(* Calls of trips are at stops; no stop is absent.                         *)
LEMMA StopsThere ==
  ASSUME ScheduleInv
  PROVE  /\ None \notin Build!FeedStops
         /\ \A t \in DOMAIN Trips :
              /\ Trips[t].route \in DOMAIN Routes
              /\ \A n \in DOMAIN Build!Calls(t) : Build!Calls(t)[n] \in Build!FeedStops
<1>1. /\ Trips \in [DOMAIN Trips -> [route : DOMAIN Routes, calls : Seq(Stops)]]
      /\ None \notin Stops \cup Build!Labels \cup {Build!Station(s) : s \in Covered}
  BY PartsAssumption DEF Build!BuildConstants
<1>2. Build!Divided \subseteq Covered
  BY DEF ScheduleInv, Build!Divided, Build!Labels
<1>3. None \notin Build!FeedStops
  BY <1>1, <1>2 DEF ScheduleInv, Build!FeedStops
<1>4. ASSUME NEW t \in DOMAIN Trips
      PROVE  /\ Trips[t].route \in DOMAIN Routes
             /\ \A n \in DOMAIN Build!Calls(t) : Build!Calls(t)[n] \in Build!FeedStops
  <2>1. Trips[t].route \in DOMAIN Routes /\ Build!Calls(t) \in Seq(Stops)
    BY <1>1 DEF Build!Calls
  <2>2. \A n \in DOMAIN Build!Calls(t) : Build!Calls(t)[n] \in Stops
    BY <2>1
  <2> QED
    BY <2>1, <2>2 DEF Build!FeedStops
<1> QED
  BY <1>3, <1>4

(* What a selector selects: a call, or a stop by itself.                   *)
Selects(s) ==
  \/ /\ {s.agency, s.type, s.route, s.trip, s.stop} # {None}
     /\ s.type \in SelectableTypes \cup {None}
     /\ \E t \in DOMAIN Trips : \E n \in DOMAIN Build!Calls(t) :
          \E a \in Agencies : Build!Names(s, t, n, a)
  \/ /\ {s.agency, s.type, s.route, s.trip} = {None}
     /\ s.stop \in Build!FeedStops

LEMMA SelectorFits ==
  ASSUME ScheduleInv, Build!Connected, NEW s, Build!ValidSelector(s)
  PROVE  Selects(s)
<1>1. /\ {s.agency, s.type, s.route, s.trip, s.stop} # {None}
      /\ s.trip # None => Build!ValidTrip(s.trip)
      /\ s.agency \in Agencies \cup {None}
      /\ s.type \in SelectableTypes \cup {None}
      /\ Build!NeedsRoute(s) => Build!MatchingRoutes(s) # {}
  BY DEF Build!ValidSelector
<1>2. ASSUME NEW t \in DOMAIN Trips, NEW n \in DOMAIN Build!Calls(t),
             Trips[t].route \in Build!MatchingRoutes(s),
             s.trip = None \/ s.trip.id = t,
             s.stop \in {None, Build!Calls(t)[n]}
      PROVE  Selects(s)
  <2> DEFINE route == Trips[t].route
  <2>1. /\ route \in DOMAIN Routes /\ s.route \in {None, route}
        /\ s.type \in {None, Routes[route].type}
        /\ s.agency = None \/ Build!OfAgency(route, s.agency)
    BY <1>2 DEF Build!MatchingRoutes
  <2>2. s.trip = None \/ (s.trip.id = t /\ s.trip.route \in {None, route})
    BY <1>1, <1>2 DEF Build!ValidTrip
  <2>3. PICK a \in Agencies : Build!OfAgency(route, a) /\ s.agency \in {None, a}
    <3>1. CASE s.agency = None
      BY <2>1, <3>1 DEF Build!Connected
    <3>2. CASE s.agency # None
      BY <1>1, <2>1, <3>2
    <3> QED
      BY <3>1, <3>2
  <2>4. Build!Names(s, t, n, a)
    BY <1>2, <2>1, <2>2, <2>3 DEF Build!Names
  <2> QED
    BY <1>1, <2>3, <2>4 DEF Selects
<1>3. \A t \in DOMAIN Trips : 1 \in DOMAIN Build!Calls(t)
  <2>1. \A t \in DOMAIN Trips : Build!Calls(t) \in Seq(Stops)
    BY PartsAssumption DEF Build!BuildConstants, Build!Calls
  <2> QED
    BY <2>1 DEF Build!Connected
<1>4. CASE Build!NeedsRoute(s) /\ s.stop # None
  <2>1. PICK t \in DOMAIN Trips :
          /\ IF s.trip # None THEN t = s.trip.id
                              ELSE Trips[t].route \in Build!MatchingRoutes(s)
          /\ Build!Visits(s.stop, t) # {}
    BY <1>4 DEF Build!ValidSelector
  <2>2. PICK n \in DOMAIN Build!Calls(t) : Build!Calls(t)[n] = s.stop
    BY <2>1 DEF Build!Visits
  <2>3. Trips[t].route \in Build!MatchingRoutes(s)
    BY <1>1, <1>4, <2>1 DEF Build!MatchingRoutes
  <2> QED
    BY <1>2, <2>1, <2>2, <2>3
<1>5. CASE Build!NeedsRoute(s) /\ s.stop = None
  <2>1. PICK r \in Build!MatchingRoutes(s) : TRUE
    BY <1>1, <1>5
  <2>2. PICK t \in DOMAIN Trips : /\ Trips[t].route = r
                                  /\ s.trip = None \/ s.trip.id = t
    <3>1. CASE s.trip = None
      BY <2>1, <3>1 DEF Build!Connected, Build!MatchingRoutes
    <3>2. CASE s.trip # None
      BY <1>1, <2>1, <3>2 DEF Build!ValidTrip, Build!MatchingRoutes
    <3> QED
      BY <3>1, <3>2
  <2> QED
    BY <1>2, <1>3, <1>5, <2>1, <2>2
<1>6. CASE ~Build!NeedsRoute(s) /\ s.agency # None
  <2>1. s.route = None /\ s.trip = None /\ s.type = None /\ s.stop = None
        /\ s.agency \in Agencies
    BY <1>1, <1>6 DEF Build!NeedsRoute
  <2>2. PICK r \in DOMAIN Routes : Build!OfAgency(r, s.agency)
    BY <2>1 DEF Build!Connected
  <2>3. PICK t \in DOMAIN Trips : Trips[t].route = r
    BY <2>2 DEF Build!Connected
  <2>4. Trips[t].route \in Build!MatchingRoutes(s)
    BY <2>1, <2>2, <2>3 DEF Build!MatchingRoutes
  <2> QED
    BY <1>2, <1>3, <2>1, <2>4
<1>7. CASE ~Build!NeedsRoute(s) /\ s.agency = None
  <2>1. s.route = None /\ s.trip = None /\ s.type = None
    BY <1>7 DEF Build!NeedsRoute
  <2>2. s.stop # None
    BY <1>1, <1>7, <2>1
  <2>3. s.stop \in Build!FeedStops
    BY <2>2 DEF Build!ValidSelector
  <2> QED
    BY <1>7, <2>1, <2>3 DEF Selects
<1> QED
  BY <1>4, <1>5, <1>6, <1>7

LEMMA FittingSelector ==
  ASSUME ScheduleInv, NEW s, Selects(s)
  PROVE  Build!ValidSelector(s)
<1>1. ASSUME NEW t \in DOMAIN Trips, NEW n \in DOMAIN Build!Calls(t),
             NEW a \in Agencies, Build!Names(s, t, n, a),
             {s.agency, s.type, s.route, s.trip, s.stop} # {None},
             s.type \in SelectableTypes \cup {None}
      PROVE  Build!ValidSelector(s)
  <2> DEFINE route == Trips[t].route
  <2>1. /\ s.trip = None \/ (s.trip.id = t /\ s.trip.route \in {None, route})
        /\ s.stop \in {None, Build!Calls(t)[n]}
        /\ s.route \in {None, route}
        /\ s.type \in {None, Routes[route].type}
        /\ Build!OfAgency(route, a) /\ s.agency \in {None, a}
    BY <1>1 DEF Build!Names
  <2>2. route \in DOMAIN Routes /\ Build!Calls(t)[n] \in Build!FeedStops
    BY StopsThere
  <2>3. s.trip # None => Build!ValidTrip(s.trip)
    BY <2>1, <2>2 DEF Build!ValidTrip
  <2>4. route \in Build!MatchingRoutes(s)
    BY <2>1, <2>2 DEF Build!MatchingRoutes
  <2>5. s.stop # None => Build!Visits(s.stop, t) # {}
    BY <2>1 DEF Build!Visits
  <2>6. s.stop # None =>
          /\ s.stop \in Build!FeedStops
          /\ \E v \in DOMAIN Trips :
               /\ IF s.trip # None THEN v = s.trip.id
                                   ELSE Trips[v].route \in Build!MatchingRoutes(s)
               /\ Build!Visits(s.stop, v) # {}
    BY <2>1, <2>2, <2>4, <2>5
  <2>7. /\ {s.route, s.stop, s.trip, s.agency, s.type} # {None}
        /\ s.type # None => s.type \in SelectableTypes
    BY <1>1
  <2> QED
    BY <2>1, <2>3, <2>4, <2>6, <2>7 DEF Build!ValidSelector
<1>2. CASE {s.agency, s.type, s.route, s.trip} = {None} /\ s.stop \in Build!FeedStops
  <2>1. s.stop # None
    BY <1>2, StopsThere
  <2>2. s.agency = None /\ s.type = None /\ s.route = None /\ s.trip = None
    BY <1>2
  <2>3. ~Build!NeedsRoute(s)
    BY <2>2 DEF Build!NeedsRoute
  <2> QED
    BY <1>2, <2>1, <2>2, <2>3 DEF Build!ValidSelector
<1> QED
  BY <1>1, <1>2 DEF Selects

(* An alert's selector is published exactly if its route type may be       *)
(* selected and all it names goes together, in every schedule in which     *)
(* agencies, routes and trips are connected (valid_alert_selector).        *)
THEOREM SelectorAlwaysExact ==
  ASSUME Build!Connected PROVE FeedSpec => []SelectorExact
<1>1. BuildInv => SelectorExact
  BY SelectorFits, FittingSelector
     DEF BuildInv, Selects, SelectorExact, Build!SelectorExact
<1> QED
  BY BuildAlways, <1>1, PTL

-----------------------------------------------------------------------------
(* What is interned                                                        *)

Directory ==
  [zip : Snapshots, linked : SUBSET Blobs!Names, copied : SUBSET Blobs!Parts]

(* Directories have identifiers that were taken, memory knows only         *)
(* directories, and what is about to be committed is there.                *)
DirInv ==
  /\ next \in Nat /\ snapshot \in Snapshots
  /\ \A g \in DOMAIN dirs : dirs[g] \in Directory
  /\ \A g \in DOMAIN dirs : g \in Nat /\ g < next
  /\ loaded \subseteq DOMAIN dirs
  /\ pc = "commit" => Blobs!new \in DOMAIN dirs

BlobInv == DirInv /\ Blobs!InternExact

LEMMA BlobInit == Blobs!Init => BlobInv
  BY DEF Blobs!Init, BlobInv, DirInv, Blobs!InternExact, Blobs!HeldBy

(* Removing leaves a part of what was on disk, and in memory generations   *)
(* that are on disk unchanged.                                             *)
Shrinks ==
  /\ DOMAIN dirs' \subseteq DOMAIN dirs
  /\ \A g \in DOMAIN dirs' :
       /\ dirs'[g] \in Directory /\ dirs'[g].zip = dirs[g].zip
       /\ dirs'[g].linked \subseteq dirs[g].linked
       /\ dirs'[g].copied \subseteq dirs[g].copied
  /\ loaded' \subseteq loaded \cap DOMAIN dirs'
  /\ \A g \in loaded' : dirs'[g] = dirs[g]
  /\ intern' \subseteq intern /\ orphans' \subseteq orphans \cup Blobs!HeldBy(loaded)

LEMMA DeleteShrinks ==
  ASSUME DirInv, NEW doomed, Blobs!Delete(doomed) PROVE Shrinks
<1>1. /\ dirs' = [g \in DOMAIN dirs \ doomed |-> dirs[g]]
      /\ loaded' = loaded \ doomed /\ intern' \subseteq intern /\ orphans' = orphans
  BY DEF Blobs!Delete, Blobs!Unintern
<1>2. DOMAIN dirs' = DOMAIN dirs \ doomed /\ \A g \in DOMAIN dirs' : dirs'[g] = dirs[g]
  BY <1>1
<1> QED
  BY <1>1, <1>2 DEF DirInv, Shrinks

LEMMA FailureShrinks ==
  ASSUME DirInv, NEW g, NEW gone, Blobs!DeleteFails(g, gone) PROVE Shrinks
<1>1. PICK parts :
        dirs' = [h \in DOMAIN dirs \ gone |->
                   IF h = g THEN [dirs[h] EXCEPT !.linked = @ \cap parts,
                                                 !.copied = @ \cap parts]
                   ELSE dirs[h]]
  BY DEF Blobs!DeleteFails
<1>2. /\ DOMAIN dirs' = DOMAIN dirs \ gone
      /\ \A h \in DOMAIN dirs' : h # g => dirs'[h] = dirs[h]
  BY <1>1
<1>3. ASSUME NEW h \in DOMAIN dirs'
      PROVE  /\ dirs'[h] \in Directory /\ dirs'[h].zip = dirs[h].zip
             /\ dirs'[h].linked \subseteq dirs[h].linked
             /\ dirs'[h].copied \subseteq dirs[h].copied
  <2>1. h \in DOMAIN dirs /\ dirs[h] \in Directory
    BY <1>2, <1>3 DEF DirInv
  <2>2. CASE h = g
    <3>1. dirs'[h] = [dirs[h] EXCEPT !.linked = @ \cap parts, !.copied = @ \cap parts]
      BY <1>1, <1>2, <1>3, <2>2
    <3> QED
      BY <2>1, <3>1 DEF Directory
  <2> QED
    BY <1>2, <2>1, <2>2
<1>4. /\ loaded' \subseteq loaded \ (gone \cup {g})
      /\ intern' \subseteq intern
      /\ orphans' \subseteq orphans \cup Blobs!HeldBy(loaded)
  BY DEF Blobs!DeleteFails, Blobs!Abort, Blobs!Unintern, Blobs!HeldBy
<1>5. loaded \subseteq DOMAIN dirs
  BY DEF DirInv
<1> QED
  BY <1>2, <1>3, <1>4, <1>5 DEF Shrinks

(* The steps that remove, each wholly or until a removal fails.            *)
Removing == Blobs!Prune \/ Blobs!MeetBudget \/ Blobs!FreeSpace

LEMMA RemovingSteps ==
  ASSUME Removing
  PROVE  /\ \/ \E doomed : /\ Blobs!Delete(doomed) /\ refused' = refused
                           /\ \/ pc \in {"prune", "budget"} /\ pc' \in {"budget", "gc"}
                              \/ pc = "space" /\ pc' = "space"
            \/ \E g, gone : Blobs!DeleteFails(g, gone) /\ pc' \in {"idle", "down"}
         /\ pc \in {"prune", "budget", "space"}
         /\ UNCHANGED <<blobs, pass, current, incoming, snapshot, next>>
<1>0. \A g, gone : Blobs!DeleteFails(g, gone) => pc' \in {"idle", "down"}
  BY DEF Blobs!DeleteFails, Blobs!Abort
<1>1. CASE Blobs!Prune
  <2>1. /\ pc = "prune" /\ UNCHANGED <<blobs, pass, current, incoming, snapshot, next>>
        /\ \/ \E doomed : Blobs!Delete(doomed) /\ refused' = refused /\ pc' = "budget"
           \/ \E g, gone : Blobs!DeleteFails(g, gone)
    BY <1>1 DEF Blobs!Prune, Blobs!publication
  <2> QED
    BY <1>0, <2>1
<1>2. CASE Blobs!MeetBudget
  <2>1. /\ pc = "budget" /\ UNCHANGED <<blobs, pass, current, incoming, snapshot, next>>
        /\ \/ \E doomed : Blobs!Delete(doomed) /\ refused' = refused /\ pc' = "gc"
           \/ \E g, gone : Blobs!DeleteFails(g, gone)
    BY <1>2 DEF Blobs!MeetBudget, Blobs!publication
  <2> QED
    BY <1>0, <2>1
<1>3. CASE Blobs!FreeSpace
  <2>1. /\ pc = "space" /\ UNCHANGED <<blobs, pass, current, incoming, snapshot, next>>
        /\ \/ \E doomed : Blobs!Delete(doomed) /\ refused' = refused /\ pc' = "space"
           \/ \E g, gone : Blobs!DeleteFails(g, gone)
    BY <1>3 DEF Blobs!FreeSpace, Blobs!publication
  <2> QED
    BY <1>0, <2>1
<1> QED
  BY <1>1, <1>2, <1>3 DEF Removing

LEMMA RemovingShrinks == ASSUME DirInv, Removing PROVE Shrinks
  BY RemovingSteps, DeleteShrinks, FailureShrinks

(* What opening finds is what it leaves, linked anew.                      *)
LEMMA OpenKeeps ==
  ASSUME DirInv, Blobs!Open
  PROVE  /\ DOMAIN dirs' = DOMAIN dirs
         /\ \A g \in DOMAIN dirs :
              /\ dirs'[g] \in Directory /\ dirs'[g].zip = dirs[g].zip
              /\ ~Blobs!Complete(g) => dirs'[g] = dirs[g]
         /\ loaded' = {g \in DOMAIN dirs : Blobs!Complete(g)}
<1>1. PICK failing \in [DOMAIN dirs -> SUBSET LinkFails] :
        dirs' = [g \in DOMAIN dirs |->
                   IF Blobs!Complete(g)
                     THEN [dirs[g] EXCEPT
                             !.linked = Blobs!Names \ (dirs[g].copied \cap failing[g]),
                             !.copied = (dirs[g].copied \cap failing[g]) \cup {"rest"}]
                     ELSE dirs[g]]
  BY DEF Blobs!Open
<1>2. ASSUME NEW g \in DOMAIN dirs
      PROVE  /\ dirs'[g] \in Directory /\ dirs'[g].zip = dirs[g].zip
             /\ ~Blobs!Complete(g) => dirs'[g] = dirs[g]
  <2>1. dirs[g] \in Directory
    BY DEF DirInv
  <2>2. CASE Blobs!Complete(g)
    <3>1. dirs'[g] = [dirs[g] EXCEPT
                        !.linked = Blobs!Names \ (dirs[g].copied \cap failing[g]),
                        !.copied = (dirs[g].copied \cap failing[g]) \cup {"rest"}]
      BY <1>1, <2>2
    <3> QED
      BY <2>1, <2>2, <3>1 DEF Directory, Blobs!Parts
  <2> QED
    BY <1>1, <2>1, <2>2
<1>3. DOMAIN dirs' = DOMAIN dirs
  BY <1>1
<1> QED
  BY <1>2, <1>3 DEF Blobs!Open

(* Directories come and go, and memory with them.                          *)
LEMMA BlobStepDirs == BlobInv /\ [Blobs!Next]_(Blobs!vars) => DirInv'
<1> SUFFICES ASSUME BlobInv, [Blobs!Next]_(Blobs!vars) PROVE DirInv'
  OBVIOUS
<1> USE DEF BlobInv, DirInv, Blobs!new, Blobs!memory, Blobs!publication
<1>1. CASE Blobs!StartPublish
  BY <1>1 DEF Blobs!StartPublish
<1>2. CASE Removing
  <2>1. Shrinks
    BY <1>2, RemovingShrinks
  <2>2. UNCHANGED <<next, snapshot>> /\ pc' # "commit"
    BY <1>2, RemovingSteps
  <2> QED
    BY <2>1, <2>2 DEF Shrinks
<1>3. CASE Blobs!CollectBlobs
  BY <1>3 DEF Blobs!CollectBlobs
<1>4. CASE Blobs!CollectFails
  BY <1>4 DEF Blobs!CollectFails, Blobs!Abort
<1>5. CASE Blobs!SpaceDone
  BY <1>5 DEF Blobs!SpaceDone
<1>6. CASE Blobs!Write
  <2>1. /\ DOMAIN dirs' = DOMAIN dirs \cup {next}
        /\ next' = next + 1 /\ loaded' = loaded /\ snapshot' = snapshot
    BY <1>6 DEF Blobs!Write
  <2>2. PICK failing \in SUBSET LinkFails :
          dirs' = [g \in DOMAIN dirs \cup {next} |->
                     IF g = next
                       THEN [zip |-> snapshot, linked |-> Blobs!Names \ failing,
                             copied |-> failing \cup {"rest"}]
                     ELSE dirs[g]]
    BY <1>6 DEF Blobs!Write
  <2>3. \A g \in DOMAIN dirs' : dirs'[g] \in Directory
    BY <2>2, PartsAssumption DEF Directory, Blobs!Parts, Blobs!BlobConstants
  <2> QED
    BY <2>1, <2>3
<1>7. CASE Blobs!WriteFails
  <2>1. next' = next + 1 /\ dirs' = dirs /\ loaded' = loaded
        /\ snapshot' = snapshot /\ pc' = "idle"
    BY <1>7 DEF Blobs!WriteFails
  <2> QED
    BY <2>1
<1>8. CASE Blobs!Commit
  BY <1>8 DEF Blobs!Commit
<1>9. CASE Blobs!CommitFails
  BY <1>9 DEF Blobs!CommitFails
<1>10. CASE Blobs!Crash
  BY <1>10 DEF Blobs!Crash
<1>11. CASE Blobs!Open
  <2>1. UNCHANGED <<next, snapshot>> /\ pc' = "prune"
    BY <1>11 DEF Blobs!Open
  <2> QED
    BY <1>11, <2>1, OpenKeeps
<1>12. CASE UNCHANGED Blobs!vars
  BY <1>12 DEF Blobs!vars
<1> QED
  BY <1>1, <1>2, <1>3, <1>4, <1>5, <1>6, <1>7, <1>8, <1>9, <1>10, <1>11, <1>12
     DEF Blobs!Next, Removing

(* Deleting drops from the interned ZIPs what no generation left in memory *)
(* holds; those of one that left memory without that are what is left.     *)
LEMMA Forgets ==
  ASSUME NEW gone, NEW lost,
         Blobs!HeldBy(loaded) \subseteq intern,
         intern \subseteq Blobs!HeldBy(loaded) \cup orphans
  PROVE  LET zips == Blobs!Unintern(loaded \cap gone, loaded \ gone)
             rest == loaded \ (gone \cup lost)
         IN  /\ Blobs!HeldBy(rest) \subseteq zips
             /\ zips \subseteq Blobs!HeldBy(rest) \cup orphans
                                 \cup Blobs!HeldBy(loaded \cap lost)
  BY DEF Blobs!Unintern, Blobs!HeldBy

(* What is held by generations that do not change does not change.         *)
LEMMA HoldsOn ==
  ASSUME NEW gens, loaded' = gens, \A g \in gens : dirs'[g].zip = dirs[g].zip
  PROVE  Blobs!HeldBy(loaded)' = Blobs!HeldBy(gens)
<1>1. \A g \in gens : Blobs!Held(g)' = Blobs!Held(g)
  BY DEF Blobs!Held
<1> QED
  BY <1>1 DEF Blobs!HeldBy

(* What is interned follows memory in every step of a live process; a new  *)
(* directory is never one that memory knows, and linking a ZIP to its blob *)
(* again does not change it.                                               *)
LEMMA BlobStepIntern == BlobInv /\ [Blobs!Next]_(Blobs!vars) => Blobs!InternExact'
<1> DEFINE Exact == /\ Blobs!HeldBy(loaded) \subseteq intern
                    /\ intern \subseteq Blobs!HeldBy(loaded) \cup orphans
<1> SUFFICES ASSUME BlobInv, [Blobs!Next]_(Blobs!vars), pc' # "down" PROVE Exact'
  BY DEF Blobs!InternExact
<1>1. pc # "down" => Exact
  BY DEF BlobInv, Blobs!InternExact
<1>2. loaded \subseteq DOMAIN dirs
  BY DEF BlobInv, DirInv
<1>3. ASSUME UNCHANGED <<dirs, loaded, intern, orphans>>, pc # "down" PROVE Exact'
  BY <1>1, <1>3, HoldsOn
<1> HIDE DEF Exact
<1> USE DEF Blobs!memory
<1>4. CASE Blobs!StartPublish
  BY <1>3, <1>4 DEF Blobs!StartPublish
<1>5. CASE Removing
  <2>1. DirInv /\ Shrinks /\ pc # "down"
    BY <1>5, RemovingShrinks, RemovingSteps DEF BlobInv
  <2>2. Exact
    BY <1>1, <2>1
  <2>3. \A g \in loaded' : dirs'[g].zip = dirs[g].zip
    BY <2>1 DEF Shrinks
  <2>4. ASSUME NEW doomed, Blobs!Delete(doomed) PROVE Exact'
    <3>1. /\ loaded' = loaded \ (doomed \cup {}) /\ orphans' = orphans
          /\ intern' = Blobs!Unintern(loaded \cap doomed, loaded \ doomed)
      BY <2>4 DEF Blobs!Delete
    <3>2. Blobs!HeldBy(loaded)' = Blobs!HeldBy(loaded \ (doomed \cup {}))
      BY <2>3, <3>1, HoldsOn
    <3>3. Blobs!HeldBy(loaded \cap {}) = {}
      BY DEF Blobs!HeldBy
    <3> QED
      BY <2>2, <3>1, <3>2, <3>3, Forgets DEF Exact
  <2>5. ASSUME NEW g, NEW gone, Blobs!DeleteFails(g, gone) PROVE Exact'
    <3>1. /\ loaded' = loaded \ (gone \cup {g})
          /\ orphans' = orphans \cup Blobs!HeldBy(loaded \cap {g})
          /\ intern' = Blobs!Unintern(loaded \cap gone, loaded \ gone)
      BY <2>5 DEF Blobs!DeleteFails, Blobs!Abort
    <3>2. Blobs!HeldBy(loaded)' = Blobs!HeldBy(loaded \ (gone \cup {g}))
      BY <2>3, <3>1, HoldsOn
    <3>3. /\ Blobs!HeldBy(loaded \ (gone \cup {g})) \subseteq intern'
          /\ intern' \subseteq Blobs!HeldBy(loaded \ (gone \cup {g})) \cup orphans
                                 \cup Blobs!HeldBy(loaded \cap {g})
      BY <2>2, <3>1, Forgets DEF Exact
    <3> QED
      BY <3>1, <3>2, <3>3 DEF Exact
  <2> QED
    BY <1>5, <2>4, <2>5, RemovingSteps
<1>6. CASE Blobs!CollectBlobs
  BY <1>3, <1>6 DEF Blobs!CollectBlobs
<1>7. CASE Blobs!CollectFails
  BY <1>3, <1>7 DEF Blobs!CollectFails, Blobs!Abort
<1>8. CASE Blobs!SpaceDone
  BY <1>3, <1>8 DEF Blobs!SpaceDone
<1>9. CASE Blobs!Write
  <2>1. next \notin loaded
    BY DEF BlobInv, DirInv
  <2>2. \A g \in loaded : dirs'[g].zip = dirs[g].zip
    BY <1>2, <1>9, <2>1 DEF Blobs!Write
  <2>3. loaded' = loaded /\ intern' = intern /\ orphans' = orphans /\ pc # "down"
    BY <1>9 DEF Blobs!Write
  <2> QED
    BY <1>1, <2>2, <2>3, HoldsOn DEF Exact
<1>10. CASE Blobs!WriteFails
  BY <1>3, <1>10 DEF Blobs!WriteFails
<1>11. CASE Blobs!Commit
  <2>1. /\ intern' = intern \cup Blobs!Held(Blobs!new) /\ orphans' = orphans
        /\ loaded' = loaded \cup {Blobs!new} /\ dirs' = dirs /\ Exact
    BY <1>1, <1>11 DEF Blobs!Commit
  <2>2. Blobs!HeldBy(loaded)' = Blobs!HeldBy(loaded \cup {Blobs!new})
    BY <2>1, HoldsOn
  <2>3. Blobs!HeldBy(loaded \cup {Blobs!new})
          = Blobs!HeldBy(loaded) \cup Blobs!Held(Blobs!new)
    BY DEF Blobs!HeldBy
  <2> QED
    BY <2>1, <2>2, <2>3 DEF Exact
<1>12. CASE Blobs!CommitFails
  BY <1>3, <1>12 DEF Blobs!CommitFails
<1>13. CASE Blobs!Crash
  BY <1>13 DEF Blobs!Crash
<1>14. CASE Blobs!Open
  <2>1. loaded' \subseteq DOMAIN dirs /\ \A g \in loaded' : dirs'[g].zip = dirs[g].zip
    BY <1>14, OpenKeeps DEF BlobInv
  <2>2. Blobs!HeldBy(loaded)' = Blobs!HeldBy(loaded')
    <3>1. PICK gens : gens = loaded'
      OBVIOUS
    <3> QED
      BY <2>1, <3>1, HoldsOn
  <2>3. intern' = Blobs!HeldBy(loaded')
    BY <1>14 DEF Blobs!Open
  <2> QED
    BY <2>2, <2>3 DEF Exact
<1>15. CASE UNCHANGED Blobs!vars
  BY <1>3, <1>15 DEF Blobs!vars
<1> QED
  BY <1>4, <1>5, <1>6, <1>7, <1>8, <1>9, <1>10, <1>11, <1>12, <1>13, <1>14, <1>15
     DEF Blobs!Next, Removing

LEMMA FeedIsBlobs == FeedSpec => Blobs!Spec
<1>1. FeedInit => Blobs!Init
  BY DEF FeedInit
<1>2. [FeedNext]_<<part, vars, buildVars, advisoryVars, blobVars, validatorVars,
                   storeVars>> => [Blobs!Next]_(Blobs!vars)
  BY DEF FeedNext, DeliveryStep, BuildStep, AdvisoryStep, BlobStep,
         ValidatorStep, StoreStep, blobVars, Blobs!vars
<1> QED
  BY <1>1, <1>2, PTL DEF FeedSpec, Blobs!Spec

(* The ZIPs of the generations in memory are interned, and no others but   *)
(* those of generations whose directory could not be removed, whatever is  *)
(* published, pruned, deleted for space or recovered, for every set of     *)
(* ZIPs, budget and cap (intern_static, unintern_static).                  *)
THEOREM InternAlwaysExact == FeedSpec => []InternExact
<1>1. BlobInv /\ [Blobs!Next]_(Blobs!vars) => BlobInv'
  BY BlobStepDirs, BlobStepIntern DEF BlobInv
<1>2. BlobInv => InternExact
  BY DEF BlobInv, InternExact
<1> QED
  BY FeedIsBlobs, BlobInit, <1>1, <1>2, PTL DEF Blobs!Spec

-----------------------------------------------------------------------------
(* The retention window of the store                                       *)

Renamed == {"syncGens", "mark", "syncMark", "load_new", "swap"}
Publishing == Renamed \cup {"rename"}

(* Readers see a generation, or did within the window.                     *)
Shown(g) ==
  \/ g = visible
  \/ lastSeen[g] >= 0 /\ storeNow < lastSeen[g] + RetainSuperseded

(* A generation was last seen before the next one's files were written.    *)
TimesInv ==
  /\ storeNow \in Nat
  /\ written \in [Store!Gens -> Nat] /\ lastSeen \in [Store!Gens -> Int]
  /\ \A g \in Store!Gens : written[g] <= storeNow /\ lastSeen[g] <= storeNow
  /\ \A g \in Store!Gens : lastSeen[g] >= 0 => g <= visible
  /\ \A g, h \in Store!Gens : g < h /\ h < nextGen => lastSeen[g] <= written[h]
  /\ place \in Publishing =>
       \A g \in Store!Gens : g = visible + 1 => written[g] = storeNow

(* Without a fault within a publication the identifiers are consecutive,   *)
(* and at rest the disk has all that readers see.                          *)
PlaceInv ==
  /\ place \in {"down", "idle", "select"} \cup Store!Passes \cup Store!Writing
  /\ IF place \in Store!Passes THEN phase \in {"recover", "reopen", "pre", "post"}
                               ELSE phase = "none"
  /\ place = "load" => phase = "recover"
  /\ place \in {"temps", "budget"} => phase # "recover"
  /\ place # "prune" => todo = {}
  /\ visible \in Store!Gens \cup {0}
  /\ nextGen = visible + (IF place \in Publishing THEN 2 ELSE 1)
  /\ nextGen <= StoreGens + 1
  /\ phase = "pre" \/ place \in {"space", "write"} => nextGen <= StoreGens
  /\ place \notin {"down", "select"} => visibleNow = visible
  /\ marker = visible + (IF place \in {"syncMark", "load_new", "swap"} THEN 1 ELSE 0)
  /\ durableMarker = visible + (IF place \in {"load_new", "swap"} THEN 1 ELSE 0)

(* What is shown is on the disk for good and, but in a restart, in memory; *)
(* and nothing plans to delete it.                                         *)
DiskInv ==
  /\ dir \in [Store!Gens -> Store!DirState]
  /\ durableDir \in [Store!Gens -> Store!DirState]
  /\ todo \subseteq Store!Gens
  /\ \A g \in Store!Gens :
       dir[g] # "absent" \/ durableDir[g] # "absent" => g < nextGen
  /\ \A g \in Store!Gens :
       g = visible + 1 =>
         /\ place \in Renamed => dir[g] = "final"
         /\ place \in Renamed \ {"syncGens"} => durableDir[g] = "final"
         /\ place = "swap" => g \in generations
  /\ \A g \in Store!Gens : Shown(g) =>
       /\ dir[g] = "final" /\ durableDir[g] = "final"
       /\ place \notin {"down", "select"} /\ phase # "recover" => g \in generations
       /\ g \notin todo

StoreInv == TimesInv /\ PlaceInv /\ DiskInv

LEMMA StoreCardinality ==
  ASSUME NEW S PROVE Store!Cardinality(S) = Cardinality(S)
  BY DEF Store!Cardinality, Cardinality

(* The cap spares them all, and what is shown is not expired.              *)
LEMMA DeletionsExpired ==
  ASSUME StoreInv, NEW g \in Store!SupersededDeletions(visible)
  PROVE  g \in Store!Gens /\ ~Shown(g)
<1> DEFINE unprotected == Store!Candidates \ {visible}
           fresh == {h \in unprotected : ~Store!Superseded(h)}
           above == {h \in fresh : h > g}
           cur == Store!Candidates \cap {visible}
<1>1. /\ g \in unprotected
      /\ g \notin fresh \/ Cardinality(above) + Cardinality(cur) >= StoreGens
  BY StoreCardinality DEF Store!SupersededDeletions
<1>2. g \in Store!Gens /\ g # visible /\ Store!Candidates \subseteq Store!Gens
  BY <1>1 DEF Store!Candidates
<1>3. Store!Gens = 1 .. StoreGens /\ StoreGens \in Nat
  BY PartsAssumption DEF Store!Gens
<1>4. ~(Cardinality(above) + Cardinality(cur) >= StoreGens)
  <2>1. /\ IsFiniteSet(1 .. StoreGens) /\ Cardinality(1 .. StoreGens) = StoreGens
    BY <1>3, FS_Interval
  <2> DEFINE others == 1 .. StoreGens \ {g}
  <2>2. IsFiniteSet(others) /\ Cardinality(others) = StoreGens - 1
    BY <1>2, <1>3, <2>1, FS_RemoveElement
  <2>3. above \subseteq others /\ cur \subseteq others /\ above \cap cur = {}
    <3>1. \A h \in above : h \in Store!Gens /\ h > g /\ h # visible
      BY <1>2
    <3>2. \A h \in cur : h \in Store!Gens /\ h = visible
      BY <1>2
    <3> HIDE DEF above, cur
    <3> QED
      BY <1>2, <1>3, <3>1, <3>2
  <2> HIDE DEF above, cur, others
  <2>4. IsFiniteSet(above) /\ IsFiniteSet(cur)
    BY <2>2, <2>3, FS_Subset
  <2>5. Cardinality(above \cup cur) = Cardinality(above) + Cardinality(cur)
    <3>1. Cardinality(above \cup cur)
            = Cardinality(above) + Cardinality(cur) - Cardinality(above \cap cur)
      BY <2>4, FS_Union
    <3>2. Cardinality(above \cap cur) = 0
      BY <2>3, FS_EmptySet
    <3> QED
      BY <2>4, <3>1, <3>2, FS_CardinalityType
  <2>6. Cardinality(above \cup cur) <= StoreGens - 1
    BY <2>2, <2>3, FS_Subset
  <2> QED
    BY <1>3, <2>4, <2>5, <2>6, FS_CardinalityType
<1>5. PICK h \in Store!Candidates : h > g /\ storeNow - written[h] >= RetainSuperseded
  BY <1>1, <1>4 DEF Store!Superseded
<1>6. h \in Store!Gens /\ h < nextGen
  BY <1>2 DEF StoreInv, DiskInv, Store!Candidates
<1>7. lastSeen[g] <= written[h] /\ lastSeen[g] \in Int /\ written[h] \in Nat
      /\ storeNow \in Nat /\ RetainSuperseded \in Nat
  BY <1>2, <1>3, <1>5, <1>6, PartsAssumption DEF StoreInv, TimesInv
<1> QED
  BY <1>2, <1>5, <1>7 DEF Shown

LEMMA StoreInit == Store!Init => StoreInv
<1> SUFFICES ASSUME Store!Init PROVE StoreInv
  OBVIOUS
<1>1. /\ dir = [g \in Store!Gens |-> "absent"] /\ durableDir = dir
      /\ marker = 0 /\ durableMarker = 0 /\ written = [g \in Store!Gens |-> 0]
      /\ place = "down" /\ phase = "none" /\ todo = {} /\ nextGen = 1
      /\ storeNow = 0 /\ visible = 0 /\ lastSeen = [g \in Store!Gens |-> -1]
  BY DEF Store!Init, Store!Null
<1>2. Store!Gens = 1 .. StoreGens /\ StoreGens \in Nat \ {0}
  BY PartsAssumption DEF Store!Gens
<1>3. TimesInv
  BY <1>1 DEF TimesInv
<1>4. PlaceInv
  BY <1>1, <1>2
     DEF PlaceInv, Publishing, Renamed, Store!Passes, Store!Writing
<1>5. \A g \in Store!Gens : ~Shown(g)
  BY <1>1, <1>2 DEF Shown
<1>6. DiskInv
  BY <1>1, <1>5 DEF DiskInv, Store!DirState, Renamed
<1> QED
  BY <1>3, <1>4, <1>6 DEF StoreInv

(* No deletion but the planned ones: there is no budget and room enough.   *)
LEMMA DeletesPlanned ==
  ASSUME StoreInv, NEW g, Store!Deleting(g)
  PROVE  place = "prune" /\ g \in todo
<1>1. place # "budget"
  <2>1. place = "budget" => g \in todo
    BY DEF Store!Deleting, Store!Oldest
  <2> QED
    BY <2>1 DEF StoreInv, PlaceInv
<1> QED
  BY <1>1 DEF Store!Deleting, Store!Newest

(* In this part no step fails, and the marker needs no repair.             *)
LEMMA NoFault ==
  ASSUME StoreInv
  PROVE  /\ ~Store!PublishFails /\ ~Store!RepairMarker /\ ~Store!SyncRepair
         /\ Store!Kill => place = "idle" /\ UNCHANGED <<dir, written>>
         /\ Store!PowerLoss => place = "idle"
<1>1. ~Store!PublishFails
  BY DEF Store!PublishFails, Store!Fault
<1>2. ~Store!RepairMarker /\ ~Store!SyncRepair
  BY DEF Store!RepairMarker, Store!SyncRepair, StoreInv, PlaceInv, Store!Passes,
         Store!Writing
<1>3. Store!Kill => place = "idle" /\ UNCHANGED <<dir, written>>
  <2> SUFFICES ASSUME Store!Kill PROVE place = "idle" /\ UNCHANGED <<dir, written>>
    OBVIOUS
  <2>1. place = "idle"
    BY DEF Store!Kill, Store!Fault
  <2>2. \A g : ~Store!LeftPartial(g)
    BY <2>1, DeletesPlanned DEF Store!LeftPartial
  <2> QED
    BY <2>1, <2>2 DEF Store!Kill
<1>4. Store!PowerLoss => place = "idle"
  BY DEF Store!PowerLoss, Store!Fault
<1> QED
  BY <1>1, <1>2, <1>3, <1>4

LEMMA StoreTimes ==
  ASSUME StoreInv, [Store!Next]_(Store!vars)
  PROVE  TimesInv'
<1> USE DEF StoreInv, TimesInv
<1>1. CASE /\ UNCHANGED <<storeNow, written, lastSeen, visible, nextGen>>
           /\ place' \in Publishing => place \in Publishing
  BY <1>1
<1>2. CASE Store!WriteTemporary
  <2>1. /\ written' = [written EXCEPT ![nextGen] = storeNow]
        /\ nextGen' = nextGen + 1 /\ nextGen = visible + 1 /\ nextGen \in Store!Gens
        /\ UNCHANGED <<storeNow, lastSeen, visible>>
    BY <1>2, PartsAssumption
       DEF Store!WriteTemporary, Store!history, PlaceInv, Publishing, Renamed,
           Store!Gens
  <2>2. \A g \in Store!Gens :
          written'[g] = IF g = nextGen THEN storeNow ELSE written[g]
    BY <2>1
  <2>3. written' \in [Store!Gens -> Nat]
    BY <2>1
  <2>4. \A g \in Store!Gens : g \in Nat /\ written[g] \in Nat /\ lastSeen[g] \in Int
    BY DEF Store!Gens
  <2> QED
    BY <2>1, <2>2, <2>3, <2>4
<1>3. CASE Store!Swap
  <2>1. /\ place = "swap" /\ visibleNow = visible /\ nextGen = visible + 2
        /\ visible \in Nat /\ place' = "temps"
    BY <1>3 DEF Store!Swap, PlaceInv, Publishing, Renamed, Store!Gens
  <2>2. visible' = visible + 1
    BY <1>3, <2>1 DEF Store!Swap, Store!new
  <2>3. /\ lastSeen' = [h \in Store!Gens |-> IF h = visible THEN storeNow
                                              ELSE lastSeen[h]]
        /\ UNCHANGED <<storeNow, written, nextGen>>
    BY <1>3, <2>1 DEF Store!Swap, Store!Seen, Store!disk, Store!attempt
  <2>4. \A h \in Store!Gens : visible < h /\ h < nextGen => written[h] = storeNow
    BY <2>1 DEF Publishing, Renamed, Store!Gens
  <2>5. lastSeen' \in [Store!Gens -> Int]
    BY <2>3
  <2>6. \A h \in Store!Gens :
          /\ h \in Nat /\ written[h] \in Nat /\ lastSeen[h] \in Int
          /\ lastSeen'[h] = IF h = visible THEN storeNow ELSE lastSeen[h]
    BY <2>3 DEF Store!Gens
  <2>7. place' \notin Publishing
    BY <2>1 DEF Publishing, Renamed
  <2> QED
    BY <2>1, <2>2, <2>3, <2>4, <2>5, <2>6, <2>7
<1>4. CASE Store!Kill \/ Store!PowerLoss
  <2>1. /\ place = "idle" /\ nextGen = visible + 1 /\ visible \in Nat
    BY <1>4, NoFault DEF PlaceInv, Publishing, Renamed, Store!Gens
  <2>2. /\ lastSeen' = [h \in Store!Gens |-> IF h = visible THEN storeNow
                                              ELSE lastSeen[h]]
        /\ UNCHANGED <<storeNow, nextGen, visible>> /\ place' = "down"
    BY <1>4, <2>1 DEF Store!Kill, Store!PowerLoss, Store!Down, Store!Serving, Store!Seen
  <2>3. /\ written' \in [Store!Gens -> Nat]
        /\ \A g \in Store!Gens : written'[g] \in {written[g], storeNow}
    <3>1. CASE Store!Kill
      BY <3>1, NoFault
    <3>2. CASE Store!PowerLoss
      BY <3>2 DEF Store!PowerLoss
    <3> QED
      BY <1>4, <3>1, <3>2
  <2>4. lastSeen' \in [Store!Gens -> Int]
    BY <2>2
  <2>5. \A h \in Store!Gens :
          /\ h \in Nat /\ written[h] \in Nat /\ lastSeen[h] \in Int
          /\ lastSeen'[h] = IF h = visible THEN storeNow ELSE lastSeen[h]
    BY <2>2 DEF Store!Gens
  <2>6. place' \notin Publishing
    BY <2>2 DEF Publishing, Renamed
  <2> QED
    BY <2>1, <2>2, <2>3, <2>4, <2>5, <2>6
<1>5. CASE Store!Tick
  <2>1. /\ storeNow' = storeNow + 1 /\ place \in {"idle", "down"} /\ place' = place
        /\ UNCHANGED <<written, lastSeen, visible, nextGen>>
    BY <1>5 DEF Store!Tick, Store!disk, Store!history, Store!attempt, Store!control
  <2>2. place' \notin Publishing
    BY <2>1 DEF Publishing, Renamed
  <2> QED
    BY <2>1, <2>2
<1>6. CASE Store!OpenDone \/ Store!PublishDone \/ Store!PruneDone \/ Store!BudgetMet
  <2>1. /\ UNCHANGED <<storeNow, written, lastSeen, nextGen>>
        /\ place' \in {"idle", "load", "budget", "space"}
        /\ visible' \in {visible, visibleNow} /\ place \in {"budget", "prune"}
    BY <1>6 DEF Store!OpenDone, Store!PublishDone, Store!PruneDone, Store!BudgetMet,
                Store!disk, Store!history, Store!attempt
  <2>2. place' \notin Publishing /\ visible' = visible
    BY <2>1 DEF Publishing, Renamed, PlaceInv
  <2> QED
    BY <1>1, <2>1, <2>2
<1>7. CASE \/ Store!Restart \/ Store!Select \/ Store!LoadSurvivors
           \/ Store!RemoveStaleTemps \/ Store!SpaceDone \/ Store!StartPublish
           \/ Store!Exhausted
  <2>1. UNCHANGED <<storeNow, written, lastSeen, visible, nextGen>>
    BY <1>7 DEF Store!Restart, Store!Select, Store!LoadSurvivors,
                Store!RemoveStaleTemps, Store!SpaceDone, Store!StartPublish,
                Store!Exhausted, Store!vars, Store!disk, Store!history, Store!attempt
  <2>2. place' \in {"select", "prune", "repair", "temps", "write", "idle"}
    BY <1>7 DEF Store!Restart, Store!Select, Store!LoadSurvivors,
                Store!RemoveStaleTemps, Store!SpaceDone, Store!StartPublish,
                Store!Exhausted, Store!vars, Store!control
  <2>3. place' \notin Publishing
    BY <2>2 DEF Publishing, Renamed
  <2> QED
    BY <1>1, <2>1, <2>3
<1>8. CASE \E g \in Store!Gens : Store!DeleteSuperseded(g) \/ Store!DeleteOverBudget(g)
                                 \/ Store!FreeSpace(g)
  <2>1. UNCHANGED <<storeNow, written, lastSeen, visible, nextGen, place>>
    BY <1>8 DEF Store!DeleteSuperseded, Store!DeleteOverBudget, Store!FreeSpace,
                Store!Delete, Store!history, Store!attempt
  <2> QED
    BY <1>1, <2>1
<1>9. CASE \/ Store!RenameGeneration \/ Store!SyncGenerations \/ Store!RenameMarker
           \/ Store!SyncMarker \/ Store!LoadNew
  <2>1. UNCHANGED <<storeNow, written, lastSeen, visible, nextGen>>
    BY <1>9 DEF Store!RenameGeneration, Store!SyncGenerations, Store!RenameMarker,
                Store!SyncMarker, Store!LoadNew, Store!disk, Store!history,
                Store!attempt
  <2>2. place \in Publishing
    BY <1>9 DEF Store!RenameGeneration, Store!SyncGenerations, Store!RenameMarker,
                Store!SyncMarker, Store!LoadNew, Publishing, Renamed
  <2> QED
    BY <1>1, <2>1, <2>2
<1>10. CASE UNCHANGED Store!vars
  BY <1>1, <1>10 DEF Store!vars, Store!disk, Store!history, Store!attempt, Store!control
<1> QED
  BY <1>2, <1>3, <1>4, <1>5, <1>6, <1>7, <1>8, <1>9, <1>10, NoFault
     DEF Store!Next, Store!Step

LEMMA StorePlace ==
  ASSUME StoreInv, [Store!Next]_(Store!vars)
  PROVE  PlaceInv'
<1> USE DEF PlaceInv, Publishing, Renamed, Store!Passes, Store!Writing
<1>0. PlaceInv /\ visible \in Nat /\ nextGen \in Nat /\ StoreGens \in Nat
  BY PartsAssumption DEF StoreInv, Store!Gens
<1>1. CASE Store!Restart
  BY <1>0, <1>1 DEF Store!Restart, Store!disk, Store!memory, Store!attempt,
                    Store!history
<1>2. CASE Store!Select
  <2>1. /\ place = "select" /\ marker = visible /\ nextGen = visible + 1
    BY <1>0, <1>2 DEF Store!Select
  <2>2. PICK s \in Store!Gens \cup {0} :
          /\ Store!Recovers(s) /\ visibleNow' = s
          /\ IF s \in {0, marker}
               THEN place' = "prune" /\ todo' = Store!SupersededDeletions(s)
               ELSE place' = "repair" /\ todo' = {}
    BY <1>2 DEF Store!Select, Store!Null
  <2>3. s = visible
    <3>1. CASE visible \in Store!Gens
      BY <2>1, <2>2, <3>1 DEF StoreInv, DiskInv, Shown, Store!Recovers, Store!Complete
    <3>2. CASE visible = 0
      <4>1. Store!Complete = {}
        BY <2>1, <3>2 DEF StoreInv, DiskInv, Store!Complete, Store!Gens
      <4> QED
        BY <2>1, <2>2, <3>2, <4>1 DEF Store!Recovers, Store!Null
    <3> QED
      BY <1>0, <3>1, <3>2
  <2>4. /\ phase' = "recover" /\ UNCHANGED <<marker, durableMarker, nextGen, visible>>
    BY <1>2 DEF Store!Select, Store!disk, Store!attempt, Store!history
  <2> QED
    BY <1>0, <2>1, <2>2, <2>3, <2>4
<1>3. CASE Store!LoadSurvivors
  BY <1>0, <1>3 DEF Store!LoadSurvivors, Store!disk, Store!attempt, Store!history
<1>4. CASE Store!RemoveStaleTemps
  BY <1>0, <1>4 DEF Store!RemoveStaleTemps, Store!memory, Store!attempt, Store!history
<1>5. CASE Store!PruneDone
  <2>1. Store!OverBudget(1) = {} /\ Store!OverBudget(0) = {}
    BY DEF Store!OverBudget
  <2> QED
    BY <1>0, <1>5, <2>1
       DEF Store!PruneDone, Store!disk, Store!memory, Store!attempt, Store!history
<1>6. CASE Store!OpenDone
  BY <1>0, <1>6 DEF Store!OpenDone, Store!disk, Store!memory, Store!attempt
<1>7. CASE \E g \in Store!Gens : Store!DeleteSuperseded(g) \/ Store!DeleteOverBudget(g)
                                 \/ Store!FreeSpace(g)
  <2>1. PICK g \in Store!Gens : Store!Delete(g)
    BY <1>7 DEF Store!DeleteSuperseded, Store!DeleteOverBudget, Store!FreeSpace
  <2>2. place = "prune"
    BY <2>1, DeletesPlanned DEF Store!Delete
  <2> QED
    BY <1>0, <2>1, <2>2 DEF Store!Delete, Store!attempt, Store!history
<1>8. CASE Store!BudgetMet
  BY <1>0, <1>8 DEF Store!BudgetMet, Store!disk, Store!memory, Store!attempt,
                    Store!history
<1>9. CASE Store!SpaceDone
  BY <1>0, <1>9 DEF Store!SpaceDone, Store!disk, Store!memory, Store!attempt,
                    Store!history
<1>10. CASE Store!WriteTemporary
  BY <1>0, <1>10 DEF Store!WriteTemporary, Store!memory, Store!history
<1>11. CASE Store!RenameGeneration
  BY <1>0, <1>11 DEF Store!RenameGeneration, Store!memory, Store!attempt, Store!history
<1>12. CASE Store!SyncGenerations
  BY <1>0, <1>12 DEF Store!SyncGenerations, Store!memory, Store!attempt, Store!history
<1>13. CASE Store!RenameMarker
  BY <1>0, <1>13 DEF Store!RenameMarker, Store!new, Store!memory, Store!attempt,
                     Store!history
<1>14. CASE Store!SyncMarker
  BY <1>0, <1>14 DEF Store!SyncMarker, Store!memory, Store!attempt, Store!history
<1>15. CASE Store!LoadNew
  BY <1>0, <1>15 DEF Store!LoadNew, Store!disk, Store!attempt, Store!history
<1>16. CASE Store!Swap
  BY <1>0, <1>16 DEF Store!Swap, Store!new, Store!disk, Store!attempt, Store!Gens
<1>17. CASE Store!PublishDone
  BY <1>0, <1>17 DEF Store!PublishDone, Store!disk, Store!memory, Store!history
<1>18. CASE Store!StartPublish
  BY <1>0, <1>18 DEF Store!StartPublish, Store!disk, Store!memory, Store!history,
                     Store!Gens
<1>19. CASE Store!Kill \/ Store!PowerLoss
  <2>1. place = "idle"
    BY <1>19, NoFault
  <2>2. /\ place' = "down" /\ phase' = "none" /\ todo' = {}
        /\ UNCHANGED <<nextGen, visible>>
        /\ marker' \in {marker, durableMarker}
        /\ durableMarker' \in {marker, durableMarker, marker'}
    BY <1>19 DEF Store!Kill, Store!PowerLoss, Store!Down
  <2> QED
    BY <1>0, <2>1, <2>2
<1>20. CASE Store!Tick \/ Store!Exhausted \/ UNCHANGED Store!vars
  BY <1>0, <1>20 DEF Store!Tick, Store!Exhausted, Store!vars, Store!disk, Store!memory,
                     Store!attempt, Store!control, Store!history
<1> QED
  BY <1>1, <1>2, <1>3, <1>4, <1>5, <1>6, <1>7, <1>8, <1>9, <1>10, <1>11, <1>12,
     <1>13, <1>14, <1>15, <1>16, <1>17, <1>18, <1>19, <1>20, NoFault
     DEF Store!Next, Store!Step

LEMMA ShownStays ==
  ASSUME StoreInv, UNCHANGED <<visible, lastSeen>>, storeNow' \in {storeNow, storeNow + 1}
  PROVE  \A g \in Store!Gens : Shown(g)' => Shown(g)
<1>1. /\ storeNow \in Nat /\ RetainSuperseded \in Nat
      /\ \A g \in Store!Gens : lastSeen[g] \in Int
  BY PartsAssumption DEF StoreInv, TimesInv
<1> QED
  BY <1>1 DEF Shown

LEMMA StoreDisk ==
  ASSUME StoreInv, [Store!Next]_(Store!vars)
  PROVE  DiskInv'
<1> USE DEF DiskInv, Renamed
<1>0. /\ DiskInv /\ PlaceInv /\ PlaceInv' /\ visible \in Nat /\ StoreGens \in Nat
      /\ Store!Gens = 1 .. StoreGens
  BY StorePlace, PartsAssumption DEF StoreInv, PlaceInv, Store!Gens
<1>1. CASE \/ Store!Restart \/ Store!Select \/ Store!SpaceDone \/ Store!RenameMarker
           \/ Store!SyncMarker \/ Store!BudgetMet \/ Store!StartPublish \/ Store!Tick
           \/ Store!Exhausted \/ UNCHANGED Store!vars
  <2>1. /\ UNCHANGED <<dir, durableDir, nextGen, visible, lastSeen>>
        /\ storeNow' \in {storeNow, storeNow + 1}
        /\ place' \in Renamed => place \in Renamed
        /\ place' = "swap" => place = "swap" /\ generations' = generations
        /\ place' \in Renamed \ {"syncGens"} => place \in Renamed \ {"syncGens"}
    BY <1>1 DEF Store!Restart, Store!Select, Store!SpaceDone, Store!RenameMarker,
                Store!SyncMarker, Store!BudgetMet, Store!StartPublish, Store!Tick,
                Store!Exhausted, Store!vars, Store!disk, Store!memory, Store!attempt,
                Store!control, Store!history
  <2>2. todo' \in {todo, {}} \/ todo' = Store!SupersededDeletions(visible)
    <3>1. CASE Store!Select
      <4>1. visibleNow' = visible
        BY <1>0, <2>1, <3>1 DEF PlaceInv, Store!Select
      <4> QED
        BY <3>1, <4>1 DEF Store!Select
    <3>2. CASE ~Store!Select
      BY <1>1, <3>2
         DEF Store!Restart, Store!SpaceDone, Store!RenameMarker, Store!SyncMarker,
             Store!BudgetMet, Store!StartPublish, Store!Tick, Store!Exhausted,
             Store!vars, Store!control
    <3> QED
      BY <3>1, <3>2
  <2>3. \/ place' \in {"down", "select"} \/ phase' = "recover"
        \/ /\ generations' = generations /\ place \notin {"down", "select"}
           /\ phase # "recover"
    BY <1>0, <1>1
       DEF Store!Restart, Store!Select, Store!SpaceDone, Store!RenameMarker,
           Store!SyncMarker, Store!BudgetMet, Store!StartPublish, Store!Tick,
           Store!Exhausted, Store!vars, Store!disk, Store!memory, Store!control,
           PlaceInv, Store!Passes
  <2>4. \A g \in Store!Gens : Shown(g)' => Shown(g)
    BY <2>1, ShownStays
  <2>5. /\ todo' \subseteq Store!Gens
        /\ \A g \in Store!Gens : Shown(g) => g \notin todo'
    BY <1>0, <2>2, DeletionsExpired
  <2> QED
    BY <1>0, <2>1, <2>3, <2>4, <2>5
<1>2. CASE Store!LoadSurvivors
  <2>1. /\ UNCHANGED <<dir, durableDir, nextGen, visible, lastSeen, storeNow, todo>>
        /\ generations' = Store!Complete /\ place' = "temps"
    BY <1>2 DEF Store!LoadSurvivors, Store!disk, Store!attempt, Store!history
  <2>2. \A g \in Store!Gens : Shown(g)' => Shown(g)
    BY <2>1, ShownStays
  <2> QED
    BY <1>0, <2>1, <2>2 DEF Store!Complete
<1>3. CASE Store!RemoveStaleTemps
  <2>1. /\ UNCHANGED <<durableDir, nextGen, visible, lastSeen, storeNow, phase,
                       generations>>
        /\ dir' = [g \in Store!Gens |-> IF dir[g] = "temp" THEN "absent" ELSE dir[g]]
        /\ place' = "prune" /\ place = "temps"
        /\ todo' = Store!SupersededDeletions(visible)
    BY <1>0, <1>3
       DEF Store!RemoveStaleTemps, PlaceInv, Store!memory, Store!attempt, Store!history
  <2>2. \A g \in Store!Gens : Shown(g)' => Shown(g)
    BY <2>1, ShownStays
  <2>3. /\ todo' \subseteq Store!Gens
        /\ \A g \in Store!Gens : Shown(g) => g \notin todo'
    BY <2>1, DeletionsExpired
  <2>4. /\ dir' \in [Store!Gens -> Store!DirState]
        /\ \A g \in Store!Gens :
             /\ dir'[g] # "absent" => dir[g] # "absent"
             /\ dir[g] = "final" => dir'[g] = "final"
    BY <1>0, <2>1 DEF Store!DirState
  <2> QED
    BY <1>0, <2>1, <2>2, <2>3, <2>4
<1>4. CASE Store!PruneDone \/ Store!OpenDone \/ Store!PublishDone
  <2>1. /\ UNCHANGED <<dir, durableDir, nextGen, lastSeen, storeNow, generations>>
        /\ visible' = visible /\ place' \in {"load", "budget", "idle"}
        /\ place \in {"prune", "budget"} /\ todo = {}
    BY <1>0, <1>4
       DEF Store!PruneDone, Store!OpenDone, Store!PublishDone, PlaceInv, Store!disk,
           Store!memory, Store!attempt, Store!history
  <2>2. \A g \in Store!Gens : Shown(g)' => Shown(g)
    BY <2>1, ShownStays
  <2>3. todo' = {}
    BY <1>0, <2>1 DEF PlaceInv
  <2>4. phase' = "recover" \/ phase # "recover"
    BY <1>4 DEF Store!PruneDone, Store!OpenDone, Store!PublishDone
  <2> QED
    BY <1>0, <2>1, <2>2, <2>3, <2>4
<1>5. CASE \E g \in Store!Gens : Store!DeleteSuperseded(g) \/ Store!DeleteOverBudget(g)
                                 \/ Store!FreeSpace(g)
  <2>1. PICK g \in Store!Gens : Store!Delete(g)
    BY <1>5 DEF Store!DeleteSuperseded, Store!DeleteOverBudget, Store!FreeSpace
  <2>2. place = "prune" /\ g \in todo
    BY <2>1, DeletesPlanned DEF Store!Delete
  <2>3. /\ UNCHANGED <<durableDir, nextGen, visible, lastSeen, storeNow, phase, place>>
        /\ dir' = [dir EXCEPT ![g] = "absent"]
        /\ generations' = generations \ {g} /\ todo' = todo \ {g}
    BY <2>1 DEF Store!Delete, Store!attempt, Store!history
  <2>4. \A h \in Store!Gens : Shown(h)' => Shown(h) /\ h # g
    BY <1>0, <2>2, <2>3, ShownStays
  <2>5. /\ dir' \in [Store!Gens -> Store!DirState]
        /\ \A h \in Store!Gens : dir'[h] = IF h = g THEN "absent" ELSE dir[h]
    BY <1>0, <2>3 DEF Store!DirState
  <2> QED
    BY <1>0, <2>2, <2>3, <2>4, <2>5
<1>6. CASE Store!WriteTemporary
  <2>1. /\ UNCHANGED <<durableDir, visible, lastSeen, storeNow, phase, generations, todo>>
        /\ dir' = [dir EXCEPT ![nextGen] = "temp"]
        /\ place = "write" /\ place' = "rename" /\ nextGen' = nextGen + 1
        /\ nextGen = visible + 1
    BY <1>0, <1>6 DEF Store!WriteTemporary, PlaceInv, Publishing, Store!memory,
                      Store!history
  <2>2. \A g \in Store!Gens : Shown(g)' => Shown(g) /\ g # nextGen
    <3>1. \A g \in Store!Gens : Shown(g)' => Shown(g)
      BY <2>1, ShownStays
    <3>2. \A g \in Store!Gens : Shown(g) => g <= visible
      BY <1>0 DEF Shown, StoreInv, TimesInv
    <3> QED
      BY <1>0, <2>1, <3>1, <3>2
  <2>3. /\ dir' \in [Store!Gens -> Store!DirState]
        /\ \A g \in Store!Gens : dir'[g] = IF g = nextGen THEN "temp" ELSE dir[g]
    BY <1>0, <2>1 DEF Store!DirState
  <2> QED
    BY <1>0, <2>1, <2>2, <2>3
<1>7. CASE Store!RenameGeneration
  <2>1. /\ UNCHANGED <<durableDir, visible, lastSeen, storeNow, phase, generations, todo,
                       nextGen>>
        /\ dir' = [dir EXCEPT ![visible + 1] = "final"]
        /\ place = "rename" /\ place' = "syncGens" /\ nextGen = visible + 2
    BY <1>0, <1>7 DEF Store!RenameGeneration, Store!new, PlaceInv, Publishing,
                      Store!memory, Store!history, Store!attempt
  <2>2. \A g \in Store!Gens : Shown(g)' => Shown(g)
    BY <2>1, ShownStays
  <2>3. /\ dir' \in [Store!Gens -> Store!DirState]
        /\ \A g \in Store!Gens : dir'[g] = IF g = visible + 1 THEN "final" ELSE dir[g]
    BY <1>0, <2>1 DEF Store!DirState
  <2> QED
    BY <1>0, <2>1, <2>2, <2>3
<1>8. CASE Store!SyncGenerations
  <2>1. /\ UNCHANGED <<dir, visible, lastSeen, storeNow, phase, generations, todo,
                       nextGen>>
        /\ durableDir' = dir /\ place = "syncGens" /\ place' = "mark"
    BY <1>8 DEF Store!SyncGenerations, Store!memory, Store!history, Store!attempt
  <2>2. \A g \in Store!Gens : Shown(g)' => Shown(g)
    BY <2>1, ShownStays
  <2> QED
    BY <1>0, <2>1, <2>2
<1>9. CASE Store!LoadNew
  <2>1. /\ UNCHANGED <<dir, durableDir, visible, lastSeen, storeNow, phase, todo, nextGen>>
        /\ generations' = generations \cup {visible + 1}
        /\ place = "load_new" /\ place' = "swap"
    BY <1>0, <1>9 DEF Store!LoadNew, Store!new, PlaceInv, Publishing, Store!disk,
                      Store!history, Store!attempt
  <2>2. \A g \in Store!Gens : Shown(g)' => Shown(g)
    BY <2>1, ShownStays
  <2> QED
    BY <1>0, <2>1, <2>2
<1>10. CASE Store!Swap
  <2>1. /\ UNCHANGED <<dir, durableDir, generations, todo, nextGen, storeNow>>
        /\ place = "swap" /\ place' = "temps" /\ todo = {} /\ nextGen = visible + 2
        /\ visible' = visible + 1
        /\ lastSeen' = [h \in Store!Gens |-> IF h = visible THEN storeNow
                                              ELSE lastSeen[h]]
    BY <1>0, <1>10 DEF Store!Swap, Store!new, Store!Seen, PlaceInv, Publishing,
                       Store!disk, Store!attempt
  <2>2. \A g \in Store!Gens : Shown(g)' => Shown(g) \/ g = visible + 1
    BY <2>1 DEF Shown
  <2>3. phase # "recover"
    BY <1>0, <2>1 DEF PlaceInv, Store!Passes
  <2> QED
    BY <1>0, <2>1, <2>2, <2>3
<1>11. CASE Store!Kill \/ Store!PowerLoss
  <2>1. place = "idle" /\ nextGen = visible + 1
    BY <1>0, <1>11, NoFault DEF PlaceInv, Publishing
  <2>2. /\ UNCHANGED <<nextGen, visible, storeNow>> /\ place' = "down" /\ todo' = {}
        /\ lastSeen' = [h \in Store!Gens |-> IF h = visible THEN storeNow
                                              ELSE lastSeen[h]]
    BY <1>11, <2>1 DEF Store!Kill, Store!PowerLoss, Store!Down, Store!Serving, Store!Seen
  <2>3. \A g \in Store!Gens : Shown(g)' => Shown(g)
    BY <2>2 DEF Shown
  <2>4. /\ dir' \in [Store!Gens -> Store!DirState] /\ durableDir' = dir'
        /\ \A g \in Store!Gens :
             dir'[g] \in {dir[g], durableDir[g]}
                           \cup (IF dir[g] = "absent" /\ durableDir[g] = "absent"
                                   THEN {} ELSE {"partial"})
        /\ \A g \in Store!Gens :
             dir[g] = "final" /\ durableDir[g] = "final" => dir'[g] = "final"
    <3>1. CASE Store!Kill
      BY <1>0, <3>1, NoFault DEF Store!Kill
    <3>2. CASE Store!PowerLoss
      <4>1. PICK d \in [Store!Gens -> Store!DirState] :
              /\ \A g \in Store!Gens : d[g] \in Store!AfterPowerLoss(g)
              /\ dir' = d /\ durableDir' = d
        BY <3>2 DEF Store!PowerLoss
      <4>2. \A g : ~Store!Deleting(g)
        BY <2>1, DeletesPlanned
      <4>3. \A g \in Store!Gens :
              Store!AfterPowerLoss(g)
                = {dir[g], durableDir[g]}
                    \cup (IF dir[g] = "absent" /\ durableDir[g] \in {"final", "partial"}
                            THEN {"partial"} ELSE {})
        BY <4>2 DEF Store!AfterPowerLoss
      <4> QED
        BY <4>1, <4>3
    <3> QED
      BY <1>11, <3>1, <3>2
  <2> QED
    BY <1>0, <2>1, <2>2, <2>3, <2>4
<1> QED
  BY <1>1, <1>2, <1>3, <1>4, <1>5, <1>6, <1>7, <1>8, <1>9, <1>10, <1>11, NoFault
     DEF Store!Next, Store!Step

LEMMA FeedIsStore == FeedSpec => Store!Spec
<1>1. FeedInit => Store!Init
  BY DEF FeedInit
<1>2. [FeedNext]_<<part, vars, buildVars, advisoryVars, blobVars, validatorVars,
                   storeVars>> => [Store!Next]_(Store!vars)
  BY DEF FeedNext, DeliveryStep, BuildStep, AdvisoryStep, BlobStep, ValidatorStep,
         StoreStep, storeVars, Store!vars, Store!disk, Store!memory, Store!control,
         Store!attempt, Store!history
<1> QED
  BY <1>1, <1>2, PTL DEF FeedSpec, Store!Spec

(* A superseded generation stays addressable for the retention window      *)
(* after it was last shown, whatever is published and however often the    *)
(* process or the power is lost between publications, as long as neither   *)
(* the count cap nor the bytes are the limit (plan_superseded_deletions).  *)
THEOREM ReadersWindowKept == FeedSpec => []ReaderWindow
<1>1. StoreInv /\ [Store!Next]_(Store!vars) => StoreInv'
  BY StoreTimes, StorePlace, StoreDisk DEF StoreInv
<1>2. StoreInv => ReaderWindow
  BY DEF StoreInv, PlaceInv, DiskInv, Shown, ReaderWindow, Store!ReaderWindow,
         Store!Serving, Store!Passes, Store!Writing
<1> QED
  BY FeedIsStore, StoreInit, <1>1, <1>2, PTL DEF Store!Spec

-----------------------------------------------------------------------------
(* The periods of the advisories                                           *)

AdvisoryTypes ==
  /\ now \in Nat /\ trouble \in Nat /\ wake \in Nat /\ due2 \in Nat
  /\ 1 <= trouble /\ trouble <= now
  /\ cycle \in [phase : {"idle", "details", "files"}, began : Nat]
  /\ cycle.phase = "idle" => cycle = Advisory!Idle
  /\ cycle.phase # "idle" =>
       cycle.began <= now /\ now <= cycle.began + CycleTime
  /\ cycle.phase = "idle" => now <= wake
  /\ list.taken \in Nat /\ request.taken \in Nat /\ request.reading \in BOOLEAN
  /\ cache.at \in Nat /\ cache.taken \in Nat /\ cache.at <= now
  /\ now <= due2 /\ (request.reading => now = due2)

(* A moment at which the file may be on its way to be replaced.            *)
Listed(moment) ==
  \/ moment <= trouble + Poll
  \/ moment <= list.taken + CycleTime + Poll

(* What was read at some moment was taken at most this long before.        *)
Recent(moment, taken) ==
  \/ moment <= trouble + Poll + CycleTime
  \/ moment <= taken + 2 * CycleTime + Poll

ListInv ==
  /\ cycle.phase = "idle" => Listed(wake)
  /\ cycle.phase = "details" => Listed(cycle.began)
  /\ cycle.phase = "files" => list.taken = cycle.began
  /\ request.reading => Recent(now, request.taken)
  /\ cache.at = 0 => due2 = 1
  /\ cache.at # 0 => /\ due2 <= cache.at + Ttl + Interval
                     /\ Recent(cache.at, cache.taken)

(* A moment at which a stored page may still be unconfirmed.               *)
Unconfirmed(moment, d) ==
  \/ moment <= trouble + CycleTime + Poll
  \/ moment <= missing[d] + CycleTime + Poll
  \/ moment < detail[d] + DetailTtl + Poll + CycleTime

(* In a cycle, a page is held or left to do, unless it was still fresh as  *)
(* the cycle began, is not taken from its list, or something failed since. *)
DetailInv ==
  /\ missing \in [Details -> Nat]
  /\ due \cup held \cup DOMAIN detail \subseteq Details
  /\ \A d \in DOMAIN detail :
       /\ detail[d] \in Nat
       /\ cycle.phase = "idle" => Unconfirmed(wake, d)
       /\ cycle.phase # "idle" =>
            \/ trouble >= cycle.began \/ missing[d] >= cycle.began
            \/ cycle.began < detail[d] + DetailTtl
            \/ /\ d \in due \cup held
               /\ Unconfirmed(cycle.began, d)
  /\ cycle.phase = "files" => due = {}

AdvisoryInv == AdvisoryTypes /\ ListInv /\ DetailInv

LEMMA AdvisoryPeriods ==
  /\ Poll \in Nat /\ CycleTime \in Nat /\ DetailTtl \in Nat
  /\ Poll > 0 /\ CycleTime > 0 /\ DetailTtl > 0
  /\ Ttl \in Nat /\ Interval \in Nat /\ DetailStale \in Nat
  BY PartsAssumption DEF Advisory!AdvisoryConstants

(* What is bounded by some moment is bounded by a later one.               *)
LEMMA LaterBounds ==
  \A t, u, w, p, q \in Nat : t <= u =>
    (w <= t + p => w <= u + p) /\ (w <= t + p + q => w <= u + p + q)
  OBVIOUS

LEMMA AdvisoryInit == Advisory!Init => AdvisoryInv
  BY AdvisoryPeriods
     DEF Advisory!Init, AdvisoryInv, AdvisoryTypes, ListInv, DetailInv, Listed,
         Unconfirmed, Recent, Advisory!Idle, Advisory!NoList, Advisory!NoRequest,
         Advisory!NoCache

LEMMA AdvisoryStepTypes ==
  AdvisoryInv /\ [Advisory!Next]_(Advisory!vars) => AdvisoryTypes'
<1> SUFFICES ASSUME AdvisoryInv, [Advisory!Next]_(Advisory!vars)
             PROVE  AdvisoryTypes'
  OBVIOUS
<1> USE AdvisoryPeriods DEF AdvisoryInv, AdvisoryTypes, Advisory!Idle
<1>1. CASE Advisory!Tick
  BY <1>1 DEF Advisory!Tick, Advisory!fetcher, Advisory!service
<1>2. CASE Advisory!NewSchedule
  BY <1>2 DEF Advisory!NewSchedule, Advisory!fetcher, Advisory!service
<1>3. CASE Advisory!RenderList
  BY <1>3 DEF Advisory!RenderList, Advisory!service
<1>4. CASE Advisory!ListFails
  BY <1>4 DEF Advisory!ListFails, Advisory!Slept, Advisory!service
<1>5. CASE Advisory!RenderDetail
  BY <1>5 DEF Advisory!RenderDetail, Advisory!service
<1>6. CASE Advisory!StoreList
  BY <1>6 DEF Advisory!StoreList, Advisory!service
<1>7. CASE Advisory!StoreDetails
  BY <1>7 DEF Advisory!StoreDetails, Advisory!Slept, Advisory!service
<1>8. CASE Advisory!RestartFetcher
  BY <1>8 DEF Advisory!RestartFetcher, Advisory!service
<1>9. CASE Advisory!UseCache
  BY <1>9 DEF Advisory!UseCache, Advisory!Publish, Advisory!fetcher
<1>10. CASE Advisory!ReadList
  BY <1>10 DEF Advisory!ReadList, Advisory!fetcher
<1>11. CASE Advisory!Answer
  BY <1>11 DEF Advisory!Answer, Advisory!Publish, Advisory!fetcher,
               Advisory!NoRequest
<1>12. CASE UNCHANGED Advisory!vars
  BY <1>12 DEF Advisory!vars
<1> QED
  BY <1>1, <1>2, <1>3, <1>4, <1>5, <1>6, <1>7, <1>8, <1>9, <1>10, <1>11, <1>12
     DEF Advisory!Next

LEMMA AdvisoryStepList ==
  AdvisoryInv /\ [Advisory!Next]_(Advisory!vars) => ListInv'
<1> SUFFICES ASSUME AdvisoryInv, [Advisory!Next]_(Advisory!vars)
             PROVE  ListInv'
  OBVIOUS
<1> USE AdvisoryPeriods DEF AdvisoryInv, AdvisoryTypes, ListInv, Listed, Recent,
                            Advisory!Idle
<1>1. CASE Advisory!Tick
  BY <1>1 DEF Advisory!Tick, Advisory!fetcher, Advisory!service
<1>2. CASE Advisory!NewSchedule
  BY <1>2 DEF Advisory!NewSchedule, Advisory!fetcher, Advisory!service
<1>3. CASE Advisory!RenderList
  BY <1>3 DEF Advisory!RenderList, Advisory!service
<1>4. CASE Advisory!ListFails
  BY <1>4 DEF Advisory!ListFails, Advisory!Slept, Advisory!service
<1>5. CASE Advisory!RenderDetail
  BY <1>5 DEF Advisory!RenderDetail, Advisory!service
<1>6. CASE Advisory!StoreList
  BY <1>6 DEF Advisory!StoreList, Advisory!service
<1>7. CASE Advisory!StoreDetails
  BY <1>7 DEF Advisory!StoreDetails, Advisory!Slept, Advisory!service
<1>8. CASE Advisory!RestartFetcher
  BY <1>8 DEF Advisory!RestartFetcher, Advisory!service
<1>9. CASE Advisory!UseCache
  BY <1>9 DEF Advisory!UseCache, Advisory!CacheFresh, Advisory!Publish,
              Advisory!fetcher
<1>10. CASE Advisory!ReadList
  BY <1>10 DEF Advisory!ReadList, Advisory!fetcher
(* An answer of nothing is a trouble of now; any other is what was read.   *)
<1>11. CASE Advisory!Answer
  <2>1. /\ cache'.at = now /\ due2' = now + Interval /\ now' = now
        /\ request' = Advisory!NoRequest
        /\ cycle' = cycle /\ wake' = wake /\ list' = list
        /\ trouble' \in {trouble, now}
        /\ trouble' = now \/ cache'.taken = request.taken
    BY <1>11 DEF Advisory!Answer, Advisory!Publish, Advisory!fetcher
  <2>2. request.reading
    BY <1>11 DEF Advisory!Answer
  <2>3. /\ now \in Nat /\ wake \in Nat /\ cycle.began \in Nat
        /\ trouble \in Nat /\ request.taken \in Nat /\ list.taken \in Nat
        /\ trouble' \in Nat /\ trouble <= trouble' /\ trouble' <= now
        /\ now <= trouble + Poll + CycleTime
             \/ now <= request.taken + 2 * CycleTime + Poll
        /\ cycle.phase = "idle" => Listed(wake)
        /\ cycle.phase = "details" => Listed(cycle.began)
    BY <2>1, <2>2
  <2> HIDE DEF AdvisoryInv, AdvisoryTypes, ListInv
  <2>4. Recent(cache.at, cache.taken)'
    <3>1. CASE trouble' = now
      BY <2>1, <2>3, <3>1
    <3>2. CASE trouble' = trouble /\ cache'.taken = request.taken
      BY <2>1, <2>3, <3>2
    <3> QED
      BY <2>1, <3>1, <3>2
  <2>5. cycle.phase = "idle" => Listed(wake)'
    <3> SUFFICES ASSUME cycle.phase = "idle" PROVE Listed(wake)'
      OBVIOUS
    <3>1. CASE wake <= trouble + Poll
      <4>1. wake <= trouble' + Poll
        BY <2>3, <3>1, LaterBounds
      <4> QED
        BY <2>1, <4>1
    <3>2. CASE wake <= list.taken + CycleTime + Poll
      BY <2>1, <2>3, <3>2
    <3> QED
      BY <2>3, <3>1, <3>2
  <2>6. cycle.phase = "details" => Listed(cycle.began)'
    BY <2>1, <2>3
  <2>7. cycle.phase = "files" => list.taken = cycle.began
    BY DEF AdvisoryInv, ListInv
  <2> HIDE DEF Listed, Recent
  <2>8. cache'.at # 0
    BY <2>1, <2>3 DEF AdvisoryInv, AdvisoryTypes
  <2>9. due2' <= cache'.at + Ttl + Interval
    BY <2>1, <2>3
  <2> QED
    BY <2>1, <2>4, <2>5, <2>6, <2>7, <2>8, <2>9 DEF ListInv, Advisory!NoRequest
<1>12. CASE UNCHANGED Advisory!vars
  BY <1>12 DEF Advisory!vars
<1> QED
  BY <1>1, <1>2, <1>3, <1>4, <1>5, <1>6, <1>7, <1>8, <1>9, <1>10, <1>11, <1>12
     DEF Advisory!Next

LEMMA AdvisoryStepDetails ==
  AdvisoryInv /\ [Advisory!Next]_(Advisory!vars) => DetailInv'
<1> SUFFICES ASSUME AdvisoryInv, [Advisory!Next]_(Advisory!vars)
             PROVE  DetailInv'
  OBVIOUS
<1> USE AdvisoryPeriods DEF AdvisoryInv, AdvisoryTypes, DetailInv, Unconfirmed,
                            Advisory!Idle
<1>1. CASE Advisory!Tick
  BY <1>1 DEF Advisory!Tick, Advisory!fetcher, Advisory!service
<1>2. CASE Advisory!NewSchedule
  BY <1>2 DEF Advisory!NewSchedule, Advisory!fetcher, Advisory!service
<1>3. CASE Advisory!RenderList
  <2>1. /\ cycle.phase = "idle" /\ now = wake
        /\ UNCHANGED <<now, wake, detail, trouble>>
        /\ cycle' = [phase |-> "details", began |-> now] /\ held' = {}
    BY <1>3 DEF Advisory!RenderList
  <2>1a. PICK paths :
           /\ paths \subseteq Details
           /\ due' = {d \in paths : ~Advisory!DetailIsFresh(d)}
           /\ missing' = [d \in Details |-> IF d \in DOMAIN detail \ paths
                                             THEN now ELSE missing[d]]
    BY <1>3 DEF Advisory!RenderList, Advisory!DetailPaths
  <2>2. due' \subseteq Details /\ missing' \in [Details -> Nat]
    BY <2>1, <2>1a
  <2>3. ASSUME NEW d \in DOMAIN detail
        PROVE  \/ missing'[d] >= now
               \/ now < detail[d] + DetailTtl
               \/ d \in due' /\ missing'[d] = missing[d]
    BY <2>1, <2>1a, <2>3 DEF Advisory!DetailIsFresh
  <2> QED
    BY <2>1, <2>2, <2>3
<1>4. CASE Advisory!ListFails
  BY <1>4 DEF Advisory!ListFails, Advisory!Slept, Advisory!service
<1>5. CASE Advisory!RenderDetail
  BY <1>5 DEF Advisory!RenderDetail, Advisory!service
<1>6. CASE Advisory!StoreList
  BY <1>6 DEF Advisory!StoreList, Advisory!service
<1>7. CASE Advisory!StoreDetails
  <2>1. /\ cycle.phase = "files" /\ cycle' = Advisory!Idle
        /\ now' = now /\ wake' = now + Poll /\ trouble' = trouble
        /\ detail' = [d \in DOMAIN detail \cup held |->
                        IF d \in held THEN now ELSE detail[d]]
    BY <1>7 DEF Advisory!StoreDetails, Advisory!Slept
  <2>2. DOMAIN detail' \subseteq Details
    BY <2>1 DEF AdvisoryTypes
  <2>3. \A d \in DOMAIN detail' :
          detail'[d] \in Nat /\ Unconfirmed(wake, d)'
    <3> TAKE d \in DOMAIN detail'
    <3>0. missing'[d] = missing[d] /\ missing[d] \in Nat /\ d \in Details
      BY <1>7, <2>1 DEF Advisory!StoreDetails
    <3>1. CASE d \in held
      BY <2>1, <3>0, <3>1
    <3>2. CASE d \notin held
      BY <2>1, <3>0, <3>2
    <3> QED
      BY <3>1, <3>2
  <2> HIDE DEF Unconfirmed
  <2>4. /\ due' \cup held' \subseteq Details /\ cycle'.phase = "idle"
        /\ missing' \in [Details -> Nat]
    BY <1>7, <2>1 DEF Advisory!StoreDetails
  <2> QED
    BY <2>2, <2>3, <2>4
<1>8. CASE Advisory!RestartFetcher
  BY <1>8 DEF Advisory!RestartFetcher, Advisory!service
<1>9. CASE Advisory!UseCache
  BY <1>9 DEF Advisory!UseCache, Advisory!fetcher
<1>10. CASE Advisory!ReadList
  BY <1>10 DEF Advisory!ReadList, Advisory!fetcher
<1>11. CASE Advisory!Answer
  <2>1. /\ now' = now /\ UNCHANGED Advisory!fetcher
        /\ trouble' \in {trouble, now}
    BY <1>11 DEF Advisory!Answer
  <2>2. trouble' \in Nat /\ trouble <= trouble' /\ trouble' <= now
    BY <2>1
  <2>3. /\ cycle' = cycle /\ detail' = detail /\ wake' = wake
        /\ due' = due /\ held' = held /\ missing' = missing
    BY <2>1 DEF Advisory!fetcher
  <2>4. cycle.began \in Nat /\ wake \in Nat /\ trouble \in Nat
    OBVIOUS
  <2>5. DetailInv
    OBVIOUS
  <2> HIDE DEF AdvisoryInv, AdvisoryTypes
  <2>6. ASSUME NEW d \in DOMAIN detail
        PROVE  /\ cycle.phase = "idle" => Unconfirmed(wake, d)'
               /\ cycle.phase # "idle" =>
                    \/ trouble' >= cycle.began \/ missing[d] >= cycle.began
                    \/ cycle.began < detail[d] + DetailTtl
                    \/ /\ d \in due \cup held
                       /\ Unconfirmed(cycle.began, d)'
    <3>1. /\ detail'[d] = detail[d] /\ detail[d] \in Nat
          /\ missing'[d] = missing[d] /\ missing[d] \in Nat
      BY <2>3, <2>5, <2>6
    <3>2. Unconfirmed(wake, d) => Unconfirmed(wake, d)'
      <4>1. Unconfirmed(wake, d) =>
              \/ wake' <= trouble' + CycleTime + Poll
              \/ wake' <= missing'[d] + CycleTime + Poll
              \/ wake' < detail'[d] + DetailTtl + Poll + CycleTime
        BY <2>2, <2>3, <2>4, <3>1, LaterBounds
      <4> QED
        BY <4>1
    <3>3. Unconfirmed(cycle.began, d) => Unconfirmed(cycle.began, d)'
      BY <2>2, <2>3, <2>4, <3>1
    <3> HIDE DEF Unconfirmed
    <3> QED
      BY <2>2, <2>3, <2>4, <2>5, <2>6, <3>2, <3>3
  <2> HIDE DEF Unconfirmed
  <2> QED
    BY <2>3, <2>5, <2>6
<1>12. CASE UNCHANGED Advisory!vars
  BY <1>12 DEF Advisory!vars
<1> QED
  BY <1>1, <1>2, <1>3, <1>4, <1>5, <1>6, <1>7, <1>8, <1>9, <1>10, <1>11, <1>12
     DEF Advisory!Next

LEMMA FeedIsAdvisories == FeedSpec => Advisory!Spec
<1>1. FeedInit => Advisory!Init
  BY DEF FeedInit
<1>2. [FeedNext]_<<part, vars, buildVars, advisoryVars, blobVars, validatorVars,
                   storeVars>> => [Advisory!Next]_(Advisory!vars)
  BY DEF FeedNext, DeliveryStep, BuildStep, AdvisoryStep, BlobStep, ValidatorStep,
         StoreStep, advisoryVars, Advisory!vars
<1> QED
  BY <1>1, <1>2, PTL DEF FeedSpec, Advisory!Spec

LEMMA AdvisoryAlways == FeedSpec => []AdvisoryInv
<1>1. AdvisoryInv /\ [Advisory!Next]_(Advisory!vars) => AdvisoryInv'
  BY AdvisoryStepTypes, AdvisoryStepList, AdvisoryStepDetails DEF AdvisoryInv
<1> QED
  BY FeedIsAdvisories, AdvisoryInit, <1>1, PTL DEF Advisory!Spec

(* For every value of the periods, a notice is published no longer after   *)
(* it was seen than two cycles, a sleep, a Ttl and an interval, if nothing *)
(* failed in that time (fetch_with_advisories, run_forever).               *)
THEOREM AdvisoriesAlwaysCurrent == FeedSpec => []AdvisoriesCurrent
<1>1. AdvisoryInv => AdvisoriesCurrent
  BY AdvisoryPeriods
     DEF AdvisoryInv, AdvisoryTypes, ListInv, Recent, AdvisoriesCurrent,
         Advisory!AdvisoriesCurrent
<1> QED
  BY AdvisoryAlways, <1>1, PTL

(* For every value of the periods, a detail page that is taken from every  *)
(* list lacks an answer only while it is due, and no longer than lag -     *)
(* DetailStale, unless something failed (update_detail, route).            *)
THEOREM DetailsAlwaysStay == FeedSpec => []DetailsStay
<1>1. AdvisoryInv => DetailsStay
  <2> DEFINE lag == DetailTtl + Poll + 2 * CycleTime
  <2> SUFFICES ASSUME AdvisoryInv, NEW d \in DOMAIN detail,
                      now - trouble > lag, now - missing[d] > lag
               PROVE  \/ now - detail[d] <= DetailStale
                      \/ ~(now - detail[d] < DetailTtl) /\ now - detail[d] < lag
    BY DEF DetailsStay, Advisory!DetailsStay, Advisory!DetailAnswered,
           Advisory!DetailIsFresh
  <2>1. DetailTtl <= DetailStale
    BY PartsAssumption DEF Advisory!AdvisoryConstants
  <2> USE AdvisoryPeriods DEF AdvisoryInv, AdvisoryTypes, DetailInv, Unconfirmed
  <2>2. detail[d] \in Nat /\ missing[d] \in Nat
    OBVIOUS
  <2>3. CASE cycle.phase = "idle"
    BY <2>1, <2>2, <2>3
  <2>4. CASE cycle.phase # "idle"
    BY <2>1, <2>2, <2>4
  <2> QED
    BY <2>3, <2>4
<1> QED
  BY AdvisoryAlways, <1>1, PTL

-----------------------------------------------------------------------------
(* Types                                                                   *)

LEMMA FeedIsDelivery == FeedSpec => Spec
<1>1. FeedInit => Init
  BY DEF FeedInit
<1>2. [FeedNext]_<<part, vars, buildVars, advisoryVars, blobVars, validatorVars,
                   storeVars>> => [Next]_vars
  BY DEF FeedNext, DeliveryStep, BuildStep, AdvisoryStep, BlobStep,
         ValidatorStep, StoreStep
<1> QED
  BY <1>1, <1>2, PTL DEF FeedSpec, Spec

(* The builder's invariants say all but the fields of what it makes.       *)
LEMMA BuildTypes == BuildInv => Build!TypeOK
<1> SUFFICES ASSUME BuildInv PROVE Build!TypeOK
  OBVIOUS
<1>1. DOMAIN products = DOMAIN Build!NoProducts
  BY DEF BuildInv, Sound, Build!NoProducts
<1> QED
  BY <1>1 DEF BuildInv, ScheduleInv, StampedInv, StageInv, Build!TypeOK

(* What the advisories' invariants leave open.                             *)
PagesInv ==
  /\ known \in Schedules
  /\ list.modified \in Nat /\ list.modified <= now
  /\ \A d \in DOMAIN detail : detail[d] <= now
  /\ \A d \in Details : missing[d] <= now
  /\ DOMAIN request = DOMAIN Advisory!NoRequest

LEMMA PagesInit == Advisory!Init => PagesInv
  BY DEF Advisory!Init, PagesInv, Advisory!NoList, Advisory!NoRequest

LEMMA PagesStep ==
  AdvisoryInv /\ PagesInv /\ [Advisory!Next]_(Advisory!vars) => PagesInv'
<1> SUFFICES ASSUME AdvisoryInv, PagesInv, [Advisory!Next]_(Advisory!vars)
             PROVE  PagesInv'
  OBVIOUS
<1> USE DEF PagesInv
<1>a. /\ now \in Nat
      /\ \A d \in DOMAIN detail : detail[d] \in Nat
      /\ \A d \in Details : missing[d] \in Nat
  BY DEF AdvisoryInv, AdvisoryTypes, DetailInv
<1>1. CASE Advisory!Tick
  BY <1>a, <1>1 DEF Advisory!Tick, Advisory!fetcher, Advisory!service
<1>2. CASE Advisory!NewSchedule
  BY <1>2 DEF Advisory!NewSchedule, Advisory!fetcher, Advisory!service
<1>3. CASE Advisory!RenderList
  BY <1>a, <1>3 DEF Advisory!RenderList, Advisory!service
<1>4. CASE Advisory!ListFails
  BY <1>4 DEF Advisory!ListFails, Advisory!service
<1>5. CASE Advisory!RenderDetail
  BY <1>5 DEF Advisory!RenderDetail, Advisory!service
<1>6. CASE Advisory!StoreList
  BY <1>a, <1>6 DEF Advisory!StoreList, Advisory!service
<1>7. CASE Advisory!StoreDetails
  BY <1>a, <1>7 DEF Advisory!StoreDetails, Advisory!service
<1>8. CASE Advisory!RestartFetcher
  BY <1>8 DEF Advisory!RestartFetcher, Advisory!service
<1>9. CASE Advisory!UseCache
  BY <1>9 DEF Advisory!UseCache, Advisory!fetcher
<1>10. CASE Advisory!ReadList
  BY <1>10 DEF Advisory!ReadList, Advisory!fetcher, Advisory!NoRequest
<1>11. CASE Advisory!Answer
  BY <1>11 DEF Advisory!Answer, Advisory!fetcher, Advisory!NoRequest
<1>12. CASE UNCHANGED Advisory!vars
  BY <1>12 DEF Advisory!vars
<1> QED
  BY <1>1, <1>2, <1>3, <1>4, <1>5, <1>6, <1>7, <1>8, <1>9, <1>10, <1>11, <1>12
     DEF Advisory!Next

LEMMA AdvisoryTypesKnown == AdvisoryInv /\ PagesInv => Advisory!TypeOK
<1> SUFFICES ASSUME AdvisoryInv, PagesInv PROVE Advisory!TypeOK
  OBVIOUS
<1>1. /\ now \in Nat /\ wake \in Nat /\ due2 \in Nat /\ trouble \in 0 .. now
      /\ cache.at \in 0 .. now /\ list.modified \in 0 .. now
  BY DEF AdvisoryInv, AdvisoryTypes, PagesInv
<1>2. cycle.phase \in {"idle", "details", "files"} /\ cycle.began \in 0 .. now
  BY DEF AdvisoryInv, AdvisoryTypes, Advisory!Idle
<1>3. due \subseteq Details /\ held \subseteq Details /\ DOMAIN detail \subseteq Details
  BY DEF AdvisoryInv, DetailInv
<1>4. \A d \in DOMAIN detail : detail[d] \in 0 .. now
  BY <1>1 DEF AdvisoryInv, DetailInv, PagesInv
<1>5. missing \in [Details -> 0 .. now]
  BY <1>1 DEF AdvisoryInv, DetailInv, PagesInv
<1> QED
  BY <1>1, <1>2, <1>3, <1>4, <1>5 DEF PagesInv, Advisory!TypeOK

(* A fetch's answer and result.                                            *)
AnswerInv ==
  /\ decision \in Validator!Decisions \cup {"none", "error"}
  /\ result \in Validator!Zips \cup {<<"none">>, <<"failed">>}

LEMMA AnswerStep ==
  ValidatorInv /\ AnswerInv /\ [Validator!Next]_(Validator!vars) => AnswerInv'
<1> SUFFICES ASSUME ValidatorInv, AnswerInv, [Validator!Next]_(Validator!vars)
             PROVE  AnswerInv'
  OBVIOUS
<1> USE DEF AnswerInv
<1>1. CASE Validator!Fetch
  BY <1>1 DEF Validator!Fetch
<1>2. CASE Validator!Augment
  BY <1>2 DEF Validator!Augment, Validator!NextTable
<1>3. CASE Validator!CacheHit
  BY <1>3 DEF Validator!CacheHit, Validator!Remembered
<1>4. CASE Validator!RunValidator
  BY <1>4 DEF Validator!RunValidator, Validator!Outcome, Validator!ReportOf,
              Validator!Decisions
<1>5. CASE Validator!StoreDecision \/ Validator!StoreFails \/ Validator!Prune
  BY <1>5 DEF Validator!StoreDecision, Validator!StoreFails, Validator!Prune
<1>6. CASE Validator!Accept
  <2>1. step # "idle"
    BY <1>6 DEF Validator!Accept
  <2> QED
    BY <1>6, <2>1, ZipInHand DEF Validator!Accept, ValidatorInv
<1>7. CASE Validator!Reject
  BY <1>7 DEF Validator!Reject, Validator!NextTable
<1>8. CASE Validator!Crash
  BY <1>8 DEF Validator!Crash
<1>9. CASE UNCHANGED Validator!vars
  BY <1>9 DEF Validator!vars
<1> QED
  BY <1>1, <1>2, <1>3, <1>4, <1>5, <1>6, <1>7, <1>8, <1>9 DEF Validator!Next

LEMMA ValidatorTypes == ValidatorInv /\ AnswerInv => Validator!TypeOK
<1> SUFFICES ASSUME ValidatorInv, AnswerInv PROVE Validator!TypeOK
  OBVIOUS
<1>1. \A i \in DOMAIN decisions :
        decisions[i].zip \in Validator!Zips
          /\ decisions[i].text \in Validator!Decisions \cup {"torn"}
  <2>1. decisions \in Seq(Entry)
    BY DEF ValidatorInv, TruthfulCache
  <2>2. \A i \in DOMAIN decisions : decisions[i] \in Entry
    BY <2>1
  <2> QED
    BY <2>2 DEF Entry
<1>2. Validator!Range(left) \subseteq Validator!Range(Tables) \cup {NoTable}
  BY DEF ValidatorInv, FetchInv, Validator!Range
<1> QED
  BY <1>1, <1>2 DEF ValidatorInv, FetchInv, AnswerInv, Validator!TypeOK

(* What the blobs' invariant leaves open.                                  *)
SpaceInv ==
  /\ DOMAIN dirs \subseteq Blobs!Gens /\ next \in 1 .. MaxGen + 1
  /\ blobs \subseteq Blobs!Zips /\ intern \subseteq Blobs!Zips
  /\ orphans \subseteq Blobs!Zips /\ refused \in 0 .. MaxRefused
  /\ current \in Blobs!Gens \cup {0}
  /\ pc \in {"idle", "prune", "budget", "gc", "space", "write", "commit", "down"}
  /\ \/ pc \in {"space", "write"}
     \/ pc \in {"prune", "budget", "gc"} /\ pass = "before"
     => next <= MaxGen
  /\ pass \in {"before", "after", "open"} /\ incoming \in Nat

LEMMA SnapshotZips ==
  ASSUME NEW s \in Snapshots, NEW n \in Blobs!Names
  PROVE  s[n] \in Blobs!Zips /\ Blobs!LengthOf(s[n]) \in Nat
<1>1. s \in [Blobs!Names -> Blobs!Zips] /\ Size \in [Blobs!Zips -> Nat]
  BY PartsAssumption DEF Blobs!BlobConstants
<1> QED
  BY <1>1 DEF Blobs!LengthOf

LEMMA HeldZips ==
  ASSUME DirInv, NEW g \in DOMAIN dirs
  PROVE  Blobs!Held(g) \subseteq Blobs!Zips
<1>1. dirs[g].zip \in Snapshots
  BY DEF DirInv, Directory
<1> QED
  BY <1>1, SnapshotZips DEF Blobs!Held

(* An estimate is a length.                                                *)
LEMMA EstimateNat ==
  ASSUME NEW s \in Snapshots PROVE Blobs!Estimate(s) \in Nat
<1>1. /\ Blobs!LengthOf(s["static"]) \in Nat /\ Blobs!LengthOf(s["official"]) \in Nat
      /\ Blobs!LengthOf(s["addon"]) \in Nat /\ Rest \in Nat
  BY SnapshotZips, PartsAssumption DEF Blobs!Names, Blobs!BlobConstants
<1> QED
  BY <1>1 DEF Blobs!Estimate

LEMMA SpaceInit == Blobs!Init => SpaceInv
<1> SUFFICES ASSUME Blobs!Init PROVE SpaceInv
  OBVIOUS
<1>1. MaxGen \in Nat /\ MaxRefused \in Nat
  BY PartsAssumption DEF Blobs!BlobConstants
<1>2. /\ dirs = << >> /\ blobs = {} /\ intern = {} /\ current = 0 /\ pc = "idle"
      /\ orphans = {} /\ refused = 0 /\ pass = "before" /\ incoming = 0 /\ next = 1
  BY DEF Blobs!Init
<1>3. DOMAIN dirs = {}
  BY <1>2
<1>4. 1 \in 1 .. MaxGen + 1 /\ 0 \in 0 .. MaxRefused
  BY <1>1
<1> HIDE DEF Blobs!Init
<1> QED
  BY <1>2, <1>3, <1>4 DEF SpaceInv

LEMMA SpaceStep ==
  BlobInv /\ SpaceInv /\ [Blobs!Next]_(Blobs!vars) => SpaceInv'
<1> SUFFICES ASSUME BlobInv, SpaceInv, [Blobs!Next]_(Blobs!vars) PROVE SpaceInv'
  OBVIOUS
<1> USE DEF SpaceInv, Blobs!Gens, Blobs!memory, Blobs!publication
<1>a. MaxGen \in Nat /\ MaxRefused \in Nat
  BY PartsAssumption DEF Blobs!BlobConstants
<1>b. /\ snapshot \in Snapshots /\ loaded \subseteq DOMAIN dirs
      /\ \A g \in DOMAIN dirs : Blobs!Held(g) \subseteq Blobs!Zips
  BY HeldZips DEF BlobInv, DirInv
<1>c. \A gens : gens \subseteq DOMAIN dirs => Blobs!HeldBy(gens) \subseteq Blobs!Zips
  BY <1>b DEF Blobs!HeldBy
<1>1. CASE Blobs!StartPublish
  <2>1. incoming' \in Nat
    BY <1>1, EstimateNat DEF Blobs!StartPublish
  <2> QED
    BY <1>a, <1>1, <2>1 DEF Blobs!StartPublish
<1>2. CASE Removing
  <2>1. DOMAIN dirs' \subseteq DOMAIN dirs /\ intern' \subseteq Blobs!Zips
        /\ orphans' \subseteq Blobs!Zips
    BY <1>b, <1>c, <1>2, RemovingShrinks DEF Shrinks, BlobInv
  <2>2. refused' \in 0 .. MaxRefused
    <3>1. \A g, gone : Blobs!DeleteFails(g, gone) => refused' \in 0 .. MaxRefused
      <4>1. refused \in 0 .. MaxRefused
        OBVIOUS
      <4>2. \A g, gone : Blobs!DeleteFails(g, gone)
                           => refused < MaxRefused /\ refused' = refused + 1
        BY ONLY DEF Blobs!DeleteFails
      <4>3. refused < MaxRefused /\ refused' = refused + 1 => refused' \in 0 .. MaxRefused
        BY ONLY <1>a, <4>1
      <4> QED
        BY <4>2, <4>3
    <3>2. refused' = refused \/ \E g, gone : Blobs!DeleteFails(g, gone)
      BY <1>2, RemovingSteps
    <3> QED
      BY <3>1, <3>2
  <2>3. /\ UNCHANGED <<blobs, pass, current, incoming, next>>
        /\ \/ pc \in {"prune", "budget"} /\ pc' \in {"budget", "gc"}
           \/ pc = "space" /\ pc' = "space"
           \/ pc' \in {"idle", "down"}
    BY <1>2, RemovingSteps
  <2> QED
    BY <2>1, <2>2, <2>3
<1>3. CASE Blobs!CollectBlobs
  BY <1>3 DEF Blobs!CollectBlobs
<1>4. CASE Blobs!CollectFails
  <2>1. /\ UNCHANGED <<dirs, refused, pass, current, incoming, next>>
        /\ blobs' \subseteq blobs /\ intern' \subseteq intern /\ orphans' \subseteq orphans
        /\ pc' \in {"idle", "down"}
    BY <1>4 DEF Blobs!CollectFails, Blobs!Abort
  <2> QED
    BY <2>1
<1>5. CASE Blobs!SpaceDone
  BY <1>5 DEF Blobs!SpaceDone
<1>6. CASE Blobs!Write
  <2>1. DOMAIN dirs' = DOMAIN dirs \cup {next} /\ next' = next + 1 /\ next <= MaxGen
    BY <1>6 DEF Blobs!Write
  <2>2. blobs' \subseteq Blobs!Zips
    BY <1>b, <1>6, SnapshotZips DEF Blobs!Write
  <2>3. UNCHANGED <<intern, orphans, refused, current, pass, incoming>> /\ pc' = "commit"
    BY <1>6 DEF Blobs!Write
  <2> QED
    BY <1>a, <2>1, <2>2, <2>3
<1>7. CASE Blobs!WriteFails
  <2>1. next' = next + 1 /\ next <= MaxGen
    BY <1>7 DEF Blobs!WriteFails
  <2>2. blobs' \subseteq Blobs!Zips
    BY <1>b, <1>7, SnapshotZips DEF Blobs!WriteFails
  <2>3. UNCHANGED <<dirs, intern, orphans, refused, current, pass, incoming>>
        /\ pc' = "idle"
    BY <1>7 DEF Blobs!WriteFails
  <2> QED
    BY <1>a, <2>1, <2>2, <2>3
<1>8. CASE Blobs!Commit
  <2>1. Blobs!new \in DOMAIN dirs
    BY <1>8 DEF Blobs!Commit, BlobInv, DirInv
  <2>2. intern' \subseteq Blobs!Zips /\ current' \in 1 .. MaxGen
    BY <1>b, <1>8, <2>1 DEF Blobs!Commit
  <2>3. UNCHANGED <<dirs, blobs, orphans, refused, next>> /\ pc' = "prune"
        /\ pass' = "after" /\ incoming' = 0
    BY <1>8 DEF Blobs!Commit
  <2> QED
    BY <2>2, <2>3
<1>9. CASE Blobs!CommitFails
  BY <1>9 DEF Blobs!CommitFails
<1>10. CASE Blobs!Crash
  BY <1>10 DEF Blobs!Crash
<1>11. CASE Blobs!Open
  <2>1. DOMAIN dirs' = DOMAIN dirs /\ loaded' \subseteq DOMAIN dirs
    BY <1>11, OpenKeeps DEF BlobInv
  <2>2. blobs' \subseteq Blobs!Zips /\ intern' \subseteq Blobs!Zips
    BY <1>c, <1>11, <2>1 DEF Blobs!Open
  <2>3. UNCHANGED <<orphans, refused, current, incoming, next>> /\ pc' = "prune"
        /\ pass' = "open"
    BY <1>11 DEF Blobs!Open
  <2> QED
    BY <2>1, <2>2, <2>3
<1>12. CASE UNCHANGED Blobs!vars
  BY <1>12 DEF Blobs!vars
<1> QED
  BY <1>1, <1>2, <1>3, <1>4, <1>5, <1>6, <1>7, <1>8, <1>9, <1>10, <1>11, <1>12
     DEF Blobs!Next, Removing

LEMMA BlobTypes == BlobInv /\ SpaceInv => Blobs!TypeOK
  BY DEF BlobInv, DirInv, Directory, SpaceInv, Blobs!TypeOK

(* What the store's invariant leaves open.                                 *)
OutcomeInv ==
  /\ marker \in Store!Gens \cup {0} /\ durableMarker \in Store!Gens \cup {0}
  /\ visibleNow \in Store!Gens \cup {0} /\ generations \subseteq Store!Gens
  /\ outcome \in {"none", "ok", "err"} /\ before \in Store!Gens \cup {0}
  /\ faults \in Nat

LEMMA OutcomeInit == Store!Init => OutcomeInv
  BY DEF Store!Init, Store!Null, OutcomeInv

LEMMA OutcomeStep ==
  StoreInv /\ OutcomeInv /\ [Store!Next]_(Store!vars) => OutcomeInv'
<1> SUFFICES ASSUME StoreInv, OutcomeInv, [Store!Next]_(Store!vars) PROVE OutcomeInv'
  OBVIOUS
<1>0. /\ StoreGens \in Nat /\ Store!Gens = 1 .. StoreGens
      /\ visible \in Store!Gens \cup {0} /\ nextGen \in Nat
  BY PartsAssumption DEF StoreInv, PlaceInv, Store!Gens
<1>1. CASE \/ Store!Restart \/ Store!BudgetMet \/ Store!SpaceDone \/ Store!OpenDone
           \/ Store!RemoveStaleTemps \/ Store!PruneDone \/ Store!WriteTemporary
           \/ Store!RenameGeneration \/ Store!SyncGenerations \/ Store!Tick
           \/ Store!Exhausted \/ UNCHANGED Store!vars
  <2>1. UNCHANGED <<marker, durableMarker, visibleNow, generations, outcome, before, faults>>
    BY <1>1 DEF Store!Restart, Store!BudgetMet, Store!SpaceDone, Store!OpenDone,
         Store!RemoveStaleTemps, Store!PruneDone, Store!WriteTemporary,
         Store!RenameGeneration, Store!SyncGenerations, Store!Tick, Store!Exhausted,
         Store!vars, Store!disk, Store!memory, Store!attempt, Store!control
  <2> QED
    BY <2>1 DEF OutcomeInv
<1>2. CASE Store!Select
  BY <1>2 DEF OutcomeInv, Store!Select, Store!Null, Store!disk, Store!attempt
<1>3. CASE Store!LoadSurvivors
  BY <1>3 DEF OutcomeInv, Store!LoadSurvivors, Store!Complete, Store!disk, Store!attempt
<1>4. CASE \E g \in Store!Gens : Store!DeleteSuperseded(g) \/ Store!DeleteOverBudget(g)
                                 \/ Store!FreeSpace(g)
  <2>1. PICK g \in Store!Gens : Store!Delete(g)
    BY <1>4 DEF Store!DeleteSuperseded, Store!DeleteOverBudget, Store!FreeSpace
  <2> QED
    BY <2>1 DEF OutcomeInv, Store!Delete, Store!attempt
<1>5. CASE Store!RenameMarker \/ Store!LoadNew \/ Store!Swap
  <2>1. nextGen = visible + 2 /\ nextGen <= StoreGens + 1
    BY <1>5 DEF Store!RenameMarker, Store!LoadNew, Store!Swap, StoreInv, PlaceInv,
                Publishing, Renamed
  <2>2. Store!new \in Store!Gens
    BY <1>0, <2>1 DEF Store!new
  <2>3. CASE Store!RenameMarker
    BY <2>2, <2>3 DEF OutcomeInv, Store!RenameMarker, Store!memory, Store!attempt
  <2>4. CASE Store!LoadNew
    BY <2>2, <2>4 DEF OutcomeInv, Store!LoadNew, Store!disk, Store!attempt
  <2>5. CASE Store!Swap
    BY <2>2, <2>5 DEF OutcomeInv, Store!Swap, Store!disk, Store!attempt
  <2> QED
    BY <1>5, <2>3, <2>4, <2>5
<1>6. CASE Store!SyncMarker
  BY <1>6 DEF OutcomeInv, Store!SyncMarker, Store!memory, Store!attempt
<1>7. CASE Store!PublishDone \/ Store!StartPublish
  BY <1>7 DEF OutcomeInv, Store!PublishDone, Store!StartPublish, Store!disk, Store!memory
<1>8. CASE Store!Kill \/ Store!PowerLoss
  <2>1. /\ visibleNow' = 0 /\ generations' = {} /\ outcome' = "none" /\ before' = before
        /\ faults' = faults + 1
        /\ marker' \in {marker, durableMarker}
        /\ durableMarker' \in {marker, durableMarker, marker'}
    BY <1>8 DEF Store!Kill, Store!PowerLoss, Store!Down, Store!Fault, Store!Null
  <2> QED
    BY <2>1 DEF OutcomeInv
<1> QED
  BY <1>1, <1>2, <1>3, <1>4, <1>5, <1>6, <1>7, <1>8, NoFault
     DEF Store!Next, Store!Step

LEMMA StoreTypes == StoreInv /\ OutcomeInv => Store!TypeOK
<1> SUFFICES ASSUME StoreInv, OutcomeInv PROVE Store!TypeOK
  OBVIOUS
<1>1. StoreGens \in Nat /\ Store!Gens = 1 .. StoreGens
  BY PartsAssumption DEF Store!Gens
<1>2. nextGen \in 1 .. StoreGens + 1 /\ visible \in Store!Gens \cup {0}
  BY <1>1 DEF StoreInv, PlaceInv
<1>3. /\ place \in {"down", "idle"} \cup Store!Opening \cup Store!Passes \cup Store!Writing
      /\ phase \in {"none", "recover", "reopen", "pre", "post"}
  BY DEF StoreInv, PlaceInv, Store!Opening
<1>4. /\ storeNow \in Nat
      /\ written \in [Store!Gens -> Nat] /\ lastSeen \in [Store!Gens -> Int]
      /\ dir \in [Store!Gens -> Store!DirState] /\ todo \subseteq Store!Gens
      /\ durableDir \in [Store!Gens -> Store!DirState]
  BY DEF StoreInv, TimesInv, DiskInv
<1> QED
  BY <1>2, <1>3, <1>4 DEF OutcomeInv, Store!TypeOK, Store!Null

(* Each part's variables keep their types for every value of its constants.*)
THEOREM FeedTypeCorrect == FeedSpec => []TypesOK
<1>1. FeedSpec => []TypeOK
  BY FeedIsDelivery, TypeCorrect, PTL
<1>2. FeedSpec => [](Build!TypeOK)
  BY BuildAlways, BuildTypes, PTL
<1>3. FeedSpec => [](Advisory!TypeOK)
  <2>1. FeedSpec => []PagesInv
    BY FeedIsAdvisories, AdvisoryAlways, PagesInit, PagesStep, PTL DEF Advisory!Spec
  <2> QED
    BY <2>1, AdvisoryAlways, AdvisoryTypesKnown, PTL
<1>4. FeedSpec => [](Blobs!TypeOK)
  <2>1. BlobInv /\ [Blobs!Next]_(Blobs!vars) => BlobInv'
    BY BlobStepDirs, BlobStepIntern DEF BlobInv
  <2>2. FeedSpec => [](BlobInv /\ SpaceInv)
    BY FeedIsBlobs, BlobInit, SpaceInit, <2>1, SpaceStep, PTL DEF Blobs!Spec
  <2> QED
    BY <2>2, BlobTypes, PTL
<1>5. FeedSpec => [](Validator!TypeOK)
  <2>1. Validator!Init => AnswerInv
    BY DEF Validator!Init, AnswerInv
  <2>2. FeedSpec => [](ValidatorInv /\ AnswerInv)
    BY FeedIsValidator, ValidatorAlways, <2>1, AnswerStep, PTL DEF Validator!Spec
  <2> QED
    BY <2>2, ValidatorTypes, PTL
<1>6. FeedSpec => [](Store!TypeOK)
  <2>1. StoreInv /\ [Store!Next]_(Store!vars) => StoreInv'
    BY StoreTimes, StorePlace, StoreDisk DEF StoreInv
  <2>2. FeedSpec => [](StoreInv /\ OutcomeInv)
    BY FeedIsStore, StoreInit, OutcomeInit, <2>1, OutcomeStep, PTL DEF Store!Spec
  <2> QED
    BY <2>2, StoreTypes, PTL
<1> QED
  BY <1>1, <1>2, <1>3, <1>4, <1>5, <1>6, PTL DEF TypesOK

-----------------------------------------------------------------------------
(* Sums of lengths                                                         *)

(* A function that adds up f over each part of S, element by element.      *)
Sums(sum, f, S) ==
  sum = [s \in SUBSET S |->
           IF s = {} THEN 0
           ELSE LET x == CHOOSE y \in s : TRUE IN f[x] + sum[s \ {x}]]

Total(f, S) == (CHOOSE sum : Sums(sum, f, S))[S]

(* The same for the parts of at most n elements.                           *)
SumsUpTo(sum, f, S, n) ==
  sum = [s \in {t \in SUBSET S : Cardinality(t) <= n} |->
           IF s = {} THEN 0
           ELSE LET x == CHOOSE y \in s : TRUE IN f[x] + sum[s \ {x}]]

(* Of finite sets some has the fewest elements.                            *)
LEMMA FewestOf ==
  ASSUME NEW P, P # {}, \A T \in P : IsFiniteSet(T)
  PROVE  \E T \in P : \A U \in P : Cardinality(T) <= Cardinality(U)
<1> DEFINE sizes == {n \in Nat : \E T \in P : Cardinality(T) = n}
<1>1. \A T \in P : Cardinality(T) \in sizes
  BY FS_CardinalityType
<1>2. sizes \in SUBSET Nat /\ sizes # {}
  BY <1>1
<1> HIDE DEF sizes
<1>3. PICK m \in sizes : \A n \in sizes : m <= n
  BY <1>2, LeastOf
<1>4. PICK T \in P : Cardinality(T) = m
  BY <1>3 DEF sizes
<1> QED
  BY <1>1, <1>3, <1>4

LEMMA ElementRemoved ==
  ASSUME NEW s, IsFiniteSet(s), NEW x \in s
  PROVE  /\ IsFiniteSet(s \ {x}) /\ Cardinality(s \ {x}) = Cardinality(s) - 1
         /\ Cardinality(s) \in Nat /\ Cardinality(s \ {x}) \in Nat
  BY FS_RemoveElement, FS_CardinalityType

LEMMA SumsUpToThere ==
  ASSUME NEW S, IsFiniteSet(S), NEW f, NEW n \in Nat
  PROVE  \E sum : SumsUpTo(sum, f, S, n)
<1> DEFINE bad == {m \in Nat : ~ \E sum : SumsUpTo(sum, f, S, m)}
<1> SUFFICES ASSUME bad # {} PROVE FALSE
  OBVIOUS
<1>1. PICK m \in bad : \A k \in bad : m <= k
  BY LeastOf
<1>2. m \in Nat /\ ~ \E sum : SumsUpTo(sum, f, S, m)
  OBVIOUS
<1>3. \A t \in SUBSET S : IsFiniteSet(t) /\ Cardinality(t) \in Nat
  BY FS_Subset, FS_CardinalityType
<1> DEFINE parts(k) == {t \in SUBSET S : Cardinality(t) <= k}
<1>4. CASE m = 0
  <2> DEFINE g == [s \in parts(0) |-> 0]
  <2>1. \A s \in parts(0) : s = {}
    BY <1>3, FS_EmptySet
  <2>2. g = [s \in parts(0) |->
               IF s = {} THEN 0
               ELSE LET x == CHOOSE y \in s : TRUE IN f[x] + g[s \ {x}]]
    BY <2>1
  <2> HIDE DEF g
  <2>3. SumsUpTo(g, f, S, 0)
    BY <2>2 DEF SumsUpTo
  <2> QED
    BY <1>2, <1>4, <2>3
<1>5. CASE m # 0
  <2>1. m - 1 \in Nat /\ m - 1 \notin bad
    BY <1>1, <1>2, <1>5
  <2>2. PICK h : SumsUpTo(h, f, S, m - 1)
    BY <2>1
  <2> DEFINE pick(s) == CHOOSE y \in s : TRUE
             add(s, k) == IF s = {} THEN 0 ELSE f[pick(s)] + k[s \ {pick(s)}]
             g == [s \in parts(m) |-> IF Cardinality(s) <= m - 1 THEN h[s] ELSE add(s, h)]
  <2>3. h = [s \in parts(m - 1) |-> add(s, h)]
    BY <2>2 DEF SumsUpTo
  <2>4. \A s \in parts(m - 1) : s \in parts(m) /\ g[s] = h[s]
    BY <1>2, <1>3
  <2>5. ASSUME NEW s \in parts(m), s # {}
        PROVE  s \ {pick(s)} \in parts(m - 1)
    <3>1. pick(s) \in s
      BY <2>5
    <3> HIDE DEF pick
    <3>2. Cardinality(s \ {pick(s)}) = Cardinality(s) - 1 /\ Cardinality(s) \in Nat
      BY <1>3, <3>1, ElementRemoved
    <3> QED
      BY <1>2, <3>2
  <2>6. ASSUME NEW s \in parts(m) PROVE g[s] = add(s, g)
    <3>1. add(s, g) = add(s, h)
      <4>1. CASE s = {}
        BY <4>1
      <4>2. CASE s # {}
        <5>1. g[s \ {pick(s)}] = h[s \ {pick(s)}]
          BY <2>4, <2>5, <4>2
        <5> HIDE DEF g, pick
        <5> QED
          BY <4>2, <5>1
      <4> QED
        BY <4>1, <4>2
    <3>2. g[s] = add(s, h)
      <4>1. CASE Cardinality(s) <= m - 1
        <5>1. s \in parts(m - 1)
          BY <4>1
        <5>2. g[s] = h[s] /\ h[s] = add(s, h)
          <6> HIDE DEF g, add
          <6> QED
            BY <2>3, <2>4, <5>1
        <5> QED
          BY <5>2
      <4>2. CASE ~(Cardinality(s) <= m - 1)
        BY <4>2
      <4> QED
        BY <4>1, <4>2
    <3> HIDE DEF g, add
    <3> QED
      BY <3>1, <3>2
  <2>7. g = [s \in parts(m) |-> g[s]]
    OBVIOUS
  <2>8. g = [s \in parts(m) |-> add(s, g)]
    <3> HIDE DEF g, add, parts
    <3> QED
      BY <2>6, <2>7
  <2> HIDE DEF g
  <2>9. SumsUpTo(g, f, S, m)
    BY <2>8 DEF SumsUpTo
  <2> QED
    BY <1>2, <2>9
<1> QED
  BY <1>4, <1>5

LEMMA SumsThere ==
  ASSUME NEW S, IsFiniteSet(S), NEW f
  PROVE  Sums(CHOOSE sum : Sums(sum, f, S), f, S)
<1>1. Cardinality(S) \in Nat /\ \A t \in SUBSET S : Cardinality(t) <= Cardinality(S)
  BY FS_Subset, FS_CardinalityType
<1>2. PICK sum : SumsUpTo(sum, f, S, Cardinality(S))
  BY <1>1, SumsUpToThere
<1>3. SUBSET S = {t \in SUBSET S : Cardinality(t) <= Cardinality(S)}
  BY <1>1
<1>4. Sums(sum, f, S)
  BY <1>2, <1>3 DEF Sums, SumsUpTo
<1> QED
  BY <1>4

(* Any element may be the last to be added.                                *)
LEMMA SumRemove ==
  ASSUME NEW S, IsFiniteSet(S), NEW f, \A x \in S : f[x] \in Nat,
         NEW sum, Sums(sum, f, S)
  PROVE  \A s \in SUBSET S :
           sum[s] \in Nat /\ \A x \in s : sum[s] = f[x] + sum[s \ {x}]
<1> DEFINE good(s) == sum[s] \in Nat /\ \A x \in s : sum[s] = f[x] + sum[s \ {x}]
           bad == {s \in SUBSET S : ~good(s)}
<1> SUFFICES ASSUME bad # {} PROVE FALSE
  OBVIOUS
<1>1. \A s \in SUBSET S : IsFiniteSet(s)
  BY FS_Subset
<1>2. PICK s \in bad : \A t \in bad : Cardinality(s) <= Cardinality(t)
  <2>1. \A s \in bad : IsFiniteSet(s)
    BY <1>1
  <2> HIDE DEF bad
  <2> QED
    BY <2>1, FewestOf
<1>3. s \in SUBSET S /\ ~good(s)
  OBVIOUS
<1>4. ASSUME NEW x \in s PROVE s \ {x} \in SUBSET S /\ good(s \ {x})
  <2>1. s \ {x} \in SUBSET S /\ Cardinality(s \ {x}) = Cardinality(s) - 1
        /\ Cardinality(s) \in Nat
    BY <1>1, <1>3, ElementRemoved
  <2>2. s \ {x} \notin bad
    <3> HIDE DEF bad
    <3> QED
      BY <1>2, <2>1
  <2> QED
    BY <2>1, <2>2
<1>5. s # {}
  <2>1. s = {} => sum[s] = 0
    BY <1>3 DEF Sums
  <2> QED
    BY <1>3, <2>1
<1> DEFINE c == CHOOSE y \in s : TRUE
<1>6. c \in s /\ sum[s] = f[c] + sum[s \ {c}]
  BY <1>3, <1>5 DEF Sums
<1> HIDE DEF c
<1>7. sum[s \ {c}] \in Nat /\ f[c] \in Nat /\ sum[s] \in Nat
  <2>1. good(s \ {c})
    BY <1>4, <1>6
  <2>2. sum[s \ {c}] \in Nat
    BY <2>1
  <2>3. f[c] \in Nat
    BY <1>3, <1>6
  <2> HIDE DEF bad, good
  <2> QED
    BY <1>6, <2>2, <2>3
<1>8. ASSUME NEW x \in s PROVE sum[s] = f[x] + sum[s \ {x}]
  <2>1. CASE x = c
    BY <1>6, <2>1
  <2>2. CASE x # c
    <3>1. (s \ {x}) \ {c} = (s \ {c}) \ {x}
      OBVIOUS
    <3>2. sum[s \ {c}] = f[x] + sum[(s \ {c}) \ {x}]
      BY <1>4, <1>6, <2>2
    <3>3. sum[s \ {x}] = f[c] + sum[(s \ {c}) \ {x}]
      <4>1. sum[s \ {x}] = f[c] + sum[(s \ {x}) \ {c}]
        BY <1>4, <1>6, <2>2
      <4> QED
        BY <3>1, <4>1
    <3>4. f[x] \in Nat /\ sum[(s \ {c}) \ {x}] \in Nat
      <4>1. sum[s \ {x}] \in Nat /\ f[x] \in Nat
        BY <1>3, <1>4
      <4>2. (s \ {x}) \ {c} \in SUBSET S /\ good(s \ {c}) /\ x \in s \ {c}
        BY <1>3, <1>4, <1>6, <2>2
      <4>3. (s \ {x}) \ {c} \notin bad
        <5>1. /\ Cardinality((s \ {x}) \ {c}) = Cardinality(s) - 2
              /\ Cardinality(s) \in Nat
          <6>1. IsFiniteSet(s) /\ c \in s \ {x}
            BY <1>1, <1>3, <1>6, <2>2
          <6>2. IsFiniteSet(s \ {x}) /\ Cardinality(s \ {x}) = Cardinality(s) - 1
                /\ Cardinality(s) \in Nat
            BY <6>1, ElementRemoved
          <6>3. Cardinality((s \ {x}) \ {c}) = Cardinality(s \ {x}) - 1
            BY <6>1, <6>2, ElementRemoved
          <6> QED
            BY <6>2, <6>3
        <5> HIDE DEF bad
        <5> QED
          BY <1>2, <5>1
      <4> QED
        BY <3>1, <4>1, <4>2, <4>3
    <3> HIDE DEF bad, good
    <3> QED
      BY <1>6, <1>7, <3>2, <3>3, <3>4
  <2> QED
    BY <2>1, <2>2
<1> QED
  BY <1>3, <1>7, <1>8

(* Sums of the same numbers are the same.                                  *)
LEMMA SumSame ==
  ASSUME NEW S, IsFiniteSet(S), NEW f, \A x \in S : f[x] \in Nat,
         NEW T \in SUBSET S, NEW g, \A x \in T : g[x] = f[x],
         NEW sum, Sums(sum, f, S), NEW sumT, Sums(sumT, g, T)
  PROVE  \A s \in SUBSET T : sumT[s] = sum[s]
<1> DEFINE bad == {s \in SUBSET T : sumT[s] # sum[s]}
<1> SUFFICES ASSUME bad # {} PROVE FALSE
  OBVIOUS
<1>1. \A s \in SUBSET T : IsFiniteSet(s)
  BY FS_Subset
<1>2. PICK s \in bad : \A t \in bad : Cardinality(s) <= Cardinality(t)
  <2>1. \A s \in bad : IsFiniteSet(s)
    BY <1>1
  <2> HIDE DEF bad
  <2> QED
    BY <2>1, FewestOf
<1>3. s \in SUBSET T /\ s \in SUBSET S /\ sumT[s] # sum[s]
  OBVIOUS
<1>4. CASE s = {}
  <2>1. sumT[s] = 0 /\ sum[s] = 0
    BY <1>3, <1>4 DEF Sums
  <2> QED
    BY <1>3, <2>1
<1>5. CASE s # {}
  <2> DEFINE c == CHOOSE y \in s : TRUE
  <2>1. c \in s /\ sum[s] = f[c] + sum[s \ {c}] /\ sumT[s] = g[c] + sumT[s \ {c}]
    BY <1>3, <1>5 DEF Sums
  <2> HIDE DEF c
  <2>2. Cardinality(s \ {c}) = Cardinality(s) - 1 /\ Cardinality(s) \in Nat
    BY <1>1, <1>3, <2>1, ElementRemoved
  <2>3. s \ {c} \notin bad
    <3> HIDE DEF bad
    <3> QED
      BY <1>2, <2>2
  <2>4. sumT[s \ {c}] = sum[s \ {c}]
    BY <1>3, <2>3
  <2> QED
    BY <1>3, <2>1, <2>4
<1> QED
  BY <1>4, <1>5

LEMMA TotalIs ==
  ASSUME NEW S, IsFiniteSet(S), NEW f, \A x \in S : f[x] \in Nat,
         NEW sum, Sums(sum, f, S), NEW T \in SUBSET S
  PROVE  Total(f, T) = sum[T]
<1>1. IsFiniteSet(T)
  BY FS_Subset
<1>2. Sums(CHOOSE h : Sums(h, f, T), f, T)
  BY <1>1, SumsThere
<1> DEFINE h == CHOOSE h : Sums(h, f, T)
<1>3. Sums(h, f, T) /\ Total(f, T) = h[T]
  BY <1>2 DEF Total
<1> HIDE DEF h
<1> QED
  BY <1>3, SumSame

LEMMA TotalRemove ==
  ASSUME NEW S, IsFiniteSet(S), NEW f, \A x \in S : f[x] \in Nat
  PROVE  /\ Total(f, S) \in Nat /\ (S = {} => Total(f, S) = 0)
         /\ \A x \in S : Total(f, S) = f[x] + Total(f, S \ {x})
<1> DEFINE sum == CHOOSE h : Sums(h, f, S)
<1>1. Sums(sum, f, S)
  BY SumsThere
<1> HIDE DEF sum
<1>2. \A T \in SUBSET S : Total(f, T) = sum[T]
  BY <1>1, TotalIs
<1>3. sum[S] \in Nat /\ \A x \in S : sum[S] = f[x] + sum[S \ {x}]
  <2>1. \A s \in SUBSET S :
          sum[s] \in Nat /\ \A x \in s : sum[s] = f[x] + sum[s \ {x}]
    BY <1>1, SumRemove
  <2>2. S \in SUBSET S
    OBVIOUS
  <2> QED
    BY <2>1, <2>2
<1>4. S = {} => sum[S] = 0
  BY <1>1 DEF Sums
<1> QED
  BY <1>2, <1>3, <1>4

LEMMA TotalSame ==
  ASSUME NEW S, IsFiniteSet(S), NEW f, \A x \in S : f[x] \in Nat,
         NEW g, \A x \in S : g[x] = f[x]
  PROVE  Total(g, S) = Total(f, S)
<1> DEFINE sum == CHOOSE h : Sums(h, f, S)
           sumG == CHOOSE h : Sums(h, g, S)
<1>1. Sums(sum, f, S) /\ Sums(sumG, g, S) /\ Total(f, S) = sum[S] /\ Total(g, S) = sumG[S]
  BY SumsThere DEF Total
<1> HIDE DEF sum, sumG
<1> QED
  BY <1>1, SumSame

(* A part adds up to no more than the whole.                               *)
LEMMA TotalPart ==
  ASSUME NEW S, IsFiniteSet(S), NEW f, \A x \in S : f[x] \in Nat, NEW T \in SUBSET S
  PROVE  Total(f, T) <= Total(f, S)
<1> DEFINE bad == {U \in SUBSET S : T \subseteq U /\ ~(Total(f, T) <= Total(f, U))}
<1> SUFFICES ASSUME bad # {} PROVE FALSE
  OBVIOUS
<1>1. \A U \in SUBSET S : IsFiniteSet(U)
  BY FS_Subset
<1>2. PICK U \in bad : \A V \in bad : Cardinality(U) <= Cardinality(V)
  <2>1. \A V \in bad : IsFiniteSet(V)
    BY <1>1
  <2> HIDE DEF bad
  <2> QED
    BY <2>1, FewestOf
<1>3. U \in SUBSET S /\ T \subseteq U /\ ~(Total(f, T) <= Total(f, U))
  OBVIOUS
<1>4. \A V \in SUBSET S : Total(f, V) \in Nat
  BY <1>1, TotalRemove
<1>5. PICK x \in U : x \notin T
  <2>1. U # T
    BY <1>3, <1>4
  <2> QED
    BY <1>3, <2>1
<1>6. U \ {x} \notin bad
  <2>1. Cardinality(U \ {x}) = Cardinality(U) - 1 /\ Cardinality(U) \in Nat
    BY <1>1, <1>3, ElementRemoved
  <2> HIDE DEF bad
  <2> QED
    BY <1>2, <2>1
<1>7. Total(f, T) <= Total(f, U \ {x})
  BY <1>3, <1>5, <1>6
<1>8. Total(f, U) = f[x] + Total(f, U \ {x}) /\ f[x] \in Nat
  BY <1>1, <1>3, TotalRemove
<1> QED
  BY <1>3, <1>4, <1>7, <1>8

(* Adding up two functions is adding up their sum.                         *)
LEMMA TotalAdds ==
  ASSUME NEW S, IsFiniteSet(S), NEW f, \A x \in S : f[x] \in Nat,
         NEW g, \A x \in S : g[x] \in Nat, NEW h, \A x \in S : h[x] = f[x] + g[x]
  PROVE  Total(h, S) = Total(f, S) + Total(g, S)
<1> DEFINE bad == {U \in SUBSET S : Total(h, U) # Total(f, U) + Total(g, U)}
<1> SUFFICES ASSUME bad # {} PROVE FALSE
  OBVIOUS
<1>1. \A U \in SUBSET S : IsFiniteSet(U)
  BY FS_Subset
<1>2. PICK U \in bad : \A V \in bad : Cardinality(U) <= Cardinality(V)
  <2>1. \A V \in bad : IsFiniteSet(V)
    BY <1>1
  <2> HIDE DEF bad
  <2> QED
    BY <2>1, FewestOf
<1>3. U \in SUBSET S /\ IsFiniteSet(U) /\ Total(h, U) # Total(f, U) + Total(g, U)
  BY <1>1
<1>4. \A x \in S : h[x] \in Nat
  OBVIOUS
<1>5. CASE U = {}
  <2>1. Total(f, U) = 0 /\ Total(g, U) = 0 /\ Total(h, U) = 0
    BY <1>3, <1>4, <1>5, TotalRemove
  <2> QED
    BY <1>3, <2>1
<1>6. CASE U # {}
  <2>1. PICK x \in U : TRUE
    BY <1>6
  <2>2. Cardinality(U \ {x}) = Cardinality(U) - 1 /\ Cardinality(U) \in Nat
    BY <1>3, ElementRemoved
  <2>3. U \ {x} \notin bad
    <3> HIDE DEF bad
    <3> QED
      BY <1>2, <2>2
  <2>4. Total(h, U \ {x}) = Total(f, U \ {x}) + Total(g, U \ {x})
    BY <1>3, <2>3
  <2>5. /\ Total(f, U) = f[x] + Total(f, U \ {x})
        /\ Total(g, U) = g[x] + Total(g, U \ {x})
        /\ Total(h, U) = h[x] + Total(h, U \ {x})
    BY <1>3, <1>4, TotalRemove
  <2>6. Total(f, U \ {x}) \in Nat /\ Total(g, U \ {x}) \in Nat
    <3>1. U \ {x} \subseteq S /\ IsFiniteSet(U \ {x})
      BY <1>1, <1>3
    <3> QED
      BY <3>1, TotalRemove
  <2>7. f[x] \in Nat /\ g[x] \in Nat /\ h[x] = f[x] + g[x]
    BY <1>3
  <2> QED
    BY <1>3, <2>4, <2>5, <2>6, <2>7
<1> QED
  BY <1>5, <1>6

(* What is in both parts is added up once.                                 *)
LEMMA TotalUnion ==
  ASSUME NEW A, NEW B, IsFiniteSet(A), IsFiniteSet(B),
         NEW f, \A x \in A \cup B : f[x] \in Nat
  PROVE  Total(f, A \cup B) <= Total(f, A) + Total(f, B)
<1> DEFINE good(T) == Total(f, A \cup T) <= Total(f, A) + Total(f, T)
           bad == {T \in SUBSET B : ~good(T)}
<1> SUFFICES ASSUME bad # {} PROVE FALSE
  OBVIOUS
<1>1. \A T \in SUBSET B : IsFiniteSet(T) /\ IsFiniteSet(A \cup T)
  BY FS_Subset, FS_Union
<1>2. PICK T \in bad : \A V \in bad : Cardinality(T) <= Cardinality(V)
  <2>1. \A V \in bad : IsFiniteSet(V)
    BY <1>1
  <2> HIDE DEF bad
  <2> QED
    BY <2>1, FewestOf
<1>3. T \in SUBSET B /\ IsFiniteSet(T) /\ ~good(T)
  BY <1>1
<1>4. \A V \in SUBSET B :
        Total(f, A) \in Nat /\ Total(f, V) \in Nat /\ Total(f, A \cup V) \in Nat
  BY <1>1, TotalRemove
<1>5. CASE T = {}
  <2>1. Total(f, A \cup T) = Total(f, A)
    <3>1. A \cup T = A
      BY <1>5
    <3> QED
      BY <3>1
  <2>2. Total(f, T) = 0
    BY <1>3, <1>5, TotalRemove
  <2>3. Total(f, A) \in Nat
    BY <1>3, <1>4
  <2> QED
    BY <1>3, <2>1, <2>2, <2>3
<1>6. CASE T # {}
  <2>1. PICK x \in T : TRUE
    BY <1>6
  <2>2. Cardinality(T \ {x}) = Cardinality(T) - 1 /\ Cardinality(T) \in Nat
    BY <1>3, ElementRemoved
  <2>3. T \ {x} \notin bad
    <3> HIDE DEF bad
    <3> QED
      BY <1>2, <2>2
  <2>4. good(T \ {x}) /\ T \ {x} \in SUBSET B
    BY <1>3, <2>3
  <2>5. Total(f, T) = f[x] + Total(f, T \ {x}) /\ f[x] \in Nat
    BY <1>3, TotalRemove
  <2>6. Total(f, A \cup T) <= f[x] + Total(f, A \cup (T \ {x}))
    <3>1. CASE x \in A
      <4>1. A \cup T = A \cup (T \ {x})
        BY <3>1
      <4>2. Total(f, A \cup T) = Total(f, A \cup (T \ {x}))
        BY <4>1
      <4>3. Total(f, A \cup (T \ {x})) \in Nat
        BY <1>4, <2>4
      <4> HIDE DEF bad, good
      <4> QED
        BY <2>5, <4>2, <4>3
    <3>2. CASE x \notin A
      <4>1. (A \cup T) \ {x} = A \cup (T \ {x}) /\ x \in A \cup T
        BY <3>2
      <4>2. IsFiniteSet(A \cup T) /\ \A y \in A \cup T : f[y] \in Nat
        BY <1>1, <1>3
      <4>3. Total(f, A \cup T) = f[x] + Total(f, (A \cup T) \ {x})
        BY <4>1, <4>2, TotalRemove
      <4> QED
        BY <1>4, <2>4, <2>5, <4>1, <4>3
    <3> QED
      BY <3>1, <3>2
  <2>7. Total(f, A \cup (T \ {x})) <= Total(f, A) + Total(f, T \ {x})
    BY <2>4
  <2>8. /\ Total(f, A) \in Nat /\ Total(f, T) \in Nat /\ Total(f, A \cup T) \in Nat
        /\ Total(f, T \ {x}) \in Nat /\ Total(f, A \cup (T \ {x})) \in Nat
    BY <1>3, <1>4, <2>4
  <2>9. Total(f, A \cup T) <= Total(f, A) + Total(f, T)
    <3> HIDE DEF bad, good
    <3> QED
      BY <2>5, <2>6, <2>7, <2>8
  <2> QED
    BY <1>3, <2>9
<1> QED
  BY <1>5, <1>6

-----------------------------------------------------------------------------
(* The budget                                                              *)

(* What is linked has a blob, and there are finitely many of both.         *)
LinkedInv ==
  /\ IsFiniteSet(DOMAIN dirs) /\ IsFiniteSet(blobs)
  /\ \A g \in DOMAIN dirs : \A n \in dirs[g].linked : dirs[g].zip[n] \in blobs

(* The sums of the model are totals.                                       *)
Copied == [g \in DOMAIN dirs |-> Blobs!CopiedBytes(g)]

LEMMA ScannedIsTotal ==
  Blobs!ScannedBytes = Total(Size, blobs) + Total(Copied, DOMAIN dirs)
<1>1. Blobs!MapThenSumSet(Blobs!LengthOf, blobs) = Total(Size, blobs)
  BY DEF Total, Sums, Blobs!MapThenSumSet, Blobs!MapThenFoldSet, Blobs!LengthOf
<1>2. Blobs!MapThenSumSet(Blobs!CopiedBytes, DOMAIN dirs) = Total(Copied, DOMAIN dirs)
  BY DEF Total, Sums, Blobs!MapThenSumSet, Blobs!MapThenFoldSet, Copied
<1> QED
  BY <1>1, <1>2 DEF Blobs!ScannedBytes

LEMMA BlobCardinality ==
  ASSUME NEW S PROVE Blobs!Cardinality(S) = Cardinality(S)
  BY DEF Blobs!Cardinality, Cardinality

LEMMA CountsMembers ==
  ASSUME NEW S, IsFiniteSet(S)
  PROVE  /\ Cardinality(S) \in Nat
         /\ S # {} => Cardinality(S) >= 1
         /\ \A a, b \in S : a # b => Cardinality(S) >= 2
<1>1. \A a \in S : /\ IsFiniteSet(S \ {a}) /\ Cardinality(S \ {a}) = Cardinality(S) - 1
                   /\ Cardinality(S) \in Nat /\ Cardinality(S \ {a}) \in Nat
  BY ElementRemoved
<1>2. ASSUME NEW a \in S, NEW b \in S, a # b PROVE Cardinality(S) >= 2
  <2>1. b \in S \ {a}
    BY <1>2
  <2>2. Cardinality((S \ {a}) \ {b}) = Cardinality(S \ {a}) - 1
        /\ Cardinality((S \ {a}) \ {b}) \in Nat
    BY <1>1, <2>1, ElementRemoved
  <2> QED
    BY <1>1, <2>2
<1>3. Cardinality(S) \in Nat
  BY FS_CardinalityType
<1>4. ASSUME NEW a \in S PROVE Cardinality(S) >= 1
  <2>1. Cardinality(S \ {a}) = Cardinality(S) - 1 /\ Cardinality(S) \in Nat
        /\ Cardinality(S \ {a}) \in Nat
    BY <1>1
  <2> QED
    BY <2>1
<1>5. S # {} => Cardinality(S) >= 1
  BY <1>4
<1> QED
  BY <1>2, <1>3, <1>5

(* The links of a ZIP, and how many.                                       *)
LEMMA LinksOf ==
  ASSUME DirInv, LinkedInv, NEW z
  PROVE  /\ \A g, n : <<g, n>> \in Blobs!Links(z)
                        <=> g \in DOMAIN dirs /\ n \in dirs[g].linked /\ dirs[g].zip[n] = z
         /\ \A l \in Blobs!Links(z) : l = <<l[1], l[2]>>
         /\ IsFiniteSet(Blobs!Links(z))
         /\ z \in blobs => Blobs!Nlink(z) = Cardinality(Blobs!Links(z)) + 1
<1>1. \A g, n : <<g, n>> \in Blobs!Links(z)
                  <=> g \in DOMAIN dirs /\ n \in dirs[g].linked /\ dirs[g].zip[n] = z
  BY DEF Blobs!Links
<1>2. \A l \in Blobs!Links(z) : l \in (DOMAIN dirs) \X Blobs!Names
  BY DEF Blobs!Links, DirInv, Directory
<1>3. IsFiniteSet(Blobs!Names)
  <2>1. IsFiniteSet({"static"}) /\ IsFiniteSet({"official"}) /\ IsFiniteSet({"addon"})
    BY FS_Singleton
  <2>2. IsFiniteSet(({"static"} \cup {"official"}) \cup {"addon"})
    BY <2>1, FS_Union
  <2>3. Blobs!Names = ({"static"} \cup {"official"}) \cup {"addon"}
    BY DEF Blobs!Names
  <2> QED
    BY <2>2, <2>3
<1>4. IsFiniteSet((DOMAIN dirs) \X Blobs!Names)
  BY <1>3, FS_Product DEF LinkedInv
<1>5. IsFiniteSet(Blobs!Links(z))
  BY <1>2, <1>4, FS_Subset
<1>6. z \in blobs => Blobs!Nlink(z) = Cardinality(Blobs!Links(z)) + 1
  <2>1. z \in blobs => {z} \cap blobs = {z}
    OBVIOUS
  <2>2. Cardinality({z}) = 1
    BY FS_Singleton
  <2> QED
    BY <2>1, <2>2, BlobCardinality DEF Blobs!Nlink
<1> QED
  BY <1>1, <1>2, <1>5, <1>6

(* A static ZIP is shared, or only this name links it.                     *)
LEMMA SharedOrAlone ==
  ASSUME DirInv, LinkedInv, NEW g \in DOMAIN dirs
  PROVE  /\ Blobs!Shared(g) => "static" \in dirs[g].linked
         /\ "static" \in dirs[g].linked /\ ~Blobs!Shared(g) =>
              \A h \in DOMAIN dirs : \A n \in dirs[h].linked :
                dirs[h].zip[n] = dirs[g].zip["static"] => h = g /\ n = "static"
<1> DEFINE z == dirs[g].zip["static"]
<1>1. Blobs!Shared(g) <=> "static" \in dirs[g].linked /\ Blobs!Nlink(z) > 2
  BY DEF Blobs!Shared
<1>2. "static" \in dirs[g].linked => z \in blobs
  BY DEF LinkedInv
<1>3. /\ \A h, n : <<h, n>> \in Blobs!Links(z)
                     <=> h \in DOMAIN dirs /\ n \in dirs[h].linked /\ dirs[h].zip[n] = z
      /\ IsFiniteSet(Blobs!Links(z))
      /\ z \in blobs => Blobs!Nlink(z) = Cardinality(Blobs!Links(z)) + 1
  BY LinksOf
<1>4. /\ Cardinality(Blobs!Links(z)) \in Nat
      /\ \A a, b \in Blobs!Links(z) : a # b => Cardinality(Blobs!Links(z)) >= 2
  BY <1>3, CountsMembers
<1>5. ASSUME "static" \in dirs[g].linked, ~Blobs!Shared(g),
             NEW h \in DOMAIN dirs, NEW n \in dirs[h].linked, dirs[h].zip[n] = z
      PROVE  h = g /\ n = "static"
  <2>1. <<g, "static">> \in Blobs!Links(z) /\ <<h, n>> \in Blobs!Links(z)
    BY <1>3, <1>5
  <2>2. ~(Cardinality(Blobs!Links(z)) >= 2)
    BY <1>1, <1>2, <1>3, <1>4, <1>5
  <2>3. <<g, "static">> = <<h, n>>
    BY <1>4, <2>1, <2>2
  <2> QED
    BY <2>3
<1> QED
  BY <1>1, <1>5

-----------------------------------------------------------------------------
(* What the plan leaves                                                    *)

Linkers(z) == {g \in DOMAIN dirs : Blobs!Shared(g) /\ dirs[g].zip["static"] = z}

(* The blobs that go with a set of generations, by what the plan counts.   *)
Freed(gone) ==
  {z \in blobs :
     \/ \E h \in gone : /\ ~Blobs!Shared(h) /\ "static" \in dirs[h].linked
                        /\ dirs[h].zip["static"] = z
     \/ Linkers(z) # {} /\ Linkers(z) \subseteq gone}

Remains(gone) == blobs \ Freed(gone)

Occupied(gone) ==
  Total(Size, Remains(gone)) + Total(Copied, DOMAIN dirs \ gone) + incoming

(* A plan over the generations up to k: while a whole one is spared, the   *)
(* rest fits; its total is what stays, and with the last doomed that would *)
(* not fit.                                                                *)
PlanInv(plan, k) ==
  /\ plan = [total |-> plan.total, doomed |-> plan.doomed, links |-> plan.links]
  /\ plan.total \in Nat /\ plan.doomed \subseteq DOMAIN dirs \ {current}
  /\ \A h \in plan.doomed : h <= k
  /\ DOMAIN plan.links = Blobs!Zips
  /\ \A z \in Blobs!Zips :
       plan.links[z] = Cardinality(Linkers(z) \ plan.doomed)
  /\ \A h \in DOMAIN dirs \ {current} :
       h <= k /\ h \notin plan.doomed /\ "rest" \in dirs[h].copied
         => plan.total <= BudgetBytes
  /\ Occupied(plan.doomed) = plan.total
  /\ \A last \in plan.doomed :
       (\A h \in plan.doomed : h <= last)
         => Occupied(plan.doomed \ {last}) > BudgetBytes

(* Deleting one more generation frees its own bytes and, if it is the last *)
(* to link its static ZIP, the blob.                                       *)
LEMMA FreesBlob ==
  ASSUME DirInv, LinkedInv, NEW gone \in SUBSET DOMAIN dirs,
         NEW g \in DOMAIN dirs, g \notin gone,
         NEW z, z = dirs[g].zip["static"]
  PROVE  /\ Blobs!Shared(g) /\ Linkers(z) \ gone # {g} =>
              Remains(gone \cup {g}) = Remains(gone)
         /\ Blobs!Shared(g) /\ Linkers(z) \ gone = {g} =>
              z \in Remains(gone) /\ Remains(gone \cup {g}) = Remains(gone) \ {z}
         /\ ~Blobs!Shared(g) /\ "static" \in dirs[g].linked =>
              z \in Remains(gone) /\ Remains(gone \cup {g}) = Remains(gone) \ {z}
         /\ "static" \notin dirs[g].linked => Remains(gone \cup {g}) = Remains(gone)
<1>1. /\ Blobs!Shared(g) => "static" \in dirs[g].linked
      /\ "static" \in dirs[g].linked => z \in blobs
  BY SharedOrAlone DEF LinkedInv
<1>2. ASSUME ~Blobs!Shared(g), "static" \in dirs[g].linked
      PROVE  /\ \A h \in DOMAIN dirs :
                  "static" \in dirs[h].linked /\ dirs[h].zip["static"] = z => h = g
             /\ Linkers(z) = {}
  <2>1. \A h \in DOMAIN dirs :
          "static" \in dirs[h].linked /\ dirs[h].zip["static"] = z => h = g
    BY <1>2, SharedOrAlone
  <2>2. \A h \in Linkers(z) : h \in DOMAIN dirs /\ Blobs!Shared(h)
                              /\ dirs[h].zip["static"] = z /\ "static" \in dirs[h].linked
    BY SharedOrAlone DEF Linkers
  <2> QED
    BY <1>2, <2>1, <2>2
<1>3. ASSUME Blobs!Shared(g), NEW h \in DOMAIN dirs, ~Blobs!Shared(h),
             "static" \in dirs[h].linked, dirs[h].zip["static"] = z
      PROVE  FALSE
  BY <1>1, <1>3, SharedOrAlone
<1>4. \A y : y # z => g \notin Linkers(y)
  BY DEF Linkers
<1>5. \A y \in blobs : y # z =>
        (y \in Freed(gone \cup {g}) <=> y \in Freed(gone))
  BY <1>4 DEF Freed
<1>6. Blobs!Shared(g) <=> g \in Linkers(z)
  BY DEF Linkers
<1>7. Blobs!Shared(g) => z \notin Freed(gone)
                         /\ (z \in Freed(gone \cup {g}) <=> Linkers(z) \ gone = {g})
  BY <1>1, <1>3, <1>6 DEF Freed
<1>8. ~Blobs!Shared(g) /\ "static" \in dirs[g].linked =>
        z \notin Freed(gone) /\ z \in Freed(gone \cup {g})
  BY <1>1, <1>2 DEF Freed
<1>9. "static" \notin dirs[g].linked =>
        (z \in Freed(gone \cup {g}) <=> z \in Freed(gone))
  BY <1>1, <1>6 DEF Freed
<1> QED
  BY <1>1, <1>5, <1>7, <1>8, <1>9 DEF Remains

LEMMA LengthsNat ==
  ASSUME DirInv, SpaceInv
  PROVE  /\ Rest \in Nat \ {0} /\ BudgetBytes \in Nat /\ MaxGen \in Nat
         /\ incoming \in Nat
         /\ \A z \in Blobs!Zips : Size[z] \in Nat /\ Blobs!LengthOf(z) = Size[z]
         /\ \A z \in blobs : Size[z] \in Nat
         /\ \A g \in DOMAIN dirs : /\ g \in Nat /\ dirs[g].zip["static"] \in Blobs!Zips
                                   /\ Copied[g] \in Nat
                                   /\ Copied[g] = Blobs!CopiedBytes(g)
<1>1. /\ Rest \in Nat \ {0} /\ BudgetBytes \in Nat /\ MaxGen \in Nat
      /\ Size \in [Blobs!Zips -> Nat]
  BY PartsAssumption DEF Blobs!BlobConstants
<1>2. \A z \in Blobs!Zips : Size[z] \in Nat /\ Blobs!LengthOf(z) = Size[z]
  BY <1>1 DEF Blobs!LengthOf
<1>3. ASSUME NEW g \in DOMAIN dirs
      PROVE  /\ g \in Nat /\ dirs[g].zip["static"] \in Blobs!Zips
             /\ Copied[g] \in Nat /\ Copied[g] = Blobs!CopiedBytes(g)
  <2>1. g \in Nat /\ dirs[g].zip \in Snapshots
    BY DEF DirInv, Directory
  <2>2. dirs[g].zip["static"] \in Blobs!Zips
    BY <2>1, SnapshotZips DEF Blobs!Names
  <2>3. Blobs!CopiedBytes(g) \in Nat
    BY <1>1, <1>2, <2>2 DEF Blobs!CopiedBytes, Blobs!CopyBytes, Blobs!RestBytes
  <2> QED
    BY <2>1, <2>2, <2>3 DEF Copied
<1> QED
  BY <1>1, <1>2, <1>3 DEF SpaceInv

(* One step keeps the account.                                             *)
LEMMA PlanStepKeeps ==
  ASSUME DirInv, SpaceInv, LinkedInv, NEW k \in Nat, k + 1 \in DOMAIN dirs,
         NEW plan, PlanInv(plan, k)
  PROVE  PlanInv(Blobs!PlanStep(plan, k + 1), k + 1)
<1> DEFINE g == k + 1
           z == dirs[g].zip["static"]
           X == plan.doomed
           planned == Blobs!PlanStep(plan, g)
           last == Blobs!Shared(g) /\ plan.links[z] <= 1
           alone == "static" \in dirs[g].linked /\ ~Blobs!Shared(g)
           freed == (Blobs!CopiedBytes(g) + (IF alone THEN Blobs!LengthOf(z) ELSE 0))
                      + (IF last THEN Blobs!LengthOf(z) ELSE 0)
           passed == plan.total <= BudgetBytes \/ g = current \/ freed = 0
<1> SUFFICES PlanInv(planned, k + 1)
  OBVIOUS
<1>1. /\ g \in DOMAIN dirs /\ z \in Blobs!Zips /\ Size[z] \in Nat
      /\ Rest \in Nat \ {0} /\ BudgetBytes \in Nat /\ incoming \in Nat
      /\ Blobs!LengthOf(z) = Size[z]
      /\ Copied[g] \in Nat /\ Copied[g] = Blobs!CopiedBytes(g)
      /\ \A h \in DOMAIN dirs : h \in Nat
  BY LengthsNat
<1>2. /\ plan.total \in Nat /\ X \subseteq DOMAIN dirs \ {current}
      /\ \A h \in X : h <= k
      /\ DOMAIN plan.links = Blobs!Zips
      /\ \A y \in Blobs!Zips : plan.links[y] = Cardinality(Linkers(y) \ X)
      /\ Total(Size, Remains(X)) + Total(Copied, DOMAIN dirs \ X) + incoming = plan.total
  BY DEF PlanInv, Occupied
<1>3. g \notin X
  BY <1>2
<1>4. CASE passed
  <2>1. planned = plan
    BY <1>4 DEF Blobs!PlanStep, Blobs!MarginalBytes
  <2>2. \A h \in DOMAIN dirs \ {current} :
          h <= k + 1 /\ h \notin plan.doomed /\ "rest" \in dirs[h].copied
            => plan.total <= BudgetBytes
    <3>1. ASSUME NEW h \in DOMAIN dirs \ {current}, h <= k + 1,
                 h \notin plan.doomed, "rest" \in dirs[h].copied
          PROVE  plan.total <= BudgetBytes
      <4>1. CASE h <= k
        BY <3>1, <4>1 DEF PlanInv
      <4>2. CASE ~(h <= k)
        <5>1. h = g
          BY <1>1, <3>1, <4>2
        <5>2. Blobs!CopiedBytes(g) # 0
          <6>1. Blobs!RestBytes(g) = Rest
            BY <3>1, <5>1 DEF Blobs!RestBytes
          <6>2. Blobs!CopyBytes(g, "static") \in Nat
            BY <1>1 DEF Blobs!CopyBytes
          <6> HIDE DEF g
          <6> QED
            BY <1>1, <6>1, <6>2 DEF Blobs!CopiedBytes
        <5>3. freed # 0
          <6> HIDE DEF g, z
          <6> QED
            BY <1>1, <5>2
        <5> QED
          BY <1>4, <3>1, <5>1, <5>3
      <4> QED
        BY <4>1, <4>2
    <3> QED
      BY <3>1
  <2>3. \A h \in plan.doomed : h <= k + 1
    BY <1>1 DEF PlanInv
  <2> HIDE DEF planned
  <2> QED
    BY <2>1, <2>2, <2>3 DEF PlanInv
<1>5. CASE ~passed
  <2>1. planned = [total |-> IF freed >= plan.total THEN 0 ELSE plan.total - freed,
                 links |-> IF Blobs!Shared(g) THEN [plan.links EXCEPT ![z] = @ - 1]
                           ELSE plan.links,
                 doomed |-> X \cup {g}]
    BY <1>5 DEF Blobs!PlanStep, Blobs!MarginalBytes
  <2>2. /\ planned = [total |-> planned.total, doomed |-> planned.doomed, links |-> planned.links]
        /\ planned.total = IF freed >= plan.total THEN 0 ELSE plan.total - freed
        /\ planned.links = IF Blobs!Shared(g) THEN [plan.links EXCEPT ![z] = @ - 1]
                         ELSE plan.links
        /\ planned.doomed = X \cup {g}
    BY <2>1
  <2> HIDE DEF planned
  <2>7. planned.doomed \subseteq DOMAIN dirs \ {current}
    BY <1>1, <1>2, <1>5, <2>2
  <2>8. \A h \in planned.doomed : h <= k + 1
    BY <1>1, <1>2, <2>2
  <2>9. \A y \in Blobs!Zips : /\ IsFiniteSet(Linkers(y) \ X)
                              /\ Cardinality(Linkers(y) \ X) \in Nat
    <3>1. \A y \in Blobs!Zips : Linkers(y) \ X \subseteq DOMAIN dirs
      BY DEF Linkers
    <3> QED
      BY <3>1, FS_Subset, FS_CardinalityType DEF LinkedInv
  <2>10. ASSUME NEW y \in Blobs!Zips
         PROVE  planned.links[y] = Cardinality(Linkers(y) \ planned.doomed)
    <3>1. CASE Blobs!Shared(g) /\ y = z
      <4>1. g \in Linkers(z) \ X
        BY <1>1, <1>3, <3>1 DEF Linkers
      <4>2. Cardinality((Linkers(z) \ X) \ {g}) = Cardinality(Linkers(z) \ X) - 1
        BY <1>1, <2>9, <4>1, ElementRemoved
      <4>3. planned.links[z] = plan.links[z] - 1
        BY <1>1, <1>2, <2>2, <3>1
      <4>4. (Linkers(z) \ X) \ {g} = Linkers(z) \ planned.doomed
        BY <2>2
      <4> QED
        BY <1>1, <1>2, <3>1, <4>2, <4>3, <4>4
    <3>2. CASE ~(Blobs!Shared(g) /\ y = z)
      <4>1. g \notin Linkers(y)
        BY <3>2 DEF Linkers
      <4>2. Linkers(y) \ X = Linkers(y) \ planned.doomed
        BY <2>2, <4>1
      <4>3. planned.links[y] = plan.links[y]
        BY <1>2, <2>2, <3>2
      <4> QED
        BY <1>2, <4>2, <4>3
    <3> QED
      BY <3>1, <3>2
  <2>11. DOMAIN planned.links = Blobs!Zips
    BY <1>2, <2>2
  <2>12. \A h \in DOMAIN dirs \ {current} :
           h <= k + 1 /\ h \notin planned.doomed /\ "rest" \in dirs[h].copied
             => planned.total <= BudgetBytes
    <3>1. ASSUME NEW h \in DOMAIN dirs \ {current}, h <= k + 1,
                 h \notin planned.doomed, "rest" \in dirs[h].copied
          PROVE  FALSE
      <4>1. h # g /\ h \notin X
        BY <2>2, <3>1
      <4>2. h <= k
        BY <1>1, <3>1, <4>1
      <4> QED
        BY <1>5, <3>1, <4>1, <4>2 DEF PlanInv
    <3> QED
      BY <3>1
  <2>13. Occupied(planned.doomed) = planned.total /\ planned.total \in Nat
    <3> DEFINE rest == DOMAIN dirs \ X
    <3>1. /\ IsFiniteSet(rest) /\ g \in rest
          /\ \A h \in rest : Copied[h] \in Nat
      BY <1>1, <1>3, LengthsNat, FS_Subset DEF LinkedInv
    <3>2. /\ Total(Copied, rest) = Copied[g] + Total(Copied, rest \ {g})
          /\ Total(Copied, rest) \in Nat
      <4> HIDE DEF rest, g
      <4> QED
        BY <3>1, TotalRemove
    <3>3. rest \ {g} = DOMAIN dirs \ planned.doomed
      BY <2>2
    <3>4. IsFiniteSet(Remains(X)) /\ \A y \in Remains(X) : Size[y] \in Nat
      <4>1. Remains(X) \subseteq blobs
        BY DEF Remains
      <4> QED
        BY <4>1, LengthsNat, FS_Subset DEF LinkedInv
    <3>5. /\ Total(Size, Remains(X)) \in Nat
          /\ z \in Remains(X) =>
               Total(Size, Remains(X)) = Size[z] + Total(Size, Remains(X) \ {z})
      <4> HIDE DEF z
      <4> QED
        BY <3>4, TotalRemove
    <3>7. X \in SUBSET DOMAIN dirs
      BY <1>2
    <3>8. /\ Blobs!Shared(g) /\ Linkers(z) \ X # {g} => Remains(X \cup {g}) = Remains(X)
          /\ Blobs!Shared(g) /\ Linkers(z) \ X = {g} =>
               z \in Remains(X) /\ Remains(X \cup {g}) = Remains(X) \ {z}
          /\ ~Blobs!Shared(g) /\ "static" \in dirs[g].linked =>
               z \in Remains(X) /\ Remains(X \cup {g}) = Remains(X) \ {z}
          /\ "static" \notin dirs[g].linked => Remains(X \cup {g}) = Remains(X)
      BY <1>1, <1>3, <3>7, FreesBlob
    <3>9. Blobs!Shared(g) => "static" \in dirs[g].linked
      BY <1>1, SharedOrAlone
    <3>10. Blobs!Shared(g) => (last <=> Linkers(z) \ X = {g})
      <4> SUFFICES ASSUME Blobs!Shared(g)
                   PROVE  plan.links[z] <= 1 <=> Linkers(z) \ X = {g}
        OBVIOUS
      <4>1. g \in Linkers(z) \ X
        BY <1>1, <1>3 DEF Linkers
      <4>2. /\ Cardinality(Linkers(z) \ X) \in Nat
            /\ \A a, b \in Linkers(z) \ X : a # b => Cardinality(Linkers(z) \ X) >= 2
        BY <1>1, <2>9, CountsMembers
      <4>3. Cardinality({g}) = 1
        BY FS_Singleton
      <4>4. plan.links[z] = Cardinality(Linkers(z) \ X)
        BY <1>1, <1>2
      <4> HIDE DEF g, z, X
      <4>5. ASSUME plan.links[z] <= 1 PROVE Linkers(z) \ X = {g}
        <5>1. \A b \in Linkers(z) \ X : b = g
          BY <4>1, <4>2, <4>4, <4>5
        <5> QED
          BY <4>1, <5>1
      <4>6. ASSUME Linkers(z) \ X = {g} PROVE plan.links[z] <= 1
        BY <4>3, <4>4, <4>6
      <4> QED
        BY <4>5, <4>6
    <3> DEFINE after == Total(Size, Remains(X \cup {g}))
               blob == IF (Blobs!Shared(g) /\ Linkers(z) \ X = {g})
                            \/ (~Blobs!Shared(g) /\ "static" \in dirs[g].linked)
                         THEN Size[z] ELSE 0
    <3>11. Total(Size, Remains(X)) = blob + after /\ after \in Nat
      <4>1. CASE Blobs!Shared(g) /\ Linkers(z) \ X # {g}
        BY <1>1, <3>5, <3>8, <4>1
      <4>2. CASE (Blobs!Shared(g) /\ Linkers(z) \ X = {g})
                 \/ (~Blobs!Shared(g) /\ "static" \in dirs[g].linked)
        <5>1. z \in Remains(X) /\ Remains(X \cup {g}) = Remains(X) \ {z}
          BY <3>8, <4>2
        <5>2. Total(Size, Remains(X) \ {z}) \in Nat
          <6>1. IsFiniteSet(Remains(X) \ {z})
            BY <3>4, FS_Subset
          <6> HIDE DEF z, X
          <6> QED
            BY <3>4, <6>1, TotalRemove
        <5> QED
          BY <1>1, <3>5, <4>2, <5>1, <5>2
      <4>3. CASE "static" \notin dirs[g].linked
        BY <1>1, <3>5, <3>8, <3>9, <4>3
      <4> QED
        BY <3>9, <4>1, <4>2, <4>3
    <3>12. freed = Copied[g] + blob
      <4>1. last <=> Blobs!Shared(g) /\ Linkers(z) \ X = {g}
        BY <3>10
      <4> HIDE DEF last
      <4> QED
        BY <1>1, <3>9, <4>1
    <3>13. Total(Copied, rest \ {g}) \in Nat
      <4>1. IsFiniteSet(rest \ {g})
        BY <3>1, FS_Subset
      <4> HIDE DEF rest, g
      <4> QED
        BY <3>1, <4>1, TotalRemove
    <3>14. Total(Size, Remains(X)) + Total(Copied, rest) + incoming = plan.total
      BY <1>2
    <3>15. Occupied(planned.doomed) = after + Total(Copied, rest \ {g}) + incoming
      BY <2>2, <3>3 DEF Occupied
    <3>16. blob \in Nat /\ Copied[g] \in Nat
      BY <1>1, <3>1
    <3>17. planned.total = IF freed >= plan.total THEN 0 ELSE plan.total - freed
      BY <2>2
    <3> HIDE DEF after, blob, rest, freed, g
    <3> QED
      BY <1>1, <1>2, <3>2, <3>11, <3>12, <3>13, <3>14, <3>15, <3>16, <3>17
  <2>14. ASSUME NEW l \in planned.doomed, \A h \in planned.doomed : h <= l
         PROVE  Occupied(planned.doomed \ {l}) > BudgetBytes
    <3>1. l = g
      <4>1. g <= l /\ l \in DOMAIN dirs
        BY <2>2, <2>7, <2>14
      <4>2. l \in X => l <= k
        BY <1>2
      <4> QED
        BY <1>1, <2>2, <4>1, <4>2
    <3>2. planned.doomed \ {l} = X
      BY <1>3, <2>2, <3>1
    <3>3. Occupied(X) = plan.total
      BY DEF PlanInv
    <3>4. plan.total > BudgetBytes
      <4>1. ~(plan.total <= BudgetBytes)
        BY <1>5
      <4> HIDE DEF passed
      <4> QED
        BY <1>1, <1>2, <4>1
    <3> QED
      BY <3>2, <3>3, <3>4
  <2> QED
    BY <2>2, <2>7, <2>8, <2>10, <2>11, <2>12, <2>13, <2>14 DEF PlanInv
<1> QED
  BY <1>4, <1>5

PlanStart(total) ==
  [total |-> total, doomed |-> {},
   links |-> [z \in Blobs!Zips |-> Cardinality(Linkers(z))]]

(* The plan, generation after generation.                                  *)
Plans(plan, total, n) ==
  plan = [g \in 0 .. n |->
            IF g = 0 THEN PlanStart(total)
            ELSE IF g \in DOMAIN dirs THEN Blobs!PlanStep(plan[g - 1], g)
            ELSE plan[g - 1]]

LEMMA PlansThere ==
  ASSUME NEW total, NEW n \in Nat
  PROVE  \E plan : Plans(plan, total, n)
<1> DEFINE bad == {m \in Nat : ~ \E plan : Plans(plan, total, m)}
<1> SUFFICES ASSUME bad # {} PROVE FALSE
  OBVIOUS
<1>1. PICK m \in bad : \A k \in bad : m <= k
  BY LeastOf
<1>2. m \in Nat /\ ~ \E plan : Plans(plan, total, m)
  OBVIOUS
<1> DEFINE nextOf(f, g) == IF g = 0 THEN PlanStart(total)
                           ELSE IF g \in DOMAIN dirs THEN Blobs!PlanStep(f[g - 1], g)
                           ELSE f[g - 1]
<1>3. CASE m = 0
  <2> DEFINE f == [i \in 0 .. 0 |-> PlanStart(total)]
  <2>1. f = [i \in 0 .. 0 |-> nextOf(f, i)]
    OBVIOUS
  <2> HIDE DEF f
  <2>2. Plans(f, total, 0)
    BY <2>1 DEF Plans
  <2> QED
    BY <1>2, <1>3, <2>2
<1>4. CASE m # 0
  <2>1. m - 1 \in Nat /\ m - 1 \notin bad
    BY <1>1, <1>2, <1>4
  <2>2. PICK f : Plans(f, total, m - 1)
    BY <2>1
  <2>3. f = [i \in 0 .. m - 1 |-> nextOf(f, i)]
    BY <2>2 DEF Plans
  <2> DEFINE h == [i \in 0 .. m |-> IF i = m THEN nextOf(f, m) ELSE f[i]]
  <2>4. \A i \in 0 .. m - 1 : h[i] = f[i]
    BY <1>2
  <2>5. h[m] = nextOf(f, m)
    BY <1>2
  <2>6. DOMAIN h = 0 .. m /\ h = [i \in 0 .. m |-> h[i]]
    OBVIOUS
  <2> HIDE DEF h
  <2>7. ASSUME NEW i \in 0 .. m PROVE h[i] = nextOf(h, i)
    <3>1. i # 0 => i - 1 \in 0 .. m - 1
      BY <1>2
    <3>2. i # 0 => h[i - 1] = f[i - 1]
      BY <2>4, <3>1
    <3>3. nextOf(h, i) = nextOf(f, i)
      BY <3>2
    <3>4. h[i] = nextOf(f, i)
      <4>1. CASE i = m
        BY <2>5, <4>1
      <4>2. CASE i # m
        <5>1. i \in 0 .. m - 1
          BY <1>2, <4>2
        <5> HIDE DEF nextOf
        <5> QED
          BY <2>3, <2>4, <5>1
      <4> QED
        BY <4>1, <4>2
    <3> QED
      BY <3>3, <3>4
  <2>8. h = [i \in 0 .. m |-> nextOf(h, i)]
    <3> HIDE DEF nextOf
    <3> QED
      BY <2>6, <2>7
  <2>9. Plans(h, total, m)
    BY <2>8 DEF Plans
  <2> QED
    BY <1>2, <2>9
<1> QED
  BY <1>3, <1>4

LEMMA DeletionsArePlans ==
  ASSUME NEW total, MaxGen \in Nat
  PROVE  \E plan : Plans(plan, total, MaxGen)
                   /\ Blobs!PlanDeletions(total) = plan[MaxGen].doomed
<1> DEFINE plan == CHOOSE p : Plans(p, total, MaxGen)
<1>1. Plans(plan, total, MaxGen)
  BY PlansThere
<1>2. Blobs!PlanDeletions(total) = plan[MaxGen].doomed
  BY BlobCardinality
     DEF Blobs!PlanDeletions, Plans, PlanStart, Linkers
<1> QED
  BY <1>1, <1>2

LEMMA PlanStarts ==
  ASSUME DirInv, SpaceInv, LinkedInv
  PROVE  PlanInv(PlanStart(Blobs!ScannedBytes + incoming), 0)
<1> DEFINE total == Blobs!ScannedBytes + incoming
           start == PlanStart(total)
<1>1. /\ start = [total |-> start.total, doomed |-> start.doomed, links |-> start.links]
      /\ start.total = total /\ start.doomed = {} /\ DOMAIN start.links = Blobs!Zips
      /\ \A z \in Blobs!Zips : start.links[z] = Cardinality(Linkers(z))
  BY DEF PlanStart
<1>2. \A z : Linkers(z) \ {} = Linkers(z)
  OBVIOUS
<1>3. Remains({}) = blobs /\ DOMAIN dirs \ {} = DOMAIN dirs
  BY DEF Remains, Freed
<1>4. Occupied({}) = total
  BY <1>3, ScannedIsTotal DEF Occupied
<1>5. total \in Nat
  <2>1. Total(Size, blobs) \in Nat
    BY LengthsNat, TotalRemove DEF LinkedInv
  <2>2. Total(Copied, DOMAIN dirs) \in Nat
    BY LengthsNat, TotalRemove DEF LinkedInv
  <2> QED
    BY <2>1, <2>2, ScannedIsTotal, LengthsNat
<1>6. \A h \in DOMAIN dirs : ~(h <= 0)
  BY DEF SpaceInv, Blobs!Gens
<1> HIDE DEF total
<1>7. Occupied(start.doomed) = start.total
  <2> HIDE DEF start
  <2> QED
    BY <1>1, <1>4, <1>5
<1>8. \A z \in Blobs!Zips : start.links[z] = Cardinality(Linkers(z) \ start.doomed)
  <2> HIDE DEF start
  <2> QED
    BY <1>1, <1>2
<1>9. start.doomed \subseteq DOMAIN dirs \ {current}
      /\ \A h \in start.doomed : h <= 0
  <2> HIDE DEF start
  <2> QED
    BY <1>1
<1>10. PlanInv(start, 0)
  <2> HIDE DEF start
  <2> QED
    BY <1>1, <1>5, <1>6, <1>7, <1>8, <1>9 DEF PlanInv
<1> QED
  BY <1>10 DEF total

(* Up to the last generation: the plan spares the current one, and another *)
(* whole one only if what remains fits; with the last that it does not     *)
(* spare, it would not.                                                    *)
LEMMA DeletionsKeep ==
  ASSUME DirInv, SpaceInv, LinkedInv,
         NEW doomed, doomed = Blobs!PlanDeletions(Blobs!ScannedBytes + incoming)
  PROVE  /\ doomed \subseteq DOMAIN dirs \ {current}
         /\ \/ \A h \in DOMAIN dirs \ {current} :
                   h \notin doomed => "rest" \notin dirs[h].copied
            \/ Occupied(doomed) <= BudgetBytes
         /\ \A l \in doomed :
              (\A h \in doomed : h <= l) => Occupied(doomed \ {l}) > BudgetBytes
<1> DEFINE total == Blobs!ScannedBytes + incoming
<1>1. MaxGen \in Nat /\ BudgetBytes \in Nat
  BY LengthsNat
<1>2. PICK plan : Plans(plan, total, MaxGen) /\ doomed = plan[MaxGen].doomed
  BY <1>1, DeletionsArePlans
<1> DEFINE bad == {k \in Nat : k <= MaxGen /\ ~PlanInv(plan[k], k)}
<1>3. bad = {}
  <2> SUFFICES ASSUME bad # {} PROVE FALSE
    OBVIOUS
  <2>1. PICK k \in bad : \A m \in bad : k <= m
    BY LeastOf
  <2>2. k \in Nat /\ k <= MaxGen /\ ~PlanInv(plan[k], k)
    OBVIOUS
  <2>3. plan[k] = IF k = 0 THEN PlanStart(total)
                  ELSE IF k \in DOMAIN dirs THEN Blobs!PlanStep(plan[k - 1], k)
                  ELSE plan[k - 1]
    BY <1>1, <1>2, <2>2 DEF Plans
  <2>4. CASE k = 0
    BY <2>2, <2>3, <2>4, PlanStarts
  <2>5. CASE k # 0
    <3>1. k - 1 \in Nat /\ k - 1 <= MaxGen /\ k - 1 \notin bad /\ (k - 1) + 1 = k
      BY <1>1, <2>1, <2>2, <2>5
    <3>2. PlanInv(plan[k - 1], k - 1)
      BY <3>1
    <3>3. CASE k \in DOMAIN dirs
      <4>1. PlanInv(Blobs!PlanStep(plan[k - 1], (k - 1) + 1), (k - 1) + 1)
        BY <3>1, <3>2, <3>3, PlanStepKeeps
      <4> QED
        BY <2>2, <2>3, <2>5, <3>1, <3>3, <4>1
    <3>4. CASE k \notin DOMAIN dirs
      <4>1. \A h \in DOMAIN dirs : h \in Nat /\ (h <= k => h <= k - 1)
        BY <2>2, <3>4, LengthsNat
      <4>2. PlanInv(plan[k - 1], k)
        BY <3>1, <3>2, <4>1 DEF PlanInv
      <4> QED
        BY <2>2, <2>3, <2>5, <3>4, <4>2
    <3> QED
      BY <3>3, <3>4
  <2> QED
    BY <2>4, <2>5
<1>4. PlanInv(plan[MaxGen], MaxGen)
  BY <1>1, <1>3
<1>5. \A h \in DOMAIN dirs : h <= MaxGen
  BY DEF SpaceInv, Blobs!Gens
<1> DEFINE last == plan[MaxGen]
<1>6. /\ last.total \in Nat /\ doomed \subseteq DOMAIN dirs \ {current}
      /\ Occupied(doomed) = last.total
      /\ \A h \in DOMAIN dirs \ {current} :
           h \notin doomed /\ "rest" \in dirs[h].copied => last.total <= BudgetBytes
      /\ \A l \in doomed :
           (\A h \in doomed : h <= l) => Occupied(doomed \ {l}) > BudgetBytes
  BY <1>2, <1>4, <1>5 DEF PlanInv
<1> HIDE DEF last
<1> QED
  BY <1>6

-----------------------------------------------------------------------------
(* Links have their blobs                                                  *)
LEMMA HeldFinite ==
  ASSUME NEW gens, IsFiniteSet(gens) PROVE IsFiniteSet(Blobs!HeldBy(gens))
<1> DEFINE zipOf(n) == [g \in gens |-> dirs[g].zip[n]]
           zips(n) == {dirs[g].zip[n] : g \in gens}
<1>1. ASSUME NEW n PROVE IsFiniteSet(zips(n))
  <2>1. zipOf(n) \in Surjection(gens, zips(n))
    BY DEF Surjection
  <2> QED
    BY <2>1, FS_Surjection
<1>2. Blobs!HeldBy(gens) = (zips("static") \cup zips("official")) \cup zips("addon")
  BY DEF Blobs!HeldBy, Blobs!Held, Blobs!Names
<1>3. IsFiniteSet(zips("static")) /\ IsFiniteSet(zips("official")) /\ IsFiniteSet(zips("addon"))
  BY <1>1
<1> HIDE DEF zips
<1> QED
  BY <1>2, <1>3, FS_Union

LEMMA DirsFinite == SpaceInv => IsFiniteSet(DOMAIN dirs)
<1> SUFFICES ASSUME SpaceInv PROVE IsFiniteSet(DOMAIN dirs)
  OBVIOUS
<1>1. MaxGen \in Nat
  BY PartsAssumption DEF Blobs!BlobConstants
<1>2. IsFiniteSet(1 .. MaxGen)
  BY <1>1, FS_Interval
<1>3. DOMAIN dirs \subseteq 1 .. MaxGen
  BY DEF SpaceInv, Blobs!Gens
<1> QED
  BY <1>2, <1>3, FS_Subset

LEMMA LinkedInit == Blobs!Init => LinkedInv
<1> SUFFICES ASSUME Blobs!Init PROVE LinkedInv
  OBVIOUS
<1>1. dirs = << >> /\ blobs = {}
  BY DEF Blobs!Init
<1>2. DOMAIN dirs = {}
  BY <1>1
<1> QED
  BY <1>1, <1>2, FS_EmptySet DEF LinkedInv

(* A blob without a link is no ZIP that a directory links.                 *)
LEMMA UnlinkedHeld ==
  ASSUME DirInv, LinkedInv, NEW g \in DOMAIN dirs, NEW n \in dirs[g].linked
  PROVE  dirs[g].zip[n] \in blobs \ Blobs!Unlinked
<1> DEFINE z == dirs[g].zip[n]
<1>1. z \in blobs
  BY DEF LinkedInv
<1>2. /\ <<g, n>> \in Blobs!Links(z) /\ IsFiniteSet(Blobs!Links(z))
      /\ Blobs!Nlink(z) = Cardinality(Blobs!Links(z)) + 1
  BY <1>1, LinksOf
<1>3. Cardinality(Blobs!Links(z)) \in Nat /\ Cardinality(Blobs!Links(z)) >= 1
  BY <1>2, CountsMembers
<1>4. ~(Blobs!Nlink(z) <= 1)
  BY <1>2, <1>3
<1> QED
  BY <1>1, <1>4 DEF Blobs!Unlinked

(* A blob goes only when no directory links it.                            *)
LEMMA LinkedStep ==
  ASSUME DirInv, LinkedInv, SpaceInv', [Blobs!Next]_(Blobs!vars)
  PROVE  LinkedInv'
<1>a. IsFiniteSet(DOMAIN dirs')
  <2>1. (SpaceInv => IsFiniteSet(DOMAIN dirs))'
    BY DirsFinite, PTL
  <2> QED
    BY <2>1
<1>b. /\ IsFiniteSet(blobs) /\ IsFiniteSet(DOMAIN dirs)
      /\ \A g \in DOMAIN dirs : \A n \in dirs[g].linked : dirs[g].zip[n] \in blobs
  BY DEF LinkedInv
<1>c. /\ snapshot \in Snapshots
      /\ \A g \in DOMAIN dirs : /\ dirs[g] \in Directory /\ g < next /\ g \in Nat
                                /\ dirs[g].linked \subseteq Blobs!Names
      /\ next \in Nat
  BY DEF DirInv, Directory
<1>d. IsFiniteSet({snapshot[n] : n \in Blobs!Names})
  <2>1. {snapshot[n] : n \in Blobs!Names}
          = ({snapshot["static"]} \cup {snapshot["official"]}) \cup {snapshot["addon"]}
    BY DEF Blobs!Names
  <2>2. /\ IsFiniteSet({snapshot["static"]}) /\ IsFiniteSet({snapshot["official"]})
        /\ IsFiniteSet({snapshot["addon"]})
    BY FS_Singleton
  <2>3. IsFiniteSet(({snapshot["static"]} \cup {snapshot["official"]})
                      \cup {snapshot["addon"]})
    BY <2>2, FS_Union
  <2> QED
    BY <2>1, <2>3
<1>1. ASSUME UNCHANGED <<dirs, blobs>> PROVE LinkedInv'
  BY <1>a, <1>b, <1>1 DEF LinkedInv
<1>2. CASE Removing
  <2>1. Shrinks /\ blobs' = blobs
    BY <1>2, RemovingShrinks, RemovingSteps
  <2>2. ASSUME NEW g \in DOMAIN dirs', NEW n \in dirs'[g].linked
        PROVE  dirs'[g].zip[n] \in blobs
    <3>1. g \in DOMAIN dirs /\ dirs'[g].zip = dirs[g].zip /\ n \in dirs[g].linked
      BY <2>1, <2>2 DEF Shrinks
    <3> QED
      BY <1>b, <3>1
  <2> QED
    BY <1>a, <1>b, <2>1, <2>2 DEF LinkedInv
<1>3. ASSUME NEW gone \in SUBSET Blobs!Unlinked, dirs' = dirs, blobs' = blobs \ gone
      PROVE  LinkedInv'
  <2>1. IsFiniteSet(blobs')
    BY <1>b, <1>3, FS_Subset
  <2>2. \A g \in DOMAIN dirs : \A n \in dirs[g].linked : dirs[g].zip[n] \in blobs'
    BY <1>3, UnlinkedHeld
  <2> QED
    BY <1>a, <1>3, <2>1, <2>2 DEF LinkedInv
<1>4. CASE Blobs!CollectBlobs
  BY <1>3, <1>4 DEF Blobs!CollectBlobs
<1>5. CASE Blobs!CollectFails
  <2>1. PICK gone \in SUBSET Blobs!Unlinked : blobs' = blobs \ gone
    BY <1>5 DEF Blobs!CollectFails
  <2>2. dirs' = dirs
    BY <1>5 DEF Blobs!CollectFails
  <2> QED
    BY <1>3, <2>1, <2>2
<1>6. CASE Blobs!Write
  <2>1. PICK failing \in SUBSET LinkFails :
          dirs' = [g \in DOMAIN dirs \cup {next} |->
                     IF g = next
                       THEN [zip |-> snapshot, linked |-> Blobs!Names \ failing,
                             copied |-> failing \cup {"rest"}]
                     ELSE dirs[g]]
    BY <1>6 DEF Blobs!Write
  <2>2. /\ DOMAIN dirs' = DOMAIN dirs \cup {next}
        /\ \A g \in DOMAIN dirs : dirs'[g] = dirs[g]
        /\ dirs'[next].zip = snapshot /\ dirs'[next].linked \subseteq Blobs!Names
    BY <1>c, <2>1
  <2>3. blobs' = blobs \cup {snapshot[n] : n \in Blobs!Names}
    BY <1>6 DEF Blobs!Write
  <2>4. IsFiniteSet(blobs')
    <3> DEFINE made == {snapshot[n] : n \in Blobs!Names}
    <3>1. IsFiniteSet(made) /\ blobs' = blobs \cup made
      BY <1>d, <2>3
    <3> HIDE DEF made
    <3> QED
      BY <1>b, <3>1, FS_Union
  <2>5. \A g \in DOMAIN dirs' : \A n \in dirs'[g].linked : dirs'[g].zip[n] \in blobs'
    BY <1>b, <2>2, <2>3
  <2> QED
    BY <1>a, <2>4, <2>5 DEF LinkedInv
<1>7. CASE Blobs!WriteFails
  <2>1. PICK made \in SUBSET {snapshot[n] : n \in Blobs!Names} : blobs' = blobs \cup made
    BY <1>7 DEF Blobs!WriteFails
  <2>2. IsFiniteSet(made)
    BY <1>d, <2>1, FS_Subset
  <2>3. IsFiniteSet(blobs')
    BY <1>b, <2>1, <2>2, FS_Union
  <2>4. dirs' = dirs
    BY <1>7 DEF Blobs!WriteFails
  <2> QED
    BY <1>a, <1>b, <2>1, <2>3, <2>4 DEF LinkedInv
<1>8. CASE Blobs!Open
  <2>1. PICK gens : gens = loaded'
    OBVIOUS
  <2>2. /\ DOMAIN dirs' = DOMAIN dirs
        /\ \A g \in DOMAIN dirs :
             /\ dirs'[g] \in Directory /\ dirs'[g].zip = dirs[g].zip
             /\ ~Blobs!Complete(g) => dirs'[g] = dirs[g]
        /\ gens = {g \in DOMAIN dirs : Blobs!Complete(g)}
    BY <1>8, <2>1, OpenKeeps
  <2>3. blobs' = blobs \cup Blobs!HeldBy(gens)
    BY <1>8, <2>1 DEF Blobs!Open
  <2>4. IsFiniteSet(blobs')
    <3>1. IsFiniteSet(gens)
      BY <1>b, <2>2, FS_Subset
    <3>2. IsFiniteSet(Blobs!HeldBy(gens))
      BY <3>1, HeldFinite
    <3> QED
      BY <1>b, <2>3, <3>2, FS_Union
  <2>5. ASSUME NEW g \in DOMAIN dirs', NEW n \in dirs'[g].linked
        PROVE  dirs'[g].zip[n] \in blobs'
    <3>1. CASE Blobs!Complete(g)
      <4>1. n \in Blobs!Names /\ g \in gens /\ dirs'[g].zip = dirs[g].zip
        BY <2>2, <2>5, <3>1 DEF Directory
      <4>2. dirs[g].zip[n] \in Blobs!HeldBy(gens)
        BY <4>1 DEF Blobs!HeldBy, Blobs!Held
      <4> QED
        BY <2>3, <4>1, <4>2
    <3>2. CASE ~Blobs!Complete(g)
      BY <1>b, <2>2, <2>3, <2>5, <3>2
    <3> QED
      BY <3>1, <3>2
  <2> QED
    BY <1>a, <2>4, <2>5 DEF LinkedInv
<1> QED
  BY <1>1, <1>2, <1>4, <1>5, <1>6, <1>7, <1>8
     DEF Blobs!Next, Removing, Blobs!StartPublish, Blobs!SpaceDone, Blobs!Commit,
         Blobs!CommitFails, Blobs!Crash, Blobs!vars

-----------------------------------------------------------------------------
(* After the plan has been carried out                                     *)

(* ZIPs of static.zip that are linked only under other names.              *)
Hidden ==
  {z \in Blobs!LinkedBy(DOMAIN dirs, Blobs!Names)
         \ Blobs!LinkedBy(DOMAIN dirs, {"static"}) :
     \E s \in Snapshots : s["static"] = z}

(* Blobs that contain the others and leave the volume within its budget.   *)
Left(zipsLeft) ==
  /\ zipsLeft \in SUBSET Blobs!Zips /\ IsFiniteSet(zipsLeft)
  /\ Blobs!LinkedBy(DOMAIN dirs, Blobs!Names) \subseteq zipsLeft \cup Hidden
  /\ Total(Size, zipsLeft) + Total(Copied, DOMAIN dirs) + incoming <= BudgetBytes

LeftInv ==
  pc = "gc" /\ BudgetBytes > 0 =>
    \/ \A g \in Blobs!Unprotected : "rest" \notin dirs[g].copied
    \/ \E zipsLeft : Left(zipsLeft)

(* What a generation that stays links either remains or was some's static  *)
(* ZIP, and is no longer that of any.                                      *)
LEMMA KeptRemains ==
  ASSUME DirInv, LinkedInv, NEW gone \in SUBSET DOMAIN dirs,
         NEW g \in DOMAIN dirs \ gone, NEW n \in dirs[g].linked,
         NEW z, z = dirs[g].zip[n], z \notin Remains(gone)
  PROVE  /\ \E s \in Snapshots : s["static"] = z
         /\ \A h \in DOMAIN dirs \ gone :
              ~("static" \in dirs[h].linked /\ dirs[h].zip["static"] = z)
<1>1. z \in blobs
  BY DEF LinkedInv
<1>2. ASSUME NEW h \in gone, ~Blobs!Shared(h), "static" \in dirs[h].linked,
             dirs[h].zip["static"] = z
      PROVE  FALSE
  <2>1. \A k \in DOMAIN dirs : \A m \in dirs[k].linked :
          dirs[k].zip[m] = dirs[h].zip["static"] => k = h /\ m = "static"
    BY <1>2, SharedOrAlone
  <2>2. g = h
    BY <1>2, <2>1
  <2> QED
    BY <2>2
<1>3. Linkers(z) # {} /\ Linkers(z) \subseteq gone
  BY <1>1, <1>2 DEF Remains, Freed
<1>4. PICK l \in DOMAIN dirs : Blobs!Shared(l) /\ dirs[l].zip["static"] = z
  BY <1>3 DEF Linkers
<1>5. "static" \in dirs[l].linked /\ dirs[l].zip \in Snapshots
  BY <1>4, SharedOrAlone DEF DirInv, Directory
<1>6. ASSUME NEW h \in DOMAIN dirs \ gone, "static" \in dirs[h].linked,
             dirs[h].zip["static"] = z
      PROVE  FALSE
  <2>1. ~Blobs!Shared(h)
    BY <1>3, <1>6 DEF Linkers
  <2>2. \A k \in DOMAIN dirs : \A m \in dirs[k].linked :
          dirs[k].zip[m] = dirs[h].zip["static"] => k = h /\ m = "static"
    BY <1>6, <2>1, SharedOrAlone
  <2>3. l = h
    BY <1>4, <1>5, <1>6, <2>2
  <2> QED
    BY <1>4, <2>1, <2>3
<1> QED
  BY <1>4, <1>5, <1>6

LEMMA LeftStep ==
  ASSUME DirInv, SpaceInv, LinkedInv, LeftInv, [Blobs!Next]_(Blobs!vars)
  PROVE  LeftInv'
<1>1. CASE Blobs!MeetBudget /\ pc' = "gc" /\ BudgetBytes > 0
  <2> DEFINE doomed == Blobs!PlanDeletions(Blobs!ScannedBytes + incoming)
             zipsLeft == Remains(doomed)
             rest == DOMAIN dirs \ doomed
  <2>1. BudgetBytes \in Nat /\ incoming \in Nat
    BY LengthsNat
  <2>2. Blobs!Delete(doomed) /\ UNCHANGED <<blobs, current, incoming>>
    <3>1. \A g, gone : Blobs!DeleteFails(g, gone) => pc' # "gc"
      BY DEF Blobs!DeleteFails, Blobs!Abort
    <3>2. Blobs!Delete(Blobs!BudgetDoomed) /\ UNCHANGED <<blobs, current, incoming>>
      BY <1>1, <3>1 DEF Blobs!MeetBudget, Blobs!publication
    <3> QED
      BY <1>1, <2>1, <3>2 DEF Blobs!BudgetDoomed
  <2>3. /\ doomed \subseteq DOMAIN dirs \ {current}
        /\ \/ \A h \in DOMAIN dirs \ {current} :
                  h \notin doomed => "rest" \notin dirs[h].copied
           \/ Occupied(doomed) <= BudgetBytes
    BY DeletionsKeep
  <2>4. dirs' = [g \in rest |-> dirs[g]]
    BY <2>2 DEF Blobs!Delete
  <2> HIDE DEF doomed
  <2>5. DOMAIN dirs' = rest /\ \A g \in rest : dirs'[g] = dirs[g]
    BY <2>4
  <2>6. CASE \A h \in DOMAIN dirs \ {current} :
               h \notin doomed => "rest" \notin dirs[h].copied
    <3>1. \A g \in Blobs!Unprotected' : "rest" \notin dirs'[g].copied
      BY <2>2, <2>5, <2>6 DEF Blobs!Unprotected
    <3> QED
      BY <3>1 DEF LeftInv
  <2>7. CASE Occupied(doomed) <= BudgetBytes
    <3>1. zipsLeft \in SUBSET Blobs!Zips /\ IsFiniteSet(zipsLeft)
      <4>1. zipsLeft \subseteq blobs /\ IsFiniteSet(blobs) /\ blobs \subseteq Blobs!Zips
        BY DEF Remains, LinkedInv, SpaceInv
      <4> QED
        BY <4>1, FS_Subset
    <3>2. ASSUME NEW z \in Blobs!LinkedBy(DOMAIN dirs, Blobs!Names)'
          PROVE  z \in zipsLeft \/ z \in Hidden'
      <4>1. PICK g \in rest, n \in Blobs!Names :
              n \in dirs[g].linked /\ dirs[g].zip[n] = z
        BY <2>5, <3>2 DEF Blobs!LinkedBy
      <4>2. doomed \in SUBSET DOMAIN dirs /\ g \in DOMAIN dirs \ doomed
        BY <2>3
      <4>3. z \in zipsLeft \/
              /\ \E s \in Snapshots : s["static"] = z
              /\ \A h \in rest : ~("static" \in dirs[h].linked /\ dirs[h].zip["static"] = z)
        BY <4>1, <4>2, KeptRemains
      <4>4. ASSUME \A h \in rest : ~("static" \in dirs[h].linked
                                     /\ dirs[h].zip["static"] = z)
            PROVE  z \notin Blobs!LinkedBy(DOMAIN dirs, {"static"})'
        BY <2>5, <4>4 DEF Blobs!LinkedBy
      <4> QED
        BY <3>2, <4>3, <4>4 DEF Hidden
    <3>3. Total(Copied', rest) = Total(Copied, rest)
      <4>1. IsFiniteSet(rest)
        BY FS_Subset DEF LinkedInv
      <4>2. \A g \in rest : Copied[g] \in Nat
        BY LengthsNat
      <4>3. \A g \in rest : Copied'[g] = Copied[g]
        BY <2>5 DEF Copied, Blobs!CopiedBytes, Blobs!CopyBytes, Blobs!RestBytes,
                    Blobs!LengthOf
      <4> HIDE DEF rest
      <4> QED
        BY <4>1, <4>2, <4>3, TotalSame
    <3>4. Total(Size, zipsLeft) + Total(Copied', rest) + incoming <= BudgetBytes
      BY <2>7, <3>3 DEF Occupied
    <3>5. PICK k : k = zipsLeft
      OBVIOUS
    <3>6. Left(k)'
      <4>1. k \in SUBSET Blobs!Zips /\ IsFiniteSet(k)
        BY <3>1, <3>5
      <4>2. Blobs!LinkedBy(DOMAIN dirs, Blobs!Names)' \subseteq k \cup Hidden'
        BY <3>2, <3>5
      <4>3. Total(Size, k) + Total(Copied', DOMAIN dirs') + incoming' <= BudgetBytes
        BY <2>2, <2>5, <3>4, <3>5
      <4> QED
        BY <4>1, <4>2, <4>3 DEF Left
    <3> QED
      BY <3>6 DEF LeftInv
  <2> QED
    BY <2>3, <2>6, <2>7
<1>2. CASE UNCHANGED Blobs!vars
  BY <1>2 DEF Blobs!vars, LeftInv, Blobs!Unprotected, Left, Hidden, Copied,
              Blobs!CopiedBytes, Blobs!CopyBytes, Blobs!RestBytes, Blobs!LengthOf,
              Blobs!LinkedBy
<1>3. CASE pc' # "gc" \/ ~(BudgetBytes > 0)
  BY <1>3 DEF LeftInv
<1>4. CASE Blobs!CollectFails
  BY <1>3, <1>4 DEF Blobs!CollectFails, Blobs!Abort
<1>5. CASE Blobs!Prune \/ Blobs!FreeSpace
  <2>1. \A g, gone : Blobs!DeleteFails(g, gone) => pc' # "gc"
    BY DEF Blobs!DeleteFails, Blobs!Abort
  <2>2. pc' # "gc"
    BY <1>5, <2>1 DEF Blobs!Prune, Blobs!FreeSpace
  <2> QED
    BY <1>3, <2>2
<1> QED
  BY <1>1, <1>2, <1>3, <1>4, <1>5
     DEF Blobs!Next, Blobs!StartPublish, Blobs!CollectBlobs,
         Blobs!SpaceDone, Blobs!Write, Blobs!WriteFails,
         Blobs!Commit, Blobs!CommitFails, Blobs!Crash, Blobs!Open

-----------------------------------------------------------------------------
(* What the volume holds                                                   *)

Unseen == [g \in DOMAIN dirs |-> Blobs!UnseenCopies(g)]

(* What is linked is a finite set of blobs.                                *)
LEMMA LinkedFinite ==
  ASSUME SpaceInv, LinkedInv, NEW gens \in SUBSET DOMAIN dirs, NEW names
  PROVE  /\ Blobs!LinkedBy(gens, names) \subseteq blobs
         /\ IsFiniteSet(Blobs!LinkedBy(gens, names))
         /\ \A z \in Blobs!LinkedBy(gens, names) : Size[z] \in Nat
<1>1. Blobs!LinkedBy(gens, names) \subseteq blobs
  BY DEF Blobs!LinkedBy, LinkedInv
<1>2. Size \in [Blobs!Zips -> Nat] /\ blobs \subseteq Blobs!Zips
  BY PartsAssumption DEF Blobs!BlobConstants, SpaceInv
<1> QED
  BY <1>1, <1>2, FS_Subset DEF LinkedInv

LEMMA OccupiedIsTotal ==
  ASSUME DirInv, SpaceInv, LinkedInv, NEW gens \in SUBSET DOMAIN dirs
  PROVE  /\ Blobs!OccupiedBytes(gens)
               = Total(Size, Blobs!LinkedBy(gens, Blobs!Names))
                   + (Total(Copied, gens) + Total(Unseen, gens))
         /\ Total(Size, Blobs!LinkedBy(gens, Blobs!Names)) \in Nat
         /\ Total(Copied, gens) \in Nat /\ Total(Unseen, gens) \in Nat
<1> DEFINE zips == Blobs!LinkedBy(gens, Blobs!Names)
<1>1. Blobs!OccupiedBytes(gens) = Blobs!MapThenSumSet(Blobs!LengthOf, zips)
                                    + Blobs!MapThenSumSet(Blobs!OwnBytes, gens)
  BY DEF Blobs!OccupiedBytes
<1>2. IsFiniteSet(zips) /\ \A z \in zips : Size[z] \in Nat
  BY LinkedFinite
<1> HIDE DEF zips
<1>3. Blobs!MapThenSumSet(Blobs!LengthOf, zips) = Total(Size, zips)
  BY DEF Total, Sums, Blobs!MapThenSumSet, Blobs!MapThenFoldSet, Blobs!LengthOf
<1> DEFINE owned == [g \in gens |-> Blobs!OwnBytes(g)]
<1>4. Blobs!MapThenSumSet(Blobs!OwnBytes, gens) = Total(owned, gens)
  BY DEF Total, Sums, Blobs!MapThenSumSet, Blobs!MapThenFoldSet
<1>5. /\ IsFiniteSet(gens)
      /\ \A g \in gens : Copied[g] \in Nat
  BY LengthsNat, FS_Subset DEF LinkedInv
<1>6. ASSUME NEW g \in gens
      PROVE  Unseen[g] \in Nat /\ owned[g] = Copied[g] + Unseen[g]
  <2>1. dirs[g].zip \in Snapshots /\ g \in DOMAIN dirs
    BY DEF DirInv, Directory
  <2>2. /\ Blobs!LengthOf(dirs[g].zip["official"]) \in Nat
        /\ Blobs!LengthOf(dirs[g].zip["addon"]) \in Nat
    BY <2>1, SnapshotZips DEF Blobs!Names
  <2>3. Blobs!CopyBytes(g, "official") \in Nat /\ Blobs!CopyBytes(g, "addon") \in Nat
    BY <2>2 DEF Blobs!CopyBytes
  <2>4. /\ owned[g] = Blobs!CopiedBytes(g) + Blobs!CopyBytes(g, "official")
                       + Blobs!CopyBytes(g, "addon")
        /\ Unseen[g] = Blobs!CopyBytes(g, "official") + Blobs!CopyBytes(g, "addon")
        /\ Copied[g] = Blobs!CopiedBytes(g)
    BY <2>1 DEF Unseen, Copied, Blobs!OwnBytes, Blobs!UnseenCopies
  <2>5. Copied[g] \in Nat
    BY <1>5
  <2> QED
    BY <2>3, <2>4, <2>5
<1> HIDE DEF owned
<1>7. Total(owned, gens) = Total(Copied, gens) + Total(Unseen, gens)
  BY <1>5, <1>6, TotalAdds
<1>8. Total(Copied, gens) \in Nat /\ Total(Unseen, gens) \in Nat /\ Total(Size, zips) \in Nat
  BY <1>2, <1>5, <1>6, TotalRemove
<1>9. Blobs!OccupiedBytes(gens) = Total(Size, zips) + (Total(Copied, gens) + Total(Unseen, gens))
  BY <1>1, <1>3, <1>4, <1>7
<1> QED
  BY <1>8, <1>9 DEF zips

(* What is within the budget apart from what the plan cannot see.          *)
LEMMA LeftFits ==
  ASSUME DirInv, SpaceInv, LinkedInv, LeftInv, BudgetBytes > 0
  PROVE  Blobs!Fits
<1> DEFINE zips == Blobs!LinkedBy(DOMAIN dirs, Blobs!Names)
<1> SUFFICES ASSUME pc = "gc", NEW zipsLeft, Left(zipsLeft)
             PROVE  Blobs!OccupiedBytes(DOMAIN dirs) + incoming
                      <= BudgetBytes + Blobs!UnseenBytes
  BY DEF LeftInv, Blobs!Fits
<1>1. /\ zipsLeft \in SUBSET Blobs!Zips /\ IsFiniteSet(zipsLeft)
      /\ zips \subseteq zipsLeft \cup Hidden
      /\ Total(Size, zipsLeft) + Total(Copied, DOMAIN dirs) + incoming <= BudgetBytes
  BY DEF Left
<1>2. BudgetBytes \in Nat /\ incoming \in Nat /\ \A z \in Blobs!Zips : Size[z] \in Nat
  BY LengthsNat
<1>3. /\ Blobs!OccupiedBytes(DOMAIN dirs)
            = Total(Size, zips) + (Total(Copied, DOMAIN dirs) + Total(Unseen, DOMAIN dirs))
      /\ Total(Size, zips) \in Nat
      /\ Total(Copied, DOMAIN dirs) \in Nat /\ Total(Unseen, DOMAIN dirs) \in Nat
  BY OccupiedIsTotal
<1>4. IsFiniteSet(Hidden) /\ \A z \in Hidden : Size[z] \in Nat
  <2>1. IsFiniteSet(zips) /\ (\A z \in zips : Size[z] \in Nat) /\ Hidden \subseteq zips
    BY LinkedFinite DEF Hidden
  <2> QED
    BY <2>1, FS_Subset
<1>5. Blobs!UnseenBytes = Total(Unseen, DOMAIN dirs) + Total(Size, Hidden)
  <2>1. Blobs!UnseenBytes = Blobs!MapThenSumSet(Blobs!UnseenCopies, DOMAIN dirs)
                              + Blobs!MapThenSumSet(Blobs!LengthOf, Hidden)
    BY DEF Blobs!UnseenBytes, Hidden
  <2>2. Blobs!MapThenSumSet(Blobs!LengthOf, Hidden) = Total(Size, Hidden)
    BY DEF Total, Sums, Blobs!MapThenSumSet, Blobs!MapThenFoldSet, Blobs!LengthOf
  <2>3. Blobs!MapThenSumSet(Blobs!UnseenCopies, DOMAIN dirs) = Total(Unseen, DOMAIN dirs)
    BY DEF Total, Sums, Blobs!MapThenSumSet, Blobs!MapThenFoldSet, Unseen
  <2> QED
    BY <2>1, <2>2, <2>3
<1> HIDE DEF zips
<1>6. Total(Size, zips) <= Total(Size, zipsLeft) + Total(Size, Hidden)
  <2>1. \A z \in zipsLeft \cup Hidden : Size[z] \in Nat
    BY <1>1, <1>2, <1>4
  <2>2. IsFiniteSet(zipsLeft \cup Hidden)
    BY <1>1, <1>4, FS_Union
  <2>3. Total(Size, zips) <= Total(Size, zipsLeft \cup Hidden)
    BY <1>1, <2>1, <2>2, TotalPart
  <2>4. Total(Size, zipsLeft \cup Hidden) <= Total(Size, zipsLeft) + Total(Size, Hidden)
    BY <1>1, <1>4, <2>1, TotalUnion
  <2>5. /\ Total(Size, zipsLeft \cup Hidden) \in Nat /\ Total(Size, zipsLeft) \in Nat
        /\ Total(Size, Hidden) \in Nat
    <3>1. \A z \in zipsLeft : Size[z] \in Nat
      BY <2>1
    <3> QED
      BY <1>1, <1>4, <2>1, <2>2, <3>1, TotalRemove
  <2> QED
    BY <1>3, <2>3, <2>4, <2>5
<1>7. Total(Size, zipsLeft) \in Nat /\ Total(Size, Hidden) \in Nat
  <2>1. \A z \in zipsLeft : Size[z] \in Nat
    BY <1>1, <1>2
  <2> QED
    BY <1>1, <1>4, <2>1, TotalRemove
<1> QED
  BY <1>1, <1>2, <1>3, <1>5, <1>6, <1>7

(* Without the last that is doomed, what the plan counts is linked by one  *)
(* that is spared or stranded.                                             *)
LEMMA PlanSpares ==
  ASSUME DirInv, SpaceInv, LinkedInv, BudgetBytes > 0
  PROVE  Blobs!Spares
<1> DEFINE doomed == Blobs!BudgetDoomed
<1>1. /\ doomed \subseteq DOMAIN dirs \ {current}
      /\ \A l \in doomed :
           (\A h \in doomed : h <= l) => Occupied(doomed \ {l}) > BudgetBytes
  <2>1. doomed = Blobs!PlanDeletions(Blobs!ScannedBytes + incoming)
    BY LengthsNat DEF Blobs!BudgetDoomed
  <2> HIDE DEF doomed
  <2> QED
    BY <2>1, DeletionsKeep
<1>2. ASSUME NEW l \in doomed, \A h \in doomed : h <= l,
             NEW spared, spared = (DOMAIN dirs \ doomed) \cup {l}
      PROVE  Blobs!OccupiedBytes(spared) + incoming
               + Blobs!MapThenSumSet(Blobs!LengthOf, Blobs!Stranded(spared)) > BudgetBytes
  <2> HIDE DEF doomed
  <2> DEFINE others == doomed \ {l}
             zips == Blobs!LinkedBy(spared, Blobs!Names)
             stranded == Blobs!Stranded(spared)
  <2>1. /\ others \in SUBSET DOMAIN dirs /\ spared = DOMAIN dirs \ others
        /\ spared \in SUBSET DOMAIN dirs
    BY <1>1, <1>2
  <2>2. Occupied(others) > BudgetBytes
    BY <1>1, <1>2
  <2>3. Remains(others) \subseteq zips \cup stranded
    <3> SUFFICES ASSUME NEW z \in Remains(others), z \notin zips, z \notin stranded
                 PROVE  FALSE
      OBVIOUS
    <3>1. z \in blobs /\ z \notin Freed(others)
      BY DEF Remains
    <3>2. PICK g \in DOMAIN dirs : "static" \in dirs[g].linked /\ dirs[g].zip["static"] = z
      BY <3>1 DEF Blobs!Stranded, Blobs!LinkedBy
    <3>3. \A h \in DOMAIN dirs :
            "static" \in dirs[h].linked /\ dirs[h].zip["static"] = z => h \in others
      <4>1. z \in Blobs!Zips
        BY <3>1 DEF SpaceInv
      <4> QED
        BY <2>1, <4>1 DEF Blobs!LinkedBy, Blobs!Names
    <3>4. CASE ~Blobs!Shared(g)
      BY <3>1, <3>2, <3>3, <3>4 DEF Freed
    <3>5. CASE Blobs!Shared(g)
      <4>1. g \in Linkers(z)
        BY <3>2, <3>5 DEF Linkers
      <4>2. \A h \in Linkers(z) : /\ h \in DOMAIN dirs /\ "static" \in dirs[h].linked
                                  /\ dirs[h].zip["static"] = z
        BY SharedOrAlone DEF Linkers
      <4>3. Linkers(z) \subseteq others
        BY <3>3, <4>2
      <4> QED
        BY <3>1, <4>1, <4>3 DEF Freed
    <3> QED
      BY <3>4, <3>5
  <2>4. /\ IsFiniteSet(zips) /\ IsFiniteSet(stranded) /\ IsFiniteSet(Remains(others))
        /\ \A z \in zips \cup stranded : Size[z] \in Nat
        /\ \A z \in Remains(others) : Size[z] \in Nat
    <3>1. /\ zips \subseteq blobs /\ stranded \subseteq blobs /\ Remains(others) \subseteq blobs
          /\ IsFiniteSet(blobs) /\ \A z \in blobs : Size[z] \in Nat
      BY <2>1, LinkedFinite, LengthsNat DEF Blobs!Stranded, Remains, LinkedInv
    <3> HIDE DEF zips, stranded
    <3> QED
      BY <3>1, FS_Subset
  <2>5. /\ Blobs!OccupiedBytes(spared)
              = Total(Size, zips) + (Total(Copied, spared) + Total(Unseen, spared))
        /\ Total(Size, zips) \in Nat
        /\ Total(Copied, spared) \in Nat /\ Total(Unseen, spared) \in Nat
    BY <2>1, OccupiedIsTotal
  <2>6. Occupied(others) = Total(Size, Remains(others)) + Total(Copied, spared) + incoming
    BY <2>1 DEF Occupied
  <2> HIDE DEF zips, stranded, others
  <2>7. Blobs!MapThenSumSet(Blobs!LengthOf, stranded) = Total(Size, stranded)
    BY DEF Total, Sums, Blobs!MapThenSumSet, Blobs!MapThenFoldSet, Blobs!LengthOf
  <2>8. Total(Size, Remains(others)) <= Total(Size, zips \cup stranded)
    <3>1. IsFiniteSet(zips \cup stranded)
      BY <2>4, FS_Union
    <3> QED
      BY <2>3, <2>4, <3>1, TotalPart
  <2>9. Total(Size, zips \cup stranded) <= Total(Size, zips) + Total(Size, stranded)
    BY <2>4, TotalUnion
  <2>10. /\ Total(Size, Remains(others)) \in Nat /\ Total(Size, stranded) \in Nat
         /\ Total(Size, zips \cup stranded) \in Nat
    <3>1. IsFiniteSet(zips \cup stranded) /\ \A z \in stranded : Size[z] \in Nat
      BY <2>4, FS_Union
    <3> QED
      BY <2>4, <3>1, TotalRemove
  <2>11. BudgetBytes \in Nat /\ incoming \in Nat
    BY LengthsNat
  <2>12. Blobs!OccupiedBytes(spared) + incoming + Total(Size, stranded) > BudgetBytes
    BY <2>2, <2>5, <2>6, <2>8, <2>9, <2>10, <2>11
  <2> QED
    BY <2>7, <2>12 DEF stranded
<1> QED
  BY <1>2 DEF Blobs!Spares

(* For every set of ZIPs of any length under every name, every budget and  *)
(* any faults of links and removals: once a retention pass has deleted     *)
(* what it planned, the volume with the coming generation fits its budget, *)
(* but for what the plan cannot see, or only the current generation and    *)
(* scraps are left; and the plan dooms no generation more than it needs    *)
(* for that (plan_deletions and enforce_retention in writer.rs, where the  *)
(* links are counted while the plan is made and never looked at again).    *)
THEOREM BudgetAlwaysMet == FeedSpec => []BudgetMet
<1> DEFINE BudgetInv == BlobInv /\ SpaceInv /\ LinkedInv /\ LeftInv
<1>1. Blobs!Init => BudgetInv
  BY BlobInit, SpaceInit, LinkedInit DEF LeftInv, Blobs!Init
<1>2. BudgetInv /\ [Blobs!Next]_(Blobs!vars) => BudgetInv'
  <2> SUFFICES ASSUME BudgetInv, [Blobs!Next]_(Blobs!vars) PROVE BudgetInv'
    OBVIOUS
  <2>1. BlobInv' /\ DirInv /\ DirInv'
    BY BlobStepDirs, BlobStepIntern DEF BlobInv
  <2>2. SpaceInv'
    BY SpaceStep
  <2>3. LinkedInv'
    BY <2>1, <2>2, LinkedStep
  <2>4. LeftInv'
    BY <2>1, LeftStep
  <2> QED
    BY <2>1, <2>2, <2>3, <2>4
<1>3. BudgetInv => BudgetMet
  BY LeftFits, PlanSpares DEF BlobInv, BudgetMet, Blobs!BudgetMet
<1> QED
  BY <1>1, <1>2, <1>3, FeedIsBlobs, PTL DEF Blobs!Spec
=============================================================================
