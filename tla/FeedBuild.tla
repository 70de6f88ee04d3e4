----------------------------- MODULE FeedBuild ------------------------------
(***************************************************************************)
(* What a generation contains (orchestrator.rs, tracks/mod.rs,             *)
(* static_augment.rs): a poll stamps the source's batch with tracks from   *)
(* the boards, drops whatever the static schedule does not bear out, and   *)
(* has a validator decode the rest and accept or reject it as a whole.     *)
(* The table of labels, the published schedule and the boards change at    *)
(* other times: a label may be known before, or after, the schedule has    *)
(* its platform.                                                           *)
(***************************************************************************)
EXTENDS Integers, Sequences, SequencesExt, FiniteSets

CONSTANTS
  None,       \* an optional field that is absent
  Stops,      \* the stops of Amtrak's schedule
  Alias,      \* other spellings of a stop
  Trips,      \* trip id -> [route, calls], calls in stop_sequence order
  Routes,     \* route id -> [agency, type]; the agency may be None
  Agencies,
  SelectableTypes,  \* what valid_route_type accepts
  Covered,    \* the stops that boards show tracks of
  Tracks,     \* track labels
  Unknown,    \* identifiers that the schedule does not have
  Batches     \* what the source may return: sequences of entities

VARIABLES
  augmented,  \* whether the schedule has stations and platforms
  platforms,  \* its platforms
  table,      \* SharedPlatforms: the labels known
  board,      \* fresh_board: labels of the train that runs all trips, by stop
  stage,      \* how far refresh_generation_once is
  source,     \* what the source returned
  batch,      \* the same, stamped
  products,   \* the candidate generation
  verdict     \* what became of it

vars == <<augmented, platforms, table, board, stage, source, batch,
          products, verdict>>
schedule == <<augmented, platforms, table, board>>

Labels == [stop : Covered, track : Tracks]
Platform(stop, track) == [stop |-> stop, track |-> track]
Station(stop) == [stop |-> stop]
NoId == ""
NoProducts == [updates |-> << >>, vehicles |-> << >>, alerts |-> << >>]

(* The entities of a source, as far as they are read here.                 *)
Optional(S) == S \cup {None}
StopIds == Stops \cup DOMAIN Alias \cup Labels \cup Unknown
TripRef == [id : DOMAIN Trips \cup Unknown,
            route : Optional(DOMAIN Routes \cup Unknown), relationship : STRING]
StopTime == [sequence : Optional(Nat), stop : Optional(StopIds),
             assigned : Optional(StopIds), relationship : STRING, event : STRING]
Selector == [agency : Optional(Agencies \cup Unknown),
             type : Optional({Routes[r].type : r \in DOMAIN Routes} \cup Unknown),
             route : Optional(DOMAIN Routes \cup Unknown),
             trip : Optional(TripRef), stop : Optional(StopIds)]
UpdateType == [trip : TripRef, stops : Seq(StopTime)]
VehicleType == [trip : Optional(TripRef), stop : Optional(StopIds),
                position : STRING]
AlertType == [informed : SUBSET Selector, text : BOOLEAN]
Entity == [id : STRING, update : Optional(UpdateType),
           vehicle : Optional(VehicleType), alert : Optional(AlertType)]

(* To be assumed of the constants: a schedule whose references hold (parsed *)
(* as a whole), and None unlike anything else.                              *)
BuildConstants ==
  /\ Trips \in [DOMAIN Trips -> [route : DOMAIN Routes, calls : Seq(Stops)]]
  /\ \A r \in DOMAIN Routes : Routes[r].agency \in Optional(Agencies)
  /\ Covered \subseteq Stops
  /\ Stops \cap (Labels \cup {Station(s) : s \in Covered}) = {}
  /\ None \notin Nat \cup Stops \cup Labels \cup {Station(s) : s \in Covered}
  /\ None \notin TripRef \cup UpdateType \cup VehicleType \cup AlertType
  /\ Batches \subseteq Seq(Entity)

TypeOK ==
  /\ augmented \in BOOLEAN /\ platforms \subseteq Labels
  /\ table \subseteq Labels
  /\ DOMAIN board \subseteq Covered /\ \A s \in DOMAIN board : board[s] \in Tracks
  /\ stage \in {"idle", "fetched", "built", "judged"}
  /\ source \in Seq(Entity) /\ Len(batch) = Len(source)
  /\ DOMAIN products = DOMAIN NoProducts
  /\ verdict \in {"none", "source", "validate", "empty", "publish"}

Init ==
  /\ augmented = FALSE /\ platforms = {} /\ table = {}
  /\ board = [s \in {} |-> None]
  /\ stage = "idle" /\ source = << >> /\ batch = << >>
  /\ products = NoProducts /\ verdict = "none"

-----------------------------------------------------------------------------
(* The schedule: augment_stops gives every stop with labels a station and  *)
(* one platform per label.                                                 *)

Divided == {l.stop : l \in platforms}
FeedStops == Stops \cup platforms \cup {Station(s) : s \in Divided}

Parent(id) ==
  IF id \in platforms THEN Station(id.stop)
  ELSE IF id \in Divided THEN Station(id) ELSE None

Observe(label) ==
  /\ stage = "idle" /\ label \notin table
  /\ table' = table \cup {label}
  /\ UNCHANGED <<augmented, platforms, board, stage, source, batch,
                 products, verdict>>

(* A restart forgets labels that were never saved.                         *)
Forget(label) ==
  /\ stage = "idle" /\ label \in table
  /\ table' = table \ {label}
  /\ UNCHANGED <<augmented, platforms, board, stage, source, batch,
                 products, verdict>>

(* A download is rebuilt with the table, or published as it came.          *)
Rebuild ==
  /\ stage = "idle"
  /\ augmented' \in BOOLEAN
  /\ platforms' = IF augmented' THEN table ELSE {}
  /\ UNCHANGED <<table, board, stage, source, batch, products, verdict>>

ReadBoard(stop) ==
  /\ stage = "idle"
  /\ \E shown \in SUBSET Tracks :
       /\ Cardinality(shown) <= 1
       /\ board' = [s \in (DOMAIN board \ {stop})
                          \cup (IF shown = {} THEN {} ELSE {stop}) |->
                      IF s = stop THEN CHOOSE t \in shown : TRUE ELSE board[s]]
  /\ UNCHANGED <<augmented, platforms, table, stage, source, batch,
                 products, verdict>>

-----------------------------------------------------------------------------
(* Stamping (WithTracks).  A stop time update is                           *)
(*   [sequence, stop, assigned, relationship, event]                       *)
(* with an event in "none", "near" (a time in the event window), "far" (a  *)
(* time outside), "delay" and "hollow" (neither time nor delay).           *)

Calls(trip) == Trips[trip].calls

CanonicalStop(id) ==
  IF id \in FeedStops THEN id
  ELSE IF id \in DOMAIN Alias THEN Alias[id] ELSE None

(* The stop an update means, before it is known to be called at once.      *)
MeantStop(u, trip) ==
  IF u.sequence = None
    THEN IF u.stop = None THEN None ELSE CanonicalStop(u.stop)
    ELSE IF /\ u.sequence \in DOMAIN Calls(trip)
            /\ u.stop \in {None, Calls(trip)[u.sequence]}
         THEN Calls(trip)[u.sequence] ELSE None

(* A board names a train and a station, not one of two visits.             *)
Visits(stop, trip) == {n \in DOMAIN Calls(trip) : Calls(trip)[n] = stop}

(* Mutant: the platform need not be in the schedule yet.                   *)
StampableUnlisted(u, trip) ==
  LET stop == MeantStop(u, trip)
  IN  /\ u.relationship # "SKIPPED" /\ u.event = "near"
      /\ Cardinality(Visits(stop, trip)) = 1
      /\ stop \in DOMAIN board
      /\ Platform(stop, board[stop]) \in table

Stampable(u, trip) ==
  LET stop == MeantStop(u, trip)
  IN  /\ u.relationship # "SKIPPED" /\ u.event = "near"
      /\ Cardinality(Visits(stop, trip)) = 1
      /\ stop \in DOMAIN board
      /\ Platform(stop, board[stop]) \in table \cap FeedStops

StampStop(u, trip) ==
  IF Stampable(u, trip)
    THEN LET stop == MeantStop(u, trip)
         IN  [u EXCEPT !.sequence = CHOOSE n \in Visits(stop, trip) : TRUE,
                       !.stop = None,
                       !.assigned = Platform(stop, board[stop])]
    ELSE u

Stamp(entity) ==
  IF entity.update # None /\ entity.update.trip.id \in DOMAIN Trips
    THEN [entity EXCEPT !.update.stops =
            [i \in DOMAIN @ |-> StampStop(@[i], entity.update.trip.id)]]
    ELSE entity

-----------------------------------------------------------------------------
(* References to the schedule.                                             *)

ValidTrip(trip) ==
  /\ trip.id \in DOMAIN Trips
  /\ trip.route # None => /\ trip.route = Trips[trip.id].route
                          /\ trip.route \in DOMAIN Routes

StopOfTrip(stop, trip) == trip.id \in DOMAIN Trips /\ Visits(stop, trip.id) # {}

(* stop_assignment_is_valid: the scheduled stop or one of its siblings.    *)
ValidAssignment(u, trip) ==
  /\ u.sequence # None /\ u.assigned \in FeedStops
  /\ u.stop \in {None, u.assigned}
  /\ u.sequence \in DOMAIN Calls(trip)
  /\ LET scheduled == Calls(trip)[u.sequence]
     IN  \/ u.assigned = scheduled
         \/ Parent(scheduled) # None /\ Parent(u.assigned) = Parent(scheduled)

ValidReference(u, trip) ==
  CASE u.sequence = None /\ u.stop = None -> FALSE
    [] u.sequence = None -> Cardinality(Visits(u.stop, trip)) = 1
    [] OTHER -> /\ u.sequence \in DOMAIN Calls(trip)
                /\ u.stop \in {None, Calls(trip)[u.sequence]}

ValidStop(u, trip) ==
  /\ trip.id \in DOMAIN Trips
  /\ ValidReference(u, trip.id)
  /\ u.assigned # None =>
       /\ ValidAssignment(u, trip.id)
       /\ u.event # "none" \/ u.relationship = "NO_DATA"
  /\ u.event # "hollow"
  /\ CASE u.relationship \in {"SCHEDULED", "UNSCHEDULED"} -> u.event # "none"
       [] u.relationship = "NO_DATA" -> u.event = "none"
       [] OTHER -> u.relationship = "SKIPPED"
  /\ u.relationship = "UNSCHEDULED" => trip.relationship = "UNSCHEDULED"

MayBeEmpty(update) == update.trip.relationship \in {"CANCELED", "DELETED"}

ValidUpdate(update) ==
  /\ ValidTrip(update.trip)
  /\ update.stops # << >> \/ MayBeEmpty(update)
  /\ \A i \in DOMAIN update.stops : ValidStop(update.stops[i], update.trip)

ValidVehicle(vehicle) ==
  /\ vehicle.trip # None /\ ValidTrip(vehicle.trip)
  /\ vehicle.stop # None => StopOfTrip(vehicle.stop, vehicle.trip)
  /\ vehicle.position = "on earth"

(* A route without an agency belongs to the only one.                      *)
OfAgency(route, agency) ==
  IF Routes[route].agency = None THEN Agencies = {agency}
                                 ELSE Routes[route].agency = agency

MatchingRoutes(s) ==
  {r \in DOMAIN Routes :
     /\ s.route \in {None, r}
     /\ s.trip = None \/ Trips[s.trip.id].route = r
     /\ s.type \in {None, Routes[r].type}
     /\ s.agency = None \/ OfAgency(r, s.agency)}

(* Mutant: an agency and a stop are looked up apart.                       *)
NeedsRouteApart(s) == s.route # None \/ s.trip # None \/ s.type # None

NeedsRoute(s) ==
  \/ s.route # None \/ s.trip # None \/ s.type # None
  \/ s.agency # None /\ s.stop # None

ValidSelector(s) ==
  /\ {s.route, s.stop, s.trip, s.agency, s.type} # {None}
  /\ s.trip # None => ValidTrip(s.trip)
  /\ s.agency \in Agencies \cup {None}
  /\ s.type # None => s.type \in SelectableTypes
  /\ NeedsRoute(s) => MatchingRoutes(s) # {}
  /\ s.stop # None =>
       /\ s.stop \in FeedStops
       /\ NeedsRoute(s) =>
            \E t \in DOMAIN Trips :
              /\ IF s.trip # None THEN t = s.trip.id
                                  ELSE Trips[t].route \in MatchingRoutes(s)
              /\ Visits(s.stop, t) # {}

ValidAlert(alert) ==
  /\ alert.informed # {} /\ \A s \in alert.informed : ValidSelector(s)
  /\ alert.text

-----------------------------------------------------------------------------
(* GenerationBuilder::build and CandidateValidator::validate.              *)

Ids(product) == {product[i].id : i \in DOMAIN product}

(* Mutant: copies of an entity are kept.                                   *)
AddAnyCopy(product, id, payload, valid) ==
  IF valid THEN Append(product, [id |-> id, payload |-> payload]) ELSE product

(* A copy of an entity that is already there is left out.                  *)
Add(product, id, payload, valid) ==
  IF valid /\ id \notin Ids(product)
    THEN Append(product, [id |-> id, payload |-> payload])
    ELSE product

AddUpdate(product, e) ==
  LET kept == [e.update EXCEPT !.stops =
                 SelectSeq(@, LAMBDA u : ValidStop(u, e.update.trip))]
  IN  IF e.update = None THEN product
      ELSE Add(product, e.id, kept, ValidUpdate(kept))

AddVehicle(product, e) ==
  IF e.vehicle = None THEN product
  ELSE Add(product, e.id, e.vehicle, ValidVehicle(e.vehicle))

AddAlert(product, e) ==
  LET kept == [e.alert EXCEPT !.informed = {s \in @ : ValidSelector(s)}]
  IN  IF e.alert = None THEN product
      ELSE Add(product, e.id, kept, ValidAlert(kept))

AddEntity(out, e) == [updates  |-> AddUpdate(out.updates, e),
                      vehicles |-> AddVehicle(out.vehicles, e),
                      alerts   |-> AddAlert(out.alerts, e)]

(* The entities one after the other.                                       *)
Candidate(entities) ==
  LET upTo[i \in 0 .. Len(entities)] ==
        IF i = 0 THEN NoProducts ELSE AddEntity(upTo[i - 1], entities[i])
  IN  upTo[Len(entities)]

(* validate_product: every entity has an id, and no two have the same.     *)
(* Headers, deletions and the number of payloads are as build writes them. *)
Accepts(product) ==
  Cardinality(Ids(product)) = Len(product) /\ NoId \notin Ids(product)

Accepted ==
  /\ Accepts(products.updates) /\ Accepts(products.vehicles) /\ Accepts(products.alerts)
  /\ \A e \in Range(products.updates) : ValidUpdate(e.payload)
  /\ \A e \in Range(products.vehicles) : ValidVehicle(e.payload)
  /\ \A e \in Range(products.alerts) : ValidAlert(e.payload)

-----------------------------------------------------------------------------
(* One poll; the schedule of a poll is chosen at its beginning.            *)

Fetch ==
  /\ stage = "idle"
  /\ \E returned \in Batches :
       /\ source' = returned
       /\ batch' = [i \in DOMAIN returned |-> Stamp(returned[i])]
       /\ IF returned = << >>
            THEN stage' = "judged" /\ verdict' = "source"
            ELSE stage' = "fetched" /\ verdict' = "none"
  /\ products' = NoProducts
  /\ UNCHANGED schedule

Build ==
  /\ stage = "fetched"
  /\ products' = Candidate(batch)
  /\ stage' = "built"
  /\ UNCHANGED <<schedule, source, batch, verdict>>

Validate ==
  /\ stage = "built"
  /\ verdict' = IF ~Accepted THEN "validate"
                ELSE IF products = NoProducts THEN "empty" ELSE "publish"
  /\ stage' = "judged"
  /\ UNCHANGED <<schedule, source, batch, products>>

Wait ==
  /\ stage = "judged"
  /\ stage' = "idle" /\ source' = << >> /\ batch' = << >>
  /\ products' = NoProducts /\ verdict' = "none"
  /\ UNCHANGED schedule

Next ==
  \/ \E label \in Labels : Observe(label) \/ Forget(label)
  \/ Rebuild
  \/ \E stop \in Covered : ReadBoard(stop)
  \/ Fetch \/ Build \/ Validate \/ Wait

Spec == Init /\ [][Next]_vars

-----------------------------------------------------------------------------
(* The validator rejects nothing that was built, however the source's      *)
(* entities repeat and contradict the schedule, as long as they have an    *)
(* id: one bad entity never costs a generation (build: "Individual         *)
(* malformed source entities are safely omitted").                         *)
BuiltValidates ==
  /\ verdict = "validate"
  => \E i \in DOMAIN source : source[i].id = NoId

Kept(entity) ==
  IF entity.update = None THEN {}
  ELSE {i \in DOMAIN entity.update.stops :
          ValidStop(entity.update.stops[i], entity.update.trip)}

(* A track costs no prediction: whatever the table and the boards know     *)
(* ahead of the schedule, a stop time that would be published without      *)
(* tracks is published with them (mod.rs: "Fail-open").                    *)
StampKeeps ==
  stage # "idle" =>
    \A i \in DOMAIN source : Kept(source[i]) \subseteq Kept(batch[i])

(* Every agency has a route, every route a trip and every trip a call.     *)
Connected ==
  /\ \A a \in Agencies : \E r \in DOMAIN Routes : OfAgency(r, a)
  /\ \A r \in DOMAIN Routes : /\ \E a \in Agencies : OfAgency(r, a)
                             /\ \E t \in DOMAIN Trips : Trips[t].route = r
  /\ \A t \in DOMAIN Trips : Calls(t) # << >>

(* A stop, of a trip, of a route, of an agency that a selector names.      *)
Names(s, t, n, a) ==
  LET route == Trips[t].route
  IN  /\ s.trip = None \/ (s.trip.id = t /\ s.trip.route \in {None, route})
      /\ s.stop \in {None, Calls(t)[n]}
      /\ s.route \in {None, route}
      /\ s.type \in {None, Routes[route].type}
      /\ OfAgency(route, a) /\ s.agency \in {None, a}

(* A selector is published exactly if its route type is one that may be    *)
(* selected and some call of some trip fits all it names at once, or if it *)
(* names one stop of the schedule and nothing else (in a schedule that is  *)
(* Connected): fields that exist one by one but not together select        *)
(* nothing.  Routes may have types that no selector may name, coach (200)  *)
(* among them: they are selected by their other fields only.               *)
SelectorExact ==
  stage = "fetched" =>
    \A i \in DOMAIN source : source[i].alert # None =>
      \A s \in source[i].alert.informed :
        ValidSelector(s) <=>
          \/ /\ {s.agency, s.type, s.route, s.trip, s.stop} # {None}
             /\ s.type \in SelectableTypes \cup {None}
             /\ \E t \in DOMAIN Trips : \E n \in DOMAIN Calls(t) :
                  \E a \in Agencies : Names(s, t, n, a)
          \/ /\ {s.agency, s.type, s.route, s.trip} = {None}
             /\ s.stop \in FeedStops

=============================================================================
