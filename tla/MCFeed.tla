------------------------------- MODULE MCFeed -------------------------------
(* Feed with a schedule of two routes, three ZIPs and two documents.         *)
EXTENDS Feed, TLC

CONSTANTS b1, b2, A, B, C, a1, a2, r1, r2, t1, t2, t3, x, aa, rail, coach,
          d1, d2, za, zp, zn

-----------------------------------------------------------------------------
LeapYears == 2023 .. 2026

(* A schedule of two routes, one of them of a type that no selector may    *)
(* name; the second trip calls at A twice.                                 *)
Spelling == aa :> A
Timetable ==
  (t1 :> [route |-> r1, calls |-> <<A, B>>])
    @@ (t2 :> [route |-> r1, calls |-> <<A, B, A>>])
    @@ (t3 :> [route |-> r2, calls |-> <<B, C>>])
Lines == (r1 :> [agency |-> a1, type |-> rail]) @@ (r2 :> [agency |-> a2, type |-> coach])

Trip(t, r, rel) == [id |-> t, route |-> r, relationship |-> rel]
Update(id, d, s) ==
  [id |-> id, update |-> [trip |-> d, stops |-> s], vehicle |-> None, alert |-> None]
Vehicle(id, d, s) ==
  [id |-> id, update |-> None, alert |-> None,
   vehicle |-> [trip |-> d, stop |-> s, position |-> "on earth"]]
Alert(id, informed) ==
  [id |-> id, update |-> None, vehicle |-> None,
   alert |-> [informed |-> informed, text |-> TRUE]]
Selector(agency, type, route, trip, stop) ==
  [agency |-> agency, type |-> type, route |-> route, trip |-> trip, stop |-> stop]
StopUpdate(q, s, p, rel, e) ==
  [sequence |-> q, stop |-> s, assigned |-> p, relationship |-> rel, event |-> e]
Track1 == [stop |-> A, track |-> 1]

StopUpdates ==
  {StopUpdate(q, s, p, rel, e) :
     q \in {None, 1, 2}, s \in {None, A, aa, x}, p \in {None, Track1},
     rel \in {"SCHEDULED", "SKIPPED", "NO_DATA", "UNSCHEDULED", "7"},
     e \in {"none", "near", "far", "hollow"}}
Selectors ==
  {Selector(agency, type, route, trip, stop) :
     agency \in {None, a1, a2}, type \in {None, rail, coach}, route \in {None, r1, r2},
     trip \in {None, Trip(t1, None, "SCHEDULED"), Trip(t1, r2, "SCHEDULED"),
               Trip(x, None, "SCHEDULED")},
     stop \in {None, A, B, C, Track1}}

Good == Update("e", Trip(t1, r1, "SCHEDULED"),
               <<StopUpdate(1, A, None, "SCHEDULED", "near")>>)
OtherRoute == Update("e", Trip(t1, r2, "SCHEDULED"),
                     <<StopUpdate(1, A, None, "SCHEDULED", "near")>>)
Canceled == Update("e", Trip(t2, r1, "CANCELED"), << >>)
AtB == Vehicle("e", Trip(t1, None, "SCHEDULED"), B)
AtC == Vehicle("e", Trip(t1, None, "SCHEDULED"), C)
Notice == Alert("e", {Selector(None, None, None, None, A),
                      Selector(a1, None, r2, None, A)})
Samples == {Good, OtherRoute, Canceled, AtB, AtC, Notice,
            [Good EXCEPT !.vehicle = AtB.vehicle], [Good EXCEPT !.id = "f"]}

(* One update or alert of every kind, and every two samples together.      *)
Fetched ==
  {<< >>}
    \cup {<<Update("e", Trip(t, None, rel), <<u>>)>> :
            t \in {t1, t2}, rel \in {"SCHEDULED", "UNSCHEDULED"}, u \in StopUpdates}
    \cup {<<Alert("e", {s})>> : s \in Selectors}
    \cup {<<e, f>> : e \in Samples, f \in Samples}

(* A station's and a train's notice; the schedule drops the train.  The    *)
(* list links two detail pages, of which the first is taken, or none.      *)
Item(kind, at, text) == [kind |-> kind, place |-> at, text |-> text]
Listings ==
  [notices : {<<Item("station", A, 1), Item("passenger", r1, 1)>>},
   links : {<<d1, d2>>, << >>}]
Places == {{A, r1}, {A}}

(* One schedule, as it was fetched and with platforms: its ZIP is the      *)
(* static ZIP of the one and only the official ZIP of the other.           *)
Offered ==
  {[static |-> za, official |-> za, addon |-> zn],
   [static |-> zp, official |-> za, addon |-> zp]}
Lengths == (za :> 4) @@ (zp :> 2) @@ (zn :> 0)

(* The first document fails the validator with the newer table and cannot  *)
(* be augmented with the older; the second fails without a table.          *)
TableOrder == <<t1, t2>>
FlawedZips == {<<d1, t1>>, <<d2, NoTable>>}
UnusableZips == {<<d1, t2>>}

ASSUME Build!Connected
=============================================================================
