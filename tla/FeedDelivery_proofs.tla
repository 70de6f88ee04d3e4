------------------------- MODULE FeedDelivery_proofs -------------------------
(***************************************************************************)
(* The order of identifiers is the order of publication: what was renamed  *)
(* last sorts last, whatever restarts, fails and is pruned.  And a client  *)
(* that is told that its copy is current has the artifact it asked for.    *)
(***************************************************************************)
EXTENDS FeedDelivery, FiniteSetTheorems, WellFoundedInduction, TLAPS

Id == Nat \X Nat

(* The second below which the identifiers of an earlier life lie.          *)
Horizon == IF poll # None THEN poll ELSE Now

ClockInv ==
  /\ clock \in Nat /\ counter \in Nat
  /\ poll # None => poll \in Nat /\ poll <= Now

(* No identifier lies in the future, and one of the second in which the    *)
(* next may be taken has a counter that this process has passed.           *)
IdInv ==
  \A g \in kept :
    /\ g.id \in Id /\ g.id[1] <= Horizon
    /\ g.id[1] = Horizon => g.id[2] < counter

(* What was renamed last, if it is still there, is the newest.             *)
LastInv ==
  /\ \A g, h \in kept : g.id = h.id => g = h
  /\ \A g \in kept : g.id = newest =>
       \A h \in kept : h = g \/ Earlier(h.id, g.id)

Inv == ClockInv /\ IdInv /\ LastInv

-----------------------------------------------------------------------------
(* The order of two identifiers is strict.                                 *)
LEMMA EarlierIsStrict ==
  ASSUME NEW a \in Id, NEW b \in Id, Earlier(a, b)
  PROVE  a # b /\ ~Earlier(b, a)
  BY DEF Id, Earlier

(* Now is a number and grows with every tick.                              *)
LEMMA NowGrows ==
  ASSUME clock \in Nat
  PROVE  /\ Now \in Nat
         /\ clock' = clock => Now' = Now
         /\ clock' = clock + 1 => Now' \in Nat /\ Now' > Now
<1> DEFINE t == clock * TickSecs
<1>1. t \in Nat /\ (clock + 1) * TickSecs = t + TickSecs
  BY DeliveryAssumption, SMT
<1>2. Now = Start + t
  BY DEF Now
<1>3. clock' = clock => Now' = Now
  BY DEF Now
<1>4. ASSUME clock' = clock + 1 PROVE Now' = Start + (t + TickSecs)
  BY <1>1, <1>4 DEF Now
<1> HIDE DEF t
<1> QED
  BY <1>1, <1>2, <1>3, <1>4, DeliveryAssumption

(* What retention leaves was there before.                                 *)
LEMMA SurvivorsThere ==
  ASSUME NEW gens, NEW protected, NEW left \in Survivors(gens, protected)
  PROVE  left \subseteq gens
  BY DEF Survivors

(* The first counter is free, because this process has passed those of its *)
(* second; so none is skipped.                                             *)
LEMMA CounterFree ==
  ASSUME ClockInv, IdInv, NEW gens \in SUBSET kept, poll # None,
         counter < MaxIssued
  PROVE  NextCounter(poll, gens) = counter
<1> DEFINE free == {n \in counter .. MaxIssued :
                      <<poll, n>> \notin {g.id : g \in gens}}
<1>1. counter \in Nat /\ MaxIssued \in Nat
  BY DeliveryAssumption DEF ClockInv
<1>2. <<poll, counter>> \notin {g.id : g \in gens}
  <2> SUFFICES ASSUME NEW g \in gens, g.id = <<poll, counter>> PROVE FALSE
    OBVIOUS
  <2>1. g.id[1] = Horizon /\ g.id[2] = counter
    BY DEF Horizon
  <2>2. g.id[2] < counter
    BY <2>1 DEF IdInv
  <2> QED
    BY <1>1, <2>1, <2>2
<1>3. counter \in free /\ \A n \in free : counter <= n
  BY <1>1, <1>2
<1>4. \A m \in free : (\A n \in free : m <= n) => m = counter
  BY <1>1, <1>3
<1>5. NextCounter(poll, gens) = CHOOSE m \in free : \A n \in free : m <= n
  BY DEF NextCounter, Min
<1> HIDE DEF free
<1> QED
  BY <1>3, <1>4, <1>5

-----------------------------------------------------------------------------
(* At the start there is no generation.                                    *)
LEMMA InvInit == Init => Inv
  BY DEF Init, Inv, ClockInv, IdInv, LastInv

(* Steps that take no identifier and keep the counter.                     *)
LEMMA SameIds ==
  ASSUME Inv, kept' \subseteq kept, newest' = newest,
         ClockInv', counter' = counter, Horizon' >= Horizon,
         Horizon \in Nat, Horizon' \in Nat
  PROVE  Inv'
<1>1. IdInv'
  <2> SUFFICES ASSUME NEW g \in kept'
               PROVE  /\ g.id \in Id /\ g.id[1] <= Horizon'
                      /\ g.id[1] = Horizon' => g.id[2] < counter'
    BY DEF IdInv
  <2>1. /\ g.id \in Id /\ g.id[1] <= Horizon
        /\ g.id[1] = Horizon => g.id[2] < counter
    BY DEF Inv, IdInv
  <2>2. g.id[1] \in Nat
    BY <2>1 DEF Id
  <2> QED
    BY <2>1, <2>2
<1>2. LastInv'
  BY DEF Inv, LastInv, Earlier
<1> QED
  BY <1>1, <1>2 DEF Inv

(* The horizon is a number.                                                *)
LEMMA HorizonNat == ClockInv => Now \in Nat /\ Horizon \in Nat /\ Horizon <= Now
  BY NowGrows DEF ClockInv, Horizon

(* A tick, the start and the end of a poll only move the horizon up.       *)
LEMMA QuietSteps ==
  ASSUME Inv, Tick \/ BeginPoll \/ PollFails \/ Discover \/ Get \/ UNCHANGED vars
  PROVE  Inv'
<1>1. clock \in Nat /\ counter \in Nat /\ Now \in Nat /\ Horizon \in Nat
      /\ Horizon <= Now /\ (poll # None => poll \in Nat /\ poll <= Now)
  BY HorizonNat DEF Inv, ClockInv
<1>2. /\ clock' = clock => Now' = Now
      /\ clock' = clock + 1 => Now' \in Nat /\ Now' > Now
  BY <1>1, NowGrows
<1>3. kept' = kept /\ newest' = newest /\ counter' = counter
  BY DEF Tick, BeginPoll, PollFails, Discover, Get, vars
<1>4. clock' \in Nat /\ Now' \in Nat /\ Now' >= Now
  <2>1. clock' = clock \/ clock' = clock + 1
    BY DEF Tick, BeginPoll, PollFails, Discover, Get, vars
  <2> QED
    BY <1>1, <1>2, <2>1
<1>5. ClockInv' /\ Horizon' >= Horizon /\ Horizon' \in Nat
  <2>1. CASE poll' = poll
    BY <1>1, <1>3, <1>4, <2>1 DEF ClockInv, Horizon
  <2>2. CASE BeginPoll
    BY <1>1, <1>2, <1>3, <1>4, <2>2 DEF BeginPoll, ClockInv, Horizon
  <2>3. CASE PollFails
    BY <1>1, <1>3, <1>4, <2>3 DEF PollFails, ClockInv, Horizon
  <2> QED
    BY <2>1, <2>2, <2>3 DEF Tick, Discover, Get, vars
<1> QED
  BY <1>1, <1>3, <1>5, SameIds

(* A new process counts from zero, but in a later second.                  *)
LEMMA RestartStep == ASSUME Inv, Restart PROVE Inv'
<1>1. clock \in Nat /\ Now \in Nat /\ Horizon \in Nat /\ Horizon <= Now
  BY HorizonNat DEF Inv, ClockInv
<1>2. clock' = clock + 1 /\ counter' = 0 /\ poll' = None /\ newest' = newest
  BY DEF Restart
<1>3. Now' \in Nat /\ Now' > Now
  BY <1>1, <1>2, NowGrows
<1>4. kept' \subseteq kept
  BY SurvivorsThere DEF Restart
<1>5. ClockInv' /\ Horizon' = Now'
  BY <1>1, <1>2 DEF ClockInv, Horizon
<1>6. IdInv'
  <2> SUFFICES ASSUME NEW g \in kept'
               PROVE  g.id \in Id /\ g.id[1] < Horizon'
    BY <1>3, <1>5 DEF IdInv, Id
  <2>1. g.id \in Id /\ g.id[1] <= Horizon
    BY <1>4 DEF Inv, IdInv
  <2>2. g.id[1] \in Nat
    BY <2>1 DEF Id
  <2> QED
    BY <1>1, <1>3, <1>5, <2>1, <2>2
<1>7. LastInv'
  BY <1>2, <1>4 DEF Inv, LastInv, Earlier
<1> QED
  BY <1>5, <1>6, <1>7 DEF Inv

-----------------------------------------------------------------------------
(* Taking an identifier moves the horizon up to now, and the counter past  *)
(* the identifier.                                                         *)
LEMMA Taken ==
  ASSUME Inv, NEW gens \in SUBSET kept, TakeId(gens)
  PROVE  /\ ClockInv' /\ Horizon' = Now /\ NewId(gens) = <<poll, counter>>
         /\ counter \in Nat /\ counter' = counter + 1
         /\ poll \in Nat /\ Now \in Nat /\ poll <= Now /\ Horizon = poll
<1>1. counter \in Nat /\ clock \in Nat /\ Now \in Nat
  BY HorizonNat DEF Inv, ClockInv
<1>2. poll # None /\ poll \in Nat /\ poll <= Now /\ Horizon = poll
  BY DEF TakeId, Inv, ClockInv, Horizon
<1>3. NextCounter(poll, gens) = counter
  BY <1>2, CounterFree DEF Inv, TakeId
<1>4. counter' = counter + 1 /\ poll' = None /\ clock' = clock
  BY <1>3 DEF TakeId
<1>5. Now' = Now
  BY <1>4 DEF Now
<1> QED
  BY <1>1, <1>2, <1>3, <1>4, <1>5 DEF ClockInv, Horizon, NewId

(* What was there lies below the new identifier and below the horizon.     *)
LEMMA OldIds ==
  ASSUME Inv, NEW gens \in SUBSET kept, TakeId(gens), NEW g \in kept
  PROVE  /\ g.id \in Id /\ g.id[1] <= Horizon'
         /\ g.id[1] = Horizon' => g.id[2] < counter'
         /\ Earlier(g.id, NewId(gens))
<1>1. /\ g.id \in Id /\ g.id[1] <= Horizon
      /\ g.id[1] = Horizon => g.id[2] < counter
  BY DEF Inv, IdInv
<1>2. g.id[1] \in Nat /\ g.id[2] \in Nat
  BY <1>1 DEF Id
<1>3. Earlier(g.id, <<poll, counter>>)
  BY <1>1, <1>2, Taken DEF Earlier
<1> QED
  BY <1>1, <1>2, <1>3, Taken

(* A failed publication changes nothing but the counter.                   *)
LEMMA FailedStep == ASSUME Inv, PublishFails PROVE Inv'
<1>1. PICK gens \in Survivors(kept, serving) :
        TakeId(gens) /\ kept' = gens /\ UNCHANGED <<serving, newest>>
  BY DEF PublishFails
<1>2. gens \in SUBSET kept
  BY SurvivorsThere
<1>3. IdInv'
  BY <1>1, <1>2, OldIds DEF IdInv
<1>4. LastInv'
  BY <1>1, <1>2 DEF Inv, LastInv, Earlier
<1> QED
  BY <1>1, <1>2, <1>3, <1>4, Taken DEF Inv

(* A publication renames a directory that sorts after all the others.      *)
LEMMA PublishStep == ASSUME Inv, Publish PROVE Inv'
<1>1. PICK gens \in Survivors(kept, serving), body \in Bodies,
           committed \in BOOLEAN :
        LET g == [id |-> NewId(gens), body |-> body]
        IN  /\ TakeId(gens)
            /\ newest' = g.id
            /\ kept' \in IF committed THEN Survivors(gens \cup {g}, g)
                                      ELSE {gens \cup {g}}
  BY DEF Publish
<1> DEFINE new == [id |-> NewId(gens), body |-> body]
<1>2. gens \in SUBSET kept /\ TakeId(gens) /\ newest' = new.id
  BY <1>1, SurvivorsThere
<1>3. kept' \subseteq kept \cup {new}
  BY <1>1, <1>2, SurvivorsThere
<1>4. new.id = <<poll, counter>> /\ new.id = NewId(gens)
  BY <1>2, Taken
<1>5. IdInv'
  <2> SUFFICES ASSUME NEW g \in kept'
               PROVE  /\ g.id \in Id /\ g.id[1] <= Horizon'
                      /\ g.id[1] = Horizon' => g.id[2] < counter'
    BY DEF IdInv
  <2>1. CASE g \in kept
    BY <1>2, <2>1, OldIds
  <2>2. CASE g = new
    BY <1>2, <1>4, <2>2, Taken DEF Id
  <2> QED
    BY <1>3, <2>1, <2>2
<1>6. \A g \in kept : Earlier(g.id, new.id) /\ g.id \in Id /\ g.id # new.id
  <2> SUFFICES ASSUME NEW g \in kept
               PROVE  Earlier(g.id, new.id) /\ g.id \in Id /\ g.id # new.id
    OBVIOUS
  <2>1. Earlier(g.id, new.id) /\ g.id \in Id
    BY <1>2, <1>4, OldIds
  <2>2. new.id \in Id
    BY <1>2, <1>4, Taken DEF Id
  <2> HIDE DEF new
  <2> QED
    BY <2>1, <2>2, EarlierIsStrict
<1> HIDE DEF new
<1>7. \A g, h \in kept' : g.id = h.id => g = h
  BY <1>3, <1>6 DEF Inv, LastInv
<1>8. \A g \in kept' : g.id = newest' =>
        \A h \in kept' : h = g \/ Earlier(h.id, g.id)
  BY <1>2, <1>3, <1>6
<1>9. LastInv'
  BY <1>7, <1>8 DEF LastInv, Earlier
<1> QED
  BY <1>2, <1>5, <1>9, Taken DEF Inv

(* Every step keeps the invariant.                                         *)
LEMMA InvStep == Inv /\ [Next]_vars => Inv'
<1> SUFFICES ASSUME Inv, [Next]_vars PROVE Inv'
  OBVIOUS
<1>1. CASE Publish
  BY <1>1, PublishStep
<1>2. CASE PublishFails
  BY <1>2, FailedStep
<1>3. CASE Restart
  BY <1>3, RestartStep
<1>4. CASE Tick \/ BeginPoll \/ PollFails \/ Discover \/ Get \/ UNCHANGED vars
  BY <1>4, QuietSteps
<1> QED
  BY <1>1, <1>2, <1>3, <1>4 DEF Next

(* The invariant says that what CHOOSE picks is what was renamed last.     *)
LEMMA InvImplies == Inv => NewestIsLast
<1> SUFFICES ASSUME Inv PROVE NewestIsLast
  OBVIOUS
<1>1. ASSUME NEW g \in kept, g.id = newest PROVE NewestKept = g
  <2> DEFINE Top(m) == \A h \in kept : h = m \/ Earlier(h.id, m.id)
  <2>1. Top(g)
    BY <1>1 DEF Inv, LastInv
  <2>2. ASSUME NEW m \in kept, Top(m) PROVE m = g
    <3>1. g.id \in Id /\ m.id \in Id
      BY DEF Inv, IdInv
    <3>2. m = g \/ (Earlier(m.id, g.id) /\ Earlier(g.id, m.id))
      BY <2>1, <2>2
    <3> QED
      BY <3>1, <3>2, EarlierIsStrict
  <2>3. NewestKept = CHOOSE m \in kept : Top(m)
    BY DEF NewestKept
  <2> HIDE DEF Top
  <2> QED
    BY <2>1, <2>2, <2>3
<1> QED
  BY <1>1 DEF Inv, LastInv, NewestIsLast

(* Recovery and retention order generations as they were published, for    *)
(* every clock that is not set back, every number of generations and       *)
(* every bound (generation_order).                                         *)
THEOREM NewestAlwaysLast == Spec => []NewestIsLast
<1>1. Inv /\ [Next]_vars => Inv'
  BY InvStep
<1> QED
  BY InvInit, <1>1, InvImplies, PTL DEF Spec

-----------------------------------------------------------------------------
(* A set of integers that is not empty and has a bound has a greatest      *)
(* element, and Max is it.                                                 *)
LEMMA GreatestOf ==
  ASSUME NEW S \in SUBSET Int, S # {}, NEW b \in Int, \A x \in S : x <= b
  PROVE  Max(S) \in S /\ \A x \in S : x <= Max(S)
<1> DEFINE T == {b - x : x \in S}
<1> DEFINE R == OpToRel(<, Nat)
<1>1. T \in SUBSET Nat /\ T # {}
  OBVIOUS
<1>2. IsWellFoundedOn(R, Nat)
  BY NatLessThanWellFounded
<1>3. \A x, y \in Nat : <<y, x>> \in R <=> y < x
  BY DEF OpToRel
<1> HIDE DEF R
<1>4. PICK m \in T : \A n \in T : ~(<<n, m>> \in R)
  BY <1>1, <1>2, WFMin
<1>5. PICK top \in S : m = b - top
  OBVIOUS
<1>6. ASSUME NEW x \in S PROVE x <= top
  <2>1. b - x \in T /\ b - x \in Nat /\ m \in Nat
    BY <1>1
  <2>2. ~(b - x < m)
    BY <1>3, <1>4, <2>1
  <2> QED
    BY <1>5, <2>1, <2>2
<1>7. Max(S) = CHOOSE x \in S : \A y \in S : x >= y
  BY DEF Max
<1>8. top \in S /\ \A y \in S : top >= y
  BY <1>6
<1> HIDE DEF T
<1> QED
  BY <1>7, <1>8

(* A year starts at least 365 days after the one before it.                *)
LEMMA YearStartBound ==
  ASSUME NEW y \in Nat, y >= 1970
  PROVE  YearStart(y) \in Nat /\ YearStart(y) >= 365 * (y - 1970)
<1> DEFINE leaps == {x \in 1970 .. y - 1 : IsLeap(x)}
<1>1. 1970 \in Int /\ y - 1 \in Int
  OBVIOUS
<1>2. IsFiniteSet(1970 .. y - 1)
  BY <1>1, FS_Interval
<1>3. IsFiniteSet(leaps)
  BY <1>2, FS_Subset
<1>4. Cardinality(leaps) \in Nat
  BY <1>3, FS_CardinalityType
<1>5. YearStart(y) = 365 * (y - 1970) + Cardinality(leaps)
  BY DEF YearStart
<1> HIDE DEF leaps
<1> QED
  BY <1>4, <1>5

(* A month starts within its year, the first of them with it.              *)
LEMMA MonthStartType ==
  /\ \A y, m : m \in 1 .. 12 => MonthStart(y, m) \in Nat
  /\ \A y : MonthStart(y, 1) = 0
  BY DEF MonthStart

(* What http_date writes is read back as the same second.                  *)
LEMMA DateRoundTrip ==
  ASSUME NEW u \in Nat, u >= Start
  PROVE  ParseHttpDate(HttpDate(u)) = u
<1> DEFINE days == u \div 86400
<1> DEFINE years == {y \in Years : YearStart(y) <= days}
<1> DEFINE year == Max(years)
<1> DEFINE rest == days - YearStart(year)
<1> DEFINE months == {i \in 1 .. 12 : MonthStart(year, i) <= rest}
<1> DEFINE month == Max(months)
<1>1. /\ days \in Nat /\ days >= Start \div 86400 /\ Start \div 86400 \in Nat
      /\ u % 86400 \in Nat /\ u = (days * 86400) + (u % 86400)
  BY DeliveryAssumption
<1>2. \A y \in Years : y \in Nat /\ y >= 1970 /\ YearStart(y) \in Nat
                     /\ YearStart(y) >= 365 * (y - 1970)
  BY YearsAssumption, YearStartBound
<1>3. years # {}
  <2>1. PICK y \in Years : YearStart(y) <= Start \div 86400
    BY YearsAssumption
  <2>2. YearStart(y) \in Nat
    BY <1>2
  <2>3. YearStart(y) <= days
    BY <1>1, <2>1, <2>2
  <2> QED
    BY <2>3
<1>4. \A y \in years : y \in Int /\ y <= days + 1970
  <2> SUFFICES ASSUME NEW y \in years PROVE y \in Int /\ y <= days + 1970
    OBVIOUS
  <2>1. y \in Nat /\ y >= 1970 /\ YearStart(y) \in Nat
        /\ YearStart(y) >= 365 * (y - 1970) /\ YearStart(y) <= days
    BY <1>2
  <2> HIDE DEF years, days
  <2> QED
    BY <1>1, <2>1
<1> HIDE DEF days
<1>5. year \in years
  <2> DEFINE latest == days + 1970
  <2>1. years \in SUBSET Int /\ latest \in Int
    BY <1>1, <1>4
  <2>2. \A y \in years : y <= latest
    BY <1>4
  <2> HIDE DEF years, days, latest, rest, months, month
  <2> QED
    BY <1>3, <2>1, <2>2, GreatestOf
<1>6. YearStart(year) \in Nat /\ YearStart(year) <= days
  BY <1>2, <1>5
<1> HIDE DEF year
<1>7. rest \in Nat
  BY <1>1, <1>6
<1> HIDE DEF rest
<1>8. 1 \in months /\ \A i \in months : i \in Int /\ i <= 12
  BY <1>7, MonthStartType
<1>9. month \in months
  <2>1. months \in SUBSET Int /\ months # {} /\ 12 \in Int
    BY <1>8
  <2> HIDE DEF months
  <2> QED
    BY <1>8, <2>1, GreatestOf
<1>10. MonthStart(year, month) \in Nat
  BY <1>9, MonthStartType
<1>11. HttpDate(u) = [year |-> year, month |-> month,
                      day |-> rest - MonthStart(year, month) + 1,
                      secs |-> u % 86400]
  BY DEF HttpDate, year, rest, days
<1> HIDE DEF month, months
<1> DEFINE ms == MonthStart(year, month)
<1>12. ParseHttpDate(HttpDate(u))
         = ((YearStart(year) + ms + (rest - ms + 1) - 1) * 86400) + (u % 86400)
  BY <1>11 DEF ParseHttpDate
<1>13. ms \in Nat
  BY <1>10
<1>14. rest = days - YearStart(year)
  BY DEF rest
<1> HIDE DEF ms
<1> QED
  BY <1>1, <1>6, <1>7, <1>12, <1>13, <1>14

-----------------------------------------------------------------------------
(* The generations on the volume, the one that is served among them.       *)
VolumeInv ==
  /\ \A g \in kept : /\ g \in [id : Id, body : Bodies]
                    /\ g.id[1] >= Start /\ g.id[2] <= MaxIssued
  /\ serving # None => serving \in kept
  /\ poll # None => poll >= Start

(* What a client knows of is not younger than what is served, and its copy *)
(* not younger than what it knows of.                                      *)
ClientInv ==
  /\ client = [manifest |-> client.manifest, copy |-> client.copy,
               asked |-> client.asked, byDate |-> client.byDate,
               status |-> client.status]
  /\ client.manifest # None =>
       /\ client.manifest \in Id
       /\ serving # None /\ client.manifest[1] <= serving.id[1]
  /\ client.copy # None =>
       /\ client.manifest # None
       /\ \E c \in Nat : /\ c >= Start /\ c <= client.manifest[1]
                        /\ client.copy.modified = HttpDate(c)

CopyInv == VolumeInv /\ ClientInv /\ CopyCurrent

(* Retention never prunes what it is told to protect.                      *)
LEMMA SurvivorsKeep ==
  ASSUME NEW gens, NEW protected \in gens, NEW left \in Survivors(gens, protected)
  PROVE  protected \in left
  BY DEF Survivors

(* Generations with identifiers of their own have a newest one.            *)
LEMMA NewestThere ==
  ASSUME Inv, VolumeInv, kept # {}
  PROVE  /\ NewestKept \in kept
         /\ \A h \in kept : h = NewestKept \/ Earlier(h.id, NewestKept.id)
<1> DEFINE seconds == {g.id[1] : g \in kept}
<1> DEFINE last == Max(seconds)
<1> DEFINE counters == {g.id[2] : g \in {h \in kept : h.id[1] = last}}
<1> DEFINE top == Max(counters)
<1>1. Horizon \in Nat /\ MaxIssued \in Nat
  BY HorizonNat, DeliveryAssumption DEF Inv
<1>2. \A g \in kept : /\ g.id[1] \in Nat /\ g.id[2] \in Nat
                     /\ g.id[1] <= Horizon /\ g.id[2] <= MaxIssued
                     /\ g.id = <<g.id[1], g.id[2]>>
  BY DEF Inv, IdInv, VolumeInv, Id
<1>3. last \in seconds /\ \A x \in seconds : x <= last
  <2>1. seconds \in SUBSET Int /\ seconds # {} /\ Horizon \in Int
        /\ \A x \in seconds : x <= Horizon
    BY <1>1, <1>2
  <2> HIDE DEF seconds
  <2> QED
    BY <2>1, GreatestOf
<1> HIDE DEF last
<1>4. top \in counters /\ \A x \in counters : x <= top
  <2>1. counters \in SUBSET Int /\ counters # {} /\ MaxIssued \in Int
        /\ \A x \in counters : x <= MaxIssued
    BY <1>1, <1>2, <1>3
  <2> HIDE DEF counters
  <2> QED
    BY <2>1, GreatestOf
<1> HIDE DEF top
<1>5. PICK g \in kept : g.id[1] = last /\ g.id[2] = top
  BY <1>4
<1>6. ASSUME NEW h \in kept PROVE h = g \/ Earlier(h.id, g.id)
  <2>1. /\ h.id[1] \in Nat /\ h.id[2] \in Nat
        /\ g.id[1] \in Nat /\ g.id[2] \in Nat
        /\ h.id[1] <= last
    BY <1>2, <1>3
  <2>2. CASE h.id[1] = last /\ h.id[2] = top
    BY <1>2, <1>5, <2>2 DEF Inv, LastInv
  <2>3. CASE h.id[1] = last /\ h.id[2] # top
    <3>1. h.id[2] <= top
      BY <1>4, <2>3
    <3> QED
      BY <1>5, <2>1, <2>3, <3>1 DEF Earlier
  <2>4. CASE h.id[1] # last
    BY <1>5, <2>1, <2>4 DEF Earlier
  <2> QED
    BY <2>2, <2>3, <2>4
<1>7. NewestKept = CHOOSE m \in kept : \A h \in kept : h = m \/ Earlier(h.id, m.id)
  BY DEF NewestKept
<1> QED
  BY <1>6, <1>7

-----------------------------------------------------------------------------
(* At the start nobody has seen anything.                                  *)
LEMMA CopyInit == Init => CopyInv
  BY DeliveryAssumption
     DEF Init, CopyInv, VolumeInv, ClientInv, CopyCurrent

(* A step of the publisher that serves nothing older keeps what the client *)
(* knows true.                                                             *)
LEMMA ClientUntouched ==
  ASSUME ClientInv, CopyCurrent, client' = client,
         serving # None => serving' # None /\ serving.id[1] <= serving'.id[1],
         serving # None => serving.id[1] \in Nat /\ serving'.id[1] \in Nat
  PROVE  ClientInv' /\ CopyCurrent'
<1>1. CopyCurrent'
  BY DEF CopyCurrent, HttpDate
<1>2. client.manifest # None => client.manifest[1] \in Nat
  BY DEF ClientInv, Id
<1>3. ClientInv'
  BY <1>2 DEF ClientInv
<1> QED
  BY <1>1, <1>3

(* Steps of the publisher that leave the volume alone, and a publication   *)
(* that fails.                                                             *)
LEMMA CopyQuiet ==
  ASSUME Inv, CopyInv,
         Tick \/ BeginPoll \/ PollFails \/ PublishFails \/ UNCHANGED vars
  PROVE  CopyInv'
<1>1. kept' \subseteq kept /\ (serving # None => serving \in kept')
  BY SurvivorsThere, SurvivorsKeep
     DEF Tick, BeginPoll, PollFails, PublishFails, vars, CopyInv, VolumeInv
<1>2. serving' = serving /\ client' = client
  BY DEF Tick, BeginPoll, PollFails, PublishFails, TakeId, vars
<1>3. Start \in Nat /\ clock \in Nat /\ TickSecs \in Nat
  BY DeliveryAssumption DEF Inv, ClockInv
<1>4. Now >= Start
  <2> DEFINE t == clock * TickSecs
  <2>1. t \in Nat /\ Now = Start + t
    BY <1>3, SMT DEF Now
  <2> HIDE DEF t
  <2> QED
    BY <1>3, <2>1
<1>5. poll' # None => poll' >= Start
  BY <1>4 DEF Tick, BeginPoll, PollFails, PublishFails, TakeId, vars,
              CopyInv, VolumeInv
<1>6. VolumeInv'
  BY <1>1, <1>2, <1>5 DEF CopyInv, VolumeInv
<1>7. serving # None => serving.id[1] \in Nat
  BY DEF CopyInv, VolumeInv, Id
<1>8. ClientInv' /\ CopyCurrent'
  BY <1>2, <1>7, ClientUntouched DEF CopyInv
<1> QED
  BY <1>6, <1>8 DEF CopyInv

(* What a publication serves began in a later second than what was served, *)
(* or in the same one.                                                     *)
LEMMA CopyPublish == ASSUME Inv, CopyInv, Publish PROVE CopyInv'
<1>1. PICK gens \in Survivors(kept, serving), body \in Bodies,
           committed \in BOOLEAN :
        LET g == [id |-> NewId(gens), body |-> body]
        IN  /\ TakeId(gens)
            /\ serving' = IF committed THEN g ELSE serving
            /\ kept' \in IF committed THEN Survivors(gens \cup {g}, g)
                                      ELSE {gens \cup {g}}
  BY DEF Publish
<1> DEFINE new == [id |-> NewId(gens), body |-> body]
<1>2. gens \in SUBSET kept /\ TakeId(gens)
  BY <1>1, SurvivorsThere
<1>3. /\ NewId(gens) = <<poll, counter>> /\ poll \in Nat /\ counter \in Nat
      /\ Horizon = poll
  BY <1>2, Taken
<1>4. poll # None /\ counter < MaxIssued /\ client' = client /\ poll' = None
  BY <1>2 DEF TakeId
<1>5. new \in [id : Id, body : Bodies] /\ new.id[1] = poll /\ new.id[2] = counter
  BY <1>3 DEF Id
<1>6. serving' = (IF committed THEN new ELSE serving)
      /\ kept' \subseteq gens \cup {new}
  BY <1>1, SurvivorsThere
<1>7. serving' # None => serving' \in kept'
  <2>1. CASE committed
    <3>1. kept' \in Survivors(gens \cup {new}, new) /\ serving' = new
      BY <1>1, <2>1
    <3> HIDE DEF new
    <3> QED
      BY <3>1, SurvivorsKeep
  <2>2. CASE ~committed
    <3>1. kept' = gens \cup {new} /\ serving' = serving
      BY <1>1, <2>2
    <3>2. serving # None => serving \in gens
      BY SurvivorsKeep DEF CopyInv, VolumeInv
    <3> QED
      BY <3>1, <3>2
  <2> QED
    BY <2>1, <2>2
<1> HIDE DEF new
<1>8. VolumeInv'
  <2>1. \A g \in kept' : /\ g \in [id : Id, body : Bodies]
                        /\ g.id[1] >= Start /\ g.id[2] <= MaxIssued
    <3>1. counter <= MaxIssued /\ poll >= Start
      BY <1>3, <1>4, DeliveryAssumption DEF CopyInv, VolumeInv
    <3> QED
      BY <1>2, <1>5, <1>6, <3>1 DEF CopyInv, VolumeInv
  <2> QED
    BY <1>4, <1>7, <2>1 DEF VolumeInv
<1>9. serving # None => /\ serving' # None /\ serving.id[1] <= serving'.id[1]
                        /\ serving.id[1] \in Nat /\ serving'.id[1] \in Nat
  <2> SUFFICES ASSUME serving # None
               PROVE  /\ serving' # None /\ serving.id[1] <= serving'.id[1]
                      /\ serving.id[1] \in Nat /\ serving'.id[1] \in Nat
    OBVIOUS
  <2>1. serving.id[1] \in Nat /\ serving.id[1] <= poll
    BY <1>3 DEF CopyInv, VolumeInv, Inv, IdInv, Id
  <2>2. new # None
    BY <1>5, DeliveryAssumption DEF Id
  <2> QED
    BY <1>3, <1>5, <1>6, <2>1, <2>2
<1> QED
  BY <1>4, <1>8, <1>9, ClientUntouched DEF CopyInv

(* A restart serves what was served or something newer.                    *)
LEMMA CopyRestart == ASSUME Inv, CopyInv, Restart PROVE CopyInv'
<1>1. /\ serving' \in IF kept = {} THEN {None}
                      ELSE {NewestKept} \cup ({serving} \ {None})
      /\ kept' \in Survivors(kept, serving')
      /\ client' = client /\ poll' = None
  BY DEF Restart
<1>2. kept' \subseteq kept
  BY <1>1, SurvivorsThere
<1>3. /\ kept = {} => serving = None /\ serving' = None
      /\ kept # {} => serving' \in kept
                     /\ (serving # None => serving.id[1] <= serving'.id[1]
                                           /\ serving.id[1] \in Nat
                                           /\ serving'.id[1] \in Nat)
  <2>1. CASE kept = {}
    BY <1>1, <2>1 DEF CopyInv, VolumeInv
  <2>2. CASE kept # {}
    <3>1. /\ NewestKept \in kept
          /\ \A h \in kept : h = NewestKept \/ Earlier(h.id, NewestKept.id)
      BY <2>2, NewestThere DEF CopyInv
    <3>2. \A h \in kept : h.id[1] \in Nat
      BY DEF CopyInv, VolumeInv, Id
    <3>3. serving # None => serving \in kept
      BY DEF CopyInv, VolumeInv
    <3>4. serving' = NewestKept \/ (serving' = serving /\ serving # None)
      BY <1>1, <2>2
    <3>5. \A h \in kept : h.id[1] <= NewestKept.id[1]
      BY <3>1, <3>2 DEF Earlier
    <3> QED
      BY <2>2, <3>1, <3>2, <3>3, <3>4, <3>5
  <2> QED
    BY <2>1, <2>2
<1>4. serving' # None => serving' \in kept'
  BY <1>1, <1>3, SurvivorsKeep
<1>5. VolumeInv'
  BY <1>1, <1>2, <1>4 DEF CopyInv, VolumeInv
<1>6. serving # None => serving' # None
  <2> SUFFICES ASSUME serving # None PROVE serving' # None
    OBVIOUS
  <2>1. serving' \in kept /\ None \notin [id : Id, body : Bodies]
    BY <1>3, DeliveryAssumption DEF Id
  <2> QED
    BY <2>1 DEF CopyInv, VolumeInv
<1>7. serving # None => kept # {}
  BY <1>3
<1>8. ClientInv' /\ CopyCurrent'
  BY <1>1, <1>3, <1>6, <1>7, ClientUntouched DEF CopyInv
<1> QED
  BY <1>5, <1>8 DEF CopyInv

(* Discovery names what is served.                                         *)
LEMMA CopyDiscover == ASSUME CopyInv, Discover PROVE CopyInv'
<1>1. VolumeInv'
  BY DEF Discover, CopyInv, VolumeInv
<1>2. None # 304
  BY DeliveryAssumption
<1>3. CASE serving = None
  <2>1. client' = [client EXCEPT !.status = 503, !.asked = None] /\ serving' = serving
    BY <1>3 DEF Discover
  <2>2. client' = [manifest |-> client.manifest, copy |-> client.copy,
                   asked |-> None, byDate |-> client.byDate, status |-> 503]
    BY <2>1 DEF CopyInv, ClientInv
  <2>3. /\ client'.manifest = client.manifest /\ client'.copy = client.copy
        /\ client'.status = 503
        /\ client' = [manifest |-> client'.manifest, copy |-> client'.copy,
                      asked |-> client'.asked, byDate |-> client'.byDate,
                      status |-> client'.status]
    BY <2>2
  <2>4. ClientInv'
    BY <2>1, <2>3 DEF CopyInv, ClientInv
  <2>5. CopyCurrent'
    BY <2>3 DEF CopyCurrent
  <2> QED
    BY <1>1, <2>4, <2>5 DEF CopyInv
<1>4. CASE serving # None
  <2>1. client' = [client EXCEPT !.manifest = serving.id, !.asked = None,
                                 !.status = None] /\ serving' = serving
    BY <1>4 DEF Discover
  <2>2. client' = [manifest |-> serving.id, copy |-> client.copy,
                   asked |-> None, byDate |-> client.byDate, status |-> None]
    BY <2>1 DEF CopyInv, ClientInv
  <2>3. serving.id \in Id /\ serving.id[1] \in Nat
    BY <1>4 DEF CopyInv, VolumeInv, Id
  <2>4. ASSUME client.copy # None
        PROVE  \E c \in Nat : /\ c >= Start /\ c <= serving.id[1]
                             /\ client.copy.modified = HttpDate(c)
    <3>1. client.manifest[1] \in Nat /\ client.manifest[1] <= serving.id[1]
      BY <2>4 DEF CopyInv, ClientInv, Id
    <3>2. PICK c \in Nat : /\ c >= Start /\ c <= client.manifest[1]
                          /\ client.copy.modified = HttpDate(c)
      BY <2>4 DEF CopyInv, ClientInv
    <3>3. c <= serving.id[1]
      BY <2>3, <3>1, <3>2
    <3> QED
      BY <3>2, <3>3
  <2>5. serving.id # None
    BY <2>3, DeliveryAssumption DEF Id
  <2>6. ClientInv'
    <3>1. client'.manifest \in Id /\ serving' # None
          /\ client'.manifest[1] <= serving'.id[1]
      BY <1>4, <2>1, <2>2, <2>3
    <3>2. client'.copy = client.copy /\ client'.manifest = serving.id
      BY <2>2
    <3>3. client'.copy # None =>
            /\ client'.manifest # None
            /\ \E c \in Nat : /\ c >= Start /\ c <= client'.manifest[1]
                             /\ client'.copy.modified = HttpDate(c)
      BY <2>4, <2>5, <3>2
    <3>4. client' = [manifest |-> client'.manifest, copy |-> client'.copy,
                     asked |-> client'.asked, byDate |-> client'.byDate,
                     status |-> client'.status]
      BY <2>2
    <3> QED
      BY <3>1, <3>3, <3>4 DEF ClientInv
  <2>7. CopyCurrent'
    BY <1>2, <2>2 DEF CopyCurrent
  <2> QED
    BY <1>1, <2>6, <2>7 DEF CopyInv
<1> QED
  BY <1>3, <1>4

(* A 304 that went by the date compares a second not after the poll of the *)
(* generation with that poll: they are the same.                           *)
LEMMA CopyGet == ASSUME CopyInv, Get PROVE CopyInv'
<1>1. PICK usesEtag \in BOOLEAN, usesDate \in BOOLEAN :
        LET found == {g \in kept : g.id = client.manifest}
            g == CHOOSE x \in found : TRUE
            etag == IF usesEtag /\ client.copy # None THEN client.copy.body ELSE None
            since == IF usesDate /\ client.copy # None THEN client.copy.modified ELSE None
        IN  client' =
              IF serving = None THEN [client EXCEPT !.status = 503, !.asked = None]
              ELSE IF found = {} THEN [client EXCEPT !.status = 404, !.asked = None]
              ELSE IF NotModified(g, etag, since)
                THEN [client EXCEPT !.status = 304, !.asked = g,
                                    !.byDate = since # None]
                ELSE [client EXCEPT !.status = 200, !.asked = g,
                        !.copy = [body |-> g.body, modified |-> LastModified(g)]]
  BY DEF Get
<1> DEFINE found == {g \in kept : g.id = client.manifest}
           g == CHOOSE x \in found : TRUE
           etag == IF usesEtag /\ client.copy # None THEN client.copy.body ELSE None
           since == IF usesDate /\ client.copy # None THEN client.copy.modified ELSE None
<1>2. client.manifest # None /\ serving' = serving /\ VolumeInv'
  BY DEF Get, CopyInv, VolumeInv
<1>3. /\ client = [manifest |-> client.manifest, copy |-> client.copy,
                   asked |-> client.asked, byDate |-> client.byDate,
                   status |-> client.status]
      /\ client.manifest \in Id /\ client.manifest[1] \in Nat
  BY <1>2 DEF CopyInv, ClientInv, Id
<1>4. CASE serving = None \/ found = {}
  <2>1. PICK code \in {404, 503} :
          client' = [client EXCEPT !.status = code, !.asked = None]
    BY <1>1, <1>4
  <2>2. client' = [manifest |-> client.manifest, copy |-> client.copy,
                   asked |-> None, byDate |-> client.byDate, status |-> code]
    BY <1>3, <2>1
  <2> QED
    BY <1>2, <2>2 DEF CopyInv, ClientInv, CopyCurrent
<1>5. CASE serving # None /\ found # {}
  <2>1. g \in kept /\ g.id = client.manifest /\ g.body \in Bodies
    BY <1>5 DEF CopyInv, VolumeInv
  <2> HIDE DEF g
  <2>2. CASE NotModified(g, etag, since)
    <3>1. client' = [client EXCEPT !.status = 304, !.asked = g,
                                   !.byDate = since # None]
      BY <1>1, <1>5, <2>2 DEF g
    <3>2. client' = [manifest |-> client.manifest, copy |-> client.copy,
                     asked |-> g, byDate |-> since # None, status |-> 304]
      BY <1>3, <3>1
    <3>3. ClientInv'
      BY <1>2, <3>2 DEF CopyInv, ClientInv
    <3>4. CASE etag = g.body
      <4>1. client.copy.body = g.body
        BY <2>1, <3>4, DeliveryAssumption
      <4> QED
        BY <1>2, <3>2, <3>3, <4>1 DEF CopyInv, CopyCurrent
    <3>5. CASE since # None /\ ParseHttpDate(since) >= g.id[1]
      <4>1. client.copy # None /\ since = client.copy.modified
        BY <3>5
      <4>2. PICK c \in Nat : /\ c >= Start /\ c <= client.manifest[1]
                            /\ client.copy.modified = HttpDate(c)
        BY <4>1 DEF CopyInv, ClientInv
      <4>3. ParseHttpDate(since) = c
        BY <4>1, <4>2, DateRoundTrip
      <4>4. c = g.id[1]
        BY <1>3, <2>1, <3>5, <4>2, <4>3
      <4>5. client'.byDate /\ client'.copy.modified = HttpDate(client'.asked.id[1])
        BY <3>2, <3>5, <4>2, <4>4
      <4>6. CopyCurrent'
        BY <4>5 DEF CopyCurrent, HttpDate
      <4> QED
        BY <1>2, <3>3, <4>6 DEF CopyInv
    <3> QED
      BY <2>2, <3>4, <3>5 DEF NotModified
  <2>3. CASE ~NotModified(g, etag, since)
    <3>1. client' = [client EXCEPT !.status = 200, !.asked = g,
                       !.copy = [body |-> g.body, modified |-> LastModified(g)]]
      BY <1>1, <1>5, <2>3 DEF g
    <3>2. client' = [manifest |-> client.manifest,
                     copy |-> [body |-> g.body, modified |-> LastModified(g)],
                     asked |-> g, byDate |-> client.byDate, status |-> 200]
      BY <1>3, <3>1
    <3>3. g.id[1] \in Nat /\ g.id[1] >= Start /\ g.id[1] <= client.manifest[1]
          /\ LastModified(g) = HttpDate(g.id[1])
      BY <1>3, <2>1 DEF CopyInv, VolumeInv, LastModified
    <3>4. ClientInv'
      BY <1>2, <3>2, <3>3 DEF CopyInv, ClientInv
    <3>5. CopyCurrent'
      BY <3>2 DEF CopyCurrent
    <3> QED
      BY <1>2, <3>4, <3>5 DEF CopyInv
  <2> QED
    BY <2>2, <2>3
<1> QED
  BY <1>4, <1>5

(* Every step keeps the invariant.                                         *)
LEMMA CopyStep == Inv /\ CopyInv /\ [Next]_vars => CopyInv'
<1> SUFFICES ASSUME Inv, CopyInv, [Next]_vars PROVE CopyInv'
  OBVIOUS
<1>1. CASE Tick \/ BeginPoll \/ PollFails \/ PublishFails \/ UNCHANGED vars
  BY <1>1, CopyQuiet
<1>2. CASE Publish
  BY <1>2, CopyPublish
<1>3. CASE Restart
  BY <1>3, CopyRestart
<1>4. CASE Discover
  BY <1>4, CopyDiscover
<1>5. CASE Get
  BY <1>5, CopyGet
<1> QED
  BY <1>1, <1>2, <1>3, <1>4, <1>5 DEF Next

(* A client that is told 304 has the bytes it asked for, or went by a date *)
(* that is the second in which that generation's poll began, in every      *)
(* order of polls, failed publications, restarts, discoveries and requests *)
(* (cached_bytes, http_date and the parser of the date).                   *)
THEOREM CopyAlwaysCurrent == Spec => []CopyCurrent
<1>1. Init => Inv /\ CopyInv
  BY InvInit, CopyInit
<1>2. (Inv /\ CopyInv) /\ [Next]_vars => (Inv /\ CopyInv)'
  BY InvStep, CopyStep
<1>3. CopyInv => CopyCurrent
  BY DEF CopyInv
<1> QED
  BY <1>1, <1>2, <1>3, PTL DEF Spec

-----------------------------------------------------------------------------
(* The clock, the counter and the poll stay in their ranges, and what is   *)
(* served lies on the volume (GenerationStore::current, GENERATION_COUNTER).*)
THEOREM TypeCorrect == Spec => []TypeOK
<1> DEFINE T == /\ clock \in 0 .. MaxTicks /\ counter \in 0 .. MaxIssued
                /\ poll \in {None} \cup {Start + i * TickSecs : i \in 0 .. clock}
                /\ client.status \in {None, 200, 304, 404, 503}
<1>1. Init => Inv /\ CopyInv /\ T
  BY InvInit, CopyInit, DeliveryAssumption DEF Init
<1>2. ASSUME Inv, CopyInv, T, [Next]_vars PROVE T'
  <2>1. /\ clock \in Nat /\ counter \in Nat /\ clock <= MaxTicks
        /\ MaxTicks \in Nat /\ MaxIssued \in Nat
    BY <1>2, DeliveryAssumption
  <2>2. ASSUME NEW gens \in SUBSET kept, TakeId(gens)
        PROVE  /\ counter' \in 0 .. MaxIssued /\ poll' = None
               /\ clock' = clock /\ client' = client
    BY <1>2, <2>1, <2>2, Taken DEF TakeId
  <2>3. CASE Tick
    <3>1. clock' = clock + 1 /\ clock < MaxTicks /\ counter' = counter
          /\ poll' = poll /\ client' = client
      BY <2>3 DEF Tick
    <3>2. 0 .. clock \subseteq 0 .. clock'
      BY <2>1, <3>1
    <3> QED
      BY <1>2, <2>1, <3>1, <3>2
  <2>4. CASE BeginPoll
    <3>1. poll' = Start + clock * TickSecs /\ clock \in 0 .. clock
      BY <2>1, <2>4 DEF BeginPoll, Now
    <3> QED
      BY <1>2, <2>4, <3>1 DEF BeginPoll
  <2>5. CASE PollFails
    BY <1>2, <2>5 DEF PollFails
  <2>6. CASE PublishFails
    BY <1>2, <2>2, <2>6, SurvivorsThere DEF PublishFails
  <2>7. CASE Publish
    BY <1>2, <2>2, <2>7, SurvivorsThere DEF Publish
  <2>8. CASE Restart
    BY <1>2, <2>1, <2>8 DEF Restart
  <2>9. CASE Discover \/ Get
    <3>1. clock' = clock /\ counter' = counter /\ poll' = poll
      BY <2>9 DEF Discover, Get
    <3>2. client = [manifest |-> client.manifest, copy |-> client.copy,
                    asked |-> client.asked, byDate |-> client.byDate,
                    status |-> client.status]
      BY <1>2 DEF CopyInv, ClientInv
    <3>3. client'.status \in {None, 200, 304, 404, 503}
      <4>1. CASE Discover
        <5>1. CASE serving = None
          BY <3>2, <4>1, <5>1 DEF Discover
        <5>2. CASE serving # None
          BY <3>2, <4>1, <5>2 DEF Discover
        <5> QED
          BY <5>1, <5>2
      <4>2. CASE Get
        BY <3>2, <4>2 DEF Get
      <4> QED
        BY <2>9, <4>1, <4>2
    <3> QED
      BY <1>2, <3>1, <3>3
  <2>10. CASE UNCHANGED vars
    BY <1>2, <2>10 DEF vars
  <2> QED
    BY <1>2, <2>3, <2>4, <2>5, <2>6, <2>7, <2>8, <2>9, <2>10 DEF Next
<1>3. CopyInv /\ T => TypeOK
  BY DEF CopyInv, VolumeInv, TypeOK
<1>4. (Inv /\ CopyInv /\ T) /\ [Next]_vars => (Inv /\ CopyInv /\ T)'
  BY <1>2, InvStep, CopyStep
<1> HIDE DEF T
<1> QED
  BY <1>1, <1>3, <1>4, PTL DEF Spec
=============================================================================
