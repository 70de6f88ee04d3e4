---------------------------- MODULE FeedDelivery ----------------------------
(***************************************************************************)
(* The identifiers that the publisher gives to generations (writer.rs,     *)
(* next_generation_id and generation_order) and how the HTTP front         *)
(* delivers an artifact to a client that keeps its last copy (serve.rs):   *)
(* discovery, lookup and conditional requests, across restarts and failed  *)
(* publications.  Time is Unix time in seconds, as long as a date is made  *)
(* of it.  The clock is not set back, and a start of the process takes     *)
(* longer than a second; polls may follow each other within one (a ticker  *)
(* that is late catches up).                                               *)
(***************************************************************************)
EXTENDS Integers, Sequences, FiniteSets, FiniteSetsExt

CONSTANTS
  None,
  Bodies,         \* artifacts of one name, told apart by their hash
  Start, TickSecs, MaxTicks,      \* the clock: bound MaxTicks
  MaxIssued,      \* bound: identifiers that one process takes
  MaxKept,        \* bound: generations on the volume
  Years           \* the years a date may fall in

(* The clock starts at a Unix time and moves on in whole seconds.          *)
ASSUME DeliveryAssumption ==
  /\ Start \in Nat /\ TickSecs \in Nat \ {0}
  /\ MaxTicks \in Nat /\ MaxIssued \in Nat
  /\ None \notin Nat /\ None \notin Nat \X Nat /\ None \notin Bodies
  /\ None \notin [id : Nat \X Nat, body : Bodies]

VARIABLES
  clock,      \* ticks since Start
  counter,    \* GENERATION_COUNTER
  poll,       \* the second the poll in flight began, or None
  kept,       \* complete generations on the volume: [id, body]
  serving,    \* the current generation of the store, or None
  newest,     \* the identifier whose directory was renamed last, or None
  client      \* one client: what it read, holds, asked for and was told

vars == <<clock, counter, poll, kept, serving, newest, client>>

Now == Start + clock * TickSecs

TypeOK ==
  /\ clock \in 0 .. MaxTicks /\ counter \in 0 .. MaxIssued
  /\ poll \in {None} \cup {Start + i * TickSecs : i \in 0 .. clock}
  /\ \A g \in kept : g.body \in Bodies
  /\ serving \in kept \cup {None}
  /\ client.status \in {None, 200, 304, 404, 503}

Init ==
  /\ clock = 0 /\ counter = 0 /\ poll = None
  /\ kept = {} /\ serving = None /\ newest = None
  /\ client = [manifest |-> None, copy |-> None, asked |-> None,
               byDate |-> FALSE, status |-> None]

-----------------------------------------------------------------------------
(* Dates                                                                   *)

IsLeap(year) == year % 4 = 0 /\ (year % 100 # 0 \/ year % 400 = 0)

YearStart(year) ==
  365 * (year - 1970) + Cardinality({y \in 1970 .. year - 1 : IsLeap(y)})

(* The lengths of the months before it, added up.                          *)
MonthStart(year, month) ==
  <<0, 31, 59, 90, 120, 151, 181, 212, 243, 273, 304, 334>>[month]
    + (IF IsLeap(year) /\ month > 2 THEN 1 ELSE 0)

(* http_date and civil_date.                                               *)
HttpDate(unix) ==
  LET days == unix \div 86400
      year == Max({y \in Years : YearStart(y) <= days})
      month == Max({i \in 1 .. 12 : MonthStart(year, i) <= days - YearStart(year)})
  IN  [year |-> year, month |-> month,
       day |-> days - YearStart(year) - MonthStart(year, month) + 1,
       secs |-> unix % 86400]

ParseHttpDate(date) ==
  (YearStart(date.year) + MonthStart(date.year, date.month) + date.day - 1) * 86400
    + date.secs

ASSUME YearsAssumption ==
  /\ \A y \in Years : y \in Nat /\ y >= 1970
  /\ \E y \in Years : YearStart(y) <= Start \div 86400

-----------------------------------------------------------------------------
(* Identifiers                                                             *)

(* Mutant: the counter decides.                                            *)
EarlierByCounter(a, b) == a[2] < b[2] \/ (a[2] = b[2] /\ a[1] < b[1])

(* generation_order.                                                       *)
Earlier(a, b) == a[1] < b[1] \/ (a[1] = b[1] /\ a[2] < b[2])

NewestKept == CHOOSE g \in kept : \A h \in kept : h = g \/ Earlier(h.id, g.id)

(* next_generation_id: counters whose directory exists are skipped.  The   *)
(* temporary ones of failed publications are gone (remove_stale_temps).    *)
NextCounter(secs, gens) ==
  Min({n \in counter .. MaxIssued : <<secs, n>> \notin {g.id : g \in gens}})

(* enforce_retention: the oldest go, but never what is served.             *)
Survivors(gens, protected) ==
  {gens \ pruned : pruned \in
     {p \in SUBSET (gens \ {protected}) :
        \A old \in p, h \in gens \ p : h = protected \/ Earlier(old.id, h.id)}}

-----------------------------------------------------------------------------
(* The publisher                                                           *)

Tick ==
  /\ clock < MaxTicks /\ clock' = clock + 1                 \* bound MaxTicks
  /\ UNCHANGED <<counter, poll, kept, serving, newest, client>>

BeginPoll ==
  /\ poll = None /\ poll' = Now
  /\ UNCHANGED <<clock, counter, kept, serving, newest, client>>

(* The poll or its candidate fails before an identifier is taken.          *)
PollFails ==
  /\ poll # None /\ poll' = None
  /\ UNCHANGED <<clock, counter, kept, serving, newest, client>>

NewId(gens) == <<poll, NextCounter(poll, gens)>>

(* Publications that follow each other use up the counter.                 *)
TakeId(gens) ==
  /\ poll # None /\ poll' = None
  /\ counter < MaxIssued                                    \* bound MaxIssued
  /\ counter' = NextCounter(poll, gens) + 1
  /\ UNCHANGED <<clock, client>>

(* A step fails before the rename: the counter is used up.                 *)
PublishFails ==
  \E gens \in Survivors(kept, serving) :
    /\ TakeId(gens)
    /\ kept' = gens
    /\ UNCHANGED <<serving, newest>>

(* publish_inner: retention, the rename of the directory; it is served     *)
(* unless a later step fails, and then retention again.                    *)
Publish ==
  \E gens \in Survivors(kept, serving), body \in Bodies, committed \in BOOLEAN :
    LET g == [id |-> NewId(gens), body |-> body]
    IN  /\ TakeId(gens)
        /\ newest' = g.id
        /\ serving' = IF committed THEN g ELSE serving
        /\ kept' \in IF committed THEN Survivors(gens \cup {g}, g)
                                  ELSE {gens \cup {g}}
        /\ Cardinality(kept') <= MaxKept                    \* bound MaxKept

(* The process ends and starts; the marker may be missing, then the newest *)
(* directory counts (GenerationStore::open); a retention pass follows.     *)
Restart ==
  /\ clock < MaxTicks /\ clock' = clock + 1                 \* bound MaxTicks
  /\ counter' = 0 /\ poll' = None
  /\ serving' \in IF kept = {} THEN {None}
                  ELSE {NewestKept} \cup ({serving} \ {None})
  /\ kept' \in Survivors(kept, serving')
  /\ UNCHANGED <<newest, client>>

-----------------------------------------------------------------------------
(* The HTTP front and a client                                             *)

(* feed_set.                                                               *)
Discover ==
  /\ client' = IF serving = None THEN [client EXCEPT !.status = 503, !.asked = None]
               ELSE [client EXCEPT !.manifest = serving.id, !.asked = None,
                                   !.status = None]
  /\ UNCHANGED <<clock, counter, poll, kept, serving, newest>>

(* Mutant: the time at which the response is made.                         *)
LastModifiedServed(g) == HttpDate(Now)

(* cached_bytes: Last-Modified is when the generation's poll began.        *)
LastModified(g) == HttpDate(g.id[1])

(* cached_bytes: either validator is enough.                               *)
NotModified(g, etag, since) ==
  \/ etag = g.body
  \/ since # None /\ ParseHttpDate(since) >= g.id[1]

(* artifact: the client sends the validators of the copy it has, of        *)
(* whatever generation, or none.                                           *)
Get ==
  /\ client.manifest # None
  /\ \E usesEtag, usesDate \in BOOLEAN :
       LET found == {g \in kept : g.id = client.manifest}
           g == CHOOSE x \in found : TRUE
           etag == IF usesEtag /\ client.copy # None THEN client.copy.body ELSE None
           since == IF usesDate /\ client.copy # None THEN client.copy.modified ELSE None
       IN  client' =
             IF serving = None THEN [client EXCEPT !.status = 503, !.asked = None]
             ELSE IF found = {} THEN [client EXCEPT !.status = 404, !.asked = None]
             ELSE IF NotModified(g, etag, since)
               THEN [client EXCEPT !.status = 304, !.asked = g,
                                   !.byDate = since # None]
               ELSE [client EXCEPT !.status = 200, !.asked = g,
                       !.copy = [body |-> g.body, modified |-> LastModified(g)]]
  /\ UNCHANGED <<clock, counter, poll, kept, serving, newest>>

Next ==
  \/ Tick \/ BeginPoll \/ PollFails \/ PublishFails \/ Publish \/ Restart
  \/ Discover \/ Get

Spec == Init /\ [][Next]_vars

-----------------------------------------------------------------------------
(* The order of identifiers is the order of publication, also after        *)
(* restarts that count from zero again, failed publications and pruned     *)
(* directories: what recovery takes for the newest directory and retention *)
(* for the youngest is the one that was renamed last, as long as it is     *)
(* there, and a directory is never renamed over another (generation_order, *)
(* next_generation_id).                                                    *)
NewestIsLast ==
  /\ newest \in {g.id : g \in kept} => NewestKept.id = newest
  /\ \A g, h \in kept : g.id = h.id => g = h

(* After a 304 the client's copy is the artifact it asked for, whichever   *)
(* generation the copy was fetched from and however long the poll of the   *)
(* new one had been running when it was fetched (requirements.md, "WHEN    *)
(* the artifact bytes have not changed"), unless the client went by the    *)
(* date and both polls began within one second.                            *)
CopyCurrent ==
  client.status = 304 =>
    \/ client.copy.body = client.asked.body
    \/ client.byDate /\ client.copy.modified = HttpDate(client.asked.id[1])

=============================================================================
