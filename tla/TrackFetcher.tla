---------------------------- MODULE TrackFetcher ----------------------------
(***************************************************************************)
(* The track fetcher (track-fetcher/fetcher): a loop that picks the trains *)
(* near a stop, asks Amtrak about them through one resident browser, keeps *)
(* the documents, and serves them while its last successful cycle is       *)
(* recent.  Which trains are near a stop is decided at the time a cycle    *)
(* begins; its fetches take time.  The list of trains does not change.     *)
(***************************************************************************)
EXTENDS Integers, FiniteSets, Sequences, SequencesExt, FiniteSetsExt

CONSTANTS
  Trains, Stations,
  Stops,        \* the events of a train: [at |-> time, station |-> code]
  Before,       \* LeadProfile.before_secs: the lookahead of a station
  HotWindow,    \* LeadProfile.hot_secs: the hot window of a station
  After,        \* window_after_secs
  Poll, Base, Cooldown, MaxFetches, Ttl, MaxStale, Liveness,
  BackoffMin, BackoffMax, MaxAge,
  CycleTime,    \* the longest a cycle takes
  Faults,       \* what may fail: "list", "miss", "browser"
  MaxTime       \* bound: the clock

(* To be assumed of the constants.                                          *)
FetcherConstants ==
  /\ IsFiniteSet(Trains)
  /\ Stops \in [Trains -> SUBSET [at : Nat, station : Stations]]
  /\ Before \in [Stations -> Nat] /\ HotWindow \in [Stations -> Nat]
  /\ {After, Poll, Base, Cooldown, MaxFetches, Ttl, MaxStale, Liveness,
      BackoffMin, BackoffMax, MaxAge} \subseteq Nat \ {0}       \* _pos_int
  /\ CycleTime \in Nat /\ MaxTime \in Nat
  /\ Faults \subseteq {"list", "miss", "browser"}

VARIABLES
  now,
  cycle,         \* when the cycle in progress began; 0 between cycles
  wake,          \* when the sleep of run_forever ends
  elapsed,       \* elapsed
  picks,         \* the picks that are left
  picked,        \* whether this cycle had any
  stored,        \* whether this cycle stored a document
  lastFetched,   \* last_fetched
  documents,     \* TrackStore._documents: when each was fetched
  tracked,       \* TrackStore._tracked
  lastSuccess, lastCycle, failures,
  browser,       \* ResidentBrowser
  attempted,     \* when each train was last asked about; 0 is never
  refused,       \* since when no attempt has been answered; 0 is not
  trouble        \* when the list or the browser last failed; 0 is never

vars == <<now, cycle, wake, elapsed, picks, picked, stored, lastFetched,
          documents, tracked, lastSuccess, lastCycle, failures, browser,
          attempted, refused, trouble>>

loop == <<wake, elapsed, lastSuccess, lastCycle, failures>>
store == <<documents, tracked>>
history == <<attempted, refused, trouble>>

TypeOK ==
  /\ now \in Nat /\ cycle \in 0 .. now /\ wake \in Nat /\ elapsed \in Nat
  /\ picks \in Seq(Trains) /\ picked \in BOOLEAN /\ stored \in BOOLEAN
  /\ DOMAIN lastFetched \subseteq Trains /\ DOMAIN documents \subseteq Trains
  /\ DOMAIN tracked = DOMAIN documents
  /\ \A t \in DOMAIN lastFetched : lastFetched[t] \in 1 .. now
  /\ \A t \in DOMAIN documents : /\ documents[t] \in 1 .. now
                                 /\ tracked[t] \subseteq Stations
  /\ lastSuccess \in 0 .. now /\ lastCycle \in 0 .. now /\ failures \in Nat
  /\ browser \in [up : BOOLEAN, launched : 0 .. now, backoff : 0 .. BackoffMax,
                  next : 0 .. now + BackoffMax]
  /\ attempted \in [Trains -> 0 .. now] /\ refused \in 0 .. now /\ trouble \in 0 .. now

Empty == [t \in {} |-> 0]

Init ==
  /\ now = 1 /\ cycle = 0 /\ wake = 1 /\ elapsed = 0
  /\ picks = << >> /\ picked = FALSE /\ stored = FALSE
  /\ lastFetched = Empty /\ documents = Empty /\ tracked = Empty
  /\ lastSuccess = 0 /\ lastCycle = 1 /\ failures = 0
  /\ browser = [up |-> FALSE, launched |-> 0, backoff |-> 0, next |-> 0]
  /\ attempted = [t \in Trains |-> 0] /\ refused = 0 /\ trouble = 0

Tick ==
  /\ now < MaxTime                                          \* bound MaxTime
  /\ IF cycle = 0 THEN now < wake ELSE now < cycle + CycleTime
  /\ now' = now + 1
  /\ UNCHANGED <<cycle, picks, picked, stored, lastFetched, loop, store,
                 browser, history>>

-----------------------------------------------------------------------------
(* The choice of the trains (select.py).                                   *)

InWindow(t) ==
  {e \in Stops[t] : /\ e.at - now <= Before[e.station]
                    /\ now - e.at <= After}

Ahead(t) == {e \in InWindow(t) : e.at >= now}

Upcoming(t) == {e.station : e \in Ahead(t)}

Due == {t \in Trains : InWindow(t) # {}}

Distance(e) == IF e.at >= now THEN e.at - now ELSE now - e.at
Soonest(t) == Min({Distance(e) : e \in InWindow(t)})
NextStop(t) == Min({e.at : e \in Ahead(t)})

Known(t) == IF t \in DOMAIN tracked THEN tracked[t] ELSE {}

(* Mutant: a train with any track is no longer hot.                        *)
IsHotUntracked(t) ==
  /\ Ahead(t) # {}
  /\ NextStop(t) - now <= Min({HotWindow[s] : s \in Upcoming(t)})
  /\ Known(t) = {}

(* The smallest hot window of the upcoming stops applies to all of them.   *)
IsHot(t) ==
  /\ Ahead(t) # {}
  /\ NextStop(t) - now <= Min({HotWindow[s] : s \in Upcoming(t)})
  /\ ~ (Upcoming(t) \subseteq Known(t))

(* The trains of a key in its order; the number of the train breaks ties.  *)
Sorted(key) ==
  {s \in [1 .. Cardinality(DOMAIN key) -> DOMAIN key] :
     \A i, j \in DOMAIN s : i < j => s[i] # s[j] /\ key[s[i]] <= key[s[j]]}

Age(t, fetched) == IF t \in DOMAIN fetched THEN fetched[t] ELSE 0

(* Mutant: no cooldown.                                                    *)
ReadyAtOnce(due, fetched) == {t \in due : ~IsHot(t)}

(* Trains that are not hot, and have cooled down since their last attempt. *)
Ready(due, fetched) ==
  {t \in due : ~IsHot(t) /\ (t \in DOMAIN fetched => now - fetched[t] >= Cooldown)}

Capped(s) == SubSeq(s, 1, Min({MaxFetches, Len(s)}))

(* Hot trains by their next stop, then the ready ones, longest ago first,  *)
(* then nearest.                                                           *)
ChooseFetches(due, fetched) ==
  LET hot == Sorted([t \in {u \in due : IsHot(u)} |-> NextStop(t)])
      ready == Sorted([t \in Ready(due, fetched) |->
                         Age(t, fetched) * (MaxTime + 1) + Soonest(t)])
  IN  {Capped(both[1] \o both[2]) : both \in hot \X ready}

Full == elapsed = 0 \/ elapsed >= Base

Considered(early) ==
  IF Full THEN Due ELSE {t \in Due : t \in early \/ IsHot(t)}

-----------------------------------------------------------------------------
(* One cycle: poll_once and run_forever around it.                         *)

(* The list could be read; early is what the hint file holds.  A train     *)
(* that is not considered is forgotten.                                    *)
StartCycle(early) ==
  /\ cycle = 0 /\ now = wake
  /\ LET due == Considered(early)
     IN  /\ lastFetched' = Restrict(lastFetched, DOMAIN lastFetched \cap due)
         /\ picks' \in ChooseFetches(due, lastFetched)
         /\ picked' = (picks' # << >>)
  /\ cycle' = now /\ stored' = FALSE
  /\ UNCHANGED <<now, loop, store, browser, history>>

(* record_poll, mark_cycle, the sleep.                                     *)
Slept(succeeded) ==
  /\ failures' = IF succeeded THEN 0 ELSE failures + 1
  /\ lastCycle' = now
  /\ wake' = now + Poll
  /\ elapsed' = IF Full THEN Poll ELSE elapsed + Poll

ListFails ==
  /\ "list" \in Faults
  /\ cycle = 0 /\ now = wake
  /\ Slept(FALSE)
  /\ trouble' = now
  /\ UNCHANGED <<now, cycle, picks, picked, stored, lastFetched, lastSuccess,
                 store, browser, attempted, refused>>

(* An attempt, whatever comes of it, starts the cooldown.                  *)
Attempt ==
  /\ cycle # 0 /\ picks # << >>
  /\ lastFetched' = [t \in DOMAIN lastFetched \cup {Head(picks)} |->
                       IF t = Head(picks) THEN cycle ELSE lastFetched[t]]
  /\ attempted' = [attempted EXCEPT ![Head(picks)] = cycle]
  /\ UNCHANGED <<now, cycle, picked, loop>>

Recycled == browser.up /\ now - browser.launched >= MaxAge

(* _ensure_page has a page, or launches one.                               *)
Usable == (browser.up /\ ~Recycled) \/ now >= browser.next

(* The browser after a fetch that ran.                                     *)
Answered ==
  /\ Usable
  /\ browser' =
       [up |-> TRUE, backoff |-> 0, next |-> browser.next,
        launched |-> IF browser.up /\ ~Recycled THEN browser.launched ELSE now]

(* put: codes are the stations that show a track.                          *)
Fetch(codes) ==
  /\ Attempt /\ Answered
  /\ documents' = [t \in DOMAIN documents \cup {Head(picks)} |->
                     IF t = Head(picks) THEN cycle ELSE documents[t]]
  /\ tracked' = [t \in DOMAIN tracked \cup {Head(picks)} |->
                   IF t = Head(picks) THEN codes ELSE tracked[t]]
  /\ stored' = TRUE /\ refused' = 0
  /\ picks' = Tail(picks)
  /\ UNCHANGED trouble

Refused == IF refused = 0 THEN now ELSE refused

(* Amtrak's answer is not a status document.                               *)
Miss ==
  /\ "miss" \in Faults
  /\ Attempt /\ Answered
  /\ picks' = Tail(picks) /\ refused' = Refused
  /\ UNCHANGED <<stored, store, trouble>>

Backoff == Min({Max({browser.backoff * 2, BackoffMin}), BackoffMax})

Failed ==
  browser' = [up |-> FALSE, launched |-> browser.launched,
              backoff |-> Backoff, next |-> now + Backoff]

(* The fetch or the launch fails: the rest of the cycle is skipped.        *)
BrowserFails ==
  /\ "browser" \in Faults
  /\ Attempt /\ Usable /\ Failed
  /\ picks' = << >> /\ refused' = Refused /\ trouble' = now
  /\ UNCHANGED <<stored, store>>

(* Before the next launch is allowed.                                      *)
BackingOff ==
  /\ Attempt /\ ~Usable
  /\ browser' = [browser EXCEPT !.up = FALSE]
  /\ picks' = << >> /\ refused' = Refused /\ trouble' = now
  /\ UNCHANGED <<stored, store>>

EndCycle ==
  /\ cycle # 0 /\ picks = << >>
  /\ LET succeeded == ~picked \/ stored
     IN  /\ lastSuccess' = IF succeeded THEN cycle ELSE lastSuccess
         /\ Slept(succeeded)
  /\ cycle' = 0
  /\ UNCHANGED <<now, picks, picked, stored, lastFetched, store, browser,
                 history>>

(* A request for the snapshot drops the documents that are too old.        *)
Get ==
  /\ lastSuccess # 0
  /\ LET fresh == {t \in DOMAIN documents : now - documents[t] <= Ttl}
     IN  /\ documents' = Restrict(documents, fresh)
         /\ tracked' = Restrict(tracked, fresh)
  /\ UNCHANGED <<now, cycle, picks, picked, stored, lastFetched, loop,
                 browser, history>>

Next ==
  \/ Tick \/ ListFails
  \/ \E early \in SUBSET Trains : StartCycle(early)
  \/ \E codes \in SUBSET Stations : Fetch(codes)
  \/ Miss \/ BrowserFails \/ BackingOff \/ EndCycle \/ Get

Spec == Init /\ [][Next]_vars

-----------------------------------------------------------------------------
(* route: whether /tracks.json answers 200, and /healthz.                  *)
Current == lastSuccess # 0 /\ now - lastSuccess <= MaxStale
Healthy == now - lastCycle <= Liveness /\ failures < 3

(* A train that is not hot is not asked about again within the cooldown,   *)
(* although the memory of attempts is pruned to the trains considered:     *)
(* one that drops out of a cycle and comes back has let two polls pass     *)
(* (Cooldown <= 2 * Poll; choose_fetches: "a train attempted within        *)
(* cooldown_secs waits").                                                  *)
CooldownKept ==
  [][cycle = 0 /\ cycle' # 0 =>
       \A i \in DOMAIN picks' :
         LET t == picks'[i]
         IN  \/ IsHot(t)
             \/ attempted[t] = 0
             \/ now - attempted[t] >= Cooldown]_vars

HotSpan == Min({HotWindow[s] : s \in Stations})

(* Trains with a stop so near to e that they may be hot at the same time.  *)
Crowd(e) ==
  {t \in Trains : \E f \in Stops[t] : \E s \in Stations :
     f.at - e.at \in -HotSpan .. HotWindow[s]}

(* The cycle that finds a train hot ends before the train passes its stop. *)
HotMargin ==
  /\ Poll + 2 * CycleTime <= HotSpan + 1
  /\ \A s \in Stations : HotWindow[s] <= Before[s]

(* When a train passes a stop it was asked about within the hot window, or *)
(* a document already showed a track there, unless more trains were hot    *)
(* than a cycle fetches or the list or the browser failed in that time     *)
(* (select.py: "A train is hot, and fetched every cycle").  A document     *)
(* dropped for its age shows nothing.  To be read where HotMargin holds.   *)
HotAttempted ==
  \A t \in Trains : \A e \in Stops[t] :
    /\ now > e.at /\ e.at > HotSpan
    /\ Cardinality(Crowd(e)) <= MaxFetches
    /\ trouble + Poll + CycleTime < e.at - HotSpan
    => \/ attempted[t] >= e.at - HotSpan
       \/ e.station \in Known(t)
       \/ t \notin DOMAIN documents /\ attempted[t] # 0

(* While Amtrak answers nothing and a due train has no document, the       *)
(* snapshot goes stale (poller.py: "a sidecar Amtrak has stopped answering *)
(* lets /tracks.json go stale instead of looking current").                *)
BlockedGoesStale ==
  /\ refused # 0 /\ now - refused > MaxStale + Poll + CycleTime
  /\ \E t \in Due : t \notin DOMAIN documents
  => ~Current

=============================================================================
