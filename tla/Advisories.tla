----------------------------- MODULE Advisories -----------------------------
(***************************************************************************)
(* Amtrak's notices on their way into alerts.pb.  The advisory fetcher     *)
(* renders the list of notices, and those of its detail pages that are     *)
(* due, into files; its server answers from the files while they are       *)
(* young; the service asks it at most once per Ttl, keeps the last good    *)
(* answer and appends it to every generation.  An advisory is              *)
(*   [kind, place, text]                                                   *)
(* with a station or a set of routes as place; the links of the list lead  *)
(* to detail pages, whose text the service adds to that of the list.       *)
(***************************************************************************)
EXTENDS Integers, Sequences, FiniteSets, SequencesExt

CONSTANTS
  Pages,       \* what Amtrak may list: sequences of notices and of links
  Details,     \* detail pages
  MaxDetailPages,  \* MAX_DETAIL_PAGES
  Schedules,   \* the places a schedule may know
  Poll,        \* poll_interval_secs
  CycleTime,   \* the longest a cycle takes
  MaxStale,    \* max_stale_secs
  DetailTtl,   \* detail_ttl_secs
  DetailStale, \* detail_max_stale_secs
  Ttl,         \* AMTRAK_ADVISORIES_TTL_SECS
  Interval,    \* the poll interval of the service, with its source's time
  Faults,      \* what may fail: "list", "detail", "http"
  MaxTime      \* bound: the clock

VARIABLES
  now,
  known,     \* places of the schedule that the service publishes with
  cycle,     \* the cycle of the fetcher: its phase and when it began
  rendered,  \* the list it rendered, not yet stored
  due,       \* the detail pages left to render
  held,      \* those rendered, not yet stored
  wake,      \* when the sleep of run_forever ends
  list,      \* advisories.html: what, when it was rendered, mtime
  detail,    \* details/: mtime of each page stored
  next,      \* when the service polls again
  request,   \* its request to the server: what has been read
  cache,     \* WithAdvisories.cache
  alerts,    \* the advisories of the last generation
  missing,   \* when a stored page last was not taken from the list
  trouble    \* when something last failed, or there was nothing to publish

(* extract_detail_paths: of the links that are paths of detail pages, the  *)
(* first MaxDetailPages, each once.                                        *)
DetailPaths(links) ==
  LET First(n) == {links[i] : i \in 1 .. n} \cap Details
  IN  {d \in Details : \E n \in DOMAIN links :
         links[n] = d /\ Cardinality(First(n)) <= MaxDetailPages}

(* The periods of the fetcher are positive (config.py, _pos_int), and a    *)
(* detail page may be served at least until it is due (from_env).          *)
AdvisoryConstants ==
  /\ {Poll, CycleTime, DetailTtl} \subseteq Nat \ {0}
  /\ {MaxStale, DetailStale, Ttl, Interval} \subseteq Nat
  /\ DetailTtl <= DetailStale

vars == <<now, known, cycle, rendered, due, held, wake, list, detail,
          next, request, cache, alerts, missing, trouble>>
fetcher == <<cycle, rendered, due, held, wake, list, detail, missing>>
service == <<next, request, cache, alerts>>

Idle == [phase |-> "idle", began |-> 0]
NoList == [page |-> << >>, taken |-> 0, modified |-> 0]
NoCache == [at |-> 0, page |-> << >>, taken |-> 0]
NoRequest == [reading |-> FALSE, page |-> << >>, taken |-> 0]

TypeOK ==
  /\ now \in Nat /\ known \in Schedules
  /\ cycle.phase \in {"idle", "details", "files"}
  /\ cycle.began \in 0 .. now
  /\ due \subseteq Details /\ held \subseteq Details
  /\ wake \in Nat /\ next \in Nat /\ trouble \in 0 .. now
  /\ missing \in [Details -> 0 .. now]
  /\ list.modified \in 0 .. now
  /\ DOMAIN detail \subseteq Details
  /\ \A d \in DOMAIN detail : detail[d] \in 0 .. now
  /\ cache.at \in 0 .. now
  /\ DOMAIN request = DOMAIN NoRequest

Init ==
  /\ now = 1 /\ known \in Schedules
  /\ cycle = Idle /\ rendered = << >> /\ due = {} /\ held = {} /\ wake = 1
  /\ list = NoList /\ detail = [d \in {} |-> 0]
  /\ next = 1 /\ request = NoRequest /\ cache = NoCache
  /\ alerts = << >>
  /\ missing = [d \in Details |-> 0] /\ trouble = 1

Tick ==
  /\ now < MaxTime                                          \* bound MaxTime
  /\ IF cycle = Idle THEN now < wake ELSE now < cycle.began + CycleTime
  /\ now < next /\ ~request.reading
  /\ now' = now + 1
  /\ UNCHANGED <<known, fetcher, service, trouble>>

NewSchedule ==
  /\ known' \in Schedules \ {known} /\ ~request.reading
  /\ UNCHANGED <<now, fetcher, service, trouble>>

-----------------------------------------------------------------------------
(* The fetcher: _default_launcher within run_forever.                      *)

Slept == cycle' = Idle /\ wake' = now + Poll

DetailIsFresh(d) == d \in DOMAIN detail /\ now - detail[d] < DetailTtl

RenderList ==
  /\ cycle = Idle /\ now = wake
  /\ \E page \in Pages :
       LET paths == DetailPaths(page.links)
       IN  /\ rendered' = page.notices
           /\ due' = {d \in paths : ~DetailIsFresh(d)}
           /\ missing' = [d \in Details |-> IF d \in DOMAIN detail \ paths
                                             THEN now ELSE missing[d]]
  /\ held' = {}
  /\ cycle' = [phase |-> "details", began |-> now]
  /\ UNCHANGED <<now, known, wake, list, detail, service, trouble>>

(* The list did not become stable, or the browser failed.                  *)
ListFails ==
  /\ "list" \in Faults
  /\ cycle = Idle /\ now = wake
  /\ Slept /\ trouble' = now
  /\ UNCHANGED <<now, known, rendered, due, held, list, detail, missing, service>>

RenderDetail ==
  /\ cycle.phase = "details"
  /\ \E d \in due :
       /\ due' = due \ {d}
       /\ \/ held' = held \cup {d} /\ trouble' = trouble
          \/ "detail" \in Faults /\ held' = held /\ trouble' = now
  /\ UNCHANGED <<now, known, cycle, rendered, wake, list, detail, missing, service>>

(* update: the contents are renamed into place, or only the mtime moves.   *)
StoreList ==
  /\ cycle.phase = "details" /\ due = {}
  /\ list' = [page |-> rendered, taken |-> cycle.began, modified |-> now]
  /\ cycle' = [cycle EXCEPT !.phase = "files"] /\ rendered' = << >>
  /\ UNCHANGED <<now, known, due, held, wake, detail, missing, service, trouble>>

(* Mutant: the mtime of a page that did not change is not touched.         *)
StoreDetailsUnchanged ==
  /\ cycle.phase = "files"
  /\ detail' = [d \in DOMAIN detail \cup held |->
                  IF d \in DOMAIN detail THEN detail[d] ELSE now]
  /\ held' = {} /\ Slept
  /\ UNCHANGED <<now, known, rendered, due, list, missing, service, trouble>>

(* update_detail touches the mtime also of a page that did not change.     *)
StoreDetails ==
  /\ cycle.phase = "files"
  /\ detail' = [d \in DOMAIN detail \cup held |->
                  IF d \in held THEN now ELSE detail[d]]
  /\ held' = {} /\ Slept
  /\ UNCHANGED <<now, known, rendered, due, list, missing, service, trouble>>

RestartFetcher ==
  /\ cycle # Idle
  /\ cycle' = Idle /\ wake' = now /\ due' = {} /\ held' = {} /\ trouble' = now
  /\ rendered' = << >>
  /\ UNCHANGED <<now, known, list, detail, missing, service>>

-----------------------------------------------------------------------------
(* The service.                                                            *)

(* parse_station_advisories, parse_passenger_advisories: advisories of     *)
(* places that the schedule does not know are skipped.                     *)
Parsed(notices) == SelectSeq(notices, LAMBDA n : n.place \in known)

(* GenerationBuilder: selectors that the schedule has, and each id once;   *)
(* the id of an advisory is its kind and place.                            *)
Built(entities) ==
  LET valid == Parsed(entities)
      Id(n) == <<n.kind, n.place>>
  IN  FoldLeft(LAMBDA out, n : IF Id(n) \in {Id(out[i]) : i \in DOMAIN out}
                               THEN out ELSE Append(out, n),
               << >>, valid)

Publish(notices) == alerts' = Built(notices) /\ next' = now + Interval

CacheFresh == cache.at # 0 /\ now - cache.at < Ttl

(* Mutant: every use of the cache renews it.                               *)
UseCacheSliding ==
  /\ now = next /\ ~request.reading /\ CacheFresh
  /\ cache' = [cache EXCEPT !.at = now]
  /\ Publish(cache.page)
  /\ UNCHANGED <<now, known, fetcher, request, trouble>>

UseCache ==
  /\ now = next /\ ~request.reading /\ CacheFresh
  /\ Publish(cache.page)
  /\ UNCHANGED <<now, known, fetcher, request, cache, trouble>>

(* The server's handler reads the bytes, and then asks for the mtime.      *)
ReadList ==
  /\ now = next /\ ~request.reading /\ ~CacheFresh
  /\ request' = [reading |-> TRUE, page |-> list.page, taken |-> list.taken]
  /\ UNCHANGED <<now, known, fetcher, next, cache, alerts, trouble>>

(* current_advisories: a failure, and an answer without an advisory, keep  *)
(* the last good ones.                                                     *)
Answer ==
  /\ request.reading
  /\ \E answered \in {TRUE} \cup (IF "http" \in Faults THEN {FALSE} ELSE {}) :
       LET good == /\ answered /\ list.modified # 0
                   /\ now - list.modified <= MaxStale
                   /\ request.taken # 0
           fresh == IF good THEN Parsed(request.page) ELSE << >>
           kept == IF fresh = << >>
                     THEN [page |-> cache.page, taken |-> cache.taken]
                     ELSE [page |-> fresh, taken |-> request.taken]
       IN  /\ cache' = [at |-> now, page |-> kept.page, taken |-> kept.taken]
           /\ trouble' = IF fresh = << >> THEN now ELSE trouble
           /\ Publish(kept.page)
  /\ request' = NoRequest
  /\ UNCHANGED <<now, known, fetcher>>

Next ==
  \/ Tick \/ NewSchedule
  \/ RenderList \/ ListFails \/ RenderDetail \/ StoreList \/ StoreDetails
  \/ RestartFetcher
  \/ UseCache \/ ReadList \/ Answer

Spec == Init /\ [][Next]_vars

-----------------------------------------------------------------------------
(* The four periods of the chain add up, and no more: unless something     *)
(* failed in that time, what is published was on Amtrak's page within one  *)
(* cycle and sleep of the fetcher, one Ttl and one interval of the service *)
(* (advisories.rs: "serves the last-good advisories through a transient    *)
(* scrape failure"), also when a request reads the file while it is        *)
(* replaced.                                                               *)
AdvisoriesCurrent ==
  LET lag == 2 * CycleTime + Poll + Ttl + Interval
  IN  now - trouble > lag => now - cache.taken <= lag

(* route, for a detail page.                                               *)
DetailAnswered(d) == d \in DOMAIN detail /\ now - detail[d] <= DetailStale

(* A stored page whose path is taken from every list is answered, or it is *)
(* due; and a page that is still fresh when a cycle begins waits for the   *)
(* next one, and is stored at the end of that, so that unless something    *)
(* failed it lacks an answer for less than lag - DetailStale (config.py:   *)
(* "so a cached page is not returned as 503 before it is due again").      *)
DetailsStay ==
  LET lag == DetailTtl + Poll + 2 * CycleTime
  IN  \A d \in DOMAIN detail :
        now - trouble > lag /\ now - missing[d] > lag =>
          \/ DetailAnswered(d)
          \/ ~DetailIsFresh(d) /\ now - detail[d] < lag

=============================================================================
