# Formal models of the Amtrak GTFS-RT service

TLA+ specifications of the service's core logic, the TLC configurations that
model-check them, and theorems about them whose proofs TLAPS checks.
`PROJECT.json` lists the components, runs, mutants, findings, hazards and
theorems, and maps every definition to the source lines it translates.

    tlc -workers 2 -config StoreFaults.cfg MCGenerationStore.tla     (a run)
    tlapm GenerationStore_proofs.tla                                 (the proofs)

Contents: 1 the system, 2 the modules, 3 the runs and what they show, 4 what is
proved, 5 what is not modelled, 6 what comes next.

## 1. Inventory

The service polls Amtrak's realtime data, pairs it with a static GTFS schedule
(augmented with a stop per platform), and serves both over HTTP as immutable
*generations*. It runs as one process (`AMTRAK_ROLE=combined`) or as three
containers that share a volume. Two Python helpers scrape track numbers and
advisories and serve them to it.

| component | state | operations | hard parts |
|---|---|---|---|
| **Generation store** `writer.rs` | directories and marker on disk; `current`, `generations` in memory | `open_with_retention`, `publish`, retention passes, `current`, `get` | crash at any step, unsynced renames, half-done deletions, errors after the commit |
| **Static blobs** `writer.rs` | `blobs/<sha256>`, hard links, interned bytes | install, dedupe, collect, byte accounting | last link frees the bytes; a link that fails |
| **Generation ids** `writer.rs` | process-wide counter, clock | `next_generation_id`, `generation_order` | clock stepping back, counter restarting |
| **Static snapshot lifecycle** `static_gtfs.rs` | `active`, `pending` | bootstrap, recover, stage, candidate, promote; `run_snapshot_refresh` | staging while another snapshot is being published |
| **Shared platform table** `static_augment.rs` | `observed`, `dirty`, `known`, a `Notify`, `observed-platforms.txt` | observe, persist, reload, set stations | file, memory and wake-up disagree |
| **Poller and committer** `orchestrator.rs`, `endpoints.rs` | none of its own | `refresh_generation_once`, entity building, validation | snapshot taken before, promoted after an await |
| **Board refresher** `sources/tracks/` | `AssignmentStore`, RailData token and budget | refresh every board, upsert, prune, stamp | late and out-of-order boards, stale rows, request budget across restarts |
| **Cohort** `cohort.rs`, `roles.rs` | `fleet/CURRENT`, fleet directories, contributions | write fleet, contribute, assemble | three processes, a pointer rewritten in place, a counter that restarts |
| **Track scheduler** `schedule.rs` | per-train touch and refresh times | enqueue, take early, take stations | limits, starvation, an overwritten hint file |
| **HTTP API** `serve.rs` | none (reads the store) | feed set, artifacts, readiness | retention between two requests of one reader |
| **Track fetcher** (Python) | documents per train-day, success times | poll cycle, early requests, serve | partial failure of a cycle |
| **Station survey** (Python), `lead_time.rs` | a snapshot per cycle, reports, the adopted profile | watch, merge, summarise, adopt | clearing of tracks, refusals, reports merged again |
| **Advisory fetcher** (Python) | list, detail pages and their times | poll, render what is due, serve | bytes and time read separately, four periods in a chain |
| **Advisory source** `advisories.rs` | last good advisories | poll at most once per period, merge into alerts | stale answers, places a new schedule drops |
| **Entity building and validation** `orchestrator.rs` | none | stamp, build, validate | one bad entity must not cost a generation |
| **Validator cache** `static_gtfs.rs` | files named by digest | look up, run, record, prune | a judgement that is not the validator's |
| Pure parts: configuration, ZIP repair and add-on, parsing and decryption, status tools | - | - | left out |

How they interact. `run_combined` opens the store (which recovers), loads the
platform table, recovers the schedule of the current generation or downloads
one, and then starts four tasks: the *poller* publishes generations through the
store; the *refresh* stages new schedules for it; the *boards* observe labels
and wake the refresh; *HTTP* reads the store. The tasks share
`StaticSnapshotState` and `SharedPlatforms`, each behind a lock that is held
only within one operation, so the tasks interleave at every await. Any task of
the three supervised ones that ends takes the process down; Docker restarts it
(`restart: unless-stopped`). In the three-container deployment the same store
and refresh run in the vehicle-positions container, and the cohort directory
takes the place of the shared memory.

What makes each component correct:

- *store*: readers see one feed set, complete, durable, moving forward only;
  a superseded one stays for its window; the volume is bounded; it never hangs;
- *refresh pipeline*: static and realtime data belong together; accepted
  schedules are not lost and never replaced by older ones; new schedules and new
  labels reach the readers;
- *cohort*: a published generation consists of the contributions to one fleet;
  a restart of any container does not mix fleets or stop assembly;
- *track assignments*: a stamped track is of the run it was shown for and stays
  up until that run leaves;
- *RailData*: no more token requests per day than the budget, restarts included;
- *schedulers and fetchers*: every train that keeps asking is fetched, limits
  hold, a failed cycle loses nothing, and a source that no longer answers is seen
  not to;
- *survey*: a report says what its snapshots say together; an adopted profile
  looks early enough wherever it calls a station observed, and narrows what an
  operator configured to no less than the survey's own default;
- *advisories*: what is published is as fresh as the chain of periods allows;
- *building*: everything built is accepted, tracks cost no prediction, a
  selector is kept exactly if it selects something;
- *static ZIPs*: the byte budget holds with shared bytes, and no generation is
  deleted without need; equal ZIPs are held once;
- *validator cache*: a remembered judgement is the one the validator gives;
- *identifiers and HTTP*: the newest identifier is the last generation, and a
  304 means that the client's copy is current.

## 2. Modules

| module | what it is | composed in |
|---|---|---|
| `FeedSet` | abstract: what readers of the HTTP API are promised | refined by `GenerationStore` |
| `GenerationStore` | `writer.rs` on a disk with a page cache, with faults at every step | `MCGenerationStore`, `Feed` |
| `StaticBlobs` | the bytes of the same store: shared ZIPs, link counts, budget, interning | `Feed` |
| `RefreshPipeline` | the three tasks around `StaticSnapshotState` and `SharedPlatforms` | `MCRefreshPipeline` |
| `ValidatorCache` | the fetch of one schedule and the remembered judgements of the validator | `Feed` |
| `FeedBuild` | stamping, building and validating the entities of a generation | `Feed` |
| `FeedDelivery` | identifiers over restarts; discovery, lookup and conditional requests | `Feed` |
| `FeedBarrier` | abstract: what the three containers promise together | refined by `FleetCohort` |
| `FleetCohort` | three containers, `fleet/CURRENT`, contributions, assembly | `MCFleetCohort` |
| `RailDataToken` | token cache, budget and pause of the RailData client | `Tracks` |
| `TrackBoards` | status documents and a board in the assignment store, and stamping from it | `Tracks` |
| `TrackScheduler` | early-refresh hints, the flusher, and the fetcher that reads its file | `Tracks` |
| `TrackFetcher` | the fetcher's loop, its choice of trains, its browser and its server | `Tracks`, `MCTrackFetcher` |
| `StationSurvey` | survey snapshots, merged reports, and the lead times adopted from them | `Tracks` |
| `Advisories` | advisory fetcher, its server, and the source that merges advisories | `Feed` |
| `Tracks`, `Feed` | the parts on the way of a track, and of a generation, side by side | `MCTracks`, `MCFeed` |
| `MC*` | trains, documents, ZIPs and entities of the instances that TLC checks | |
| `*_proofs` | the theorems about `GenerationStore`, `RefreshPipeline`, `FleetCohort`, `RailDataToken`, `FeedDelivery`, `Feed` and `Tracks`; `Survey_proofs` is the survey's part of `Tracks` | |

`Tracks` and `Feed` hold several parts, so that one run checks them. The parts share no
variable; a behaviour picks one, moves it with all its faults, and leaves the
others in an initial state. Every property is therefore checked over the full
state space of the part it is about, and one run answers for the whole way of
a track, or of a generation. The theorems are about these modules, so they state the
very properties the runs check.

Where components interact, one module holds both sides: the poller, the
refresh and the boards in `RefreshPipeline`; the three containers in
`FleetCohort`; the flusher and the reader of its file in `TrackScheduler`; the
fetcher, its server and the service in `Advisories`; the boards and the
stamping of generations in `TrackBoards`; label table, schedule and boards in
`FeedBuild`; survey, report and lookahead in `StationSurvey`.

### GenerationStore

A publication is synchronous and holds `publish_lock`, and recovery ends before
anything else starts, so a single program counter `pc` says where the process
is; readers take one read lock at a time, so what they can see is any state in
which `Serving` holds, including those in the middle of a publication.

| in the model | in the code |
|---|---|
| `dir[g]`: absent, temp, final, partial | `.ID.tmp`, `generations/ID` complete, the same after an interrupted `remove_dir_all` |
| `marker` | the `CURRENT` marker file (its own temporary is created, synced and renamed within `RenameMarker`) |
| `durableDir`, `durableMarker` | what has been synced: directory renames count only after `sync_directory` |
| `written[g]` | the manifest's mtime, or the directory's when the manifest is gone |
| `current`, `generations` | the two `RwLock`s of `GenerationStore` |
| `phase` | which caller a retention pass belongs to: recovery, the pass that ends it, before or after a publication |
| `todo` | the ids `plan_superseded_deletions` or `plan_deletions` returned and the loop has not deleted yet |
| `next`, `result`, `before` | the next id, and the result and starting point of the last publication |
| `visible`, `lastSeen` | history: the last feed set readers could see, and when each was last it |

`Restart ... OpenDone` are `open_with_retention`, `StartPublish ... PublishDone`
`publish_inner`, one action between any two writes that can fail or be lost
separately. `PublishFails` is any `?` on the way, `Kill` the end of the process
with the kernel alive, `PowerLoss` the loss of everything unsynced, each
directory entry and the marker independently, with removals undone in part.
`LazyWriteback = FALSE` says that unsynced writes of a killed process reach the
disk before power is next lost; it is the assumption of the durability
property (see Proofs, and What the models show besides).

Abstracted: the contents of a generation (complete or not), the blobs and hard
links (bytes are one unit per generation), temporary files of the marker,
permissions. Identifiers are numbers in order of allocation, which is the order
of `(seconds, counter)` as long as the clock does not step back and two
processes do not publish in the same second; `FeedDelivery` has the identifiers
themselves. A tick of the clock passes
between operations, not within one, which lasts seconds against a window of
minutes.

### RefreshPipeline

| in the model | in the code |
|---|---|
| snapshot: `schedule`, `augmented`, `labels`, `id` | `StaticSnapshot`: its upstream bytes, the `+tracks.` digest of its version, the observed labels in the table it was augmented with, and the identity `Arc::ptr_eq` compares |
| `active`, `pending` | `SnapshotPair` |
| `observed`, `dirty`, `known`, `permit`, `file` | `PlatformState`, the stored permit of `Notify`, `observed-platforms.txt` |
| `published` | the snapshot of the store's current generation |
| `refresh`, `full`, `comparison`, `staged` | where `run_snapshot_refresh` is, and its locals |
| `poll`, `candidate`, `wasPending` | the same of `refresh_generation_once` |
| `board`, `unread`, `contents` | the same of `refresh_once` and `persist` |
| `newest` | history: the last snapshot this process accepted |

`Covered` gives the labels whose station a schedule has: `augment_stops` adds
no stop for the others, so two snapshots have the same bytes when they agree on
`Zip`, which is what `stage_static` compares. `FetchResult` is `fetch_static_at`:
the full table, the configured table if that is rejected, the upstream bytes if
that is rejected too. The store is reduced to `published`: that publication is
atomic, durable and forward is what `GenerationStore` establishes (`FeedSet`);
`PublishLateError` is the exception it has, an error after the commit.

Abstracted: configured labels (they are in every table), the cap of 1000
labels, a file that does not parse, the ten-minute gap (any delay is allowed),
what is in a realtime batch, the assignment store. A crash takes all tasks
down, as `supervise` does.

### FleetCohort

| in the model | in the code |
|---|---|
| `fleets`, `current`, `contributions` | `fleet/ID/`, `fleet/CURRENT`, `contrib/ID/NAME` |
| `up`, `clock`, `counter` | the VehiclePositions process, `SystemTime`, `FLEET_COUNTER` |
| `poll`, `candidate`, `fleet` | where `refresh_generation_once` and `write_fleet` are |
| `assembled`, `assembly` | `last` of `assemble_forever`, and what `assemble_one` has read |
| `seen`, `work` | `last` of `run_trip_updates` and `run_alerts`, and what they have read |

`write_fleet` is three steps: the rename of the directory, and the truncation and
the writing of the pointer, since a reader or a crash may come between. A
decoration is two (read, contribute), so the fleet may change in between. Files
carry the number of the poll they come from: an id that is used twice can be
told from the fleet it named first.

### Tracks: RailDataToken, TrackBoards, TrackScheduler, TrackFetcher, StationSurvey

| in the model | in the code |
|---|---|
| `RailDataToken`: `memory`, `disk`, `suspended` | `TokenCache.state`, `raildata-token.json`, `suspended_until` |
| `call`, `at` | the call in progress and the time it works with |
| `replaced` | whether that call had a token refused: a cached one or one just requested is replaced once within a call, by another counted request (`raildata.rs:207`) |
| `asked`, `failed` | history: requests as the server received them, the last refusal |
| `TrackBoards`: `boards` | `AssignmentStore.boards` by source; a row names a train and a stop, no run |
| `predicted`, `documents`, `named` | what Amtrak predicts, what the fetcher last read, history |
| `TrackScheduler`: `touch`, `stationTouch`, `gap` | `last_touch`, `station_touch`, `last_refresh`, as ages |
| `hintFile`, `early` | `early-refresh.json`, the trains of the fetcher's last poll |
| `TrackFetcher`: `cycle`, `picks`, `lastFetched`, `documents`, `tracked` | `poll_once` with its picks, `TrackStore` |
| `browser`, `elapsed`, `wake` | `ResidentBrowser` with its backoff, the sleep of `run_forever` |
| `StationSurvey`: `rows`, `files`, `report` | rows of a cycle, `snapshot-*.json`, the merged report |

A cycle of the fetcher chooses at one time and asks at later ones; a call of the
RailData client reads the clock once and its requests take up to `Timeout`; a
hint is taken and written in two steps. Those gaps are what the properties are
about. `TrackBoards` has one train number on consecutive days at one station,
since the rows of the store do not tell the days apart. In `StationSurvey` a
report remembers which snapshots went into it, in which order.

### Feeds: FeedBuild, Advisories, StaticBlobs, ValidatorCache, FeedDelivery

| in the model | in the code |
|---|---|
| `FeedBuild`: `source`, `batch`, `products`, `verdict` | the batch of the source, the same stamped, `GenerationBuilder::build`, `CandidateValidator::validate` |
| `augmented`, `platforms`, `table`, `board` | the schedule's platform stops, `SharedPlatforms`, the freshest board |
| `Advisories`: `list`, `detail`, `due`, `held` | `advisories.html` and `details/` with mtimes, the pages due and rendered |
| `request`, `cache` | what `route` has read so far, `WithAdvisories.cache` |
| `StaticBlobs`: `dirs`, `blobs`, `intern` | generations with the ZIPs of their three names and which parts are linked or copied, `blobs/`, `static_intern` |
| `refused`, `orphans` | directories that could not be removed; history: their ZIPs, still interned |
| `ValidatorCache`: `cache`, `decision` | the cache directory, the answer for the ZIP at hand |
| `FeedDelivery`: `counter`, `poll`, `kept`, `serving` | `GENERATION_COUNTER`, the start of the poll, directories, the current generation |
| `client` | the manifest it read, the copy it holds, and what it was told |

`FeedBuild` takes a schedule with shared spellings, repeated stops and a route
of a type that no selector may name (`valid_route_type` has neither coach, 200,
nor some others), and enumerates stop-time updates and alert selectors over
every combination of their fields. In the code the builder and the validator
call the same predicates on an entity, and in the model they share them too:
what `BuiltValidates` says is therefore mostly about ids, and about entities of
which the builder has dropped a part: the rest must be valid as a whole. `Accepts` leaves out the checks of
the header, of deletions and of the number of payloads, which `build` satisfies
for every batch.

`StaticBlobs` has the three ZIPs of a generation, each under its name, and two
kinds of feed: one that publishes Amtrak's schedule as it is, and an augmented
one, whose static ZIP and add-on are its own. A link may fail and leave a copy,
when a generation is written or when `open` looks for copies to link; the
removal of a directory may fail with any part of it gone. In `FeedDelivery` a
date is a calendar date made and parsed by the arithmetic of the code.

Abstracted throughout: what a page, document, ZIP or protobuf contains beyond
what decides a step; parsing and formatting; logging.

## 3. Runs

| run | result | shows |
|---|---|---|
| `StoreFaults` | pass, 91k states | four publications under a cap of two, a byte budget of one generation and a filesystem that may be full; three faults at any step: `ReadersIntact`, `CurrentDurable`, `VolumeBounded`, the refinement of `FeedSet`, and `AlwaysIdleAgain` |
| `StoreWindowLeftover` | violation | `ReaderWindow` when a publication can be cut short anywhere |
| `StoreErrorAfterCommit` | violation | `ErrorKeepsCurrent`: an error after the visible generation changed |
| `RefreshSafety` | pass, 763k | the three tasks in every order, two schedules, two faults: `ActivePaired`, `NewestKept`, `PublishedForward` |
| `RefreshLive` | pass, 211k | `LabelPublished` and `CatchesUp`: by wake-ups alone while saves or polls fail, and by the daily poll after any one fault |
| `RefreshRestart` | violation | `LabelPublished` after a restart, without the daily poll |
| `FleetLive` | pass, 23k | three containers that crash, restart and fail: `WholeCohort`, `MarkerComplete`, the refinement of `FeedBarrier`, and `CohortCatchesUp` |
| `FleetOfficial` | violation | `OfficialServed` after a restart |
| `Tracks` | pass, 645k | token: `BudgetKept`, `PauseKept`; hints: `HintReleased`; fetcher: `HotAttempted`, `CooldownKept`; boards: `RightRun`, `StaysUp`; survey: `MergedExact`, `WindowCovers` |
| `TracksBlocked` | violation | `BlockedGoesStale`: a fetcher that nobody answers looks current |
| `HintLost` | violation | `HintReachesPoll`: a hint overwritten before it is read |
| `Feed` | pass, 1.15M | identifiers: `NewestIsLast`; HTTP: `CopyCurrent`; building: `BuiltValidates`, `StampKeeps`, `SelectorExact`; advisories: `AdvisoriesCurrent`, `DetailsStay`; bytes: `BudgetMet`, `InternExact`; validator: `CacheTruthful`, `RememberedServed`; store: `ReaderWindow` |

Every passing run also checks the type invariant of each module it moves.

Bounds. *Store*: a generation interacts with its predecessor (supersession),
with what is current and with the cap, so four generations under a cap of two
contain a failed, a superseded, a current and a new one together; three faults
allow a failure, a crash during the recovery from it, and one more.
`ReaderWindow` is meant where neither cap nor budget nor free space is the
limit, so the `Feed` run sets those wide, with four ticks for a window of two.
*Pipeline*: every hazard is about one snapshot and one newer one, and one label;
the second label is there for the station that a new schedule adds.
`MaxAccepted` is not reached in the liveness runs. *Cohort*: a fault, a new
schedule and one poll on top of those that were cut short give every pair of an
old and a new fleet, with contributions to either; `MaxPolls` counts only polls
that ended, so no fault uses up the bound. *Token*: two requests per window of
four, with `Timeout` below both. *Fetcher*: two trains, one of them calling at
two stations, for one fetch per cycle, so that one of them waits. *Boards*: two
days six apart, delays of one, and a cache age of one: every document expires
between the days, and one unit nearer, a delayed run reaches into the
window of the next day and `RightRun` no longer holds. *Survey*: watches of up
to two cycles, three snapshots in all, and merges of any of them, reports
included; survey defaults of 4 and 2 for lookahead and hot window, against
configured ones that equal both, that lie below and above them, and above and
below. *Building*: two routes, one of them not selectable; all combinations of
the fields of one update or one selector, and all pairs of eight sample
entities, since an entity affects another only by its id or by the trip it
names. *Advisories*: two linked pages of which the cap admits one, and a page
may be served exactly until it is due, as the defaults have it. *Bytes*: three
generations of an official or an augmented feed, whose ZIPs have the lengths 4,
2 and 0, for a budget of 8: that holds three official generations, which share
4, or one of each kind, and no third to these. Links of two names may fail, and one removal;
so plans with shared, unshared, copied and stranded bytes all occur. *Delivery*:
ticks of a day over the end of February of a leap year; two identifiers per
life of the process, two directories. A state that a bound cuts off is cut by a
guard that names the bound, or by `Max...` in an action.

The deadlock check is off where the system may stop at a bound of the model:
the cohort at its polls, the parts of `Tracks` and `Feed` at the end of time. In
the store and the pipeline it is on.

Fairness. `WF(Step)` of the store: the thread that publishes or opens runs on,
and Docker restarts a process that ended. No fairness is assumed of a publication
starting, of faults or of the clock. In the pipeline each task is a tokio task
of its own on a multi-threaded runtime, so each has weak fairness, the daily
interval too where `daily` says it elapses. `SF(Reload)` with `Preempted =
FALSE` is stronger: it says that a reload finds a moment between two rounds of
the boards, and that the few instructions between staging and reading the
stations are not interrupted by a whole publication. The runtime makes the
opposite unlikely rather than impossible. The safety run does not assume it
(`Preempted = TRUE`). In the cohort the three processes and the assembler have
weak fairness each, and the restart by Docker and the refresh interval too; a
decorator that always takes longer than the poll interval is excluded by that
(see below). In `TrackScheduler` the flusher, its write and the polls of the
fetcher have weak fairness: each is a loop with a sleep.

### Findings

Each has a violation run and is quoted in `PROJECT.json`.

1. A closing retention pass that fails returns an error after the commit
   (`writer.rs:537`), and the poller then does not promote (`StoreErrorAfterCommit`).
2. A directory left by a publication that failed after its rename dates the
   supersession of the generation that is still current, which is deleted
   without its window when it is replaced (`writer.rs:591`, `StoreWindowLeftover`).
3. A restart loses the wake-up for a label that is saved but not published
   (`static_gtfs.rs:600`, `RefreshRestart`).
4. After a restart the combined ZIP is published as Amtrak's official one until
   the schedule changes (`lib.rs:171`, `FleetOfficial`).
5. Cycles with nothing to fetch count as successes, so a fetcher whose trains all
   cool down looks current (`poller.py:321`, `TracksBlocked`).
6. The flusher overwrites hints that no poll has read (`roles.rs:129`, `HintLost`).

### What the models show besides

Remarks without a run of their own; most are an assumption of a property, named
in its comment.

- *Store.* Recovery serves a generation whose directory entry may not be durable
  yet (`writer.rs:174`): `CurrentDurable` assumes that unsynced writes of a killed
  process reach the disk before power is next lost (`LazyWriteback = FALSE`).
- *Labels.* A reload drops labels that a failed save left in memory
  (`static_augment.rs:419`). The stations of a staged schedule are not taken over
  if it is promoted before they are read (`static_gtfs.rs:632`). In the
  three-container deployment the boards run elsewhere, so the wake-up never fires.
- *Cohort.* `WholeCohort` and `MarkerComplete` need a clock that is not set back:
  a fleet counter that restarts within a repeated second names an earlier fleet.
  A failure after the truncation of `fleet/CURRENT` changes it, against
  `cohort.rs:42`; no cohort is wrong by it, as an empty pointer assembles nothing.
  Promotion comes before the commit of the generation. A decorator slower than
  the poll interval never contributes to the current fleet (`design.md:126`).
  Every fleet copies three ZIPs and is never removed (`cohort.rs:84`).
- *Identifiers.* Their order breaks if the clock is set back over a restart.
- *Bytes.* `BudgetMet` holds of official and of augmented feeds with two
  exceptions, which `UnseenBytes` and `Stranded` name. The plan may delete too
  little: it does not scan copies of official and add-on ZIPs, and it counts a
  blob as freed with its last link as `static.zip`, although a generation may
  still link it as its official ZIP (`writer.rs:613` has the shared bytes stay
  until every generation that links them is removed; it means as `static.zip`). It
  may delete too much: blobs linked only as an official or add-on ZIP are
  counted in the total and never as freed (`writer.rs:553` has bytes go with the
  directory that holds them), and so are blobs that nothing links, which are
  counted before they are collected. The estimate counts equal ZIPs
  once per name. `ensure_publish_space` deletes directories without collecting
  at all.
- *Interning.* A generation leaves memory before its directory is removed. If the
  removal fails, its ZIPs stay interned for the life of the process
  (`writer.rs:376`), which `InternExact` admits of them alone.
- *Building.* Selectors that name a route type are compared with the schedule only
  if `valid_route_type` knows the type: an alert for coach routes (200) loses
  that selector though such routes exist. An empty entity id makes the validator reject the whole
  generation; `BuiltValidates` excepts it.
- *Boards.* A track is dropped when a later document omits it and its run is
  then delayed by more than the grace (`store.rs:113`). A run more than about
  eleven hours late takes the next day's track.
- *Scheduler and fetcher.* Early trains are taken in string order, although
  `schedule.rs:183` says lowest number first. Hints for stations are taken but
  never read. The rotation that favours the train fetched longest ago is
  forgotten when a train leaves the window. The hot window of a train is the
  smallest of its stations, which defeats a wider profile.
- *Survey.* A report that is merged again loses the first stamp of a number that
  was replaced and came back. The survey judges by its own defaults, those of a
  `Config()` without environment (`status_parse.py:22`), and not by the windows the
  containers are configured with: where these are wider, a profile
  narrows them, though to no less than those defaults (`lead_time.rs:235` has a
  station's 600 s replace 1800 s). A side that the last document lacks keeps its track and loses
  its times. The profile is written in place.
- *Advisories.* With the default `DETAIL_MAX_STALE = DETAIL_TTL` a detail page is
  refused from when it is due until it is rendered again, which takes up to a
  poll and two cycles. `config.py:48` promises that it is not refused *before* it
  is due, and that is so; `DetailsStay` says both. Pages beyond the first
  `MAX_DETAIL_PAGES` of a list are never rendered. The requests of the service
  have no timeout (`advisories.rs:60`): a server that accepts one and does not
  answer holds up the source. List and
  mtime are read separately, so an answer may pair the new time with the old
  list. The last good advisories are served for ever if the fetcher ends. The
  end of an active period is the midnight that begins its last day. A second
  advisory with an id is dropped (`advisories.rs:367`).
- *Validator cache.* Its decisions survive an upgrade of the validator, and
  temporary files of a killed process are never removed.
- *HTTP.* Two polls may begin in one second after a late tick, and a date then
  answers 304 for the older copy. `If-Modified-Since` counts even when
  `If-None-Match` does not match. `CopyCurrent` excepts that second.

## 4. Proofs

All theorems hold for every value of the constants that the modules' `ASSUME`s
allow: any number of generations, labels, schedules, polls, processes and faults.
TLC checked the invariants as invariants of a run before they were proved, as far
as it can evaluate them.

`GenerationStore_proofs`

- `TypeCorrect`: `Spec => []TypeOK`.
- `ReadersStayIntact`: `Spec => []ReadersIntact`, from `SafeInv`. `ReadersIntact` is not
  inductive alone, since it says nothing between a restart and the end of
  recovery, nor of the generation being published. `SafeInv` adds that memory is
  complete on disk from the selection on (`MemoryInv`), how far the new generation
  has come at each step (`PublishInv`), that identifiers from `next` on are unused
  (`FreshInv`), and that what is planned for deletion exists (`PlanInv`); deletions
  spare the current generation by their guard (`DeletionTarget`).
- `CurrentStaysDurable`: `~LazyWriteback` implies `Spec => []CurrentDurable`, from
  `SafeInv` and `DurableInv`. The directory of `current` is durable from the moment
  it is selected or swapped in: for a new generation because the sync of
  `generations/` comes before the marker, for a recovered one because nothing is
  unwritten while the process is down.
- `StoreImplementsFeedSet`: under the same assumption, `Spec => FeedSetSpec`. Initial
  states map to initial states and each action to a step of `FeedSet` or to a
  stutter. The hard case is recovery. It needs `VisibleInv`: neither marker is ever
  older than what readers last saw, and while the process is down a complete
  generation at least that new is there to be found.
- `VolumeAlwaysBounded`: `Spec => []VolumeBounded`, from `CountInv`: a prune plans to leave
  no more than the cap, one directory more is there while a publication goes on or
  after it failed, and the pass that closes a successful one removes it again.

`RefreshPipeline_proofs`

- `TypeCorrect`: from `TypeInv == TypeOK /\ DownInv` (a process that is down has
  nothing pending and is not polling).
- `NewestIsKept` and `PublishedMovesForward`: from `ForwardInv`. It adds to `NewestKept`
  that snapshots are numbered as they are accepted and nothing published is newer
  than the newest accepted (`OrderInv`), and that the candidate of a poll lies
  between the published and the newest one, and what was pending stays so until it
  is promoted (`PollInv`).
- `ActiveIsPaired`: from `PairInv` (a candidate that was not pending is the active one,
  and one awaiting promotion is published), assuming `"late" \notin Faults`. With late errors
  it does not hold (finding 1): the generation is visible and the snapshot it
  was built with is still pending. The next publication repairs it.

`FleetCohort_proofs`

- `TypeCorrect`: `Spec => []TypeOK`, for every fault, a clock set back included.
- `MarkerAlwaysComplete`: `fleet/CURRENT` is empty or names a complete fleet, if
  `"clock" \notin Faults`. `FleetInv` adds to it that ids of fleets lie before the next
  id of this process and name one poll each (`IdInv`, with `Used`), and how far
  `write_fleet` has come (`WriteInv`).
- `CohortWhole` and `CohortBarrier` (`Spec => BarrierSpec`), under the same
  assumption. `CohortInv` adds that every contribution and all work in progress
  comes from a fleet with its id and its poll (`SourceInv`), that published,
  assembled and current polls are in order (`OrderInv`), and that an assembly
  holds decorations of its own poll (`AssemblyInv`). The refinement maps a
  contribution to a decoration of the barrier and a publication to what it
  shows; that no step of the containers shows an earlier poll is `OrderInv`.

`RailDataToken_proofs`

- `TypeCorrect`; `PauseAlwaysKept`: `Spec => PauseKept`, for every budget, window, reuse
  time, pause and timeout, whether files can be written or not. `TimeInv` adds to the
  pause that a call in progress began at most `Timeout` ago and with the client not
  suspended, and that a suspension ends a pause after the call that was refused
  began: the request that follows a refusal belongs to a call that began after it.
  A second request within a call, for a token that was refused, follows none: the
  call ends with the first request that fails.
- `BudgetAlwaysKept`: `Spec => []BudgetKept`. `CountInv` says of the lists in memory and
  on disk that they are in order of time (`Listed`) and that, counted from the last,
  each request the server received has one in the list that is no more than
  `Timeout` older, or the window has passed over it (`Covers`); one that is counted
  but not yet received is the last of both lists (`PendingInv`). Counting before
  asking is what makes a crash in between harmless. The second request of a call
  passes the budget like the first, and is counted at the same time.

`FeedDelivery_proofs`

- `TypeCorrect`; `NewestAlwaysLast`: `Spec => []NewestIsLast`. The invariant adds that the
  poll in flight began in the past (`ClockInv`), and that no identifier lies beyond
  the second in which the next may be taken, nor, within that second, at or
  beyond the counter (`IdInv`, with `Horizon`). A restart resets the counter, so the
  proof needs that a start takes longer than a second and that the clock is not
  set back (the module's header); `LastInv` is `NewestIsLast` in a form that does not
  choose.
- `CopyAlwaysCurrent`: `Spec => []CopyCurrent`. `CopyInv` relates what is served to what is
  kept (`VolumeInv`) and the copy, identifier and date of a client to the
  generation they came from (`ClientInv`). `DateRoundTrip` proves that the parser of a
  date gives back the second it was made from, for every second of the
  years that the module considers, leap years included.

`Feed_proofs`

- `CacheAlwaysTruthful` and `RememberedAlwaysServed`, from `ValidatorInv`: what can be read
  back of the cache is true (`TruthfulCache`), a torn tail included, and so is
  what the fetch holds at each step (`FetchInv`).
- `BuiltAlwaysValidates`, `StampAlwaysKeeps` and, for schedules in which agencies, routes
  and trips are connected, `SelectorAlwaysExact`, for every schedule, any set of
  route types that a selector may name, and any sequence of entities. `BuildInv`: labels and boards are about stops the schedule has
  (`ScheduleInv`), the stamped batch keeps what the source's batch had
  (`StampedInv`), and products are sound at each stage (`StageInv`, with `Sound`: ids
  are distinct and each payload passes its checks). The builder adds entities
  one by one, so `CandidateSound` is an induction over its steps, by the smallest
  counterexample.
- `InternAlwaysExact`, from `DirInv`: memory knows only directories, directories have
  identifiers below the next one, so that writing a new one never changes what
  a loaded one holds, and what is about to be committed is there. What a removal
  that fails leaves interned is among the orphans.
- `BudgetAlwaysMet`, for every set of snapshots, lengths and failing links. Its two
  halves share one account. The plan is a recursive function over the
  generations, and `PlanInv` says of each of its steps that the total *equals* the
  bytes of the blobs that remain, of the generations that are spared and of the
  coming one; that another than the current one is spared only once that fits; and
  that with the last one doomed it would not fit. `FreesBlob` is the heart of it: a
  static ZIP goes with a generation exactly if that is the last of its `Linkers`, or
  the only one with a link. `PlanSpares` is half of the property at once. The other
  is about the volume after the deletions, when the counts the plan was made
  from are gone: `LeftInv` remembers of them a set of blobs that fits the budget
  and contains every linked one but the `Hidden` (`DeletionsKeep`, `KeptRemains`),
  and `LeftFits` derives `Fits` from it. `LinkedInv` has it that what is linked has
  a blob: the collection never takes one that a directory links. The sums of
  the model are `Total`, of which the lemmas say that any element can be taken out
  of it (`TotalRemove`), a part is no more than the whole (`TotalPart`), and how sums
  of sums and of unions relate (`TotalAdds`, `TotalUnion`).
- `FeedTypeCorrect`: `FeedSpec => []TypesOK`. Types need the other invariants:
  identifiers and details of `AdvisoryInv` (`PagesInv`), the answer a fetch ends with
  (`AnswerInv`), what of the blobs is within bounds, since only a publication for which
  there is an identifier left is begun (`SpaceInv`), and the results of the store
  (`OutcomeInv`).
- `ReadersWindowKept`, from `StoreInv`: a generation was last seen before the next one
  was written (`TimesInv`), how far opening and publishing have come
  (`PlaceInv`), and that what was shown within the window is complete on disk
  and spared by every plan (`DiskInv`). It is about the store without failed
  publications; with them it does not hold (finding 2).
- `AdvisoriesAlwaysCurrent` and `DetailsAlwaysStay`, from `AdvisoryInv`: how old the list may
  be at each stage of cycle, request and cache (`ListInv`), and when each stored
  page will be asked for again (`DetailInv`). Of the periods both assume only what
  `config.py` enforces: that they are positive, and `DetailTtl <= DetailStale`.

`Tracks_proofs`

- `RightRunAlways` and `StaysUpAlways`, assuming `Boards!Apart`, from `BoardsInv`: predictions only grow
  (`RailwayInv`), what the fetcher last read names a track of its own run
  (`DocumentInv`), each row is of a run that was near when it was read
  (`StoredInv`), and the track that was named last is held until its run is over
  (`NamedInv`).
- `CooldownAlwaysKept`, assuming `Cooldown <= 2 * Poll`, from `CooldownInv`: what is about to
  be asked was chosen by what is remembered (`LoopInv`), and what `pruned` forgets
  is older than the cooldown, as two cycles begin at least a poll apart
  (`MemoryInv`).
- `HotAlwaysAttempted`, assuming `Fetcher!HotMargin`, from `CooldownInv`, the pace of the loop
  (`PaceInv`) and `HotInv`: a stop whose window has opened has been asked about
  (`Asked`), has an excuse (`Excused`), is among the picks of the cycle that is on
  (`Picked`), or the cycle that will see it is still to begin (`Early`).
- `HintAlwaysReleased`, assuming `Cardinality(HintTrains) <= MinGap * MaxPerFlush`, from
  `QueueInv`: a quiet hint that was passed over `k` rounds beyond its gap has been
  passed by `MaxPerFlush * k` distinct trains released within these rounds
  (`PassedInv`), and there are not that many; `GapInv` bounds the ages.

`Survey_proofs`

- `TracksTypeCorrect`: `TracksSpec => []TypesOK`, all five parts of `Tracks` together.
- `WindowAlwaysCovers` and `MergedAlwaysExact`, for every document, any number of
  snapshots and train-days, reports merged again, and windows configured
  independently of the survey's defaults. `SurveyInv`: snapshots hold
  rows read later than those before (`FilesInv`), rows of the cycle are newer than
  all of them (`RowsInv`), and the report says of each stop what the rows of its
  snapshots say together (`ReportInv`). A merged row takes the place of the rows it
  was made of in the next merge; `JoinTells` proves that it tells as much as they
  do: first sight, first stamp, wavering, last times. `WindowReaches` is about
  the lookahead of any finite set of rows: the median, minimum and rounding to
  minutes never bring it below a single row's first sight.

The proofs work over arbitrary finite sets, so each module proves the facts
about least and greatest members, images, sums and cardinalities that it needs.
Where a definition is recursive (`Candidate`, `PlanDeletions`, the sums), the induction
is over the smallest counterexample, and that the function exists is a lemma of
its own (`StepsThere`, `PlansThere`, `SumsThere`).

### Assumptions

Besides the `ASSUME`s of the modules (types of constants), which TLC evaluates, several
theorems assume a relation between constants. What the code makes of each, in its
own units:

- `Apart` (events of two days do not overlap): departures of one train are 24 h
  apart; a source sees an event from 12 h before (`EVENT_WINDOW_AFTER`) until 1 h
  after (`EVENT_WINDOW_BEFORE`), a row lives 15 min beyond (`retain_grace`) and a board
  5 min. It holds for delays below about eleven hours; later runs are the remark
  on boards in section 3.
- `Cooldown <= 2 * Poll`: 90 s and 60 s by default.
- `HotMargin` (a cycle begins and ends within the shortest hot window, and no hot
  window exceeds the lookahead): 720 s hot and 1800 s ahead against polls of 60 s.
- `Cardinality(HintTrains) <= MinGap * MaxPerFlush`: 24 trains per flush, 90 flushes
  per gap of a
  second each, 2160 trains.
- `Connected` (every agency has a route, every route a trip, every trip a call): of
  an agency without routes a selector names nothing that exists together, although
  the code keeps it, since the table has the agency.
- `~LazyWriteback`, no `"late"` error, no `"clock"` fault: named with their theorems.

`MCTracks` and `MCFeed` assume `Apart` and `Connected` of their instances, so TLC
evaluates them; the configurations satisfy the others.

### Only model-checked

Liveness (`AlwaysIdleAgain`, `CatchesUp`, `LabelPublished`, `CohortCatchesUp`), which is
out of the prover's reach, and all violations. Every invariant and action property
that a passing run checks is stated by a theorem; those with an assumption above
are proved under it and no further.

One caution for whoever continues: the SMT translation takes `CHOOSE` over a set it
cannot see to be empty for a member of it. Definitions with `CHOOSE` are therefore
expanded only where a step has proved that there is something to choose.

## 5. Not modelled

- Parsing, decryption and formatting of Amtrak's pages, RailData boards, GTFS
  tables and protobuf; ZIP repair and add-on; display strings. They are pure
  functions of large data; their tests say more about them than a model would.
- The status tools, which run once, and the parsing of the environment, which is
  read once; its limits are constants of the modules.
- `readyz`, `livez`, access policy, query filters and rendering of HTTP products
  depend on one state read at a time.
- `supervise`: a task that ends takes the process down and Docker starts it
  again; the modules take that as the crash and restart of a whole process.
- The choice among realtime endpoints, the rotation of the boards over several
  stations, the cap of 1000 labels, and the renaming of a label file that does not
  parse.
- The time that a request of the advisory source takes. Its client has no
  timeout (`advisories.rs:60`), so a request may hang, and the poll with it; in
  `Advisories` a request is answered or fails at once.
- Of the bytes: a blob that is written in part, what is left of
  `.static.zip.relink`, and the small artifacts one by one (`rest` is all of them
  with the manifest). Which generation `open` selects is `GenerationStore`'s, and its
  early pruning, which the pass that follows repeats, is left out.

## 6. Next

1. `WholeCohort` for a clock that is set back, under the condition that no
   contribution to the repeated id is left.
2. The rotation of the boards over stations with the shared token budget, as a
   composition of `RailDataToken` and `TrackBoards`.
3. `readyz` over the age of the published generation, if it says more than a test.
