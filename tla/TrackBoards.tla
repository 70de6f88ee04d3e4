---------------------------- MODULE TrackBoards -----------------------------
(***************************************************************************)
(* Track assignments (sources/tracks): the refresher reads Amtrak's status *)
(* documents and a departure board into the store, and every generation    *)
(* stamps stop times from it.  One train number runs daily past one        *)
(* station: the rows of the store name the train and the stop, never the   *)
(* run, so what keeps the tracks of two days apart is time alone.          *)
(***************************************************************************)
EXTENDS Integers, FiniteSets

CONSTANTS
  Runs,          \* the days, 1..n
  Scheduled,     \* when each run is due at the station
  Tracks,        \* track labels
  Listed,        \* the labels of the published schedule
  MaxDelay,      \* bound: how late a run gets
  Lead,          \* how long before a run a source shows its track
  Grace,         \* retain_grace
  MaxAge,        \* max_age
  WindowBefore,  \* EVENT_WINDOW_BEFORE
  WindowAfter,   \* EVENT_WINDOW_AFTER
  MaxTime        \* bound: the clock

(* To be assumed of the constants; the two that are configured are positive *)
(* (positive_secs).                                                        *)
BoardsConstants ==
  /\ Runs \subseteq Nat \ {0} /\ Scheduled \in [Runs -> Nat] /\ Listed \subseteq Tracks
  /\ {MaxDelay, Lead, WindowBefore, WindowAfter, MaxTime} \subseteq Nat
  /\ {Grace, MaxAge} \subseteq Nat \ {0}

(* Two runs are so far apart that the sources of the one and the window of *)
(* its events end, however late it is, before those of the other begin.    *)
Apart ==
  \A r, later \in Runs : r < later =>
    \A after \in {Grace, MaxAge, WindowBefore}, ahead \in {Lead, WindowAfter} :
      Scheduled[r] + MaxDelay + after < Scheduled[later] - ahead

VARIABLES
  now,
  predicted,   \* when each run is predicted at the station
  documents,   \* the bundle of the track fetcher: what it last read of a run
  boards,      \* AssignmentStore.boards, by source
  named        \* the prediction when the store last took a run's track; 0 is not

vars == <<now, predicted, documents, boards, named>>

(* A label together with the run it is meant for, which the code drops.    *)
Labels == [run : Runs, track : Tracks]
NoLabel == [run |-> 0, track |-> "none"]
Document == [fetched : Nat, label : Labels \cup {NoLabel}, time : Nat]

(* Sources: a run's own documents, by date, or the station's board.        *)
BoardKey == 0
Keys == Runs \cup {BoardKey}

(* Rows of one source for this train and stop: a set, empty or single.     *)
StationBoard == [observed : Nat, rows : SUBSET [label : Labels, until : Nat]]

TypeOK ==
  /\ now \in Nat
  /\ predicted \in [Runs -> Nat]
  /\ DOMAIN documents \subseteq Runs
  /\ \A r \in DOMAIN documents : documents[r] \in Document
  /\ DOMAIN boards \subseteq Keys
  /\ \A k \in DOMAIN boards :
       boards[k].observed \in Nat /\ Cardinality(boards[k].rows) <= 1
  /\ named \in [Runs -> Nat]

Empty == [x \in {} |-> 0]

Init ==
  /\ now = 1 /\ predicted = Scheduled
  /\ documents = Empty /\ boards = Empty
  /\ named = [r \in Runs |-> 0]

Put(f, x, y) == [z \in DOMAIN f \cup {x} |-> IF z = x THEN y ELSE f[z]]

-----------------------------------------------------------------------------
(* The railway and the track fetcher.                                      *)

Tick ==
  /\ now < MaxTime                                          \* bound MaxTime
  /\ now' = now + 1
  /\ UNCHANGED <<predicted, documents, boards, named>>

Delay(r) ==
  /\ now < predicted[r] /\ predicted[r] < Scheduled[r] + MaxDelay
  /\ predicted' = [predicted EXCEPT ![r] = @ + 1]
  /\ UNCHANGED <<now, documents, boards, named>>

Near(r) == now >= predicted[r] - Lead /\ now <= predicted[r]

(* A document names a track of the run, or none (any more).                *)
FetchDocument(r) ==
  /\ Near(r)
  /\ \E label \in [run : {r}, track : Tracks] \cup {NoLabel} :
       documents' = Put(documents, r, [fetched |-> now, label |-> label,
                                       time |-> predicted[r]])
  /\ UNCHANGED <<now, predicted, boards, named>>

-----------------------------------------------------------------------------
(* The store.                                                              *)

Row(label, until) == [label |-> label, until |-> until]

Retained(rows, t) == {row \in rows : row.until > t}

(* groups_from_status: a document without a track is no group; and an      *)
(* older group than the stored one is ignored.                             *)
Groups(stored) ==
  {r \in DOMAIN documents :
     /\ documents[r].label # NoLabel
     /\ r \in DOMAIN stored => documents[r].fetched >= stored[r].observed}

RowOf(r) == Row(documents[r].label, documents[r].time + Grace)

(* Mutant: a document's row joins the one that is there.                   *)
UpsertAppending(stored) ==
  LET old(r) == IF r \in DOMAIN stored THEN stored[r].rows ELSE {}
  IN  [k \in DOMAIN stored \cup Groups(stored) |->
         IF k \in Groups(stored)
           THEN [observed |-> documents[k].fetched, rows |-> old(k) \cup {RowOf(k)}]
           ELSE stored[k]]

(* upsert_retained: a group replaces the rows of its run, or removes them  *)
(* if they are over.                                                       *)
UpsertRetained(stored) ==
  LET groups == Groups(stored)
      over == {r \in groups : Retained({RowOf(r)}, documents[r].fetched) = {}}
  IN  [k \in (DOMAIN stored \cup groups) \ over |->
         IF k \in groups
           THEN [observed |-> documents[k].fetched, rows |-> {RowOf(k)}]
           ELSE stored[k]]

Fresh(board) == now - board.observed <= MaxAge

(* Mutant: rows of documents go by their age as well.                      *)
PublishableByAge(stored, k) ==
  {row \in stored[k].rows : Fresh(stored[k])}

(* What may still be published: an Amtrak row until its time, a row of the *)
(* board until its age.                                                    *)
Publishable(stored, k) ==
  {row \in stored[k].rows :
     IF k = BoardKey THEN Fresh(stored[k]) ELSE now < row.until}

(* prune.                                                                  *)
Pruned(stored) ==
  LET kept == {k \in DOMAIN stored : Publishable(stored, k) # {}}
  IN  [k \in kept |-> [stored[k] EXCEPT !.rows = Publishable(stored, k)]]

ReplaceStation(stored, rows) ==
  Put(stored, BoardKey, [observed |-> now, rows |-> rows])

(* refresh_once: the board is read, or its request fails; then the bundle  *)
(* is, or its request fails; then everything too old is pruned.  The board *)
(* shows the runs that are near.                                           *)
BoardRows ==
  {{Row(label, 0)} : label \in [run : {r \in Runs : Near(r)}, track : Tracks]}
  \cup {{}}

RefreshOnce ==
  \E boardRead, bundleRead \in BOOLEAN : \E rows \in BoardRows :
    LET one == IF boardRead THEN ReplaceStation(boards, rows) ELSE boards
        all == IF bundleRead THEN UpsertRetained(one) ELSE one
    IN  /\ boards' = Pruned(all)
        /\ named' = [r \in Runs |->
             IF /\ r \in DOMAIN boards'
                /\ bundleRead /\ r \in DOMAIN documents
                /\ documents[r].label # NoLabel
               THEN documents[r].time ELSE named[r]]
        /\ UNCHANGED <<now, predicted, documents>>

(* The store is in memory only; so are the fetcher's documents.            *)
Restart ==
  /\ boards' = Empty
  /\ named' = [r \in Runs |-> 0]
  /\ UNCHANGED <<now, predicted, documents>>

RestartFetcher ==
  /\ documents' = Empty
  /\ UNCHANGED <<now, predicted, boards, named>>

Next ==
  \/ Tick \/ RefreshOnce \/ Restart \/ RestartFetcher
  \/ \E r \in Runs : Delay(r) \/ FetchDocument(r)

Spec == Init /\ [][Next]_vars

-----------------------------------------------------------------------------
(* Stamping.                                                               *)

(* source_precedence: a fresh Amtrak document, then the board, then an     *)
(* Amtrak document that is no longer fresh; later dates later.             *)
Precedence(k) ==
  IF k = BoardKey THEN 1 ELSE IF Fresh(boards[k]) THEN 3 ELSE 0

Beaten(k, l) ==
  Precedence(k) < Precedence(l) \/ (Precedence(k) = Precedence(l) /\ k < l)

(* fresh_board: the row that is inserted last.                             *)
FreshBoard ==
  LET publishable == {k \in DOMAIN boards : Publishable(boards, k) # {}}
      last == {k \in publishable : \A l \in publishable : ~Beaten(k, l)}
  IN  UNION {Publishable(boards, k) : k \in last}

(* Mutant: an event may lie a day ahead.                                   *)
EventWithinDay(r) ==
  predicted[r] >= now - WindowBefore /\ predicted[r] <= now + 2 * WindowAfter

EventInWindow(r) ==
  predicted[r] >= now - WindowBefore /\ predicted[r] <= now + WindowAfter

(* stamp_stop: the labels that a generation made now gives to a run.       *)
Stamped(r) ==
  IF EventInWindow(r)
    THEN {row.label : row \in {x \in FreshBoard : x.label.track \in Listed}}
    ELSE {}

(* A run is stamped with a track that was shown for this run, never with   *)
(* that of the day before or after, as long as delays leave room for it    *)
(* (mod.rs: "keeps the other run of a train that runs across two days from *)
(* receiving today's track").                                              *)
RightRun ==
  \A r \in Runs : \A label \in Stamped(r) : label.run = r

(* A track that Amtrak showed stays up until the run leaves, even if later *)
(* documents omit it and no source answers any more, unless the run is     *)
(* delayed by more than the grace after that (store.rs: "a track Amtrak    *)
(* showed once stays up through departure even if a later document omits   *)
(* it").                                                                   *)
StaysUp ==
  \A r \in Runs :
    /\ named[r] # 0 /\ predicted[r] <= named[r] + Grace
    /\ now < predicted[r]
    => \E row \in FreshBoard : row.label.run = r

=============================================================================
