---------------------------- MODULE Tracks_proofs ----------------------------
(***************************************************************************)
(* The parts that bring tracks to the feeds, for every value of their      *)
(* constants.                                                              *)
(***************************************************************************)
EXTENDS Tracks, FiniteSetTheorems, SequenceTheorems, WellFoundedInduction, TLAPS

-----------------------------------------------------------------------------
(* The assignment store                                                    *)

(* Predictions only grow, and a run's track is never named for a later     *)
(* time than it is predicted for now.                                      *)
RailwayInv ==
  /\ boardsNow \in Nat
  /\ predicted \in [Runs -> Nat] /\ named \in [Runs -> Nat]
  /\ \A r \in Runs : /\ Scheduled[r] <= predicted[r]
                     /\ predicted[r] <= Scheduled[r] + MaxDelay
                     /\ named[r] <= predicted[r]

(* A document was fetched near its run and names a track of no other; one  *)
(* fetched at the very time of the run is the last before it leaves.       *)
DocumentInv ==
  /\ DOMAIN bundle \subseteq Runs
  /\ \A r \in DOMAIN bundle :
       /\ bundle[r] \in Boards!Document
       /\ bundle[r].label # Boards!NoLabel =>
            bundle[r].label \in Boards!Labels /\ bundle[r].label.run = r
       /\ bundle[r].fetched <= boardsNow
       /\ Scheduled[r] - Lead <= bundle[r].fetched
       /\ bundle[r].fetched <= bundle[r].time
       /\ bundle[r].time <= predicted[r] /\ named[r] <= bundle[r].time
       /\ bundle[r].fetched = bundle[r].time => predicted[r] <= boardsNow

(* Each source has one row, of the run that was near when it was read.     *)
StoredInv(held) ==
  /\ DOMAIN held \subseteq Boards!Keys
  /\ \A k \in DOMAIN held :
       /\ held[k] \in Boards!StationBoard
       /\ held[k].observed <= boardsNow
       /\ \A x, y \in held[k].rows : x = y
       /\ \A x \in held[k].rows :
            /\ Scheduled[x.label.run] - Lead <= held[k].observed
            /\ k = Boards!BoardKey =>
                 held[k].observed <= Scheduled[x.label.run] + MaxDelay
            /\ k \in Runs => /\ x.label.run = k
                             /\ x.until <= Scheduled[k] + MaxDelay + Grace
       /\ k \in DOMAIN bundle => held[k].observed <= bundle[k].fetched

(* The track that was named last is held until its time, or its run has  *)
(* left.                                                                   *)
Kept(r, held) ==
  r \in DOMAIN held /\ \E x \in held[r].rows : x.until = named[r] + Grace

Over(r) == named[r] + Grace <= boardsNow \/ predicted[r] <= boardsNow

NamedInv == \A r \in Runs : named[r] # 0 => Kept(r, boards) \/ Over(r)

BoardsInv == RailwayInv /\ DocumentInv /\ StoredInv(boards) /\ NamedInv

LEMMA BoardsPeriods ==
  /\ Runs \subseteq Nat /\ 0 \notin Runs /\ Scheduled \in [Runs -> Nat]
  /\ MaxDelay \in Nat /\ Lead \in Nat /\ Grace \in Nat /\ RowAge \in Nat
  /\ WindowBefore \in Nat /\ WindowAfter \in Nat
  BY PartsAssumption DEF Boards!BoardsConstants

LEMMA BoardsInit == Boards!Init => BoardsInv
  BY BoardsPeriods
     DEF Boards!Init, Boards!Empty, BoardsInv, RailwayInv, DocumentInv, StoredInv,
         NamedInv

(* The board of a station replaces the rows of the board before it.        *)
LEMMA ReplaceKeeps ==
  ASSUME RailwayInv, StoredInv(boards), DocumentInv,
         NEW shown \in Boards!BoardRows
  PROVE  StoredInv(Boards!ReplaceStation(boards, shown))
<1> DEFINE s == Boards!ReplaceStation(boards, shown)
<1> USE BoardsPeriods
<1>1. /\ DOMAIN s = DOMAIN boards \cup {Boards!BoardKey}
      /\ s[Boards!BoardKey] = [observed |-> boardsNow, rows |-> shown]
      /\ \A k \in DOMAIN boards : k # Boards!BoardKey => s[k] = boards[k]
  BY DEF Boards!ReplaceStation, Boards!Put
<1>2. /\ shown \subseteq [label : Boards!Labels, until : Nat]
      /\ \A x, y \in shown : x = y
      /\ \A x \in shown : x.label.run \in Runs /\ Boards!Near(x.label.run)
  BY DEF Boards!BoardRows, Boards!Row, Boards!Labels
<1>3. [observed |-> boardsNow, rows |-> shown] \in Boards!StationBoard
  BY <1>2 DEF Boards!StationBoard, RailwayInv
<1>4. ASSUME NEW r \in Runs, Boards!Near(r)
      PROVE  /\ Scheduled[r] - Lead <= boardsNow
             /\ boardsNow <= Scheduled[r] + MaxDelay
  <2>1. /\ boardsNow \in Nat /\ Scheduled[r] \in Nat /\ predicted[r] \in Nat
        /\ Scheduled[r] <= predicted[r] /\ predicted[r] <= Scheduled[r] + MaxDelay
    BY DEF RailwayInv
  <2> QED
    BY <1>4, <2>1 DEF Boards!Near
<1>5. /\ Boards!BoardKey \in Boards!Keys /\ Boards!BoardKey \notin Runs
      /\ boardsNow \in Nat
  BY DEF Boards!Keys, Boards!BoardKey, RailwayInv
<1> HIDE DEF s
<1>6. ASSUME NEW k \in DOMAIN s
      PROVE  /\ s[k] \in Boards!StationBoard
             /\ s[k].observed <= boardsNow
             /\ \A x, y \in s[k].rows : x = y
             /\ \A x \in s[k].rows :
                  /\ Scheduled[x.label.run] - Lead <= s[k].observed
                  /\ k = Boards!BoardKey =>
                       s[k].observed <= Scheduled[x.label.run] + MaxDelay
                  /\ k \in Runs => /\ x.label.run = k
                                   /\ x.until <= Scheduled[k] + MaxDelay + Grace
             /\ k \in DOMAIN bundle => s[k].observed <= bundle[k].fetched
  <2>1. CASE k = Boards!BoardKey
    <3>1. s[k] = [observed |-> boardsNow, rows |-> shown] /\ k \notin Runs
      BY <1>1, <1>5, <2>1
    <3>2. k \notin DOMAIN bundle
      BY <3>1 DEF DocumentInv
    <3>3. \A x \in shown : /\ Scheduled[x.label.run] - Lead <= boardsNow
                          /\ boardsNow <= Scheduled[x.label.run] + MaxDelay
      BY <1>2, <1>4
    <3>4. s[k].observed = boardsNow /\ s[k].rows = shown
      BY <3>1
    <3>5. s[k] \in Boards!StationBoard
      BY <1>3, <3>1
    <3>6. boardsNow <= boardsNow
      BY <1>5
    <3> QED
      BY <1>2, <3>1, <3>2, <3>3, <3>4, <3>5, <3>6
  <2>2. CASE k # Boards!BoardKey
    <3>1. k \in DOMAIN boards /\ s[k] = boards[k]
      BY <1>1, <1>6, <2>2
    <3> QED
      BY <3>1 DEF StoredInv
  <2> QED
    BY <2>1, <2>2
<1> QED
  <2>1. DOMAIN s \subseteq Boards!Keys
    BY <1>1, <1>5 DEF StoredInv
  <2> QED
    BY <1>6, <2>1 DEF StoredInv, s

(* What the groups of a bundle make of a store.                            *)
LEMMA UpsertKeeps ==
  ASSUME RailwayInv, DocumentInv, NEW held, StoredInv(held)
  PROVE  StoredInv(Boards!UpsertRetained(held))
<1> DEFINE s == Boards!UpsertRetained(held)
           groups == Boards!Groups(held)
<1> USE BoardsPeriods
<1>1. /\ DOMAIN s \subseteq DOMAIN held \cup groups
      /\ \A k \in DOMAIN s :
           s[k] = IF k \in groups
                    THEN [observed |-> bundle[k].fetched, rows |-> {Boards!RowOf(k)}]
                    ELSE held[k]
  BY DEF Boards!UpsertRetained
<1>2. groups \subseteq DOMAIN bundle /\ groups \subseteq Runs
      /\ \A r \in groups : bundle[r].label # Boards!NoLabel
  BY DEF Boards!Groups, DocumentInv
<1>3. ASSUME NEW r \in groups
      PROVE  /\ Boards!RowOf(r) \in [label : Boards!Labels, until : Nat]
             /\ Boards!RowOf(r).label.run = r
             /\ Boards!RowOf(r).until <= Scheduled[r] + MaxDelay + Grace
  <2>1. /\ bundle[r].label \in Boards!Labels /\ bundle[r].label.run = r
        /\ bundle[r].time \in Nat /\ bundle[r].time <= predicted[r]
    BY <1>2 DEF DocumentInv, Boards!Document
  <2>2. /\ predicted[r] \in Nat /\ predicted[r] <= Scheduled[r] + MaxDelay
        /\ Scheduled[r] \in Nat
    BY <1>2 DEF RailwayInv
  <2> QED
    BY <2>1, <2>2 DEF Boards!RowOf, Boards!Row
<1> HIDE DEF s, groups
<1>4. ASSUME NEW k \in DOMAIN s
      PROVE  /\ s[k] \in Boards!StationBoard
             /\ s[k].observed <= boardsNow
             /\ \A x, y \in s[k].rows : x = y
             /\ \A x \in s[k].rows :
                  /\ Scheduled[x.label.run] - Lead <= s[k].observed
                  /\ k = Boards!BoardKey =>
                       s[k].observed <= Scheduled[x.label.run] + MaxDelay
                  /\ k \in Runs => /\ x.label.run = k
                                   /\ x.until <= Scheduled[k] + MaxDelay + Grace
             /\ k \in DOMAIN bundle => s[k].observed <= bundle[k].fetched
  <2>1. CASE k \in groups
    <3>1. /\ s[k] = [observed |-> bundle[k].fetched, rows |-> {Boards!RowOf(k)}]
          /\ k \in DOMAIN bundle /\ k # Boards!BoardKey
          /\ bundle[k].fetched \in Nat /\ bundle[k].fetched <= boardsNow
          /\ Scheduled[k] - Lead <= bundle[k].fetched
      BY <1>1, <1>2, <1>4, <2>1 DEF DocumentInv, Boards!Document, Boards!BoardKey
    <3> QED
      BY <1>3, <2>1, <3>1 DEF Boards!StationBoard
  <2>2. CASE k \notin groups
    <3>1. k \in DOMAIN held /\ s[k] = held[k]
      BY <1>1, <1>4, <2>2
    <3> QED
      BY <3>1 DEF StoredInv
  <2> QED
    BY <2>1, <2>2
<1>5. DOMAIN s \subseteq Boards!Keys
  BY <1>1, <1>2 DEF StoredInv, Boards!Keys
<1> QED
  BY <1>4, <1>5 DEF StoredInv, s

(* Pruning only takes rows away.                                           *)
LEMMA PruneKeeps ==
  ASSUME NEW held, StoredInv(held)
  PROVE  StoredInv(Boards!Pruned(held))
<1> DEFINE s == Boards!Pruned(held)
<1>1. /\ DOMAIN s \subseteq DOMAIN held
      /\ \A k \in DOMAIN s :
           s[k] = [held[k] EXCEPT !.rows = Boards!Publishable(held, k)]
  BY DEF Boards!Pruned
<1>2. \A k : Boards!Publishable(held, k) \subseteq held[k].rows
  BY DEF Boards!Publishable
<1> HIDE DEF s
<1>3. \A k \in DOMAIN s :
        /\ s[k] \in Boards!StationBoard /\ s[k].observed = held[k].observed
        /\ s[k].rows \subseteq held[k].rows
  BY <1>1, <1>2 DEF StoredInv, Boards!StationBoard
<1> QED
  BY <1>1, <1>3 DEF StoredInv, s

(* What a refresh leaves of the source of a run.                           *)
LEMMA UpsertRow ==
  ASSUME RailwayInv, DocumentInv, NEW held, StoredInv(held),
         NEW r \in DOMAIN bundle, bundle[r].label # Boards!NoLabel
  PROVE  /\ Boards!RowOf(r).until = bundle[r].time + Grace
         /\ r \notin DOMAIN Boards!UpsertRetained(held) =>
              bundle[r].time + Grace <= boardsNow
         /\ r \in DOMAIN Boards!UpsertRetained(held) =>
              Boards!UpsertRetained(held)[r].rows = {Boards!RowOf(r)}
<1> DEFINE groups == Boards!Groups(held)
           over == {k \in groups :
                      Boards!Retained({Boards!RowOf(k)}, bundle[k].fetched) = {}}
<1>1. r \in groups
  BY DEF Boards!Groups, StoredInv
<1>2. Boards!RowOf(r).until = bundle[r].time + Grace
  BY DEF Boards!RowOf, Boards!Row
<1>3. /\ Boards!UpsertRetained(held) =
           [k \in (DOMAIN held \cup groups) \ over |->
              IF k \in groups
                THEN [observed |-> bundle[k].fetched, rows |-> {Boards!RowOf(k)}]
                ELSE held[k]]
  BY DEF Boards!UpsertRetained
<1>4. CASE r \in over
  <2>1. ~(Boards!RowOf(r).until > bundle[r].fetched)
    BY <1>4 DEF Boards!Retained
  <2>2. /\ bundle[r].time \in Nat /\ bundle[r].fetched \in Nat /\ boardsNow \in Nat
        /\ bundle[r].fetched <= boardsNow /\ Grace \in Nat
    BY BoardsPeriods DEF DocumentInv, RailwayInv, Boards!Document
  <2>3. bundle[r].time + Grace <= boardsNow
    BY <1>2, <2>1, <2>2
  <2>4. r \notin DOMAIN Boards!UpsertRetained(held)
    BY <1>3, <1>4
  <2> QED
    BY <1>2, <2>3, <2>4
<1>5. CASE r \notin over
  BY <1>1, <1>2, <1>3, <1>5
<1> QED
  BY <1>4, <1>5

(* A source outside the bundle's groups keeps its rows.                    *)
LEMMA UpsertOther ==
  ASSUME NEW held, NEW r \in DOMAIN held,
         r \notin DOMAIN bundle \/ bundle[r].label = Boards!NoLabel
  PROVE  /\ r \in DOMAIN Boards!UpsertRetained(held)
         /\ Boards!UpsertRetained(held)[r] = held[r]
<1>1. r \notin Boards!Groups(held)
  BY DEF Boards!Groups
<1> QED
  BY <1>1 DEF Boards!UpsertRetained

(* A row of a run outlives pruning until its time.                         *)
LEMMA PruneRow ==
  ASSUME NEW held, StoredInv(held), NEW r \in DOMAIN held, r # Boards!BoardKey,
         NEW x \in held[r].rows, boardsNow < x.until
  PROVE  r \in DOMAIN Boards!Pruned(held) /\ x \in Boards!Pruned(held)[r].rows
<1>1. x \in Boards!Publishable(held, r)
  BY DEF Boards!Publishable
<1>2. /\ r \in DOMAIN Boards!Pruned(held)
      /\ Boards!Pruned(held)[r] =
           [held[r] EXCEPT !.rows = Boards!Publishable(held, r)]
  BY <1>1 DEF Boards!Pruned
<1>3. held[r] \in Boards!StationBoard
  BY DEF StoredInv
<1> QED
  BY <1>1, <1>2, <1>3 DEF Boards!StationBoard

LEMMA PrunedRows ==
  ASSUME NEW held, StoredInv(held), NEW r \in DOMAIN Boards!Pruned(held)
  PROVE  /\ r \in DOMAIN held
         /\ Boards!Pruned(held)[r].rows = Boards!Publishable(held, r)
         /\ Boards!Publishable(held, r) # {}
         /\ Boards!Publishable(held, r) \subseteq held[r].rows
<1>1. /\ r \in DOMAIN held /\ Boards!Publishable(held, r) # {}
      /\ Boards!Pruned(held)[r] =
           [held[r] EXCEPT !.rows = Boards!Publishable(held, r)]
  BY DEF Boards!Pruned
<1>2. held[r] \in Boards!StationBoard
  BY <1>1 DEF StoredInv
<1> QED
  BY <1>1, <1>2 DEF Boards!StationBoard, Boards!Publishable

(* A refresh keeps the track that it names, or that was named before, as   *)
(* long as it is still to come.                                            *)
LEMMA RefreshKeeps ==
  ASSUME BoardsInv, Boards!RefreshOnce
  PROVE  BoardsInv'
<1> USE BoardsPeriods
<1>1. PICK boardRead \in BOOLEAN, bundleRead \in BOOLEAN, shown \in Boards!BoardRows :
        /\ boards' = Boards!Pruned(
             IF bundleRead
               THEN Boards!UpsertRetained(
                      IF boardRead THEN Boards!ReplaceStation(boards, shown)
                                   ELSE boards)
               ELSE IF boardRead THEN Boards!ReplaceStation(boards, shown)
                                 ELSE boards)
        /\ named' = [r \in Runs |->
             IF /\ r \in DOMAIN boards'
                /\ bundleRead /\ r \in DOMAIN bundle
                /\ bundle[r].label # Boards!NoLabel
               THEN bundle[r].time ELSE named[r]]
        /\ UNCHANGED <<boardsNow, predicted, bundle>>
  BY DEF Boards!RefreshOnce
<1> DEFINE one == IF boardRead THEN Boards!ReplaceStation(boards, shown) ELSE boards
           all == IF bundleRead THEN Boards!UpsertRetained(one) ELSE one
<1>2. RailwayInv /\ DocumentInv /\ StoredInv(boards) /\ NamedInv
  BY DEF BoardsInv
<1>3. StoredInv(one)
  BY <1>2, ReplaceKeeps
<1>4. StoredInv(all)
  BY <1>2, <1>3, UpsertKeeps
<1>5. boards' = Boards!Pruned(all)
  BY <1>1
<1>6. \A r \in Runs \cap DOMAIN boards : r \in DOMAIN one /\ one[r] = boards[r]
  BY DEF Boards!ReplaceStation, Boards!Put, Boards!BoardKey
<1>7. Boards!BoardKey \notin Runs
  BY DEF Boards!BoardKey
<1> HIDE DEF one
<1>8. ASSUME NEW r \in Runs, named'[r] # 0
      PROVE  /\ Kept(r, boards)' \/ Over(r)'
             /\ named'[r] # named[r] =>
                  r \in DOMAIN bundle /\ named'[r] = bundle[r].time
  <2>1. CASE /\ r \in DOMAIN boards'
             /\ bundleRead /\ r \in DOMAIN bundle
             /\ bundle[r].label # Boards!NoLabel
    <3>1. named'[r] = bundle[r].time
      BY <1>1, <2>1
    <3>2. all = Boards!UpsertRetained(one)
      BY <2>1
    <3> HIDE DEF all
    <3>3. /\ r \in DOMAIN all /\ boards'[r].rows # {}
          /\ boards'[r].rows \subseteq all[r].rows
      BY <1>4, <1>5, <2>1, PrunedRows
    <3>4. /\ Boards!RowOf(r).until = bundle[r].time + Grace
          /\ all[r].rows = {Boards!RowOf(r)}
      BY <1>2, <1>3, <2>1, <3>2, <3>3, UpsertRow
    <3> QED
      BY <2>1, <3>1, <3>3, <3>4 DEF Kept
  <2>2. CASE ~ /\ r \in DOMAIN boards'
               /\ bundleRead /\ r \in DOMAIN bundle
               /\ bundle[r].label # Boards!NoLabel
    <3>1. named'[r] = named[r]
      BY <1>1, <2>2
    <3>2. Over(r) => Over(r)'
      BY <1>1, <3>1 DEF Over
    <3>3. /\ boardsNow \in Nat /\ named[r] \in Nat
      BY <1>2 DEF RailwayInv
    <3>4. ASSUME Kept(r, boards), ~Over(r)
          PROVE  Kept(r, boards)'
      <4>1. /\ boardsNow < named[r] + Grace /\ r \in DOMAIN one
            /\ \E x \in one[r].rows : x.until = named[r] + Grace
        <5>1. ~(named[r] + Grace <= boardsNow)
          BY <3>4 DEF Over
        <5>2. boardsNow < named[r] + Grace
          BY <3>3, <5>1
        <5> QED
          BY <1>6, <3>4, <5>2 DEF Kept
      <4>2. CASE bundleRead /\ r \in DOMAIN bundle /\ bundle[r].label # Boards!NoLabel
        <5>1. r \notin DOMAIN Boards!Pruned(all) /\ all = Boards!UpsertRetained(one)
          BY <1>5, <2>2, <4>2
        <5> HIDE DEF all
        <5>2. /\ Boards!RowOf(r).until = bundle[r].time + Grace
              /\ r \notin DOMAIN all => bundle[r].time + Grace <= boardsNow
              /\ r \in DOMAIN all => all[r].rows = {Boards!RowOf(r)}
          BY <1>2, <1>3, <4>2, <5>1, UpsertRow
        <5>3. /\ bundle[r].time \in Nat /\ named[r] <= bundle[r].time
          BY <1>2, <4>2 DEF DocumentInv, Boards!Document
        <5>4. boardsNow < bundle[r].time + Grace
          BY <3>3, <4>1, <5>3
        <5>5. r \in DOMAIN all /\ all[r].rows = {Boards!RowOf(r)}
          BY <3>3, <5>2, <5>3, <5>4
        <5>6. r \in DOMAIN Boards!Pruned(all)
          BY <1>4, <1>7, <5>2, <5>4, <5>5, PruneRow
        <5> QED
          BY <5>1, <5>6
      <4>3. CASE ~(bundleRead /\ r \in DOMAIN bundle /\ bundle[r].label # Boards!NoLabel)
        <5>1. r \in DOMAIN all /\ all[r] = one[r]
          BY <4>1, <4>3, UpsertOther
        <5> HIDE DEF all
        <5>2. PICK x \in all[r].rows : x.until = named[r] + Grace
          BY <4>1, <5>1
        <5>3. r \in DOMAIN Boards!Pruned(all) /\ x \in Boards!Pruned(all)[r].rows
          BY <1>4, <1>7, <4>1, <5>1, <5>2, PruneRow
        <5> QED
          BY <1>5, <3>1, <5>2, <5>3 DEF Kept
      <4> QED
        BY <4>2, <4>3
    <3>5. Kept(r, boards) \/ Over(r)
      BY <1>2, <1>8, <3>1 DEF NamedInv
    <3>6. Kept(r, boards)' \/ Over(r)'
      BY <3>2, <3>4, <3>5
    <3> QED
      BY <3>1, <3>6
  <2> QED
    BY <2>1, <2>2
<1>9. named' \in [Runs -> Nat]
  BY <1>1, <1>2 DEF RailwayInv, DocumentInv, Boards!Document
<1>10. ASSUME NEW r \in Runs
       PROVE  /\ named'[r] <= predicted[r]
              /\ r \in DOMAIN bundle => named'[r] <= bundle[r].time
  <2>1. CASE named'[r] = 0
    <3>1. predicted[r] \in Nat /\ (r \in DOMAIN bundle => bundle[r].time \in Nat)
      BY <1>2 DEF RailwayInv, DocumentInv, Boards!Document
    <3> QED
      BY <2>1, <3>1
  <2>2. CASE named'[r] # 0
    <3>1. /\ named[r] <= predicted[r]
          /\ r \in DOMAIN bundle =>
               /\ bundle[r].time \in Nat
               /\ bundle[r].time <= predicted[r] /\ named[r] <= bundle[r].time
      BY <1>2 DEF RailwayInv, DocumentInv, Boards!Document
    <3>2. \A t \in Nat : t <= t
      OBVIOUS
    <3> QED
      BY <1>8, <2>2, <3>1, <3>2
  <2> QED
    BY <2>1, <2>2
<1>11. RailwayInv'
  BY <1>1, <1>2, <1>9, <1>10 DEF RailwayInv
<1>12. DocumentInv'
  BY <1>1, <1>2, <1>10 DEF DocumentInv
<1>13. StoredInv(boards')
  BY <1>4, <1>5, PruneKeeps
<1>14. StoredInv(boards)'
  BY <1>1, <1>13 DEF StoredInv
<1>15. NamedInv'
  BY <1>8 DEF NamedInv
<1> QED
  BY <1>11, <1>12, <1>14, <1>15 DEF BoardsInv

(* The railway only delays a run that has not left.                        *)
LEMMA DelayKeeps ==
  ASSUME BoardsInv, NEW r \in Runs, Boards!Delay(r)
  PROVE  BoardsInv'
<1> USE BoardsPeriods
<1>1. /\ predicted' = [predicted EXCEPT ![r] = @ + 1]
      /\ boardsNow' = boardsNow /\ bundle' = bundle /\ boards' = boards /\ named' = named
      /\ boardsNow < predicted[r] /\ predicted[r] < Scheduled[r] + MaxDelay
  BY DEF Boards!Delay
<1>2. RailwayInv /\ DocumentInv /\ StoredInv(boards) /\ NamedInv
  BY DEF BoardsInv
<1>3. ASSUME NEW k \in Runs
      PROVE  /\ predicted'[k] \in Nat /\ predicted[k] <= predicted'[k]
             /\ predicted'[k] <= Scheduled[k] + MaxDelay
             /\ predicted[k] <= boardsNow => predicted'[k] = predicted[k]
  BY <1>1, <1>2 DEF RailwayInv
<1>4. RailwayInv'
  <2>1. predicted' \in [Runs -> Nat]
    BY <1>1, <1>2 DEF RailwayInv
  <2>2. ASSUME NEW k \in Runs
        PROVE  Scheduled[k] <= predicted'[k] /\ named[k] <= predicted'[k]
    BY <1>2, <1>3 DEF RailwayInv
  <2> QED
    BY <1>1, <1>2, <1>3, <2>1, <2>2 DEF RailwayInv
<1>5. DocumentInv'
  <2>1. ASSUME NEW k \in DOMAIN bundle
        PROVE  /\ bundle[k].time <= predicted'[k]
               /\ bundle[k].fetched = bundle[k].time => predicted'[k] <= boardsNow
    <3>1. /\ k \in Runs /\ bundle[k].time \in Nat /\ predicted[k] \in Nat
          /\ bundle[k].time <= predicted[k]
          /\ bundle[k].fetched = bundle[k].time => predicted[k] <= boardsNow
      BY <1>2 DEF DocumentInv, RailwayInv, Boards!Document
    <3> QED
      BY <1>3, <3>1
  <2> QED
    BY <1>1, <1>2, <2>1 DEF DocumentInv
<1>6. StoredInv(boards)'
  BY <1>1, <1>2 DEF StoredInv
<1>7. NamedInv'
  <2>1. \A k \in Runs : Over(k) => Over(k)'
    BY <1>1, <1>3 DEF Over
  <2>2. \A k \in Runs : Kept(k, boards) => Kept(k, boards)'
    BY <1>1 DEF Kept
  <2> QED
    BY <1>1, <1>2, <2>1, <2>2 DEF NamedInv
<1> QED
  BY <1>4, <1>5, <1>6, <1>7 DEF BoardsInv

(* A document is read near the run, and later than what was stored of it.  *)
LEMMA FetchKeeps ==
  ASSUME BoardsInv, NEW r \in Runs, Boards!FetchDocument(r)
  PROVE  BoardsInv'
<1> USE BoardsPeriods
<1>1. PICK label \in [run : {r}, track : BoardTracks] \cup {Boards!NoLabel} :
        bundle' = Boards!Put(bundle, r, [fetched |-> boardsNow, label |-> label,
                                         time |-> predicted[r]])
  BY DEF Boards!FetchDocument
<1> DEFINE new == [fetched |-> boardsNow, label |-> label, time |-> predicted[r]]
<1>2. RailwayInv /\ DocumentInv /\ StoredInv(boards) /\ NamedInv
  BY DEF BoardsInv
<1>3. /\ boardsNow' = boardsNow /\ predicted' = predicted
      /\ boards' = boards /\ named' = named
      /\ boardsNow >= predicted[r] - Lead /\ boardsNow <= predicted[r]
  BY DEF Boards!FetchDocument, Boards!Near
<1>4. /\ DOMAIN bundle' = DOMAIN bundle \cup {r} /\ bundle'[r] = new
      /\ \A k \in DOMAIN bundle : k # r => bundle'[k] = bundle[k]
  BY <1>1 DEF Boards!Put
<1>5. /\ predicted[r] \in Nat /\ boardsNow \in Nat /\ Scheduled[r] \in Nat
      /\ Scheduled[r] <= predicted[r] /\ named[r] <= predicted[r]
  BY <1>2 DEF RailwayInv
<1>6. /\ label \in Boards!Labels \cup {Boards!NoLabel}
      /\ label # Boards!NoLabel => label \in Boards!Labels /\ label.run = r
  BY DEF Boards!Labels
<1>7. new \in Boards!Document
  BY <1>5, <1>6 DEF Boards!Document
<1>8. /\ Scheduled[r] - Lead <= boardsNow
      /\ boardsNow = predicted[r] => predicted[r] <= boardsNow
      /\ boardsNow <= boardsNow /\ predicted[r] <= predicted[r]
  BY <1>3, <1>5
<1>9. DocumentInv'
  <2>1. DOMAIN bundle' \subseteq Runs
    BY <1>2, <1>4 DEF DocumentInv
  <2>2. ASSUME NEW k \in DOMAIN bundle'
        PROVE  /\ bundle'[k] \in Boards!Document
               /\ bundle'[k].label # Boards!NoLabel =>
                    bundle'[k].label \in Boards!Labels /\ bundle'[k].label.run = k
               /\ bundle'[k].fetched <= boardsNow
               /\ Scheduled[k] - Lead <= bundle'[k].fetched
               /\ bundle'[k].fetched <= bundle'[k].time
               /\ bundle'[k].time <= predicted[k] /\ named[k] <= bundle'[k].time
               /\ bundle'[k].fetched = bundle'[k].time => predicted[k] <= boardsNow
    <3>1. CASE k = r
      BY <1>3, <1>4, <1>5, <1>6, <1>7, <1>8, <3>1
    <3>2. CASE k # r
      BY <1>2, <1>4, <3>2 DEF DocumentInv
    <3> QED
      BY <3>1, <3>2
  <2> QED
    BY <1>3, <2>1, <2>2 DEF DocumentInv
<1>10. StoredInv(boards)'
  <2>1. ASSUME NEW k \in DOMAIN boards, k \in DOMAIN bundle'
        PROVE  boards[k].observed <= bundle'[k].fetched
    <3>1. CASE k = r
      <4>1. bundle'[k].fetched = boardsNow
        BY <1>4, <3>1
      <4> QED
        BY <1>2, <4>1 DEF StoredInv
    <3>2. CASE k # r
      <4>1. k \in DOMAIN bundle /\ bundle'[k] = bundle[k]
        BY <1>4, <2>1, <3>2
      <4> QED
        BY <1>2, <4>1 DEF StoredInv
    <3> QED
      BY <3>1, <3>2
  <2> QED
    BY <1>2, <1>3, <2>1 DEF StoredInv
<1>11. RailwayInv' /\ NamedInv'
  BY <1>2, <1>3 DEF RailwayInv, NamedInv, Kept, Over
<1> QED
  BY <1>9, <1>10, <1>11 DEF BoardsInv

LEMMA LaterNow == \A t, u \in Int : t <= u => t <= u + 1
  OBVIOUS

LEMMA TickKeeps ==
  ASSUME BoardsInv, Boards!Tick
  PROVE  BoardsInv'
<1> USE BoardsPeriods
<1>1. /\ boardsNow' = boardsNow + 1 /\ predicted' = predicted
      /\ bundle' = bundle /\ boards' = boards /\ named' = named
  BY DEF Boards!Tick
<1>2. RailwayInv /\ DocumentInv /\ StoredInv(boards) /\ NamedInv
  BY DEF BoardsInv
<1>3. boardsNow \in Nat
  BY <1>2 DEF RailwayInv
<1>4. RailwayInv'
  BY <1>1, <1>2 DEF RailwayInv
<1>5. DocumentInv'
  <2>1. ASSUME NEW k \in DOMAIN bundle
        PROVE  /\ bundle[k].fetched <= boardsNow + 1
               /\ predicted[k] <= boardsNow => predicted[k] <= boardsNow + 1
    <3>1. k \in Runs /\ bundle[k].fetched <= boardsNow
      BY <1>2 DEF DocumentInv
    <3>2. predicted[k] \in Nat
      BY <1>2, <3>1 DEF RailwayInv
    <3>3. bundle[k].fetched \in Nat
      BY <1>2 DEF DocumentInv, Boards!Document
    <3> QED
      BY <1>3, <3>1, <3>2, <3>3
  <2> QED
    BY <1>1, <1>2, <2>1 DEF DocumentInv
<1>6. StoredInv(boards)'
  <2>1. \A k \in DOMAIN boards : boards[k].observed <= boardsNow + 1
    BY <1>2, <1>3, LaterNow DEF StoredInv, Boards!StationBoard
  <2> QED
    BY <1>1, <1>2, <2>1 DEF StoredInv
<1>7. NamedInv'
  <2>1. \A k \in Runs : Over(k) => Over(k)'
    BY <1>1, <1>2, <1>3, LaterNow DEF Over, RailwayInv
  <2>2. \A k \in Runs : Kept(k, boards) => Kept(k, boards)'
    BY <1>1 DEF Kept
  <2> QED
    BY <1>1, <1>2, <2>1, <2>2 DEF NamedInv
<1> QED
  BY <1>4, <1>5, <1>6, <1>7 DEF BoardsInv

LEMMA RestartKeeps ==
  ASSUME BoardsInv, Boards!Restart \/ Boards!RestartFetcher
  PROVE  BoardsInv'
<1> USE BoardsPeriods
<1>1. RailwayInv /\ DocumentInv /\ StoredInv(boards) /\ NamedInv
  BY DEF BoardsInv
<1>2. CASE Boards!Restart
  <2>1. /\ boards' = Boards!Empty /\ named' = [r \in Runs |-> 0]
        /\ boardsNow' = boardsNow /\ predicted' = predicted /\ bundle' = bundle
    BY <1>2 DEF Boards!Restart
  <2>2. \A r \in Runs : 0 <= predicted[r]
    BY <1>1 DEF RailwayInv
  <2>3. \A r \in DOMAIN bundle : 0 <= bundle[r].time
    BY <1>1 DEF DocumentInv, Boards!Document
  <2>4. RailwayInv'
    BY <1>1, <2>1, <2>2 DEF RailwayInv
  <2>5. DocumentInv'
    BY <1>1, <2>1, <2>3 DEF DocumentInv
  <2>6. StoredInv(boards)' /\ NamedInv'
    BY <2>1 DEF StoredInv, NamedInv, Boards!Empty
  <2> QED
    BY <2>4, <2>5, <2>6 DEF BoardsInv
<1>3. CASE Boards!RestartFetcher
  <2>1. /\ bundle' = Boards!Empty /\ boards' = boards /\ named' = named
        /\ boardsNow' = boardsNow /\ predicted' = predicted
    BY <1>3 DEF Boards!RestartFetcher
  <2> QED
    BY <1>1, <2>1 DEF BoardsInv, RailwayInv, DocumentInv, StoredInv, NamedInv, Kept,
                      Over, Boards!Empty
<1> QED
  BY <1>2, <1>3

LEMMA BoardsNextKeeps == BoardsInv /\ [Boards!Next]_(Boards!vars) => BoardsInv'
<1> SUFFICES ASSUME BoardsInv, [Boards!Next]_(Boards!vars)
             PROVE  BoardsInv'
  OBVIOUS
<1>1. CASE UNCHANGED Boards!vars
  BY <1>1 DEF Boards!vars, BoardsInv, RailwayInv, DocumentInv, StoredInv, NamedInv, Kept,
              Over
<1>2. CASE Boards!Next
  BY <1>2, TickKeeps, RefreshKeeps, RestartKeeps, DelayKeeps, FetchKeeps DEF Boards!Next
<1> QED
  BY <1>1, <1>2

(* In every behaviour of the parts the boards behave as specified.         *)
LEMMA TracksIsBoards == TracksSpec => Boards!Spec
<1>1. TracksInit => Boards!Init
  BY DEF TracksInit
<1>2. [TracksNext]_<<part, vars, schedulerVars, fetcherVars, boardsVars, surveyVars>>
        => [Boards!Next]_(Boards!vars)
  BY DEF TracksNext, TokenStep, SchedulerStep, FetcherStep, BoardsStep, SurveyStep,
         boardsVars, Boards!vars
<1> QED
  BY <1>1, <1>2, PTL DEF TracksSpec, Boards!Spec

LEMMA BoardsAlways == TracksSpec => []BoardsInv
  BY TracksIsBoards, BoardsInit, BoardsNextKeeps, PTL DEF Boards!Spec

(* When a row that may still be published can be there.                    *)
LEMMA PublishableTimes ==
  ASSUME BoardsInv, NEW k \in DOMAIN boards, NEW x \in Boards!Publishable(boards, k)
  PROVE  /\ x.label.run \in Runs
         /\ Scheduled[x.label.run] - Lead <= boardsNow
         /\ \E after \in {Grace, RowAge} :
              boardsNow <= Scheduled[x.label.run] + MaxDelay + after
         /\ k \in Runs => x.label.run = k
<1> USE BoardsPeriods
<1> DEFINE q == x.label.run
<1>1. StoredInv(boards) /\ boardsNow \in Nat
  BY DEF BoardsInv, RailwayInv
<1>2. /\ k \in Boards!Keys /\ x \in boards[k].rows
      /\ boards[k] \in Boards!StationBoard
      /\ boards[k].observed <= boardsNow
      /\ Scheduled[q] - Lead <= boards[k].observed
      /\ k = Boards!BoardKey => boards[k].observed <= Scheduled[q] + MaxDelay
      /\ k \in Runs => q = k /\ x.until <= Scheduled[k] + MaxDelay + Grace
  BY <1>1 DEF StoredInv, Boards!Publishable
<1>3. /\ q \in Runs /\ x.until \in Nat /\ boards[k].observed \in Nat
      /\ Scheduled[q] \in Nat
  BY <1>2 DEF Boards!StationBoard, Boards!Labels
<1>4. IF k = Boards!BoardKey THEN Boards!Fresh(boards[k]) ELSE boardsNow < x.until
  BY DEF Boards!Publishable
<1>5. Scheduled[q] - Lead <= boardsNow
  BY <1>1, <1>2, <1>3
<1>6. CASE k = Boards!BoardKey
  <2>1. boardsNow <= Scheduled[q] + MaxDelay + RowAge
    BY <1>1, <1>2, <1>3, <1>4, <1>6 DEF Boards!Fresh
  <2> QED
    BY <1>2, <1>3, <1>5, <2>1
<1>7. CASE k # Boards!BoardKey
  <2>1. k \in Runs
    BY <1>2, <1>7 DEF Boards!Keys
  <2>2. boardsNow <= Scheduled[q] + MaxDelay + Grace
    BY <1>1, <1>2, <1>3, <1>4, <1>7, <2>1
  <2> QED
    BY <1>2, <1>3, <1>5, <2>2
<1> QED
  BY <1>6, <1>7

(* Moments of two runs do not meet.                                        *)
LEMMA ApartRuns ==
  ASSUME Boards!Apart, boardsNow \in Nat, NEW q \in Runs, NEW r \in Runs,
         NEW a \in {Grace, RowAge, WindowBefore}, NEW b \in {Grace, RowAge, WindowBefore},
         NEW c \in {Lead, WindowAfter}, NEW d \in {Lead, WindowAfter},
         Scheduled[q] - c <= boardsNow, boardsNow <= Scheduled[q] + MaxDelay + a,
         Scheduled[r] - d <= boardsNow, boardsNow <= Scheduled[r] + MaxDelay + b
  PROVE  q = r
<1>1. /\ q \in Nat /\ r \in Nat /\ Scheduled[q] \in Nat /\ Scheduled[r] \in Nat
      /\ a \in Nat /\ b \in Nat /\ c \in Nat /\ d \in Nat /\ MaxDelay \in Nat
  BY BoardsPeriods
<1>2. q < r => Scheduled[q] + MaxDelay + a < Scheduled[r] - d
  BY DEF Boards!Apart
<1>3. r < q => Scheduled[r] + MaxDelay + b < Scheduled[q] - c
  BY DEF Boards!Apart
<1> QED
  BY <1>1, <1>2, <1>3

(* A generation stamps a run with a track that was shown for this run,     *)
(* never with that of the day before or after, for all times that keep two *)
(* runs apart.                                                             *)
THEOREM RightRunAlways ==
  ASSUME Boards!Apart
  PROVE  TracksSpec => []RightRun
<1>1. BoardsInv => RightRun
  <2> SUFFICES ASSUME BoardsInv, NEW r \in Runs, NEW label \in Boards!Stamped(r)
               PROVE  label.run = r
    BY DEF RightRun, Boards!RightRun
  <2> USE BoardsPeriods
  <2>1. \E k \in DOMAIN boards : \E x \in Boards!Publishable(boards, k) :
          label = x.label
    BY DEF Boards!Stamped, Boards!FreshBoard
  <2> PICK k \in DOMAIN boards : \E x \in Boards!Publishable(boards, k) :
          label = x.label
    BY <2>1
  <2> PICK x \in Boards!Publishable(boards, k) : label = x.label
    OBVIOUS
  <2>2. Boards!EventInWindow(r)
    BY DEF Boards!Stamped
  <2>3. /\ predicted[r] \in Nat /\ boardsNow \in Nat /\ Scheduled[r] \in Nat
        /\ Scheduled[r] <= predicted[r] /\ predicted[r] <= Scheduled[r] + MaxDelay
    BY DEF BoardsInv, RailwayInv
  <2>4. /\ Scheduled[r] - WindowAfter <= boardsNow
        /\ boardsNow <= Scheduled[r] + MaxDelay + WindowBefore
    BY <2>2, <2>3 DEF Boards!EventInWindow
  <2>5. /\ x.label.run \in Runs
        /\ Scheduled[x.label.run] - Lead <= boardsNow
        /\ \E after \in {Grace, RowAge} :
             boardsNow <= Scheduled[x.label.run] + MaxDelay + after
    BY PublishableTimes
  <2>6. PICK after \in {Grace, RowAge} :
          boardsNow <= Scheduled[x.label.run] + MaxDelay + after
    BY <2>5
  <2>7. x.label.run = r
    BY <2>3, <2>4, <2>5, <2>6, ApartRuns
  <2> QED
    BY <2>7
<1> QED
  BY BoardsAlways, <1>1, PTL

(* A track that Amtrak showed stays up until its run leaves: the row is    *)
(* there, and whichever source comes last has a row of the same run.       *)
THEOREM StaysUpAlways ==
  ASSUME Boards!Apart
  PROVE  TracksSpec => []StaysUp
<1>1. BoardsInv => StaysUp
  <2> SUFFICES ASSUME BoardsInv, NEW r \in Runs,
                      named[r] # 0, predicted[r] <= named[r] + Grace,
                      boardsNow < predicted[r]
               PROVE  \E row \in Boards!FreshBoard : row.label.run = r
    BY DEF StaysUp, Boards!StaysUp
  <2> USE BoardsPeriods
  <2>1. /\ predicted[r] \in Nat /\ boardsNow \in Nat /\ Scheduled[r] \in Nat
        /\ named[r] \in Nat /\ predicted[r] <= Scheduled[r] + MaxDelay
    BY DEF BoardsInv, RailwayInv
  <2>2. ~Over(r)
    BY <2>1 DEF Over
  <2>3. PICK x \in boards[r].rows : r \in DOMAIN boards /\ x.until = named[r] + Grace
    BY <2>2 DEF BoardsInv, NamedInv, Kept
  <2>4. boardsNow < x.until /\ r # Boards!BoardKey
    BY <2>1, <2>3 DEF Boards!BoardKey
  <2>5. x \in Boards!Publishable(boards, r)
    BY <2>3, <2>4 DEF Boards!Publishable
  <2>6. /\ Scheduled[r] - Lead <= boardsNow
        /\ boardsNow <= Scheduled[r] + MaxDelay + Grace
    <3>1. x.label.run = r /\ Scheduled[r] - Lead <= boardsNow
      BY <2>3, <2>5, PublishableTimes
    <3> QED
      BY <2>1, <3>1
  <2>7. ASSUME NEW k \in DOMAIN boards, NEW y \in Boards!Publishable(boards, k)
        PROVE  y.label.run = r /\ k \in {r, Boards!BoardKey}
    <3>1. /\ y.label.run \in Runs
          /\ Scheduled[y.label.run] - Lead <= boardsNow
          /\ \E after \in {Grace, RowAge} :
               boardsNow <= Scheduled[y.label.run] + MaxDelay + after
          /\ k \in Runs => y.label.run = k
      BY PublishableTimes
    <3>2. PICK after \in {Grace, RowAge} :
            boardsNow <= Scheduled[y.label.run] + MaxDelay + after
      BY <3>1
    <3>3. y.label.run = r
      BY <2>1, <2>6, <3>1, <3>2, ApartRuns
    <3>4. k \in Boards!Keys
      BY DEF BoardsInv, StoredInv
    <3> QED
      BY <3>1, <3>3, <3>4 DEF Boards!Keys
  <2> DEFINE publishable == {k \in DOMAIN boards : Boards!Publishable(boards, k) # {}}
             last == {k \in publishable : \A l \in publishable : ~Boards!Beaten(k, l)}
  <2>8. r \in publishable /\ publishable \subseteq {r, Boards!BoardKey}
    BY <2>3, <2>5, <2>7
  <2>9. /\ \A k : Boards!Precedence(k) \in Int
        /\ r \in Nat /\ Boards!BoardKey \in Nat
    BY DEF Boards!Precedence, Boards!BoardKey
  <2>10. \E k \in last : TRUE
    <3>1. /\ ~Boards!Beaten(r, r) /\ ~Boards!Beaten(Boards!BoardKey, Boards!BoardKey)
          /\ ~Boards!Beaten(r, Boards!BoardKey) \/ ~Boards!Beaten(Boards!BoardKey, r)
      BY <2>9 DEF Boards!Beaten
    <3> QED
      BY <2>8, <3>1
  <2>11. PICK k \in last : TRUE
    BY <2>10
  <2>12. PICK y \in Boards!Publishable(boards, k) : TRUE
    OBVIOUS
  <2>13. y.label.run = r
    BY <2>7
  <2>14. y \in Boards!FreshBoard
    BY DEF Boards!FreshBoard
  <2> QED
    BY <2>13, <2>14
<1> QED
  BY BoardsAlways, <1>1, PTL

-----------------------------------------------------------------------------
(* The track fetcher                                                       *)

(* The loop sleeps a poll between its cycles, so that an attempt is a poll *)
(* old when the next cycle may begin.                                      *)
LoopInv ==
  /\ fetcherNow \in Nat \ {0} /\ cycle \in Nat /\ wake \in Nat
  /\ attempted \in [Trains -> Nat]
  /\ cycle <= fetcherNow
  /\ \A t \in Trains :
       /\ cycle # 0 => attempted[t] <= cycle
       /\ cycle = 0 /\ attempted[t] # 0 => attempted[t] + Poll <= wake

(* A train is remembered with its last attempt, or it was left out of a    *)
(* cycle since, and another poll has passed.                               *)
MemoryInv ==
  \A t \in Trains : attempted[t] # 0 =>
    \/ t \in DOMAIN lastFetched /\ lastFetched[t] = attempted[t]
    \/ /\ t \notin DOMAIN lastFetched
       /\ cycle # 0 => attempted[t] + Poll <= cycle
       /\ cycle = 0 => attempted[t] + 2 * Poll <= wake

CooldownInv == LoopInv /\ MemoryInv

LEMMA FetcherPeriods ==
  /\ Poll \in Nat /\ Poll # 0 /\ Cooldown \in Nat /\ MaxFetches \in Nat
  /\ CycleTime \in Nat
  BY PartsAssumption DEF Fetcher!FetcherConstants

LEMMA FetcherStops ==
  /\ Stops \in [Trains -> SUBSET [at : Nat, station : Stations]]
  /\ Before \in [Stations -> Nat] /\ HotWindow \in [Stations -> Nat]
  BY PartsAssumption DEF Fetcher!FetcherConstants

LEMMA FetcherFinite == IsFiniteSet(Trains)
  BY PartsAssumption DEF Fetcher!FetcherConstants, Fetcher!IsFiniteSet, IsFiniteSet

LEMMA FetcherCardinality ==
  ASSUME NEW S PROVE Fetcher!Cardinality(S) = Cardinality(S)
  BY DEF Fetcher!Cardinality, Cardinality

(* A smallest member.                                                      *)
LEMMA SmallestMember ==
  ASSUME NEW S \in SUBSET Nat, NEW t \in S
  PROVE  \E m \in S : m <= t /\ \A u \in S : ~(u < m)
<1> DEFINE R == OpToRel(<, Nat)
           T == {u \in S : u <= t}
<1>1. IsWellFoundedOn(R, Nat)
  BY NatLessThanWellFounded, Zenon
<1>2. \A x, y \in Nat : <<y, x>> \in R <=> y < x
  BY DEF OpToRel
<1>3. T \in SUBSET Nat /\ T # {}
  <2>1. t \in T
    OBVIOUS
  <2> QED
    BY <2>1
<1> HIDE DEF R, T
<1>4. PICK m \in T : \A u \in T : ~(<<u, m>> \in R)
  BY <1>1, <1>3, WFMin
<1>5. m \in S /\ m <= t /\ m \in Nat
  BY <1>3 DEF T
<1>6. ASSUME NEW u \in S, u < m PROVE FALSE
  <2>1. u \in T
    BY <1>5, <1>6 DEF T
  <2> QED
    BY <1>2, <1>3, <1>4, <1>6, <2>1
<1> QED
  BY <1>5, <1>6

LEMMA FetcherMin ==
  ASSUME NEW x \in Nat, NEW y \in Nat
  PROVE  /\ Fetcher!Min({x, y}) \in Nat /\ Fetcher!Min({x, y}) <= y
         /\ Fetcher!Min({x, y}) \in {x, y}
<1>1. \E z \in {x, y} : \A u \in {x, y} : z <= u
  OBVIOUS
<1> QED
  BY <1>1 DEF Fetcher!Min

LEMMA CooldownInit == Fetcher!Init => CooldownInv
  BY FetcherPeriods DEF Fetcher!Init, CooldownInv, LoopInv, MemoryInv

(* A sorted sequence has every member once.                                *)
LEMMA SortedMembers ==
  ASSUME NEW key, IsFiniteSet(DOMAIN key), NEW s \in Fetcher!Sorted(key)
  PROVE  /\ s \in Seq(DOMAIN key) /\ Len(s) = Cardinality(DOMAIN key)
         /\ \A x \in DOMAIN key : \E i \in 1 .. Len(s) : s[i] = x
<1> DEFINE n == Cardinality(DOMAIN key)
<1>1. n \in Nat
  BY FS_CardinalityType
<1>2. /\ s \in [1 .. n -> DOMAIN key]
      /\ \A i, j \in 1 .. n : i < j => s[i] # s[j]
  BY FetcherCardinality DEF Fetcher!Sorted
<1> HIDE DEF n
<1>3. s \in Seq(DOMAIN key) /\ Len(s) = n
  BY <1>1, <1>2
<1>4. s \in Injection(1 .. n, DOMAIN key)
  <2>1. ASSUME NEW i \in 1 .. n, NEW j \in 1 .. n, s[i] = s[j] PROVE i = j
    <3>1. ~(i < j) /\ ~(j < i)
      BY <1>2, <2>1
    <3> QED
      BY <1>1, <3>1
  <2> QED
    BY <1>2, <2>1 DEF Injection, IsInjective
<1>5. IsFiniteSet(1 .. n) /\ Cardinality(1 .. n) = n
  BY <1>1, FS_Interval
<1>6. s \in Surjection(1 .. n, DOMAIN key)
  BY <1>4, <1>5, FS_Injection DEF n
<1>7. \A x \in DOMAIN key : \E i \in 1 .. n : s[i] = x
  BY <1>6 DEF Surjection
<1> QED
  BY <1>3, <1>7 DEF n

(* A cycle fetches all hot trains, then ready ones, as far as it goes.     *)
HotAmong(due) == {u \in due : Fetcher!IsHot(u)}

Parts(due, fetched, s, h, r) ==
  /\ h \in Seq(HotAmong(due)) /\ r \in Seq(Fetcher!Ready(due, fetched))
  /\ s = SubSeq(h \o r, 1, Fetcher!Min({MaxFetches, Len(h \o r)}))
  /\ Len(h) = Cardinality(HotAmong(due))
  /\ \A x \in HotAmong(due) : \E i \in 1 .. Len(h) : h[i] = x

LEMMA ChosenParts ==
  ASSUME NEW due \in SUBSET Trains, NEW fetched,
         NEW s \in Fetcher!ChooseFetches(due, fetched)
  PROVE  \E h, r : Parts(due, fetched, s, h, r)
<1> DEFINE keyHot == [t \in {u \in due : Fetcher!IsHot(u)} |-> Fetcher!NextStop(t)]
           keyReady == [t \in Fetcher!Ready(due, fetched) |->
                          Fetcher!Age(t, fetched) * (FetcherTime + 1)
                            + Fetcher!Soonest(t)]
           hot == Fetcher!Sorted(keyHot)
           ready == Fetcher!Sorted(keyReady)
<1>1. s \in {Fetcher!Capped(both[1] \o both[2]) : both \in hot \X ready}
  BY DEF Fetcher!ChooseFetches
<1> HIDE DEF hot, ready
<1>2. PICK both \in hot \X ready : s = Fetcher!Capped(both[1] \o both[2])
  BY <1>1
<1> DEFINE h == both[1]
           r == both[2]
<1>3. /\ h \in hot /\ r \in ready
      /\ s = SubSeq(h \o r, 1, Fetcher!Min({MaxFetches, Len(h \o r)}))
  BY <1>2 DEF Fetcher!Capped
<1> HIDE DEF h, r
<1>4. /\ DOMAIN keyHot = HotAmong(due)
      /\ DOMAIN keyReady = Fetcher!Ready(due, fetched)
      /\ DOMAIN keyHot \subseteq Trains /\ DOMAIN keyReady \subseteq Trains
  BY DEF Fetcher!Ready, HotAmong
<1>5. IsFiniteSet(DOMAIN keyHot) /\ IsFiniteSet(DOMAIN keyReady)
  BY <1>4, FetcherFinite, FS_Subset
<1> HIDE DEF keyHot, keyReady
<1>6. /\ h \in Seq(HotAmong(due)) /\ Len(h) = Cardinality(HotAmong(due))
      /\ \A x \in HotAmong(due) : \E i \in 1 .. Len(h) : h[i] = x
  BY <1>3, <1>4, <1>5, SortedMembers DEF hot
<1>7. r \in Seq(Fetcher!Ready(due, fetched))
  BY <1>3, <1>4, <1>5, SortedMembers DEF ready
<1>8. Parts(due, fetched, s, h, r)
  BY <1>3, <1>6, <1>7 DEF Parts
<1> QED
  BY <1>8

LEMMA PrefixMembers ==
  ASSUME NEW S, NEW p \in Seq(S), NEW m \in Nat, m <= Len(p)
  PROVE  /\ SubSeq(p, 1, m) \in Seq(S) /\ DOMAIN SubSeq(p, 1, m) = 1 .. m
         /\ \A j \in 1 .. m : SubSeq(p, 1, m)[j] = p[j]
  OBVIOUS

LEMMA ChosenMembers ==
  ASSUME NEW due \in SUBSET Trains, NEW fetched,
         NEW s \in Fetcher!ChooseFetches(due, fetched)
  PROVE  s \in Seq(HotAmong(due) \cup Fetcher!Ready(due, fetched))
<1> DEFINE either == HotAmong(due) \cup Fetcher!Ready(due, fetched)
<1>0. PICK h, r : Parts(due, fetched, s, h, r)
  BY ChosenParts
<1>1. /\ h \in Seq(HotAmong(due)) /\ r \in Seq(Fetcher!Ready(due, fetched))
      /\ s = SubSeq(h \o r, 1, Fetcher!Min({MaxFetches, Len(h \o r)}))
  BY <1>0 DEF Parts
<1>2. h \in Seq(either) /\ r \in Seq(either)
  BY <1>1
<1> HIDE DEF either
<1>3. h \o r \in Seq(either) /\ Len(h \o r) \in Nat
  BY <1>2
<1>4. /\ Fetcher!Min({MaxFetches, Len(h \o r)}) \in Nat
      /\ Fetcher!Min({MaxFetches, Len(h \o r)}) <= Len(h \o r)
  BY <1>3, FetcherMin, FetcherPeriods
<1>5. s \in Seq(either)
  BY <1>1, <1>3, <1>4, PrefixMembers
<1> QED
  BY <1>5 DEF either

LEMMA HotChosen ==
  ASSUME NEW due \in SUBSET Trains, NEW fetched,
         NEW s \in Fetcher!ChooseFetches(due, fetched),
         Cardinality(HotAmong(due)) <= MaxFetches, NEW t \in HotAmong(due)
  PROVE  \E i \in DOMAIN s : s[i] = t
<1>0. PICK h, r : Parts(due, fetched, s, h, r)
  BY ChosenParts
<1>1. /\ h \in Seq(HotAmong(due)) /\ r \in Seq(Fetcher!Ready(due, fetched))
      /\ s = SubSeq(h \o r, 1, Fetcher!Min({MaxFetches, Len(h \o r)}))
      /\ Len(h) = Cardinality(HotAmong(due))
      /\ \A x \in HotAmong(due) : \E i \in 1 .. Len(h) : h[i] = x
  BY <1>0 DEF Parts
<1> DEFINE either == HotAmong(due) \cup Fetcher!Ready(due, fetched)
           m == Fetcher!Min({MaxFetches, Len(h \o r)})
<1>2. h \in Seq(either) /\ r \in Seq(either)
  BY <1>1
<1> HIDE DEF either
<1>3. /\ h \o r \in Seq(either) /\ Len(h \o r) = Len(h) + Len(r)
      /\ Len(h) \in Nat /\ Len(r) \in Nat /\ Len(h \o r) \in Nat
      /\ \A i \in 1 .. Len(h) : (h \o r)[i] = h[i]
  BY <1>2
<1>4. m \in Nat /\ m <= Len(h \o r) /\ m \in {MaxFetches, Len(h \o r)}
  BY <1>3, FetcherMin, FetcherPeriods
<1> HIDE DEF m
<1>5. Len(h) <= m
  BY <1>1, <1>3, <1>4, FetcherPeriods
<1>6. PICK i \in 1 .. Len(h) : h[i] = t
  BY <1>1
<1>7. i \in 1 .. m /\ i \in Nat
  BY <1>3, <1>4, <1>5
<1>8. /\ DOMAIN s = 1 .. m
      /\ \A j \in 1 .. m : s[j] = (h \o r)[j]
  BY <1>1, <1>3, <1>4, PrefixMembers DEF m
<1> QED
  BY <1>3, <1>6, <1>7, <1>8

LEMMA CooldownStep == CooldownInv /\ [Fetcher!Next]_(Fetcher!vars) => CooldownInv'
<1> SUFFICES ASSUME CooldownInv, [Fetcher!Next]_(Fetcher!vars)
             PROVE  CooldownInv'
  OBVIOUS
<1> USE FetcherPeriods
<1>1. LoopInv /\ MemoryInv
  BY DEF CooldownInv
<1>2. CASE UNCHANGED Fetcher!vars \/ Fetcher!Get
  BY <1>1, <1>2 DEF Fetcher!vars, Fetcher!Get, Fetcher!loop, Fetcher!history, CooldownInv,
                    LoopInv, MemoryInv
<1>3. CASE Fetcher!Tick
  BY <1>1, <1>3 DEF Fetcher!Tick, Fetcher!loop, Fetcher!history, CooldownInv, LoopInv,
                    MemoryInv
<1>4. CASE Fetcher!ListFails
  <2>1. /\ cycle = 0 /\ cycle' = 0 /\ fetcherNow = wake /\ wake' = fetcherNow + Poll
        /\ UNCHANGED <<fetcherNow, attempted, lastFetched>>
    BY <1>4 DEF Fetcher!ListFails, Fetcher!Slept
  <2>2. LoopInv'
    BY <1>1, <2>1 DEF LoopInv
  <2>3. MemoryInv'
    BY <1>1, <2>1 DEF LoopInv, MemoryInv
  <2> QED
    BY <2>2, <2>3 DEF CooldownInv
<1>5. ASSUME NEW hints \in SUBSET Trains, Fetcher!StartCycle(hints)
      PROVE  CooldownInv'
  <2>1. /\ cycle = 0 /\ fetcherNow = wake /\ cycle' = fetcherNow
        /\ UNCHANGED <<fetcherNow, wake, attempted>>
        /\ DOMAIN lastFetched' \subseteq DOMAIN lastFetched
        /\ \A t \in DOMAIN lastFetched' : lastFetched'[t] = lastFetched[t]
    BY <1>5 DEF Fetcher!StartCycle, Fetcher!loop, Fetcher!history, Fetcher!Restrict
  <2>2. LoopInv'
    BY <1>1, <2>1 DEF LoopInv
  <2>3. MemoryInv'
    <3> SUFFICES ASSUME NEW t \in Trains, attempted[t] # 0
                 PROVE  \/ t \in DOMAIN lastFetched' /\ lastFetched'[t] = attempted[t]
                        \/ t \notin DOMAIN lastFetched' /\ attempted[t] + Poll <= cycle'
      BY <1>1, <2>1 DEF MemoryInv, LoopInv
    <3>1. /\ attempted[t] \in Nat /\ wake \in Nat /\ attempted[t] + Poll <= wake
      BY <1>1, <2>1 DEF LoopInv
    <3> QED
      BY <1>1, <2>1, <3>1 DEF MemoryInv
  <2> QED
    BY <2>2, <2>3 DEF CooldownInv
<1>6. ASSUME Fetcher!Attempt PROVE CooldownInv'
  <2> DEFINE u == Head(picks)
  <2>1. /\ cycle # 0 /\ UNCHANGED <<fetcherNow, cycle, wake>>
        /\ lastFetched' = [t \in DOMAIN lastFetched \cup {u} |->
                             IF t = u THEN cycle ELSE lastFetched[t]]
        /\ attempted' = [attempted EXCEPT ![u] = cycle]
    BY <1>6 DEF Fetcher!Attempt, Fetcher!loop
  <2> HIDE DEF u
  <2>2. LoopInv'
    <3>1. attempted' \in [Trains -> Nat]
      BY <1>1, <2>1 DEF LoopInv
    <3>2. ASSUME NEW t \in Trains PROVE attempted'[t] <= cycle
      BY <1>1, <2>1 DEF LoopInv
    <3> QED
      BY <1>1, <2>1, <3>1, <3>2 DEF LoopInv
  <2>3. MemoryInv'
    <3> SUFFICES ASSUME NEW t \in Trains, attempted'[t] # 0
                 PROVE  \/ t \in DOMAIN lastFetched' /\ lastFetched'[t] = attempted'[t]
                        \/ t \notin DOMAIN lastFetched' /\ attempted'[t] + Poll <= cycle
      BY <1>1, <2>1 DEF MemoryInv, LoopInv
    <3>1. CASE t = u
      BY <1>1, <2>1, <3>1 DEF LoopInv
    <3>2. CASE t # u
      BY <1>1, <2>1, <3>2 DEF LoopInv, MemoryInv
    <3> QED
      BY <3>1, <3>2
  <2> QED
    BY <2>2, <2>3 DEF CooldownInv
<1>7. CASE \/ \E codes \in SUBSET Stations : Fetcher!Fetch(codes)
           \/ Fetcher!Miss \/ Fetcher!BrowserFails \/ Fetcher!BackingOff
  BY <1>6, <1>7 DEF Fetcher!Fetch, Fetcher!Miss, Fetcher!BrowserFails,
                    Fetcher!BackingOff
<1>8. CASE Fetcher!EndCycle
  <2>1. /\ cycle # 0 /\ cycle' = 0 /\ wake' = fetcherNow + Poll
        /\ UNCHANGED <<fetcherNow, attempted, lastFetched>>
    BY <1>8 DEF Fetcher!EndCycle, Fetcher!Slept, Fetcher!history
  <2>2. LoopInv'
    BY <1>1, <2>1 DEF LoopInv
  <2>3. MemoryInv'
    <3> SUFFICES ASSUME NEW t \in Trains, attempted[t] # 0
                 PROVE  \/ t \in DOMAIN lastFetched /\ lastFetched[t] = attempted[t]
                        \/ t \notin DOMAIN lastFetched /\ attempted[t] + 2 * Poll <= wake'
      BY <2>1 DEF MemoryInv
    <3>1. /\ attempted[t] \in Nat /\ cycle \in Nat /\ fetcherNow \in Nat
          /\ cycle <= fetcherNow
      BY <1>1 DEF LoopInv
    <3>2. \/ t \in DOMAIN lastFetched /\ lastFetched[t] = attempted[t]
          \/ t \notin DOMAIN lastFetched /\ attempted[t] + Poll <= cycle
      BY <1>1, <2>1 DEF MemoryInv
    <3> QED
      BY <2>1, <3>1, <3>2
  <2> QED
    BY <2>2, <2>3 DEF CooldownInv
<1> QED
  BY <1>2, <1>3, <1>4, <1>5, <1>7, <1>8 DEF Fetcher!Next

LEMMA TracksIsFetcher == TracksSpec => Fetcher!Spec
<1>1. TracksInit => Fetcher!Init
  BY DEF TracksInit
<1>2. [TracksNext]_<<part, vars, schedulerVars, fetcherVars, boardsVars, surveyVars>>
        => [Fetcher!Next]_(Fetcher!vars)
  BY DEF TracksNext, TokenStep, SchedulerStep, FetcherStep, BoardsStep, SurveyStep,
         fetcherVars, Fetcher!vars
<1> QED
  BY <1>1, <1>2, PTL DEF TracksSpec, Fetcher!Spec

(* A train that is not hot is not asked about within the cooldown, however *)
(* its memory is pruned, when the cooldown is at most two polls.           *)
THEOREM CooldownAlwaysKept ==
  ASSUME Cooldown <= 2 * Poll
  PROVE  TracksSpec => CooldownKept
<1> DEFINE Step ==
      cycle = 0 /\ cycle' # 0 =>
        \A i \in DOMAIN picks' :
          LET t == picks'[i]
          IN  \/ Fetcher!IsHot(t)
              \/ attempted[t] = 0
              \/ fetcherNow - attempted[t] >= Cooldown
<1> USE FetcherPeriods
<1>1. CooldownInv /\ [Fetcher!Next]_(Fetcher!vars) => [Step]_(Fetcher!vars)
  <2> SUFFICES ASSUME CooldownInv, Fetcher!Next, cycle = 0, cycle' # 0,
                      NEW i \in DOMAIN picks',
                      ~Fetcher!IsHot(picks'[i]), attempted[picks'[i]] # 0
               PROVE  fetcherNow - attempted[picks'[i]] >= Cooldown
    OBVIOUS
  <2>1. PICK hints \in SUBSET Trains : Fetcher!StartCycle(hints)
    BY DEF Fetcher!Next, Fetcher!Tick, Fetcher!ListFails, Fetcher!Fetch, Fetcher!Miss,
           Fetcher!BrowserFails, Fetcher!BackingOff, Fetcher!Attempt, Fetcher!EndCycle,
           Fetcher!Get
  <2> DEFINE due == Fetcher!Considered(hints)
             t == picks'[i]
  <2>2. fetcherNow = wake /\ picks' \in Fetcher!ChooseFetches(due, lastFetched)
    BY <2>1 DEF Fetcher!StartCycle
  <2>3. due \subseteq Trains
    BY DEF Fetcher!Considered, Fetcher!Due
  <2> HIDE DEF due
  <2>4. t \in due /\ (Fetcher!IsHot(t) \/ t \in Fetcher!Ready(due, lastFetched))
    <3>1. picks' \in Seq(HotAmong(due) \cup Fetcher!Ready(due, lastFetched))
      BY <2>2, <2>3, ChosenMembers
    <3>2. t \in HotAmong(due) \cup Fetcher!Ready(due, lastFetched)
      BY <3>1
    <3> QED
      BY <3>2 DEF HotAmong, Fetcher!Ready
  <2>5. t \in DOMAIN lastFetched => fetcherNow - lastFetched[t] >= Cooldown
    BY <2>4 DEF Fetcher!Ready
  <2>6. /\ t \in Trains /\ attempted[t] # 0
        /\ attempted[t] \in Nat /\ fetcherNow \in Nat /\ wake \in Nat
    BY <2>3, <2>4 DEF CooldownInv, LoopInv
  <2>7. \/ t \in DOMAIN lastFetched /\ lastFetched[t] = attempted[t]
        \/ attempted[t] + 2 * Poll <= wake
    BY <2>6 DEF CooldownInv, MemoryInv
  <2> QED
    BY <2>2, <2>5, <2>6, <2>7
<1>2. [][CooldownInv /\ [Fetcher!Next]_(Fetcher!vars)]_(Fetcher!vars) => CooldownKept
  BY <1>1, PTL DEF CooldownKept, Fetcher!CooldownKept
<1> QED
  BY TracksIsFetcher, CooldownInit, CooldownStep, <1>2, PTL DEF Fetcher!Spec

(* The least of a set of numbers.                                          *)
LEMMA SmallestThere ==
  ASSUME NEW S \in SUBSET Nat, NEW x \in S
  PROVE  Fetcher!Min(S) \in S /\ \A u \in S : Fetcher!Min(S) <= u
<1>1. PICK m \in S : \A u \in S : ~(u < m)
  BY SmallestMember
<1>2. \E y \in S : \A u \in S : y <= u
  BY <1>1
<1> QED
  BY <1>2 DEF Fetcher!Min

Opening(e) == e.at - Fetcher!HotSpan

Excused(e) == trouble + Poll + CycleTime >= Opening(e)

Asked(t, e) ==
  \/ attempted[t] >= Opening(e)
  \/ e.station \in Fetcher!Known(t)
  \/ t \notin DOMAIN documents /\ attempted[t] # 0

(* The hot window of e is not open, or the cycle to come is the first      *)
(* since it opened.                                                        *)
Early(e) ==
  IF cycle = 0 THEN wake < Opening(e) + Poll + CycleTime ELSE cycle < Opening(e)

(* The first cycle since is going to ask about the train.                  *)
Picked(t, e) ==
  /\ cycle # 0
  /\ Opening(e) <= cycle /\ cycle < Opening(e) + Poll + CycleTime
  /\ \E i \in DOMAIN picks : picks[i] = t

HotInv ==
  \A t \in Trains : \A e \in Stops[t] :
    /\ e.at > Fetcher!HotSpan
    /\ Fetcher!Cardinality(Fetcher!Crowd(e)) <= MaxFetches
    => Excused(e) \/ Asked(t, e) \/ Early(e) \/ Picked(t, e)

(* The loop keeps its pace; what has a document was asked about.           *)
PaceInv ==
  /\ cycle = 0 => fetcherNow <= wake
  /\ cycle # 0 => fetcherNow <= cycle + CycleTime
  /\ trouble \in Nat /\ trouble <= fetcherNow
  /\ picks \in Seq(Trains)
  /\ DOMAIN tracked = DOMAIN documents
  /\ \A t \in Trains : t \in DOMAIN documents => attempted[t] # 0

HottestInv == CooldownInv /\ PaceInv /\ HotInv

LEMMA HotSpanLeast ==
  ASSUME NEW t \in Trains, NEW e \in Stops[t]
  PROVE  /\ e.at \in Nat /\ e.station \in Stations
         /\ Fetcher!HotSpan \in Nat /\ Opening(e) \in Int
         /\ \A s \in Stations : HotWindow[s] \in Nat /\ Fetcher!HotSpan <= HotWindow[s]
<1>1. e.at \in Nat /\ e.station \in Stations
  BY FetcherStops
<1> DEFINE windows == {HotWindow[s] : s \in Stations}
<1>2. windows \in SUBSET Nat /\ HotWindow[e.station] \in windows
  BY <1>1, FetcherStops
<1>3. Fetcher!HotSpan = Fetcher!Min(windows)
  BY DEF Fetcher!HotSpan
<1>4. \A s \in Stations : HotWindow[s] \in windows
  OBVIOUS
<1> HIDE DEF windows
<1>5. Fetcher!HotSpan \in windows /\ \A u \in windows : Fetcher!HotSpan <= u
  BY <1>2, <1>3, SmallestThere
<1>6. Fetcher!HotSpan \in Nat /\ Opening(e) \in Int
  BY <1>1, <1>2, <1>5 DEF Opening
<1>7. \A s \in Stations : HotWindow[s] \in Nat /\ Fetcher!HotSpan <= HotWindow[s]
  BY <1>2, <1>4, <1>5
<1> QED
  BY <1>1, <1>6, <1>7

(* A hot train stops while the window of e is open, so it is in the crowd. *)
LEMMA HotInCrowd ==
  ASSUME NEW t \in Trains, NEW e \in Stops[t], fetcherNow \in Nat,
         Opening(e) <= fetcherNow, fetcherNow <= e.at,
         NEW u \in Trains, Fetcher!IsHot(u)
  PROVE  u \in Fetcher!Crowd(e)
<1> DEFINE times == {f.at : f \in Fetcher!Ahead(u)}
           windows == {HotWindow[s] : s \in Fetcher!Upcoming(u)}
<1>1. /\ Fetcher!Ahead(u) \subseteq Stops[u]
      /\ \A f \in Fetcher!Ahead(u) : fetcherNow <= f.at
      /\ \A f \in Fetcher!Ahead(u) : f.at \in Nat /\ f.station \in Stations
  BY FetcherStops DEF Fetcher!Ahead, Fetcher!InWindow
<1>2. PICK f0 \in Fetcher!Ahead(u) : TRUE
  BY DEF Fetcher!IsHot
<1>3. times \in SUBSET Nat /\ f0.at \in times
  BY <1>1
<1>4. Fetcher!NextStop(u) \in times
  BY <1>3, SmallestThere DEF Fetcher!NextStop
<1>5. PICK f \in Fetcher!Ahead(u) : f.at = Fetcher!NextStop(u)
  BY <1>4
<1>6. windows \in SUBSET Nat /\ HotWindow[f.station] \in windows
  BY <1>1, FetcherStops DEF Fetcher!Upcoming
<1>7. Fetcher!Min(windows) \in Nat /\ Fetcher!Min(windows) <= HotWindow[f.station]
  <2> HIDE DEF windows
  <2> QED
    BY <1>6, SmallestThere
<1>8. f.at - fetcherNow <= Fetcher!Min(windows)
  BY <1>5 DEF Fetcher!IsHot
<1> HIDE DEF windows
<1>9. f.at \in Nat /\ f.station \in Stations /\ HotWindow[f.station] \in Nat /\ f \in Stops[u]
  BY <1>1, FetcherStops
<1>10. /\ e.at \in Nat /\ Fetcher!HotSpan \in Nat
       /\ e.at - Fetcher!HotSpan <= fetcherNow
  BY HotSpanLeast DEF Opening
<1>11. f.at - e.at \in -Fetcher!HotSpan .. HotWindow[f.station]
  BY <1>1, <1>7, <1>8, <1>9, <1>10
<1> QED
  BY <1>9, <1>11 DEF Fetcher!Crowd

(* A train before its stop is hot when the window of the stop is open.     *)
LEMMA HotBeforeStop ==
  ASSUME Fetcher!HotMargin, NEW t \in Trains, NEW e \in Stops[t], fetcherNow \in Nat,
         Opening(e) <= fetcherNow, fetcherNow <= e.at
  PROVE  t \in Fetcher!Due /\ (Fetcher!IsHot(t) \/ e.station \in Fetcher!Known(t))
<1> DEFINE times == {f.at : f \in Fetcher!Ahead(t)}
           windows == {HotWindow[s] : s \in Fetcher!Upcoming(t)}
<1>1. /\ e.at \in Nat /\ e.station \in Stations
      /\ Fetcher!HotSpan \in Nat
      /\ \A s \in Stations : HotWindow[s] \in Nat /\ Fetcher!HotSpan <= HotWindow[s]
      /\ e.at - fetcherNow <= Fetcher!HotSpan
  BY HotSpanLeast DEF Opening
<1>2. e.at - fetcherNow <= Before[e.station] /\ fetcherNow - e.at <= After
  <2>1. HotWindow[e.station] <= Before[e.station] /\ Before[e.station] \in Nat
    BY <1>1, FetcherStops DEF Fetcher!HotMargin
  <2>2. After \in Nat
    BY PartsAssumption DEF Fetcher!FetcherConstants
  <2> QED
    BY <1>1, <2>1, <2>2
<1>3. e \in Fetcher!Ahead(t) /\ e \in Fetcher!InWindow(t)
  BY <1>1, <1>2 DEF Fetcher!Ahead, Fetcher!InWindow
<1>4. e.station \in Fetcher!Upcoming(t) /\ t \in Fetcher!Due
  BY <1>3 DEF Fetcher!Upcoming, Fetcher!Due
<1>5. \A f \in Fetcher!Ahead(t) : f.at \in Nat /\ f.station \in Stations
  BY FetcherStops DEF Fetcher!Ahead, Fetcher!InWindow
<1>6. Fetcher!NextStop(t) \in Nat /\ Fetcher!NextStop(t) <= e.at
  <2>1. times \in SUBSET Nat /\ e.at \in times
    BY <1>3, <1>5
  <2> HIDE DEF times
  <2>2. Fetcher!Min(times) \in Nat /\ Fetcher!Min(times) <= e.at
    BY <2>1, SmallestThere
  <2> QED
    BY <2>2 DEF Fetcher!NextStop, times
<1>7. Fetcher!Min(windows) \in Nat /\ Fetcher!HotSpan <= Fetcher!Min(windows)
  <2>1. windows \in SUBSET Nat /\ HotWindow[e.station] \in windows
    BY <1>1, <1>4, <1>5 DEF Fetcher!Upcoming
  <2>2. \A w \in windows : Fetcher!HotSpan <= w
    BY <1>1, <1>5 DEF Fetcher!Upcoming
  <2> HIDE DEF windows
  <2> QED
    BY <2>1, <2>2, SmallestThere
<1>8. Fetcher!NextStop(t) - fetcherNow <= Fetcher!Min(windows)
  <2> HIDE DEF windows
  <2> QED
    BY <1>1, <1>6, <1>7
<1>9. CASE Fetcher!Upcoming(t) \subseteq Fetcher!Known(t)
  BY <1>4, <1>9
<1>10. CASE ~(Fetcher!Upcoming(t) \subseteq Fetcher!Known(t))
  BY <1>3, <1>4, <1>8, <1>10 DEF Fetcher!IsHot
<1> QED
  BY <1>9, <1>10

LEMMA HottestInit == Fetcher!Init => HottestInv
<1> SUFFICES ASSUME Fetcher!Init PROVE HottestInv
  OBVIOUS
<1>1. CooldownInv
  BY CooldownInit
<1>2. PaceInv
  BY DEF Fetcher!Init, Fetcher!Empty, PaceInv
<1>3. ASSUME NEW t \in Trains, NEW e \in Stops[t], e.at > Fetcher!HotSpan
      PROVE  Early(e)
  <2>1. wake = 1 /\ cycle = 0
    BY DEF Fetcher!Init
  <2>2. e.at \in Nat /\ Fetcher!HotSpan \in Nat
    BY HotSpanLeast
  <2> QED
    BY <1>3, <2>1, <2>2, FetcherPeriods DEF Early, Opening
<1> QED
  BY <1>1, <1>2, <1>3 DEF HottestInv, HotInv

(* A cycle that begins while the window of a stop is open asks about the   *)
(* train, if not about too many.                                           *)
LEMMA HotPicked ==
  ASSUME Fetcher!HotMargin, HottestInv, NEW hints \in SUBSET Trains,
         Fetcher!StartCycle(hints), NEW t \in Trains, NEW e \in Stops[t],
         e.at > Fetcher!HotSpan, Fetcher!Cardinality(Fetcher!Crowd(e)) <= MaxFetches,
         Early(e)
  PROVE  Asked(t, e)' \/ Early(e)' \/ Picked(t, e)'
<1> USE FetcherPeriods
<1> DEFINE due == Fetcher!Considered(hints)
<1>1. /\ cycle = 0 /\ fetcherNow = wake /\ cycle' = fetcherNow
      /\ UNCHANGED <<attempted, tracked, documents>>
      /\ picks' \in Fetcher!ChooseFetches(due, lastFetched)
  BY DEF Fetcher!StartCycle, Fetcher!history, Fetcher!store
<1>2. /\ fetcherNow \in Nat /\ fetcherNow # 0
      /\ e.at \in Nat /\ Fetcher!HotSpan \in Nat
      /\ Opening(e) = e.at - Fetcher!HotSpan
      /\ fetcherNow < Opening(e) + Poll + CycleTime
      /\ Poll + 2 * CycleTime <= Fetcher!HotSpan + 1
  BY <1>1, HotSpanLeast DEF HottestInv, CooldownInv, LoopInv, Early, Opening, Fetcher!HotMargin
<1>3. CASE fetcherNow < Opening(e)
  BY <1>1, <1>2, <1>3 DEF Early, Opening
<1>4. CASE Opening(e) <= fetcherNow
  <2>1. fetcherNow <= e.at
    BY <1>2
  <2>2. t \in Fetcher!Due /\ (Fetcher!IsHot(t) \/ e.station \in Fetcher!Known(t))
    BY <1>2, <1>4, <2>1, HotBeforeStop
  <2>3. CASE e.station \in Fetcher!Known(t)
    BY <1>1, <2>3 DEF Asked, Fetcher!Known
  <2>4. CASE Fetcher!IsHot(t)
    <3>1. due \subseteq Trains /\ t \in HotAmong(due)
      BY <2>2, <2>4 DEF Fetcher!Considered, Fetcher!Due, HotAmong
    <3> HIDE DEF due
    <3>2. HotAmong(due) \subseteq Fetcher!Crowd(e)
      BY <1>2, <1>4, <2>1, <3>1, HotInCrowd DEF HotAmong
    <3>3. Cardinality(HotAmong(due)) <= MaxFetches
      <4>1. IsFiniteSet(Fetcher!Crowd(e))
        BY FetcherFinite, FS_Subset DEF Fetcher!Crowd
      <4>2. /\ Cardinality(HotAmong(due)) \in Nat
            /\ Cardinality(Fetcher!Crowd(e)) \in Nat
            /\ Cardinality(HotAmong(due)) <= Cardinality(Fetcher!Crowd(e))
        BY <3>2, <4>1, FS_Subset, FS_CardinalityType
      <4>3. Cardinality(Fetcher!Crowd(e)) <= MaxFetches
        BY FetcherCardinality
      <4> QED
        BY <4>2, <4>3
    <3>4. \E i \in DOMAIN picks' : picks'[i] = t
      BY <1>1, <3>1, <3>3, HotChosen
    <3> QED
      BY <1>1, <1>2, <1>4, <3>4 DEF Picked, Opening
  <2> QED
    BY <2>2, <2>3, <2>4
<1> QED
  BY <1>2, <1>3, <1>4

(* The loop keeps its pace whatever the step.                              *)
LEMMA PaceStep ==
  ASSUME CooldownInv, PaceInv, Fetcher!Next
  PROVE  PaceInv'
<1> USE FetcherPeriods
<1>1. /\ fetcherNow \in Nat /\ fetcherNow # 0 /\ cycle \in Nat /\ wake \in Nat
      /\ cycle <= fetcherNow
      /\ trouble \in Nat /\ trouble <= fetcherNow
      /\ attempted \in [Trains -> Nat]
      /\ cycle = 0 => fetcherNow <= wake
      /\ cycle # 0 => fetcherNow <= cycle + CycleTime
      /\ picks \in Seq(Trains)
      /\ DOMAIN tracked = DOMAIN documents
      /\ \A t \in Trains : t \in DOMAIN documents => attempted[t] # 0
  BY DEF CooldownInv, LoopInv, PaceInv
<1>2. CASE Fetcher!Tick
  BY <1>1, <1>2 DEF Fetcher!Tick, Fetcher!loop, Fetcher!store, Fetcher!history, PaceInv
<1>3. CASE Fetcher!ListFails
  BY <1>1, <1>3 DEF Fetcher!ListFails, Fetcher!Slept, Fetcher!store, PaceInv
<1>4. ASSUME NEW hints \in SUBSET Trains, Fetcher!StartCycle(hints)
      PROVE  PaceInv'
  <2> DEFINE due == Fetcher!Considered(hints)
  <2>1. /\ cycle' = fetcherNow /\ picks' \in Fetcher!ChooseFetches(due, lastFetched)
        /\ UNCHANGED <<fetcherNow, trouble, attempted, tracked, documents>>
    BY <1>4 DEF Fetcher!StartCycle, Fetcher!store, Fetcher!history
  <2>2. due \in SUBSET Trains
    BY DEF Fetcher!Considered, Fetcher!Due
  <2> HIDE DEF due
  <2>3. picks' \in Seq(HotAmong(due) \cup Fetcher!Ready(due, lastFetched))
    BY <2>1, <2>2, ChosenMembers
  <2>4. HotAmong(due) \cup Fetcher!Ready(due, lastFetched) \subseteq Trains
    BY <2>2 DEF HotAmong, Fetcher!Ready
  <2>5. picks' \in Seq(Trains)
    BY <2>3, <2>4
  <2> QED
    BY <1>1, <2>1, <2>5 DEF PaceInv
<1>5. ASSUME Fetcher!Attempt
      PROVE  /\ cycle # 0 /\ cycle' = cycle /\ fetcherNow' = fetcherNow
             /\ Head(picks) \in Trains /\ Tail(picks) \in Seq(Trains)
             /\ \A t \in Trains : attempted[t] # 0 => attempted'[t] # 0
             /\ attempted'[Head(picks)] # 0
  <2>1. /\ cycle # 0 /\ cycle' = cycle /\ fetcherNow' = fetcherNow
        /\ picks # << >> /\ attempted' = [attempted EXCEPT ![Head(picks)] = cycle]
    BY <1>5 DEF Fetcher!Attempt
  <2>2. Head(picks) \in Trains /\ Tail(picks) \in Seq(Trains)
    BY <1>1, <2>1
  <2> QED
    BY <1>1, <2>1, <2>2
<1>6. ASSUME NEW codes \in SUBSET Stations, Fetcher!Fetch(codes)
      PROVE  PaceInv'
  <2>1. /\ trouble' = trouble /\ picks' = Tail(picks)
        /\ DOMAIN documents' = DOMAIN documents \cup {Head(picks)}
        /\ DOMAIN tracked' = DOMAIN tracked \cup {Head(picks)}
    BY <1>6 DEF Fetcher!Fetch
  <2>2. Fetcher!Attempt
    BY <1>6 DEF Fetcher!Fetch
  <2> QED
    BY <1>1, <1>5, <2>1, <2>2 DEF PaceInv
<1>7. CASE Fetcher!Miss
  <2>1. trouble' = trouble /\ picks' = Tail(picks) /\ UNCHANGED <<documents, tracked>>
    BY <1>7 DEF Fetcher!Miss, Fetcher!store
  <2>2. Fetcher!Attempt
    BY <1>7 DEF Fetcher!Miss
  <2> QED
    BY <1>1, <1>5, <2>1, <2>2 DEF PaceInv
<1>8. CASE Fetcher!BrowserFails \/ Fetcher!BackingOff
  <2>1. trouble' = fetcherNow /\ picks' = << >> /\ UNCHANGED <<documents, tracked>>
    BY <1>8 DEF Fetcher!BrowserFails, Fetcher!BackingOff, Fetcher!store
  <2>2. Fetcher!Attempt
    BY <1>8 DEF Fetcher!BrowserFails, Fetcher!BackingOff
  <2> QED
    BY <1>1, <1>5, <2>1, <2>2 DEF PaceInv
<1>9. CASE Fetcher!EndCycle
  BY <1>1, <1>9 DEF Fetcher!EndCycle, Fetcher!Slept, Fetcher!store, Fetcher!history,
                    PaceInv
<1>10. CASE Fetcher!Get
  BY <1>1, <1>10 DEF Fetcher!Get, Fetcher!loop, Fetcher!history, Fetcher!Restrict, PaceInv
<1> QED
  BY <1>2, <1>3, <1>4, <1>6, <1>7, <1>8, <1>9, <1>10 DEF Fetcher!Next

(* What holds of a train before its stop holds after a step, until the     *)
(* stop has passed.                                                        *)
LEMMA HotStep ==
  ASSUME Fetcher!HotMargin, HottestInv, Fetcher!Next,
         NEW t \in Trains, NEW e \in Stops[t], e.at > Fetcher!HotSpan,
         Fetcher!Cardinality(Fetcher!Crowd(e)) <= MaxFetches,
         Excused(e) \/ Asked(t, e) \/ Early(e) \/ Picked(t, e)
  PROVE  Excused(e)' \/ Asked(t, e)' \/ Early(e)' \/ Picked(t, e)'
<1> USE FetcherPeriods
<1>1. /\ fetcherNow \in Nat /\ fetcherNow # 0 /\ cycle \in Nat /\ wake \in Nat
      /\ cycle <= fetcherNow
      /\ trouble \in Nat /\ trouble <= fetcherNow
      /\ attempted \in [Trains -> Nat]
      /\ cycle = 0 => fetcherNow <= wake
      /\ cycle # 0 => fetcherNow <= cycle + CycleTime /\ attempted[t] <= cycle
      /\ picks \in Seq(Trains)
      /\ DOMAIN tracked = DOMAIN documents
      /\ t \in DOMAIN documents => attempted[t] # 0
      /\ Opening(e) \in Int
  BY HotSpanLeast DEF HottestInv, CooldownInv, LoopInv, PaceInv
<1>2. Opening(e)' = Opening(e)
  BY DEF Opening
<1>3. CASE Fetcher!Tick
  <2>1. UNCHANGED <<cycle, wake, picks, documents, tracked, attempted, trouble>>
    BY <1>3 DEF Fetcher!Tick, Fetcher!loop, Fetcher!store, Fetcher!history
  <2> QED
    BY <1>2, <2>1 DEF Excused, Asked, Early, Picked, Fetcher!Known
<1>4. CASE Fetcher!ListFails
  BY <1>1, <1>2, <1>4 DEF Fetcher!ListFails, Fetcher!Slept, Excused, Early
<1>5. ASSUME NEW hints \in SUBSET Trains, Fetcher!StartCycle(hints)
      PROVE  Excused(e)' \/ Asked(t, e)' \/ Early(e)' \/ Picked(t, e)'
  <2>1. /\ cycle = 0
        /\ UNCHANGED <<trouble, attempted, tracked, documents>>
    BY <1>5 DEF Fetcher!StartCycle, Fetcher!store, Fetcher!history
  <2>2. CASE Excused(e)
    BY <1>2, <2>1, <2>2 DEF Excused
  <2>3. CASE Asked(t, e)
    BY <1>2, <2>1, <2>3 DEF Asked, Fetcher!Known
  <2>4. CASE Early(e)
    BY <1>5, <2>4, HotPicked
  <2>5. CASE Picked(t, e)
    BY <2>1, <2>5 DEF Picked
  <2> QED
    BY <2>2, <2>3, <2>4, <2>5
<1>6. ASSUME Fetcher!Attempt, cycle < Opening(e) PROVE Early(e)'
  BY <1>1, <1>2, <1>6 DEF Fetcher!Attempt, Early
<1>7. ASSUME Fetcher!Attempt, Opening(e) <= cycle, picks' = Tail(picks),
             trouble' = trouble,
             t # Head(picks) => /\ Fetcher!Known(t)' = Fetcher!Known(t)
                                /\ t \in DOMAIN documents' => t \in DOMAIN documents
      PROVE  Excused(e)' \/ Asked(t, e)' \/ Early(e)' \/ Picked(t, e)'
  <2>1. /\ cycle # 0 /\ cycle' = cycle /\ picks # << >>
        /\ attempted' = [attempted EXCEPT ![Head(picks)] = cycle]
    BY <1>7 DEF Fetcher!Attempt
  <2>2. CASE t = Head(picks)
    <3>1. attempted'[t] = cycle
      BY <1>1, <2>1, <2>2
    <3> QED
      BY <1>2, <1>7, <3>1 DEF Asked
  <2>3. CASE t # Head(picks)
    <3>1. attempted'[t] = attempted[t]
      BY <1>1, <2>1, <2>3
    <3>2. CASE Excused(e)
      BY <1>2, <1>7, <3>2 DEF Excused
    <3>3. CASE Asked(t, e)
      BY <1>2, <1>7, <2>3, <3>1, <3>3 DEF Asked
    <3>4. CASE Picked(t, e)
      <4>1. PICK i \in DOMAIN picks : picks[i] = t
        BY <3>4 DEF Picked
      <4>2. i - 1 \in DOMAIN Tail(picks) /\ Tail(picks)[i - 1] = t
        BY <1>1, <2>1, <2>3, <4>1
      <4>3. \E j \in DOMAIN picks' : picks'[j] = t
        BY <1>7, <4>2
      <4> QED
        BY <1>2, <2>1, <3>4, <4>3 DEF Picked
    <3>5. ~Early(e)
      BY <1>1, <1>7, <2>1 DEF Early
    <3> QED
      BY <3>2, <3>3, <3>4, <3>5
  <2> QED
    BY <2>2, <2>3
<1>8. cycle < Opening(e) \/ Opening(e) <= cycle
  BY <1>1
<1>9. ASSUME NEW codes \in SUBSET Stations, Fetcher!Fetch(codes)
      PROVE  Excused(e)' \/ Asked(t, e)' \/ Early(e)' \/ Picked(t, e)'
  <2>1. /\ Fetcher!Attempt /\ picks' = Tail(picks) /\ trouble' = trouble
        /\ documents' = [u \in DOMAIN documents \cup {Head(picks)} |->
                           IF u = Head(picks) THEN cycle ELSE documents[u]]
        /\ tracked' = [u \in DOMAIN tracked \cup {Head(picks)} |->
                         IF u = Head(picks) THEN codes ELSE tracked[u]]
    BY <1>9 DEF Fetcher!Fetch
  <2> DEFINE h == Head(picks)
  <2> HIDE DEF h
  <2>2. t # h => /\ Fetcher!Known(t)' = Fetcher!Known(t)
                 /\ t \in DOMAIN documents' => t \in DOMAIN documents
    BY <2>1 DEF Fetcher!Known, h
  <2> QED
    BY <1>6, <1>7, <1>8, <2>1, <2>2 DEF h
<1>10. CASE Fetcher!Miss
  <2>1. /\ Fetcher!Attempt /\ picks' = Tail(picks) /\ trouble' = trouble
        /\ UNCHANGED <<documents, tracked>>
    BY <1>10 DEF Fetcher!Miss, Fetcher!store
  <2>2. /\ Fetcher!Known(t)' = Fetcher!Known(t)
        /\ t \in DOMAIN documents' => t \in DOMAIN documents
    BY <2>1 DEF Fetcher!Known
  <2> QED
    BY <1>6, <1>7, <1>8, <2>1, <2>2
<1>11. CASE Fetcher!BrowserFails \/ Fetcher!BackingOff
  <2>1. Fetcher!Attempt /\ trouble' = fetcherNow
    BY <1>11 DEF Fetcher!BrowserFails, Fetcher!BackingOff
  <2>2. Opening(e) <= cycle => Excused(e)'
    BY <1>1, <1>2, <2>1 DEF Excused
  <2> QED
    BY <1>6, <1>8, <2>1, <2>2
<1>12. CASE Fetcher!EndCycle
  <2>1. /\ cycle # 0 /\ picks = << >> /\ cycle' = 0 /\ wake' = fetcherNow + Poll
        /\ UNCHANGED <<trouble, attempted, documents, tracked>>
    BY <1>12 DEF Fetcher!EndCycle, Fetcher!Slept, Fetcher!store, Fetcher!history
  <2>2. CASE Excused(e)
    BY <1>2, <2>1, <2>2 DEF Excused
  <2>3. CASE Asked(t, e)
    BY <1>2, <2>1, <2>3 DEF Asked, Fetcher!Known
  <2>4. CASE Early(e)
    BY <1>1, <1>2, <2>1, <2>4 DEF Early
  <2>5. ~Picked(t, e)
    BY <2>1 DEF Picked
  <2> QED
    BY <2>2, <2>3, <2>4, <2>5
<1>13. CASE Fetcher!Get
  <2>1. UNCHANGED <<cycle, wake, picks, attempted, trouble>>
    BY <1>13 DEF Fetcher!Get, Fetcher!loop, Fetcher!history
  <2> DEFINE fresh == {u \in DOMAIN documents : fetcherNow - documents[u] <= Ttl}
  <2>2. /\ documents' = [u \in fresh |-> documents[u]]
        /\ tracked' = [u \in fresh |-> tracked[u]]
    BY <1>13 DEF Fetcher!Get, Fetcher!Restrict
  <2>3. fresh \subseteq DOMAIN documents
    OBVIOUS
  <2> HIDE DEF fresh
  <2>4. CASE Asked(t, e)
    <3>1. CASE attempted[t] >= Opening(e)
      BY <1>2, <2>1, <3>1 DEF Asked
    <3>2. CASE e.station \in Fetcher!Known(t)
      <4>1. t \in DOMAIN documents /\ e.station \in tracked[t]
        BY <1>1, <3>2 DEF Fetcher!Known
      <4>2. CASE t \in fresh
        <5>1. e.station \in Fetcher!Known(t)'
          BY <2>2, <4>1, <4>2 DEF Fetcher!Known
        <5> QED
          BY <5>1 DEF Asked
      <4>3. CASE t \notin fresh
        BY <1>1, <2>1, <2>2, <4>1, <4>3 DEF Asked
      <4> QED
        BY <4>2, <4>3
    <3>3. CASE t \notin DOMAIN documents /\ attempted[t] # 0
      BY <2>1, <2>2, <2>3, <3>3 DEF Asked
    <3> QED
      BY <2>4, <3>1, <3>2, <3>3 DEF Asked
  <2>5. CASE Excused(e) \/ Early(e) \/ Picked(t, e)
    BY <1>2, <2>1, <2>5 DEF Excused, Early, Picked
  <2> QED
    BY <2>4, <2>5
<1> QED
  BY <1>3, <1>4, <1>5, <1>9, <1>10, <1>11, <1>12, <1>13 DEF Fetcher!Next

LEMMA HottestStep ==
  ASSUME Fetcher!HotMargin, HottestInv, [Fetcher!Next]_(Fetcher!vars)
  PROVE  HottestInv'
<1>1. CooldownInv'
  BY CooldownStep DEF HottestInv
<1>2. CASE UNCHANGED Fetcher!vars
  BY <1>1, <1>2 DEF Fetcher!vars, HottestInv, PaceInv, HotInv, Excused, Asked, Early,
                    Picked, Fetcher!Known, Opening
<1>3. CASE Fetcher!Next
  <2>1. PaceInv'
    BY <1>3, PaceStep DEF HottestInv
  <2>2. HotInv'
    BY <1>3, HotStep DEF HottestInv, HotInv
  <2> QED
    BY <1>1, <2>1, <2>2 DEF HottestInv
<1> QED
  BY <1>2, <1>3

(* No train passes its stop without having been asked about within the hot *)
(* window, a track that was known, or a failure of the list or the browser *)
(* to show for it, when the first cycle in the window ends before the stop.*)
THEOREM HotAlwaysAttempted ==
  ASSUME Fetcher!HotMargin
  PROVE  TracksSpec => []HotAttempted
<1>1. HottestInv => HotAttempted
  <2> SUFFICES ASSUME HottestInv, NEW t \in Trains, NEW e \in Stops[t],
                      fetcherNow > e.at, e.at > Fetcher!HotSpan,
                      Fetcher!Cardinality(Fetcher!Crowd(e)) <= MaxFetches,
                      trouble + Poll + CycleTime < Opening(e)
               PROVE  Asked(t, e)
    BY DEF HotAttempted, Fetcher!HotAttempted, Asked, Opening
  <2> USE FetcherPeriods
  <2>1. /\ fetcherNow \in Nat /\ cycle \in Nat /\ wake \in Nat /\ trouble \in Nat
        /\ cycle = 0 => fetcherNow <= wake
        /\ cycle # 0 => fetcherNow <= cycle + CycleTime
    BY DEF HottestInv, CooldownInv, LoopInv, PaceInv
  <2>2. /\ e.at \in Nat /\ Fetcher!HotSpan \in Nat
        /\ Opening(e) = e.at - Fetcher!HotSpan
        /\ Poll + 2 * CycleTime <= Fetcher!HotSpan + 1
    BY HotSpanLeast DEF Opening, Fetcher!HotMargin
  <2>3. Excused(e) \/ Asked(t, e) \/ Early(e) \/ Picked(t, e)
    BY DEF HottestInv, HotInv
  <2>4. ~Excused(e)
    BY <2>1, <2>2 DEF Excused
  <2>5. ~Early(e)
    BY <2>1, <2>2 DEF Early
  <2>6. ~Picked(t, e)
    BY <2>1, <2>2 DEF Picked
  <2> QED
    BY <2>3, <2>4, <2>5, <2>6
<1>2. HottestInv /\ [Fetcher!Next]_(Fetcher!vars) => HottestInv'
  BY HottestStep
<1> QED
  BY TracksIsFetcher, HottestInit, <1>1, <1>2, PTL DEF Fetcher!Spec

-----------------------------------------------------------------------------
(* The hints                                                               *)

LEMMA SchedulerPeriods ==
  /\ HintTrains \subseteq Nat /\ IsFiniteSet(HintTrains)
  /\ Debounce \in Nat /\ MinGap \in Nat /\ MaxPerFlush \in Nat \ {0}
  BY PartsAssumption DEF Scheduler!SchedulerConstants, Scheduler!IsFiniteSet, IsFiniteSet

LEMMA SchedulerCardinality ==
  ASSUME NEW S PROVE Scheduler!Cardinality(S) = Cardinality(S)
  BY DEF Scheduler!Cardinality, Cardinality

LEMMA HintsCount == Cardinality(HintTrains) \in Nat
  BY SchedulerPeriods, FS_CardinalityType

(* A train that has to stay behind has MaxPerFlush trains released before  *)
(* it.                                                                     *)
LEMMA FirstBefore ==
  ASSUME NEW ready \in SUBSET HintTrains, NEW t \in ready \ Scheduler!First(ready)
  PROVE  MaxPerFlush <= Cardinality({u \in Scheduler!First(ready) : u < t})
<1> DEFINE behind == ready \ Scheduler!First(ready)
           below(x) == {u \in ready : u < x}
<1> USE SchedulerPeriods
<1>1. IsFiniteSet(ready) /\ behind \subseteq Nat
  BY FS_Subset
<1>2. PICK m \in behind : m <= t /\ \A u \in behind : ~(u < m)
  BY <1>1, SmallestMember
<1>3. IsFiniteSet(below(m)) /\ Cardinality(below(m)) \in Nat
  BY <1>1, FS_Subset, FS_CardinalityType
<1>4. MaxPerFlush <= Cardinality(below(m))
  BY <1>3, SchedulerCardinality DEF Scheduler!First
<1>5. ASSUME NEW u \in below(m) PROVE u \in Scheduler!First(ready) /\ u < t
  <2>1. u \in ready /\ u < m /\ u \in Nat /\ m \in Nat /\ t \in Nat
    BY <1>1
  <2>2. u \notin behind
    BY <1>2, <2>1
  <2> QED
    BY <1>2, <2>1, <2>2
<1>6. IsFiniteSet({u \in Scheduler!First(ready) : u < t})
  BY <1>1, FS_Subset DEF Scheduler!First
<1>7. /\ Cardinality(below(m)) <= Cardinality({u \in Scheduler!First(ready) : u < t})
      /\ Cardinality({u \in Scheduler!First(ready) : u < t}) \in Nat
  BY <1>5, <1>6, FS_Subset, FS_CardinalityType
<1> QED
  BY <1>3, <1>4, <1>7

(* The trains that were released in the last k rounds.                     *)
Passed(t, k) == {u \in HintTrains : u < t /\ gap[u] < k}

(* A hint that is quiet for long has its own gap behind it; for each round *)
(* it stays behind nevertheless, MaxPerFlush trains were released before   *)
(* it.                                                                     *)
GapInv ==
  /\ DOMAIN touch \subseteq HintTrains
  /\ gap \in [HintTrains -> 0 .. MinGap] /\ quiet \in [HintTrains -> Nat]
  /\ \A t \in HintTrains : quiet[t] <= gap[t] \/ gap[t] = MinGap

PassedInv ==
  \A t \in HintTrains : \A k \in Nat :
    quiet[t] + 1 = MinGap + k => MaxPerFlush * k <= Cardinality(Passed(t, k))

QueueInv == GapInv /\ PassedInv

(* As many rounds as MaxPerFlush goes into the other trains.               *)
LEMMA RoundsBounded ==
  ASSUME NEW n \in Nat, NEW d \in Nat \ {0}, NEW k \in Nat, d * k <= n
  PROVE  k <= n \div d
<1> DEFINE q == n \div d
<1>1. /\ q \in Nat /\ n = d * q + (n % d) /\ n % d < d /\ n % d \in Nat
  OBVIOUS
<1> HIDE DEF q
<1>2. SUFFICES ASSUME k > q PROVE FALSE
  BY <1>1 DEF q
<1>3. k - q - 1 \in Nat
  BY <1>1, <1>2
<1>4. d * (k - q - 1) \in Nat
  BY <1>3
<1>5. d * k = d * q + d + d * (k - q - 1)
  BY <1>1
<1>6. d * k \in Nat /\ d * q \in Nat
  BY <1>1
<1> QED
  BY <1>1, <1>4, <1>5, <1>6

LEMMA FewRounds ==
  ASSUME NEW n \in Nat, NEW d \in Nat \ {0}, NEW k \in Nat, NEW m \in Nat,
         d * k < n, n <= m * d
  PROVE  k < m
<1>1. SUFFICES ASSUME k >= m PROVE FALSE
  OBVIOUS
<1>2. k - m \in Nat
  BY <1>1
<1>3. d * (k - m) \in Nat
  BY <1>2
<1>4. d * k = m * d + d * (k - m)
  OBVIOUS
<1>5. d * k \in Nat /\ m * d \in Nat
  OBVIOUS
<1> QED
  BY <1>3, <1>4, <1>5

(* In a queue like this a hint is never left for more than its own gap and *)
(* the rounds that the trains before it take.                              *)
LEMMA PassedFew ==
  ASSUME QueueInv, NEW t \in HintTrains, NEW k \in Nat,
         quiet[t] + 1 = MinGap + k
  PROVE  /\ MaxPerFlush * k <= Cardinality(HintTrains) - 1
         /\ Cardinality(HintTrains) \in Nat \ {0}
<1> USE SchedulerPeriods
<1>1. MaxPerFlush * k <= Cardinality(Passed(t, k))
  BY DEF QueueInv, PassedInv
<1>2. /\ IsFiniteSet(HintTrains \ {t}) /\ Cardinality(HintTrains) \in Nat
      /\ Cardinality(HintTrains \ {t}) = Cardinality(HintTrains) - 1
      /\ Cardinality(HintTrains \ {t}) \in Nat
  BY FS_RemoveElement, FS_CardinalityType
<1>3. Passed(t, k) \subseteq HintTrains \ {t}
  BY DEF Passed
<1>4. /\ Cardinality(Passed(t, k)) <= Cardinality(HintTrains \ {t})
      /\ Cardinality(Passed(t, k)) \in Nat
  BY <1>2, <1>3, FS_Subset, FS_CardinalityType
<1>5. MaxPerFlush * k \in Nat
  OBVIOUS
<1> QED
  BY <1>1, <1>2, <1>4, <1>5

LEMMA QueuePatient ==
  ASSUME QueueInv, Cardinality(HintTrains) <= MinGap * MaxPerFlush
  PROVE  Scheduler!HintReleased
<1> USE SchedulerPeriods
<1> SUFFICES ASSUME NEW t \in HintTrains PROVE quiet[t] <= Scheduler!Patience
  BY DEF Scheduler!HintReleased
<1> DEFINE n == Cardinality(HintTrains) - 1
           q == n \div MaxPerFlush
<1>1. Scheduler!Patience = MinGap + q
  BY SchedulerCardinality DEF Scheduler!Patience
<1>2. n \in Nat /\ quiet[t] \in Nat
  <2>1. Cardinality(HintTrains) # 0
    BY FS_EmptySet
  <2> QED
    BY <2>1, HintsCount DEF QueueInv, GapInv
<1>3. q \in Nat
  BY <1>2
<1>4. CASE quiet[t] + 1 < MinGap
  <2> HIDE DEF q
  <2> QED
    BY <1>1, <1>2, <1>3, <1>4
<1>5. CASE quiet[t] + 1 >= MinGap
  <2> DEFINE k == quiet[t] + 1 - MinGap
  <2>1. k \in Nat /\ quiet[t] + 1 = MinGap + k
    BY <1>2, <1>5
  <2> HIDE DEF k
  <2>2. MaxPerFlush * k <= n
    BY <2>1, PassedFew
  <2> HIDE DEF n
  <2>3. k <= q
    BY <1>2, <2>1, <2>2, RoundsBounded
  <2> HIDE DEF q
  <2> QED
    BY <1>1, <1>2, <1>3, <2>1, <2>3
<1> QED
  BY <1>2, <1>4, <1>5

LEMMA PassedCount ==
  ASSUME NEW t, NEW k
  PROVE  /\ IsFiniteSet(Passed(t, k)) /\ Cardinality(Passed(t, k)) \in Nat
         /\ IsFiniteSet(Passed(t, k)') /\ Cardinality(Passed(t, k)') \in Nat
  BY SchedulerPeriods, FS_Subset, FS_CardinalityType DEF Passed

LEMMA QueueInit ==
  ASSUME HintTrains # {} => MinGap # 0
  PROVE  Scheduler!Init => QueueInv
<1> SUFFICES ASSUME Scheduler!Init PROVE QueueInv
  OBVIOUS
<1> USE SchedulerPeriods
<1>1. /\ touch = Scheduler!Empty /\ gap = [t \in HintTrains |-> MinGap]
      /\ quiet = [t \in HintTrains |-> 0]
  BY DEF Scheduler!Init
<1>2. GapInv
  BY <1>1 DEF GapInv, Scheduler!Empty
<1>3. PassedInv
  <2> SUFFICES ASSUME NEW t \in HintTrains, NEW k \in Nat, 0 + 1 = MinGap + k
               PROVE  MaxPerFlush * k <= Cardinality(Passed(t, k))
    BY <1>1 DEF PassedInv
  <2>1. k = 0
    OBVIOUS
  <2> QED
    BY <2>1, PassedCount
<1> QED
  BY <1>2, <1>3 DEF QueueInv

(* A round that leaves a ready hint behind releases MaxPerFlush others,    *)
(* which were not among those of the last rounds: these are within their   *)
(* own gap.                                                                *)
LEMMA RoundPasses ==
  ASSUME QueueInv, Cardinality(HintTrains) <= MinGap * MaxPerFlush,
         NEW due \in SUBSET HintTrains, NEW t \in HintTrains, NEW k \in Nat,
         gap' = [u \in HintTrains |->
                   IF u \in due THEN 0 ELSE Scheduler!Aged(gap, MinGap)[u]],
         \A u \in due : Scheduler!Aged(gap, MinGap)[u] = MinGap,
         MaxPerFlush <= Cardinality({u \in due : u < t}),
         quiet[t] + 1 = MinGap + k
  PROVE  MaxPerFlush * (k + 1) <= Cardinality(Passed(t, k + 1)')
<1> DEFINE before == {u \in due : u < t}
<1> USE SchedulerPeriods
<1>1. /\ MaxPerFlush * k <= Cardinality(HintTrains) - 1
      /\ Cardinality(HintTrains) \in Nat
  BY PassedFew
<1>2. k < MinGap
  <2>1. MaxPerFlush * k < Cardinality(HintTrains)
    <3>1. MaxPerFlush * k \in Nat
      OBVIOUS
    <3> QED
      BY <1>1, <3>1
  <2> QED
    BY <1>1, <2>1, FewRounds
<1>3. /\ gap \in [HintTrains -> 0 .. MinGap]
      /\ \A u \in HintTrains :
           Scheduler!Aged(gap, MinGap)[u] =
             IF gap[u] < MinGap THEN gap[u] + 1 ELSE MinGap
  BY DEF QueueInv, GapInv, Scheduler!Aged
<1>4. Passed(t, k) \cap before = {}
  <2> SUFFICES ASSUME NEW u \in due, u < t, gap[u] < k PROVE FALSE
    BY DEF Passed
  <2>1. gap[u] \in Nat /\ gap[u] + 1 = MinGap
    BY <1>2, <1>3
  <2> QED
    BY <1>2, <2>1
<1>5. Passed(t, k) \cup before \subseteq Passed(t, k + 1)'
  <2>1. ASSUME NEW u \in before PROVE u \in Passed(t, k + 1)'
    <3>1. gap'[u] = 0 /\ 0 < k + 1
      OBVIOUS
    <3> QED
      BY <3>1 DEF Passed
  <2>2. ASSUME NEW u \in Passed(t, k) PROVE u \in Passed(t, k + 1)'
    <3>1. u \in HintTrains /\ u < t /\ gap[u] < k /\ gap[u] \in Nat
      BY <1>3 DEF Passed
    <3>2. Scheduler!Aged(gap, MinGap)[u] = gap[u] + 1
      BY <1>2, <1>3, <3>1
    <3>3. gap'[u] < k + 1
      BY <3>1, <3>2
    <3> QED
      BY <3>1, <3>3 DEF Passed
  <2> QED
    BY <2>1, <2>2
<1>6. /\ IsFiniteSet(before) /\ Cardinality(before) \in Nat
      /\ IsFiniteSet(Passed(t, k)) /\ Cardinality(Passed(t, k)) \in Nat
      /\ IsFiniteSet(Passed(t, k + 1)') /\ Cardinality(Passed(t, k + 1)') \in Nat
  BY PassedCount, FS_Subset, FS_CardinalityType
<1> HIDE DEF before
<1>7. Cardinality(Passed(t, k) \cup before)
        = Cardinality(Passed(t, k)) + Cardinality(before)
  <2>1. Cardinality(Passed(t, k) \cup before)
          = Cardinality(Passed(t, k)) + Cardinality(before)
              - Cardinality(Passed(t, k) \cap before)
    BY <1>6, FS_Union
  <2>2. Cardinality(Passed(t, k) \cap before) = 0
    BY <1>4, FS_EmptySet
  <2> QED
    BY <1>6, <2>1, <2>2
<1>8. Cardinality(Passed(t, k) \cup before) <= Cardinality(Passed(t, k + 1)')
  BY <1>5, <1>6, FS_Subset
<1>9. MaxPerFlush * k <= Cardinality(Passed(t, k))
  BY DEF QueueInv, PassedInv
<1>10. MaxPerFlush <= Cardinality(before)
  BY DEF before
<1>11. MaxPerFlush * (k + 1) = MaxPerFlush * k + MaxPerFlush
  OBVIOUS
<1>12. MaxPerFlush * k \in Nat
  OBVIOUS
<1> QED
  BY <1>6, <1>7, <1>8, <1>9, <1>10, <1>11, <1>12

LEMMA QueueFlush ==
  ASSUME QueueInv, Cardinality(HintTrains) <= MinGap * MaxPerFlush,
         HintTrains # {} => MinGap # 0, Scheduler!Flush
  PROVE  QueueInv'
<1> USE SchedulerPeriods
<1> DEFINE ages == Scheduler!Aged(touch, Debounce)
           gaps == Scheduler!Aged(gap, MinGap)
           due == Scheduler!First(Scheduler!Ready(ages, gaps))
<1>1. /\ DOMAIN touch' \subseteq DOMAIN touch
      /\ gap' = [t \in HintTrains |-> IF t \in due THEN 0 ELSE gaps[t]]
      /\ quiet' = [t \in HintTrains |-> IF t \in Scheduler!Quiet(ages) \ due
                                        THEN Scheduler!More(quiet[t]) ELSE 0]
  BY DEF Scheduler!Flush, Scheduler!Restrict, Scheduler!Aged
<1>2. Scheduler!Ready(ages, gaps) \subseteq HintTrains
  BY DEF Scheduler!Ready, Scheduler!Quiet, Scheduler!Aged, QueueInv, GapInv
<1>3. /\ due \subseteq HintTrains
      /\ \A t \in due : gaps[t] = MinGap
  BY <1>2 DEF Scheduler!First, Scheduler!Ready
<1>4. ASSUME NEW t \in HintTrains
      PROVE  gaps[t] = IF gap[t] < MinGap THEN gap[t] + 1 ELSE MinGap
  BY DEF Scheduler!Aged, QueueInv, GapInv
<1>5. /\ DOMAIN touch \subseteq HintTrains
      /\ gap \in [HintTrains -> 0 .. MinGap] /\ quiet \in [HintTrains -> Nat]
      /\ \A t \in HintTrains : quiet[t] <= gap[t] \/ gap[t] = MinGap
  BY DEF QueueInv, GapInv
<1>6. ASSUME NEW t \in HintTrains PROVE Scheduler!More(quiet[t]) = quiet[t] + 1
  BY QueuePatient DEF Scheduler!HintReleased, Scheduler!More
<1>7. ASSUME NEW t \in Scheduler!Quiet(ages) \ due, gaps[t] = MinGap
      PROVE  MaxPerFlush <= Cardinality({u \in due : u < t})
  <2>1. t \in Scheduler!Ready(ages, gaps)
    BY <1>7 DEF Scheduler!Ready
  <2> QED
    BY <1>2, <2>1, FirstBefore
<1> HIDE DEF due, gaps, ages
<1>8. GapInv'
  <2>1. gap' \in [HintTrains -> 0 .. MinGap]
    BY <1>1, <1>4, <1>5
  <2>2. quiet' \in [HintTrains -> Nat]
    BY <1>1, <1>5, <1>6
  <2>3. ASSUME NEW t \in HintTrains PROVE quiet'[t] <= gap'[t] \/ gap'[t] = MinGap
    <3>1. CASE t \in Scheduler!Quiet(ages) \ due
      <4>1. quiet'[t] = quiet[t] + 1 /\ gap'[t] = gaps[t]
        BY <1>1, <1>6, <3>1
      <4> QED
        BY <1>4, <1>5, <4>1
    <3>2. CASE t \notin Scheduler!Quiet(ages) \ due
      <4>1. quiet'[t] = 0 /\ gap'[t] \in Nat
        BY <1>1, <2>1, <3>2
      <4> QED
        BY <4>1
    <3> QED
      BY <3>1, <3>2
  <2> QED
    BY <1>1, <1>5, <2>1, <2>2, <2>3 DEF GapInv
<1>9. ASSUME NEW t \in HintTrains, NEW k \in Nat, quiet'[t] + 1 = MinGap + k
      PROVE  MaxPerFlush * k <= Cardinality(Passed(t, k)')
  <2>1. CASE k = 0
    BY <2>1, PassedCount
  <2>2. CASE k # 0
    <3>1. MinGap # 0 /\ quiet'[t] # 0
      BY <1>9, <2>2
    <3>2. t \in Scheduler!Quiet(ages) \ due /\ quiet'[t] = quiet[t] + 1
      BY <1>1, <1>6, <3>1
    <3> DEFINE j == k - 1
    <3>3. j \in Nat /\ k = j + 1 /\ quiet[t] + 1 = MinGap + j
      BY <1>5, <1>9, <2>2, <3>2
    <3> HIDE DEF j
    <3>4. gaps[t] = MinGap
      BY <1>4, <1>5, <3>3
    <3>5. MaxPerFlush <= Cardinality({u \in due : u < t})
      BY <1>7, <3>2, <3>4
    <3>6. MaxPerFlush * (j + 1) <= Cardinality(Passed(t, j + 1)')
      BY <1>1, <1>3, <3>3, <3>5, RoundPasses DEF gaps
    <3> QED
      BY <3>3, <3>6
  <2> QED
    BY <2>1, <2>2
<1>10. PassedInv'
  BY <1>9 DEF PassedInv
<1> QED
  BY <1>8, <1>10 DEF QueueInv

(* Only a round releases hints; a request restarts a train's wait.         *)
LEMMA QueueStep ==
  ASSUME QueueInv, Cardinality(HintTrains) <= MinGap * MaxPerFlush,
         HintTrains # {} => MinGap # 0, [Scheduler!Next]_(Scheduler!vars)
  PROVE  QueueInv'
<1> USE SchedulerPeriods
<1>1. CASE Scheduler!Flush
  BY <1>1, QueueFlush
<1>2. ASSUME NEW x \in HintTrains, Scheduler!EnqueueTrain(x) PROVE QueueInv'
  <2>1. /\ DOMAIN touch' = DOMAIN touch \cup {x} /\ gap' = gap
        /\ quiet' = [quiet EXCEPT ![x] = 0]
    BY <1>2 DEF Scheduler!EnqueueTrain, Scheduler!Touched
  <2>2. GapInv /\ PassedInv
    BY DEF QueueInv
  <2>3. GapInv'
    <3>1. ASSUME NEW t \in HintTrains PROVE quiet'[t] <= gap[t] \/ gap[t] = MinGap
      BY <2>1, <2>2 DEF GapInv
    <3>2. quiet' \in [HintTrains -> Nat]
      BY <2>1, <2>2 DEF GapInv
    <3> QED
      BY <2>1, <2>2, <3>1, <3>2 DEF GapInv
  <2>4. ASSUME NEW t \in HintTrains, NEW k \in Nat, quiet'[t] + 1 = MinGap + k
        PROVE  MaxPerFlush * k <= Cardinality(Passed(t, k)')
    <3>1. Passed(t, k)' = Passed(t, k)
      BY <2>1 DEF Passed
    <3>2. CASE t = x
      <4>1. quiet'[t] = 0
        BY <2>1, <2>2, <3>2 DEF GapInv
      <4>2. k = 0
        BY <2>4, <4>1
      <4> QED
        BY <4>2, PassedCount
    <3>3. CASE t # x
      <4>1. quiet'[t] = quiet[t]
        BY <2>1, <2>2, <3>3 DEF GapInv
      <4> QED
        BY <2>2, <2>4, <3>1, <4>1 DEF PassedInv
    <3> QED
      BY <3>2, <3>3
  <2>5. PassedInv'
    BY <2>4 DEF PassedInv
  <2> QED
    BY <2>3, <2>5 DEF QueueInv
<1>3. CASE \/ \E s \in HintStations : Scheduler!EnqueueStation(s)
           \/ Scheduler!WriteHints \/ Scheduler!ReadHints \/ UNCHANGED Scheduler!vars
  <2>1. touch' = touch /\ gap' = gap /\ quiet' = quiet
    BY <1>3 DEF Scheduler!EnqueueStation, Scheduler!WriteHints, Scheduler!ReadHints,
                Scheduler!vars
  <2> QED
    BY <2>1 DEF QueueInv, GapInv, PassedInv, Passed
<1> QED
  BY <1>1, <1>2, <1>3 DEF Scheduler!Next

LEMMA TracksIsScheduler ==
  TracksSpec => Scheduler!Init /\ [][Scheduler!Next]_(Scheduler!vars)
<1>1. TracksInit => Scheduler!Init
  BY DEF TracksInit
<1>2. [TracksNext]_<<part, vars, schedulerVars, fetcherVars, boardsVars, surveyVars>>
        => [Scheduler!Next]_(Scheduler!vars)
  BY DEF TracksNext, TokenStep, SchedulerStep, FetcherStep, BoardsStep, SurveyStep,
         schedulerVars, Scheduler!vars
<1> QED
  BY <1>1, <1>2, PTL DEF TracksSpec

(* A quiet hint is released within the gap of its own train and the rounds *)
(* the other trains take, whatever is requested meanwhile, if not more     *)
(* trains are named than can be released within a gap.                     *)
THEOREM HintAlwaysReleased ==
  ASSUME Cardinality(HintTrains) <= MinGap * MaxPerFlush
  PROVE  TracksSpec => []HintReleased
<1>1. HintTrains # {} => MinGap # 0
  <2> SUFFICES ASSUME HintTrains # {}, MinGap = 0 PROVE FALSE
    OBVIOUS
  <2>1. MinGap * MaxPerFlush = 0
    BY SchedulerPeriods
  <2>2. Cardinality(HintTrains) = 0
    BY <2>1, HintsCount
  <2> QED
    BY <2>2, SchedulerPeriods, FS_EmptySet
<1>2. Scheduler!Init => QueueInv
  BY <1>1, QueueInit
<1>3. QueueInv /\ [Scheduler!Next]_(Scheduler!vars) => QueueInv'
  BY <1>1, QueueStep
<1>4. QueueInv => HintReleased
  BY QueuePatient DEF HintReleased
<1> QED
  BY TracksIsScheduler, <1>2, <1>3, <1>4, PTL

=============================================================================
