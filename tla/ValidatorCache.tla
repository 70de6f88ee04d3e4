--------------------------- MODULE ValidatorCache ---------------------------
(***************************************************************************)
(* Fetching one static ZIP, src/static_gtfs.rs: the document is repaired,  *)
(* augmented with each platform table in turn, parsed and judged by the    *)
(* Java validator, and the repaired document itself is the last resort.    *)
(* CachedStaticValidator remembers the judgement of a ZIP by its digest in *)
(* a directory that survives the process.  The validator is a separate     *)
(* program, which may hang, exit early or leave no usable report.          *)
(***************************************************************************)
EXTENDS Naturals, Sequences, SequencesExt

CONSTANTS
  Docs,        \* the documents upstream may serve
  Tables,      \* the platform tables, in the order they are tried
  NoTable,     \* stands for the document without a table
  Flawed,      \* the ZIPs <<document, table>> whose report has ERROR notices
  Unusable,    \* the ZIPs that cannot be augmented or do not parse
  MaxEntries   \* bound: prune_validation_cache's MAX_ENTRIES (16 in the code)

(* To be assumed of the constants.                                          *)
ValidatorConstants ==
  /\ Tables \in Seq(Range(Tables)) /\ MaxEntries \in Nat
  /\ Docs # {}

Zips == Docs \X (Range(Tables) \cup {NoTable})
Decisions == {"accept", "reject"}

VARIABLES
  cache,     \* the directory: entries [zip, text], oldest first
  doc, left, \* the document being fetched, the tables still to try
  stage,     \* idle, or what fetch_static_at does with the head of left
  decision,  \* the answer of the validator about the current ZIP
  result     \* the last fetch: a ZIP, or "none", "failed"

vars == <<cache, doc, left, stage, decision, result>>

Init ==
  /\ cache = <<>> /\ doc \in Docs /\ left = <<>>
  /\ stage = "idle" /\ decision = "none" /\ result = <<"none">>

TypeOK ==
  /\ \A i \in DOMAIN cache :
       cache[i].zip \in Zips /\ cache[i].text \in Decisions \cup {"torn"}
  /\ doc \in Docs /\ Range(left) \subseteq Range(Tables) \cup {NoTable}
  /\ stage \in {"idle", "try", "validate", "store", "prune", "decide"}
  /\ decision \in Decisions \cup {"none", "error"}
  /\ result \in Zips \cup {<<"none">>, <<"failed">>}

----------------------------------------------------------------------------
(* The cache directory                                                     *)

zip == <<doc, Head(left)>>

(* read_cached_decision: a file with other contents decides nothing.       *)
Remembered(z) ==
  {cache[i].text : i \in {j \in DOMAIN cache : cache[j].zip = z}} \cap Decisions

(* write_cached_decision: a temporary file renamed over the entry, if the  *)
(* ZIP has one.                                                            *)
Stored(text) ==
  LET old == {i \in DOMAIN cache : cache[i].zip = zip}
      others == IF old = {} THEN cache ELSE RemoveAt(cache, CHOOSE i \in old : TRUE)
  IN  Append(others, [zip |-> zip, text |-> text])

(* prune_validation_cache: the oldest beyond MAX_ENTRIES go.               *)
Pruned ==
  IF Len(cache) <= MaxEntries THEN cache
  ELSE SubSeq(cache, Len(cache) - MaxEntries + 1, Len(cache))

----------------------------------------------------------------------------
(* The validator program                                                   *)

(* What a complete report says of the ZIP (validate_report).               *)
ReportOf(z) == IF z \in Flawed THEN "reject" ELSE "accept"

(* validator_outcome: a report decides whatever became of the program; one *)
(* that is missing or malformed is an error, also after a clean exit.      *)
Outcome(report) == IF report = "complete" THEN ReportOf(zip) ELSE "error"

(* Mutant: whatever the validator does not accept is remembered.           *)
CacheableAll(answer) == TRUE

(* cacheable_feed_rejection: accepted, or rejected by a report.            *)
Cacheable(answer) == answer \in Decisions

----------------------------------------------------------------------------
(* fetch_static_at                                                         *)

Fetch ==
  /\ stage = "idle" /\ stage' = "try"
  /\ doc' \in Docs /\ left' = Append(Tables, NoTable)
  /\ result' = <<"none">> /\ UNCHANGED <<cache, decision>>

(* Mutant: a validator that does not answer ends the fetch.                *)
NextTableUnlessError ==
  IF Len(left) > 1 /\ decision # "error"
  THEN stage' = "try" /\ left' = Tail(left) /\ UNCHANGED result
  ELSE stage' = "idle" /\ left' = <<>> /\ result' = <<"failed">>

(* augmented_snapshot returned None: the next table, at last the document  *)
(* itself, whose failure is the failure of the fetch.                      *)
NextTable ==
  IF Len(left) > 1
  THEN stage' = "try" /\ left' = Tail(left) /\ UNCHANGED result
  ELSE stage' = "idle" /\ left' = <<>> /\ result' = <<"failed">>

(* augment_static, snapshot_from_bytes.                                    *)
Augment ==
  /\ stage = "try"
  /\ IF zip \in Unusable THEN NextTable
     ELSE stage' = "validate" /\ UNCHANGED <<left, result>>
  /\ decision' = "none" /\ UNCHANGED <<cache, doc>>

CacheHit ==
  /\ stage = "validate" /\ stage' = "decide"
  /\ Remembered(zip) # {} /\ decision' \in Remembered(zip)
  /\ UNCHANGED <<cache, doc, left, result>>

(* validate_with_mobility_data: the program exits, is killed at its        *)
(* deadline or never starts, with a report that is complete, cut or none.  *)
RunValidator ==
  /\ stage = "validate" /\ Remembered(zip) = {}
  /\ \E report \in {"complete", "malformed", "missing"} : decision' = Outcome(report)
  /\ stage' = IF Cacheable(decision') THEN "store" ELSE "decide"
  /\ UNCHANGED <<cache, doc, left, result>>

StoreDecision ==
  /\ stage = "store" /\ stage' = "prune"
  /\ cache' = Stored(IF decision = "accept" THEN "accept" ELSE "reject")
  /\ UNCHANGED <<doc, left, decision, result>>

(* The result of write_cached_decision is ignored.                         *)
StoreFails ==
  /\ stage = "store" /\ stage' = "decide"
  /\ UNCHANGED <<cache, doc, left, decision, result>>

Prune ==
  /\ stage = "prune" /\ stage' = "decide" /\ cache' = Pruned
  /\ UNCHANGED <<doc, left, decision, result>>

Accept ==
  /\ stage = "decide" /\ decision = "accept"
  /\ result' = zip /\ stage' = "idle" /\ left' = <<>>
  /\ UNCHANGED <<cache, doc, decision>>

Reject ==
  /\ stage = "decide" /\ decision # "accept" /\ NextTable
  /\ UNCHANGED <<cache, doc, decision>>

(* The entries are not synced: a loss of power may leave the newest empty. *)
Crash ==
  /\ stage # "idle" /\ stage' = "idle" /\ left' = <<>>
  /\ decision' = "none" /\ result' = <<"none">> /\ UNCHANGED doc
  /\ \/ UNCHANGED cache
     \/ cache # <<>> /\ cache' = [cache EXCEPT ![Len(cache)].text = "torn"]

Next ==
  \/ Fetch \/ Augment \/ CacheHit \/ RunValidator \/ StoreDecision \/ StoreFails
  \/ Prune \/ Accept \/ Reject \/ Crash

Spec == Init /\ [][Next]_vars

----------------------------------------------------------------------------
(* Properties                                                              *)

(* The cache tells the truth: whatever the program did, was killed by or   *)
(* left behind, a decision that can be read back is the one a complete     *)
(* report on those bytes gives - a rejection remembered from a timeout     *)
(* would keep a good schedule out for as long as it is served              *)
(* (CachedStaticValidator::validate and validator_outcome).                *)
CacheTruthful == \A z \in Zips : Remembered(z) \subseteq {ReportOf(z)}

(* Tracks never block the schedule: a fetch of a document whose own bytes  *)
(* are remembered as accepted does not fail, whichever tables there are    *)
(* and however often the validator, the disk or the process fails          *)
(* (fetch_static: "enabling tracks can never block static publication").   *)
RememberedServed ==
  [][(stage = "decide" /\ result # result' /\ result' = <<"failed">>)
       => "accept" \notin Remembered(<<doc, NoTable>>)]_vars
=============================================================================
