------------------------------ MODULE FeedSet ------------------------------
(***************************************************************************)
(* What the generation store promises the readers of its HTTP API.  There  *)
(* is one feed set.  It only ever moves to a later generation, in one      *)
(* step, and its artifacts can be fetched whenever it is named.  A restart *)
(* may interrupt the service but never takes the feed set back.            *)
(*                                                                         *)
(* Generations are positive numbers in the order of their publication      *)
(* attempts; 0 stands for "no generation yet".                             *)
(***************************************************************************)
EXTENDS Naturals

CONSTANT Gens          \* the identifiers of generations

VARIABLES
  feed,      \* the last feed set any reader could see
  online,    \* whether the store answers readers
  offered    \* the generations readers can fetch by identifier

vars == <<feed, online, offered>>

Init ==
  /\ feed = 0
  /\ online = FALSE
  /\ offered = {}

(* A complete later generation becomes fetchable before it is named.       *)
Offer(g) ==
  /\ online
  /\ g > feed
  /\ offered' = offered \cup {g}
  /\ UNCHANGED <<feed, online>>

(* The feed set moves to a later generation that can already be fetched.   *)
Advance(g) ==
  /\ online
  /\ g \in offered
  /\ g > feed
  /\ feed' = g
  /\ UNCHANGED <<online, offered>>

(* Retention withdraws a generation, never the one the feed set names.     *)
Withdraw(g) ==
  /\ online
  /\ g # feed
  /\ offered' = offered \ {g}
  /\ UNCHANGED <<feed, online>>

Stop ==
  /\ online' = FALSE
  /\ offered' = {}
  /\ UNCHANGED feed

(* Recovery resumes with the last feed set or a later one, never with an   *)
(* earlier one, and with nothing at all only if nothing was ever visible.  *)
Resume(g, kept) ==
  /\ ~online
  /\ g >= feed
  /\ g # 0 => g \in kept
  /\ feed' = g
  /\ online' = TRUE
  /\ offered' = kept

Next ==
  \/ \E g \in Gens : Offer(g) \/ Advance(g) \/ Withdraw(g)
  \/ Stop
  \/ \E g \in Gens \cup {0}, kept \in SUBSET Gens : Resume(g, kept)

Spec == Init /\ [][Next]_vars

=============================================================================
