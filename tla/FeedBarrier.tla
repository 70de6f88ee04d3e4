---------------------------- MODULE FeedBarrier ----------------------------
(***************************************************************************)
(* What the three containers promise together (roles: "The public feed set *)
(* changes only after both decorations are on disk").  Each poll of the    *)
(* fleet is decorated independently by every decorator; the feed set shows *)
(* a poll only when all of them are done with it, and never goes back to   *)
(* an earlier poll.  Polls are numbered; 0 stands for no poll yet.         *)
(***************************************************************************)
EXTENDS Naturals

CONSTANT Decorators

VARIABLES
  decorated,   \* <<d, p>>: decorator d is done with poll p
  shown        \* the poll readers see

vars == <<decorated, shown>>

Init ==
  /\ decorated = {}
  /\ shown = 0

(* Decorators add to what they are done with and never take it back.       *)
Decorate ==
  /\ decorated \subseteq decorated'
  /\ UNCHANGED shown

(* A poll that every decorator is done with is shown, or shown again.      *)
Show ==
  /\ shown' >= shown
  /\ \A d \in Decorators : <<d, shown'>> \in decorated
  /\ UNCHANGED decorated

Next == Decorate \/ Show

Spec == Init /\ [][Next]_vars

=============================================================================
