------------------------------ MODULE MCTracks ------------------------------
(* Tracks with two trains, two days of a third and one train-day surveyed. *)
EXTENDS Tracks, TLC

CONSTANTS a, b, s1, s2

(* Two trains of which one calls at two stations.                          *)
Calls == (a :> {[at |-> 7, station |-> s1], [at |-> 8, station |-> s2]})
         @@ (b :> {[at |-> 13, station |-> s1]})
Lookahead == [s \in {s1, s2} |-> 7]
Hot == [s \in {s1, s2} |-> 4]

Numbers == 1 .. 3
Days == <<3, 9>>

(* Documents of one train-day: the track on one side or on both, changed,  *)
(* stamped again, or gone.                                                 *)
Side(label, asOf) == [scheduled |-> 9, estimated |-> None, track |-> label,
                      asOf |-> asOf, canceled |-> FALSE]
Page(arrival, departure) == ("arrival" :> arrival) @@ ("departure" :> departure)
Shown == a :> {Page(None, Side(1, 1)), Page(None, Side(1, 3)),
               Page(None, Side(2, 3)), Page(None, Side(None, None)),
               Page(Side(1, 1), Side(2, 5))}
TrainDays == <<a>>
CallsAt == a :> s1

(* The survey's own defaults, and windows below and above them.            *)
Configured == {[before |-> 4, hot |-> 2], [before |-> 2, hot |-> 3],
               [before |-> 9, hot |-> 1]}

ASSUME Boards!Apart
=============================================================================
