--------------------------- MODULE MCTrackFetcher ---------------------------
(* TrackFetcher with one train that calls at one station, late in the run. *)
EXTENDS TrackFetcher

CONSTANTS a, s1

OneCall == [t \in Trains |-> {[at |-> 14, station |-> s1]}]
Lookahead == [s \in Stations |-> 12]
Hot == [s \in Stations |-> 2]
=============================================================================
