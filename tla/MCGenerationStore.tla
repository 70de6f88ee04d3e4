------------------------- MODULE MCGenerationStore -------------------------
(* GenerationStore on small volumes: the bounds are given in each .cfg.    *)
EXTENDS GenerationStore

Anywhere == {"idle"} \cup Opening \cup Passes \cup Writing
WhileIdle == {"idle"}
=============================================================================
