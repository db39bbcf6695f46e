--------------------------- MODULE MCStageExecutor ---------------------------
(* Values of the constants of StageExecutor for model checking. *)
EXTENDS StageInvariant, TLC

\* Three requests of unequal conservative cost; the dear one is not the first.
MCBound == (1 :> 1) @@ (2 :> 2) @@ (3 :> 1)

\* Two requests, for the temporal runs.
MCBound2 == (1 :> 1) @@ (2 :> 2)
=============================================================================
