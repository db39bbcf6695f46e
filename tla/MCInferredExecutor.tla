------------------------- MODULE MCInferredExecutor -------------------------
(* Values of the constants of InferredExecutor for model checking. *)
EXTENDS InferredInvariant, TLC

CONSTANTS k1, k2

\* Two cases, the second of them dearer; and three.
MCReserve == (1 :> 1) @@ (2 :> 2)
MCReserve3 == (1 :> 1) @@ (2 :> 2) @@ (3 :> 1)
=============================================================================
