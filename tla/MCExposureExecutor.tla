-------------------------- MODULE MCExposureExecutor --------------------------
(* Values of the constants of ExposureExecutor for model checking. *)
EXTENDS ExposureInvariant, TLC

CONSTANTS c1, c2, k1

\* Three requests of unequal bounds.
MCBound == (1 :> 1) @@ (2 :> 2) @@ (3 :> 1)

\* The commits agree on the protocol files.
SameContract == (c1 :> k1) @@ (c2 :> k1)
=============================================================================
