----------------------- MODULE MCCounterfactualRunner -----------------------
(* Values of the constants of CounterfactualRunner for model checking. *)
EXTENDS CounterfactualRunner, TLC

CONSTANTS v1, v2, k1, k2

MCAdapterOf == (v1 :> "OpenAI") @@ (v2 :> "Gemini")
MCBound == (1 :> 1) @@ (2 :> 2)
\* The fixtures of the first protocol may cost more than is set aside for them;
\* the caps of the second do not add up.
MCHardCap == [h \in {k1, k2} |-> (v1 :> 3) @@ (v2 :> 3)]
MCFixtureCap == k1 :> 1 @@ k2 :> 1
MCFixtureTotalCap == k1 :> 1 @@ k2 :> 2
MCTotalCap == k1 :> 7 @@ k2 :> 3

MCReply == [end |-> "completed", alternatives |-> 1, texts |-> 1, thoughts |-> 0,
            object |-> TRUE, counted |-> TRUE, valid |-> TRUE]

\* Finished for one adapter, for the other with a thought or with two texts, and
\* an answer outside the contract.
MCReplies == {MCReply, [MCReply EXCEPT !.end = "STOP", !.texts = 2, !.thoughts = 1],
              [MCReply EXCEPT !.end = "STOP", !.texts = 2],
              [MCReply EXCEPT !.valid = FALSE]}

MCFaults == {Silent, Garbled, 500, 404}
=============================================================================
