-------------------------- MODULE MCStateTermination --------------------------
(* An instance of the investigation graph under both kinds of check for TLC. *)
EXTENDS StateTermination

CONSTANTS h1, h2, h3, h4

MCHyp == {h1, h2, h3, h4}
MCIds == <<h1, h2, h3, h4>>

\* Each budget at zero, at its first value and beyond, with and without a human.
MCLimits == [maxIterations : 0..2, llmCallBudget : {0, 4, 9},
             reserved : {0, 1, 2, 3}, humanReview : BOOLEAN]

MCProductLimits == [maxIterations : {1}, llmCallBudget : {9}, reserved : 0..2,
                    humanReview : BOOLEAN]
=============================================================================
