--------------------------- MODULE MCReviewPipeline ---------------------------
(* Devices of one or two users, and the workers that execute.              *)
EXTENDS ReviewPipeline, TLC

CONSTANTS pa1, pa2, u1, u2, d1, d2, d3, w1, w2, x1, x2

OneUser == [d \in Devices |-> u1]
TwoUsers == [d \in Devices |-> IF d = d3 THEN u2 ELSE u1]
ActorIsFirst == [p \in ProposedActions |-> u1]
NoPoison == {}
EditsPoisoned == { <<p, "edit_then_confirm">> : p \in ProposedActions }
PipelineSymmetry == Permutations(Workers) \cup Permutations({x1, x2}) \cup Permutations({d1, d2})
=============================================================================
