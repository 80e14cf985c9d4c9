-------------------------- MODULE MCActionExecution --------------------------
(* Workers race on directly requested actions, with denials and faults.    *)
EXTENDS ActionExecution, TLC

CONSTANTS pa1, u1, w1, w2, w3

MCPoisoned == { <<pa1, "edit_then_confirm">> }
WorkerSymmetry == Permutations(Workers)
=============================================================================
