--------------------------- MODULE MCAuditOutbox ---------------------------
(* Row 2 announces the first recovery; what announces the second is not    *)
(* among the rows.                                                         *)
EXTENDS AuditOutbox, TLC

CONSTANTS w1, w2, r1, r2

MCEnvelopesOf == [r \in Recoveries |-> IF r = r1 THEN {2} ELSE {}]
WorkerSymmetry == Permutations(Workers)
=============================================================================
