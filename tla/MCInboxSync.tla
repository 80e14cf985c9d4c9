----------------------------- MODULE MCInboxSync -----------------------------
(* Two devices of one user.  The page holds one item: pa2 comes before the *)
(* first version of pa1 and after the second.                              *)
EXTENDS InboxSync

CONSTANTS pa1, pa2, u1, d1, d2

OneUser == [d \in Devices |-> u1]
ActorIsUser == [p \in ProposedActions |-> u1]
LoadsOf == [d \in Devices |-> IF d = d1 THEN 2 ELSE 1]
SourcesOf == [p \in ProposedActions |-> IF p = pa1 THEN 2 ELSE 1]
KeyBySource ==
    [p \in ProposedActions |-> [s \in 0 .. MaxSource |-> IF p = pa1 THEN 2 * s ELSE 3 * s]]
=============================================================================
