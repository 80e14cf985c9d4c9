-------------------------- MODULE MCAgentSettings --------------------------
(* Two devices of one user, two model services: h1 is reached by its bare  *)
(* host, h2 speaks the other protocol below /v1 of a host that is typed    *)
(* bare or with the endpoint's own path.                                   *)
EXTENDS AgentSettings, TLC

MCBases == {[host |-> "h1", path |-> <<>>],
            [host |-> "h2", path |-> <<"v1", "messages">>]}
MCKeyInputs == {[bearer |-> FALSE, key |-> "k1"], [bearer |-> TRUE, key |-> "k2"],
                [bearer |-> TRUE, key |-> ""]}
MCSavedBefore == {[saved |-> TRUE, base |-> [host |-> "h1", path |-> <<>>], key |-> "k1",
                   model |-> "m1", protocol |-> "openai"]}
Symmetry == Permutations(Devices)
MCEnvBase == [host |-> "h1", path |-> <<"v1">>]
MCPreferred == [openai |-> <<"m1">>, anthropic |-> <<"c1">>]
MCService ==
    [b \in {[host |-> "h1", path |-> <<>>], [host |-> "h2", path |-> <<"v1">>]} |->
       IF b.host = "h1"
       THEN [protocol |-> "openai", keys |-> {"k1"}, models |-> <<"m2", "m1">>]
       ELSE [protocol |-> "anthropic", keys |-> {"k1", "k2"}, models |-> <<"c2", "s1">>]]
=============================================================================
