----------------------- MODULE MCIntegrationHandlers -----------------------
(* Two concurrent requests, two integrations with two hooks each, an admin *)
(* token with every permission on "*" and a token scoped to integration i1 *)
(* and its hook h1 (reads of every hook of i1).                            *)
EXTENDS IntegrationHandlers

\* A rule of a token.
Rule(res, op, i, h) == [resource |-> res, op |-> op,
                        attrs |-> [integration |-> i, hook |-> h]]

MC_Rules ==
    [t \in {"admin", "scoped"} |->
        IF t = "admin"
        THEN {Rule(res, op, Star, Star) : res \in {"integration", "integration-hook"},
                                          op \in {"read", "modify"}}
        ELSE {Rule("integration", "modify", "i1", Star),
              Rule("integration", "read", "i1", Star),
              Rule("integration-hook", "modify", "i1", "h1"),
              Rule("integration-hook", "read", "i1", Star)}]
====
