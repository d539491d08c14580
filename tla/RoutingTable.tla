---------------------------- MODULE RoutingTable ----------------------------
(***************************************************************************)
(* What the routing module promises its callers (the syncman config        *)
(* handlers), with the template map left out: a table of routes per        *)
(* project, replaced whole by a config whose templates all parse, or       *)
(* cleared, and a global config that a nil value does not overwrite.  Each *)
(* change is one atomic step.  Routing implements it (RoutesReplacedWhole).*)
(***************************************************************************)
CONSTANTS Projects, Routes, Tmpls, BadTmpls, GlobalConfigs

VARIABLES routes, globalConfig

\* A nil *config.GlobalRoutesConfig.
Nil == "nil"

\* A route whose templates are each empty or parse.
Parses(r) == r.req \notin BadTmpls /\ r.res \notin BadTmpls

\* The configs a project's routes may be replaced by: routes with distinct
\* ids, each of whose templates parses.
Accepted == {c \in SUBSET Routes :
               /\ \A r1, r2 \in c : r1.id = r2.id => r1 = r2
               /\ \A r \in c : Parses(r)}

Init ==
    /\ routes = [p \in Projects |-> {}]
    /\ globalConfig = Nil

Replace(p, c) ==
    /\ routes' = [routes EXCEPT ![p] = c]
    /\ UNCHANGED globalConfig

Clear(p) ==
    /\ routes' = [routes EXCEPT ![p] = {}]
    /\ UNCHANGED globalConfig

SetGlobal(gc) ==
    /\ gc # Nil
    /\ globalConfig' = gc
    /\ UNCHANGED routes

Next ==
    \/ \E p \in Projects, c \in Accepted : Replace(p, c)
    \/ \E p \in Projects : Clear(p)
    \/ \E gc \in GlobalConfigs : SetGlobal(gc)

Spec == Init /\ [][Next]_<<routes, globalConfig>>
====
