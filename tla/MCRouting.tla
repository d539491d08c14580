------------------------------ MODULE MCRouting ------------------------------
(* Two projects, one name a prefix of the other ("a" and "ab"), two route  *)
(* ids with several versions each: one version of r2 has a response       *)
(* template that does not parse, one of r1 a request template that does   *)
(* not parse.                                                             *)
EXTENDS Routing

MC_Projects == {<<"a">>, <<"a", "b">>}
\* Two projects neither of whose names is a prefix of the other.
MC_DisjointProjects == {<<"a">>, <<"b">>}
MC_GoodRoutes ==
    {[id |-> "r1", req |-> "t1", res |-> "none"],
     [id |-> "r1", req |-> "t2", res |-> "t1"],
     [id |-> "r2", req |-> "none", res |-> "t2"]}
MC_Routes == MC_GoodRoutes \cup {[id |-> "r2", req |-> "t1", res |-> "bad"],
                                 [id |-> "r1", req |-> "bad", res |-> "none"]}
====
