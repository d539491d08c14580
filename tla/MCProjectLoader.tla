--------------------------- MODULE MCProjectLoader ---------------------------
(* Two projects, two configs that parse and one that does not, and three   *)
(* changes to the table: enough for a change to land before, during and    *)
(* after the feedData loop, and for an update to follow an insert.         *)
EXTENDS ProjectLoader
====
