------------------------- MODULE MCDataLoaderBatch -------------------------
(* A small collection for model checking DataLoaderBatch: three documents,  *)
(* two where clauses; d3 matches both clauses, so the merged result holds a *)
(* document shared by two keys, and the first document of the merged read  *)
(* matches only w1.                                                          *)
EXTENDS DataLoaderBatch

CONSTANTS d1, d2, d3, w1, w2

MC_Docs == {d1, d2, d3}
MC_Wheres == {w1, w2}
MC_DB == <<d1, d2, d3>>
MC_Match == {<<d1, w1>>, <<d2, w2>>, <<d3, w1>>, <<d3, w2>>}
=============================================================================
