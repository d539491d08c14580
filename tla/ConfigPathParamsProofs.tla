----------------------- MODULE ConfigPathParamsProofs -----------------------
(***************************************************************************)
(* extractPathParams never indexes out of range, for every URL of any     *)
(* length and with any segments, and for every method: the bounded run    *)
(* "helpers" checks the same formula (PathParamsNoPanic) on paths of up to *)
(* six segments.                                                           *)
(***************************************************************************)
EXTENDS ConfigPathParams, TLAPS

\* The lengths the check at lines 19-23 lets through.
LEMMA FourOrFive ==
    ASSUME NEW n \in Nat
    PROVE  n \in {4, 5} <=> ~(n > 5 \/ n < 4)
OBVIOUS

(***************************************************************************)
(* On a path that starts with "/", the length check of line 20 rejects     *)
(* every URL too short for the reads of lines 26-33, so none of arr[2],    *)
(* arr[3] and, for five segments, arr[4] is out of range.                  *)
(***************************************************************************)
THEOREM ExtractPathParamsNoPanic ==
    ASSUME NEW Segments, NEW path, NEW method,
           path.rest \in Seq(Segments)
    PROVE  PathParamsSafe(path, method)
<1> SUFFICES ASSUME path.first = "/"
             PROVE  ExtractPathParams(path, method) # OutOfRange
    BY DEF PathParamsSafe
<1>1. path.first # NoChar
    BY DEF NoChar
<1>2. Len(path.rest) \in Nat
    OBVIOUS
<1>3. CASE Len(path.rest) \in {4, 5}
    <2>1. ~(Len(path.rest) > 5 \/ Len(path.rest) < 4)
        BY <1>2, <1>3, FourOrFive
    <2>2. \A k \in (IF Len(path.rest) = 5 THEN {4, 2, 3} ELSE {2, 3}) :
              ~(k >= Len(path.rest))
        BY <1>3
    <2>3. Params(path.rest, IF method = "POST" THEN "single" ELSE "list").status = "ok"
        BY <2>2 DEF Params
    <2>4. ExtractPathParams(path, method)
            = Params(path.rest, IF method = "POST" THEN "single" ELSE "list")
        BY <1>1, <2>1 DEF ExtractPathParams
    <2> QED
        BY <2>3, <2>4 DEF OutOfRange
<1>4. CASE Len(path.rest) \notin {4, 5}
    <2>1. Len(path.rest) > 5 \/ Len(path.rest) < 4
        BY <1>2, <1>4, FourOrFive
    <2>2. ExtractPathParams(path, method) = InvalidURL
        BY <1>1, <2>1 DEF ExtractPathParams
    <2> QED
        BY <2>2 DEF InvalidURL, OutOfRange
<1> QED
    BY <1>3, <1>4
=============================================================================
