-------------------------- MODULE ConfigPathParams --------------------------
(***************************************************************************)
(* extractPathParams of the sc config manager                              *)
(* (sc/managers/configman/helpers.go, lines 11-35): the operation, module, *)
(* type and resource name of a config URL                                  *)
(* /<version>/<api>/<module>/<type>[/<resource>].                          *)
(*                                                                         *)
(* A path is represented by its first character and by the segments        *)
(* strings.Split(urlPath[1:], "/") cuts the rest into; NoChar is the first *)
(* character of the empty path, on which urlPath[1:] panics.               *)
(***************************************************************************)
EXTENDS Naturals, Sequences

NoChar == "nochar"
\* The outcome of a slice or index out of range.
OutOfRange == [status |-> "panic"]
\* The error of a URL of the wrong length (lines 20-23).
InvalidURL == [status |-> "error"]

\* The result of lines 25-34 once arr passed the length check.  Lines 28,
\* 32 and 33 read arr[4] (for five segments), arr[2] and arr[3]; Go panics
\* on a zero-based index k that is not below len(arr).
Params(arr, op0) ==
    LET read == IF Len(arr) = 5 THEN {4, 2, 3} ELSE {2, 3}
    IN IF \E k \in read : k >= Len(arr) THEN OutOfRange
       ELSE [status |-> "ok",
             op |-> IF Len(arr) = 5 THEN "single" ELSE op0,
             module |-> arr[3], typeName |-> arr[4],
             resourceName |-> IF Len(arr) = 5 THEN arr[5] ELSE ""]

\* Mutant: the length check lets three segments through.
ExtractPathParamsShort(path, method) ==
    LET arr == path.rest
        op0 == IF method = "POST" THEN "single" ELSE "list"
    IN IF path.first = NoChar THEN OutOfRange
       ELSE IF Len(arr) > 5 \/ Len(arr) < 3 THEN InvalidURL
       ELSE Params(arr, op0)

(***************************************************************************)
(* The operation is "single" for a POST and "list" otherwise (lines 13-16);*)
(* urlPath[1:] panics on the empty path (line 19); a path of other than    *)
(* four or five segments is an error (lines 20-23); otherwise the indexed  *)
(* reads of lines 26-33 give the resource, module and type.                *)
(***************************************************************************)
ExtractPathParams(path, method) ==
    LET arr == path.rest
        op0 == IF method = "POST" THEN "single" ELSE "list"
    IN IF path.first = NoChar THEN OutOfRange
       ELSE IF Len(arr) > 5 \/ Len(arr) < 4 THEN InvalidURL
       ELSE Params(arr, op0)

(***************************************************************************)
(* The check at line 20 comes before every index of lines 26-33: on a path *)
(* that starts with "/" (every path net/http routes), extractPathParams   *)
(* never indexes the split segments out of range, whatever their number.   *)
(***************************************************************************)
PathParamsSafe(path, method) ==
    path.first = "/" => ExtractPathParams(path, method) # OutOfRange
====
