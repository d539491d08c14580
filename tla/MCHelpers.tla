----------------------------- MODULE MCHelpers -----------------------------
(***************************************************************************)
(* A caller of the auth helpers and of extractPathParams: each step calls  *)
(* one of them with arguments drawn from small sets, and the invariants    *)
(* compare what it returns with what its callers rely on.                  *)
(***************************************************************************)
EXTENDS AuthHelpers, ConfigPathParams

\* The sequences of at most n elements of S.
BoundedSeqs(S, n) == UNION {[1..m -> S] : m \in 0..n}

\* Up to two secrets, with two key ids, both algorithms and either flag.
Secrets == [kid : {"k1", "k2"}, primary : BOOLEAN, alg : {"HS256", "RS256"},
            value : {"v"}]
\* String claims, array claims (whose elements may be numbers) and a claim
\* of another type, against up to two configured values.  Num is a JSON
\* number, which == never finds equal to a string.
Num == "number 1"
Claims == [type : {"string"}, str : {"a", "b"}]
          \cup [type : {"list"}, elems : BoundedSeqs({"a", "b", Num}, 2)]
          \cup [type : {"number"}]
\* Path segments, the empty one (between two slashes) among them.
EmptySegment == ""
Segments == {"v1", "m", EmptySegment}
\* Paths starting with "/" with up to six segments, and the empty path.
Paths == [first : {"/"}, rest : BoundedSeqs(Segments, 6) \ {<<>>}]
         \cup {[first |-> NoChar, rest |-> <<EmptySegment>>]}

Calls ==
    [fn : {"primary"}, secrets : BoundedSeqs(Secrets, 2)]
    \cup [fn : {"claims"}, claim : Claims, configValues : BoundedSeqs({"a", "b"}, 2)]
    \cup [fn : {"path"}, path : Paths, method : {"GET", "POST"}]

VARIABLE call

Init == call \in Calls
Next == call' \in Calls
Spec == Init /\ [][Next]_call

(***************************************************************************)
(* getPrimarySecret returns the first secret marked primary, and the first *)
(* secret when none is, so that tokens are always signed with the same key *)
(* while the configured order does not change.                             *)
(***************************************************************************)
PrimarySecretIsFirstPrimary ==
    call.fn = "primary" => PrimarySecretFirst(call.secrets)

(***************************************************************************)
(* verifyClaims accepts a claim exactly when the claim, or one element of  *)
(* an array claim, is among the configured values (the audience check of   *)
(* a JWT), and tells a claim of a third type apart.                        *)
(***************************************************************************)
ClaimsReference ==
    call.fn = "claims" => ClaimsSound(call.claim, call.configValues)

(***************************************************************************)
(* extractPathParams checks the number of segments (line 20) before it    *)
(* indexes them (lines 26-33): no path that starts with "/" makes it      *)
(* index out of range, whatever the number of segments.                   *)
(***************************************************************************)
PathParamsNoPanic ==
    call.fn = "path" => PathParamsSafe(call.path, call.method)
====
