---------------------------- MODULE AuthHelpers ----------------------------
(***************************************************************************)
(* The helpers of the sc-poc auth module (sc-poc/modules/auth/helpers.go): *)
(* choosing the signing method and key of a secret, the primary secret and *)
(* the secret of a key id among the configured secrets, checking a claim   *)
(* against the configured values, and taking the bearer token from the     *)
(* Authorization header.                                                   *)
(*                                                                         *)
(* A claim is [type |-> "string", str], [type |-> "list", elems] or of   *)
(* another type.  A secret is a record [kid, primary, alg, value].  A      *)
(* header value is represented by the words strings.Split(value, " ")     *)
(* cuts it into, a sequence of words without spaces ("" between two       *)
(* spaces).                                                                *)
(***************************************************************************)
EXTENDS Naturals, Sequences

\* nil, the error of a slice index out of range, and the results of
\* verifyClaims.
Nil == "nil"
Panic == "panic"
Ok == "ok"
ErrType == "invalid type provided for claim in jwt token"
ErrVerify == "unable to verify claim of jwt token"

\* getSigninMethod, lines 13-22: RS256 for the RSA algorithms, HS256
\* otherwise.
GetSigninMethod(alg) ==
    IF alg \in {"RS256", "RS256_PUBLIC", "JWK_URL"} THEN "RS256" ELSE "HS256"

\* getSigningSecret and getVerifyingSecret, lines 24-40: the secret's value
\* for HS256, nil (no private or public key yet) for the others.
GetSigningSecret(s) == IF s.alg = "HS256" THEN s.value ELSE Nil
GetVerifyingSecret(s) == IF s.alg = "HS256" THEN s.value ELSE Nil

\* The index at which a loop "for _, s := range seq { if test(s) { return
\* s } }" returns, given the set I of indices whose element passes the
\* test: the least of them, 0 when the loop runs to the end.
FirstIndex(I) ==
    IF I = {} THEN 0 ELSE CHOOSE i \in I : \A j \in I : i <= j

\* Mutant: the loop keeps going and returns the last primary secret.
GetPrimarySecretLast(secrets) ==
    LET primaries == {i \in 1..Len(secrets) : secrets[i].primary}
    IN IF primaries # {}
       THEN secrets[CHOOSE i \in primaries : \A j \in primaries : j <= i]
       ELSE IF secrets # <<>> THEN secrets[1] ELSE Panic

\* getPrimarySecret, lines 42-50: the first secret marked primary, else
\* a.secrets[0], which panics when there is no secret.
GetPrimarySecret(secrets) ==
    LET i == FirstIndex({j \in 1..Len(secrets) : secrets[j].primary})
    IN IF i # 0 THEN secrets[i]
       ELSE IF secrets # <<>> THEN secrets[1] ELSE Panic

\* getSecretFromKID, lines 52-60: the first secret with the key id.
GetSecretFromKID(secrets, kid) ==
    LET i == FirstIndex({j \in 1..Len(secrets) : secrets[j].kid = kid})
    IN IF i # 0 THEN [secret |-> secrets[i], ok |-> TRUE]
       ELSE [secret |-> Nil, ok |-> FALSE]

\* Mutant: a list claim is compared on its first element only.
VerifyClaimsFirstOnly(claim, configValues) ==
    CASE claim.type = "string" ->
            IF \E i \in DOMAIN configValues : claim.str = configValues[i]
            THEN Ok ELSE ErrVerify
      [] claim.type = "list" ->
            IF claim.elems # <<>> /\ \E i \in DOMAIN configValues :
                                        claim.elems[1] = configValues[i]
            THEN Ok ELSE ErrVerify
      [] OTHER -> ErrType

(***************************************************************************)
(* verifyClaims, lines 62-82: a string claim must equal one of the         *)
(* configured values, an array claim must have an element equal to one of  *)
(* them; a claim of another type is an error of its own.  The loops return *)
(* on the first match.                                                     *)
(***************************************************************************)
VerifyClaims(claim, configValues) ==
    CASE claim.type = "string" ->
            IF \E i \in DOMAIN configValues : claim.str = configValues[i]
            THEN Ok ELSE ErrVerify
      [] claim.type = "list" ->
            IF \E j \in DOMAIN claim.elems, i \in DOMAIN configValues :
                  claim.elems[j] = configValues[i]
            THEN Ok ELSE ErrVerify
      [] OTHER -> ErrType

\* strings.ToLower on the words a header may hold.
Lower(w) == IF w \in {"Bearer", "BEARER", "bearer"} THEN "bearer" ELSE w

(***************************************************************************)
(* getTokenFromHeader, lines 84-97: header is r.Header["Authorization"],   *)
(* <<>> when the header is absent (then tokens = [""]).  The first value   *)
(* is split on spaces; a first word "bearer" in any case followed by a     *)
(* second word gives that word as the token.                               *)
(***************************************************************************)
GetTokenFromHeader(header) ==
    LET arr == IF header = <<>> THEN <<"">> ELSE header[1]
    IN IF Lower(arr[1]) = "bearer" /\ Len(arr) >= 2
       THEN [token |-> arr[2], ok |-> TRUE] ELSE [token |-> "", ok |-> FALSE]

\* The elements of a slice.
Elems(seq) == {seq[i] : i \in DOMAIN seq}

(***************************************************************************)
(* getPrimarySecret returns the first secret marked primary, and the first *)
(* secret when none is, so that tokens are always signed with the same key *)
(* while the configured order does not change.                             *)
(***************************************************************************)
PrimarySecretFirst(secrets) ==
    secrets # <<>> =>
        LET s == GetPrimarySecret(secrets)
        IN \E i \in DOMAIN secrets :
              /\ s = secrets[i]
              /\ \A j \in 1..(i - 1) : ~secrets[j].primary
              /\ s.primary \/ (i = 1 /\ \A j \in DOMAIN secrets :
                                          ~secrets[j].primary)

(***************************************************************************)
(* verifyClaims accepts a claim exactly when the claim, or one element of  *)
(* an array claim, is among the configured values (the audience check of   *)
(* a JWT), and tells a claim of a third type apart.                        *)
(***************************************************************************)
ClaimsSound(claim, configValues) ==
    LET values == CASE claim.type = "list" -> Elems(claim.elems)
                    [] claim.type = "string" -> {claim.str}
                    [] OTHER -> {}
    IN VerifyClaims(claim, configValues) =
          IF claim.type \notin {"string", "list"} THEN ErrType
          ELSE IF values \cap Elems(configValues) # {} THEN Ok
          ELSE ErrVerify
====
