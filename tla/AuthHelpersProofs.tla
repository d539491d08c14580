-------------------------- MODULE AuthHelpersProofs --------------------------
(***************************************************************************)
(* getPrimarySecret and verifyClaims meet their references for every list  *)
(* of secrets, every claim and every list of configured values: the run    *)
(* "helpers" checks the same formulas (PrimarySecretIsFirstPrimary,        *)
(* ClaimsReference) on lists of at most two elements.                      *)
(***************************************************************************)
EXTENDS MCHelpers, ConfigPathParamsProofs, LeastElement, TLAPS

(***************************************************************************)
(* For every list of secrets whose primary flags are Booleans,             *)
(* getPrimarySecret (lines 42-50) returns the first secret marked primary, *)
(* and the first secret when none is.                                      *)
(***************************************************************************)
THEOREM GetPrimarySecretFirst ==
    ASSUME NEW Secret, \A x \in Secret : x.primary \in BOOLEAN,
           NEW secrets \in Seq(Secret)
    PROVE  PrimarySecretFirst(secrets)
<1> SUFFICES ASSUME secrets # <<>> PROVE PrimarySecretFirst(secrets)
    BY DEF PrimarySecretFirst
<1> DEFINE I == {i \in 1..Len(secrets) : secrets[i].primary}
<1>1. Len(secrets) \in Nat /\ Len(secrets) >= 1 /\ DOMAIN secrets = 1..Len(secrets)
    OBVIOUS
<1>2. CASE I = {}
    <2>1. GetPrimarySecret(secrets) = secrets[1]
        BY <1>2 DEF GetPrimarySecret, FirstIndex, I
    <2>2. \A j \in DOMAIN secrets : ~secrets[j].primary
        BY <1>1, <1>2 DEF I
    <2> QED
        BY <1>1, <2>1, <2>2 DEF PrimarySecretFirst
<1>3. CASE I # {}
    <2>1. \E x \in I : \A y \in I : x <= y
        <3>1. I \in SUBSET Nat
            BY DEF I
        <3> QED
            BY <1>3, <3>1, NatHasLeast
    <2>2. PICK k \in I : \A j \in I : k <= j
        BY <2>1
    <2>3. k \in 1..Len(secrets) /\ secrets[k].primary
        BY <2>2 DEF I
    <2>4. FirstIndex(I) = k
        <3> DEFINE m == CHOOSE i \in I : \A j \in I : i <= j
        <3>1. m \in I /\ \A j \in I : m <= j
            BY <2>1 DEF m
        <3>2. m = k
            BY <2>2, <3>1, <1>1 DEF I
        <3> QED
            BY <1>3, <3>2 DEF FirstIndex, I, m
    <2>5. GetPrimarySecret(secrets) = secrets[k]
        <3>1. k # 0
            BY <2>3
        <3> QED
            BY <2>4, <3>1, Zenon DEF GetPrimarySecret
    <2>6. \A j \in 1..(k - 1) : ~secrets[j].primary
        <3> TAKE j \in 1..(k - 1)
        <3>1. j \in 1..Len(secrets) /\ j < k
            BY <2>3
        <3>2. j \notin I
            BY <2>2, <3>1
        <3> QED
            BY <3>1, <3>2 DEF I
    <2> QED
        BY <1>1, <2>3, <2>5, <2>6 DEF PrimarySecretFirst
<1> QED
    BY <1>2, <1>3

(***************************************************************************)
(* For every claim and every list of configured values, verifyClaims       *)
(* (lines 62-82) accepts a string claim or an array claim exactly when it, *)
(* or one of its elements, is a configured value, and returns the type     *)
(* error for a claim of any other type.                                    *)
(***************************************************************************)
THEOREM VerifyClaimsSound ==
    ASSUME NEW claim, NEW V, NEW configValues \in Seq(V),
           claim.type = "list" => \E E : claim.elems \in Seq(E)
    PROVE  ClaimsSound(claim, configValues)
<1>1. CASE claim.type = "string"
    BY <1>1 DEF ClaimsSound, VerifyClaims, Elems
<1>2. CASE claim.type = "list"
    BY <1>2 DEF ClaimsSound, VerifyClaims, Elems
<1>3. CASE claim.type \notin {"string", "list"}
    BY <1>3 DEF ClaimsSound, VerifyClaims
<1> QED
    BY <1>1, <1>2, <1>3
-----------------------------------------------------------------------------
(* The run "helpers": its invariants hold in every state of MCHelpers.     *)

\* A sequence of at most n elements of S is a sequence of S.
LEMMA BoundedSeqsAreSeqs ==
    ASSUME NEW S, NEW n \in Nat
    PROVE  BoundedSeqs(S, n) \subseteq Seq(S)
BY DEF BoundedSeqs

\* Every call the caller makes has arguments from the bounded sets.
CallOK == call \in Calls

LEMMA CallsInvariant == Spec => []CallOK
<1>1. Init => CallOK
  BY DEF Init, CallOK
<1>2. CallOK /\ [Next]_call => CallOK'
  BY DEF Next, CallOK
<1> QED
  BY <1>1, <1>2, PTL DEF Spec

(* PrimarySecretIsFirstPrimary: every list of secrets the run draws gets   *)
(* the first primary secret from getPrimarySecret.                         *)
THEOREM PrimarySecretIsFirstPrimaryHolds == Spec => []PrimarySecretIsFirstPrimary
<1>1. CallOK => PrimarySecretIsFirstPrimary
  <2> SUFFICES ASSUME CallOK, call.fn = "primary"
               PROVE  PrimarySecretFirst(call.secrets)
    BY DEF PrimarySecretIsFirstPrimary
  <2>1. call.secrets \in BoundedSeqs(Secrets, 2)
    BY DEF CallOK, Calls
  <2>2. call.secrets \in Seq(Secrets)
    BY <2>1, BoundedSeqsAreSeqs
  <2>3. \A x \in Secrets : x.primary \in BOOLEAN
    BY DEF Secrets
  <2> QED
    BY <2>2, <2>3, GetPrimarySecretFirst
<1> QED
  BY <1>1, CallsInvariant, PTL

(* ClaimsReference: verifyClaims agrees with the audience check on every    *)
(* claim and list of configured values the run draws.                      *)
THEOREM ClaimsReferenceHolds == Spec => []ClaimsReference
<1>1. CallOK => ClaimsReference
  <2> SUFFICES ASSUME CallOK, call.fn = "claims"
               PROVE  ClaimsSound(call.claim, call.configValues)
    BY DEF ClaimsReference
  <2>1. call.claim \in Claims /\ call.configValues \in BoundedSeqs({"a", "b"}, 2)
    BY DEF CallOK, Calls
  <2>2. call.configValues \in Seq({"a", "b"})
    BY <2>1, BoundedSeqsAreSeqs
  <2>3. call.claim.type = "list" => \E E : call.claim.elems \in Seq(E)
    <3> SUFFICES ASSUME call.claim.type = "list"
                 PROVE  call.claim.elems \in Seq({"a", "b", Num})
      OBVIOUS
    <3>1. call.claim.elems \in BoundedSeqs({"a", "b", Num}, 2)
      BY <2>1 DEF Claims
    <3> QED
      BY <3>1, BoundedSeqsAreSeqs
  <2> QED
    BY <2>2, <2>3, VerifyClaimsSound
<1> QED
  BY <1>1, CallsInvariant, PTL

(* PathParamsNoPanic: extractPathParams never indexes out of range on a   *)
(* path the run draws.                                                     *)
THEOREM PathParamsNoPanicHolds == Spec => []PathParamsNoPanic
<1>1. CallOK => PathParamsNoPanic
  <2> SUFFICES ASSUME CallOK, call.fn = "path"
               PROVE  PathParamsSafe(call.path, call.method)
    BY DEF PathParamsNoPanic
  <2>1. CASE call.path.first # "/"
    BY <2>1 DEF PathParamsSafe
  <2>2. CASE call.path.first = "/"
    <3>1. call.path \in Paths
      BY DEF CallOK, Calls
    <3>2. call.path.rest \in BoundedSeqs(Segments, 6)
      BY <2>2, <3>1 DEF Paths, NoChar
    <3>3. call.path.rest \in Seq(Segments)
      BY <3>2, BoundedSeqsAreSeqs
    <3> QED
      BY <3>3, ExtractPathParamsNoPanic
  <2> QED
    BY <2>1, <2>2
<1> QED
  BY <1>1, CallsInvariant, PTL
=============================================================================
