SPECIFICATION Spec

INVARIANT PrimarySecretIsFirstPrimary
INVARIANT ClaimsReference
INVARIANT PathParamsNoPanic
