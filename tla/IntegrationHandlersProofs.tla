----------------------- MODULE IntegrationHandlersProofs -----------------------
(***************************************************************************)
(* Proof that the integration handlers change the registry only with the   *)
(* permission of the object changed, for every set of tokens, rules,       *)
(* integrations and hooks.                                                 *)
(***************************************************************************)
EXTENDS IntegrationHandlers, TLAPS

\* The permission handler h asks IsTokenValid for, for request q.
Allowed(q) ==
    IsTokenValid(q.token, HandlerTable[q.handler].resource,
                 HandlerTable[q.handler].op, Attrs(q))

(* The invariant: every request that reached its syncman call, other than  *)
(* one for the integration's tokens, passed the token check.               *)
AInv ==
    /\ req \in [Reqs -> Requests]
    /\ pc \in [Reqs -> {"decode", "auth", "call", "done"}]
    /\ status \in [Reqs -> Nat]
    /\ \A i \in Reqs :
          pc[i] = "call" /\ req[i].handler # "HandleGetIntegrationTokens"
              => Allowed(req[i])

LEMMA AInvInit == Init => AInv
BY DEF Init, AInv, FirstStep

\* Every step preserves the invariant: one case per step of a request.
LEMMA AInvStep == AInv /\ [Next]_vars => AInv'
<1> SUFFICES ASSUME AInv, [Next]_vars PROVE AInv'
  OBVIOUS
<1>1. ASSUME NEW i \in Reqs, DecodeBody(i) PROVE AInv'
  BY <1>1 DEF DecodeBody, AInv, Respond
<1>2. ASSUME NEW i \in Reqs, ValidateToken(i) PROVE AInv'
  BY <1>2 DEF ValidateToken, AInv, Respond, Allowed
<1>3. ASSUME NEW i \in Reqs, CallSucceeds(i) PROVE AInv'
  BY <1>3 DEF CallSucceeds, AInv, Respond
<1>4. ASSUME NEW i \in Reqs, CallFails(i) PROVE AInv'
  BY <1>4 DEF CallFails, AInv, Respond
<1>5. CASE UNCHANGED vars
  BY <1>5 DEF vars, AInv, Allowed
<1>. QED  BY <1>1, <1>2, <1>3, <1>4, <1>5 DEF Next

THEOREM AInvHolds == Spec => []AInv
BY AInvInit, AInvStep, PTL DEF Spec

-----------------------------------------------------------------------------
(* A successful syncman call changes only the object its request names.    *)

\* The body of ModifiedOnlyWhenGranted for the step of request i.
GrantedStep(i) ==
    /\ pc[i] = "call" /\ status'[i] = 200
    /\ \A x \in (integrations \ integrations') \cup (integrations' \ integrations) :
          MayModifyIntegration(req[i].token, x)
    /\ \A x \in (hooks \ hooks') \cup (hooks' \ hooks) :
          MayModifyHook(req[i].token, x[1], x[2])

LEMMA CallGranted ==
    ASSUME AInv, NEW i \in Reqs, CallSucceeds(i)
    PROVE  GrantedStep(i)
<1> DEFINE q == req[i]
<1>1. q \in Requests /\ pc[i] = "call" /\ status'[i] = 200
  BY DEF CallSucceeds, AInv, Respond
<1>0. q.handler # "HandleGetIntegrationTokens" => Allowed(q)
  BY <1>1 DEF AInv
<1>2. CASE q.handler \in {"HandlePostIntegration", "HandleDeleteIntegration"}
  <2>0. /\ HandlerTable[q.handler].resource = "integration"
        /\ HandlerTable[q.handler].op = "modify"
        /\ Attrs(q) = [integration |-> q.integration]
    BY <1>2 DEF HandlerTable, Attrs
  <2>1. MayModifyIntegration(q.token, q.integration)
    BY <1>0, <1>2, <2>0 DEF Allowed, MayModifyIntegration
  <2>2. UNCHANGED hooks
        /\ (integrations \ integrations') \cup (integrations' \ integrations)
             \subseteq {q.integration}
    BY <1>2 DEF CallSucceeds, Apply
  <2>. QED  BY <1>1, <2>1, <2>2 DEF GrantedStep
<1>3. CASE q.handler \in {"HandleAddIntegrationHook", "HandleDeleteIntegrationHook"}
  <2>0. /\ HandlerTable[q.handler].resource = "integration-hook"
        /\ HandlerTable[q.handler].op = "modify"
        /\ Attrs(q) = [integration |-> q.integration, hook |-> q.hook]
    BY <1>3 DEF HandlerTable, Attrs
  <2>1. MayModifyHook(q.token, q.integration, q.hook)
    BY <1>0, <1>3, <2>0 DEF Allowed, MayModifyHook
  <2>2. UNCHANGED integrations
        /\ (hooks \ hooks') \cup (hooks' \ hooks) \subseteq {<<q.integration, q.hook>>}
    BY <1>3 DEF CallSucceeds, Apply
  <2>. QED  BY <1>1, <2>1, <2>2 DEF GrantedStep
<1>4. CASE q.handler \notin {"HandlePostIntegration", "HandleDeleteIntegration",
                            "HandleAddIntegrationHook", "HandleDeleteIntegrationHook"}
  <2>1. UNCHANGED <<integrations, hooks>>
    BY <1>4 DEF CallSucceeds, Apply
  <2>. QED  BY <1>1, <2>1 DEF GrantedStep
<1>. QED  BY <1>2, <1>3, <1>4

(***************************************************************************)
(* For every set of tokens, rules, integrations and hooks, every change to *)
(* the registry is made by a request whose token may modify exactly the    *)
(* integration or hook that changed.                                       *)
(***************************************************************************)
THEOREM ModifiedOnlyWhenGrantedHolds == Spec => ModifiedOnlyWhenGranted
<1>1. AInv /\ [Next]_vars =>
        [\E i \in Reqs : GrantedStep(i)]_<<integrations, hooks>>
  <2> SUFFICES ASSUME AInv, [Next]_vars
               PROVE  [\E i \in Reqs : GrantedStep(i)]_<<integrations, hooks>>
    OBVIOUS
  <2>1. ASSUME NEW i \in Reqs, CallSucceeds(i)
        PROVE  \E j \in Reqs : GrantedStep(j)
    BY <2>1, CallGranted
  <2>2. ASSUME NEW i \in Reqs, DecodeBody(i) \/ ValidateToken(i) \/ CallFails(i)
        PROVE  UNCHANGED <<integrations, hooks>>
    BY <2>2 DEF DecodeBody, ValidateToken, CallFails
  <2>3. CASE UNCHANGED vars
    BY <2>3 DEF vars
  <2>. QED  BY <2>1, <2>2, <2>3 DEF Next
<1>. QED  BY <1>1, AInvHolds, PTL DEF Spec, ModifiedOnlyWhenGranted, GrantedStep

-----------------------------------------------------------------------------
(* Type correctness, and listings answer only what their token may read.  *)

LEMMA TypeOKInit == Init => TypeOK
BY DEF Init, TypeOK, FirstStep

\* The registry change of a syncman call keeps the registry typed.
LEMMA ApplyTyped ==
    ASSUME TypeOK, NEW q \in Requests, Apply(q)
    PROVE  /\ integrations' \subseteq Ids
           /\ hooks' \subseteq Ids \X (Hooks \cup {NoId})
BY DEF TypeOK, Apply, Requests, Ids

LEMMA TypeOKStep == TypeOK /\ [Next]_vars => TypeOK'
<1> SUFFICES ASSUME TypeOK, [Next]_vars PROVE TypeOK'
  OBVIOUS
<1>1. ASSUME NEW i \in Reqs, DecodeBody(i) PROVE TypeOK'
  BY <1>1 DEF DecodeBody, TypeOK, Respond
<1>2. ASSUME NEW i \in Reqs, ValidateToken(i) PROVE TypeOK'
  BY <1>2 DEF ValidateToken, TypeOK, Respond
<1>3. ASSUME NEW i \in Reqs, CallSucceeds(i) PROVE TypeOK'
  <2>1. req[i] \in Requests /\ Apply(req[i])
    BY <1>3 DEF CallSucceeds, TypeOK
  <2>2. /\ integrations' \subseteq Ids
        /\ hooks' \subseteq Ids \X (Hooks \cup {NoId})
    BY <2>1, ApplyTyped
  <2>3. Listed(req[i]) \subseteq Ids \cup (Ids \X (Hooks \cup {NoId}))
    BY DEF Listed, TypeOK
  <2>. QED  BY <1>3, <2>2, <2>3 DEF CallSucceeds, TypeOK, Respond
<1>4. ASSUME NEW i \in Reqs, CallFails(i) PROVE TypeOK'
  BY <1>4 DEF CallFails, TypeOK, Respond
<1>5. CASE UNCHANGED vars
  BY <1>5 DEF vars, TypeOK
<1>. QED  BY <1>1, <1>2, <1>3, <1>4, <1>5 DEF Next

(***************************************************************************)
(* Every reachable state is well typed: the registry holds only ids a      *)
(* request can carry and every status is one a handler writes.             *)
(***************************************************************************)
THEOREM TypeCorrect == Spec => []TypeOK
BY TypeOKInit, TypeOKStep, PTL DEF Spec

(***************************************************************************)
(* What syncman lists for a request that passed its token check is         *)
(* readable by the token: the id left out is "*" in the attributes and in  *)
(* the filter alike, so a rule that lets "*" through lets every object     *)
(* through, and a rule naming one object matches only that object.        *)
(***************************************************************************)
LEMMA ListedReadable ==
    ASSUME NEW q \in Requests, Allowed(q)
    PROVE  /\ q.handler = "HandleGetIntegrations" =>
                 \A x \in Listed(q) : MayReadIntegration(q.token, x)
           /\ q.handler = "HandleGetIntegrationHooks" =>
                 \A x \in Listed(q) : MayReadHook(q.token, x[1], x[2])
<1>1. ASSUME q.handler = "HandleGetIntegrations", NEW x \in Listed(q)
      PROVE  MayReadIntegration(q.token, x)
  <2>1. /\ HandlerTable[q.handler].resource = "integration"
        /\ HandlerTable[q.handler].op = "read"
        /\ Attrs(q) = [integration |-> OrStar(q.integration)]
    BY <1>1 DEF HandlerTable, Attrs
  <2>2. OrStar(q.integration) \in {Star, x}
    BY <1>1 DEF Listed
  <2>3. PICK rule \in Rules[q.token] :
            /\ rule.resource = "integration" /\ rule.op = "read"
            /\ "integration" \in DOMAIN rule.attrs
            /\ rule.attrs["integration"] \in {Star, OrStar(q.integration)}
    BY <2>1 DEF Allowed, IsTokenValid
  <2>4. rule.attrs["integration"] \in {Star, x}
    BY <2>2, <2>3
  <2>. QED  BY <2>3, <2>4 DEF MayReadIntegration, IsTokenValid
<1>2. ASSUME q.handler = "HandleGetIntegrationHooks", NEW x \in Listed(q)
      PROVE  MayReadHook(q.token, x[1], x[2])
  <2>1. /\ HandlerTable[q.handler].resource = "integration-hook"
        /\ HandlerTable[q.handler].op = "read"
        /\ Attrs(q) = [integration |-> q.integration, hook |-> OrStar(q.hook)]
    BY <1>2 DEF HandlerTable, Attrs
  <2>2. x[1] = q.integration /\ OrStar(q.hook) \in {Star, x[2]}
    BY <1>2 DEF Listed
  <2>3. PICK rule \in Rules[q.token] :
            /\ rule.resource = "integration-hook" /\ rule.op = "read"
            /\ {"integration", "hook"} \subseteq DOMAIN rule.attrs
            /\ rule.attrs["integration"] \in {Star, q.integration}
            /\ rule.attrs["hook"] \in {Star, OrStar(q.hook)}
    BY <2>1 DEF Allowed, IsTokenValid
  <2>4. rule.attrs["hook"] \in {Star, x[2]}
    BY <2>2, <2>3
  <2>. QED  BY <2>2, <2>3, <2>4 DEF MayReadHook, IsTokenValid
<1>. QED  BY <1>1, <1>2

\* The inductive invariant of ListedOnlyWhenGranted.
LInv == AInv /\ ListedOnlyWhenGranted

LEMMA LInvStep == LInv /\ [Next]_vars => LInv'
<1> SUFFICES ASSUME LInv, [Next]_vars PROVE LInv'
  OBVIOUS
<1>1. AInv'
  BY AInvStep DEF LInv
<1>2. ASSUME NEW i \in Reqs, CallSucceeds(i) PROVE ListedOnlyWhenGranted'
  <2>1. req[i] \in Requests /\ pc[i] = "call"
    BY <1>2 DEF CallSucceeds, LInv, AInv
  <2>2. req[i].handler \in {"HandleGetIntegrations", "HandleGetIntegrationHooks"}
          => Allowed(req[i])
    BY <2>1 DEF LInv, AInv
  <2>3. /\ req[i].handler = "HandleGetIntegrations" =>
              \A x \in Listed(req[i]) : MayReadIntegration(req[i].token, x)
        /\ req[i].handler = "HandleGetIntegrationHooks" =>
              \A x \in Listed(req[i]) : MayReadHook(req[i].token, x[1], x[2])
    BY <2>1, <2>2, ListedReadable
  <2>. QED  BY <1>2, <2>3 DEF CallSucceeds, LInv, AInv, ListedOnlyWhenGranted
<1>3. ASSUME NEW i \in Reqs, DecodeBody(i) \/ ValidateToken(i) \/ CallFails(i)
      PROVE  ListedOnlyWhenGranted'
  BY <1>3 DEF DecodeBody, ValidateToken, CallFails, LInv, ListedOnlyWhenGranted
<1>4. CASE UNCHANGED vars
  BY <1>1, <1>4 DEF vars, LInv, ListedOnlyWhenGranted
<1>. QED  BY <1>1, <1>2, <1>3, <1>4 DEF Next, LInv

(***************************************************************************)
(* For every set of tokens, rules, integrations and hooks, a listing       *)
(* answers only with integrations and hooks its token may read.            *)
(***************************************************************************)
THEOREM ListedOnlyWhenGrantedHolds == Spec => []ListedOnlyWhenGranted
<1>1. Init => LInv
  BY AInvInit DEF Init, LInv, ListedOnlyWhenGranted
<1>. QED  BY <1>1, LInvStep, PTL DEF Spec, LInv
====
