------------------------- MODULE IntegrationHandlers -------------------------
(***************************************************************************)
(* The gateway's integration config endpoints                              *)
(* (gateway/server/handlers/config_integration.go), served concurrently    *)
(* against the integration registry kept by syncman.  Every handler runs   *)
(* the same steps: decode the body if it has one (400 on error), check the *)
(* token with adminMan.IsTokenValid for a resource, an operation and       *)
(* attributes naming the object (403 on error), call syncman under a       *)
(* context with a timeout, and answer with syncman's status.               *)
(* HandleGetIntegrationTokens has no token check: syncman checks the       *)
(* integration's key instead.                                              *)
(*                                                                         *)
(* IsTokenValid and the syncman calls are not in this repository; they    *)
(* are modelled from what the handlers rely on: a token carries rules      *)
(* [resource, op, attrs] and a request is allowed when a rule has its      *)
(* resource and op and, for each attribute the request names, the value    *)
(* "*" or the request's value; syncman applies a change atomically or      *)
(* fails (a timeout included) without applying it.                         *)
(***************************************************************************)
EXTENDS Naturals, FiniteSets

CONSTANTS
    Reqs,          \* concurrent requests
    Tokens,        \* admin tokens
    Rules,         \* Rules[t]: the rules token t carries
    Integrations,  \* integration ids
    Hooks          \* hook ids

\* "*", the attribute value of a listing without an id.
Star == "*"
\* The id query parameter left out, r.URL.Query().Get("id") = "".
NoId == "none"

\* Each handler: whether it decodes a body, the resource and op it asks
\* IsTokenValid for ("" when it asks nothing), and whether it changes the
\* registry.
HandlerTable ==
    [HandlePostIntegration       |-> [body |-> TRUE,  resource |-> "integration",      op |-> "modify"],
     HandleDeleteIntegration     |-> [body |-> FALSE, resource |-> "integration",      op |-> "modify"],
     HandleGetIntegrations       |-> [body |-> FALSE, resource |-> "integration",      op |-> "read"],
     HandleGetIntegrationTokens  |-> [body |-> TRUE,  resource |-> "none",             op |-> "none"],
     HandleAddIntegrationHook    |-> [body |-> TRUE,  resource |-> "integration-hook", op |-> "modify"],
     HandleDeleteIntegrationHook |-> [body |-> FALSE, resource |-> "integration-hook", op |-> "modify"],
     HandleGetIntegrationHooks   |-> [body |-> FALSE, resource |-> "integration-hook", op |-> "read"]]

Handlers == DOMAIN HandlerTable

\* A request: the handler, the token, the integration (req.ID of the body,
\* vars["name"] or the id query) and the hook (req.ID or vars["id"] or the
\* id query) it names.
Requests == [handler : Handlers, token : Tokens,
             integration : Integrations \cup {NoId}, hook : Hooks \cup {NoId}]

\* The id query of a listing defaults to "*" (lines 106-109, 267-270).
OrStar(v) == IF v = NoId THEN Star ELSE v

\* Mutant: the hook handlers name only the integration to IsTokenValid.
AttrsNoHook(q) ==
    CASE q.handler \in {"HandlePostIntegration", "HandleDeleteIntegration"}
            -> [integration |-> q.integration]
      [] q.handler = "HandleGetIntegrations"
            -> [integration |-> OrStar(q.integration)]
      [] OTHER
            -> [integration |-> q.integration]

\* The attributes each handler passes to IsTokenValid.
Attrs(q) ==
    CASE q.handler \in {"HandlePostIntegration", "HandleDeleteIntegration"}
            -> [integration |-> q.integration]
      [] q.handler = "HandleGetIntegrations"
            -> [integration |-> OrStar(q.integration)]
      [] q.handler = "HandleGetIntegrationHooks"
            -> [integration |-> q.integration, hook |-> OrStar(q.hook)]
      [] OTHER
            -> [integration |-> q.integration, hook |-> q.hook]

\* adminMan.IsTokenValid(ctx, token, resource, op, attrs).
IsTokenValid(t, resource, op, attrs) ==
    \E rule \in Rules[t] :
        /\ rule.resource = resource
        /\ rule.op = op
        /\ \A a \in DOMAIN attrs : a \in DOMAIN rule.attrs
                                   /\ rule.attrs[a] \in {Star, attrs[a]}

VARIABLES
    integrations, \* the integrations syncman holds
    hooks,        \* the hooks it holds, as <<integration, hook>> pairs
    req,          \* req[i]: the request i serves
    pc,           \* pc[i]: "decode", "auth", "call" or "done"
    status,       \* status[i]: the status written, or 0
    result        \* result[i]: the objects a listing answered with

vars == <<integrations, hooks, req, pc, status, result>>

\* The first step of a handler: decode the body, or skip to the token check.
FirstStep(q) == IF HandlerTable[q.handler].body THEN "decode" ELSE "auth"

Init ==
    /\ integrations = {}
    /\ hooks = {}
    /\ req \in [Reqs -> Requests]
    /\ pc = [i \in Reqs |-> FirstStep(req[i])]
    /\ status = [i \in Reqs |-> 0]
    /\ result = [i \in Reqs |-> {}]

\* SendErrorResponse or SendOkayResponse / SendResponse: the handler writes
\* its status and returns.
Respond(i, code) ==
    /\ status' = [status EXCEPT ![i] = code]
    /\ pc' = [pc EXCEPT ![i] = "done"]

\* json.NewDecoder(r.Body).Decode(req): a body that does not decode is
\* answered 400 (lines 27-30, 148-151, 176-179).
DecodeBody(i) ==
    /\ pc[i] = "decode"
    /\ \/ /\ pc' = [pc EXCEPT ![i] = IF req[i].handler = "HandleGetIntegrationTokens"
                                      THEN "call" ELSE "auth"]
          /\ UNCHANGED status
       \/ Respond(i, 400)
    /\ UNCHANGED <<integrations, hooks, req, result>>

\* adminMan.IsTokenValid; a token without the permission is answered 403.
ValidateToken(i) ==
    LET q == req[i]
    IN /\ pc[i] = "auth"
       /\ IF IsTokenValid(q.token, HandlerTable[q.handler].resource,
                          HandlerTable[q.handler].op, Attrs(q))
          THEN pc' = [pc EXCEPT ![i] = "call"] /\ UNCHANGED status
          ELSE Respond(i, 403)
       /\ UNCHANGED <<integrations, hooks, req, result>>

\* Mutant: AddIntegrationHook is handed the hook and the integration in
\* the wrong order.
ApplySwapped(q) ==
    CASE q.handler = "HandlePostIntegration" ->
            integrations' = integrations \cup {q.integration} /\ UNCHANGED hooks
      [] q.handler = "HandleDeleteIntegration" ->
            integrations' = integrations \ {q.integration} /\ UNCHANGED hooks
      [] q.handler = "HandleAddIntegrationHook" ->
            hooks' = hooks \cup {<<q.hook, q.integration>>} /\ UNCHANGED integrations
      [] q.handler = "HandleDeleteIntegrationHook" ->
            hooks' = hooks \ {<<q.integration, q.hook>>} /\ UNCHANGED integrations
      [] OTHER -> UNCHANGED <<integrations, hooks>>

\* The registry change a syncman call makes (EnableIntegration,
\* RemoveIntegration, AddIntegrationHook, RemoveIntegrationHook).
Apply(q) ==
    CASE q.handler = "HandlePostIntegration" ->
            integrations' = integrations \cup {q.integration} /\ UNCHANGED hooks
      [] q.handler = "HandleDeleteIntegration" ->
            integrations' = integrations \ {q.integration} /\ UNCHANGED hooks
      [] q.handler = "HandleAddIntegrationHook" ->
            hooks' = hooks \cup {<<q.integration, q.hook>>} /\ UNCHANGED integrations
      [] q.handler = "HandleDeleteIntegrationHook" ->
            hooks' = hooks \ {<<q.integration, q.hook>>} /\ UNCHANGED integrations
      [] OTHER -> UNCHANGED <<integrations, hooks>>

\* Mutant: GetIntegrationHooks filters by hook id only.
ListedAnyIntegration(q) ==
    CASE q.handler = "HandleGetIntegrations" ->
            {x \in integrations : OrStar(q.integration) \in {Star, x}}
      [] q.handler = "HandleGetIntegrationHooks" ->
            {x \in hooks : OrStar(q.hook) \in {Star, x[2]}}
      [] OTHER -> {}

\* What GetIntegrations(id) and GetIntegrationHooks(name, hookID) answer:
\* everything for "*", else the one object asked for.
Listed(q) ==
    CASE q.handler = "HandleGetIntegrations" ->
            {x \in integrations : OrStar(q.integration) \in {Star, x}}
      [] q.handler = "HandleGetIntegrationHooks" ->
            {x \in hooks : x[1] = q.integration /\ OrStar(q.hook) \in {Star, x[2]}}
      [] OTHER -> {}

\* The syncman call succeeds: its change is made and its status and result
\* are written (lines 51-57, 89-95, 129-135, 155-161, 199-205, 247-253,
\* 290-296).
CallSucceeds(i) ==
    /\ pc[i] = "call"
    /\ Apply(req[i])
    /\ result' = [result EXCEPT ![i] = Listed(req[i])]
    /\ Respond(i, 200)
    /\ UNCHANGED req

\* The syncman call fails, or its context times out: the error is answered
\* with syncman's status and nothing is changed.
CallFails(i) ==
    /\ pc[i] = "call"
    /\ Respond(i, 500)
    /\ UNCHANGED <<integrations, hooks, req, result>>

Next ==
    \E i \in Reqs :
        \/ DecodeBody(i)
        \/ ValidateToken(i)
        \/ CallSucceeds(i)
        \/ CallFails(i)

Spec == Init /\ [][Next]_vars

-----------------------------------------------------------------------------
\* The integration ids a request may carry.
Ids == Integrations \cup {NoId}

TypeOK ==
    /\ integrations \subseteq Ids
    /\ hooks \subseteq Ids \X (Hooks \cup {NoId})
    /\ req \in [Reqs -> Requests]
    /\ pc \in [Reqs -> {"decode", "auth", "call", "done"}]
    /\ status \in [Reqs -> {0, 200, 400, 403, 500}]
    /\ result \in [Reqs -> SUBSET (Ids \cup (Ids \X (Hooks \cup {NoId})))]

\* Token t may read integration x, or hook h of integration x.
MayReadIntegration(t, x) == IsTokenValid(t, "integration", "read", [integration |-> x])
MayReadHook(t, x, h) ==
    IsTokenValid(t, "integration-hook", "read", [integration |-> x, hook |-> h])

\* Token t may modify integration x, or hook h of integration x.
MayModifyIntegration(t, x) == IsTokenValid(t, "integration", "modify", [integration |-> x])
MayModifyHook(t, x, h) ==
    IsTokenValid(t, "integration-hook", "modify", [integration |-> x, hook |-> h])

(***************************************************************************)
(* Every change to the registry is made by a request whose token may       *)
(* modify exactly the integration or hook that changed: the attributes     *)
(* each handler hands IsTokenValid name the object it then hands syncman.  *)
(***************************************************************************)
ModifiedOnlyWhenGranted ==
    [][\E i \in Reqs :
         /\ pc[i] = "call" /\ status'[i] = 200
         /\ \A x \in (integrations \ integrations') \cup (integrations' \ integrations) :
               MayModifyIntegration(req[i].token, x)
         /\ \A x \in (hooks \ hooks') \cup (hooks' \ hooks) :
               MayModifyHook(req[i].token, x[1], x[2])
      ]_<<integrations, hooks>>

(***************************************************************************)
(* A listing answers only with integrations and hooks its token may read:  *)
(* the id a listing leaves out becomes "*" both in the attributes checked  *)
(* and in the filter handed to syncman (lines 106-109, 267-270).           *)
(***************************************************************************)
ListedOnlyWhenGranted ==
    \A i \in Reqs :
        /\ req[i].handler = "HandleGetIntegrations" =>
              \A x \in result[i] : MayReadIntegration(req[i].token, x)
        /\ req[i].handler = "HandleGetIntegrationHooks" =>
              \A x \in result[i] : MayReadHook(req[i].token, x[1], x[2])
====
