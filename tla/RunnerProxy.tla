----------------------------- MODULE RunnerProxy -----------------------------
(***************************************************************************)
(* One HTTP request through the gateway's runner handlers, in              *)
(* src/gateway/managers/syncman/syncman_runner.go: the sixteen handlers    *)
(* that authorise a request and call forwardRequestToRunner, and           *)
(* HandleRunnerGetServiceLogs, which streams a service's logs back line by *)
(* line.  Handlers share no mutable state (runnerAddr is fixed at setup),  *)
(* so one request per behaviour is modelled; what the admin manager, the   *)
(* integration hooks and the runner answer is a nondeterministic choice.   *)
(*                                                                         *)
(* The response writer is the sequence sent of what the handler wrote:     *)
(* a complete response (SendErrorResponse, SendResponse, SendOkayResponse, *)
(* or the runner's status line and copied body), a streamed chunk, or a    *)
(* bare status line.                                                       *)
(***************************************************************************)
EXTENDS Naturals, Sequences

CONSTANTS
    Handlers,   \* the handlers a request may reach
    MaxLines,   \* bound on the lines of a streamed log
    MaxWrites   \* bound on the writes of one request

ASSUME RunnerProxyAssumption ==
    /\ MaxLines \in Nat
    /\ MaxWrites \in Nat \ {0}

Methods == {"GET", "POST", "DELETE"}

\* Go's empty string "" (an empty query value, no runner address, a drained
\* body).
EmptyString == "empty"

\* Query parameters some handler reads with r.URL.Query().Get.
QueryParams == {"id", "serviceId", "version", "roleId"}

\* r.URL.Query().Get(p): "query" if given, "" if absent.
Query(q, p) == IF p \in q THEN "query" ELSE EmptyString

\* if v == "" { v = "*" }
OrStar(v) == IF v = EmptyString THEN "*" ELSE v

\* A mux path variable is always present on the handler's route.
Path == "path"

Perm(res, op, attrs) == [resource |-> res, op |-> op, attrs |-> attrs]

\* The arguments each handler passes to admin.IsTokenValid.
RunnerRequestsHandler ==
    [Requests |-> Perm("runner", "modify", <<>>)]

SecretHandlers(q) ==
    [ApplySecret           |-> Perm("secret", "modify", [project |-> Path, id |-> Path]),
     ListSecret            |-> Perm("secret", "read", [project |-> Path, id |-> OrStar(Query(q, "id"))]),
     SetFileSecretRootPath |-> Perm("secret", "modify", [project |-> Path, id |-> Path]),
     DeleteSecret          |-> Perm("secret", "modify", [project |-> Path, id |-> Path]),
     SetSecretKey          |-> Perm("secret", "modify", [project |-> Path, id |-> Path, key |-> Path]),
     DeleteSecretKey       |-> Perm("secret", "modify", [project |-> Path, id |-> Path, key |-> Path])]

\* HandleRunnerGetServices defaults version to "*" only when id is "",
\* which it never is once id itself was defaulted.
GetServicesAttrs(q) ==
    LET id == OrStar(Query(q, "serviceId"))
    IN  [project |-> Path, id |-> id,
         version |-> IF id = EmptyString THEN "*" ELSE Query(q, "version")]

ServiceHandlers(q) ==
    [ApplyService        |-> Perm("service", "modify", [project |-> Path, id |-> Path, version |-> Path]),
     GetServices         |-> Perm("service", "read", GetServicesAttrs(q)),
     GetDeploymentStatus |-> Perm("service", "read", [project |-> Path]),
     DeleteService       |-> Perm("service", "modify", [project |-> Path, id |-> Path, version |-> Path])]

RouteRoleHandlers(q) ==
    [ServiceRouting    |-> Perm("service-route", "modify", [project |-> Path, id |-> Path]),
     GetServiceRouting |-> Perm("service-route", "read", [project |-> Path, id |-> OrStar(Query(q, "id"))]),
     SetServiceRole    |-> Perm("service-role", "modify", [project |-> Path, serviceId |-> Path, id |-> Path]),
     GetServiceRole    |-> Perm("service-role", "read", [project |-> Path, serviceId |-> OrStar(Query(q, "id")),
                                                         id |-> OrStar(Query(q, "roleId"))]),
     DeleteServiceRole |-> Perm("service-role", "modify", [project |-> Path, serviceId |-> Path, id |-> Path])]

\* HandleRunnerGetServiceLogs checks the token itself.
LogsHandler == "GetServiceLogs"
LogsPerm == Perm("service", "read", [project |-> Path])

\* The permission request of handler h for the query parameters q.
Handler(h, q) ==
    IF h \in DOMAIN RunnerRequestsHandler THEN RunnerRequestsHandler[h]
    ELSE IF h \in DOMAIN SecretHandlers(q) THEN SecretHandlers(q)[h]
    ELSE IF h \in DOMAIN ServiceHandlers(q) THEN ServiceHandlers(q)[h]
    ELSE IF h \in DOMAIN RouteRoleHandlers(q) THEN RouteRoleHandlers(q)[h]
    ELSE LogsPerm

ForwardHandlers ==
    DOMAIN RunnerRequestsHandler \cup DOMAIN SecretHandlers({})
      \cup DOMAIN ServiceHandlers({}) \cup DOMAIN RouteRoleHandlers({})

\* What a handler writes to w.
Write(w, code) == [w |-> w, code |-> code]
Err(code) == Write("error", code)
WriteKinds == {"error", "result", "okay", "status", "chunk", "nocontent"}
\* Status codes: the ones the handlers write, and "hook" and "runner" for
\* whatever status the hook or the runner answered with.
Codes == {"200", "204", "400", "401", "500", "hook", "runner"}

NoCall == [called |-> FALSE]

VARIABLES
    h,          \* the handler the router picked
    method,     \* r.Method
    query,      \* the query parameters given
    body,       \* the request body: "json" or "malformed"
    runnerAddr, \* s.runnerAddr: "" or the runner's address
    pc,         \* where the handler is
    attrs,      \* the attributes passed to admin.IsTokenValid
    bodyLeft,   \* what r.Body still holds
    authHeader, \* r.Header "Authorization": the user's or the internal token
    sent,       \* what was written to w
    upstream,   \* the request the runner received
    lines,      \* lines of the log stream not yet read
    streamEnd   \* how the log stream ends: io.EOF or another read error

vars == <<h, method, query, body, runnerAddr, pc, attrs, bodyLeft,
          authHeader, sent, upstream, lines, streamEnd>>
reqVars == <<h, method, query, body, runnerAddr>>
streamVars == <<lines, streamEnd>>

-----------------------------------------------------------------------------

Init ==
    /\ h \in Handlers
    /\ method \in Methods
    /\ query \in SUBSET QueryParams
    /\ body \in {"json", "malformed"}
    /\ runnerAddr \in {EmptyString, "runner"}
    /\ pc = "start"
    /\ attrs = <<>>
    /\ bodyLeft = body
    /\ authHeader = "user"
    /\ sent = <<>>
    /\ upstream = NoCall
    /\ lines = 0
    /\ streamEnd = "eof"

\* Send a complete response and return.
Respond(wr) == sent' = Append(sent, wr) /\ pc' = "done"

\* The forwarding handlers: admin.IsTokenValid with the handler's attributes;
\* 401 if it refuses, else forwardRequestToRunner.
ValidateToken ==
    /\ pc = "start"
    /\ h \in ForwardHandlers
    /\ attrs' = Handler(h, query).attrs
    /\ \/ Respond(Err("401"))
       \/ pc' = "forward" /\ UNCHANGED sent
    /\ UNCHANGED <<reqVars, bodyLeft, authHeader, upstream, streamVars>>

\* forwardRequestToRunner without a runner: GET gets an empty list, the rest 400.
ForwardNoRunner ==
    /\ pc = "forward"
    /\ runnerAddr = EmptyString
    /\ Respond(IF method = "GET" THEN Write("result", "200") ELSE Err("400"))
    /\ UNCHANGED <<reqVars, attrs, bodyLeft, authHeader, upstream, streamVars>>

\* Mutant: the body is read but r.Body is not reset.
ReadBodyNoReset ==
    /\ pc = "forward"
    /\ runnerAddr # EmptyString
    /\ \/ method # "POST" /\ pc' = "hook" /\ UNCHANGED <<sent, bodyLeft>>
       \/ method = "POST" /\ Respond(Err("500")) /\ bodyLeft' = EmptyString
       \/ method = "POST" /\ body = "malformed" /\ Respond(Err("500")) /\ bodyLeft' = EmptyString
       \/ method = "POST" /\ body = "json" /\ pc' = "hook" /\ bodyLeft' = EmptyString /\ UNCHANGED sent
    /\ UNCHANGED <<reqVars, attrs, authHeader, upstream, streamVars>>

\* A POST body is read (ioutil.ReadAll may fail), unmarshalled (a malformed
\* body fails) and r.Body reset to the bytes read.
ReadBody ==
    /\ pc = "forward"
    /\ runnerAddr # EmptyString
    /\ \/ method # "POST" /\ pc' = "hook" /\ UNCHANGED <<sent, bodyLeft>>
       \/ method = "POST" /\ Respond(Err("500")) /\ bodyLeft' = EmptyString
       \/ method = "POST" /\ body = "malformed" /\ Respond(Err("500")) /\ UNCHANGED bodyLeft
       \/ method = "POST" /\ body = "json" /\ pc' = "hook" /\ UNCHANGED <<sent, bodyLeft>>
    /\ UNCHANGED <<reqVars, attrs, authHeader, upstream, streamVars>>

\* Mutant: no return after the hook's error response.
InvokeHookNoReturn ==
    /\ pc = "hook"
    /\ \/ sent' = Append(sent, Err("hook")) /\ pc' = "token"
       \/ Respond(Write("result", "hook"))
       \/ Respond(Write("okay", "hook"))
       \/ pc' = "token" /\ UNCHANGED sent
    /\ UNCHANGED <<reqVars, attrs, bodyLeft, authHeader, upstream, streamVars>>

\* integrationMan.InvokeHook: a hook that hijacks the request answers it
\* with its error, its result, or a bare okay; otherwise the request goes on.
InvokeHook ==
    /\ pc = "hook"
    /\ \/ Respond(Err("hook"))
       \/ Respond(Write("result", "hook"))
       \/ Respond(Write("okay", "hook"))
       \/ pc' = "token" /\ UNCHANGED sent
    /\ UNCHANGED <<reqVars, attrs, bodyLeft, authHeader, upstream, streamVars>>

\* admin.GetInternalAccessToken: on success it replaces the Authorization header.
InternalToken ==
    /\ pc = "token"
    /\ \/ Respond(Err("500")) /\ UNCHANGED authHeader
       \/ pc' = "dial" /\ authHeader' = "internal" /\ UNCHANGED sent
    /\ UNCHANGED <<reqVars, attrs, bodyLeft, upstream, streamVars>>

\* The request as http.DefaultClient.Do sends it to the runner.
Sent == [called |-> TRUE, auth |-> authHeader,
         body |-> IF method = "POST" THEN bodyLeft ELSE "none"]

\* forwardRequestToRunner: http.DefaultClient.Do; on success the runner's
\* status code and body are copied to w (a copy error is only logged).
ForwardDo ==
    /\ pc = "dial"
    /\ h # LogsHandler
    /\ \/ Respond(Err("500")) /\ UNCHANGED upstream
       \/ Respond(Write("status", "runner")) /\ upstream' = Sent
    /\ UNCHANGED <<reqVars, attrs, bodyLeft, authHeader, streamVars>>

-----------------------------------------------------------------------------
(* HandleRunnerGetServiceLogs                                              *)

\* Without a runner: GET gets an empty list, the rest 400.
LogsNoRunner ==
    /\ pc = "start"
    /\ h = LogsHandler
    /\ runnerAddr = EmptyString
    /\ Respond(IF method = "GET" THEN Write("result", "200") ELSE Err("400"))
    /\ UNCHANGED <<reqVars, attrs, bodyLeft, authHeader, upstream, streamVars>>

\* The token check, then the hook (no body is read).
LogsValidateToken ==
    /\ pc = "start"
    /\ h = LogsHandler
    /\ runnerAddr # EmptyString
    /\ attrs' = LogsPerm.attrs
    /\ \/ Respond(Err("401"))
       \/ pc' = "hook" /\ UNCHANGED sent
    /\ UNCHANGED <<reqVars, bodyLeft, authHeader, upstream, streamVars>>

\* http.DefaultClient.Do; a non-200 answer, a missing X-Content-Type-Options:
\* nosniff header or a writer that is no http.Flusher end the request with
\* an error; otherwise streaming starts on a log of up to MaxLines lines.
LogsDo ==
    /\ pc = "dial"
    /\ h = LogsHandler
    /\ \/ Respond(Err("500")) /\ UNCHANGED <<upstream, streamVars>>
       \/ upstream' = Sent
          /\ \/ Respond(Err("500")) /\ UNCHANGED streamVars    \* status != 200
             \/ Respond(Err("400")) /\ UNCHANGED streamVars    \* no nosniff header
             \/ Respond(Err("500")) /\ UNCHANGED streamVars    \* no http.Flusher
             \/ /\ pc' = "stream" /\ UNCHANGED sent
                /\ lines' \in 0..MaxLines
                /\ streamEnd' \in {"eof", "error"}
    /\ UNCHANGED <<reqVars, attrs, bodyLeft, authHeader>>

\* case <-done: the client went away; the handler returns.
ClientDisconnects ==
    /\ pc = "stream"
    /\ pc' = "done"
    /\ UNCHANGED <<reqVars, attrs, bodyLeft, authHeader, sent, upstream, streamVars>>

\* Mutant: the loop reads on after the last line.
StreamLineNoGuard ==
    /\ pc = "stream"
    /\ Len(sent) < MaxWrites
    /\ lines' = lines - 1
    /\ \/ sent' = Append(sent, Write("chunk", "200"))
       \/ UNCHANGED sent
    /\ UNCHANGED <<reqVars, pc, attrs, bodyLeft, authHeader, upstream, streamEnd>>

\* rd.ReadString('\n') returns a line; a line other than "\n" is written
\* and flushed.
StreamLine ==
    /\ pc = "stream"
    /\ lines > 0
    /\ Len(sent) < MaxWrites
    /\ lines' = lines - 1
    /\ \/ sent' = Append(sent, Write("chunk", "200"))
       \/ UNCHANGED sent
    /\ UNCHANGED <<reqVars, pc, attrs, bodyLeft, authHeader, upstream, streamEnd>>

\* io.EOF: w.WriteHeader(http.StatusNoContent) and return.
StreamEOF ==
    /\ pc = "stream"
    /\ lines = 0
    /\ streamEnd = "eof"
    /\ Respond(Write("nocontent", "204"))
    /\ UNCHANGED <<reqVars, attrs, bodyLeft, authHeader, upstream, streamVars>>

\* Another read error: SendErrorResponse, and the loop goes on (bufio keeps
\* returning the same error).
StreamReadError ==
    /\ pc = "stream"
    /\ lines = 0
    /\ streamEnd = "error"
    /\ Len(sent) < MaxWrites
    /\ sent' = Append(sent, Err("500"))
    /\ UNCHANGED <<reqVars, pc, attrs, bodyLeft, authHeader, upstream, streamVars>>

-----------------------------------------------------------------------------

Next ==
    \/ ValidateToken \/ ForwardNoRunner \/ ReadBody \/ InvokeHook
    \/ InternalToken \/ ForwardDo
    \/ LogsNoRunner \/ LogsValidateToken \/ LogsDo
    \/ ClientDisconnects \/ StreamLine \/ StreamEOF \/ StreamReadError

Spec == Init /\ [][Next]_vars

-----------------------------------------------------------------------------
(* Properties                                                              *)

\* The attribute maps the handlers of Handlers pass to IsTokenValid, and
\* the empty map before the token check.
AttrMaps ==
    {<<>>, LogsPerm.attrs}
      \cup UNION {{Handler(x, q).attrs : q \in SUBSET QueryParams} : x \in Handlers}

\* The writes a handler can make, and what the runner can receive.
Writes == [w : WriteKinds, code : Codes]
Upstreams == {NoCall} \cup [called : {TRUE}, auth : {"user", "internal"},
                            body : {"json", "malformed", EmptyString, "none"}]

TypeOK ==
    /\ h \in Handlers
    /\ method \in Methods
    /\ query \subseteq QueryParams
    /\ body \in {"json", "malformed"}
    /\ runnerAddr \in {EmptyString, "runner"}
    /\ pc \in {"start", "forward", "hook", "token", "dial", "stream", "done"}
    /\ attrs \in AttrMaps
    /\ bodyLeft \in {"json", "malformed", EmptyString}
    /\ authHeader \in {"user", "internal"}
    /\ sent \in Seq(Writes)
    /\ upstream \in Upstreams
    /\ lines \in 0..MaxLines
    /\ streamEnd \in {"eof", "error"}

(* A forwarding handler writes exactly one response, and has written it     *)
(* when it returns: every early return of the token check, the runner       *)
(* check, the body read, the hook, the internal token and the runner call  *)
(* sends one response and nothing after it.                                 *)
ExactlyOneResponse ==
    h # LogsHandler =>
        /\ Len(sent) <= 1
        /\ pc = "done" => Len(sent) = 1

(* The runner receives the request with the gateway's internal token in     *)
(* place of the user's, and a POST with the very body the client sent,      *)
(* although forwardRequestToRunner consumed r.Body to build the hook's      *)
(* payload.                                                                 *)
ForwardedRequestFaithful ==
    upstream # NoCall =>
        /\ upstream.auth = "internal"
        /\ method = "POST" => upstream.body = body

(* Once the log stream handler has sent an error response it writes         *)
(* nothing more.                                                            *)
StreamErrorEndsResponse ==
    \A i \in 1..(Len(sent) - 1) : sent[i].w # "error"

(* No attribute handed to admin.IsTokenValid is empty: a filter the query   *)
(* leaves out is passed as the wildcard "*".                                *)
AbsentFiltersAreWildcards ==
    \A a \in DOMAIN attrs : attrs[a] # EmptyString

=============================================================================
