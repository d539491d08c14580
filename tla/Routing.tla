------------------------------ MODULE Routing ------------------------------
(***************************************************************************)
(* The project-level operations of the gateway's global routing module     *)
(* (gateway/modules/global/routing/operations.go): SetProjectRoutes,       *)
(* DeleteProjectRoutes and SetGlobalConfig.  All three run under r.lock,   *)
(* so no two of them interleave; SetProjectRoutes is modelled step by step *)
(* because it returns from the middle of its loop when a template does not *)
(* parse, after it has already changed the template map.                   *)
(*                                                                         *)
(* A project name is a sequence of letters, so that strings.HasPrefix is   *)
(* the prefix relation on sequences.  A route is a record with an id and   *)
(* its request and response templates; NoTmpl is the empty template "".   *)
(***************************************************************************)
EXTENDS Naturals, Sequences, FiniteSets

CONSTANTS
    Projects,       \* project names, each a sequence of letters
    Routes,         \* the routes a config may hold
    Tmpls,          \* template texts that parse
    BadTmpls,       \* template texts on which createGoTemplate fails
    GlobalConfigs   \* values of *config.GlobalRoutesConfig other than nil

\* The empty template "", which SetProjectRoutes does not compile.
NoTmpl == "none"
\* A nil *config.GlobalRoutesConfig.
Nil == "nil"
\* No SetProjectRoutes holds r.lock: the empty name, which no project has.
NoSetter == <<>>
\* The template kinds createGoTemplate is called with.
Kinds == {"request", "response"}

ASSUME RoutingAssumption ==
    /\ Projects \subseteq Seq(STRING) \ {NoSetter}
    /\ \A r \in Routes : r.req \in Tmpls \cup BadTmpls \cup {NoTmpl}
                        /\ r.res \in Tmpls \cup BadTmpls \cup {NoTmpl}

\* An IngressRoutes value: routes with distinct ids.
Configs == {c \in SUBSET Routes :
              \A r1, r2 \in c : r1.id = r2.id => r1 = r2}

\* The template a route asks for of kind k.
TmplOf(r, k) == IF k = "request" THEN r.req ELSE r.res

\* The key r.goTemplates holds a template of a route under: it starts with
\* the project name (getGoTemplateKey).
Key(p, k, id) == <<p, k, id>>

\* strings.HasPrefix(k, project) for a template key: the project name is
\* the first Len(project) letters of the name the key starts with.
HasPrefix(key, project) ==
    /\ Len(project) <= Len(key[1])
    /\ SubSeq(key[1], 1, Len(project)) = project

\* The templates SetProjectRoutes(p, c) compiles when none fails.
Compiled(p, c) ==
    UNION {{[key |-> Key(p, k, r.id), tmpl |-> TmplOf(r, k)] :
              k \in {x \in Kinds : TmplOf(r, x) # NoTmpl}} : r \in c}

VARIABLES
    goTemplates,  \* r.goTemplates: a set of [key, tmpl] records
    routes,       \* the routes of each project, as addProjectRoutes stores them
    globalConfig, \* r.globalConfig
    setter,       \* the project a SetProjectRoutes holding r.lock is for, or NoSetter
    config,       \* the routes that call was given
    pending       \* the routes it has still to compile

vars == <<goTemplates, routes, globalConfig, setter, config, pending>>

Init ==
    /\ goTemplates = {}
    /\ routes = [p \in Projects |-> {}]
    /\ globalConfig = Nil
    /\ setter = NoSetter
    /\ config = {}
    /\ pending = {}

\* The templates held for project p: the keys made from its name.
TemplatesOf(p) == {t \in goTemplates : t.key[1] = p}

\* Mutant: only the templates of the routes the project has installed are
\* deleted, so what a failed call left behind survives.
SetProjectRoutesBeginOldOnly(p, c) ==
    /\ setter = NoSetter
    /\ goTemplates' = goTemplates \ Compiled(p, routes[p])
    /\ setter' = p
    /\ config' = c
    /\ pending' = c
    /\ UNCHANGED <<routes, globalConfig>>

(***************************************************************************)
(* SetProjectRoutes, lines 10-23: copy the routes, take the lock and       *)
(* delete every template whose key has the project name as a prefix.       *)
(***************************************************************************)
SetProjectRoutesBegin(p, c) ==
    /\ setter = NoSetter
    /\ goTemplates' = {t \in goTemplates : ~HasPrefix(t.key, p)}
    /\ setter' = p
    /\ config' = c
    /\ pending' = c
    /\ UNCHANGED <<routes, globalConfig>>

\* createGoTemplate(kind, project, id, tmpl) on the template set ts: the
\* parsed template is stored under its key, replacing what was there.
CreateGoTemplate(ts, p, k, r) ==
    {t \in ts : t.key # Key(p, k, r.id)}
        \cup {[key |-> Key(p, k, r.id), tmpl |-> TmplOf(r, k)]}

\* The request template of r, when it is not "", is compiled (lines 31-35).
WithRequest(ts, p, r) ==
    IF r.req = NoTmpl THEN ts ELSE CreateGoTemplate(ts, p, "request", r)

\* Both templates of route r are empty or parse: they are compiled, request
\* first (lines 26-43); the loop visits the routes in map order.
CompileRoute(r) ==
    /\ setter # NoSetter
    /\ r \in pending
    /\ \A k \in Kinds : TmplOf(r, k) \notin BadTmpls
    /\ goTemplates' = IF r.res = NoTmpl
                      THEN WithRequest(goTemplates, setter, r)
                      ELSE CreateGoTemplate(WithRequest(goTemplates, setter, r),
                                            setter, "response", r)
    /\ pending' = pending \ {r}
    /\ UNCHANGED <<routes, globalConfig, setter, config>>

\* Mutant: the loop logs the error and goes on with the next route.
CompileRouteFailsContinue(r) ==
    /\ setter # NoSetter
    /\ r \in pending
    /\ \E k \in Kinds : TmplOf(r, k) \in BadTmpls
    /\ pending' = pending \ {r}
    /\ UNCHANGED <<goTemplates, routes, globalConfig, setter, config>>

\* Mutant: a request template is stored before it is known to parse.
CompileRouteFailsStoreFirst(r) ==
    /\ setter # NoSetter
    /\ r \in pending
    /\ \E k \in Kinds : TmplOf(r, k) \in BadTmpls
    /\ goTemplates' = WithRequest(goTemplates, setter, r)
    /\ setter' = NoSetter
    /\ config' = {}
    /\ pending' = {}
    /\ UNCHANGED <<routes, globalConfig>>

\* A template of route r does not parse: SetProjectRoutes returns the error
\* (line 33 or 40) and releases the lock.  A request template that parsed
\* before a failing response template stays stored.
CompileRouteFails(r) ==
    /\ setter # NoSetter
    /\ r \in pending
    /\ \E k \in Kinds : TmplOf(r, k) \in BadTmpls
    /\ goTemplates' = IF r.req \in Tmpls
                      THEN CreateGoTemplate(goTemplates, setter, "request", r)
                      ELSE goTemplates
    /\ setter' = NoSetter
    /\ config' = {}
    /\ pending' = {}
    /\ UNCHANGED <<routes, globalConfig>>

\* Every route compiled: addProjectRoutes(project, routes) (line 45)
\* replaces the project's routes, and the lock is released.
AddProjectRoutes ==
    /\ setter # NoSetter
    /\ pending = {}
    /\ routes' = [routes EXCEPT ![setter] = config]
    /\ setter' = NoSetter
    /\ config' = {}
    /\ UNCHANGED <<goTemplates, globalConfig, pending>>

\* DeleteProjectRoutes(project), lines 50-55: deleteProjectRoutes removes
\* the project's routes; its templates are left in r.goTemplates.
DeleteProjectRoutes(p) ==
    /\ setter = NoSetter
    /\ routes' = [routes EXCEPT ![p] = {}]
    /\ UNCHANGED <<goTemplates, globalConfig, setter, config, pending>>

\* SetGlobalConfig(globalConfig), lines 58-65: a nil config is ignored.
SetGlobalConfig(gc) ==
    /\ setter = NoSetter
    /\ globalConfig' = IF gc # Nil THEN gc ELSE globalConfig
    /\ UNCHANGED <<goTemplates, routes, setter, config, pending>>

Next ==
    \/ \E p \in Projects, c \in Configs : SetProjectRoutesBegin(p, c)
    \/ \E r \in Routes : CompileRoute(r) \/ CompileRouteFails(r)
    \/ AddProjectRoutes
    \/ \E p \in Projects : DeleteProjectRoutes(p)
    \/ \E gc \in GlobalConfigs \cup {Nil} : SetGlobalConfig(gc)

Spec == Init /\ [][Next]_vars

-----------------------------------------------------------------------------
\* The abstract routing table the operations implement.  The refinement
\* mapping is the identity on r.routes and r.globalConfig: the template map,
\* the call in progress and its local variables are hidden.
Table == INSTANCE RoutingTable
           WITH routes <- routes, globalConfig <- globalConfig

\* The set of template records.
Templates == [key : Projects \X Kinds \X {r.id : r \in Routes},
              tmpl : Tmpls]

TypeOK ==
    /\ goTemplates \subseteq Templates
    /\ routes \in [Projects -> Configs]
    /\ globalConfig \in GlobalConfigs \cup {Nil}
    /\ setter \in Projects \cup {NoSetter}
    /\ config \in Configs
    /\ pending \subseteq config

(***************************************************************************)
(* When SetProjectRoutes(p, c) reaches addProjectRoutes, the templates     *)
(* held for p are exactly those compiled from c: nothing left by an        *)
(* earlier call for p that failed half-way, nor from the routes p had      *)
(* before, survives the deletion at lines 19-23.                           *)
(***************************************************************************)
InstalledTemplatesExact ==
    (setter # NoSetter /\ pending = {}) => TemplatesOf(setter) = Compiled(setter, config)

(***************************************************************************)
(* Every route a project has installed has its templates in r.goTemplates, *)
(* with the text the route gives ("Add projects to the routes object and   *)
(* generate go templates", lines 25-43).                                   *)
(***************************************************************************)
RoutesHaveTemplates ==
    setter = NoSetter =>
      \A p \in Projects : Compiled(p, routes[p]) \subseteq goTemplates

(***************************************************************************)
(* Setting the routes of a project leaves the templates of every other     *)
(* project alone ("Delete all templates for this project", line 18).       *)
(***************************************************************************)
OtherProjectsUntouched ==
    [][\A p \in Projects : p # setter' => TemplatesOf(p)' = TemplatesOf(p)]_vars

(***************************************************************************)
(* The operations implement the routing table: a project's routes are      *)
(* replaced all at once, only by a config all of whose templates parse, or *)
(* deleted; a failed SetProjectRoutes leaves the project's routes as they  *)
(* were (the early returns at lines 33 and 40 come before line 45).        *)
(***************************************************************************)
RoutesReplacedWhole == Table!Spec
====
