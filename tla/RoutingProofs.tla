---------------------------- MODULE RoutingProofs ----------------------------
(***************************************************************************)
(* Proofs about the routing operations: the state stays well typed, a      *)
(* SetProjectRoutes that reaches addProjectRoutes has exactly the          *)
(* templates of its routes, and the operations implement the routing       *)
(* table of RoutingTable.                                                  *)
(***************************************************************************)
EXTENDS Routing, TLAPS

\* The templates stored for route r of the project holding the lock.
RouteKeys(p, r) == {Key(p, k, r.id) : k \in Kinds}

(* The inductive invariant.                                                *)
IInv ==
    /\ TypeOK
    /\ setter # NoSetter =>
         \* The templates of the project are those of the routes compiled
         \* so far ...
         /\ TemplatesOf(setter) = Compiled(setter, config \ pending)
         \* ... and every route compiled so far parses.
         /\ \A r \in config \ pending : Table!Parses(r)

-----------------------------------------------------------------------------
(* Lemmas about templates and keys.                                        *)

\* A template of route r whose text is not "" and parses is a template text.
LEMMA TmplTyped ==
    ASSUME NEW r \in Routes, NEW k \in Kinds,
           TmplOf(r, k) # NoTmpl, TmplOf(r, k) \notin BadTmpls
    PROVE  TmplOf(r, k) \in Tmpls
BY RoutingAssumption DEF TmplOf, Kinds

\* Storing a template that parses keeps the template set well typed.
LEMMA CreateTyped ==
    ASSUME NEW ts \in SUBSET Templates, NEW p \in Projects, NEW k \in Kinds,
           NEW r \in Routes, TmplOf(r, k) \in Tmpls
    PROVE  CreateGoTemplate(ts, p, k, r) \in SUBSET Templates
BY DEF CreateGoTemplate, Templates, Key

\* The key of a template of a project starts with the project's name.
LEMMA OwnPrefix ==
    ASSUME NEW p \in Projects, NEW key, key[1] = p
    PROVE  HasPrefix(key, p)
<1>1. p \in Seq(STRING)
  BY RoutingAssumption
<1>. QED  BY <1>1 DEF HasPrefix

\* The kinds of template route r asks for.
StoredKinds(r) == {k \in Kinds : TmplOf(r, k) # NoTmpl}

\* What compiling route r does to a template set ts: the keys of the
\* templates r asks for are replaced by its compiled templates.
LEMMA CompileEffect ==
    ASSUME NEW ts, NEW p, NEW r
    PROVE  (IF r.res = NoTmpl THEN WithRequest(ts, p, r)
            ELSE CreateGoTemplate(WithRequest(ts, p, r), p, "response", r))
           = {t \in ts : t.key \notin {Key(p, k, r.id) : k \in StoredKinds(r)}}
               \cup Compiled(p, {r})
<1>1. CASE r.req = NoTmpl /\ r.res = NoTmpl
  <2>1. StoredKinds(r) = {}
    BY <1>1 DEF StoredKinds, Kinds, TmplOf
  <2>2. Compiled(p, {r}) = {}
    BY <1>1 DEF Compiled, Kinds, TmplOf
  <2>. QED  BY <1>1, <2>1, <2>2 DEF WithRequest
<1>2. CASE r.req # NoTmpl /\ r.res = NoTmpl
  <2>1. StoredKinds(r) = {"request"}
    BY <1>2 DEF StoredKinds, Kinds, TmplOf
  <2>2. Compiled(p, {r}) = {[key |-> Key(p, "request", r.id), tmpl |-> r.req]}
    BY <1>2 DEF Compiled, Kinds, TmplOf
  <2>3. {Key(p, k, r.id) : k \in StoredKinds(r)} = {Key(p, "request", r.id)}
    BY <2>1
  <2>. QED  BY <1>2, <2>2, <2>3 DEF WithRequest, CreateGoTemplate, TmplOf
<1>3. CASE r.req = NoTmpl /\ r.res # NoTmpl
  <2>1. StoredKinds(r) = {"response"}
    BY <1>3 DEF StoredKinds, Kinds, TmplOf
  <2>2. Compiled(p, {r}) = {[key |-> Key(p, "response", r.id), tmpl |-> r.res]}
    BY <1>3 DEF Compiled, Kinds, TmplOf
  <2>3. {Key(p, k, r.id) : k \in StoredKinds(r)} = {Key(p, "response", r.id)}
    BY <2>1
  <2>. QED  BY <1>3, <2>2, <2>3 DEF WithRequest, CreateGoTemplate, TmplOf
<1>4. CASE r.req # NoTmpl /\ r.res # NoTmpl
  <2>1. StoredKinds(r) = {"request", "response"}
    BY <1>4 DEF StoredKinds, Kinds, TmplOf
  <2>2. Compiled(p, {r}) = {[key |-> Key(p, "request", r.id), tmpl |-> r.req],
                            [key |-> Key(p, "response", r.id), tmpl |-> r.res]}
    BY <1>4 DEF Compiled, Kinds, TmplOf
  <2>3. {Key(p, k, r.id) : k \in StoredKinds(r)}
          = {Key(p, "request", r.id), Key(p, "response", r.id)}
    BY <2>1
  <2>4. Key(p, "request", r.id) # Key(p, "response", r.id)
    BY DEF Key
  <2>. QED  BY <1>4, <2>2, <2>3, <2>4 DEF WithRequest, CreateGoTemplate, TmplOf
<1>. QED  BY <1>1, <1>2, <1>3, <1>4

-----------------------------------------------------------------------------
(* Type correctness.                                                       *)

\* The empty config is a config.
LEMMA EmptyConfig == {} \in Configs
BY DEF Configs

LEMMA TypeOKInit == Init => TypeOK
BY EmptyConfig DEF Init, TypeOK

\* Every step keeps the state well typed: one case per action.
LEMMA TypeOKStep == TypeOK /\ [Next]_vars => TypeOK'
<1> SUFFICES ASSUME TypeOK, [Next]_vars PROVE TypeOK'
  OBVIOUS
<1>1. CASE \E p \in Projects, c \in Configs : SetProjectRoutesBegin(p, c)
  BY <1>1 DEF SetProjectRoutesBegin, TypeOK
<1>2. CASE \E r \in Routes : CompileRoute(r)
  <2>1. PICK r \in Routes : CompileRoute(r)
    BY <1>2
  <2>2. setter \in Projects
    BY <2>1 DEF CompileRoute, TypeOK
  <2>3. WithRequest(goTemplates, setter, r) \in SUBSET Templates
    <3>1. CASE r.req = NoTmpl
      BY <3>1 DEF WithRequest, TypeOK
    <3>2. CASE r.req # NoTmpl
      <4>1. TmplOf(r, "request") \in Tmpls
        BY <2>1, <3>2, TmplTyped DEF CompileRoute, TmplOf, Kinds
      <4>. QED  BY <3>2, <4>1, <2>2, CreateTyped DEF WithRequest, TypeOK, Kinds
    <3>. QED  BY <3>1, <3>2
  <2>4. goTemplates' \in SUBSET Templates
    <3>1. CASE r.res = NoTmpl
      BY <2>1, <2>3, <3>1 DEF CompileRoute
    <3>2. CASE r.res # NoTmpl
      <4>1. TmplOf(r, "response") \in Tmpls
        BY <2>1, <3>2, TmplTyped DEF CompileRoute, TmplOf, Kinds
      <4>. QED  BY <2>1, <2>2, <2>3, <3>2, <4>1, CreateTyped DEF CompileRoute, Kinds
    <3>. QED  BY <3>1, <3>2
  <2>. QED  BY <2>1, <2>4 DEF CompileRoute, TypeOK
<1>3. CASE \E r \in Routes : CompileRouteFails(r)
  <2>1. PICK r \in Routes : CompileRouteFails(r)
    BY <1>3
  <2>2. goTemplates' \in SUBSET Templates
    <3>1. CASE r.req \in Tmpls
      <4>1. setter \in Projects
        BY <2>1 DEF CompileRouteFails, TypeOK
      <4>. QED  BY <2>1, <3>1, <4>1, CreateTyped DEF CompileRouteFails, TypeOK, TmplOf, Kinds
    <3>2. CASE r.req \notin Tmpls
      BY <2>1, <3>2 DEF CompileRouteFails, TypeOK
    <3>. QED  BY <3>1, <3>2
  <2>. QED  BY <2>1, <2>2, EmptyConfig DEF CompileRouteFails, TypeOK
<1>4. CASE AddProjectRoutes
  BY <1>4, EmptyConfig DEF AddProjectRoutes, TypeOK
<1>5. CASE \E p \in Projects : DeleteProjectRoutes(p)
  BY <1>5, EmptyConfig DEF DeleteProjectRoutes, TypeOK
<1>6. CASE \E gc \in GlobalConfigs \cup {Nil} : SetGlobalConfig(gc)
  BY <1>6 DEF SetGlobalConfig, TypeOK
<1>7. CASE UNCHANGED vars
  BY <1>7 DEF vars, TypeOK
<1>. QED  BY <1>1, <1>2, <1>3, <1>4, <1>5, <1>6, <1>7 DEF Next

-----------------------------------------------------------------------------
(* The inductive invariant holds initially and is preserved by every step. *)

LEMMA IInvInit == Init => IInv
BY TypeOKInit DEF Init, IInv

\* Compiled distributes over the routes.
LEMMA CompiledUnion ==
    ASSUME NEW p, NEW c1, NEW c2
    PROVE  Compiled(p, c1 \cup c2) = Compiled(p, c1) \cup Compiled(p, c2)
BY DEF Compiled

\* The templates of the routes compiled so far carry other ids than the
\* route r still to compile: the routes of a config have distinct ids.
LEMMA OtherIds ==
    ASSUME NEW p, NEW c \in Configs, NEW d \in SUBSET c, NEW r \in c, r \notin d,
           NEW t \in Compiled(p, d), NEW k
    PROVE  t.key # Key(p, k, r.id)
<1>1. PICK r2 \in d : \E k2 \in Kinds : t.key = Key(p, k2, r2.id)
  BY DEF Compiled
<1>2. r2.id # r.id
  BY <1>1 DEF Configs
<1>. QED  BY <1>1, <1>2 DEF Key

\* The step of CompileRoute(r): the project gains the templates of r.
LEMMA CompileRouteStep ==
    ASSUME IInv, NEW r \in Routes, CompileRoute(r)
    PROVE  IInv'
<1> DEFINE P == setter
           D == config \ pending
           KS == {Key(P, k, r.id) : k \in StoredKinds(r)}
<1>0. TypeOK'
  BY TypeOKStep DEF IInv, Next
<1>1. /\ P \in Projects /\ setter' = P
      /\ config \in Configs /\ config' = config
      /\ r \in config /\ r \notin D
      /\ config' \ pending' = D \cup {r}
  BY DEF CompileRoute, IInv, TypeOK
<1>2. goTemplates' = {t \in goTemplates : t.key \notin KS} \cup Compiled(P, {r})
  BY CompileEffect DEF CompileRoute
<1>3. TemplatesOf(P) = Compiled(P, D)
  BY <1>1 DEF IInv, CompileRoute
<1>4. \A t \in TemplatesOf(P) : t.key \notin KS
  BY <1>1, <1>3, OtherIds
<1>5. \A t \in Compiled(P, {r}) : t.key[1] = P
  BY DEF Compiled, Key
<1>6. TemplatesOf(P)' = TemplatesOf(P) \cup Compiled(P, {r})
  BY <1>1, <1>2, <1>4, <1>5 DEF TemplatesOf
<1>7. TemplatesOf(setter)' = Compiled(setter', config' \ pending')
  BY <1>1, <1>3, <1>6, CompiledUnion
<1>8. Table!Parses(r)
  BY DEF CompileRoute, Table!Parses, TmplOf, Kinds
<1>9. \A x \in config' \ pending' : Table!Parses(x)
  BY <1>1, <1>8 DEF IInv, CompileRoute
<1>. QED  BY <1>0, <1>7, <1>9 DEF IInv

\* Every step preserves the inductive invariant: one case per action.
LEMMA IInvStep == IInv /\ [Next]_vars => IInv'
<1> SUFFICES ASSUME IInv, [Next]_vars PROVE IInv'
  OBVIOUS
<1>0. TypeOK'
  BY TypeOKStep DEF IInv
<1>1. CASE \E p \in Projects, c \in Configs : SetProjectRoutesBegin(p, c)
  <2>1. PICK p \in Projects, c \in Configs : SetProjectRoutesBegin(p, c)
    BY <1>1
  <2>2. TemplatesOf(setter)' = {}
    BY <2>1, OwnPrefix DEF SetProjectRoutesBegin, TemplatesOf
  <2>3. config' \ pending' = {}
    BY <2>1 DEF SetProjectRoutesBegin
  <2>4. Compiled(setter', {}) = {}
    BY DEF Compiled
  <2>. QED  BY <1>0, <2>2, <2>3, <2>4 DEF IInv
<1>2. CASE \E r \in Routes : CompileRoute(r)
  BY <1>2, CompileRouteStep
<1>3. CASE \E r \in Routes : CompileRouteFails(r)
  BY <1>0, <1>3 DEF CompileRouteFails, IInv
<1>4. CASE AddProjectRoutes
  BY <1>0, <1>4 DEF AddProjectRoutes, IInv
<1>5. CASE \E p \in Projects : DeleteProjectRoutes(p)
  BY <1>0, <1>5 DEF DeleteProjectRoutes, IInv
<1>6. CASE \E gc \in GlobalConfigs \cup {Nil} : SetGlobalConfig(gc)
  BY <1>0, <1>6 DEF SetGlobalConfig, IInv
<1>7. CASE UNCHANGED vars
  BY <1>0, <1>7 DEF vars, IInv, TemplatesOf
<1>. QED  BY <1>1, <1>2, <1>3, <1>4, <1>5, <1>6, <1>7 DEF Next

\* The routing operations keep their state well typed.
THEOREM TypeCorrect == Spec => []TypeOK
BY TypeOKInit, TypeOKStep, PTL DEF Spec

\* The inductive invariant holds in every reachable state.
THEOREM IInvHolds == Spec => []IInv
BY IInvInit, IInvStep, PTL DEF Spec

(***************************************************************************)
(* For every set of projects, routes and templates: when SetProjectRoutes  *)
(* reaches addProjectRoutes, the project's templates are exactly those of  *)
(* its new routes, whatever earlier calls that failed half-way left.       *)
(***************************************************************************)
THEOREM InstalledTemplatesExactHolds == Spec => []InstalledTemplatesExact
<1>1. IInv => InstalledTemplatesExact
  BY DEF IInv, InstalledTemplatesExact
<1>. QED  BY <1>1, IInvHolds, PTL

-----------------------------------------------------------------------------
(* Refinement: every step of the operations is a step of the routing table *)
(* or leaves the table alone.                                              *)

\* The routes and global config of the table.
tableVars == <<routes, globalConfig>>

LEMMA TableInit == Init => Table!Init
BY DEF Init, Table!Init, Nil, Table!Nil

LEMMA TableStep == IInv /\ [Next]_vars => [Table!Next]_tableVars
<1> SUFFICES ASSUME IInv, [Next]_vars PROVE [Table!Next]_tableVars
  OBVIOUS
<1>1. CASE AddProjectRoutes
  <2>1. setter \in Projects /\ pending = {} /\ config \in Configs
    BY <1>1 DEF AddProjectRoutes, IInv, TypeOK
  <2>2. setter # NoSetter
    BY <2>1, RoutingAssumption
  <2>3. \A r \in config : Table!Parses(r)
    BY <2>1, <2>2 DEF IInv
  <2>4. config \in Table!Accepted
    BY <2>1, <2>3 DEF Configs, Table!Accepted
  <2>5. Table!Replace(setter, config)
    BY <1>1 DEF AddProjectRoutes, Table!Replace
  <2>. QED  BY <2>1, <2>4, <2>5 DEF Table!Next
<1>2. CASE \E p \in Projects : DeleteProjectRoutes(p)
  BY <1>2 DEF DeleteProjectRoutes, Table!Next, Table!Clear
<1>3. CASE \E gc \in GlobalConfigs \cup {Nil} : SetGlobalConfig(gc)
  <2>1. PICK gc \in GlobalConfigs \cup {Nil} : SetGlobalConfig(gc)
    BY <1>3
  <2>2. CASE gc = Nil
    BY <2>1, <2>2 DEF SetGlobalConfig, tableVars
  <2>3. CASE gc # Nil
    BY <2>1, <2>3 DEF SetGlobalConfig, Table!Next, Table!SetGlobal, Nil, Table!Nil
  <2>. QED  BY <2>2, <2>3
<1>4. CASE \/ \E p \in Projects, c \in Configs : SetProjectRoutesBegin(p, c)
           \/ \E r \in Routes : CompileRoute(r) \/ CompileRouteFails(r)
           \/ UNCHANGED vars
  BY <1>4 DEF SetProjectRoutesBegin, CompileRoute, CompileRouteFails, vars, tableVars
<1>. QED  BY <1>1, <1>2, <1>3, <1>4 DEF Next

(***************************************************************************)
(* For every set of projects, routes and templates, the operations         *)
(* implement the routing table: a project's routes are replaced whole by   *)
(* routes whose templates all parse, or cleared, and a failed              *)
(* SetProjectRoutes leaves them as they were.                              *)
(***************************************************************************)
THEOREM RoutesReplacedWholeHolds == Spec => RoutesReplacedWhole
<1>1. [][Next]_vars /\ []IInv => [][Table!Next]_tableVars
  BY TableStep, PTL
<1>. QED  BY <1>1, TableInit, IInvHolds, PTL DEF Spec, RoutesReplacedWhole, Table!Spec, tableVars
====
