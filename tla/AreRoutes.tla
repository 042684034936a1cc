------------------------------- MODULE AreRoutes -------------------------------
(***************************************************************************)
(* From the routes a service declares to the route a request is served by  *)
(* (crates/are-resolver/src/lib.rs, are-typecheck/src/http.rs,             *)
(* are-http-runtime/src/contracts.rs and openapi.rs): routes are checked   *)
(* as they are declared, a service without errors is prepared, and then    *)
(* each request is given to the first declared route that matches it.  The *)
(* same routes are exported as the paths of an OpenAPI document.           *)
(*                                                                         *)
(* A path is the sequence of its segments as split at `/`, so an absolute  *)
(* path begins with an empty segment, and two paths are the same text iff  *)
(* they are the same sequence.                                             *)
(***************************************************************************)
EXTENDS Naturals, SequencesExt, AreSequences

CONSTANTS
    Methods,        \* methods routes and requests may have
    Paths,          \* paths routes may be declared with
    Requested,      \* paths requests may have: sequences of texts
    Identifiers,    \* names a parameter may have
    KnownTypes,     \* builtin and local types a parameter may name
    MaxRoutes       \* bound: routes of a service

\* A segment names a type, or "none".
Segment == [kind : {"literal", "colon", "brace", "malformed"}, name : STRING,
            type : STRING \cup {"none"}]

ASSUME PathAssumption ==
    /\ Paths \subseteq Seq(Segment) /\ Requested \subseteq Seq(STRING)
    /\ MaxRoutes \in Nat

VARIABLES
    stage,      \* "check", "serve" or "refused"
    routes,     \* the routes declared so far: [method, path]
    errors,     \* codes of the diagnostics raised for them
    docs,       \* the exported document: docs[<<template, method>>] is a route
    served      \* the last request: [method, path, route, params]

vars == <<stage, routes, errors, docs, served>>

-----------------------------------------------------------------------------
\* Segments of a declared path.

Literal(text) == [kind |-> "literal", name |-> text, type |-> "none"]
Colon(name) == [kind |-> "colon", name |-> name, type |-> "none"]           \* :name
Braced(name, type) == [kind |-> "brace", name |-> name, type |-> type]      \* {name: type}
Malformed(text) == [kind |-> "malformed", name |-> text, type |-> "none"]   \* {name

Empty == Literal("")
IsParam(segment) == segment.kind \in {"colon", "brace"}

\* The names of a path's parameters, in order.
ParamNames(path) ==
    LET params == SelectAt(path, {i \in DOMAIN path : IsParam(path[i])})
    IN  [i \in DOMAIN params |-> params[i].name]

-----------------------------------------------------------------------------
\* The checks on a route, given the routes declared before it.

SupportedMethods == {"GET", "POST", "PUT", "PATCH", "DELETE", "HEAD", "OPTIONS"}

\* A parameter without a proper name is reported and passed over.
NamedParams(path) ==
    LET names == ParamNames(path)
    IN  SelectAt(names, {i \in DOMAIN names : names[i] \in Identifiers})

\* Mutant: a repeated parameter name is let through.
check_route_params_once(path) ==
    {code \in {"E_HTTP_0103", "E_HTTP_0105"} :
        \/ code = "E_HTTP_0103" /\ ~(Range(ParamNames(path)) \subseteq Identifiers)
        \/ code = "E_HTTP_0105" /\ \E i \in DOMAIN path : path[i].kind = "malformed"}

check_route_params(path) ==
    {code \in {"E_HTTP_0103", "E_HTTP_0104", "E_HTTP_0105", "E_HTTP_0106"} :
        \/ code = "E_HTTP_0103" /\ ~(Range(ParamNames(path)) \subseteq Identifiers)
        \/ code = "E_HTTP_0104" /\ ~IsInjective(NamedParams(path))
        \/ code = "E_HTTP_0105" /\ \E i \in DOMAIN path : path[i].kind = "malformed"
        \/ code = "E_HTTP_0106" /\ \E i \in DOMAIN path :
               /\ path[i].kind = "brace" /\ path[i].name \in Identifiers
               /\ path[i].type \notin KnownTypes \cup {"none"}}

check_route_shape(route) ==
    {code \in {"E_HTTP_0101", "E_HTTP_0102"} :
        \/ code = "E_HTTP_0101" /\ route.method \notin SupportedMethods
        \/ code = "E_HTTP_0102" /\ Head(route.path) # Empty}
    \cup check_route_params(route.path)

\* The resolver compares routes by method and path text.
resolve_route(route) == {code \in {"E_RESOLVE_0005"} : route \in Range(routes)}

-----------------------------------------------------------------------------
\* Matching.  Empty segments count on neither side.

pattern_parts(path) == SelectAt(path, {i \in DOMAIN path : path[i] # Empty})
path_parts(path) == SelectAt(path, {i \in DOMAIN path : path[i] # ""})

NoMatch == [matched |-> FALSE, params |-> << >>]

\* Mutant: a pattern matches every path it is a prefix of.
match_prefix(pattern, path) ==
    LET p == pattern_parts(pattern)
        q == path_parts(path)
        At(name) == {i \in DOMAIN p : IsParam(p[i]) /\ p[i].name = name}
    IN  IF Len(p) > Len(q) \/ \E i \in DOMAIN p : ~IsParam(p[i]) /\ p[i].name # q[i]
        THEN NoMatch
        ELSE [matched |-> TRUE,
              params |-> [name \in Range(ParamNames(pattern)) |-> q[Max(At(name))]]]

\* A later parameter of the same name replaces an earlier one.
match_route(pattern, path) ==
    LET p == pattern_parts(pattern)
        q == path_parts(path)
        At(name) == {i \in DOMAIN p : IsParam(p[i]) /\ p[i].name = name}
    IN  IF Len(p) # Len(q) \/ \E i \in DOMAIN p : ~IsParam(p[i]) /\ p[i].name # q[i]
        THEN NoMatch
        ELSE [matched |-> TRUE,
              params |-> [name \in Range(ParamNames(pattern)) |-> q[Max(At(name))]]]

\* The index of the first declared route for a request, 0 for none.
route_for(method, path) ==
    LET candidates == {i \in DOMAIN routes :
                          routes[i].method = method /\ match_route(routes[i].path, path).matched}
    IN  IF candidates = {} THEN 0 ELSE Min(candidates)

-----------------------------------------------------------------------------
\* The paths of the OpenAPI document.  A parameter loses its spelling and
\* its type; an operation under the same path and method is replaced.

openapi_path(path) ==
    [i \in DOMAIN path |-> IF IsParam(path[i]) THEN Braced(path[i].name, "none") ELSE path[i]]

\* Mutant: a route replaces the whole item of its path, not its method's.
paths_overwritten(service) ==
    LET Key(i) == <<openapi_path(service[i].path), service[i].method>>
        Replaced(i) == \E j \in DOMAIN service : j > i /\ Key(j)[1] = Key(i)[1]
    IN  [key \in {Key(i) : i \in {j \in DOMAIN service : ~Replaced(j)}} |->
            CHOOSE i \in DOMAIN service : Key(i) = key /\ ~Replaced(i)]

paths(service) ==
    LET Key(i) == <<openapi_path(service[i].path), service[i].method>>
    IN  [key \in {Key(i) : i \in DOMAIN service} |-> Max({i \in DOMAIN service : Key(i) = key})]

-----------------------------------------------------------------------------

NoRequest == [method |-> "none", path |-> << >>, route |-> 0, params |-> << >>]

Init ==
    /\ stage = "check"
    /\ routes = << >> /\ errors = {}
    /\ docs = << >> /\ served = NoRequest

\* One route of the service is checked.
Declare(method, path) ==
    /\ stage = "check" /\ Len(routes) < MaxRoutes
    /\ LET route == [method |-> method, path |-> path]
       IN  /\ routes' = Append(routes, route)
           /\ errors' = errors \cup resolve_route(route) \cup check_route_shape(route)
    /\ UNCHANGED <<stage, docs, served>>

\* Mutant: diagnostics do not keep a service from being prepared.
PrepareAnyway ==
    /\ stage = "check"
    /\ IF routes = << >>
       THEN stage' = "refused" /\ UNCHANGED docs
       ELSE stage' = "serve" /\ docs' = paths(routes)
    /\ UNCHANGED <<routes, errors, served>>

\* A service with errors, or without a route, is not prepared.
Prepare ==
    /\ stage = "check"
    /\ IF errors # {} \/ routes = << >>
       THEN stage' = "refused" /\ UNCHANGED docs
       ELSE stage' = "serve" /\ docs' = paths(routes)
    /\ UNCHANGED <<routes, errors, served>>

Serve(method, path) ==
    /\ stage = "serve"
    /\ LET i == route_for(method, path)
       IN  served' = [method |-> method, path |-> path, route |-> i,
                      params |-> IF i = 0 THEN << >> ELSE match_route(routes[i].path, path).params]
    /\ UNCHANGED <<stage, routes, errors, docs>>

Next ==
    \/ \E method \in Methods, path \in Paths : Declare(method, path)
    \/ Prepare
    \/ \E method \in Methods, path \in Requested : Serve(method, path)

Spec == Init /\ [][Next]_vars

-----------------------------------------------------------------------------
(***************************************************************************)
(* Properties.                                                             *)
(***************************************************************************)

\* The reference for matching: a path is an instance of a pattern if some
\* assignment of texts to the parameters spells it.
Spells(params, pattern, path) ==
    path_parts(path) =
        [i \in DOMAIN pattern_parts(pattern) |->
            LET segment == pattern_parts(pattern)[i]
            IN  IF IsParam(segment) THEN params[segment.name] ELSE segment.name]

IsInstance(path, pattern) ==
    \E params \in [Range(ParamNames(pattern)) -> Range(path_parts(path))] :
        Spells(params, pattern, path)

\* The service has its types, and what is served is served by a service
\* without errors.
TypeOK ==
    /\ stage \in {"check", "serve", "refused"}
    /\ routes \in Seq([method : Methods, path : Paths]) /\ Len(routes) <= MaxRoutes
    /\ stage = "serve" => errors = {} /\ routes # << >>
    /\ served # NoRequest => stage = "serve" /\ served.route \in 0..Len(routes)

\* The parameters of a served request, put in place of their names, spell
\* the path that was requested: none is lost or swapped.  A handler argument
\* bound to the path is the text that stood there, which needs both the
\* runtime's matching and the checker's unique names.
ParamsSpellThePath ==
    served.route # 0 => Spells(served.params, routes[served.route].path, served.path)

\* A request is served by the first declared route it is an instance of, and
\* by none only if it is an instance of none: empty segments apart, the
\* position of a route never makes the runtime miss it.
FirstInstanceServes ==
    served # NoRequest =>
        LET instances == {i \in DOMAIN routes : /\ routes[i].method = served.method
                                                /\ IsInstance(served.path, routes[i].path)}
        IN  IF instances = {} THEN served.route = 0
            ELSE served.route \in instances /\ \A i \in instances : served.route <= i

\* A client that follows the document is served, and what is served is in
\* it: a request gets a route iff it is an instance of a documented path
\* that has its method.
ServedIffDocumented ==
    served # NoRequest =>
        (served.route # 0 <=> \E key \in DOMAIN docs :
                                 key[2] = served.method /\ IsInstance(served.path, key[1]))

=============================================================================
