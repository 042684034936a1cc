---------------------------- MODULE AreRouteChecks ----------------------------
(***************************************************************************)
(* What the checker says of a service, its routes and their handlers       *)
(* (are-typecheck/src/http.rs), one file at a time: which input of the     *)
(* request each parameter of a handler takes, that every declared input is *)
(* used, and how the errors of handlers become responses; and of the calls *)
(* in bodies (body.rs), what decides which errors and answers leave them.  *)
(* A check is the set of the diagnostics it raises.                        *)
(*                                                                         *)
(* A type is the sequence of its names: Http.Context<S> is                 *)
(* <<"Http", "Context", "S">>.                                             *)
(***************************************************************************)
EXTENDS Integers, Sequences

\* A file has the aliases it imports std.http under (http), its structs, its
\* enums (the status of every variant), its functions and its services:
\*   function  [params, reads, answers, calls, returns]: parameters [name, type];
\*             reads of its body [input, name, type]; its Http.Response calls
\*             [status, success]; its calls of functions [function, try,
\*             returned], with `?` or without, the value returned or not; the
\*             type it returns and, if that is a Result, the error
\*   service   [state, routes, uses]: uses are [target, args]
\*   route     [method, path, inputs, returns, status, handler]: path is the
\*             sequence of parameters [name, type]

Inputs == {"body", "query", "headers", "cookies"}
NoType == << >>
NoName == "none"
NoStatus == -1

-----------------------------------------------------------------------------

path_is_http(http, type, name) == Len(type) = 2 /\ type[1] \in http /\ type[2] = name

\* The inputs a parameter may take: none is Unknown, several are Ambiguous.
handler_param_source(http, route, param) ==
    IF path_is_http(http, param.type, "Request") THEN {"request"}
    ELSE IF \E i \in DOMAIN route.path : route.path[i].name = param.name THEN {"path"}
    ELSE {input \in Inputs : route.inputs[input] # NoType /\ route.inputs[input] = param.type}

\* Parameters after the context, by index.
Bindable(handler) == 2..Len(handler.params)

\* What a handler reads of an input: in its body, and by its parameters.
collect_handler_io_uses(http, route, handler) ==
    handler.reads \cup
    (UNION {{[input |-> input, name |-> handler.params[i].name, type |-> handler.params[i].type] :
               i \in {k \in Bindable(handler) :
                         handler_param_source(http, route, handler.params[k]) = {input}}} :
              input \in Inputs \cup {"path"}})

check_route_params(route) ==
    {code \in {"E_HTTP_0104"} :
        \E i, j \in DOMAIN route.path : i < j /\ route.path[i].name = route.path[j].name}

check_route_path_param_contract(route, uses) ==
    {code \in {"E_HTTP_0401", "E_HTTP_0402", "E_HTTP_0403", "E_HTTP_0404"} :
        \/ /\ code = "E_HTTP_0401"
           /\ \E i \in DOMAIN route.path :
                 /\ route.path[i].type # NoType
                 /\ \A use \in uses : use.input = "path" => use.name # route.path[i].name
        \/ /\ code = "E_HTTP_0402"
           /\ \E use \in uses, i \in DOMAIN route.path :
                 /\ use.input = "path" /\ use.name = route.path[i].name
                 /\ route.path[i].type \notin {NoType, use.type}
        \/ /\ code = "E_HTTP_0403"
           /\ \E use \in uses : /\ use.input = "path" /\ use.name # NoName
                                /\ \A i \in DOMAIN route.path : route.path[i].name # use.name
        \/ code = "E_HTTP_0404" /\ \E use \in uses : use.input = "path" /\ use.name = NoName}

\* The codes of an input that is not decoded, decoded as another type, decoded
\* and not declared, and declared with no struct or model of the file.
codes == [body    |-> <<"E_HTTP_0412", "E_HTTP_0413", "E_HTTP_0414", "E_HTTP_0411">>,
          query   |-> <<"E_HTTP_0431", "E_HTTP_0432", "E_HTTP_0433", "E_HTTP_0430">>,
          headers |-> <<"E_HTTP_0441", "E_HTTP_0442", "E_HTTP_0443", "E_HTTP_0440">>,
          cookies |-> <<"E_HTTP_0451", "E_HTTP_0452", "E_HTTP_0453", "E_HTTP_0450">>]

check_route_decode_contracts(route, uses) ==
    LET types(input) == {use.type : use \in {u \in uses : u.input = input}}
        declared(input) == route.inputs[input] # NoType
    IN  {codes[input][1] : input \in {i \in Inputs : declared(i) /\ types(i) = {}}}
        \cup {codes[input][2] : input \in {i \in Inputs :
                  declared(i) /\ types(i) # {} /\ route.inputs[i] \notin types(i)}}
        \cup {codes[input][3] : input \in {i \in Inputs : ~declared(i) /\ types(i) # {}}}

check_route_input_types(file, route) ==
    {codes[input][4] : input \in {i \in Inputs :
        route.inputs[i] # NoType /\ ~\E s \in file.structs : route.inputs[i] = <<s>>}}
    \cup {code \in {"E_HTTP_0410"} :
              route.inputs["body"] # NoType /\ route.method \notin {"POST", "PUT", "PATCH"}}

check_route_handler_params(http, route, handler) ==
    {code \in {"E_HTTP_0205", "E_HTTP_0206"} :
        \/ /\ code = "E_HTTP_0205"
           /\ \E i \in Bindable(handler) :
                 \A source \in Inputs \cup {"path", "request"} :
                     handler_param_source(http, route, handler.params[i]) # {source}
        \/ /\ code = "E_HTTP_0206"
           /\ \E i, j \in Bindable(handler), source \in Inputs \cup {"path", "request"} :
                 /\ i < j
                 /\ handler_param_source(http, route, handler.params[i]) = {source}
                 /\ handler_param_source(http, route, handler.params[j]) = {source}
                 /\ source = "path" => handler.params[i].name = handler.params[j].name}

Successes(handler) == {answer.status : answer \in {a \in handler.answers : a.success}}

\* Mutant: one answer with the declared status is enough.
some_success_has_status(route, handler) ==
    {code \in {"E_HTTP_0423"} :
        Successes(handler) # {} /\ route.status \notin Successes(handler) \cup {NoStatus}}

\* Http.Response.error is not looked at, whatever its status.
check_route_handler_status(route, handler) ==
    {code \in {"E_HTTP_0423"} :
        route.status # NoStatus /\ \E status \in Successes(handler) : status # route.status}

valid_return(http, route, returns) ==
    \/ path_is_http(http, returns.ok, "Response")
    \/ route.returns # NoType /\ returns.ok = route.returns

check_route_handler(http, state, route, handler) ==
    IF handler.params = << >> THEN {"E_HTTP_0201"}
    ELSE check_route_handler_params(http, route, handler) \cup
         {code \in {"E_HTTP_0202", "E_HTTP_0204"} :
            \/ /\ code = "E_HTTP_0202"
               /\ ~\E alias \in http : handler.params[1].type = <<alias, "Context">> \o state
            \/ code = "E_HTTP_0204" /\ ~valid_return(http, route, handler.returns)}

\* The error a route hands to the mapping of its service.
route_error(http, route, handler) ==
    IF handler.params # << >> /\ valid_return(http, route, handler.returns)
    THEN {handler.returns.error} \ {NoType} ELSE {}

check_error_mapper(file, mapper, error) ==
    {code \in {"E_HTTP_0305", "E_HTTP_0306", "E_HTTP_0307", "E_HTTP_0308"} :
        \/ code = "E_HTTP_0305" /\ mapper \notin DOMAIN file.functions
        \/ /\ mapper \in DOMAIN file.functions
           /\ LET function == file.functions[mapper]
              IN  \/ code = "E_HTTP_0306" /\ Len(function.params) # 1
                  \/ /\ Len(function.params) = 1
                     /\ \/ code = "E_HTTP_0307" /\ function.params[1].type # error
                        \/ /\ code = "E_HTTP_0308"
                           /\ ~(/\ path_is_http(file.http, function.returns.ok, "Response")
                                /\ function.returns.error = NoType)}

\* Mutant: a variant may go without a status.
error_contract_without_statuses(file, enum, error) ==
    {code \in {"E_HTTP_0310"} : <<enum>> # error \/ enum \notin DOMAIN file.enums}

check_error_contract(file, enum, error) ==
    {code \in {"E_HTTP_0310", "E_HTTP_0311"} :
        \/ code = "E_HTTP_0310" /\ (<<enum>> # error \/ enum \notin DOMAIN file.enums)
        \/ /\ code = "E_HTTP_0311" /\ <<enum>> = error /\ enum \in DOMAIN file.enums
           /\ \E v \in DOMAIN file.enums[enum] : file.enums[enum][v] \notin 400..599}

\* The uses of a service that std.http gives the name.
http_uses(file, service, name) ==
    {i \in DOMAIN service.uses : path_is_http(file.http, service.uses[i].target, name)}

\* A service none of whose routes raises needs no mapping, and has the ones
\* it names unchecked.  (Where errors differ, the checker compares mappings
\* with the first one only; it has raised E_HTTP_0301 by then.)
check_error_mapping(file, service, error_types) ==
    LET maps == http_uses(file, service, "error_map")
        contracts == http_uses(file, service, "errors")
    IN  {code \in {"E_HTTP_0301", "E_HTTP_0302", "E_HTTP_0303", "E_HTTP_0304"} :
            /\ error_types # {}
            /\ \/ code = "E_HTTP_0301" /\ \E e1, e2 \in error_types : e1 # e2
               \/ code = "E_HTTP_0302" /\ maps \cup contracts = {}
               \/ code = "E_HTTP_0303" /\ \E i, j \in maps \cup contracts : i # j
               \/ code = "E_HTTP_0304" /\ \E i \in maps \cup contracts : Len(service.uses[i].args) # 1}
        \cup (UNION {UNION {check_error_mapper(file, service.uses[i].args[1], error) : error \in error_types} :
                        i \in {m \in maps : Len(service.uses[m].args) = 1}})
        \cup (UNION {UNION {check_error_contract(file, service.uses[i].args[1], error) : error \in error_types} :
                        i \in {c \in contracts : Len(service.uses[c].args) = 1}})

-----------------------------------------------------------------------------

\* A route whose handler is no function of its file is not checked further:
\* the resolver refuses it.
check_route(file, state, route) ==
    {code \in {"E_RESOLVE_0002"} : route.handler \notin DOMAIN file.functions}
    \cup check_route_params(route) \cup check_route_input_types(file, route)
    \cup (UNION {LET uses == collect_handler_io_uses(file.http, route, handler)
                 IN  check_route_path_param_contract(route, uses)
                     \cup check_route_decode_contracts(route, uses)
                     \cup check_route_handler_status(route, handler)
                     \cup check_route_handler(file.http, state, route, handler) :
                handler \in {file.functions[f] : f \in {route.handler} \cap DOMAIN file.functions}})

error_types(file, service) ==
    UNION {route_error(file.http, service.routes[i], file.functions[service.routes[i].handler]) :
              i \in {j \in DOMAIN service.routes :
                        service.routes[j].handler \in DOMAIN file.functions}}

check_service(file, service) ==
    IF file.http = {} THEN {"E_HTTP_0001"}
    ELSE IF service.state = NoType THEN {"E_HTTP_0002"}
    ELSE {code \in {"E_HTTP_0003"} : ~\E s \in file.structs : service.state = <<s>>}
         \cup (UNION {check_route(file, service.state, service.routes[i]) :
                         i \in DOMAIN service.routes})
         \cup check_error_mapping(file, service, error_types(file, service))

\* Mutant: the errors are not compared.
any_error_may_leave(function, returns) ==
    {code \in {"E_BODY_0005"} : NoType \in {returns.error, function.returns.error}}

\* `?` takes the error of a Result that fails with the function's own.
check_try(function, returns) ==
    {code \in {"E_BODY_0005", "E_BODY_0006"} :
        IF NoType \in {returns.error, function.returns.error} THEN code = "E_BODY_0005"
        ELSE code = "E_BODY_0006" /\ returns.error # function.returns.error}

\* What is returned has the function's type, or that of its success.
return_accepts(expected, actual) ==
    /\ expected.ok # NoType /\ actual.ok = expected.ok
    /\ actual.error \in {expected.error, NoType}

\* A call without `?` may fail with any error: nothing more is asked of it.
check_call(file, function, call) ==
    IF call.function \notin DOMAIN file.functions THEN {"E_BODY_0003"}
    ELSE LET returns == file.functions[call.function].returns
             value == IF call.try THEN [returns EXCEPT !.error = NoType] ELSE returns
         IN  {code \in check_try(function, returns) : call.try}
             \cup {code \in {"E_BODY_0009"} :
                      call.returned /\ ~return_accepts(function.returns, value)}

check_function(file, function) ==
    {code \in {"E_TYPE_0003"} :
        \E i, j \in DOMAIN function.params :
            i < j /\ function.params[i].name = function.params[j].name}
    \cup (UNION {check_call(file, function, call) : call \in function.calls})

check_file(file) ==
    (UNION {check_function(file, file.functions[f]) : f \in DOMAIN file.functions})
    \cup (UNION {check_service(file, file.services[i]) : i \in DOMAIN file.services})

=============================================================================
