------------------------------ MODULE AreBinding ------------------------------
(***************************************************************************)
(* What the runtime makes of a checked service (contracts.rs, functions.rs *)
(* and response.rs of are-http-runtime).  It keeps none of the checker's   *)
(* results: it finds service, handler, mapper and error enum by name among *)
(* all files, and at every request settles again, its own way, which input *)
(* each parameter takes and how an error is answered.                      *)
(*                                                                         *)
(* A function is any program whose own statements answer, return and raise *)
(* what it declares (AreChecked), and that calls others: what they raise   *)
(* leaves through it, what they answer when it returns that.  Decoding an  *)
(* input works or raises the host's InvalidInput (AreProject tells when).  *)
(***************************************************************************)
EXTENDS AreRouteChecks

CONSTANTS Projects      \* sequences of files, in the order of their paths

VARIABLES
    files,      \* the project
    checked,    \* how many of its files are checked
    errors,     \* codes of the diagnostics raised for them
    phase,      \* "check", "refused", "idle", "args", "handler", "mapper"
    manifest,   \* the contracts: [routes, error_mapper, error_contract]
    route,      \* the route of the current request
    args,       \* how many arguments of its handler are evaluated
    bound,      \* the inputs they took: [param, input, type]
    raised,     \* the error raised for it
    resp        \* the response: [status, code]

vars == <<files, checked, errors, phase, manifest, route, args, bound, raised, resp>>

None == "none"
Response(status, code) == [status |-> status, code |-> code]
NoResponse == Response(NoStatus, None)
Raised(by, enum, variant) == [by |-> by, enum |-> enum, variant |-> variant]
NotRaised == Raised(None, None, None)
NoManifest == [routes |-> << >>, error_mapper |-> None, error_contract |-> None]
NoRoute == [handler |-> None]

\* The codes the runtime answers with by itself.
Codes == {"answered", "returned", "mapped", "handler_not_found", "interpreter_error",
          "invalid_response", "invalid_response_status", "error_contract_mismatch",
          "error_contract_missing", "error_mapper_missing", "error_mapper_failed", None}

\* Files, parameters and uses are numbered; a variant is told from the codes
\* of the runtime, and a name from no name.
ASSUME ProjectAssumption ==
    \A project \in Projects :
        /\ Len(project) \in Nat /\ DOMAIN project = 1..Len(project)
        /\ \A i \in DOMAIN project :
              /\ \A f \in DOMAIN project[i].functions :
                    /\ Len(project[i].functions[f].params) \in Nat
                    /\ DOMAIN project[i].functions[f].params = 1..Len(project[i].functions[f].params)
              /\ \A e \in DOMAIN project[i].enums : DOMAIN project[i].enums[e] \cap Codes = {}
              /\ \A s \in DOMAIN project[i].services :
                    /\ DOMAIN project[i].services[s].uses \subseteq Nat
                    /\ \A u \in DOMAIN project[i].services[s].uses :
                          project[i].services[s].uses[u].args # << >> =>
                              project[i].services[s].uses[u].args[1] # None

-----------------------------------------------------------------------------
\* The project, as the runtime sees it: one table of functions, where a
\* later file replaces what an earlier one declared, and one of enums, where
\* the first one found is taken.

Declaring(kind, name) == {i \in DOMAIN files : name \in DOMAIN files[i][kind]}
LastOf(indices) == CHOOSE i \in indices : \A j \in indices : j <= i
FirstOf(indices) == CHOOSE i \in indices : \A j \in indices : i <= j

FileOf(name) == files[LastOf(Declaring("functions", name))]
function(name) == FileOf(name).functions[name]
enum_schema(name) == files[FirstOf(Declaring("enums", name))].enums[name]

\* What runs when a function is called, and what gives the value it returns:
\* the function and all that is called, or returned, from there.
FunctionNames == UNION {DOMAIN files[i].functions : i \in DOMAIN files}
Calls == UNION {{<<f, call.function>> : call \in function(f).calls} : f \in FunctionNames}
ReturnedCalls == UNION {{<<f, call.function>> : call \in {c \in function(f).calls : c.returned}} :
                          f \in FunctionNames}
Closed(set, edges) == \A edge \in edges : edge[1] \in set => edge[2] \in set
Reached(f, edges) ==
    {g \in FunctionNames :
        \A set \in SUBSET FunctionNames : f \in set /\ Closed(set, edges) => g \in set}

ServicePlaces == UNION {{<<i, j>> : j \in DOMAIN files[i].services} : i \in DOMAIN files}

\* The first use of the name, whatever it is a member of, that has arguments.
runtime_use(service, name) ==
    LET uses == {i \in DOMAIN service.uses :
                    /\ service.uses[i].target[Len(service.uses[i].target)] = name
                    /\ service.uses[i].args # << >>}
    IN  IF uses = {} THEN None ELSE service.uses[FirstOf(uses)].args[1]

from_service(service) ==
    [routes |-> service.routes,
     error_mapper |-> runtime_use(service, "error_map"),
     error_contract |-> runtime_use(service, "errors")]

-----------------------------------------------------------------------------
\* One argument.

\* Any type `X.Request`, not only the one of std.http, is the raw request.
is_http_request_type(type) == Len(type) = 2 /\ type[2] = "Request"

\* By name for the parameters of the path, by type for the other inputs.
takes(r, input, param) ==
    IF input = "path" THEN \E k \in DOMAIN r.path : r.path[k].name = param.name
    ELSE r.inputs[input] # NoType /\ r.inputs[input] = param.type

\* Mutant: inputs are looked at before the parameters of the path.
input_before_path(r, i, param) ==
    IF i = 1 \/ is_http_request_type(param.type) THEN "unit"
    ELSE IF takes(r, "body", param) THEN "body"
    ELSE IF takes(r, "query", param) THEN "query"
    ELSE IF takes(r, "path", param) THEN "path"
    ELSE IF takes(r, "headers", param) THEN "headers"
    ELSE IF takes(r, "cookies", param) THEN "cookies"
    ELSE None

handler_arg_input(r, i, param) ==
    IF i = 1 \/ is_http_request_type(param.type) THEN "unit"
    ELSE IF takes(r, "path", param) THEN "path"
    ELSE IF takes(r, "body", param) THEN "body"
    ELSE IF takes(r, "query", param) THEN "query"
    ELSE IF takes(r, "headers", param) THEN "headers"
    ELSE IF takes(r, "cookies", param) THEN "cookies"
    ELSE None

-----------------------------------------------------------------------------

Init ==
    /\ files \in Projects
    /\ checked = 0 /\ errors = {}
    /\ phase = "check"
    /\ manifest = NoManifest /\ route = NoRoute
    /\ args = 0 /\ bound = {} /\ raised = NotRaised /\ resp = NoResponse

CheckFile ==
    /\ phase = "check" /\ checked < Len(files)
    /\ checked' = checked + 1
    /\ errors' = errors \cup check_file(files[checked + 1])
    /\ UNCHANGED <<files, phase, manifest, route, args, bound, raised, resp>>

\* Mutant: a project is prepared before all its files are checked.
prepare_early ==
    /\ phase = "check" /\ errors = {}
    /\ \E place \in ServicePlaces :
          manifest' = from_service(files[place[1]].services[place[2]])
    /\ phase' = "idle"
    /\ UNCHANGED <<files, checked, errors, route, args, bound, raised, resp>>

\* A project with diagnostics, without a service or with several is refused,
\* and so is a service without routes.
prepare_project ==
    /\ phase = "check" /\ checked = Len(files)
    /\ \/ /\ errors = {}
          /\ \E place \in ServicePlaces :
                /\ ServicePlaces = {place}
                /\ files[place[1]].services[place[2]].routes # << >>
                /\ manifest' = from_service(files[place[1]].services[place[2]])
          /\ phase' = "idle"
       \/ /\ \/ errors # {}
             \/ \A place \in ServicePlaces :
                   \/ ServicePlaces # {place}
                   \/ files[place[1]].services[place[2]].routes = << >>
          /\ phase' = "refused" /\ UNCHANGED manifest
    /\ UNCHANGED <<files, checked, errors, route, args, bound, raised, resp>>

Respond(status, code) == phase' = "idle" /\ resp' = Response(status, code)

\* An error contract has precedence over a mapper.
mapped_error_response(error) ==
    /\ raised' = error
    /\ IF manifest.error_contract # None
       THEN IF error.enum # manifest.error_contract
            THEN Respond(500, "error_contract_mismatch")
            ELSE IF \/ Declaring("enums", error.enum) = {}
                    \/ error.variant \notin DOMAIN enum_schema(error.enum)
                    \/ enum_schema(error.enum)[error.variant] = NoStatus
                 THEN Respond(500, "error_contract_missing")
                 ELSE Respond(enum_schema(error.enum)[error.variant], error.variant)
       ELSE IF \/ manifest.error_mapper = None
               \/ Declaring("functions", manifest.error_mapper) = {}
            THEN Respond(500, "error_mapper_missing")
            ELSE phase' = "mapper" /\ UNCHANGED resp

HostError(variant) == Raised("host", "ApiError", variant)

Dispatch(r) ==
    /\ phase = "idle"
    /\ route' = r /\ args' = 0 /\ bound' = {} /\ raised' = NotRaised
    /\ IF Declaring("functions", r.handler) = {}
       THEN Respond(500, "handler_not_found")
       ELSE phase' = "args" /\ resp' = NoResponse
    /\ UNCHANGED <<files, checked, errors, manifest>>

\* The next argument; decoding an input may fail.
handler_arg ==
    /\ phase = "args" /\ args < Len(function(route.handler).params)
    /\ LET param == function(route.handler).params[args + 1]
           input == handler_arg_input(route, args + 1, param)
       IN  \/ /\ input = None
              /\ Respond(500, "interpreter_error")
              /\ UNCHANGED <<args, bound, raised>>
           \/ /\ input # None
              /\ args' = args + 1
              /\ bound' = bound \cup {[param |-> args + 1, input |-> input, type |-> param.type]}
              /\ UNCHANGED <<phase, raised, resp>>
           \/ /\ input \notin {None, "unit"}
              /\ mapped_error_response(HostError("InvalidInput"))
              /\ UNCHANGED <<args, bound>>
    /\ UNCHANGED <<files, checked, errors, manifest, route>>

HandlerStarts ==
    /\ phase = "args" /\ args = Len(function(route.handler).params)
    /\ phase' = "handler"
    /\ UNCHANGED <<files, checked, errors, manifest, route, args, bound, raised, resp>>

\* The response contract: errors pass, a success has the declared status.
apply_route_response_contract(status, code) ==
    IF status < 400 /\ route.status \notin {NoStatus, status}
    THEN Respond(500, "invalid_response_status")
    ELSE Respond(status, code)

\* It answers itself, or returns what a function it calls answers.
HandlerAnswers ==
    /\ phase = "handler" /\ Len(function(route.handler).returns.ok) = 2
    /\ \E f \in Reached(route.handler, ReturnedCalls) : \E answer \in function(f).answers :
          apply_route_response_contract(answer.status, "answered")
    /\ UNCHANGED <<files, checked, errors, manifest, route, args, bound, raised>>

\* A payload takes the status of the route, and may not be of its type.
HandlerReturns ==
    /\ phase = "handler" /\ Len(function(route.handler).returns.ok) # 2
    /\ \/ Respond(IF route.status = NoStatus THEN 200 ELSE route.status, "returned")
       \/ /\ function(route.handler).returns.ok # route.returns
          /\ Respond(500, "invalid_response")
    /\ UNCHANGED <<files, checked, errors, manifest, route, args, bound, raised>>

\* A read or a call of the store fails, in the handler or in what it calls.
HostFails ==
    /\ phase = "handler"
    /\ \E variant \in {"InvalidInput", "NotFound"} : mapped_error_response(HostError(variant))
    /\ UNCHANGED <<files, checked, errors, manifest, route, args, bound>>

\* The handler, or a function that runs for it, raises a variant of the error
\* it declares, an enum of its own file: nothing on the way catches it.
HandlerRaises ==
    /\ phase = "handler"
    /\ \E f \in Reached(route.handler, Calls) : \E enum \in DOMAIN FileOf(f).enums :
          /\ function(f).returns.error = <<enum>>
          /\ \E variant \in DOMAIN FileOf(f).enums[enum] :
                mapped_error_response(Raised("handler", enum, variant))
    /\ UNCHANGED <<files, checked, errors, manifest, route, args, bound>>

\* The mapper answers, or fails: it does when it has not one parameter.
MapperEnds ==
    /\ phase = "mapper"
    /\ \/ /\ Len(function(manifest.error_mapper).params) = 1
          /\ \E f \in Reached(manifest.error_mapper, ReturnedCalls) : \E answer \in function(f).answers :
                apply_route_response_contract(answer.status, "mapped")
       \/ Respond(500, "error_mapper_failed")
    /\ UNCHANGED <<files, checked, errors, manifest, route, args, bound, raised>>

Next ==
    \/ CheckFile \/ prepare_project
    \/ \E i \in DOMAIN manifest.routes : Dispatch(manifest.routes[i])
    \/ handler_arg \/ HandlerStarts \/ HandlerAnswers \/ HandlerReturns
    \/ HostFails \/ HandlerRaises \/ MapperEnds

Spec == Init /\ [][Next]_vars

-----------------------------------------------------------------------------
(***************************************************************************)
(* Properties.                                                             *)
(***************************************************************************)

Phases == {"check", "refused", "idle", "args", "handler", "mapper"}

\* A project is served only when all its files are checked and no file has a
\* diagnostic, its routes are those of the one service it has, and what is
\* bound was bound for the current request.
TypeOK ==
    /\ checked \in 0..Len(files) /\ phase \in Phases
    /\ phase \notin {"check", "refused"} => checked = Len(files) /\ errors = {}
    /\ errors = UNION {check_file(files[i]) : i \in 1..checked}
    /\ args \in Nat /\ \A b \in bound : b.param \in 1..args
    /\ phase = "mapper" => manifest.error_mapper # None /\ raised # NotRaised

\* No function and no enum is declared in two files.
UniqueNames ==
    \A i, j \in DOMAIN files : i # j =>
        /\ DOMAIN files[i].functions \cap DOMAIN files[j].functions = {}
        /\ DOMAIN files[i].enums \cap DOMAIN files[j].enums = {}

\* Members named Request, errors and error_map are those of std.http: the
\* runtime does not look at what they are members of.
OnlyHttp ==
    \A i \in DOMAIN files :
        /\ \A f \in DOMAIN files[i].functions : \A k \in DOMAIN files[i].functions[f].params :
              is_http_request_type(files[i].functions[f].params[k].type)
              => path_is_http(files[i].http, files[i].functions[f].params[k].type, "Request")
        /\ \A s \in DOMAIN files[i].services : \A u \in DOMAIN files[i].services[s].uses :
              \A name \in {"errors", "error_map"} :
                  LET target == files[i].services[s].uses[u].target
                  IN  target[Len(target)] = name => path_is_http(files[i].http, target, name)

Param(b) == function(route.handler).params[b.param]

\* What the handler holds comes from the inputs its route declares: a path
\* parameter is decoded as the type the path gives it, no input is handed
\* over twice, and only the context and the raw request are no input.
BoundAsDeclared ==
    /\ \A b \in bound : b.input = "unit" =>
          b.param = 1 \/ path_is_http(FileOf(route.handler).http, b.type, "Request")
    /\ \A b \in bound : b.input = "path" =>
          \A k \in DOMAIN route.path :
              route.path[k].name = Param(b).name => route.path[k].type \in {NoType, b.type}
    /\ \A b1, b2 \in bound : b1.input = b2.input /\ b1.param # b2.param =>
          b1.input = "unit" \/ (b1.input = "path" /\ Param(b1).name # Param(b2).name)

\* And every input the route declares is bound or read.
DeclaredIsUsed ==
    /\ \A input \in Inputs : route.inputs[input] # NoType =>
          \/ \E b \in bound : b.input = input
          \/ \E use \in function(route.handler).reads :
                use.input = input /\ use.type = route.inputs[input]
    /\ \A k \in DOMAIN route.path : route.path[k].type # NoType =>
          \/ \E b \in bound : b.input = "path" /\ Param(b).name = route.path[k].name
          \/ \E use \in function(route.handler).reads :
                /\ use.input = "path"
                /\ use.name = route.path[k].name /\ use.type = route.path[k].type

\* In a project that passed the checks no request meets a parameter that
\* takes no input, a handler gets its inputs as the route declares them, and
\* the route declares nothing that is dropped: the runtime binds by another
\* order of questions than the checker, and finds the handler by name.
InputsReachTheHandler ==
    UniqueNames /\ OnlyHttp =>
        /\ resp.code # "interpreter_error"
        /\ phase \in {"args", "handler"} => BoundAsDeclared
        /\ phase = "handler" => DeclaredIsUsed

\* In all that runs for the handler, a call that may fail is followed by `?` or
\* is returned as it is.  The checker lets other calls pass as well.
Tested ==
    \A f \in Reached(route.handler, Calls) : \A call \in function(f).calls :
        call.try \/ call.returned \/ function(call.function).returns.error = NoType

\* Where calls are tested, whatever leaves a handler, raised by it or by a
\* function any number of calls below, is of the one enum it declares; and an
\* error of that enum is answered by the mapping its service was checked with:
\* the status of its variant, an error status, or what the mapper says.  The
\* checker reads calls, enum and mapper in one file; the runtime searches all.
RaisedErrorsAreMapped ==
    raised.by = "handler" /\ UniqueNames /\ OnlyHttp =>
        /\ Tested => function(route.handler).returns.error = <<raised.enum>>
        /\ function(route.handler).returns.error = <<raised.enum>> =>
              IF manifest.error_contract # None
              THEN resp.code = raised.variant /\ resp.status \in 400..599
              ELSE /\ resp.code \notin {"error_mapper_missing", "error_contract_missing"}
                   /\ Len(function(manifest.error_mapper).params) = 1

\* What a handler answers with its own Http.Response.ok or created is not
\* replaced for its status.  A success that is replaced comes from a call of
\* Http.Response.error, which the checker leaves alone, or from a function
\* whose answer the handler returns, where the checker does not look.
AnswersKeepTheirStatus ==
    resp.code = "invalid_response_status" /\ raised = NotRaised /\ UniqueNames =>
        \E f \in Reached(route.handler, ReturnedCalls) : \E answer \in function(f).answers :
            /\ answer.status < 400 /\ answer.status # route.status
            /\ f = route.handler => ~answer.success

=============================================================================
