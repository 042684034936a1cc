----------------------------- MODULE AreResponse -----------------------------
(***************************************************************************)
(* How the HTTP runtime turns one request into one response                *)
(* (crates/are-http-runtime/src/response.rs): the route is looked up, the  *)
(* body is validated, the handler's arguments are decoded, the handler     *)
(* runs, an error it raises is mapped, and what comes out is held against  *)
(* the route's response contract.                                          *)
(*                                                                         *)
(* A handler, and an error mapper, is any program: any sequence of at most *)
(* MaxCalls host calls, any outcome.  Its host calls are the actions of    *)
(* AreStore.  JSON values a handler can return are objects (a record of    *)
(* members) and arrays of objects; a response body may also be an error.   *)
(*                                                                         *)
(* Model also gives the fields of the structs a route can return: a struct *)
(* is validated field by field, as a model is.                             *)
(***************************************************************************)
EXTENDS AreStore

CONSTANTS
    Routes,         \* route contracts: [body, bound, status, returns]
    Manifests,      \* error mappings a service can declare: [mode, enum, status]
    Statuses,       \* statuses a handler may pass to Http.Response.json
    Made,           \* JSON bodies a handler or mapper may build by itself
    Raisable,       \* errors a handler may raise with `ensure`
    MaxCalls        \* bound: host calls a request makes

\* A status is a 16-bit number.  An enum that is a contract has a name.
ASSUME ResponseAssumption ==
    /\ MaxCalls \in Nat
    /\ Statuses \subseteq Nat
    /\ \A r \in Routes : r.status \in Nat /\ r.body \in BOOLEAN
    /\ \A m \in Manifests :
          /\ m.mode \in {"errors", "error_map", "none"}
          /\ m.mode = "errors" => m.enum # "none"
          /\ \A v \in DOMAIN m.status : m.status[v] \in Nat

VARIABLES
    manifest,   \* the error mapping of the service, fixed when it is prepared
    phase,      \* what the runtime is doing for the current request
    route,      \* its route contract, kept with the response
    calls,      \* host calls made for it
    held,       \* what those calls returned: [coll, body]
    raised,     \* the application error raised for it
    draft,      \* the response the contract was applied to
    resp        \* the last response sent

vars == <<storeVars, manifest, phase, route, calls, held, raised, draft, resp>>

-----------------------------------------------------------------------------
\* Bodies, responses, and the contract of a route.

NoStatus == 0           \* a route or an enum variant without `status`

Object(members) == [kind |-> "object", of |-> members]
Array(items) == [kind |-> "array", of |-> items]
Response(status, body) == [status |-> status, body |-> body]
error_response(status, code) == Response(status, [kind |-> "error", of |-> code])
NoResponse == error_response(NoStatus, "none")

\* A route's `returns`: a model or struct type, or the list of one.
Type(name) == [type |-> name, list |-> FALSE]
List(name) == [type |-> name, list |-> TRUE]
NoReturns == Type("none")

validate_value(returns, body) ==
    IF returns.list
    THEN /\ body.kind = "array"
         /\ \A i \in DOMAIN body.of : validate_model_fields(returns.type, body.of[i])
    ELSE /\ body.kind = "object"
         /\ validate_model_fields(returns.type, body.of)

\* Mutant: only the status of a response is checked.
CheckStatusOnly(r, response) ==
    IF response.status >= 400 THEN response
    ELSE IF r.status # NoStatus /\ response.status # r.status
         THEN error_response(500, "invalid_response_status")
    ELSE response

\* Mutant: the contract is applied to errors too.
CheckErrorsToo(r, response) ==
    IF r.status # NoStatus /\ response.status # r.status
    THEN error_response(500, "invalid_response_status")
    ELSE IF r.returns # NoReturns /\ ~validate_value(r.returns, response.body)
         THEN error_response(500, "invalid_response")
    ELSE response

apply_route_response_contract(r, response) ==
    IF response.status >= 400 THEN response
    ELSE IF r.status # NoStatus /\ response.status # r.status
         THEN error_response(500, "invalid_response_status")
    ELSE IF r.returns # NoReturns /\ ~validate_value(r.returns, response.body)
         THEN error_response(500, "invalid_response")
    ELSE response

\* What `use Http.errors(E)` answers to a raised error.
declarative_error_response(error) ==
    IF error.enum # manifest.enum
    THEN error_response(500, "error_contract_mismatch")
    ELSE IF error.variant \notin DOMAIN manifest.status
            \/ manifest.status[error.variant] = NoStatus
         THEN error_response(500, "error_contract_missing")
    ELSE Response(manifest.status[error.variant], [kind |-> "declared", of |-> error.variant])

-----------------------------------------------------------------------------
\* How a request ends, and the way there through an error.

\* Mutant: a handler that ends in a 500 is run again.
AnswerOrRetry(response) ==
    /\ draft' = NoResponse
    /\ resp' = IF response.status = 500 THEN NoResponse ELSE response
    /\ phase' = IF response.status = 500 THEN "args" ELSE "idle"

Answer(response) ==
    /\ draft' = response
    /\ resp' = apply_route_response_contract(route, response)
    /\ phase' = "idle"

\* Mutant: every error goes to the mapping, raised or not.
MapEveryError(error) ==
    /\ raised' = error
    /\ CASE manifest.mode = "errors" -> Answer(declarative_error_response(error))
         [] manifest.mode = "error_map" -> phase' = "mapper" /\ UNCHANGED <<draft, resp>>
         [] manifest.mode = "none" -> Answer(error_response(500, "error_mapper_missing"))

\* Evaluating the handler's arguments or its body came to an error.
Fail(error) ==
    IF error.tag # "RaisedError"
    THEN Answer(error_response(500, "interpreter_error")) /\ UNCHANGED raised
    ELSE /\ raised' = error
         /\ CASE manifest.mode = "errors" -> Answer(declarative_error_response(error))
              [] manifest.mode = "error_map" -> phase' = "mapper" /\ UNCHANGED <<draft, resp>>
              [] manifest.mode = "none" -> Answer(error_response(500, "error_mapper_missing"))

MapperFails ==
    Answer(error_response(500, "error_mapper_failed")) /\ UNCHANGED raised

-----------------------------------------------------------------------------

Init ==
    /\ StoreInit
    /\ manifest \in Manifests
    /\ phase = "idle"
    /\ route \in Routes
    /\ calls = 0 /\ held = {}
    /\ raised = NoError
    /\ draft = NoResponse /\ resp = NoResponse

\* No route matches: the answer passes no contract.
RouteNotFound ==
    /\ phase = "idle"
    /\ resp' = error_response(404, "not_found")
    /\ calls' = 0 /\ held' = {}
    /\ raised' = NoError /\ draft' = NoResponse
    /\ UNCHANGED <<storeVars, manifest, phase, route>>

Dispatch(r) ==
    /\ phase = "idle"
    /\ phase' = IF r.body THEN "body" ELSE "args"
    /\ route' = r
    /\ calls' = 0 /\ held' = {}
    /\ raised' = NoError /\ draft' = NoResponse /\ resp' = NoResponse
    /\ UNCHANGED <<storeVars, manifest>>

\* The body is no JSON, or not of the type the route names.
RejectBody ==
    /\ phase = "body"
    /\ resp' = error_response(400, "invalid_json")
    /\ phase' = "idle"
    /\ UNCHANGED <<storeVars, manifest, route, calls, held, raised, draft>>

AcceptBody ==
    /\ phase = "body"
    /\ phase' = "args"
    /\ UNCHANGED <<storeVars, manifest, route, calls, held, raised, draft, resp>>

\* handler_args: a parameter bound to the path, query, headers or cookies
\* may fail to decode, which raises the host's InvalidInput.
handler_args ==
    /\ phase = "args"
    /\ \/ phase' = "handler" /\ UNCHANGED <<raised, draft, resp>>
       \/ route.bound /\ Fail(InvalidInput("invalid_param"))
    /\ UNCHANGED <<storeVars, manifest, route, calls, held>>

\* What a host call that succeeds hands to the program.
Returned(answer) ==
    [coll |-> answer.coll,
     body |-> IF answer.op = "all" THEN Array(answer.value) ELSE Object(answer.value)]

\* A host call of the handler or of the mapper.  An error of the host ends
\* the program, whether or not it wrote `?`.
HostCall ==
    /\ phase \in {"handler", "mapper"}
    /\ calls < MaxCalls
    /\ calls' = calls + 1
    /\ StoreNext
    /\ IF ret'.error = NoError
       THEN held' = held \cup {Returned(ret')} /\ UNCHANGED <<phase, raised, draft, resp>>
       ELSE /\ IF phase = "handler" THEN Fail(ret'.error) ELSE MapperFails
            /\ UNCHANGED held
    /\ UNCHANGED <<manifest, route>>

\* The bodies the program can return: those it builds and those it was given.
Bodies == Made \cup {h.body : h \in held}

\* The handler returns a Http.Response, a payload that takes the route's
\* status, or an enum or unit value, which no response is made of.
HandlerReturns ==
    /\ phase = "handler"
    /\ \/ \E status \in Statuses, body \in Bodies : Answer(Response(status, body))
       \/ \E body \in Bodies :
             Answer(Response(IF route.status = NoStatus THEN 200 ELSE route.status, body))
       \/ \E code \in {"handler_returned_enum", "handler_returned_unit"} :
             Answer(error_response(500, code))
    /\ UNCHANGED <<storeVars, manifest, route, calls, held, raised>>

\* Mutant: a handler that fails takes back the records it holds.
FailAndRollBack ==
    /\ phase = "handler"
    /\ \E error \in Raisable \cup {Unsupported} : Fail(error)
    /\ records' = [c \in Collections |->
                     [k \in {k \in DOMAIN records[c] :
                                [coll |-> c, body |-> Object(records[c][k])] \notin held} |->
                         records[c][k]]]
    /\ UNCHANGED <<next_id, ret, manifest, route, calls, held>>

\* `ensure` raises an error, or the interpreter gives up (no return, no
\* match arm, a value of the wrong kind).
HandlerFails ==
    /\ phase = "handler"
    /\ \E error \in Raisable \cup {Unsupported} : Fail(error)
    /\ UNCHANGED <<storeVars, manifest, route, calls, held>>

\* Only a Http.Response counts; any error of the mapper is final.
MapperReturns ==
    /\ phase = "mapper"
    /\ \/ \E status \in Statuses, body \in Bodies :
             Answer(Response(status, body)) /\ UNCHANGED raised
       \/ \E code \in {"mapper_returned_json", "mapper_returned_bool",
                       "mapper_returned_enum", "mapper_returned_unit"} :
             Answer(error_response(500, code)) /\ UNCHANGED raised
       \/ MapperFails
    /\ UNCHANGED <<storeVars, manifest, route, calls, held>>

Step ==
    \/ RejectBody \/ AcceptBody \/ handler_args \/ HostCall
    \/ HandlerReturns \/ HandlerFails \/ MapperReturns

Next == RouteNotFound \/ (\E r \in Routes : Dispatch(r)) \/ Step

\* The runtime's thread is not suspended between a request and its response.
Spec == Init /\ [][Next]_vars /\ WF_vars(Step)

-----------------------------------------------------------------------------
(***************************************************************************)
(* Properties.                                                             *)
(***************************************************************************)

Phases == {"idle", "body", "args", "handler", "mapper"}

\* The pipeline's state has its types, and a draft is there only for a
\* request that was answered through the contract.
TypeOK ==
    /\ StoreTypeOK
    /\ manifest \in Manifests /\ route \in Routes
    /\ phase \in Phases /\ calls \in 0..MaxCalls
    /\ phase = "mapper" => manifest.mode = "error_map" /\ raised.tag = "RaisedError"
    /\ phase # "idle" => draft = NoResponse /\ resp = NoResponse

\* Whatever handler and mapper do, a response below 400 has the status and
\* the body type its route declares: every way to a response, the mapper's
\* included, passes apply_route_response_contract.
SuccessHonoursContract ==
    phase = "idle" /\ resp # NoResponse /\ resp.status < 400 =>
        /\ route.status \in {NoStatus, resp.status}
        /\ route.returns = NoReturns \/ validate_value(route.returns, resp.body)

\* An error of the declared enum reaches the client with the status its
\* variant declares: the success contract, which knows another status and
\* another body, never replaces it, and no later step of the handler does.
DeclaredErrorsReachTheClient ==
    /\ phase = "idle" /\ manifest.mode = "errors"
    /\ raised.enum = manifest.enum /\ raised.variant \in DOMAIN manifest.status
    /\ manifest.status[raised.variant] >= 400
    => resp = Response(manifest.status[raised.variant],
                       [kind |-> "declared", of |-> raised.variant])

\* What a handler holds from the store conforms to the model it came from,
\* however the store has changed since: a route that returns a model (or a
\* list of one) and answers with what the store gave it never fails its own
\* response contract.
HeldValuesConform ==
    \A h \in held :
        validate_value(IF h.body.kind = "array" THEN List(h.coll) ELSE Type(h.coll), h.body)

\* The pipeline touches the store only through its calls, and a request
\* that ends in an error takes nothing back: the store under the pipeline
\* behaves as AreStore allows, so what an insert returned stays readable
\* whatever became of the request that made it.
KeepsTheStore == StoreSpec

\* Every request that has been dispatched is answered: no error is mapped
\* twice, no phase waits for another.
EveryRequestAnswered == phase # "idle" ~> phase = "idle"

\* The documentation places mapped errors outside the success contract
\* (spec/http-mvp.md:125): a response made by the error mapper would then
\* reach the client as the mapper made it.
MappedErrorsOutsideContract ==
    phase = "idle" /\ raised # NoError => resp = draft

\* The documentation maps raised domain errors through the status metadata
\* of the service's enum (spec/compiler.md:102): with a contract that
\* declares a status for every variant the host raises, no raised error
\* would be answered 500.
RaisedErrorsAreDeclared ==
    phase = "idle" /\ manifest.mode = "errors" /\ raised # NoError =>
        resp.status # 500

=============================================================================
