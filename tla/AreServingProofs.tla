--------------------------- MODULE AreServingProofs ---------------------------
(***************************************************************************)
(* Theorems about the two modules that work on the store.                  *)
(*                                                                         *)
(* The request pipeline, for every set of routes, error mappings, handlers *)
(* and mappers: it implements the store's specification, so what           *)
(* AreStoreProofs proves of the store carries over; the two contracts      *)
(* follow from two facts about apply_route_response_contract and from when *)
(* an error is raised.                                                     *)
(*                                                                         *)
(* The server loop, for any number of clients, requests and restarts: it   *)
(* loses no request, it makes one record per request, and what it          *)
(* confirmed stays until it is restarted.                                  *)
(***************************************************************************)
EXTENDS AreResponse, AreServer, AreStoreProofs

-----------------------------------------------------------------------------
\* The response contract: what it lets through and what it leaves alone.

\* A response below 400 that comes out of the contract honours it.
LEMMA ContractHolds ==
    ASSUME NEW r, r.status \in Nat, NEW response, response.status \in Nat
    PROVE  LET out == apply_route_response_contract(r, response)
           IN  /\ out.status \in Nat
               /\ out.status < 400 =>
                     /\ r.status \in {NoStatus, out.status}
                     /\ r.returns = NoReturns \/ validate_value(r.returns, out.body)
<1> DEFINE out == apply_route_response_contract(r, response)
<1> DEFINE bad(code) == error_response(500, code)
<1>1. \A code : bad(code).status = 500
  BY DEF error_response, Response
<1>2. CASE response.status >= 400
  BY <1>2 DEF apply_route_response_contract
<1>3. CASE ~(response.status >= 400)
  BY <1>1, <1>3 DEF apply_route_response_contract, NoStatus
<1>4. QED
  BY <1>2, <1>3

\* It never touches an error response.
LEMMA ErrorsPass ==
    ASSUME NEW r, NEW response, response.status >= 400
    PROVE  apply_route_response_contract(r, response) = response
BY DEF apply_route_response_contract

\* The statuses of the responses the pipeline itself makes.
LEMMA MappedStatus ==
    ASSUME NEW status, NEW code
    PROVE  error_response(status, code).status = status
BY DEF error_response, Response

-----------------------------------------------------------------------------
\* The store under the pipeline.

\* Every step of the pipeline is a call of the store or leaves it alone.
THEOREM ResponseKeepsTheStore == Spec => KeepsTheStore
<1>1. Init => StoreInit
  BY DEF Init
<1>2. [Next]_vars => [StoreNext]_storeVars
  BY DEF Next, Step, vars, storeVars, RouteNotFound, Dispatch, RejectBody, AcceptBody,
         handler_args, HostCall, HandlerReturns, HandlerFails, MapperReturns
<1>3. QED
  BY <1>1, <1>2, PTL DEF Spec, KeepsTheStore, StoreSpec

-----------------------------------------------------------------------------
\* Types.

\* TypeOK without the store's part, which comes from AreStoreProofs.
PipelineOK ==
    /\ manifest \in Manifests /\ route \in Routes
    /\ phase \in Phases /\ calls \in 0..MaxCalls
    /\ phase = "mapper" => manifest.mode = "error_map" /\ raised.tag = "RaisedError"
    /\ phase # "idle" => draft = NoResponse /\ resp = NoResponse

\* Failing ends the request or hands a raised error to the mapper.
LEMMA FailType ==
    ASSUME NEW error, PipelineOK, phase # "idle", Fail(error)
    PROVE  /\ phase' \in {"idle", "mapper"}
           /\ phase' = "mapper" =>
                 /\ manifest.mode = "error_map" /\ raised'.tag = "RaisedError"
                 /\ UNCHANGED <<draft, resp>>
<1>1. manifest.mode \in {"errors", "error_map", "none"}
  BY ResponseAssumption DEF PipelineOK
<1>2. QED
  BY <1>1 DEF Fail, Answer

\* The manifest stays, route and phases stay in range, a mapper runs only in
\* a service that has one and only for an error that was raised.
THEOREM PipelineTypeCorrect == Spec => []TypeOK
<1>1. Init => PipelineOK
  BY ResponseAssumption DEF Init, PipelineOK, Phases
<1>2. PipelineOK /\ [Next]_vars => PipelineOK'
  <2> SUFFICES ASSUME PipelineOK, [Next]_vars
               PROVE  PipelineOK'
    OBVIOUS
  <2> USE ResponseAssumption DEF PipelineOK, Phases
  <2>1. CASE RouteNotFound
    BY <2>1 DEF RouteNotFound
  <2>2. ASSUME NEW r \in Routes, Dispatch(r)
        PROVE  PipelineOK'
    BY <2>2 DEF Dispatch
  <2>3. CASE RejectBody
    BY <2>3 DEF RejectBody
  <2>4. CASE AcceptBody
    BY <2>4 DEF AcceptBody
  <2>5. CASE handler_args
    BY <2>5, FailType DEF handler_args
  <2>6. CASE HostCall
    <3>1. calls' \in 0..MaxCalls
      BY <2>6 DEF HostCall
    <3>2. CASE ret'.error = NoError
      BY <2>6, <3>1, <3>2 DEF HostCall
    <3>3. CASE ret'.error # NoError /\ phase = "handler"
      BY <2>6, <3>1, <3>3, FailType DEF HostCall
    <3>4. CASE ret'.error # NoError /\ phase = "mapper"
      BY <2>6, <3>1, <3>4 DEF HostCall, MapperFails, Answer
    <3>5. QED
      BY <2>6, <3>2, <3>3, <3>4 DEF HostCall
  <2>7. CASE HandlerReturns
    BY <2>7 DEF HandlerReturns, Answer
  <2>8. CASE HandlerFails
    BY <2>8, FailType DEF HandlerFails
  <2>9. CASE MapperReturns
    BY <2>9 DEF MapperReturns, MapperFails, Answer
  <2>10. CASE UNCHANGED vars
    BY <2>10 DEF vars
  <2>11. QED
    BY <2>1, <2>2, <2>3, <2>4, <2>5, <2>6, <2>7, <2>8, <2>9, <2>10 DEF Next, Step
<1>3. StoreTypeOK /\ PipelineOK => TypeOK
  BY DEF PipelineOK, TypeOK
<1>4. Spec => []PipelineOK
  BY <1>1, <1>2, PTL DEF Spec
<1>5. QED
  BY <1>3, <1>4, ResponseKeepsTheStore, TypeCorrect, PTL DEF KeepsTheStore

-----------------------------------------------------------------------------
\* The success contract.

\* A response below 400 honours the contract of its route; the placeholder
\* before the first response has no contract.
Honoured ==
    resp # NoResponse /\ resp.status < 400 =>
        /\ route.status \in {NoStatus, resp.status}
        /\ route.returns = NoReturns \/ validate_value(route.returns, resp.body)

\* Answering with a response that has a status honours the contract.
LEMMA AnswerHonours ==
    ASSUME NEW response, response.status \in Nat, route.status \in Nat,
           Answer(response), UNCHANGED route
    PROVE  Honoured'
<1>1. resp' = apply_route_response_contract(route, response)
  BY DEF Answer
<1>2. QED
  BY <1>1, ContractHolds DEF Honoured, validate_value, validate_model_fields

\* So does failing, whose responses all come from an error or its variant.
LEMMA FailHonours ==
    ASSUME NEW error, PipelineOK, phase # "idle", Fail(error), UNCHANGED <<route, manifest>>
    PROVE  Honoured'
<1>1. route.status \in Nat /\ manifest.mode \in {"errors", "error_map", "none"}
  BY ResponseAssumption DEF PipelineOK
<1>2. \A code : error_response(500, code).status \in Nat
  BY MappedStatus
<1>3. declarative_error_response(error).status \in Nat
  <2>1. CASE /\ error.enum = manifest.enum
             /\ error.variant \in DOMAIN manifest.status
             /\ manifest.status[error.variant] # NoStatus
    <3>1. manifest.status[error.variant] \in Nat
      BY <2>1, ResponseAssumption DEF PipelineOK
    <3>2. QED
      BY <2>1, <3>1 DEF declarative_error_response, Response
  <2>2. QED
    BY <1>2, <2>1 DEF declarative_error_response
<1>4. CASE error.tag # "RaisedError"
  BY <1>1, <1>2, <1>4, AnswerHonours DEF Fail
<1>5. CASE error.tag = "RaisedError" /\ manifest.mode = "errors"
  BY <1>1, <1>3, <1>5, AnswerHonours DEF Fail
<1>6. CASE error.tag = "RaisedError" /\ manifest.mode = "none"
  BY <1>1, <1>2, <1>6, AnswerHonours DEF Fail
<1>7. CASE error.tag = "RaisedError" /\ manifest.mode = "error_map"
  BY <1>7 DEF Fail, PipelineOK, Honoured
<1>8. QED
  BY <1>1, <1>4, <1>5, <1>6, <1>7

\* Whatever handlers and mappers do, a response below 400 has the status and
\* the body type its route declares.
THEOREM SuccessContract == Spec => []SuccessHonoursContract
<1>1. Init => Honoured
  BY DEF Init, Honoured
<1>2. PipelineOK /\ Honoured /\ [Next]_vars => Honoured'
  <2> SUFFICES ASSUME PipelineOK, Honoured, [Next]_vars
               PROVE  Honoured'
    OBVIOUS
  <2> USE ResponseAssumption DEF PipelineOK
  <2>1. CASE RouteNotFound
    BY <2>1, MappedStatus DEF RouteNotFound, Honoured
  <2>2. ASSUME NEW r \in Routes, Dispatch(r)
        PROVE  Honoured'
    BY <2>2 DEF Dispatch, Honoured
  <2>3. CASE RejectBody
    BY <2>3, MappedStatus DEF RejectBody, Honoured
  <2>4. CASE AcceptBody
    BY <2>4 DEF AcceptBody, Honoured
  <2>5. CASE handler_args
    <3>1. phase # "idle" /\ UNCHANGED <<route, manifest>>
      BY <2>5 DEF handler_args
    <3>2. CASE UNCHANGED resp
      BY <3>1, <3>2 DEF Honoured
    <3>3. CASE Fail(InvalidInput("invalid_param"))
      BY <3>1, <3>3, FailHonours
    <3>4. QED
      BY <2>5, <3>2, <3>3 DEF handler_args
  <2>6. CASE HostCall
    <3>1. phase # "idle" /\ UNCHANGED <<route, manifest>>
      BY <2>6 DEF HostCall
    <3>2. CASE ret'.error = NoError
      BY <2>6, <3>1, <3>2 DEF HostCall, Honoured
    <3>3. CASE ret'.error # NoError /\ phase = "handler"
      BY <2>6, <3>1, <3>3, FailHonours DEF HostCall
    <3>4. CASE ret'.error # NoError /\ phase = "mapper"
      BY <2>6, <3>1, <3>4, AnswerHonours, MappedStatus DEF HostCall, MapperFails
    <3>5. QED
      BY <2>6, <3>2, <3>3, <3>4 DEF HostCall
  <2>7. CASE HandlerReturns
    <3>1. UNCHANGED route /\ route.status \in Nat
      BY <2>7 DEF HandlerReturns
    <3>2. ASSUME NEW status \in Nat, NEW body, Answer(Response(status, body))
          PROVE  Honoured'
      BY <3>1, <3>2, AnswerHonours DEF Response
    <3>3. ASSUME NEW code, Answer(error_response(500, code))
          PROVE  Honoured'
      BY <3>1, <3>3, AnswerHonours, MappedStatus
    <3>4. QED
      BY <2>7, <3>1, <3>2, <3>3 DEF HandlerReturns, NoStatus
  <2>8. CASE HandlerFails
    BY <2>8, FailHonours DEF HandlerFails
  <2>9. CASE MapperReturns
    <3>1. UNCHANGED route /\ route.status \in Nat
      BY <2>9 DEF MapperReturns
    <3>2. ASSUME NEW status \in Nat, NEW body, Answer(Response(status, body))
          PROVE  Honoured'
      BY <3>1, <3>2, AnswerHonours DEF Response
    <3>3. ASSUME NEW code, Answer(error_response(500, code))
          PROVE  Honoured'
      BY <3>1, <3>3, AnswerHonours, MappedStatus
    <3>4. QED
      BY <2>9, <3>1, <3>2, <3>3 DEF MapperReturns, MapperFails
  <2>10. CASE UNCHANGED vars
    BY <2>10 DEF vars, Honoured
  <2>11. QED
    BY <2>1, <2>2, <2>3, <2>4, <2>5, <2>6, <2>7, <2>8, <2>9, <2>10 DEF Next, Step
<1>3. Honoured => SuccessHonoursContract
  BY DEF Honoured, SuccessHonoursContract
<1>4. TypeOK => PipelineOK
  BY DEF TypeOK, PipelineOK
<1>5. QED
  BY <1>1, <1>2, <1>3, <1>4, PipelineTypeCorrect, PTL DEF Spec

-----------------------------------------------------------------------------
\* The declared errors.

\* Until the request fails no error is raised for it: what `raised` names at
\* the end is what ended it, not the error of an earlier request.
NothingRaisedYet == phase \in {"body", "args", "handler"} => raised = NoError

\* A request that ends without a raised error answers no declared error.
LEMMA NoErrorDeclaresNothing ==
    ASSUME PipelineOK', raised' = NoError
    PROVE  DeclaredErrorsReachTheClient'
<1>1. raised'.enum = "none"
  BY DEF NoError, Error
<1>2. manifest'.mode = "errors" => manifest'.enum # "none"
  BY ResponseAssumption DEF PipelineOK
<1>3. QED
  BY <1>1, <1>2 DEF DeclaredErrorsReachTheClient

\* Failing answers the declared error, or leaves no raised error behind.
LEMMA FailDeclares ==
    ASSUME NEW error, PipelineOK, PipelineOK', NothingRaisedYet,
           phase \in {"args", "handler"}, Fail(error), UNCHANGED manifest
    PROVE  DeclaredErrorsReachTheClient' /\ NothingRaisedYet'
<1>1. CASE error.tag # "RaisedError"
  <2>1. raised' = NoError /\ phase' = "idle"
    BY <1>1 DEF Fail, Answer, NothingRaisedYet
  <2>2. QED
    BY <2>1, NoErrorDeclaresNothing DEF NothingRaisedYet
<1>2. CASE error.tag = "RaisedError" /\ manifest.mode # "errors"
  <2>1. phase' \in {"idle", "mapper"}
    BY <1>2, FailType DEF Fail
  <2>2. QED
    BY <1>2, <2>1 DEF DeclaredErrorsReachTheClient, NothingRaisedYet
<1>3. CASE error.tag = "RaisedError" /\ manifest.mode = "errors"
  <2> DEFINE status == manifest.status[error.variant]
  <2> DEFINE declared == Response(status, [kind |-> "declared", of |-> error.variant])
  <2>1. raised' = error /\ Answer(declarative_error_response(error))
    BY <1>3 DEF Fail
  <2>2. ASSUME error.enum = manifest.enum, error.variant \in DOMAIN manifest.status, status >= 400
        PROVE  resp' = declared
    <3>1. status # NoStatus
      <4>1. status \in Nat
        BY <2>2, ResponseAssumption DEF PipelineOK
      <4>2. QED
        BY <2>2, <4>1 DEF NoStatus
    <3>2. declarative_error_response(error) = declared
      BY <2>2, <3>1 DEF declarative_error_response
    <3>3. declared.status >= 400
      BY <2>2 DEF Response
    <3>4. QED
      BY <2>1, <3>2, <3>3, ErrorsPass DEF Answer
  <2>3. phase' = "idle"
    BY <2>1 DEF Answer
  <2>4. QED
    BY <2>1, <2>2, <2>3 DEF DeclaredErrorsReachTheClient, NothingRaisedYet
<1>4. QED
  BY <1>1, <1>2, <1>3

\* An error of the declared enum reaches the client with the status its
\* variant declares.
THEOREM DeclaredErrors == Spec => []DeclaredErrorsReachTheClient
<1> DEFINE Inv == NothingRaisedYet /\ DeclaredErrorsReachTheClient
<1>1. Init => Inv
  BY ResponseAssumption DEF Init, NothingRaisedYet, DeclaredErrorsReachTheClient, NoError, Error
<1>2. PipelineOK /\ PipelineOK' /\ Inv /\ [Next]_vars => Inv'
  <2> SUFFICES ASSUME PipelineOK, PipelineOK', Inv, [Next]_vars
               PROVE  Inv'
    OBVIOUS
  <2>1. CASE RouteNotFound
    BY <2>1, NoErrorDeclaresNothing DEF RouteNotFound, NothingRaisedYet
  <2>2. ASSUME NEW r \in Routes, Dispatch(r)
        PROVE  Inv'
    BY <2>2, NoErrorDeclaresNothing DEF Dispatch, NothingRaisedYet
  <2>3. CASE RejectBody
    BY <2>3, NoErrorDeclaresNothing DEF RejectBody, NothingRaisedYet
  <2>4. CASE AcceptBody
    BY <2>4, NoErrorDeclaresNothing DEF AcceptBody, NothingRaisedYet
  <2>5. CASE handler_args
    <3>1. phase = "args" /\ raised = NoError /\ UNCHANGED manifest
      BY <2>5 DEF handler_args, NothingRaisedYet
    <3>2. CASE Fail(InvalidInput("invalid_param"))
      BY <3>1, <3>2, FailDeclares
    <3>3. CASE phase' = "handler" /\ UNCHANGED raised
      BY <3>1, <3>3, NoErrorDeclaresNothing DEF NothingRaisedYet
    <3>4. QED
      BY <2>5, <3>2, <3>3 DEF handler_args
  <2>6. CASE HostCall
    <3>1. phase \in {"handler", "mapper"} /\ UNCHANGED manifest
      BY <2>6 DEF HostCall
    <3>2. CASE phase = "mapper"
      <4>1. manifest'.mode # "errors"
        BY <3>1, <3>2 DEF PipelineOK
      <4>2. phase' \in {"idle", "mapper"}
        BY <2>6, <3>2 DEF HostCall, MapperFails, Answer
      <4>3. QED
        BY <4>1, <4>2 DEF DeclaredErrorsReachTheClient, NothingRaisedYet
    <3>3. CASE phase = "handler" /\ ret'.error # NoError
      BY <2>6, <3>1, <3>3, FailDeclares DEF HostCall
    <3>4. CASE phase = "handler" /\ ret'.error = NoError
      <4>1. phase' = "handler" /\ raised' = NoError
        BY <2>6, <3>4 DEF HostCall, NothingRaisedYet
      <4>2. QED
        BY <4>1, NoErrorDeclaresNothing DEF NothingRaisedYet
    <3>5. QED
      BY <3>1, <3>2, <3>3, <3>4
  <2>7. CASE HandlerReturns
    <3>1. raised' = NoError /\ phase' = "idle"
      BY <2>7 DEF HandlerReturns, Answer, NothingRaisedYet
    <3>2. QED
      BY <3>1, NoErrorDeclaresNothing DEF NothingRaisedYet
  <2>8. CASE HandlerFails
    BY <2>8, FailDeclares DEF HandlerFails
  <2>9. CASE MapperReturns
    <3>1. manifest'.mode # "errors" /\ phase' = "idle"
      BY <2>9 DEF MapperReturns, MapperFails, Answer, PipelineOK
    <3>2. QED
      BY <3>1 DEF DeclaredErrorsReachTheClient, NothingRaisedYet
  <2>10. CASE UNCHANGED vars
    BY <2>10 DEF vars, NothingRaisedYet, DeclaredErrorsReachTheClient
  <2>11. QED
    BY <2>1, <2>2, <2>3, <2>4, <2>5, <2>6, <2>7, <2>8, <2>9, <2>10 DEF Next, Step
<1>3. TypeOK => PipelineOK
  BY DEF TypeOK, PipelineOK
<1>4. QED
  BY <1>1, <1>2, <1>3, PipelineTypeCorrect, PTL DEF Spec

-----------------------------------------------------------------------------
\* What a program holds from the store.

Conforms(h) ==
    validate_value(IF h.body.kind = "array" THEN List(h.coll) ELSE Type(h.coll), h.body)

\* What one call that succeeds returns conforms to the model it was made on.
LEMMA ReturnedConforms ==
    ASSUME StoreTypeOK, StoredRecordsValid, StoreNext, ret'.error = NoError
    PROVE  Conforms(Returned(ret'))
<1>1. \A e : e \in Refusals \cup {NotFound} => e # NoError
  BY DEF Refusals, InvalidInput, Unsupported, NotFound, NoError, Error
<1>2. ASSUME NEW op \in {"insert", "get"}, NEW c, NEW key, NEW record,
             validate_model_fields(c, record), ret' = Ok(op, c, key, record)
      PROVE  Conforms(Returned(ret'))
  <2>1. ret'.op # "all" /\ ret'.coll = c /\ ret'.value = record
    BY <1>2 DEF Ok, Return
  <2>2. Returned(ret') = [coll |-> c, body |-> Object(record)]
    BY <2>1 DEF Returned
  <2>3. QED
    BY <1>2, <2>2 DEF Conforms, validate_value, Object, Type
<1>3. ASSUME NEW c \in Collections, NEW input \in Inputs, insert_model(c, input)
      PROVE  Conforms(Returned(ret'))
  <2> DEFINE id == next_id[c] + 1
             record == build_model_record(c, input, id)
  <2>1. CASE \E e \in Refusals : ret' = Err("insert", c, NoText, e)
    BY <1>1, <2>1 DEF Err, Return
  <2>2. CASE validate_model_fields(c, record) /\ ret' = Ok("insert", c, id, record)
    BY <1>2, <2>2
  <2>3. QED
    BY <1>3, <2>1, <2>2, InsertStep
<1>4. ASSUME NEW c \in Collections, NEW id \in Ids, get_model(c, id)
      PROVE  Conforms(Returned(ret'))
  <2> DEFINE key == json_key(id)
  <2>1. CASE key = NoText \/ key \notin DOMAIN records[c]
    <3>1. ret' = Err("get", c, key, InvalidInput("invalid_id")) \/ ret' = Err("get", c, key, NotFound)
      BY <1>4, <2>1 DEF get_model
    <3>2. QED
      BY <1>1, <3>1 DEF Err, Return, Refusals
  <2>2. CASE ~(key = NoText \/ key \notin DOMAIN records[c])
    <3>1. ret' = Ok("get", c, key, records[c][key])
      BY <1>4, <2>2 DEF get_model
    <3>2. validate_model_fields(c, records[c][key])
      BY <2>2 DEF StoredRecordsValid
    <3>3. QED
      BY <1>2, <3>1, <3>2
  <2>3. QED
    BY <2>1, <2>2
<1>5. ASSUME NEW c \in Collections, list_model(c)
      PROVE  Conforms(Returned(ret'))
  <2> DEFINE rows == [i \in DOMAIN SortedKeys(c) |-> records[c][SortedKeys(c)[i]]]
  <2>1. ret'.op = "all" /\ ret'.coll = c /\ ret'.value = rows
    BY <1>5 DEF list_model, Ok, Return
  <2>2. \A i \in DOMAIN SortedKeys(c) : SortedKeys(c)[i] \in DOMAIN records[c]
    BY SortedKeysListed DEF StoreTypeOK
  <2>3. \A i \in DOMAIN rows : validate_model_fields(c, rows[i])
    BY <2>2 DEF StoredRecordsValid
  <2>4. Returned(ret') = [coll |-> c, body |-> Array(rows)]
    BY <2>1 DEF Returned
  <2> HIDE DEF rows
  <2>5. QED
    BY <2>3, <2>4 DEF Conforms, validate_value, Array, List
<1>6. QED
  BY <1>3, <1>4, <1>5 DEF StoreNext

\* What a program holds from the store conforms to the model it came from,
\* however the store has changed since (insert_model, get_model, list_model
\* under call_host).
THEOREM HeldConform == Spec => []HeldValuesConform
<1>1. Init => HeldValuesConform
  BY DEF Init, HeldValuesConform
<1>2. StoreTypeOK /\ StoredRecordsValid /\ HeldValuesConform /\ [Next]_vars => HeldValuesConform'
  <2> SUFFICES ASSUME StoreTypeOK, StoredRecordsValid, HeldValuesConform, [Next]_vars
               PROVE  HeldValuesConform'
    OBVIOUS
  <2>1. \A h \in held : Conforms(h)
    BY DEF HeldValuesConform, Conforms
  <2>2. \A h \in held' : h \in held \/ Conforms(h)
    <3>1. CASE HostCall
      <4>1. CASE ret'.error = NoError
        BY <3>1, <4>1, ReturnedConforms DEF HostCall
      <4>2. CASE ret'.error # NoError
        BY <3>1, <4>2 DEF HostCall
      <4>3. QED
        BY <4>1, <4>2
    <3>2. CASE RouteNotFound \/ \E r \in Routes : Dispatch(r)
      BY <3>2 DEF RouteNotFound, Dispatch
    <3>3. CASE RejectBody \/ AcceptBody \/ handler_args
      BY <3>3 DEF RejectBody, AcceptBody, handler_args
    <3>4. CASE HandlerReturns \/ HandlerFails \/ MapperReturns
      BY <3>4 DEF HandlerReturns, HandlerFails, MapperReturns
    <3>5. CASE UNCHANGED vars
      BY <3>5 DEF vars
    <3>6. QED
      BY <3>1, <3>2, <3>3, <3>4, <3>5 DEF Next, Step
  <2>3. QED
    BY <2>1, <2>2 DEF HeldValuesConform, Conforms
<1>3. QED
  BY <1>1, <1>2, ResponseKeepsTheStore, TypeCorrect, RecordsValid, PTL DEF Spec, KeepsTheStore

-----------------------------------------------------------------------------
(***************************************************************************)
(* The inductive invariant.                                                *)
(***************************************************************************)

Rows == UNION {[S -> Scalars] : S \in SUBSET STRING}
Confirmations ==
    [client : Clients, conn : Nat, coll : Collections, key : Decimals, record : Rows]
Requests == [client : Clients, conn : Nat, call : Calls, known : SUBSET Confirmations]

Same(r, s) == r.client = s.client /\ r.conn = s.conn

\* The loop's state has its types; a client is a record of three fields.
Typed ==
    /\ StoreTypeOK
    /\ epoch \in 1..MaxEpochs
    /\ queue \in Seq(Requests)
    /\ current = {} \/ \E r \in Requests : current = {r}
    /\ reply = {} \/ \E a : reply = {a}
    /\ reply # {} => current # {}
    /\ client = [cl \in Clients |-> [sent |-> client[cl].sent,
                                     awaited |-> client[cl].awaited,
                                     last |-> client[cl].last]]
    /\ \A cl \in Clients : client[cl].sent \in Nat
    /\ made \subseteq Confirmations
    /\ acked \subseteq made

\* A client numbers its requests, and each is in the server once: queued,
\* being handled, or handled.
Numbered ==
    /\ \A i \in DOMAIN queue : queue[i].conn <= client[queue[i].client].sent
    /\ \A r \in current : r.conn <= client[r.client].sent
    /\ \A m \in made : m.conn <= client[m.client].sent
    /\ \A i, j \in DOMAIN queue : Same(queue[i], queue[j]) => i = j
    /\ \A i \in DOMAIN queue : \A r \in current : ~Same(queue[i], r)
    /\ \A i \in DOMAIN queue : \A m \in made : ~Same(queue[i], m)
    /\ \A r \in current : \A m \in made : Same(r, m) => reply # {}

\* The records of this epoch are those its requests made.
Accounted ==
    /\ RecordsKeyedByTheirId
    /\ OneRecordPerRequest
    /\ \A m \in made : m.key \in DOMAIN records[m.coll] /\ records[m.coll][m.key] = m.record

\* A client awaits a request of its own, and at most one.
Awaiting ==
    \A cl \in Clients :
        /\ \A r \in client[cl].awaited : r.client = cl
        /\ \A r, s \in client[cl].awaited : r = s

\* A read of a record known when it was asked for is answered with it.
Seen(r, answer) ==
    \A k \in r.known :
        /\ r.call.op = "get" /\ answer.status # NoAnswer.status
        /\ k.coll = r.call.coll /\ k.key = json_key(r.call.arg)
        => answer = [status |-> 200, value |-> k.record]

\* What was known when a request was sent is still there when it is handled,
\* and what is read is on its way to the client or with it.
Reading ==
    /\ \A i \in DOMAIN queue : queue[i].known \subseteq made
    /\ \A r \in current : r.known \subseteq made
    /\ \A r \in current, answer \in reply : Seen(r, answer)
    /\ \A cl \in Clients : \A last \in client[cl].last : Seen(last.request, last.answer)

IInv == Typed /\ Numbered /\ Accounted /\ Awaiting /\ AwaitedIsInTheServer /\ Reading


-----------------------------------------------------------------------------
(***************************************************************************)
(* What a step does, apart from the model of its parts.                    *)
(***************************************************************************)

\* A row the store can hold is a row.
LEMMA RowType ==
    ASSUME NEW c \in Collections, NEW record, IsRow(c, record)
    PROVE  record \in Rows
<1>1. FieldNames(c) \subseteq STRING
  <2>1. Model[c] \in Seq(Field)
    BY ModelAssumption
  <2>2. \A i \in DOMAIN Model[c] : Model[c][i] \in Field
    BY <2>1
  <2>3. QED
    BY <2>2 DEF FieldNames, Field
<1>2. DOMAIN record \in SUBSET STRING
  BY <1>1 DEF IsRow
<1>3. record \in [DOMAIN record -> Scalars]
  BY DEF IsRow
<1>4. QED
  BY <1>2, <1>3 DEF Rows

\* Handling a request is a step of the store; a record is made by a post
\* that succeeds, under the id drawn for it, and by nothing else.
LEMMA HandleStep ==
    ASSUME Typed, Handle
    PROVE  /\ StoreNext
           /\ reply = {}
           /\ \E a : reply' = {a}
           /\ UNCHANGED <<epoch, queue, current, client, acked>>
           /\ \E r \in Requests :
                 /\ current = {r}
                 /\ \/ UNCHANGED <<made, records>>
                    \/ \E c \in Collections, record \in Rows :
                          LET key == next_id[c] + 1 IN
                          /\ key \in Decimals
                          /\ records' = [records EXCEPT ![c] = Put(records[c], key, record)]
                          /\ made' = made \cup {[client |-> r.client, conn |-> r.conn,
                                                 coll |-> c, key |-> key, record |-> record]}
<1>1. PICK r \in Requests : current = {r}
  BY DEF Typed, Handle
<1>2. /\ reply = {} /\ UNCHANGED <<epoch, queue, current, client, acked>>
      /\ reply' = {Reply(r.call.op, ret')}
      /\ made' = IF r.call.op = "post" /\ ret'.error = NoError
                 THEN made \cup {[client |-> r.client, conn |-> r.conn, coll |-> r.call.coll,
                                  key |-> ret'.key, record |-> ret'.value]}
                 ELSE made
      /\ r.call.op = "post" => insert_model(r.call.coll, r.call.arg)
      /\ r.call.op = "get" => get_model(r.call.coll, r.call.arg)
      /\ r.call.op = "list" => list_model(r.call.coll)
  BY <1>1 DEF Handle
<1>3. r.call \in Calls
  BY DEF Requests
<1>4. CASE r.call.op = "post"
  <2> DEFINE c == r.call.coll
             key == next_id[c] + 1
             record == build_model_record(c, r.call.arg, key)
  <2>1. c \in Collections /\ r.call.arg \in Inputs /\ insert_model(c, r.call.arg)
    BY <1>2, <1>3, <1>4 DEF Calls
  <2>2. StoreNext
    BY <2>1 DEF StoreNext
  <2>3. /\ key \in Decimals
        /\ \/ /\ UNCHANGED records
              /\ \E e \in Refusals : ret' = Err("insert", c, NoText, e)
           \/ /\ records' = [records EXCEPT ![c] = Put(records[c], key, record)]
              /\ ret' = Ok("insert", c, key, record)
              /\ IsRow(c, record)
    BY <2>1, InsertStep DEF Typed
  <2>4. CASE /\ UNCHANGED records
             /\ \E e \in Refusals : ret' = Err("insert", c, NoText, e)
    <3>1. ret'.error \in Refusals
      BY <2>4 DEF Err, Return
    <3>2. ret'.error # NoError
      BY <3>1 DEF Refusals, NoError, InvalidInput, Unsupported, Error
    <3>3. QED
      BY <1>1, <1>2, <1>4, <2>2, <2>4, <3>2
  <2>5. CASE /\ records' = [records EXCEPT ![c] = Put(records[c], key, record)]
             /\ ret' = Ok("insert", c, key, record)
             /\ IsRow(c, record)
    <3>1. ret'.error = NoError /\ ret'.key = key /\ ret'.value = record
      BY <2>5 DEF Ok, Return
    <3>2. record \in Rows
      BY <2>1, <2>5, RowType
    <3>3. QED
      BY <1>1, <1>2, <1>4, <2>1, <2>2, <2>3, <2>5, <3>1, <3>2
  <2>6. QED
    BY <2>3, <2>4, <2>5
<1>5. CASE r.call.op # "post"
  <2>1. /\ r.call.coll \in Collections
        /\ \/ r.call.arg \in Ids /\ get_model(r.call.coll, r.call.arg)
           \/ list_model(r.call.coll)
    BY <1>2, <1>3, <1>5 DEF Calls
  <2>2. StoreNext
    BY <2>1 DEF StoreNext
  <2>3. UNCHANGED <<records, made>>
    BY <1>2, <1>5, <2>1, ReadStep
  <2>4. QED
    BY <1>1, <1>2, <2>2, <2>3
<1>6. QED
  BY <1>4, <1>5


\* The fields of clients after a step, for the client it is about and others.
Shaped(c) == c = [cl \in Clients |-> [sent |-> c[cl].sent, awaited |-> c[cl].awaited,
                                      last |-> c[cl].last]]

\* A client is a record of three fields.
LEMMA ClientShape ==
    ASSUME Typed
    PROVE  /\ client = [cl \in Clients |-> client[cl]]
           /\ \A cl \in Clients :
                 client[cl] = [sent |-> client[cl].sent, awaited |-> client[cl].awaited,
                               last |-> client[cl].last]
<1> DEFINE Field3(cl) == [sent |-> client[cl].sent, awaited |-> client[cl].awaited,
                          last |-> client[cl].last]
<1>1. client = [cl \in Clients |-> Field3(cl)]
  BY DEF Typed
<1> HIDE DEF Field3
<1>2. \A cl \in Clients : client[cl] = Field3(cl)
  BY <1>1
<1>3. client = [cl \in Clients |-> client[cl]]
  BY <1>1
<1>4. QED
  BY <1>2, <1>3 DEF Field3

\* An answer ends the wait for its own request, and no other's.
LEMMA DeliverStep ==
    ASSUME Typed, NEW r \in Requests, NEW answer, Deliver(r, answer)
    PROVE  /\ Shaped(client')
           /\ \A cl \in Clients :
                 /\ client'[cl].sent = client[cl].sent
                 /\ client'[cl].awaited = IF cl = r.client /\ Waits(r) THEN {}
                                          ELSE client[cl].awaited
                 /\ client'[cl].last \in {client[cl].last, {[request |-> r, answer |-> answer]}}
<1>1. r.client \in Clients
  BY DEF Requests
<1>2. CASE Waits(r)
  <2> DEFINE last == {[request |-> r, answer |-> answer]}
  <2>1. client' = [cl \in Clients |->
                      IF cl = r.client
                      THEN [sent |-> client[cl].sent, awaited |-> {}, last |-> last]
                      ELSE [sent |-> client[cl].sent, awaited |-> client[cl].awaited,
                            last |-> client[cl].last]]
    BY <1>1, <1>2 DEF Deliver, Typed
  <2>2. QED
    BY <1>2, <2>1 DEF Shaped
<1>3. CASE ~Waits(r)
  BY <1>3 DEF Deliver, Typed, Shaped
<1>4. QED
  BY <1>2, <1>3

\* A client sends a request of its own, with the next number.
LEMMA SendStep ==
    ASSUME Typed, NEW cl \in Clients, NEW call \in Calls, Send(cl, call)
    PROVE  \E r \in Requests :
           /\ r.client = cl /\ r.conn = client[cl].sent + 1
           /\ client[cl].awaited = {}
           /\ queue' = Append(queue, r)
           /\ UNCHANGED <<storeVars, epoch, current, reply, made, acked>>
           /\ Shaped(client')
           /\ client'[cl].sent = r.conn /\ client'[cl].awaited = {r}
           /\ \A d \in Clients \ {cl} :
                 /\ client'[d].sent = client[d].sent
                 /\ client'[d].awaited = client[d].awaited
           /\ r.known = acked
           /\ \A d \in Clients : client'[d].last \in {client[d].last, {}}
<1> DEFINE r == Request(cl, call)
<1>1. /\ r \in Requests /\ r.client = cl /\ r.conn = client[cl].sent + 1
      /\ r.known = acked
  BY DEF Request, Requests, Typed
<1>2. client' = [d \in Clients |->
                    IF d = cl THEN [sent |-> r.conn, awaited |-> {r}, last |-> {}]
                    ELSE [sent |-> client[d].sent, awaited |-> client[d].awaited,
                          last |-> client[d].last]]
  BY DEF Send, Typed
<1>3. Shaped(client')
  BY <1>2 DEF Shaped
<1>4. /\ client'[cl].sent = r.conn /\ client'[cl].awaited = {r}
      /\ \A d \in Clients \ {cl} :
            client'[d].sent = client[d].sent /\ client'[d].awaited = client[d].awaited
      /\ \A d \in Clients : client'[d].last \in {client[d].last, {}}
  BY <1>2
<1>5. /\ queue' = Append(queue, r) /\ client[cl].awaited = {}
      /\ UNCHANGED <<storeVars, epoch, current, reply, made, acked>>
  BY DEF Send
<1> HIDE DEF r
<1>6. QED
  BY <1>1, <1>3, <1>4, <1>5

\* A client that gives up changes nothing but what it awaits.
LEMMA GiveUpStep ==
    ASSUME Typed, NEW cl \in Clients, GiveUp(cl)
    PROVE  /\ UNCHANGED <<storeVars, epoch, queue, current, reply, made, acked>>
           /\ Shaped(client')
           /\ \A d \in Clients :
                 /\ client'[d].sent = client[d].sent
                 /\ client'[d].awaited = IF d = cl THEN {} ELSE client[d].awaited
                 /\ client'[d].last = client[d].last
<1>1. client' = [d \in Clients |->
                    [sent |-> client[d].sent,
                     awaited |-> IF d = cl THEN {} ELSE client[d].awaited,
                     last |-> client[d].last]]
  <2>1. client' = [client EXCEPT ![cl].awaited = {}]
    BY DEF GiveUp
  <2>2. client' = [d \in Clients |-> IF d = cl THEN [client[d] EXCEPT !.awaited = {}]
                                     ELSE client[d]]
    BY <2>1, ClientShape
  <2>3. \A d \in Clients : [client[d] EXCEPT !.awaited = {}] =
            [sent |-> client[d].sent, awaited |-> {}, last |-> client[d].last]
    BY ClientShape
  <2>4. QED
    BY <2>2, <2>3, ClientShape
<1>2. QED
  <2>1. \A d \in Clients :
          /\ client'[d].sent = client[d].sent
          /\ client'[d].awaited = IF d = cl THEN {} ELSE client[d].awaited
          /\ client'[d].last = client[d].last
    BY <1>1
  <2>2. Shaped(client')
    BY <1>1 DEF Shaped
  <2>3. QED
    BY <2>1, <2>2 DEF GiveUp

\* A restart leaves the clients with their numbers.
LEMMA RestartStep ==
    ASSUME Typed, Restart
    PROVE  /\ queue' = << >> /\ current' = {} /\ reply' = {} /\ made' = {} /\ acked' = {}
           /\ epoch' \in 1..MaxEpochs
           /\ next_id' = [c \in Collections |-> 0]
           /\ records' = [c \in Collections |-> << >>]
           /\ Shaped(client')
           /\ \A d \in Clients :
                 /\ client'[d].sent = client[d].sent
                 /\ client'[d].awaited = {} /\ client'[d].last = {}
<1>1. client' = [d \in Clients |-> [sent |-> client[d].sent, awaited |-> {}, last |-> {}]]
  BY DEF Restart
<1>2. epoch' \in 1..MaxEpochs
  <2>1. epoch \in 1..MaxEpochs
    BY DEF Typed
  <2>2. epoch < MaxEpochs /\ epoch' = epoch + 1
    BY DEF Restart
  <2>3. QED
    BY <2>1, <2>2, ServerAssumption
<1>3. Shaped(client')
  BY <1>1 DEF Shaped
<1>4. /\ queue' = << >> /\ current' = {} /\ reply' = {} /\ made' = {} /\ acked' = {}
      /\ next_id' = [c \in Collections |-> 0]
      /\ records' = [c \in Collections |-> << >>]
  BY DEF Restart
<1>5. \A d \in Clients : /\ client'[d].sent = client[d].sent
                         /\ client'[d].awaited = {} /\ client'[d].last = {}
  BY <1>1
<1>6. QED
  BY <1>2, <1>3, <1>4, <1>5

\* The head of the queue is taken, the rest moves up.
LEMMA TakeStep ==
    ASSUME Typed, TakeRequest
    PROVE  /\ current = {} /\ reply = {}
           /\ queue # << >> /\ Head(queue) \in Requests /\ current' = {queue[1]}
           /\ queue' \in Seq(Requests) /\ Len(queue') = Len(queue) - 1
           /\ \A i \in DOMAIN queue' : i + 1 \in DOMAIN queue /\ queue'[i] = queue[i + 1]
           /\ UNCHANGED <<storeVars, epoch, reply, client, made, acked>>
<1>1. queue \in Seq(Requests) /\ queue # << >> /\ queue' = Tail(queue) /\ current' = {Head(queue)}
  BY DEF TakeRequest, Typed
<1>2. queue' \in Seq(Requests) /\ Len(queue') = Len(queue) - 1
  BY <1>1
<1>3. \A i \in DOMAIN queue' : i + 1 \in DOMAIN queue /\ queue'[i] = queue[i + 1]
  BY <1>1
<1>4. QED
  BY <1>1, <1>2, <1>3 DEF TakeRequest, Typed

\* The loop drops its request, or answers it; nothing else changes.
LEMMA EndStep ==
    ASSUME Typed, DropUnreadable \/ Respond
    PROVE  /\ \E r \in Requests, answer \in reply \cup {NoAnswer} :
                 current = {r} /\ Deliver(r, answer)
           /\ current' = {} /\ reply' = {}
           /\ acked' = acked \/ \E m \in SUBSET made : acked' = acked \cup m
           /\ UNCHANGED <<storeVars, epoch, queue, made>>
<1>1. CASE DropUnreadable
  BY <1>1 DEF DropUnreadable, Typed
<1>2. CASE Respond
  <2>1. PICK r \in Requests : current = {r}
    BY <1>2 DEF Respond, Typed
  <2>2. PICK answer \in reply :
           \/ /\ Deliver(r, answer)
              /\ acked' = IF Waits(r) THEN acked \cup Confirms(r, answer) ELSE acked
           \/ Deliver(r, NoAnswer) /\ UNCHANGED acked
    BY <1>2, <2>1 DEF Respond
  <2>3. Confirms(r, answer) \subseteq made
    BY DEF Confirms
  <2>4. QED
    BY <1>2, <2>1, <2>2, <2>3 DEF Respond
<1>3. QED
  BY <1>1, <1>2


-----------------------------------------------------------------------------
(***************************************************************************)
(* Invariance, part by part.                                               *)
(***************************************************************************)

\* Every step keeps the types.
LEMMA TypedStep ==
    ASSUME Typed, [ServerNext]_serverVars
    PROVE  Typed'
<1>1. ASSUME NEW cl \in Clients, NEW call \in Calls, Send(cl, call)
      PROVE  Typed'
  <2>1. PICK r \in Requests :
           /\ r.client = cl /\ r.conn = client[cl].sent + 1
           /\ queue' = Append(queue, r)
           /\ UNCHANGED <<storeVars, epoch, current, reply, made, acked>>
           /\ client'[cl].sent = r.conn
           /\ \A d \in Clients \ {cl} : client'[d].sent = client[d].sent
    BY <1>1, SendStep
  <2>2. StoreTypeOK' /\ queue' \in Seq(Requests)
    BY <2>1, StoreTypeStep DEF Typed
  <2>3. \A d \in Clients : client'[d].sent \in Nat
    BY <2>1 DEF Typed, Requests
  <2>4. Shaped(client')
    BY <1>1, SendStep
  <2>5. UNCHANGED <<epoch, current, reply, made, acked>>
    BY <2>1
  <2>6. QED
    BY <2>2, <2>3, <2>4, <2>5 DEF Typed, Shaped
<1>2. ASSUME NEW cl \in Clients, GiveUp(cl)
      PROVE  Typed'
  <2>1. StoreTypeOK'
    BY <1>2, GiveUpStep, StoreTypeStep DEF Typed
  <2>2. Shaped(client') /\ \A d \in Clients : client'[d].sent \in Nat
    BY <1>2, GiveUpStep DEF Typed
  <2>3. UNCHANGED <<epoch, queue, current, reply, made, acked>>
    BY <1>2, GiveUpStep
  <2>4. QED
    BY <2>1, <2>2, <2>3 DEF Typed, Shaped
<1>3. ASSUME TakeRequest
      PROVE  Typed'
  <2>1. StoreTypeOK'
    BY <1>3, TakeStep, StoreTypeStep DEF Typed
  <2>2. queue[1] \in Requests
    BY <1>3, TakeStep
  <2>3. QED
    BY <1>3, <2>1, <2>2, TakeStep DEF Typed
<1>4. ASSUME DropUnreadable \/ Respond
      PROVE  Typed'
  <2>1. StoreTypeOK'
    BY <1>4, EndStep, StoreTypeStep DEF Typed
  <2>2. Shaped(client') /\ \A d \in Clients : client'[d].sent \in Nat
    BY <1>4, EndStep, DeliverStep DEF Typed
  <2>3. acked' \subseteq made
    BY <1>4, EndStep DEF Typed
  <2>4. current' = {} /\ reply' = {} /\ UNCHANGED <<epoch, queue, made>>
    BY <1>4, EndStep
  <2>5. QED
    BY <2>1, <2>2, <2>3, <2>4 DEF Typed, Shaped
<1>5. ASSUME Handle
      PROVE  Typed'
  <2>1. StoreTypeOK'
    BY <1>5, HandleStep, StoreTypeStep DEF Typed
  <2>2. UNCHANGED <<epoch, queue, current, client, acked>> /\ \E a : reply' = {a}
    BY <1>5, HandleStep
  <2>3. PICK r \in Requests :
           /\ current = {r}
           /\ \/ UNCHANGED made
              \/ \E c \in Collections, key \in Decimals, record \in Rows :
                    made' = made \cup {[client |-> r.client, conn |-> r.conn,
                                        coll |-> c, key |-> key, record |-> record]}
    BY <1>5, HandleStep
  <2>4. made' \subseteq Confirmations /\ made \subseteq made'
    BY <2>3 DEF Typed, Confirmations, Requests
  <2>5. QED
    BY <2>1, <2>2, <2>3, <2>4 DEF Typed
<1>6. ASSUME Restart
      PROVE  Typed'
  <2>1. StoreTypeOK'
    BY <1>6, RestartStep, KeyAssumption DEF StoreTypeOK
  <2>2. Shaped(client') /\ \A d \in Clients : client'[d].sent \in Nat
    BY <1>6, RestartStep DEF Typed
  <2>3. QED
    <3>1. /\ queue' = << >> /\ current' = {} /\ reply' = {} /\ made' = {} /\ acked' = {}
          /\ epoch' \in 1..MaxEpochs
      BY <1>6, RestartStep
    <3>2. queue' \in Seq(Requests) /\ made' \subseteq Confirmations /\ acked' \subseteq made'
      BY <3>1
    <3>3. QED
      BY <2>1, <2>2, <3>1, <3>2 DEF Typed, Shaped
<1>7. CASE UNCHANGED serverVars
  <2>1. StoreTypeOK'
    BY <1>7, StoreTypeStep DEF Typed, serverVars
  <2>2. QED
    BY <1>7, <2>1 DEF Typed, serverVars, loopVars
<1>8. QED
  BY <1>1, <1>2, <1>3, <1>4, <1>5, <1>6, <1>7 DEF ServerNext, Loop

\* Numbers are about what clients have sent, not about what they await.
LEMMA SameNumbers ==
    ASSUME Typed, Numbered,
           \A d \in Clients : client'[d].sent = client[d].sent,
           UNCHANGED <<queue, made>>,
           UNCHANGED <<current, reply>> \/ current' = {}
    PROVE  Numbered'
<1>1. /\ \A i \in DOMAIN queue : queue[i].client \in Clients
      /\ \A r \in current \cup made : r.client \in Clients
  <2>1. queue \in Seq(Requests) /\ current \subseteq Requests /\ made \subseteq Confirmations
    BY DEF Typed
  <2>2. \A r \in Requests \cup Confirmations : r.client \in Clients
    BY DEF Requests, Confirmations
  <2>3. \A i \in DOMAIN queue : queue[i] \in Requests
    BY <2>1
  <2>4. QED
    BY <2>1, <2>2, <2>3
<1>2. QED
  BY <1>1 DEF Numbered, Same

\* Every step keeps each request in the server once, under its number.
LEMMA NumberedStep ==
    ASSUME Typed, Numbered, [ServerNext]_serverVars
    PROVE  Numbered'
<1>1. ASSUME NEW cl \in Clients, NEW call \in Calls, Send(cl, call)
      PROVE  Numbered'
  <2>1. PICK r \in Requests :
           /\ r.client = cl /\ r.conn = client[cl].sent + 1
           /\ queue' = Append(queue, r)
           /\ UNCHANGED <<current, reply, made>>
           /\ client'[cl].sent = r.conn
           /\ \A d \in Clients \ {cl} : client'[d].sent = client[d].sent
    BY <1>1, SendStep
  <2> queue \in Seq(Requests)
    BY DEF Typed
  <2>2. /\ \A d \in Clients : client[d].sent \in Nat /\ client[d].sent <= client'[d].sent
        /\ \A s \in Requests \cup Confirmations : s.client \in Clients /\ s.conn \in Nat
        /\ current \subseteq Requests /\ made \subseteq Confirmations
    <3>1. \A d \in Clients : client[d].sent \in Nat
      BY DEF Typed
    <3>2. \A d \in Clients : client[d].sent <= client'[d].sent
      BY <2>1, <3>1
    <3>3. \A s \in Requests \cup Confirmations : s.client \in Clients /\ s.conn \in Nat
      BY DEF Requests, Confirmations
    <3>4. current \subseteq Requests /\ made \subseteq Confirmations
      BY DEF Typed
    <3>5. QED
      BY <3>1, <3>2, <3>3, <3>4
  <2>3. /\ \A i \in DOMAIN queue : queue[i] \in Requests /\ ~Same(queue[i], r)
        /\ \A s \in current \cup made : ~Same(s, r)
    BY <2>1, <2>2 DEF Numbered, Same
  <2>4. /\ DOMAIN queue' = DOMAIN queue \cup {Len(queue) + 1}
        /\ \A i \in DOMAIN queue : queue'[i] = queue[i] /\ i # Len(queue) + 1
        /\ queue'[Len(queue) + 1] = r
    BY <2>1
  <2>5. \A i \in DOMAIN queue' : queue'[i].conn <= client'[queue'[i].client].sent
    <3>1. r.conn <= client'[r.client].sent
      BY <2>1 DEF Requests
    <3>2. \A i \in DOMAIN queue : queue[i].conn <= client'[queue[i].client].sent
      BY <2>1, <2>2, <2>3, SMTT(30) DEF Numbered
    <3>3. QED
      BY <2>4, <3>1, <3>2
  <2>6. /\ \A s \in current : s.conn <= client'[s.client].sent
        /\ \A m \in made : m.conn <= client'[m.client].sent
    <3>1. /\ \A s \in current : s.conn <= client[s.client].sent
          /\ \A m \in made : m.conn <= client[m.client].sent
      BY DEF Numbered
    <3>2. \A s \in Requests \cup Confirmations :
            s.conn <= client[s.client].sent => s.conn <= client'[s.client].sent
      <4> SUFFICES ASSUME NEW s \in Requests \cup Confirmations,
                          s.conn <= client[s.client].sent
                   PROVE  s.conn <= client'[s.client].sent
        OBVIOUS
      <4>1. s.conn \in Nat /\ client[s.client].sent \in Nat /\ client'[s.client].sent \in Nat
        BY <2>1, <2>2
      <4>2. QED
        BY <2>2, <4>1
    <3>3. QED
      BY <2>2, <3>1, <3>2
  <2>7. \A i, j \in DOMAIN queue' : Same(queue'[i], queue'[j]) => i = j
    BY <2>3, <2>4 DEF Numbered, Same
  <2>8. /\ \A i \in DOMAIN queue' : \A s \in current : ~Same(queue'[i], s)
        /\ \A i \in DOMAIN queue' : \A m \in made : ~Same(queue'[i], m)
    BY <2>3, <2>4 DEF Numbered, Same
  <2>9. QED
    BY <2>1, <2>5, <2>6, <2>7, <2>8 DEF Numbered
<1>2. ASSUME NEW cl \in Clients, GiveUp(cl)
      PROVE  Numbered'
  <2>1. /\ UNCHANGED <<queue, current, reply, made>>
        /\ \A d \in Clients : client'[d].sent = client[d].sent
    BY <1>2, GiveUpStep
  <2>2. QED
    BY <2>1, SameNumbers
<1>3. ASSUME TakeRequest
      PROVE  Numbered'
  BY <1>3, TakeStep DEF Numbered, Same
<1>4. ASSUME DropUnreadable \/ Respond
      PROVE  Numbered'
  <2>1. /\ current' = {} /\ reply' = {} /\ UNCHANGED <<queue, made>>
        /\ \A d \in Clients : client'[d].sent = client[d].sent
    BY <1>4, EndStep, DeliverStep
  <2>2. QED
    BY <2>1, SameNumbers
<1>5. ASSUME Handle
      PROVE  Numbered'
  <2>1. UNCHANGED <<queue, current, client>> /\ \E a : reply' = {a}
    BY <1>5, HandleStep
  <2>2. PICK r \in Requests :
           /\ current = {r}
           /\ \A m \in made' \ made : m.client = r.client /\ m.conn = r.conn
    BY <1>5, HandleStep
  <2>3. r.conn <= client[r.client].sent /\ \A i \in DOMAIN queue : ~Same(queue[i], r)
    BY <2>2 DEF Numbered
  <2>4. \A m \in made' \ made : m.conn <= client[m.client].sent
    BY <2>2, <2>3
  <2>5. \A i \in DOMAIN queue : \A m \in made' : ~Same(queue[i], m)
    BY <2>2, <2>3 DEF Numbered, Same
  <2>6. QED
    BY <2>1, <2>4, <2>5 DEF Numbered, Same
<1>6. ASSUME Restart
      PROVE  Numbered'
  BY <1>6, RestartStep DEF Numbered
<1>7. CASE UNCHANGED serverVars
  BY <1>7 DEF Numbered, Same, serverVars, loopVars
<1>8. QED
  BY <1>1, <1>2, <1>3, <1>4, <1>5, <1>6, <1>7 DEF ServerNext, Loop


\* What a request made is filed under the id drawn for it, which no record
\* had, and no request is handled twice.
LEMMA AccountedStep ==
    ASSUME Typed, Numbered, Accounted, [ServerNext]_serverVars
    PROVE  Accounted'
<1>1. ASSUME UNCHANGED <<storeVars, made>>
      PROVE  Accounted'
  <2>1. RecordsKeyedByTheirId'
    BY <1>1, StoreKeyStep DEF Typed, Accounted
  <2>2. QED
    BY <1>1, <2>1 DEF Accounted, OneRecordPerRequest, storeVars
<1>2. ASSUME NEW cl \in Clients, NEW call \in Calls, Send(cl, call)
      PROVE  Accounted'
  BY <1>1, <1>2, SendStep
<1>3. ASSUME NEW cl \in Clients, GiveUp(cl)
      PROVE  Accounted'
  BY <1>1, <1>3, GiveUpStep
<1>4. ASSUME TakeRequest
      PROVE  Accounted'
  BY <1>1, <1>4, TakeStep
<1>5. ASSUME DropUnreadable \/ Respond
      PROVE  Accounted'
  BY <1>1, <1>5, EndStep
<1>6. ASSUME Handle
      PROVE  Accounted'
  <2>1. RecordsKeyedByTheirId'
    BY <1>6, HandleStep, StoreKeyStep DEF Typed, Accounted
  <2>2. PICK r \in Requests :
           /\ current = {r}
           /\ \/ UNCHANGED <<made, records>>
              \/ \E c \in Collections, record \in Rows :
                    LET key == next_id[c] + 1 IN
                    /\ key \in Decimals
                    /\ records' = [records EXCEPT ![c] = Put(records[c], key, record)]
                    /\ made' = made \cup {[client |-> r.client, conn |-> r.conn,
                                           coll |-> c, key |-> key, record |-> record]}
    BY <1>6, HandleStep
  <2>3. CASE UNCHANGED <<made, records>>
    BY <2>1, <2>3 DEF Accounted, OneRecordPerRequest
  <2>4. ASSUME NEW c \in Collections, NEW record \in Rows,
               records' = [records EXCEPT ![c] = Put(records[c], next_id[c] + 1, record)],
               made' = made \cup {[client |-> r.client, conn |-> r.conn, coll |-> c,
                                   key |-> next_id[c] + 1, record |-> record]}
        PROVE  Accounted'
    <3> DEFINE key == next_id[c] + 1
               new == [client |-> r.client, conn |-> r.conn, coll |-> c,
                       key |-> key, record |-> record]
    <3>1. next_id[c] \in Nat /\ DOMAIN records = Collections
      BY KeyAssumption DEF Typed, StoreTypeOK
    <3>2. key \notin DOMAIN records[c]
      BY <3>1 DEF Accounted, RecordsKeyedByTheirId
    <3>3. \A m \in made : /\ m.coll \in Collections
                          /\ ~(m.client = new.client /\ m.conn = new.conn)
                          /\ ~(m.coll = c /\ m.key = key)
      <4>1. \A m \in made : m.coll \in Collections
        BY DEF Typed, Confirmations
      <4>2. \A m \in made : ~(m.client = r.client /\ m.conn = r.conn)
        <5>1. reply = {}
          BY <1>6, HandleStep
        <5>2. QED
          BY <2>2, <5>1 DEF Numbered, Same
      <4>3. QED
        BY <3>2, <4>1, <4>2 DEF Accounted
    <3>4. /\ \A d \in Collections : DOMAIN records'[d] =
                IF d = c THEN DOMAIN records[c] \cup {key} ELSE DOMAIN records[d]
          /\ records'[c][key] = record
          /\ \A d \in Collections : \A k \in DOMAIN records[d] : records'[d][k] = records[d][k]
      BY <2>4, <3>1, <3>2 DEF Put
    <3>5. new \in made' /\ new.coll = c /\ new.key = key /\ new.record = record
      BY <2>4
    <3>6. made' = made \cup {new}
      BY <2>4
    <3> HIDE DEF new, key
    <3>7. \A m, n \in made' :
            \/ m.client = n.client /\ m.conn = n.conn
            \/ m.coll = n.coll /\ m.key = n.key
            => m = n
      BY <3>3, <3>5, <3>6 DEF Accounted, OneRecordPerRequest
    <3>8. \A d \in Collections : \A k \in DOMAIN records'[d] :
            \E m \in made' : m.coll = d /\ m.key = k
      <4> SUFFICES ASSUME NEW d \in Collections, NEW k \in DOMAIN records'[d]
                   PROVE  \E m \in made' : m.coll = d /\ m.key = k
        OBVIOUS
      <4>1. CASE d = c /\ k = key
        BY <3>5, <4>1
      <4>2. CASE k \in DOMAIN records[d]
        BY <3>6, <4>2 DEF Accounted, OneRecordPerRequest
      <4>3. QED
        BY <3>4, <4>1, <4>2
    <3>9. \A m \in made' : m.key \in DOMAIN records'[m.coll] /\ records'[m.coll][m.key] = m.record
      <4> SUFFICES ASSUME NEW m \in made'
                   PROVE  m.key \in DOMAIN records'[m.coll] /\ records'[m.coll][m.key] = m.record
        OBVIOUS
      <4>1. CASE m = new
        BY <3>4, <3>5, <4>1
      <4>2. CASE m \in made
        BY <3>3, <3>4, <4>2 DEF Accounted
      <4>3. QED
        BY <3>6, <4>1, <4>2
    <3>10. QED
      BY <2>1, <3>7, <3>8, <3>9 DEF Accounted, OneRecordPerRequest
  <2>5. QED
    BY <2>2, <2>3, <2>4
<1>7. ASSUME Restart
      PROVE  Accounted'
  BY <1>7, RestartStep DEF Accounted, RecordsKeyedByTheirId, OneRecordPerRequest
<1>8. CASE UNCHANGED serverVars
  BY <1>1, <1>8 DEF serverVars, loopVars
<1>9. QED
  BY <1>2, <1>3, <1>4, <1>5, <1>6, <1>7, <1>8 DEF ServerNext, Loop

\* A client only comes to await what it sends.
LEMMA AwaitingStep ==
    ASSUME Typed, Awaiting, [ServerNext]_serverVars
    PROVE  Awaiting'
<1>1. ASSUME NEW cl \in Clients, NEW call \in Calls, Send(cl, call)
      PROVE  Awaiting'
  BY <1>1, SendStep DEF Awaiting
<1>2. ASSUME NEW cl \in Clients, GiveUp(cl)
      PROVE  Awaiting'
  BY <1>2, GiveUpStep DEF Awaiting
<1>3. ASSUME DropUnreadable \/ Respond
      PROVE  Awaiting'
  <2>1. \A cl \in Clients : client'[cl].awaited \subseteq client[cl].awaited
    BY <1>3, EndStep, DeliverStep
  <2>2. QED
    BY <2>1 DEF Awaiting
<1>4. ASSUME Restart
      PROVE  Awaiting'
  BY <1>4, RestartStep DEF Awaiting
<1>5. CASE TakeRequest \/ Handle \/ UNCHANGED serverVars
  BY <1>5, TakeStep, HandleStep DEF Awaiting, serverVars, loopVars
<1>6. QED
  BY <1>1, <1>2, <1>3, <1>4, <1>5 DEF ServerNext, Loop

\* A request leaves the loop only with its client's wait.
LEMMA AwaitedStep ==
    ASSUME Typed, Awaiting, AwaitedIsInTheServer, [ServerNext]_serverVars
    PROVE  AwaitedIsInTheServer'
<1>1. ASSUME NEW cl \in Clients, NEW call \in Calls, Send(cl, call)
      PROVE  AwaitedIsInTheServer'
  <2>1. PICK r \in Requests :
           /\ queue' = Append(queue, r) /\ UNCHANGED current
           /\ client'[cl].awaited = {r}
           /\ \A d \in Clients \ {cl} : client'[d].awaited = client[d].awaited
    BY <1>1, SendStep
  <2>2. /\ \A i \in DOMAIN queue : i \in DOMAIN queue' /\ queue'[i] = queue[i]
        /\ \E i \in DOMAIN queue' : queue'[i] = r
    <3>1. queue \in Seq(Requests)
      BY DEF Typed
    <3>2. Len(queue) + 1 \in DOMAIN queue' /\ queue'[Len(queue) + 1] = r
      BY <2>1, <3>1
    <3>3. QED
      BY <2>1, <3>1, <3>2
  <2>3. QED
    BY <2>1, <2>2 DEF AwaitedIsInTheServer
<1>2. ASSUME NEW cl \in Clients, GiveUp(cl)
      PROVE  AwaitedIsInTheServer'
  BY <1>2, GiveUpStep DEF AwaitedIsInTheServer
<1>3. ASSUME TakeRequest
      PROVE  AwaitedIsInTheServer'
  <2>1. /\ current = {} /\ current' = {queue[1]} /\ UNCHANGED client
        /\ \A i \in DOMAIN queue : i = 1 \/ i - 1 \in DOMAIN queue'
        /\ \A i \in DOMAIN queue' : queue'[i] = queue[i + 1]
    <3>1. queue \in Seq(Requests) /\ queue' \in Seq(Requests) /\ Len(queue') = Len(queue) - 1
      BY <1>3, TakeStep DEF Typed
    <3>2. \A i \in DOMAIN queue : i = 1 \/ i - 1 \in DOMAIN queue'
      BY <3>1
    <3>3. QED
      BY <1>3, <3>2, TakeStep
  <2>2. \A i \in DOMAIN queue : queue[i] \in current' \/ \E j \in DOMAIN queue' : queue'[j] = queue[i]
    <3> SUFFICES ASSUME NEW i \in DOMAIN queue, i # 1
                 PROVE  \E j \in DOMAIN queue' : queue'[j] = queue[i]
      BY <2>1
    <3>1. i \in Nat
      BY DEF Typed
    <3>2. i - 1 \in DOMAIN queue' /\ queue'[i - 1] = queue[i]
      BY <2>1, <3>1
    <3>3. QED
      BY <3>2
  <2>3. QED
    BY <2>1, <2>2 DEF AwaitedIsInTheServer
<1>4. ASSUME DropUnreadable \/ Respond
      PROVE  AwaitedIsInTheServer'
  <2>1. PICK r \in Requests, answer \in reply \cup {NoAnswer} : current = {r} /\ Deliver(r, answer)
    BY <1>4, EndStep
  <2>2. /\ current' = {} /\ UNCHANGED queue
        /\ \A cl \in Clients : client'[cl].awaited = IF cl = r.client /\ Waits(r) THEN {}
                                                     ELSE client[cl].awaited
    BY <1>4, <2>1, EndStep, DeliverStep
  <2>3. \A cl \in Clients : r \in client[cl].awaited => client'[cl].awaited = {}
    BY <2>2 DEF Awaiting, Waits
  <2>4. \A cl \in Clients : \A s \in client'[cl].awaited : s \in client[cl].awaited /\ s # r
    BY <2>2, <2>3
  <2>5. QED
    BY <2>1, <2>2, <2>4 DEF AwaitedIsInTheServer
<1>5. ASSUME Restart
      PROVE  AwaitedIsInTheServer'
  BY <1>5, RestartStep DEF AwaitedIsInTheServer
<1>6. CASE Handle \/ UNCHANGED serverVars
  BY <1>6, HandleStep DEF AwaitedIsInTheServer, serverVars, loopVars
<1>7. QED
  BY <1>1, <1>2, <1>3, <1>4, <1>5, <1>6 DEF ServerNext, Loop

\* A read of a record of this epoch returns it.
LEMMA LookupStep ==
    ASSUME Typed, Accounted, Handle, NEW r \in Requests, current = {r}, r.call.op = "get",
           NEW k \in made, k.coll = r.call.coll, k.key = json_key(r.call.arg)
    PROVE  reply' = {[status |-> 200, value |-> k.record]}
<1> DEFINE c == r.call.coll
           key == json_key(r.call.arg)
<1>1. get_model(c, r.call.arg) /\ reply' = {Reply("get", ret')}
  BY DEF Handle
<1>2. k.key \in Decimals
  BY DEF Typed, Confirmations
<1>3. key # NoText /\ key \in DOMAIN records[c] /\ records[c][key] = k.record
  BY <1>2, KeyAssumption DEF Accounted
<1>4. ret' = Ok("get", c, key, k.record)
  BY <1>1, <1>3 DEF get_model
<1>5. ret'.error = NoError /\ ret'.value = k.record
  BY <1>4 DEF Ok, Return
<1>6. QED
  BY <1>1, <1>5 DEF Reply, Success

\* What the parts of a step that answer have to keep.
LEMMA ReadingStep ==
    ASSUME Typed, Accounted, Reading, [ServerNext]_serverVars
    PROVE  Reading'
<1>1. ASSUME NEW cl \in Clients, NEW call \in Calls, Send(cl, call)
      PROVE  Reading'
  <2>1. PICK r \in Requests :
           /\ queue' = Append(queue, r) /\ UNCHANGED <<current, reply, made>>
           /\ r.known = acked
           /\ \A d \in Clients : client'[d].last \in {client[d].last, {}}
    BY <1>1, SendStep
  <2>2. \A i \in DOMAIN queue' : queue'[i] = r \/ (i \in DOMAIN queue /\ queue'[i] = queue[i])
    BY <2>1 DEF Typed
  <2>3. \A i \in DOMAIN queue' : queue'[i].known \subseteq made
    BY <2>1, <2>2 DEF Reading, Typed
  <2>4. \A d \in Clients : \A last \in client'[d].last : Seen(last.request, last.answer)
    BY <2>1 DEF Reading
  <2>5. QED
    BY <2>1, <2>3, <2>4 DEF Reading, Seen
<1>2. ASSUME NEW cl \in Clients, GiveUp(cl)
      PROVE  Reading'
  BY <1>2, GiveUpStep DEF Reading, Seen
<1>3. ASSUME TakeRequest
      PROVE  Reading'
  <2>1. queue[1].known \subseteq made
    <3>1. queue # << >>
      BY <1>3, TakeStep
    <3>2. 1 \in DOMAIN queue
      BY <3>1 DEF Typed
    <3>3. QED
      BY <3>2 DEF Reading
  <2>2. /\ current' = {queue[1]} /\ UNCHANGED <<reply, client, made>> /\ reply = {}
        /\ \A i \in DOMAIN queue' : i + 1 \in DOMAIN queue /\ queue'[i] = queue[i + 1]
    BY <1>3, TakeStep
  <2>3. QED
    BY <2>1, <2>2 DEF Reading, Seen
<1>4. ASSUME DropUnreadable \/ Respond
      PROVE  Reading'
  <2>1. PICK r \in Requests, answer \in reply \cup {NoAnswer} :
           current = {r} /\ Deliver(r, answer)
    BY <1>4, EndStep
  <2>2. Seen(r, answer)
    BY <2>1 DEF Reading, Seen
  <2>3. \A cl \in Clients :
           client'[cl].last \in {client[cl].last, {[request |-> r, answer |-> answer]}}
    BY <2>1, DeliverStep
  <2>4. \A cl \in Clients : \A last \in client'[cl].last : Seen(last.request, last.answer)
    BY <2>2, <2>3 DEF Reading
  <2>5. current' = {} /\ reply' = {} /\ UNCHANGED <<queue, made>>
    BY <1>4, EndStep
  <2>6. QED
    BY <2>4, <2>5 DEF Reading, Seen
<1>5. ASSUME Handle
      PROVE  Reading'
  <2>1. PICK r \in Requests : current = {r} /\ made \subseteq made'
    BY <1>5, HandleStep
  <2>2. UNCHANGED <<queue, current, client>>
    BY <1>5, HandleStep
  <2>3. \A k \in r.known : /\ r.call.op = "get"
                          /\ k.coll = r.call.coll /\ k.key = json_key(r.call.arg)
                          => reply' = {[status |-> 200, value |-> k.record]}
    BY <1>5, <2>1, LookupStep DEF Reading
  <2>4. \A answer \in reply' : Seen(r, answer)
    BY <2>3 DEF Seen
  <2>5. QED
    BY <2>1, <2>2, <2>4 DEF Reading, Seen
<1>6. ASSUME Restart
      PROVE  Reading'
  BY <1>6, RestartStep DEF Reading
<1>7. CASE UNCHANGED serverVars
  BY <1>7 DEF Reading, Seen, serverVars, loopVars
<1>8. QED
  BY <1>1, <1>2, <1>3, <1>4, <1>5, <1>6, <1>7 DEF ServerNext, Loop

\* The invariant holds before the first connection.
LEMMA InvStart == ServerInit => IInv
<1> SUFFICES ASSUME ServerInit
             PROVE  IInv
  OBVIOUS
<1>1. StoreTypeOK /\ RecordsKeyedByTheirId
  BY KeyAssumption DEF ServerInit, StoreInit, StoreTypeOK, RecordsKeyedByTheirId
<1>2. Typed
  BY <1>1, ServerAssumption DEF ServerInit, Typed
<1>3. Numbered
  BY DEF ServerInit, Numbered
<1>4. Accounted
  BY <1>1 DEF ServerInit, StoreInit, Accounted, OneRecordPerRequest
<1>5. Awaiting /\ AwaitedIsInTheServer /\ Reading
  BY DEF ServerInit, Awaiting, AwaitedIsInTheServer, Reading
<1>6. QED
  BY <1>2, <1>3, <1>4, <1>5 DEF IInv

\* Every step keeps the invariant.
LEMMA InvStep == IInv /\ [ServerNext]_serverVars => IInv'
BY TypedStep, NumberedStep, AccountedStep, AwaitingStep, AwaitedStep, ReadingStep DEF IInv

-----------------------------------------------------------------------------
(***************************************************************************)
(* Theorems.                                                               *)
(***************************************************************************)

\* The loop handles one request at a time, and holds one response at most.
THEOREM ServerTypeCorrect == ServerSpec => []ServerTypeOK
<1>1. IInv => ServerTypeOK
  <2> SUFFICES ASSUME Typed
               PROVE  Cardinality(current) <= 1 /\ Cardinality(reply) <= 1
    BY DEF IInv, Typed, ServerTypeOK
  <2>1. Cardinality({}) = 0 /\ \A x : Cardinality({x}) = 1
    BY FS_EmptySet, FS_Singleton
  <2>2. /\ current = {} \/ \E r : current = {r}
        /\ reply = {} \/ \E a : reply = {a}
    BY DEF Typed
  <2>3. \A S : S = {} \/ (\E x : S = {x}) => Cardinality(S) <= 1
    BY <2>1, SMTT(30)
  <2>4. QED
    BY <2>2, <2>3
<1>2. QED
  BY <1>1, InvStart, InvStep, PTL DEF ServerSpec

\* No request that a client waits for is lost: it is queued or being handled.
THEOREM NoRequestLost == ServerSpec => []AwaitedIsInTheServer
<1>1. IInv => AwaitedIsInTheServer
  BY DEF IInv
<1>2. QED
  BY <1>1, InvStart, InvStep, PTL DEF ServerSpec

\* A request makes at most one record, and every record was made by one.
THEOREM OneRecordEach == ServerSpec => []OneRecordPerRequest
<1>1. IInv => OneRecordPerRequest
  BY DEF IInv, Accounted
<1>2. QED
  BY <1>1, InvStart, InvStep, PTL DEF ServerSpec

\* What a client was told is stored stays stored as it was told, as long as
\* the process lives.
THEOREM ConfirmedStays == ServerSpec => []ConfirmedRecordsStay
<1>1. IInv => ConfirmedRecordsStay
  BY DEF IInv, Typed, Accounted, ConfirmedRecordsStay
<1>2. QED
  BY <1>1, InvStart, InvStep, PTL DEF ServerSpec

\* A read sent after a record was confirmed returns it, whatever is queued,
\* dropped or abandoned in between.
THEOREM WritesAreRead == ServerSpec => []ReadYourWrites
<1>1. IInv => ReadYourWrites
  BY DEF IInv, Reading, Seen, ReadYourWrites, Answered
<1>2. QED
  BY <1>1, InvStart, InvStep, PTL DEF ServerSpec

=============================================================================
