--------------------------- MODULE AreBindingProofs ---------------------------
(***************************************************************************)
(* Theorems about what the runtime makes of a checked service, for every   *)
(* project: any files, services, routes, handlers and mappers.  What the   *)
(* checker's silence says of a route is drawn out of the sets of codes by  *)
(* lemmas on check_service; that the runtime meets the same file again is  *)
(* UniqueNames; what a request was bound to so far is the invariant.       *)
(***************************************************************************)
EXTENDS AreBinding, TLAPS

-----------------------------------------------------------------------------
\* What it means that a file raised no diagnostic.

\* A union without elements has no element in any of its members.
LEMMA EmptyUnion ==
    ASSUME NEW S, UNION S = {}, NEW x \in S
    PROVE  x = {}
OBVIOUS

\* Two sets without members.
LEMMA EmptyCup ==
    ASSUME NEW S, NEW T, S \cup T = {}
    PROVE  S = {} /\ T = {}
OBVIOUS

\* The services of a file without diagnostics have none.
LEMMA FileChecked ==
    ASSUME NEW file, check_file(file) = {}, NEW j \in DOMAIN file.services
    PROVE  check_service(file, file.services[j]) = {}
<1> DEFINE functions == UNION {check_function(file, file.functions[f]) : f \in DOMAIN file.functions}
           services == UNION {check_service(file, file.services[i]) : i \in DOMAIN file.services}
<1>1. services = {}
  <2>1. functions \cup services = {}
    BY DEF check_file
  <2>2. QED
    BY ONLY <2>1, EmptyCup
<1>2. QED
  BY <1>1, EmptyUnion

\* And the calls of its functions.
LEMMA CallsChecked ==
    ASSUME NEW file, check_file(file) = {}, NEW f \in DOMAIN file.functions,
           NEW call \in file.functions[f].calls
    PROVE  check_call(file, file.functions[f], call) = {}
<1> DEFINE functions == UNION {check_function(file, file.functions[g]) : g \in DOMAIN file.functions}
           services == UNION {check_service(file, file.services[i]) : i \in DOMAIN file.services}
           h == file.functions[f]
           names == {code \in {"E_TYPE_0003"} :
                        \E i, j \in DOMAIN h.params : i < j /\ h.params[i].name = h.params[j].name}
           calls == UNION {check_call(file, h, c) : c \in h.calls}
<1>1. functions = {}
  <2>1. functions \cup services = {}
    BY DEF check_file
  <2>2. QED
    BY ONLY <2>1, EmptyCup
<1>2. check_function(file, h) = {}
  BY <1>1, EmptyUnion
<1>3. calls = {}
  <2>1. names \cup calls = {}
    BY <1>2 DEF check_function
  <2>2. QED
    BY ONLY <2>1, EmptyCup
<1>4. QED
  BY <1>3, EmptyUnion

\* A call without diagnostics is of a function of the file; the error that
\* leaves it by `?`, or as it is returned, is the one of the caller.
LEMMA CallChecked ==
    ASSUME NEW file, NEW h, NEW call, check_call(file, h, call) = {},
           \/ call.try \/ call.returned
           \/ file.functions[call.function].returns.error = NoType
    PROVE  /\ call.function \in DOMAIN file.functions
           /\ file.functions[call.function].returns.error \in {h.returns.error, NoType}
<1> DEFINE returns == file.functions[call.function].returns
           value == IF call.try THEN [returns EXCEPT !.error = NoType] ELSE returns
           tried == {code \in check_try(h, returns) : call.try}
           returned == {code \in {"E_BODY_0009"} :
                           call.returned /\ ~return_accepts(h.returns, value)}
<1>1. call.function \in DOMAIN file.functions
  BY DEF check_call
<1>2. tried = {} /\ returned = {}
  <2>1. tried \cup returned = {}
    BY <1>1 DEF check_call
  <2>2. QED
    BY ONLY <2>1, EmptyCup
<1>3. CASE call.try
  <2>1. "E_BODY_0005" \notin check_try(h, returns) /\ "E_BODY_0006" \notin check_try(h, returns)
    BY <1>2, <1>3
  <2> HIDE DEF returns
  <2>2. returns.error = h.returns.error
    BY <2>1 DEF check_try
  <2>3. QED
    BY <1>1, <2>2 DEF returns
<1>4. CASE ~call.try /\ call.returned
  <2>1. return_accepts(h.returns, returns)
    BY <1>2, <1>4
  <2> HIDE DEF returns
  <2>2. returns.error \in {h.returns.error, NoType}
    BY <2>1 DEF return_accepts
  <2>3. QED
    BY <1>1, <2>2 DEF returns
<1>5. QED
  BY <1>1, <1>3, <1>4

\* A service without diagnostics has a state, and its routes and its mapping
\* of errors are in order.
LEMMA ServiceChecked ==
    ASSUME NEW file, NEW service, check_service(file, service) = {}
    PROVE  /\ \A k \in DOMAIN service.routes :
                 check_route(file, service.state, service.routes[k]) = {}
           /\ check_error_mapping(file, service, error_types(file, service)) = {}
<1>1. file.http # {} /\ service.state # NoType
  BY DEF check_service
<1> DEFINE state == {code \in {"E_HTTP_0003"} : ~\E s \in file.structs : service.state = <<s>>}
           routes == UNION {check_route(file, service.state, service.routes[i]) :
                               i \in DOMAIN service.routes}
           mapping == check_error_mapping(file, service, error_types(file, service))
<1>2. routes = {} /\ mapping = {}
  <2>1. (state \cup routes) \cup mapping = {}
    BY <1>1 DEF check_service
  <2>2. state \cup routes = {} /\ mapping = {}
    BY ONLY <2>1, EmptyCup
  <2>3. QED
    BY ONLY <2>2, EmptyCup
<1>3. QED
  BY <1>2, EmptyUnion

\* A route without diagnostics has a handler in its file, which keeps to it.
LEMMA RouteChecked ==
    ASSUME NEW file, NEW state, NEW r, check_route(file, state, r) = {}
    PROVE  LET handler == file.functions[r.handler]
               uses == collect_handler_io_uses(file.http, r, handler)
           IN  /\ r.handler \in DOMAIN file.functions
               /\ check_route_path_param_contract(r, uses) = {}
               /\ check_route_decode_contracts(r, uses) = {}
               /\ check_route_handler_status(r, handler) = {}
               /\ check_route_handler(file.http, state, r, handler) = {}
<1> DEFINE handler == file.functions[r.handler]
           uses(h) == collect_handler_io_uses(file.http, r, h)
           checks(h) == check_route_path_param_contract(r, uses(h))
                        \cup check_route_decode_contracts(r, uses(h))
                        \cup check_route_handler_status(r, h)
                        \cup check_route_handler(file.http, state, r, h)
           handlers == {file.functions[f] : f \in {r.handler} \cap DOMAIN file.functions}
<1>1. r.handler \in DOMAIN file.functions
  <2>1. {code \in {"E_RESOLVE_0002"} : r.handler \notin DOMAIN file.functions} = {}
    BY DEF check_route
  <2>2. QED
    BY <2>1
<1>2. UNION {checks(h) : h \in handlers} = {}
  BY DEF check_route
<1>3. handler \in handlers
  BY <1>1
<1>4. checks(handler) = {}
  <2> HIDE DEF checks, handlers, handler
  <2>1. checks(handler) \in {checks(h) : h \in handlers}
    BY <1>3
  <2>2. QED
    BY <1>2, <2>1, EmptyUnion
<1>5. QED
  BY <1>1, <1>4

-----------------------------------------------------------------------------
\* One parameter: what the checker settled and what the runtime looks for.

Sources == Inputs \cup {"path", "request"}

\* The one source the checker finds for a parameter.
From(http, r, param, source) == handler_param_source(http, r, param) = {source}

\* Where members named Request are those of std.http, a parameter with one
\* source takes it at run time: both give names precedence over types, and a
\* type that is the only input of its kind is met by no other question.
LEMMA SourceIsTaken ==
    ASSUME NEW http, NEW r, NEW param, NEW i, i # 1, NEW source \in Sources,
           From(http, r, param, source),
           is_http_request_type(param.type) => path_is_http(http, param.type, "Request")
    PROVE  /\ source = "request" => handler_arg_input(r, i, param) = "unit"
           /\ source # "request" => handler_arg_input(r, i, param) = source
<1> DEFINE named == \E k \in DOMAIN r.path : r.path[k].name = param.name
           typed == {input \in Inputs : r.inputs[input] # NoType /\ r.inputs[input] = param.type}
<1>1. path_is_http(http, param.type, "Request") => is_http_request_type(param.type)
  BY DEF path_is_http, is_http_request_type
<1>2. CASE path_is_http(http, param.type, "Request")
  <2>1. source = "request"
    BY <1>2 DEF From, handler_param_source
  <2>2. QED
    BY <1>1, <1>2, <2>1 DEF handler_arg_input
<1>3. CASE ~path_is_http(http, param.type, "Request") /\ named
  <2>1. source = "path"
    BY <1>3 DEF From, handler_param_source
  <2>2. takes(r, "path", param)
    BY <1>3 DEF takes
  <2>3. QED
    BY <1>3, <2>1, <2>2 DEF handler_arg_input
<1>4. CASE ~path_is_http(http, param.type, "Request") /\ ~named
  <2>1. typed = {source}
    BY <1>4 DEF From, handler_param_source
  <2>2. source \in Inputs /\ takes(r, source, param)
    BY <2>1 DEF takes, Inputs
  <2>3. \A input \in Inputs : takes(r, input, param) => input = source
    BY <2>1 DEF takes, Inputs
  <2>4. ~takes(r, "path", param)
    BY <1>4 DEF takes
  <2>5. QED
    BY <1>4, <2>2, <2>3, <2>4 DEF handler_arg_input, Inputs
<1>5. QED
  BY <1>2, <1>3, <1>4

\* The parameters of a checked handler each have one source, and two share
\* one only if it is the path, by different names.
LEMMA ParamsChecked ==
    ASSUME NEW http, NEW r, NEW handler, Len(handler.params) \in Nat,
           check_route_handler_params(http, r, handler) = {}
    PROVE  /\ \A i \in Bindable(handler) : \E source \in Sources :
                 From(http, r, handler.params[i], source)
           /\ \A i, j \in Bindable(handler), source \in Sources :
                 /\ i # j
                 /\ From(http, r, handler.params[i], source)
                 /\ From(http, r, handler.params[j], source)
                 => source = "path" /\ handler.params[i].name # handler.params[j].name
<1> DEFINE shared(i, j, source) ==
              /\ From(http, r, handler.params[i], source)
              /\ From(http, r, handler.params[j], source)
              /\ source = "path" => handler.params[i].name = handler.params[j].name
<1>1. \A i \in Bindable(handler) : \E source \in Sources :
          From(http, r, handler.params[i], source)
  BY DEF check_route_handler_params, Sources, From
<1>2. \A i, j \in Bindable(handler), source \in Sources : i < j => ~shared(i, j, source)
  BY DEF check_route_handler_params, Sources, From
<1>3. \A i, j \in Bindable(handler) : i # j => i < j \/ j < i
  BY DEF Bindable
<1>4. \A i, j \in Bindable(handler), source \in Sources :
          i # j => ~shared(i, j, source)
  BY <1>2, <1>3
<1>5. QED
  BY <1>1, <1>4

\* A checked handler takes a context first and returns what its route does.
LEMMA HandlerChecked ==
    ASSUME NEW http, NEW state, NEW r, NEW handler,
           check_route_handler(http, state, r, handler) = {}
    PROVE  /\ handler.params # << >>
           /\ check_route_handler_params(http, r, handler) = {}
           /\ valid_return(http, r, handler.returns)
<1>1. handler.params # << >>
  BY DEF check_route_handler
<1> DEFINE others == {code \in {"E_HTTP_0202", "E_HTTP_0204"} :
            \/ /\ code = "E_HTTP_0202"
               /\ ~\E alias \in http : handler.params[1].type = <<alias, "Context">> \o state
            \/ code = "E_HTTP_0204" /\ ~valid_return(http, r, handler.returns)}
<1>2. check_route_handler_params(http, r, handler) \cup others = {}
  BY <1>1 DEF check_route_handler
<1>3. check_route_handler_params(http, r, handler) = {} /\ others = {}
  BY ONLY <1>2, EmptyCup
<1>4. valid_return(http, r, handler.returns)
  BY <1>3
<1>5. QED
  BY <1>1, <1>3, <1>4

\* What a handler uses is read in its body or is a parameter.
LEMMA UsesAre ==
    ASSUME NEW http, NEW r, NEW handler
    PROVE  /\ \A use \in collect_handler_io_uses(http, r, handler) :
                 \/ use \in handler.reads
                 \/ \E i \in Bindable(handler), input \in Inputs \cup {"path"} :
                       /\ From(http, r, handler.params[i], input)
                       /\ use = [input |-> input, name |-> handler.params[i].name,
                                 type |-> handler.params[i].type]
           /\ \A i \in Bindable(handler), input \in Inputs \cup {"path"} :
                 From(http, r, handler.params[i], input) =>
                     [input |-> input, name |-> handler.params[i].name,
                      type |-> handler.params[i].type] \in collect_handler_io_uses(http, r, handler)
BY DEF collect_handler_io_uses, From

\* A declared input is used as the type the route gives it.
LEMMA DecodesChecked ==
    ASSUME NEW r, NEW uses, check_route_decode_contracts(r, uses) = {},
           NEW input \in Inputs, r.inputs[input] # NoType
    PROVE  \E use \in uses : use.input = input /\ use.type = r.inputs[input]
<1> DEFINE types(i) == {use.type : use \in {u \in uses : u.input = i}}
           declared(i) == r.inputs[i] # NoType
           unused == {codes[i][1] : i \in {j \in Inputs : declared(j) /\ types(j) = {}}}
           others == {codes[i][2] : i \in {j \in Inputs :
                         declared(j) /\ types(j) # {} /\ r.inputs[j] \notin types(j)}}
           undeclared == {codes[i][3] : i \in {j \in Inputs : ~declared(j) /\ types(j) # {}}}
<1>1. (unused \cup others) \cup undeclared = {}
  BY DEF check_route_decode_contracts
<1>2. unused = {} /\ others = {}
  <2>1. unused \cup others = {}
    BY ONLY <1>1, EmptyCup
  <2>2. QED
    BY ONLY <2>1, EmptyCup
<1>3. ~(declared(input) /\ types(input) = {})
  BY <1>2
<1>4. ~(declared(input) /\ types(input) # {} /\ r.inputs[input] \notin types(input))
  BY <1>2
<1>5. QED
  BY <1>3, <1>4

\* A typed parameter of the path is used, by its type alone.
LEMMA PathChecked ==
    ASSUME NEW r, NEW uses, check_route_path_param_contract(r, uses) = {}, NEW k \in DOMAIN r.path
    PROVE  /\ r.path[k].type # NoType =>
                 \E use \in uses : use.input = "path" /\ use.name = r.path[k].name
           /\ \A use \in uses : use.input = "path" /\ use.name = r.path[k].name =>
                 r.path[k].type \in {NoType, use.type}
BY DEF check_route_path_param_contract

-----------------------------------------------------------------------------
\* The tables of the runtime give what the file of the service declares.

\* The numbers of one element.
LEMMA OneIndex ==
    ASSUME NEW i \in Nat
    PROVE  LastOf({i}) = i /\ FirstOf({i}) = i
BY DEF LastOf, FirstOf

\* The files of a project are numbered.
LEMMA Numbered ==
    ASSUME files \in Projects
    PROVE  Len(files) \in Nat /\ DOMAIN files = 1..Len(files)
BY ProjectAssumption

\* A function declared in a file, in no other, is the one found by name.
LEMMA FunctionFound ==
    ASSUME files \in Projects, UniqueNames,
           NEW i \in DOMAIN files, NEW f \in DOMAIN files[i].functions
    PROVE  /\ Declaring("functions", f) = {i}
           /\ LastOf(Declaring("functions", f)) = i
           /\ FileOf(f) = files[i]
           /\ function(f) = files[i].functions[f]
<1>1. Declaring("functions", f) = {i}
  BY DEF Declaring, UniqueNames
<1>2. i \in Nat
  BY Numbered
<1>3. LastOf(Declaring("functions", f)) = i
  BY <1>1, <1>2, OneIndex
<1>4. QED
  BY <1>1, <1>3 DEF function, FileOf

\* And an enum.
LEMMA EnumFound ==
    ASSUME files \in Projects, UniqueNames,
           NEW i \in DOMAIN files, NEW e \in DOMAIN files[i].enums
    PROVE  /\ Declaring("enums", e) = {i}
           /\ enum_schema(e) = files[i].enums[e]
<1>1. Declaring("enums", e) = {i}
  BY DEF Declaring, UniqueNames
<1>2. i \in Nat
  BY Numbered
<1>3. FirstOf(Declaring("enums", e)) = i
  BY <1>1, <1>2, OneIndex
<1>4. QED
  BY <1>1, <1>3 DEF enum_schema

\* An enum that is found is one of a file, and its variants are no codes.
LEMMA VariantsAreNoCodes ==
    ASSUME files \in Projects, UniqueNames, NEW e, Declaring("enums", e) # {},
           NEW variant \in DOMAIN enum_schema(e)
    PROVE  variant \notin Codes
<1>1. PICK i \in DOMAIN files : e \in DOMAIN files[i].enums
  BY DEF Declaring
<1>2. enum_schema(e) = files[i].enums[e]
  BY <1>1, EnumFound
<1>3. DOMAIN files[i].enums[e] \cap Codes = {}
  BY <1>1, ProjectAssumption
<1>4. QED
  BY <1>2, <1>3

\* A mapping is the one use that std.http gives its name.
LEMMA UseFound ==
    ASSUME files \in Projects, OnlyHttp, NEW i \in DOMAIN files, NEW j \in DOMAIN files[i].services,
           NEW name \in {"errors", "error_map"}
    PROVE  LET file == files[i]
               service == files[i].services[j]
               uses == http_uses(file, service, name)
           IN  /\ (\A u \in uses : service.uses[u].args = << >>) =>
                     runtime_use(service, name) = None
               /\ \A u \in uses : service.uses[u].args # << >> /\ uses = {u} =>
                     runtime_use(service, name) = service.uses[u].args[1]
<1> DEFINE service == files[i].services[j]
           uses == http_uses(files[i], service, name)
           found == {u \in DOMAIN service.uses :
                        /\ service.uses[u].target[Len(service.uses[u].target)] = name
                        /\ service.uses[u].args # << >>}
<1>1. found = {u \in uses : service.uses[u].args # << >>}
  <2>1. \A u \in found : u \in uses
    BY DEF OnlyHttp, http_uses
  <2>2. \A u \in uses : u \in DOMAIN service.uses
                      /\ service.uses[u].target[Len(service.uses[u].target)] = name
    BY DEF http_uses, path_is_http
  <2>3. QED
    BY <2>1, <2>2
<1>2. uses \subseteq Nat
  BY ProjectAssumption DEF http_uses
<1>3. runtime_use(service, name) =
        IF found = {} THEN None ELSE service.uses[FirstOf(found)].args[1]
  BY DEF runtime_use
<1> HIDE DEF found, uses
<1>4. ASSUME \A u \in uses : service.uses[u].args = << >>
      PROVE  runtime_use(service, name) = None
  BY <1>1, <1>3, <1>4, Zenon
<1>5. ASSUME NEW u \in uses, service.uses[u].args # << >>, uses = {u}
      PROVE  runtime_use(service, name) = service.uses[u].args[1]
  <2>1. found = {u}
    BY <1>1, <1>5
  <2>2. FirstOf(found) = u
    BY <1>2, <2>1, OneIndex
  <2>3. QED
    BY <1>3, <2>1, <2>2
<1>6. QED
  BY <1>4, <1>5 DEF uses

-----------------------------------------------------------------------------
\* What a checked mapping of errors is.

\* The one use that maps the error of an enum, in order.
Mapped(file, service, enum, u) ==
    LET maps == http_uses(file, service, "error_map")
        contracts == http_uses(file, service, "errors")
    IN  /\ maps \cup contracts = {u}
        /\ Len(service.uses[u].args) = 1
        /\ u \in contracts => check_error_contract(file, service.uses[u].args[1], <<enum>>) = {}
        /\ u \in maps => check_error_mapper(file, service.uses[u].args[1], <<enum>>) = {}

\* An error that a route of a checked service raises has one mapping: the
\* contract of its enum, or a function of the file.
LEMMA ErrorMapped ==
    ASSUME NEW file, NEW service, check_service(file, service) = {},
           NEW k \in DOMAIN service.routes, NEW enum,
           file.functions[service.routes[k].handler].returns.error = <<enum>>
    PROVE  \E u \in DOMAIN service.uses : Mapped(file, service, enum, u)
<1> DEFINE r == service.routes[k]
           handler == file.functions[r.handler]
           types == error_types(file, service)
           maps == http_uses(file, service, "error_map")
           contracts == http_uses(file, service, "errors")
           counts == {code \in {"E_HTTP_0301", "E_HTTP_0302", "E_HTTP_0303", "E_HTTP_0304"} :
                        /\ types # {}
                        /\ \/ code = "E_HTTP_0301" /\ \E e1, e2 \in types : e1 # e2
                           \/ code = "E_HTTP_0302" /\ maps \cup contracts = {}
                           \/ code = "E_HTTP_0303" /\ \E i, j \in maps \cup contracts : i # j
                           \/ code = "E_HTTP_0304" /\ \E i \in maps \cup contracts : Len(service.uses[i].args) # 1}
           mapper(i) == UNION {check_error_mapper(file, service.uses[i].args[1], error) : error \in types}
           contract(i) == UNION {check_error_contract(file, service.uses[i].args[1], error) : error \in types}
           mappers == UNION {mapper(i) : i \in {m \in maps : Len(service.uses[m].args) = 1}}
           enums == UNION {contract(i) : i \in {c \in contracts : Len(service.uses[c].args) = 1}}
<1>1. check_route(file, service.state, r) = {} /\ check_error_mapping(file, service, types) = {}
  BY ServiceChecked, SMTT(30)
<1>2. <<enum>> \in types
  <2>1. r.handler \in DOMAIN file.functions /\ check_route_handler(file.http, service.state, r, handler) = {}
    BY <1>1, RouteChecked
  <2>2. handler.params # << >> /\ valid_return(file.http, r, handler.returns)
    BY <2>1, HandlerChecked
  <2>3. <<enum>> # NoType
    BY SMTT(30) DEF NoType
  <2>4. <<enum>> \in route_error(file.http, r, handler)
    BY <2>2, <2>3 DEF route_error
  <2>5. QED
    BY <2>1, <2>4 DEF error_types
<1>3. counts = {} /\ mappers = {} /\ enums = {}
  <2>1. (counts \cup mappers) \cup enums = {}
    BY <1>1 DEF check_error_mapping
  <2>2. counts \cup mappers = {} /\ enums = {}
    BY ONLY <2>1, EmptyCup
  <2>3. QED
    BY ONLY <2>2, EmptyCup
<1> HIDE DEF types, maps, contracts
<1>4. /\ maps \cup contracts # {}
      /\ \A i, j \in maps \cup contracts : i = j
      /\ \A i \in maps \cup contracts : Len(service.uses[i].args) = 1
  <2>1. types # {}
    BY <1>2
  <2>2. "E_HTTP_0302" \notin counts /\ "E_HTTP_0303" \notin counts /\ "E_HTTP_0304" \notin counts
    BY <1>3
  <2>3. QED
    BY <2>1, <2>2
<1>5. PICK u \in maps \cup contracts : maps \cup contracts = {u}
  BY <1>4
<1>6. ASSUME u \in contracts
      PROVE  check_error_contract(file, service.uses[u].args[1], <<enum>>) = {}
  <2>1. contract(u) \in {contract(i) : i \in {c \in contracts : Len(service.uses[c].args) = 1}}
    BY <1>4, <1>6
  <2>2. contract(u) = {}
    BY <1>3, <2>1, EmptyUnion
  <2>3. QED
    BY <1>2, <2>2, EmptyUnion
<1>7. ASSUME u \in maps
      PROVE  check_error_mapper(file, service.uses[u].args[1], <<enum>>) = {}
  <2>1. mapper(u) \in {mapper(i) : i \in {m \in maps : Len(service.uses[m].args) = 1}}
    BY <1>4, <1>7
  <2>2. mapper(u) = {}
    BY <1>3, <2>1, EmptyUnion
  <2>3. QED
    BY <1>2, <2>2, EmptyUnion
<1>8. Mapped(file, service, enum, u)
  BY <1>4, <1>5, <1>6, <1>7 DEF maps, contracts, Mapped
<1>9. u \in DOMAIN service.uses
  BY DEF maps, contracts, http_uses
<1>10. QED
  BY <1>8, <1>9

\* A checked contract gives every variant of the error an error status.
LEMMA ContractChecked ==
    ASSUME NEW file, NEW name, NEW enum, check_error_contract(file, name, <<enum>>) = {}
    PROVE  /\ name = enum /\ enum \in DOMAIN file.enums
           /\ \A v \in DOMAIN file.enums[enum] : file.enums[enum][v] \in 400..599
<1>1. ~(<<name>> # <<enum>> \/ name \notin DOMAIN file.enums)
  BY DEF check_error_contract
<1>2. name = enum
  <2>1. <<name>>[1] = <<enum>>[1]
    BY <1>1
  <2>2. QED
    BY <2>1
<1>3. QED
  BY <1>1, <1>2 DEF check_error_contract

\* A checked mapper is a function of the file with one parameter.
LEMMA MapperChecked ==
    ASSUME NEW file, NEW mapper, NEW error, check_error_mapper(file, mapper, error) = {}
    PROVE  mapper \in DOMAIN file.functions /\ Len(file.functions[mapper].params) = 1
<1>1. mapper \in DOMAIN file.functions
  BY DEF check_error_mapper
<1>2. "E_HTTP_0306" \notin check_error_mapper(file, mapper, error)
  BY SMTT(30)
<1>3. QED
  BY <1>1, <1>2 DEF check_error_mapper

-----------------------------------------------------------------------------
\* What the runtime binds for a checked route.

Input(r, h, i) == handler_arg_input(r, i, h.params[i])

\* Its file takes Request from std.http.
HttpRequests(http, h) ==
    \A i \in DOMAIN h.params :
        is_http_request_type(h.params[i].type) => path_is_http(http, h.params[i].type, "Request")

\* Every parameter takes something, nothing is taken twice, and a parameter of
\* the path is decoded as its type.
AllTaken(http, r, h) ==
    /\ \A i \in 1..Len(h.params) : Input(r, h, i) # None
    /\ \A i \in 1..Len(h.params) : Input(r, h, i) = "unit" =>
          i = 1 \/ path_is_http(http, h.params[i].type, "Request")
    /\ \A i \in 1..Len(h.params) : Input(r, h, i) = "path" =>
          \A k \in DOMAIN r.path : r.path[k].name = h.params[i].name =>
             r.path[k].type \in {NoType, h.params[i].type}
    /\ \A i, j \in 1..Len(h.params) : i # j /\ Input(r, h, i) = Input(r, h, j) =>
          \/ Input(r, h, i) = "unit"
          \/ Input(r, h, i) = "path" /\ h.params[i].name # h.params[j].name

\* Everything the route declares is taken by a parameter, or read.
AllUsed(r, h) ==
    /\ \A input \in Inputs : r.inputs[input] # NoType =>
          \/ \E i \in 1..Len(h.params) : Input(r, h, i) = input
          \/ \E use \in h.reads : use.input = input /\ use.type = r.inputs[input]
    /\ \A k \in DOMAIN r.path : r.path[k].type # NoType =>
          \/ \E i \in 1..Len(h.params) :
                Input(r, h, i) = "path" /\ h.params[i].name = r.path[k].name
          \/ \E use \in h.reads :
                /\ use.input = "path"
                /\ use.name = r.path[k].name /\ use.type = r.path[k].type

\* A checked handler takes its inputs one by one.
LEMMA ArgsAreTaken ==
    ASSUME NEW file, NEW state, NEW r, NEW h, check_route(file, state, r) = {},
           h = file.functions[r.handler], Len(h.params) \in Nat,
           DOMAIN h.params = 1..Len(h.params), HttpRequests(file.http, h)
    PROVE  AllTaken(file.http, r, h)
<1> DEFINE uses == collect_handler_io_uses(file.http, r, h)
           from(i, source) == From(file.http, r, h.params[i], source)
<1>1. /\ check_route_path_param_contract(r, uses) = {}
      /\ check_route_handler(file.http, state, r, h) = {}
  BY RouteChecked
<1>2. check_route_handler_params(file.http, r, h) = {}
  BY <1>1, HandlerChecked
<1>3. /\ \A i \in Bindable(h) : \E source \in Sources : from(i, source)
      /\ \A i, j \in Bindable(h), source \in Sources :
            i # j /\ from(i, source) /\ from(j, source) =>
                source = "path" /\ h.params[i].name # h.params[j].name
  <2>1. Len(h.params) \in Nat /\ check_route_handler_params(file.http, r, h) = {}
    BY <1>2
  <2>2. ASSUME NEW i \in Bindable(h)
        PROVE  \E source \in Sources : from(i, source)
    BY ONLY <2>1, ParamsChecked
  <2>3. ASSUME NEW i \in Bindable(h), NEW j \in Bindable(h), NEW source \in Sources,
               i # j, from(i, source), from(j, source)
        PROVE  source = "path" /\ h.params[i].name # h.params[j].name
    BY ONLY <2>1, <2>3, ParamsChecked
  <2>4. QED
    BY <2>2, <2>3
<1>4. \A i \in Bindable(h) : i # 1 /\ i \in DOMAIN h.params
  BY DEF Bindable
<1>5. \A i \in Bindable(h), source \in Sources : from(i, source) =>
         /\ source = "request" => Input(r, h, i) = "unit"
         /\ source # "request" => Input(r, h, i) = source
  <2>1. SUFFICES ASSUME NEW i \in Bindable(h), NEW source \in Sources, from(i, source)
                 PROVE  /\ source = "request" => handler_arg_input(r, i, h.params[i]) = "unit"
                        /\ source # "request" => handler_arg_input(r, i, h.params[i]) = source
    BY DEF Input
  <2>2. is_http_request_type(h.params[i].type) => path_is_http(file.http, h.params[i].type, "Request")
    BY <1>4 DEF HttpRequests
  <2>3. QED
    BY <1>4, <2>1, <2>2, SourceIsTaken
<1>6. Input(r, h, 1) = "unit"
  BY DEF Input, handler_arg_input
<1>7. \A i \in 1..Len(h.params) : i = 1 \/ i \in Bindable(h)
  BY DEF Bindable
<1>8. \A i \in Bindable(h) : Input(r, h, i) # "path" \/ from(i, "path")
  <2>1. ASSUME NEW i \in Bindable(h), Input(r, h, i) = "path"
        PROVE  from(i, "path")
    <3>1. PICK source \in Sources : from(i, source)
      BY <1>3
    <3>2. source = "path"
      <4>1. CASE source = "request"
        BY <1>5, <2>1, <3>1, <4>1
      <4>2. CASE source # "request"
        BY <1>5, <2>1, <3>1, <4>2
      <4>3. QED
        BY <4>1, <4>2
    <3>3. QED
      BY <3>1, <3>2
  <2>2. QED
    BY <2>1
<1>9. ASSUME NEW i \in 1..Len(h.params)
      PROVE  Input(r, h, i) # None
  <2>1. "unit" # None /\ \A source \in Sources : source # None
    BY DEF None, Sources, Inputs
  <2>2. CASE i = 1
    BY <1>6, <2>1, <2>2
  <2>3. CASE i \in Bindable(h)
    <3>1. PICK source \in Sources : from(i, source)
      BY <1>3, <2>3
    <3>2. Input(r, h, i) \in {"unit", source}
      BY <1>5, <2>3, <3>1
    <3>3. QED
      BY <2>1, <3>2
  <2>4. QED
    BY <1>7, <2>2, <2>3
<1>10. ASSUME NEW i \in 1..Len(h.params), Input(r, h, i) = "unit", i # 1
       PROVE  path_is_http(file.http, h.params[i].type, "Request")
  <2>1. i \in Bindable(h)
    BY <1>7, <1>10
  <2>2. PICK source \in Sources : from(i, source)
    BY <1>3, <2>1
  <2>3. source = "request"
    BY <1>5, <1>10, <2>1, <2>2 DEF Sources, Inputs
  <2>4. handler_param_source(file.http, r, h.params[i]) = {"request"}
    BY <2>2, <2>3 DEF From
  <2>5. "request" \notin Inputs
    BY SMTT(30) DEF Inputs
  <2>6. QED
    BY <2>4, <2>5 DEF handler_param_source
<1>11. ASSUME NEW i \in 1..Len(h.params), Input(r, h, i) = "path",
              NEW k \in DOMAIN r.path, r.path[k].name = h.params[i].name
       PROVE  r.path[k].type \in {NoType, h.params[i].type}
  <2>1. i \in Bindable(h) /\ from(i, "path")
    BY <1>6, <1>7, <1>8, <1>11
  <2>2. [input |-> "path", name |-> h.params[i].name, type |-> h.params[i].type] \in uses
    BY <2>1, UsesAre
  <2>3. \A use \in uses : use.input = "path" /\ use.name = r.path[k].name =>
           r.path[k].type \in {NoType, use.type}
    BY <1>1, PathChecked, SMTT(30)
  <2> HIDE DEF uses
  <2>4. QED
    BY <1>11, <2>2, <2>3
<1>12. ASSUME NEW i \in 1..Len(h.params), NEW j \in 1..Len(h.params), i # j,
              Input(r, h, i) = Input(r, h, j), Input(r, h, i) # "unit"
       PROVE  Input(r, h, i) = "path" /\ h.params[i].name # h.params[j].name
  <2>1. i \in Bindable(h) /\ j \in Bindable(h)
    BY <1>6, <1>7, <1>12
  <2>2. PICK source \in Sources : from(i, source) /\ source # "request"
    BY <1>3, <1>5, <1>12, <2>1
  <2>3. PICK other \in Sources : from(j, other) /\ other # "request"
    BY <1>3, <1>5, <1>12, <2>1
  <2>4. source = Input(r, h, i) /\ other = Input(r, h, j)
    BY <1>5, <2>1, <2>2, <2>3
  <2>5. QED
    BY <1>3, <1>12, <2>1, <2>2, <2>3, <2>4
<1>13. QED
  BY <1>9, <1>10, <1>11, <1>12 DEF AllTaken

\* And drops none.
LEMMA DeclaredIsTaken ==
    ASSUME NEW file, NEW state, NEW r, NEW h, check_route(file, state, r) = {},
           h = file.functions[r.handler], Len(h.params) \in Nat,
           DOMAIN h.params = 1..Len(h.params), HttpRequests(file.http, h)
    PROVE  AllUsed(r, h)
<1> DEFINE uses == collect_handler_io_uses(file.http, r, h)
           from(i, source) == From(file.http, r, h.params[i], source)
<1>1. /\ check_route_path_param_contract(r, uses) = {}
      /\ check_route_decode_contracts(r, uses) = {}
  BY RouteChecked
<1>2. \A i \in Bindable(h) : i # 1 /\ i \in DOMAIN h.params /\ i \in 1..Len(h.params)
  BY DEF Bindable
<1>3. \A i \in Bindable(h), input \in Inputs \cup {"path"} :
          from(i, input) => Input(r, h, i) = input
  <2>1. SUFFICES ASSUME NEW i \in Bindable(h), NEW input \in Inputs \cup {"path"}, from(i, input)
                 PROVE  handler_arg_input(r, i, h.params[i]) = input
    BY DEF Input
  <2>2. is_http_request_type(h.params[i].type) => path_is_http(file.http, h.params[i].type, "Request")
    BY <1>2 DEF HttpRequests
  <2>3. input \in Sources /\ input # "request"
    BY SMTT(30) DEF Sources, Inputs
  <2>4. QED
    BY <1>2, <2>1, <2>2, <2>3, SourceIsTaken
<1>4. \A use \in uses :
         \/ use \in h.reads
         \/ \E i \in 1..Len(h.params) : Input(r, h, i) = use.input /\ h.params[i].name = use.name
  <2>1. SUFFICES ASSUME NEW use \in uses, use \notin h.reads
                 PROVE  \E i \in 1..Len(h.params) :
                           Input(r, h, i) = use.input /\ h.params[i].name = use.name
    OBVIOUS
  <2>2. PICK i \in Bindable(h), input \in Inputs \cup {"path"} :
           /\ from(i, input)
           /\ use = [input |-> input, name |-> h.params[i].name, type |-> h.params[i].type]
    BY <2>1, UsesAre
  <2>3. QED
    BY <1>2, <1>3, <2>2
<1>5. ASSUME NEW input \in Inputs, r.inputs[input] # NoType
      PROVE  \/ \E i \in 1..Len(h.params) : Input(r, h, i) = input
             \/ \E use \in h.reads : use.input = input /\ use.type = r.inputs[input]
  <2>1. PICK use \in uses : use.input = input /\ use.type = r.inputs[input]
    BY <1>1, <1>5, DecodesChecked
  <2>2. QED
    BY <1>4, <2>1
<1>6. ASSUME NEW k \in DOMAIN r.path, r.path[k].type # NoType
      PROVE  \/ \E i \in 1..Len(h.params) :
                   Input(r, h, i) = "path" /\ h.params[i].name = r.path[k].name
             \/ \E use \in h.reads :
                   /\ use.input = "path"
                   /\ use.name = r.path[k].name /\ use.type = r.path[k].type
  <2>1. PICK use \in uses : use.input = "path" /\ use.name = r.path[k].name
    BY <1>1, <1>6, PathChecked
  <2>2. use.type = r.path[k].type
    BY <1>1, <1>6, <2>1, PathChecked
  <2>3. QED
    BY <1>4, <2>1, <2>2
<1>7. QED
  BY <1>5, <1>6 DEF AllUsed

-----------------------------------------------------------------------------
\* The course of a request.

\* The contracts of a served project are those of a service, and its files
\* have no diagnostics.
Prepared ==
    phase \notin {"check", "refused"} =>
        \E i \in DOMAIN files : \E j \in DOMAIN files[i].services :
            manifest = from_service(files[i].services[j])

\* A request that is served is one of a route of the service.
Routed ==
    phase \in {"args", "handler", "mapper"} =>
        \E k \in DOMAIN manifest.routes : route = manifest.routes[k]

\* Nothing is raised or answered before a handler ends, and a mapper is asked
\* only by a service without a contract.
Fresh ==
    /\ phase \in {"check", "refused", "args", "handler"} => raised = NotRaised /\ resp = NoResponse
    /\ phase = "mapper" =>
          /\ raised # NotRaised /\ resp = NoResponse
          /\ manifest.error_mapper # None /\ manifest.error_contract = None

Inv == files \in Projects /\ TypeOK /\ Prepared /\ Routed /\ Fresh

\* The invariant holds before a project is looked at.
LEMMA InvInit == Init => Inv
<1> SUFFICES ASSUME Init PROVE Inv
  OBVIOUS
<1>1. files \in Projects /\ Prepared /\ Routed
  BY DEF Init, Prepared, Routed
<1>2. Fresh
  BY DEF Init, Fresh
<1>3. TypeOK
  <2>1. 0 \in 0..Len(files)
    BY <1>1, Numbered
  <2>2. UNION {check_file(files[i]) : i \in 1..0} = {}
    OBVIOUS
  <2>3. QED
    BY <2>1, <2>2 DEF Init, TypeOK, Phases
<1>4. QED
  BY <1>1, <1>2, <1>3 DEF Inv

\* What an error does to the course of a request.
LEMMA ErrorMoves ==
    ASSUME NEW error, mapped_error_response(error), error # NotRaised, resp = NoResponse
    PROVE  /\ raised' = error
           /\ \/ phase' = "idle"
              \/ /\ phase' = "mapper" /\ resp' = NoResponse
                 /\ manifest.error_mapper # None /\ manifest.error_contract = None
BY DEF mapped_error_response, Respond

\* What keeps the invariant once a project is served.
LEMMA ServedStep ==
    ASSUME Inv, phase \notin {"check", "refused"}, UNCHANGED <<files, checked, errors, manifest>>,
           phase' \in {"idle", "args", "handler", "mapper"},
           args' \in Nat, \A b \in bound' : b.param \in 1..args',
           Routed', Fresh'
    PROVE  Inv'
<1>1. Prepared'
  BY DEF Inv, Prepared
<1>2. TypeOK'
  <2>1. (phase = "mapper" => manifest.error_mapper # None /\ raised # NotRaised)'
    BY DEF Fresh
  <2>2. (errors = UNION {check_file(files[i]) : i \in 1..checked})'
    BY DEF Inv, TypeOK
  <2>3. (checked \in 0..Len(files))' /\ phase' \in Phases
    BY DEF Inv, TypeOK, Phases
  <2>4. (phase \notin {"check", "refused"} => checked = Len(files) /\ errors = {})'
    BY DEF Inv, TypeOK
  <2>5. QED
    BY <2>1, <2>2, <2>3, <2>4 DEF TypeOK
<1>3. QED
  BY <1>1, <1>2 DEF Inv

\* Every step keeps the invariant.
LEMMA InvStep ==
    ASSUME Inv, [Next]_vars
    PROVE  Inv'
<1>0. files \in Projects /\ TypeOK /\ Prepared /\ Routed /\ Fresh
  BY DEF Inv
<1>1. /\ args \in Nat /\ \A b \in bound : b.param \in 1..args
      /\ checked \in 0..Len(files) /\ Len(files) \in Nat
  <2>1. Len(files) \in Nat
    BY <1>0, Numbered
  <2>2. QED
    BY <1>0, <2>1 DEF TypeOK
<1>2. CASE UNCHANGED vars
  BY <1>0, <1>2 DEF vars, Inv, TypeOK, Prepared, Routed, Fresh
<1>3. CASE CheckFile
  <2>1. checked \in Nat /\ checked + 1 \in 0..Len(files)
    BY <1>1, <1>3 DEF CheckFile
  <2>2. UNION {check_file(files[i]) : i \in 1..(checked + 1)}
        = (UNION {check_file(files[i]) : i \in 1..checked}) \cup check_file(files[checked + 1])
    <3>1. 1..(checked + 1) = (1..checked) \cup {checked + 1}
      BY <2>1
    <3>2. QED
      BY <3>1
  <2>3. (errors = UNION {check_file(files[i]) : i \in 1..checked})'
    <3>1. errors = UNION {check_file(files[i]) : i \in 1..checked}
      BY <1>0 DEF TypeOK
    <3>2. errors' = errors \cup check_file(files[checked + 1]) /\ checked' = checked + 1 /\ files' = files
      BY <1>3 DEF CheckFile
    <3>3. QED
      BY <2>2, <3>1, <3>2
  <2>4. TypeOK'
    BY <1>1, <1>3, <2>1, <2>3 DEF CheckFile, TypeOK, Phases
  <2>5. QED
    BY <1>0, <1>3, <2>4 DEF CheckFile, Inv, Prepared, Routed, Fresh
<1>4. CASE prepare_project
  <2>1. TypeOK'
    <3>1. (errors = UNION {check_file(files[i]) : i \in 1..checked})'
      BY <1>0, <1>4 DEF prepare_project, TypeOK
    <3>2. phase' \in {"idle", "refused"} /\ (phase' = "idle" => checked = Len(files) /\ errors = {})
      BY <1>4 DEF prepare_project
    <3>3. UNCHANGED <<files, checked, errors, args, bound>>
      BY <1>4 DEF prepare_project
    <3>4. QED
      BY <1>1, <3>1, <3>2, <3>3 DEF TypeOK, Phases
  <2>2. Prepared'
    <3>1. CASE phase' = "idle"
      <4>1. PICK place \in ServicePlaces :
               manifest' = from_service(files[place[1]].services[place[2]])
        BY <1>4, <3>1 DEF prepare_project
      <4>2. PICK i \in DOMAIN files : \E j \in DOMAIN files[i].services : place = <<i, j>>
        BY <4>1 DEF ServicePlaces
      <4>3. PICK j \in DOMAIN files[i].services : place = <<i, j>>
        BY <4>2
      <4>4. manifest' = from_service(files[i].services[j]) /\ files' = files
        BY <1>4, <4>1, <4>3 DEF prepare_project
      <4>5. QED
        BY <4>4 DEF Prepared
    <3>2. CASE phase' = "refused"
      BY <3>2 DEF Prepared
    <3>3. QED
      BY <1>4, <3>1, <3>2 DEF prepare_project
  <2>3. Routed' /\ Fresh'
    BY <1>0, <1>4 DEF prepare_project, Routed, Fresh
  <2>4. files' \in Projects
    BY <1>0, <1>4 DEF prepare_project
  <2>5. QED
    BY <2>1, <2>2, <2>3, <2>4 DEF Inv
<1>5. CASE \E i \in DOMAIN manifest.routes : Dispatch(manifest.routes[i])
  <2>1. PICK i \in DOMAIN manifest.routes : Dispatch(manifest.routes[i])
    BY <1>5
  <2>2. /\ phase = "idle" /\ phase' \in {"idle", "args"} /\ (phase' = "args" => resp' = NoResponse)
        /\ route' = manifest.routes[i] /\ args' = 0 /\ bound' = {} /\ raised' = NotRaised
        /\ UNCHANGED <<files, checked, errors, manifest>>
    BY <2>1 DEF Dispatch, Respond
  <2>3. Routed' /\ Fresh'
    BY <2>2 DEF Routed, Fresh
  <2>4. QED
    BY <2>2, <2>3, ServedStep
<1>6. CASE handler_arg
  <2>1. /\ phase = "args" /\ UNCHANGED <<files, checked, errors, manifest, route>>
        /\ \/ phase' = "idle" /\ UNCHANGED <<args, bound, raised>>
           \/ /\ args' = args + 1 /\ UNCHANGED <<phase, raised, resp>>
              /\ \E input, type :
                    bound' = bound \cup {[param |-> args + 1, input |-> input, type |-> type]}
           \/ mapped_error_response(HostError("InvalidInput")) /\ UNCHANGED <<args, bound>>
    BY <1>6 DEF handler_arg, Respond
  <2>2. raised = NotRaised /\ resp = NoResponse
    BY <1>0, <2>1 DEF Fresh
  <2>3. HostError("InvalidInput") # NotRaised
    BY DEF HostError, Raised, NotRaised, None
  <2>4. Routed' /\ Fresh' /\ phase' \in {"idle", "args", "mapper"}
    BY <1>0, <2>1, <2>2, <2>3, ErrorMoves DEF Routed, Fresh
  <2>5. args' \in Nat /\ \A b \in bound' : b.param \in 1..args'
    BY <1>1, <2>1
  <2>6. QED
    BY <2>1, <2>4, <2>5, ServedStep
<1>7. CASE HandlerStarts
  <2>1. /\ phase = "args" /\ phase' = "handler"
        /\ UNCHANGED <<files, checked, errors, manifest, route, args, bound, raised, resp>>
    BY <1>7 DEF HandlerStarts
  <2>2. Routed' /\ Fresh'
    BY <1>0, <2>1 DEF Routed, Fresh
  <2>3. QED
    BY <1>1, <2>1, <2>2, ServedStep
<1>8. CASE HandlerAnswers \/ HandlerReturns
  <2>1. /\ phase = "handler" /\ phase' = "idle"
        /\ UNCHANGED <<files, checked, errors, manifest, route, args, bound, raised>>
    BY <1>8 DEF HandlerAnswers, HandlerReturns, apply_route_response_contract, Respond
  <2>2. Routed' /\ Fresh'
    BY <2>1 DEF Routed, Fresh
  <2>3. QED
    BY <1>1, <2>1, <2>2, ServedStep
<1>9. CASE HostFails \/ HandlerRaises
  <2>1. PICK by, enum, variant :
           /\ by \in {"host", "handler"}
           /\ mapped_error_response(Raised(by, enum, variant))
    BY <1>9 DEF HostFails, HandlerRaises, HostError
  <2>2. /\ phase = "handler"
        /\ UNCHANGED <<files, checked, errors, manifest, route, args, bound>>
    BY <1>9 DEF HostFails, HandlerRaises
  <2>3. Raised(by, enum, variant) # NotRaised
    BY <2>1 DEF Raised, NotRaised, None
  <2>4. resp = NoResponse
    BY <1>0, <2>2 DEF Fresh
  <2>5. /\ raised' = Raised(by, enum, variant)
        /\ \/ phase' = "idle"
           \/ /\ phase' = "mapper" /\ resp' = NoResponse
              /\ manifest.error_mapper # None /\ manifest.error_contract = None
    BY <2>1, <2>3, <2>4, ErrorMoves
  <2>6. Routed' /\ Fresh'
    BY <1>0, <2>2, <2>3, <2>5 DEF Routed, Fresh
  <2>7. QED
    BY <1>1, <2>2, <2>5, <2>6, ServedStep
<1>10. CASE MapperEnds
  <2>1. /\ phase = "mapper" /\ phase' = "idle"
        /\ UNCHANGED <<files, checked, errors, manifest, route, args, bound, raised>>
    BY <1>10 DEF MapperEnds, apply_route_response_contract, Respond
  <2>2. Routed' /\ Fresh'
    BY <2>1 DEF Routed, Fresh
  <2>3. QED
    BY <1>1, <2>1, <2>2, ServedStep
<1>11. QED
  BY <1>2, <1>3, <1>4, <1>5, <1>6, <1>7, <1>8, <1>9, <1>10 DEF Next

\* A project is served only when all its files are checked and have no
\* diagnostic, and what is bound was bound for the current request.
THEOREM Typed == Spec => []TypeOK
<1>1. Inv => TypeOK
  BY DEF Inv
<1>2. QED
  BY <1>1, InvInit, InvStep, PTL DEF Spec

-----------------------------------------------------------------------------
\* A route of the service that is served, and its handler: place i, j of its
\* service, what the checker said of it, and where the runtime finds it.

Known(i, j, r) ==
    /\ i \in DOMAIN files /\ j \in DOMAIN files[i].services
    /\ manifest = from_service(files[i].services[j])
    /\ check_service(files[i], files[i].services[j]) = {}
    /\ \E k \in DOMAIN files[i].services[j].routes : r = files[i].services[j].routes[k]
    /\ check_route(files[i], files[i].services[j].state, r) = {}
    /\ r.handler \in DOMAIN files[i].functions
    /\ function(r.handler) = files[i].functions[r.handler]
    /\ Declaring("functions", r.handler) = {i}
    /\ LastOf(Declaring("functions", r.handler)) = i

\* A route of the manifest is one of a service of a file.
LEMMA RouteKnown ==
    ASSUME Inv, UniqueNames, phase \notin {"check", "refused"}, NEW k \in DOMAIN manifest.routes
    PROVE  \E i \in DOMAIN files : \E j \in DOMAIN files[i].services :
              Known(i, j, manifest.routes[k])
<1>1. PICK i \in DOMAIN files : \E j \in DOMAIN files[i].services :
         manifest = from_service(files[i].services[j])
  BY DEF Inv, Prepared
<1>2. PICK j \in DOMAIN files[i].services : manifest = from_service(files[i].services[j])
  BY <1>1
<1> DEFINE service == files[i].services[j]
           r == manifest.routes[k]
<1>3. k \in DOMAIN service.routes /\ r = service.routes[k]
  BY <1>2 DEF from_service
<1>4. check_file(files[i]) = {}
  <2>1. UNION {check_file(files[n]) : n \in 1..checked} = {}
    BY DEF Inv, TypeOK
  <2>2. i \in 1..checked
    BY Numbered DEF Inv, TypeOK
  <2>3. QED
    BY <2>1, <2>2, EmptyUnion
<1>5. check_service(files[i], service) = {}
  BY <1>4, FileChecked
<1>6. check_route(files[i], service.state, r) = {}
  BY <1>3, <1>5, ServiceChecked
<1>7. r.handler \in DOMAIN files[i].functions
  BY <1>6, RouteChecked
<1>8. /\ Declaring("functions", r.handler) = {i}
      /\ LastOf(Declaring("functions", r.handler)) = i
      /\ function(r.handler) = files[i].functions[r.handler]
  BY <1>7, FunctionFound DEF Inv
<1>9. QED
  BY <1>2, <1>3, <1>5, <1>6, <1>7, <1>8, Zenon DEF Known

\* The current route is known while it is served.
LEMMA Current ==
    ASSUME Inv, UniqueNames, phase \in {"args", "handler", "mapper"}
    PROVE  \E i \in DOMAIN files : \E j \in DOMAIN files[i].services : Known(i, j, route)
<1>1. PICK k \in DOMAIN manifest.routes : route = manifest.routes[k]
  BY DEF Inv, Routed
<1>2. QED
  BY <1>1, RouteKnown

\* The numbers of the parameters of a handler.
LEMMA ParamsNumbered ==
    ASSUME Inv, NEW i \in DOMAIN files, NEW f \in DOMAIN files[i].functions
    PROVE  /\ Len(files[i].functions[f].params) \in Nat
           /\ DOMAIN files[i].functions[f].params = 1..Len(files[i].functions[f].params)
BY ProjectAssumption DEF Inv

\* What is found by name stays.
LEMMA FilesStay ==
    ASSUME UNCHANGED <<files, route>>
    PROVE  /\ UniqueNames' = UniqueNames /\ OnlyHttp' = OnlyHttp
           /\ function(route.handler)' = function(route.handler)
<1>1. UniqueNames' = UniqueNames
  BY DEF UniqueNames
<1>2. OnlyHttp' = OnlyHttp
  BY DEF OnlyHttp
<1>3. function(route.handler)' = function(route.handler)
  BY DEF function, FileOf, LastOf, Declaring
<1>4. QED
  BY <1>1, <1>2, <1>3

\* And what is reached from it by calls.
LEMMA CallsStay ==
    ASSUME UNCHANGED files
    PROVE  /\ \A f : function(f)' = function(f)
           /\ \A f : Reached(f, Calls)' = Reached(f, Calls)
           /\ \A f : Reached(f, ReturnedCalls)' = Reached(f, ReturnedCalls)
<1>1. \A f : function(f)' = function(f)
  BY DEF function, FileOf, LastOf, Declaring
<1>2. FunctionNames' = FunctionNames
  BY DEF FunctionNames
<1>3. Calls' = Calls
  BY <1>1, <1>2 DEF Calls
<1>4. ReturnedCalls' = ReturnedCalls
  BY <1>1, <1>2 DEF ReturnedCalls
<1>5. QED
  BY <1>1, <1>2, <1>3, <1>4 DEF Reached

-----------------------------------------------------------------------------
\* What a handler answers with its own Http.Response.ok or created is not
\* replaced for its status, for every project whose functions have names of
\* their own: a success that is replaced was answered by Http.Response.error, or
\* by a function whose answer the handler returned.
THEOREM AnswersKept == Spec => []AnswersKeepTheirStatus
<1> DEFINE replaced == \E f \in Reached(route.handler, ReturnedCalls) : \E answer \in function(f).answers :
                          /\ answer.status < 400 /\ answer.status # route.status
                          /\ f = route.handler => ~answer.success
<1>1. Init => AnswersKeepTheirStatus
  BY DEF Init, AnswersKeepTheirStatus, NoResponse, Response, None
<1>2. ASSUME Inv, AnswersKeepTheirStatus, [Next]_vars
      PROVE  AnswersKeepTheirStatus'
  <2>0. SUFFICES ASSUME (resp.code = "invalid_response_status" /\ raised = NotRaised /\ UniqueNames)'
                 PROVE  replaced'
    BY DEF AnswersKeepTheirStatus
  <2>1. CASE UNCHANGED <<files, route, raised, resp>>
    <3>1. replaced
      BY <1>2, <2>0, <2>1, FilesStay DEF AnswersKeepTheirStatus
    <3>2. QED
      BY <2>1, <3>1, CallsStay
  <2>2. CASE prepare_project \/ CheckFile \/ HandlerStarts
    BY <2>1, <2>2 DEF prepare_project, CheckFile, HandlerStarts
  <2>3. CASE \E i \in DOMAIN manifest.routes : Dispatch(manifest.routes[i])
    BY <2>0, <2>3 DEF Dispatch, Respond, Response, NoResponse, None
  <2>4. CASE handler_arg
    <3>1. UNCHANGED <<files, route>>
      BY <2>4 DEF handler_arg
    <3>2. UNCHANGED <<raised, resp>>
      BY <2>0, <2>4 DEF handler_arg, Respond, Response, mapped_error_response,
         HostError, Raised, NotRaised, None
    <3>3. QED
      BY <2>1, <3>1, <3>2
  <2>5. CASE HandlerAnswers
    <3>1. phase = "handler" /\ UNCHANGED <<files, route>> /\ UniqueNames
      BY <2>0, <2>5, FilesStay, Zenon DEF HandlerAnswers
    <3>2. PICK i \in DOMAIN files : \E j \in DOMAIN files[i].services : Known(i, j, route)
      BY <1>2, <3>1, Current
    <3>3. PICK j \in DOMAIN files[i].services : Known(i, j, route)
      BY <3>2
    <3>4. check_route_handler_status(route, function(route.handler)) = {}
      BY <3>3, RouteChecked, ZenonT(60) DEF Known
    <3>5. PICK f \in Reached(route.handler, ReturnedCalls) : \E answer \in function(f).answers :
             apply_route_response_contract(answer.status, "answered")
      BY <2>5 DEF HandlerAnswers
    <3>6. PICK answer \in function(f).answers :
             apply_route_response_contract(answer.status, "answered")
      BY <3>5
    <3>7. answer.status < 400 /\ route.status \notin {NoStatus, answer.status}
      BY <2>0, <3>6 DEF apply_route_response_contract, Respond, Response
    <3>8. f = route.handler => ~answer.success
      BY <3>4, <3>6, <3>7 DEF check_route_handler_status, Successes
    <3>9. replaced
      BY <3>5, <3>6, <3>7, <3>8
    <3>10. QED
      BY <3>1, <3>9, CallsStay
  <2>6. CASE HandlerReturns
    BY <2>0, <2>6 DEF HandlerReturns, Respond, Response
  <2>7. CASE HostFails
    BY <2>0, <2>7 DEF HostFails, mapped_error_response, HostError, Raised, NotRaised, None
  <2>8. CASE HandlerRaises
    BY <2>0, <2>8 DEF HandlerRaises, mapped_error_response, Raised, NotRaised, None
  <2>9. CASE MapperEnds
    BY <1>2, <2>0, <2>9 DEF MapperEnds, Inv, TypeOK
  <2>10. QED
    BY <1>2, <2>1, <2>2, <2>3, <2>4, <2>5, <2>6, <2>7, <2>8, <2>9 DEF Next, vars
<1>3. QED
  BY <1>1, <1>2, InvInit, InvStep, PTL DEF Spec

-----------------------------------------------------------------------------
\* The arguments evaluated so far are those of the first parameters of the
\* handler, each with the input the runtime finds for it.
ArgsBound ==
    UniqueNames /\ phase \in {"args", "handler"} =>
        /\ args <= Len(function(route.handler).params)
        /\ \A b \in bound :
              /\ b.input = Input(route, function(route.handler), b.param)
              /\ b.type = function(route.handler).params[b.param].type
        /\ \A i \in 1..args : \E b \in bound : b.param = i
        /\ phase = "handler" => args = Len(function(route.handler).params)

\* Every step keeps arguments of the types they are bound to.
LEMMA ArgsBoundStep ==
    ASSUME Inv, ArgsBound, [Next]_vars
    PROVE  ArgsBound'
<1>0. SUFFICES ASSUME UniqueNames', phase' \in {"args", "handler"}
               PROVE  /\ (args <= Len(function(route.handler).params))'
                      /\ \A b \in bound' :
                            /\ b.input = Input(route, function(route.handler), b.param)'
                            /\ b.type = (function(route.handler).params)'[b.param].type
                      /\ \A i \in 1..args' : \E b \in bound' : b.param = i
                      /\ phase' = "handler" => args' = Len(function(route.handler).params)'
  BY DEF ArgsBound
<1> DEFINE params == function(route.handler).params
<1>1. args \in Nat /\ \A b \in bound : b.param \in 1..args
  BY DEF Inv, TypeOK
<1>2. ASSUME UNCHANGED <<files, route>>, phase \in {"args", "handler"}
      PROVE  /\ UniqueNames /\ function(route.handler)' = function(route.handler)
             /\ Len(params) \in Nat
             /\ \A b : Input(route, function(route.handler), b)' = Input(route, function(route.handler), b)
  <2>1. UniqueNames /\ function(route.handler)' = function(route.handler)
    BY <1>0, <1>2, FilesStay
  <2>2. PICK i \in DOMAIN files : \E j \in DOMAIN files[i].services : Known(i, j, route)
    BY <1>2, <2>1, Current
  <2>3. Len(params) \in Nat
    BY <2>2, ParamsNumbered DEF Known
  <2>4. \A b : Input(route, function(route.handler), b)' = Input(route, function(route.handler), b)
    BY <1>2, <2>1 DEF Input
  <2>5. QED
    BY <2>1, <2>3, <2>4
<1>3. CASE UNCHANGED <<files, route, phase, args, bound>>
  BY <1>0, <1>2, <1>3 DEF ArgsBound
<1>4. CASE \E i \in DOMAIN manifest.routes : Dispatch(manifest.routes[i])
  <2>1. PICK k \in DOMAIN manifest.routes : Dispatch(manifest.routes[k])
    BY <1>4
  <2>2. /\ phase = "idle" /\ phase' = "args" /\ route' = manifest.routes[k]
        /\ args' = 0 /\ bound' = {} /\ files' = files
    BY <1>0, <2>1 DEF Dispatch, Respond
  <2>3. UniqueNames
    BY <1>0, <2>2 DEF UniqueNames
  <2>4. PICK i \in DOMAIN files : \E j \in DOMAIN files[i].services :
           Known(i, j, manifest.routes[k])
    BY <2>2, <2>3, RouteKnown, SMTT(30)
  <2>5. Len(function(manifest.routes[k].handler).params) \in Nat
    BY <2>4, ParamsNumbered DEF Known
  <2>6. function(route.handler)' = function(manifest.routes[k].handler)
    BY <2>2 DEF function, FileOf, LastOf, Declaring
  <2>7. QED
    BY <2>2, <2>5, <2>6
<1>5. CASE handler_arg
  <2>1. /\ phase = "args" /\ UNCHANGED <<files, route>> /\ args < Len(params)
    BY <1>5 DEF handler_arg
  <2>2. phase' = "args"
    BY <1>0, <1>5 DEF handler_arg, mapped_error_response, Respond
  <2>3. /\ args' = args + 1
        /\ bound' = bound \cup {[param |-> args + 1,
                                 input |-> handler_arg_input(route, args + 1, params[args + 1]),
                                 type |-> params[args + 1].type]}
    BY <1>5, <2>2 DEF handler_arg, mapped_error_response, Respond
  <2>4. Len(params) \in Nat /\ UniqueNames /\ params' = params
        /\ \A b : Input(route, function(route.handler), b)' = Input(route, function(route.handler), b)
    BY <1>2, <2>1
  <2>5. args' <= Len(params)
    BY <1>1, <2>1, <2>3, <2>4
  <2>6. ASSUME NEW b \in bound'
        PROVE  b.input = Input(route, function(route.handler), b.param) /\ b.type = params[b.param].type
    <3>1. CASE b \in bound
      BY <2>1, <2>4, <3>1 DEF ArgsBound
    <3>2. CASE b = [param |-> args + 1,
                    input |-> handler_arg_input(route, args + 1, params[args + 1]),
                    type |-> params[args + 1].type]
      BY <3>2 DEF Input
    <3>3. QED
      BY <2>3, <3>1, <3>2
  <2>7. ASSUME NEW i \in 1..args'
        PROVE  \E b \in bound' : b.param = i
    <3>1. CASE i \in 1..args
      BY <2>1, <2>3, <2>4, <3>1 DEF ArgsBound
    <3>2. CASE i = args + 1
      <4> DEFINE new == [param |-> args + 1,
                         input |-> handler_arg_input(route, args + 1, params[args + 1]),
                         type |-> params[args + 1].type]
      <4>1. new.param = args + 1
        OBVIOUS
      <4>2. new \in bound'
        BY <2>3
      <4>3. QED
        BY <3>2, <4>1, <4>2
    <3>3. QED
      BY <1>1, <2>3, <3>1, <3>2
  <2>8. QED
    BY <2>2, <2>4, <2>5, <2>6, <2>7
<1>6. CASE HandlerStarts
  <2>1. /\ phase = "args" /\ args = Len(params) /\ UNCHANGED <<files, route, args, bound>>
    BY <1>6 DEF HandlerStarts
  <2>2. QED
    BY <1>2, <2>1 DEF ArgsBound
<1>7. CASE CheckFile \/ prepare_project
  BY <1>0, <1>7 DEF CheckFile, prepare_project
<1>8. CASE HandlerAnswers \/ HandlerReturns \/ MapperEnds
  BY <1>0, <1>8 DEF HandlerAnswers, HandlerReturns, MapperEnds, apply_route_response_contract, Respond
<1>9. CASE HostFails \/ HandlerRaises
  BY <1>0, <1>9, SMTT(30) DEF HostFails, HandlerRaises, mapped_error_response, Respond
<1>10. QED
  BY <1>3, <1>4, <1>5, <1>6, <1>7, <1>8, <1>9 DEF Next, vars

\* The handlers of a file take Request from std.http where members of that name
\* are its own.
LEMMA HandlerRequests ==
    ASSUME OnlyHttp, NEW i \in DOMAIN files, NEW f \in DOMAIN files[i].functions
    PROVE  HttpRequests(files[i].http, files[i].functions[f])
BY DEF OnlyHttp, HttpRequests

\* What is bound of a request is what its checked route declares.
LEMMA BindingHolds ==
    ASSUME Inv, ArgsBound, UniqueNames, OnlyHttp, phase \in {"args", "handler"}
    PROVE  /\ BoundAsDeclared
           /\ phase = "handler" => DeclaredIsUsed
           /\ \A n \in 1..Len(function(route.handler).params) :
                 Input(route, function(route.handler), n) # None
<1> DEFINE h == function(route.handler)
<1>1. PICK i \in DOMAIN files : \E j \in DOMAIN files[i].services : Known(i, j, route)
  BY Current
<1>2. PICK j \in DOMAIN files[i].services : Known(i, j, route)
  BY <1>1
<1>3. /\ h = files[i].functions[route.handler] /\ FileOf(route.handler) = files[i]
      /\ route.handler \in DOMAIN files[i].functions
      /\ check_route(files[i], files[i].services[j].state, route) = {}
  BY <1>2 DEF Known, FileOf
<1>4. /\ Len(h.params) \in Nat /\ DOMAIN h.params = 1..Len(h.params)
      /\ HttpRequests(files[i].http, h)
  BY <1>3, ParamsNumbered, HandlerRequests
<1> HIDE DEF h
<1>5. AllTaken(files[i].http, route, h)
  BY <1>3, <1>4, ArgsAreTaken
<1>6. AllUsed(route, h)
  BY <1>3, <1>4, DeclaredIsTaken
<1>7. \A b \in bound :
         /\ b.param \in 1..Len(h.params)
         /\ b.input = Input(route, h, b.param) /\ b.type = h.params[b.param].type
         /\ Param(b) = h.params[b.param]
  <2>1. args \in Nat /\ \A b \in bound : b.param \in 1..args
    BY DEF Inv, TypeOK
  <2>2. /\ args <= Len(h.params)
        /\ \A b \in bound : b.input = Input(route, h, b.param) /\ b.type = h.params[b.param].type
    BY DEF ArgsBound, h
  <2>3. \A b \in bound : Param(b) = h.params[b.param]
    BY DEF Param, h
  <2>4. QED
    BY <1>4, <2>1, <2>2, <2>3
<1>8. BoundAsDeclared
  <2>1. \A b \in bound : b.input = "unit" =>
           b.param = 1 \/ path_is_http(FileOf(route.handler).http, b.type, "Request")
    BY <1>3, <1>5, <1>7, SMTT(30) DEF AllTaken
  <2>2. \A b \in bound : b.input = "path" =>
           \A k \in DOMAIN route.path :
              route.path[k].name = Param(b).name => route.path[k].type \in {NoType, b.type}
    BY <1>5, <1>7 DEF AllTaken
  <2>3. \A b1, b2 \in bound : b1.input = b2.input /\ b1.param # b2.param =>
           b1.input = "unit" \/ (b1.input = "path" /\ Param(b1).name # Param(b2).name)
    BY <1>5, <1>7 DEF AllTaken
  <2>4. QED
    BY <2>1, <2>2, <2>3 DEF BoundAsDeclared
<1>9. ASSUME phase = "handler"
      PROVE  DeclaredIsUsed
  <2>1. \A n \in 1..Len(h.params) : \E b \in bound :
           /\ b.input = Input(route, h, n) /\ Param(b) = h.params[n]
    <3>1. \A n \in 1..Len(h.params) : \E b \in bound : b.param = n
      BY <1>9 DEF ArgsBound, h
    <3>2. QED
      BY <1>7, <3>1
  <2>2. h = function(route.handler)
    BY DEF h
  <2>3. ASSUME NEW input \in Inputs, route.inputs[input] # NoType
        PROVE  \/ \E b \in bound : b.input = input
               \/ \E use \in h.reads : use.input = input /\ use.type = route.inputs[input]
    BY <1>6, <2>1, <2>3 DEF AllUsed
  <2>4. ASSUME NEW k \in DOMAIN route.path, route.path[k].type # NoType
        PROVE  \/ \E b \in bound : b.input = "path" /\ Param(b).name = route.path[k].name
               \/ \E use \in h.reads :
                     /\ use.input = "path"
                     /\ use.name = route.path[k].name /\ use.type = route.path[k].type
    BY <1>6, <2>1, <2>4 DEF AllUsed
  <2>5. QED
    BY <2>2, <2>3, <2>4 DEF DeclaredIsUsed
<1>10. QED
  BY <1>5, <1>8, <1>9 DEF h, AllTaken

\* In a project that passed the checks no request meets a parameter that takes
\* no input, a handler gets its inputs as its route declares them, and nothing
\* the route declares is dropped, for every project whose functions have names
\* of their own and whose Requests are those of std.http.
THEOREM InputsReach == Spec => []InputsReachTheHandler
<1> DEFINE Unbound == UniqueNames /\ OnlyHttp /\ resp.code = "interpreter_error"
<1>1. Init => ArgsBound /\ ~Unbound
  BY DEF Init, ArgsBound, NoResponse, Response, None
<1>2. ASSUME Inv, ArgsBound, ~Unbound, [Next]_vars
      PROVE  ~Unbound'
  <2>0. SUFFICES ASSUME Unbound' PROVE FALSE
    OBVIOUS
  <2>1. CASE UNCHANGED <<files, resp>>
    <3>1. UniqueNames
      BY <2>0, <2>1, SMTT(30) DEF UniqueNames
    <3>2. OnlyHttp
      BY <2>0, <2>1 DEF OnlyHttp
    <3>3. QED
      BY <1>2, <2>0, <2>1, <3>1, <3>2
  <2>2. CASE prepare_project \/ CheckFile \/ HandlerStarts
    BY <2>1, <2>2 DEF prepare_project, CheckFile, HandlerStarts
  <2>3. CASE \E i \in DOMAIN manifest.routes : Dispatch(manifest.routes[i])
    BY <2>0, <2>3 DEF Dispatch, Respond, Response, NoResponse, None
  <2>4. ASSUME files' = files, NEW by, NEW enum, NEW variant,
               mapped_error_response(Raised(by, enum, variant))
        PROVE  FALSE
    <3>1. UniqueNames
      BY <2>0, <2>4 DEF UniqueNames
    <3>2. resp' # resp
      BY <1>2, <2>0, <2>4, <3>1, Zenon DEF OnlyHttp
    <3>3. /\ Declaring("enums", enum) # {} /\ variant \in DOMAIN enum_schema(enum)
          /\ resp'.code = variant
      BY <2>0, <2>4, <3>2 DEF mapped_error_response, Respond, Response, Raised
    <3>4. variant \notin Codes
      <4>1. files \in Projects
        BY <1>2 DEF Inv
      <4>2. QED
        BY ONLY <3>1, <3>3, <4>1, VariantsAreNoCodes
    <3>5. QED
      BY <2>0, <3>3, <3>4 DEF Codes
  <2>5. CASE handler_arg
    <3>1. phase = "args" /\ UNCHANGED <<files, route>> /\ args < Len(function(route.handler).params)
      BY <2>5 DEF handler_arg
    <3>2. UniqueNames /\ OnlyHttp
      BY <2>0, <3>1, FilesStay
    <3>3. PICK i \in DOMAIN files : \E j \in DOMAIN files[i].services : Known(i, j, route)
      BY <1>2, <3>1, <3>2, Current
    <3>4. args + 1 \in 1..Len(function(route.handler).params)
      <4> DEFINE n == Len(function(route.handler).params)
      <4>1. /\ route.handler \in DOMAIN files[i].functions
            /\ function(route.handler) = files[i].functions[route.handler]
        BY <3>3 DEF Known
      <4>2. Inv
        BY <1>2
      <4>3. n \in Nat
        BY ONLY <4>1, <4>2, ParamsNumbered, i \in DOMAIN files
      <4>4. args \in Nat
        BY <4>2 DEF Inv, TypeOK
      <4>5. args < n
        BY <3>1
      <4> HIDE DEF n
      <4>6. args + 1 \in 1..n
        BY ONLY <4>3, <4>4, <4>5
      <4>7. QED
        BY <4>6 DEF n
    <3>5. Input(route, function(route.handler), args + 1) # None
      BY <1>2, <3>1, <3>2, <3>4, BindingHolds
    <3>6. resp' = resp \/ mapped_error_response(HostError("InvalidInput"))
      BY <2>5, <3>5 DEF handler_arg, Input
    <3>7. QED
      BY <2>1, <2>4, <3>1, <3>6 DEF HostError
  <2>6. CASE HandlerAnswers \/ HandlerReturns \/ MapperEnds
    BY <2>0, <2>6 DEF HandlerAnswers, HandlerReturns, MapperEnds, apply_route_response_contract,
       Respond, Response
  <2>7. CASE HostFails \/ HandlerRaises
    BY <2>4, <2>7 DEF HostFails, HandlerRaises, HostError
  <2>8. QED
    BY <1>2, <2>1, <2>2, <2>3, <2>5, <2>6, <2>7 DEF Next, vars
<1>3. Inv /\ ArgsBound /\ ~Unbound => InputsReachTheHandler
  BY BindingHolds DEF InputsReachTheHandler
<1>4. QED
  BY <1>1, <1>2, <1>3, InvInit, InvStep, ArgsBoundStep, PTL DEF Spec

-----------------------------------------------------------------------------
\* The mapping the runtime has for an error of a checked handler.
LEMMA MappingKnown ==
    ASSUME Inv, UniqueNames, OnlyHttp, NEW i, NEW j, Known(i, j, route), NEW enum,
           function(route.handler).returns.error = <<enum>>
    PROVE  \/ /\ manifest.error_contract = enum /\ enum # None
              /\ Declaring("enums", enum) # {} /\ enum_schema(enum) = files[i].enums[enum]
              /\ \A v \in DOMAIN enum_schema(enum) : enum_schema(enum)[v] \in 400..599
           \/ /\ manifest.error_contract = None /\ manifest.error_mapper # None
              /\ Declaring("functions", manifest.error_mapper) # {}
              /\ Len(function(manifest.error_mapper).params) = 1
<1> DEFINE file == files[i]
           service == files[i].services[j]
           maps == http_uses(file, service, "error_map")
           contracts == http_uses(file, service, "errors")
<1>1. /\ i \in DOMAIN files /\ j \in DOMAIN files[i].services /\ files \in Projects
      /\ manifest.error_contract = runtime_use(service, "errors")
      /\ manifest.error_mapper = runtime_use(service, "error_map")
  BY ZenonT(60) DEF Known, from_service, Inv
<1>2. PICK k \in DOMAIN service.routes : route = service.routes[k]
  BY ZenonT(60) DEF Known
<1>3. PICK u \in DOMAIN service.uses : Mapped(file, service, enum, u)
  <2>1. check_service(file, service) = {}
        /\ file.functions[service.routes[k].handler].returns.error = <<enum>>
    BY <1>2, Zenon DEF Known
  <2>2. QED
    BY <2>1, ErrorMapped, ZenonT(60)
<1> DEFINE name == service.uses[u].args[1]
<1>4. service.uses[u].args # << >> /\ name # None
  <2>1. service.uses[u].args # << >>
    BY <1>3 DEF Mapped
  <2>2. QED
    BY <1>1, <2>1, ProjectAssumption
<1>5. CASE u \in contracts
  <2>1. contracts = {u} /\ check_error_contract(file, name, <<enum>>) = {}
    BY <1>3, <1>5 DEF Mapped
  <2>2. manifest.error_contract = name
    BY <1>1, <1>4, <1>5, <2>1, UseFound
  <2>3. /\ name = enum /\ enum \in DOMAIN file.enums
        /\ \A v \in DOMAIN file.enums[enum] : file.enums[enum][v] \in 400..599
    <3>1. check_error_contract(file, name, <<enum>>) = {}
      BY <2>1
    <3> HIDE DEF file, service, name
    <3>2. QED
      BY <3>1, ContractChecked
  <2>4. Declaring("enums", enum) = {i} /\ enum_schema(enum) = file.enums[enum]
    BY <1>1, <2>3, EnumFound
  <2>5. QED
    BY <1>4, <2>2, <2>3, <2>4, ZenonT(60)
<1>6. CASE u \notin contracts
  <2>1. contracts = {} /\ maps = {u} /\ check_error_mapper(file, name, <<enum>>) = {}
    BY <1>3, <1>6 DEF Mapped
  <2>2. manifest.error_contract = None
    BY <1>1, <2>1, UseFound, SMTT(30)
  <2>3. manifest.error_mapper = name
    BY <1>1, <1>4, <2>1, UseFound
  <2>4. name \in DOMAIN file.functions /\ Len(file.functions[name].params) = 1
    BY <2>1, MapperChecked, Zenon
  <2> HIDE DEF name
  <2>5. Declaring("functions", name) = {i} /\ function(name) = file.functions[name]
    BY <1>1, <2>4, FunctionFound
  <2>6. Declaring("functions", name) # {} /\ Len(function(name).params) = 1
    BY <2>4, <2>5
  <2>7. QED
    BY <1>4, <2>2, <2>3, <2>6
<1>7. QED
  BY <1>5, <1>6

\* The errors that may leave what runs for a checked handler, where calls are
\* tested: its own.
LEMMA ErrorsLeave ==
    ASSUME Inv, UniqueNames, phase \in {"args", "handler", "mapper"}, Tested,
           NEW f \in Reached(route.handler, Calls), function(f).returns.error # NoType
    PROVE  function(f).returns.error = function(route.handler).returns.error
<1>1. PICK i \in DOMAIN files : \E j \in DOMAIN files[i].services : Known(i, j, route)
  BY Current
<1>2. /\ route.handler \in DOMAIN files[i].functions
      /\ function(route.handler) = files[i].functions[route.handler]
  BY <1>1 DEF Known
<1>3. check_file(files[i]) = {}
  <2>1. UNION {check_file(files[n]) : n \in 1..checked} = {}
    BY DEF Inv, TypeOK
  <2>2. i \in 1..checked
    BY Numbered DEF Inv, TypeOK
  <2>3. QED
    BY <2>1, <2>2, EmptyUnion
<1> DEFINE own == function(route.handler).returns.error
           kept == {g \in Reached(route.handler, Calls) :
                      g \in DOMAIN files[i].functions /\ function(g).returns.error \in {own, NoType}}
<1>4. \A g \in DOMAIN files[i].functions : g \in FunctionNames /\ function(g) = files[i].functions[g]
  BY FunctionFound DEF Inv, FunctionNames
<1>5. kept \in SUBSET FunctionNames
  BY <1>4
<1>6. route.handler \in kept
  <2>1. route.handler \in Reached(route.handler, Calls)
    BY <1>2, <1>4 DEF Reached
  <2>2. QED
    BY <1>2, <2>1
<1>7. Closed(kept, Calls)
  <2>1. SUFFICES ASSUME NEW edge \in Calls, edge[1] \in kept
                 PROVE  edge[2] \in kept
    BY DEF Closed
  <2>2. PICK g \in FunctionNames : edge \in {<<g, call.function>> : call \in function(g).calls}
    BY DEF Calls
  <2>3. PICK call \in function(g).calls : edge = <<g, call.function>>
    BY <2>2
  <2>4. /\ g \in Reached(route.handler, Calls) /\ g \in DOMAIN files[i].functions
        /\ function(g).returns.error \in {own, NoType} /\ function(g) = files[i].functions[g]
    BY <1>4, <2>1, <2>3
  <2>5. check_call(files[i], files[i].functions[g], call) = {}
    BY <1>3, <2>3, <2>4, CallsChecked
  <2>6. call.function \in DOMAIN files[i].functions
    BY <2>5 DEF check_call
  <2>7. function(call.function) = files[i].functions[call.function] /\ call.function \in FunctionNames
    BY <1>4, <2>6
  <2>8. call.try \/ call.returned \/ files[i].functions[call.function].returns.error = NoType
    BY <2>3, <2>4, <2>7 DEF Tested
  <2>9. files[i].functions[call.function].returns.error \in {files[i].functions[g].returns.error, NoType}
    BY ONLY <2>5, <2>8, CallChecked
  <2>10. function(call.function).returns.error \in {own, NoType}
    BY <2>4, <2>7, <2>9
  <2>11. call.function \in Reached(route.handler, Calls)
    <3>1. SUFFICES ASSUME NEW set \in SUBSET FunctionNames, route.handler \in set, Closed(set, Calls)
                   PROVE  call.function \in set
      BY <2>7 DEF Reached
    <3>2. g \in set
      BY <2>4, <3>1 DEF Reached
    <3>3. QED
      BY <2>3, <3>1, <3>2 DEF Closed
  <2>12. QED
    BY <2>3, <2>6, <2>10, <2>11
<1>8. f \in kept
  BY <1>5, <1>6, <1>7 DEF Reached
<1>9. QED
  BY <1>8

\* An error that leaves a handler is the one it declares, where the calls that
\* may fail are tested, and is answered by the mapping its service was checked
\* with if it is, for every project whose names are its own and those of std.http.
THEOREM RaisedMapped == Spec => []RaisedErrorsAreMapped
<1> DEFINE declared == function(route.handler).returns.error = <<raised.enum>>
           answered == IF manifest.error_contract # None
                       THEN resp.code = raised.variant /\ resp.status \in 400..599
                       ELSE /\ resp.code \notin {"error_mapper_missing", "error_contract_missing"}
                            /\ Len(function(manifest.error_mapper).params) = 1
<1>1. Init => RaisedErrorsAreMapped
  BY DEF Init, RaisedErrorsAreMapped, NotRaised, Raised, None
<1>2. ASSUME Inv, RaisedErrorsAreMapped, [Next]_vars
      PROVE  RaisedErrorsAreMapped'
  <2>0. SUFFICES ASSUME (raised.by = "handler" /\ UniqueNames /\ OnlyHttp)'
                 PROVE  (Tested => declared)' /\ (declared => answered)'
    BY DEF RaisedErrorsAreMapped
  <2>1. NotRaised.by # "handler" /\ \A variant : HostError(variant).by # "handler"
    BY DEF NotRaised, HostError, Raised, None
  <2>2. ASSUME files' = files
        PROVE  UniqueNames /\ OnlyHttp
    <3>1. UniqueNames
      BY <2>0, <2>2 DEF UniqueNames
    <3>2. OnlyHttp
      BY <2>0, <2>2 DEF OnlyHttp
    <3>3. QED
      BY <3>1, <3>2
  <2>3. ASSUME UNCHANGED <<files, route>>
        PROVE  /\ \A g : function(g)' = function(g)
               /\ Tested' = Tested
    <3>1. /\ \A g : function(g)' = function(g)
          /\ \A g : Reached(g, Calls)' = Reached(g, Calls)
      BY <2>3, CallsStay
    <3>2. Tested' = Tested
      BY <2>3, <3>1 DEF Tested
    <3>3. QED
      BY <3>1, <3>2
  <2>4. CASE UNCHANGED <<files, manifest, route, raised, resp>>
    <3>1. (Tested => declared) /\ (declared => answered)
      BY <1>2, <2>0, <2>2, <2>4 DEF RaisedErrorsAreMapped
    <3>2. Tested' = Tested /\ declared' = declared
      BY <2>3, <2>4
    <3>3. answered => answered'
      BY <2>3, <2>4
    <3>4. QED
      BY <3>1, <3>2, <3>3
  <2>5. CASE CheckFile \/ prepare_project
    BY <1>2, <2>0, <2>1, <2>5 DEF CheckFile, prepare_project, Inv, Fresh
  <2>6. CASE \E i \in DOMAIN manifest.routes : Dispatch(manifest.routes[i])
    BY <2>0, <2>1, <2>6 DEF Dispatch
  <2>7. CASE handler_arg \/ HandlerStarts \/ HandlerAnswers \/ HandlerReturns \/ HostFails
    <3>1. /\ phase \in {"args", "handler"}
          /\ raised' = raised \/ \E variant : raised' = HostError(variant)
      BY <2>7 DEF handler_arg, HandlerStarts, HandlerAnswers, HandlerReturns, HostFails,
         mapped_error_response
    <3>2. raised = NotRaised
      BY <1>2, <3>1 DEF Inv, Fresh
    <3>3. QED
      BY <2>0, <2>1, <3>1, <3>2
  <2>8. CASE HandlerRaises
    <3>1. phase = "handler" /\ UNCHANGED <<files, manifest, route>> /\ UniqueNames /\ OnlyHttp
      BY <2>2, <2>8 DEF HandlerRaises
    <3>2. PICK f \in Reached(route.handler, Calls) : \E enum \in DOMAIN FileOf(f).enums :
             /\ function(f).returns.error = <<enum>>
             /\ \E variant \in DOMAIN FileOf(f).enums[enum] :
                   mapped_error_response(Raised("handler", enum, variant))
      BY <2>8 DEF HandlerRaises
    <3>3. PICK enum \in DOMAIN FileOf(f).enums :
             /\ function(f).returns.error = <<enum>>
             /\ \E variant \in DOMAIN FileOf(f).enums[enum] :
                   mapped_error_response(Raised("handler", enum, variant))
      BY <3>2
    <3>4. PICK variant \in DOMAIN FileOf(f).enums[enum] :
             mapped_error_response(Raised("handler", enum, variant))
      BY <3>3
    <3>5. raised' = Raised("handler", enum, variant) /\ raised'.enum = enum /\ raised'.variant = variant
      BY <3>4 DEF mapped_error_response, Raised
    <3>6. variant \in DOMAIN enum_schema(enum)
      <4>1. PICK n \in DOMAIN files : f \in DOMAIN files[n].functions
        BY <3>2 DEF Reached, FunctionNames
      <4>2. FileOf(f) = files[n]
        BY <1>2, <3>1, <4>1, FunctionFound DEF Inv
      <4>3. enum_schema(enum) = files[n].enums[enum]
        BY <1>2, <3>1, <3>3, <4>2, EnumFound DEF Inv
      <4>4. QED
        BY <3>4, <4>2, <4>3
    <3>7. (Tested => declared)'
      <4>1. ASSUME Tested
            PROVE  function(route.handler).returns.error = <<enum>>
        <5>1. function(f).returns.error # NoType
          BY <3>3, SMTT(30) DEF NoType
        <5>2. function(f).returns.error = function(route.handler).returns.error
          BY <1>2, <3>1, <3>2, <4>1, <5>1, ErrorsLeave
        <5>3. QED
          BY <3>3, <5>2
      <4>2. QED
        BY <2>3, <3>1, <3>5, <4>1
    <3>8. ASSUME function(route.handler).returns.error = <<enum>>
          PROVE  answered'
      <4>1. PICK i \in DOMAIN files : \E j \in DOMAIN files[i].services : Known(i, j, route)
        BY <1>2, <3>1, Current
      <4>2. PICK j \in DOMAIN files[i].services : Known(i, j, route)
        BY <4>1
      <4>3. CASE /\ manifest.error_contract = enum /\ enum # None
                 /\ Declaring("enums", enum) # {} /\ enum_schema(enum) = files[i].enums[enum]
                 /\ \A v \in DOMAIN enum_schema(enum) : enum_schema(enum)[v] \in 400..599
        <5>1. enum_schema(enum)[variant] \in 400..599
          BY <3>6, <4>3
        <5>2. enum_schema(enum)[variant] # NoStatus
          BY <5>1 DEF NoStatus
        <5>3. resp' = Response(enum_schema(enum)[variant], variant)
          BY <3>4, <3>6, <4>3, <5>2 DEF mapped_error_response, Respond, Raised
        <5>4. QED
          BY <3>1, <3>5, <4>3, <5>1, <5>3 DEF Response
      <4>4. CASE /\ manifest.error_contract = None /\ manifest.error_mapper # None
                 /\ Declaring("functions", manifest.error_mapper) # {}
                 /\ Len(function(manifest.error_mapper).params) = 1
        <5>1. resp' = resp
          BY <3>4, <4>4 DEF mapped_error_response
        <5>2. resp.code = None
          BY <1>2, <3>1 DEF Inv, Fresh, NoResponse, Response
        <5>3. QED
          BY <2>3, <3>1, <4>4, <5>1, <5>2 DEF None
      <4>5. QED
        BY <1>2, <3>1, <3>8, <4>2, <4>3, <4>4, MappingKnown
    <3>9. QED
      BY <2>3, <3>1, <3>5, <3>7, <3>8
  <2>9. CASE MapperEnds
    <3>1. phase = "mapper" /\ UNCHANGED <<files, manifest, route, raised>>
      BY <2>9 DEF MapperEnds
    <3>2. manifest.error_contract = None
      BY <1>2, <3>1 DEF Inv, Fresh
    <3>3. resp'.code \in {"mapped", "invalid_response_status", "error_mapper_failed"}
      BY <2>9 DEF MapperEnds, apply_route_response_contract, Respond, Response
    <3>4. (Tested => declared) /\ (declared => answered)
      BY <1>2, <2>0, <2>2, <3>1 DEF RaisedErrorsAreMapped
    <3>5. Tested' = Tested /\ declared' = declared
      BY <2>3, <3>1
    <3>6. ASSUME declared
          PROVE  answered'
      <4>1. Len(function(manifest.error_mapper).params) = 1
        BY <3>2, <3>4, <3>6
      <4>2. QED
        BY <2>3, <3>1, <3>2, <3>3, <4>1
    <3>7. QED
      BY <3>4, <3>5, <3>6
  <2>10. QED
    BY <1>2, <2>4, <2>5, <2>6, <2>7, <2>8, <2>9 DEF Next, vars
<1>3. QED
  BY <1>1, <1>2, InvInit, InvStep, PTL DEF Spec

=============================================================================
