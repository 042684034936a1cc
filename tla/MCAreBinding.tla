----------------------------- MODULE MCAreBinding -----------------------------
(***************************************************************************)
(* Small instances of AreBinding: services of one and two routes over a    *)
(* handler of up to three parameters, and a second file that is empty,     *)
(* declares a name again, or has a service of its own.                     *)
(***************************************************************************)
EXTENDS AreBinding

Http == {"Http"}
P == <<"P">>
Q == <<"Q">>
U64 == <<"U64">>
State == <<"S">>
Context == [name |-> "ctx", type |-> <<"Http", "Context", "S">>]
HttpResponse == <<"Http", "Response">>
Ok(status) == [status |-> status, success |-> TRUE]
Err(status) == [status |-> status, success |-> FALSE]

Params == {[name |-> "id", type |-> U64], [name |-> "id", type |-> P], [name |-> "p", type |-> P],
           [name |-> "q", type |-> Q], [name |-> "x", type |-> P],
           [name |-> "req", type |-> <<"Http", "Request">>],
           [name |-> "id", type |-> <<"Other", "Request">>]}
ParamLists == {<<Context>>} \cup {<<Context, p>> : p \in Params}
              \cup {<<Context, p, q>> : p, q \in Params}
              \cup {<< >>, <<[name |-> "p", type |-> P]>>}

Returns(ok, error) == [ok |-> ok, error |-> error]
Function(params, reads, answers, returns) ==
    [params |-> params, reads |-> reads, answers |-> answers, calls |-> {}, returns |-> returns]
Calling(caller, calls) == [caller EXCEPT !.calls = calls]
Call(callee, try, returned) == [function |-> callee, try |-> try, returned |-> returned]

Read(input, name, type) == [input |-> input, name |-> name, type |-> type]
ReadSets == {{}, {Read("path", "id", U64)}, {Read("body", NoName, P)},
             {Read("query", NoName, Q), Read("path", NoName, NoType)}}

Ids == {<< >>, <<[name |-> "id", type |-> NoType]>>, <<[name |-> "id", type |-> U64]>>}
InputSets == {[body |-> b, query |-> q, headers |-> h, cookies |-> NoType] :
                 b \in {NoType, P}, q \in {NoType, P, Q}, h \in {NoType, Q}}

Route(method, path, inputs, returns, status, handler) ==
    [method |-> method, path |-> path, inputs |-> inputs, returns |-> returns,
     status |-> status, handler |-> handler]
Service(routes, uses) == [state |-> State, routes |-> routes, uses |-> uses]
File(enums, functions, services) ==
    [http |-> Http, structs |-> {"P", "Q", "S"}, enums |-> enums, functions |-> functions,
     services |-> services]

NoInputs == [input \in Inputs |-> NoType]
Plain == Function(<<Context>>, {}, {Ok(200)}, Returns(HttpResponse, NoType))

Helper == File(<< >>, [help |-> Plain], << >>)
Again == File(<< >>, [h |-> Function(<<Context>>, {}, {Ok(201)}, Returns(HttpResponse, NoType))],
              << >>)
Other == File(<< >>, [h |-> Function(<<Context, [name |-> "w", type |-> U64]>>, {}, {Ok(200)},
                                     Returns(HttpResponse, NoType))], << >>)

\* Bindings: any handler under any route.
Bindings ==
    {<<File(<< >>, [h |-> Function(params, reads, {Ok(200)}, Returns(HttpResponse, NoType))],
            <<Service(<<Route("POST", path, inputs, NoType, NoStatus, "h")>>, << >>)>>), second>> :
        params \in ParamLists, reads \in ReadSets, path \in Ids, inputs \in InputSets,
        second \in {Helper}}
    \cup
    {<<File(<< >>, [h |-> Function(<<Context, [name |-> "p", type |-> P]>>, {}, {Ok(200)},
                                   Returns(HttpResponse, NoType))],
            <<Service(<<Route("POST", << >>, [NoInputs EXCEPT !["body"] = P], NoType, NoStatus, "h")>>,
                      << >>)>>), second>> : second \in {Again, Other}}

\* Errors: two routes, their errors, and the mappings of the service.
Contract(name) == [target |-> <<"Http", "errors">>, args |-> <<name>>]
Mapper(name) == [target |-> <<"Http", "error_map">>, args |-> <<name>>]
Contracts ==
    {<< >>, <<Contract("E")>>, <<Contract("F")>>, <<Contract("P")>>,
     <<[target |-> <<"Http", "errors">>, args |-> << >>]>>,
     <<[target |-> <<"Other", "errors">>, args |-> <<"F">>], Contract("E")>>,
     <<[target |-> <<"errors">>, args |-> << >>], Contract("E")>>}
MapperUses == {<<Mapper("m")>>, <<Mapper("h")>>, <<Mapper("absent")>>, <<Contract("E"), Mapper("m")>>}

Mapping(param, answers, returns) ==
    Function(<<[name |-> "e", type |-> param]>>, {}, answers, returns)
Mappers == {Mapping(<<"E">>, {Err(400), Ok(200)}, Returns(HttpResponse, NoType)),
            Mapping(<<"F">>, {Err(400)}, Returns(P, NoType)),
            Function(<< >>, {}, {Err(400)}, Returns(HttpResponse, NoType))}
Mappings == (Contracts \X {CHOOSE m \in Mappers : Len(m.params) = 0}) \cup (MapperUses \X Mappers)

Enums(status) == [E |-> [A |-> status, B |-> 404], F |-> [A |-> 500]]

Raising(types) ==
    {Function(<<Context>>, {}, answers, Returns(ok, error)) :
        answers \in {{Ok(200), Err(404)}, {Ok(200), Ok(201)}, {Ok(200), Err(300)}},
        ok \in {HttpResponse, P}, error \in types}
Others == {Plain, Function(<<Context>>, {}, {Ok(201)}, Returns(HttpResponse, <<"E">>))}

TwoRoutes(status, h, g, mapping) ==
    File(Enums(status), [h |-> h, g |-> g, m |-> mapping[2]],
         <<Service(<<Route("GET", << >>, NoInputs, P, 200, "h"),
                     Route("GET", << >>, NoInputs, NoType, NoStatus, "g")>>, mapping[1])>>)

\* The other file of a project, before or after the one of the service.
Around(first) ==
    {<<first, Again>>, <<first, File(<< >>, << >>, <<Service(<< >>, << >>)>>)>>,
     <<File([E |-> [A |-> 200]], << >>, << >>), first>>, <<Again, first>>}

Errors ==
    {<<TwoRoutes(status, h, g, mapping), Helper>> :
        status \in {400, 599, 200, NoStatus}, h \in Raising({NoType, <<"E">>, <<"F">>}),
        g \in Others, mapping \in Mappings}
    \cup UNION {Around(TwoRoutes(599, h, Plain, mapping)) :
                   h \in Raising({<<"E">>}), mapping \in Mappings}

\* Calls: a handler of E, one that raises nothing, and one of a payload, over a
\* function that answers with another status, raises the same, another or no
\* error, and calls a third one or itself.
Handlers == {Function(<<Context>>, {}, {Ok(200)}, Returns(HttpResponse, <<"E">>)),
             Function(<<Context>>, {}, {Ok(200)}, Returns(HttpResponse, NoType)),
             Function(<<Context>>, {}, {}, Returns(P, <<"E">>))}
CallSets == {{Call("k", try, returned)} : try, returned \in BOOLEAN}
            \cup {{Call("absent", FALSE, FALSE)},
                  {Call("k", TRUE, FALSE), Call("l", FALSE, FALSE)}}
Helpers == {Calling(Function(<< >>, {}, answers, Returns(HttpResponse, error)), calls) :
               answers \in {{Ok(200)}, {Ok(201), Err(404)}}, error \in {NoType, <<"E">>, <<"F">>},
               calls \in {{}, {Call("l", TRUE, FALSE)}, {Call("l", FALSE, TRUE)},
                          {Call("l", FALSE, FALSE), Call("k", FALSE, TRUE)}}}
Last == {Function(<< >>, {}, {Ok(201)}, Returns(HttpResponse, error)) :
            error \in {NoType, <<"E">>, <<"F">>}}
CallProjects ==
    {<<File(Enums(400), [h |-> Calling(h, calls), k |-> k, l |-> l,
                         m |-> Mapping(<<"E">>, {Err(400)}, Returns(HttpResponse, NoType))],
            <<Service(<<Route("GET", << >>, NoInputs, P, 200, "h")>>, uses)>>)>> :
        h \in Handlers, calls \in CallSets, k \in Helpers, l \in Last,
        uses \in {<<Contract("E")>>, <<Mapper("m")>>}}

\* Projects the runtime refuses, and a service the checker cannot check.
Odd ==
    {<<Helper>>, << >>, <<File(<< >>, [h |-> Plain], <<Service(<< >>, << >>)>>)>>,
     <<[File(<< >>, [h |-> Plain], <<Service(<<Route("GET", << >>, NoInputs, NoType, NoStatus, "h")>>, << >>)>>)
           EXCEPT !.http = {}]>>,
     <<File(<< >>, [h |-> Plain], <<Service(<<Route("GET", << >>, NoInputs, NoType, NoStatus, "k")>>, << >>)>>)>>}

MCProjects == Bindings \cup Errors \cup CallProjects \cup Odd

=============================================================================
