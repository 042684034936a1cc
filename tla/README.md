# A verification project for Arelang

Arelang is a small language for HTTP services. A program (`*.are` files and an
`are.toml`) declares types, models, functions and one service; the `are`
command checks it, prints its contract, exports an OpenAPI document, formats
it, audits it, and runs it on an in-memory store. This directory holds TLA+
modules of the parts of that program that keep state or that several parts
must agree on, TLC configurations that check them on small instances, and
proofs, checked by TLAPS, of what holds for every instance.

Source paths below are relative to `src/crates/` unless they begin with
another directory.

## The system

| Component | State | Operations | Talks to |
|---|---|---|---|
| Model store (`are-http-runtime/src/store.rs`) | per collection: the last id drawn, records by key; one mutex | `insert_model`, `get_model`, `list_model` | called by the runtime host; validates with the schemas |
| Request pipeline (`response.rs`, `host.rs`) | per request: route, arguments, what the handler holds | find the route, check the body, decode arguments, run the handler, map an error, hold the answer against the contract | called by the server loop; runs the interpreter; calls the store |
| Server loop (`server.rs`, `request.rs`) | the store; the request in hand | take, read the body, answer, write | tiny_http before it, the pipeline behind it |
| Route contracts (`contracts.rs`) | the routes, in order | `route_for`, `match_route` | made from the checked service; read by the pipeline and the exporter |
| OpenAPI export (`openapi.rs`) | none | `paths`, schemas | reads the route contracts |
| Runtime schemas (`schemas.rs`) | types of the program by name | validate a value, decode path, query, header and cookie text | pipeline, store |
| Runtime functions, preparation (`functions.rs`, `lib.rs`) | functions by name | `prepare_project` | project checking; everything at run time |
| Project checking (`are-project`) | diagnostics, checked files | lex, parse, resolve and typecheck file by file | resolver, checker; used by every command |
| Resolver (`are-resolver`) | symbols of one file | declare, resolve | project checking |
| Checker (`are-typecheck`: `http.rs`, `body.rs`) | symbols, types of bindings | routes, handlers, error contracts, bodies | project checking; it promises what the runtime relies on |
| Interpreter (`are-interpreter`) | environment of the running function | statements, expressions, calls, host calls | pipeline; runtime host |
| Test scenarios (`scenarios.rs`) | none | fixed requests and expectations | pipeline |
| Command line, audit (`are-cli`, `are-audit`) | files on disk | `new`, `check`, `fmt`, `inspect`, `openapi`, `audit`, `test`, `run` | all of the above |
| Lexer, parser, tree, formatter, diagnostics, builtin tables | none | text to tree, tree to text | project checking |

What is hard here:

* **Partial failure without rollback.** A handler is a sequence of host calls
  with effects; any of them, the handler itself, its error mapper or the
  response contract can fail after an insert. The store draws ids before it
  knows whether the insert succeeds.
* **One thread, many clients.** The loop is sequential, but clients are not:
  they queue, give up, retry and lose responses, and a restart loses the store
  while clients remember ids.
* **Two parts that decide the same thing apart.** The checker and the runtime
  each parse path segments, match names, and know about statuses and error
  enums; the exporter has a third copy. What one accepts, the other must mean.
* **Order.** The first matching route serves, the last one of a template is
  documented, keys are listed as strings.
* **Files checked alone and run together.** Each file is resolved and checked
  on its own; functions and types of all files share one table at run time.

What makes each part correct: the *store* never loses or replaces a record and
never reuses an id; the *pipeline* answers every request once, with what the
route or the error enum declares; the *server* loses no request it took and
keeps what it confirmed; *routes* give a request to the first declared route it
is an instance of, with the parameters the request spells; the *document* lists
what is served; the *checker* accepts only what the runtime can run.

## Modules

| Module | Models | Rests on |
|---|---|---|
| `AreTable` | what the store promises: an insert-only table with fresh keys | |
| `AreStore` | the model store | refines `AreTable` |
| `AreSequences` | the elements of a sequence that a filter lets through | |
| `AreLemmas` | what is proved of sequences, rankings and orders, whatever they are of | `AreSequences` |
| `AreStoreProofs` | its theorems | `AreStore`, `AreLemmas` |
| `AreResponse` | the request pipeline, for any handler and mapper | extends `AreStore` |
| `AreServer` | the server loop, its clients, restarts | extends `AreStore` |
| `AreServingProofs` | the theorems of both | `AreResponse`, `AreServer`, `AreStoreProofs` |
| `AreRoutes` | route checks, matching, the exported paths | extends `AreSequences` |
| `AreRoutesProofs` | its theorems | `AreRoutes`, `AreLemmas` |
| `AreRouteChecks` | the checks on a service, its routes, their handlers and errors | |
| `AreBinding` | files checked one by one, then the handler of every route found, its arguments bound, its errors mapped | extends `AreRouteChecks` |
| `AreBindingProofs` | its theorems | `AreBinding` |
| `AreTypes` | declared types, values, the checks on declarations | |
| `AreSchemas` | the runtime's validation and decoding by those types | extends `AreTypes` |
| `AreDocument` | the exported schemas and parameters; what a schema admits | extends `AreSchemas` |
| `AreProject` | a project checked file by file, prepared, and asked | extends `AreDocument` |
| `AreProjectProofs` | its theorems | `AreProject`, `AreLemmas` |
| `AreSyntax` | types, expressions and statements of function bodies; which callee is what | |
| `AreBody` | the function body checker | extends `AreSyntax` |
| `AreInterp` | the interpreter of function bodies | extends `AreSyntax` |
| `AreChecked` | modules that are checked and then run | extends `AreBody`, `AreInterp` |
| `AreCheckedProofs` | its theorems | `AreChecked`, `AreLemmas` |
| `AreCli` | the commands on the files of a project, beside an editor | extends `AreSequences` |
| `AreCliProofs` | its theorems | `AreCli`, `AreLemmas` |
| `MCAreStore`, `MCAreResponse`, `MCAreServer`, `MCAreRoutes`, `MCAreBinding`, `MCAreProject`, `MCAreChecked`, `MCAreCli` | instances for TLC | |

### AreStore

`next_id` and `records` are the two fields of `ModelStore`, for all
collections at once; `ret` is what the last call returned. Each of
`insert_model`, `get_model`, `list_model` holds the mutex from its first read
to its last write, so each is one action. JSON values are kinds and texts, a
decimal text is the number it spells, and `KeyLess` compares digit by digit as
the code's string sort does. A model is a sequence of fields with the values
each type admits: `validate_model_fields` is then exact, and what an alias or a
validation admits is an input of the model. `InsertError` lists the failures of
an insert in the order the code meets them.

Checked and proved: rows only under ids the counter handed out, each under the
id its own primary field spells (`RecordsKeyedByTheirId`); every stored row
valid for its model (`StoredRecordsValid`); ids burned by failed inserts never
used (`BurnedIdsStayUnused`); and the store implements `AreTable`
(`ImplementsTable`), in which a row is never replaced or lost and a read misses
only what is absent; and listings are complete and sorted (`ListingIsComplete`).

### AreResponse

One request at a time goes through the phases `body`, `args`, `handler`,
`mapper` and back to `idle`. The handler and the error mapper are *any*
program: any sequence of host calls (actions of `AreStore`), then any outcome:
a `Http.Response` with any status and any body it can build or was given, a
payload, a value no response is made of, a raised error, an interpreter error.
`Fail` is the error arm of `interpreted_response`; `Answer` is the way through
`apply_route_response_contract`. `draft` keeps the response before the contract
was applied.

Properties: a response below 400 honours the route's contract
(`SuccessHonoursContract`); an error of the declared enum arrives with its
declared status (`DeclaredErrorsReachTheClient`); values held across later host
calls stay of their model (`HeldValuesConform`); the store under the pipeline
behaves as `AreStore` (`KeepsTheStore`); every request is answered
(`EveryRequestAnswered`).

### AreServer

`queue` is tiny_http's, `current` and `reply` the locals of
`handle_tiny_request`, `client[cl]` what a client sent and awaits. `Handle` is
the pipeline in one step, for the routes of `examples/users_api` that reach the
store: each of their handlers makes one host call. `DropUnreadable` is the `?`
on reading the body, the second disjunct of `Respond` the failed write.
`Restart` throws away everything the process had. `made` and `acked` are
history: which request made which record, and which of them its client knows of.
Requests, connections and the queue are external.

Properties: no awaited request is lost (`AwaitedIsInTheServer`); confirmed
records stay until a restart (`ConfirmedRecordsStay`); a read sent after a
confirmation shows it (`ReadYourWrites`); one record per request, and no record
without one (`OneRecordPerRequest`); every client's wait ends
(`EveryRequestSettles`).

### AreRoutes

A service is declared route by route; `errors` collects the diagnostics of the
resolver and the checker; `Prepare` is `prepare_project` and the export;
`Serve` is the lookup for a request. Paths are sequences of segments.
`match_route` is the runtime's, `openapi_path` and `paths` the exporter's,
`check_route_params` the checker's: three readings of a segment. The reference
is `IsInstance`: some assignment of texts to the parameters spells the path.

Properties: the parameters bound spell the request (`ParamsSpellThePath`), the
first declared instance serves and none is missed (`FirstInstanceServes`), and
a request is served iff the document has it (`ServedIffDocumented`).

### AreRouteChecks, AreBinding

`AreRouteChecks` is `are-typecheck/src/http.rs` as operators, with the checks of
`body.rs` on calls: a check of a route, a handler, a mapping or a call gives the
set of its codes. A type is the sequence of its names, a function its parameters,
the inputs its body reads, the statuses it answers, the functions it calls (with
`?` or without, the value returned or not) and what it returns; how a body comes
to that is the subject of `AreChecked`. `AreBinding` checks a project file by file
(`CheckFile`), prepares it (`prepare_project`) and then serves requests: it
finds the handler among the functions of all files (`Dispatch`), binds one
argument after another (`handler_arg`), lets the handler answer, return, fail at
the host or raise, and maps errors by the contract or the mapper of the service.
What a handler raises may come from any function that runs for it (`Reached` along
`Calls`): at run time `?` does nothing and nothing catches an error. What it answers
may be the answer of a function whose value it returns (`Reached` along
`ReturnedCalls`). The runtime keeps nothing of what the checker settled: it asks again, by names and
types, in an order of its own.

Properties: every parameter gets an input the route declares for it, none twice,
and nothing declared is dropped (`InputsReachTheHandler`); whatever leaves a
handler, raised any number of calls below it, is of the one enum it declares, and
an error of that enum is answered as its mapping says (`RaisedErrorsAreMapped`); a
success the handler makes itself is not replaced for its status
(`AnswersKeepTheirStatus`). Three hypotheses are needed, and none is checked by the
program. `UniqueNames`: a function of a later file replaces one of the same name.
`OnlyHttp`, for the first two: `Other.errors(E)` is a contract to the runtime and
none to the checker. `Tested`, for the first half of `RaisedErrorsAreMapped`: the
checker compares errors at a `?` (`body.rs:953`) and asks nothing of a call
without one (`body.rs:242`), so an accepted handler may let a helper's error of
another enum out, and the answer is then `error_contract_mismatch` or
`error_mapper_missing`. And an accepted handler may return what a helper answered:
the route's status is compared with the calls of `Http.Response` in the handler
alone (`http.rs:594`), so a helper's `Http.Response.ok` under `status 201` is
replaced by a 500. `AnswersKeepTheirStatus` says that a replaced success comes
from there or from `Http.Response.error`, never from the handler's own `ok` or
`created`. The instance has projects that break each of the three and handlers of
both kinds.

### AreTypes, AreSchemas, AreDocument, AreProject

Three readers of a declared type. `AreTypes` has the checks of the resolver and
the checker on aliases, structs, models and enums of one file; `AreSchemas` the
runtime's tables over all files, its validation of JSON and its decoding of
path, query, header and cookie text; `AreDocument` the schemas and parameters of
the exported document, and, as the reference, what JSON Schema admits by them.
`AreProject` puts them together: any file of `Sources[i]` is written as the
i-th, checked, and once the project is served, bodies, answers and texts are
held against its types. Strings are their length and whether they have an `@`,
numbers the readings `serde_json` gives them. A type is the path of a name and
the options and lists around it, from the outside in.

The code's recursions over types are functions of how many calls are still to be
had: `outcome_within(s, values)[d]` gives the outcome of every type and value with
`d` nested validations to go, each from those with `d - 1`; so for the root of an
alias, and for what a schema admits (`admitted_within`). `Depth` is what the stack
holds, and passing it is the outcome `Overflow`.

The assumptions: `Json` has the values its values are made of (`JsonAssumption`),
files have finitely many declarations (`SourcesAssumption`), a text parses as
the same number wherever it parses as one (`InputsAssumption`), and the name of
one field in lower case is the header of another only if it is its own header
(`HeaderAssumption`: `header_name_for_field` leaves no underscore,
`are-http-runtime/src/schemas.rs:578`, so that such a name is without one).
`NameAssumption` says that the names of primitives are strings, which the provers do
not know of a literal.

Properties: what the runtime lets through conforms to the document
(`AcceptedIsDocumented`) and what conforms is let through
(`DocumentedIsAccepted`, for the types it carries out: `Carried` lists the
others). Of parameters sent under their documented names, those let through
conform, what the handler gets conforms too, and none that conform are refused
(`ParametersFollowTheDocument`). "Refused" leaves `Overflow` out: every text may
conform where the object around them takes the one call that is too many. The
recursion ends on every program without a circle of aliases
(`OverflowsOnlyOnCircles`); the checker accepts one with a circle. `StackHolds` says how many calls
that takes: for each level of arrays and objects in a value, and for the object around
parameters, every alias once with the options and lists around it. The document is read
leniently in two places, named at `Admits`: objects may have further members, and
`5.0` is no integer. The first three are under `UniqueNames`: no name in two files, and none a
primitive's. The checker looks for neither. Of a file that declares
`type Text = U64` it makes no diagnostic; the runtime then reads the alias, and the
document the primitive.

### AreCli

The commands `new`, `check`, `fmt`, `fmt --check`, `openapi`, `openapi --check`,
`inspect`, `audit` and `run` as steps on two sources, `are.toml` and
`openapi.json`. A write is `fs::write`: it truncates and then fills. A command
may fail at a write or be killed at any step, and an editor writes or removes
files between steps. A source is what its items are (sound with and without
declared contracts, no service, a diagnostic, not parsed), whether it is laid
out, and whether it has comments; the formatter is what it refuses and that it
keeps the items.

Properties, each where the editor left the command alone: `fmt` formats files in
their order, keeps every declaration and comment but for the file it is writing,
a `fmt` that succeeds leaves all formatted, `--check` writes nothing and succeeds
exactly when all are (`FmtKeepsThePrograms`); the audit passes exactly the projects
that are in order, though it reads them twice, and `new`, however it ends, leaves a
directory that held anything as it was and fails there, a half-made project of its
own included, and succeeds only with a project the audit passes
(`AuditVouchesForRun`); `openapi --check` passes exactly when the files are a
program that can be exported and `openapi.json` has the address and the
declarations they hold now, and so it does after an export whatever commands ran in
between (`OnlyEditsDrift`). An editor that writes between the two readings of the
audit, or between the look of `new` at the directory and its writes, is in the
model and not in these properties: nothing in the code holds such an edit off, and
no document says what the command then means.

### AreSyntax, AreBody, AreInterp, AreChecked

`AreBody` is `body.rs` as operators: a check of an expression gives its type
and the codes of its diagnostics, a check of a statement the types of the names
after it. `AreInterp` is the interpreter as a machine: the recursion of
`interpret_function_with_args` is a stack of frames, `env` the one environment
the code has, `previous_env` what a call set aside. `exec_stmt` is a statement
whose expression calls no function, `eval_user_function_call` and `Resume` are
the two halves of one that does, `LeaveArm` is the end of an arm, `FallOff` the
end of the statements; an error ends the whole stack, as `Err` does on its way
through every caller. The host answers anything of the type it was asked for,
or raises one of its errors, so a body is held against every database and
every request. `AreChecked` writes a module statement by statement, checks each
as it is written, and runs the modules that have no diagnostic: the statements
are inputs, and most of what is written is refused.

A call stands in a statement or under its `?`, not among the arguments of
another call, `?` is not doubled, and an arm holds no match. Of JSON the model
keeps what the checker has types for: strings, integers that are a status or
are none, booleans, objects by their members, lists. What a declared type may
hold is given by `JsonOf`, for structs as for aliases and the numbers the checker
has no form for; a member whose type is one of `Optionals` may be absent. The
payloads of enums are no enums and lists hold no lists: of what the checker looks
at, one level tells as much as two.

The assumptions say what a program is (`CheckedAssumption`), what its declarations
may mention (`DeclarationAssumption`) and what the host and the router give it
(`HostAssumption`): what is decoded for a type, a stored row, an argument is of its
type, which is the subject of `AreProject`, `AreStore` and `AreBinding`. An object
has no members but the declared ones here, while the runtime's validation
(`are-http-runtime/src/schemas.rs`) lets others pass: no accepted body can name
such a member, and a body that hands the whole object on does not look into it.

Properties. `NamesHoldTheirTypes` joins the two: before every statement of
every activation, each name the checker knows is bound to a value of the type
the checker gave it, through shadowing, arms, calls and recursion.
`ReturnsWhatItDeclares` and `RaisesWhatItDeclares` are what callers and the
pipeline rely on. `AcceptedBodiesFailInKnownWays` bounds what the checker
misses to seven causes: a body that ends without a return, one that has no
statements, a value that is no JSON used as some, a labelled argument to a read of
the request, a status that is none, the reading of a member that may be absent, an
error that is no enum. `Ordinary` and `Untested` mark where these fail: `BindsInArm`
(a `let` in an arm), `Misread` (an enum with a small first letter, or a binding with
a capital one), `ReturnsObject` (an object literal returned for a struct) and
`Untested` (a fallible call without `?`). The first is a disagreement below. `Misread`
is one of the same kind without a run of its own: given `enum mood { up }`, the
checker takes `mood.up` for a variant (`body.rs:799`) and the interpreter for the
field `up` of a binding `mood` (`are-interpreter/src/lib.rs:565` asks for a capital
letter), which it does not find. The third is what the response contract is there to
catch. The last is not refused
because only `?` compares error types, while at run time `?` does nothing: without it
the error leaves through the caller as well, of whatever enum.

## Runs

| Run | Configuration | Shows |
|---|---|---|
| `store` | `AreStore.cfg` | three models (an I64 id that overflows, an alias that refuses some ids, an F64 id), inputs that name an id, misfill or lack a field or are no object; ids of one and of two digits |
| `response` | `AreResponse.cfg` | four shapes of route, six error mappings, handlers and mappers of up to two host calls |
| `server` | `AreServer.cfg` | two clients, two requests each, one restart, under fairness |
| `routes` | `AreRoutes.cfg` | services of up to two routes over every path of up to two segments |
| `binding` | `AreBinding.cfg` | handlers with any two parameters, any reads, any inputs; two routes with any error mapping; handlers over helpers that raise another error, answer with another status or call each other and themselves, tested or not; a second file that is empty, declares a name again, or has a service |
| `project` | `AreProject.cfg` | two files: two aliases that may name each other, types over them, and declarations the runtime does not carry out; bodies, answers, path texts, queries, headers, cookies |
| `bodies` | `AreChecked.cfg` | a handler of up to three statements out of about fifty, with two helpers; one with a helper that calls itself from arms that hide its names; one with a helper that raises a string |
| `cli` | `AreCli.cfg` | any sequence of commands on two sources and a manifest, one write of an editor, failures at every step |
| `mapped_errors_rechecked` | `AreResponseMapped.cfg` | a disagreement, below |
| `renamed_error_enum` | `AreResponseDeclared.cfg` | a disagreement, below |
| `unit_functions` | `AreCheckedUnit.cfg` | a disagreement, below |
| `let_in_an_arm` | `AreCheckedArms.cfg` | a disagreement, below |

Bounds. `MaxId` caps the ids of a collection: 3 lets a failed insert fall
between two successful ones. Keys are numerals in base `Base`, 10 in the code; it
is 3 in `store`, so that the third id has two digits and the order of strings
parts from that of numbers; a model without a primary field is left to the
proofs, which are about every model. `MaxI64` is 2 in `store`, so that the conversion of
an id overflows within the bound. `MaxCalls` is 2: an insert and a call after it
that fails is what the error paths have to survive. `MaxSends` is 2 per client: a
request, and the one sent after giving up or after an answer; with two clients
a failed insert of one falls between a write and a read of the other.
`MaxEpochs` is 2, one restart. `MaxRoutes` is 2: every property of routes is
about one route or a pair. `binding` has two parameters besides the context: two
compete for an input, and one may be named and typed for two. `Depth` is 50 in
`project`: what `StackHolds` asks for of values three levels high, four names of
aliases and one option or list around a name; the instance evaluates it, and 49 would
not do. Two files are the least that can
disagree. `MaxEdits` is 1: an editor between the two readings of the audit, or
between an export and its check. `MaxStatements` is 3 for the body under
scrutiny: one statement binds, one matches or calls, one uses what is bound after
that. `MaxDepth` is 4: above the longest chain of calls of `main`, and enough for
three activations of `turn` at once, which calls itself; there it cuts a
recursion that has no end in the code. No symmetry is declared.

Deadlock is checked in the runs of the store, the pipeline and the commands. A
service, a module or a project that was refused stops, a body that was run has
ended, and clients that have sent all they may stop: `AreRoutes`, `AreBinding`,
`AreProject`, `AreChecked` and `AreServer` turn it off.

Fairness. `AreResponse` has weak fairness of the pipeline's step: one thread
runs it, it waits for nothing, and a handler makes finitely many host calls
(`MaxCalls`). This leaves out a program that recurses without end, which is
the interpreter's business. `AreServer` has weak fairness of the loop: the
thread is never suspended between requests, and reading or writing a socket
ends, by success or by an error. Nothing is assumed of clients or restarts.

## Disagreements met

* **Mapped errors and the success contract.** `spec/http-mvp.md:125` places
  responses of `Http.error_map` outside the success contract. `runtime_response`
  applies the contract to them and exempts only statuses of 400 and above: a
  mapper that answers 200 or 302 has its answer replaced by a 500.
* **The name of the error enum.** `spec/compiler.md:102` and `spec/http-mvp.md:63`
  allow any error type. The host raises its own errors as `ApiError`
  (`are-interpreter/src/error.rs:100`), so a service whose enum is named
  otherwise answers 500 where its enum declares 404 or 400.
* **Functions without return type.** `spec/syntax.md:33` gives them `Unit` in
  some cases, and the checker types a call of one as `Unit`. The interpreter
  knows no way to end such a function well: a `return` is refused by the checker,
  and the end of its statements is `MissingReturn`.
* **`let` in an arm.** `body.rs:433` asks that names be declared before use. A
  name one arm declares counts as declared after the match, and for the arms
  after it; it is unbound when another arm ran.

## Proofs

All theorems are for arbitrary constants, under the assumptions the modules
name (`KeyAssumption`, `InputAssumption`, `ModelAssumption` in `AreStore`:
texts, inputs and models have their types, and a model has at most one field of
a name and one primary field, which the checker enforces;
`ResponseAssumption` in `AreResponse`).

`AreStoreProofs`. The inductive invariant joins types, keys and validity: a row
of `c` is under a key in `1..next_id[c]`, its primary field spells that key,
and it is valid. None of the three is inductive alone: that an insert's key is
fresh needs the bound of the keys by the counter; that the key is the id drawn
needs `generated_primary_value` (a lemma on `build_model_record`: the primary
field of the built record spells the id, whatever the input says). From it
follow `TypeCorrect`, `RecordsKeyed`, `RecordsValid`, `BurnedIds` (a step
property: the only key a step adds is `next_id[c] + 1`) and
`StoreImplementsTable`: initial states map to initial states, an insert to
`Create` or `Refuse`, a read to `Read`, `Miss` or `Refuse`, a listing to
`ReadAll`. `ListingComplete` is about two definitions that say nothing by their
shape: `Digits` is recursive and `SortedKeys` chooses by cardinalities. That
`Digits` has values at all, and never the same for two numbers, is shown by the
least number for which it fails (the library's induction takes an operator,
which the provers cannot instantiate; `NatMin` in `AreLemmas` stands for it).
So the texts of keys are totally ordered (`PrecedesTotal`), and in a finite set
so ordered each position has one element (`Ranking`).

`AreServingProofs`, the pipeline. `ResponseKeepsTheStore`: each pipeline step is a store
step or leaves the store alone, so `Spec => StoreSpec` and every theorem about
the store holds below the pipeline. `PipelineTypeCorrect` carries the phase
facts (the mapper runs only under `error_map` and with a raised error; nothing
is answered before the end). `SuccessContract` rests on a lemma about
`apply_route_response_contract` (its result is at least 400 or honours the
route) and on `route` not changing until the next request. `DeclaredErrors`
rests on the lemma that the contract returns answers of 400 and above as they
are. `HeldConform` takes the validity of stored records, and of every listed row
that it is one of them, through `ResponseKeepsTheStore` to what a program holds.

`AreServingProofs`, the loop (`ServerSpec`), under `ServerAssumption` (the two bounds
are natural numbers), for any set of clients. `OneRecordPerRequest` and
`ConfirmedRecordsStay` are far from inductive: nothing in them says that the
request at the head of the queue was not handled before. The invariant adds
`Numbered` (a client numbers its requests; the queue, the loop and the records
made never hold two of the same number, until the answer is written),
`Accounted` (the rows are the records made, each as it was made, under the key
it spells), `Awaiting` (a client awaits one request, its own) and `Reading`
(what a client knew when it sent a request was made by then: along the queue,
in the loop, in the answer and with the client). The freshness of a key, from
`AreStoreProofs`, keeps a second record off the first one's row.

`AreBindingProofs`, for any set of projects (`ProjectAssumption`: files and
parameters are numbered, and a variant is told from the runtime's own codes).
The invariant says that a served project has its contracts from one of its
services and no diagnostic in any file (`Prepared`), that the request in hand is
of a route of it (`Routed`), that nothing is raised before a handler ends
(`Fresh`), and which inputs the arguments so far were bound to (`ArgsBound`). The
rest of the argument has no time in it. Lemmas draw out of the empty sets of codes
what the checker's silence says: a handler in the same file, one source for every
parameter, a use for every input, one mapping for every error (`RouteChecked`,
`ParamsChecked`, `DecodesChecked`, `ErrorMapped`). `SourceIsTaken` is where the
two orders of questions meet: a parameter with one source for the checker gets
that source from the runtime. `FunctionFound` and `EnumFound` use `UniqueNames` to
show that the runtime's tables give what the file declares, `UseFound` uses
`OnlyHttp` to show that it meets the same mapping. `CallsChecked` and `CallChecked` say
that every call of a checked function is of one of its own file, and that its error is
the caller's where it is tested or returned, so that
the set of functions that can only fail with the handler's error is closed under
calls: `Reached` is the least closed set, and `ErrorsLeave` concludes for any depth
of calls without an induction. `InputsReach`, `RaisedMapped` and `AnswersKept` follow.

`AreRoutesProofs`, for any set of paths, requests and methods (`PathAssumption`).
`SelectAt` keeps positions in their order (`SelectAtPositions`): so the filtered
pattern and the filtered request pair off, and `MatchIsInstance` shows that
`match_route` accepts exactly the instances of a path, with the texts that spell
them where the names are unique. The invariant says that a served service has
no diagnostic, that its document was exported from its routes and that the last
request was answered by `route_for`; from the empty sets of codes come the unique
names and the distinct routes. `RoutesTypeCorrect`, `ParamsSpell`,
`FirstInstance` and `ServedDocumented` follow.

`AreCliProofs`, for any list of files and whatever an editor writes
(`ProjectAssumption`: no path is listed twice; `new` writes a server at an address
its own manifest lets it listen on). The invariant has a part for each thing a
command relies on while nobody else writes: where each command may be and what it
carries there (`CmdInv`); that the manifest, the list of files and the items it
read are those on disk, and that the audit's report so far passes iff the program
does (`ReadInv`); that `new` wrote only where it found nothing, and what it should (`NewInv`); that
of the listed files those before the current one are formatted and the others
are as they were (`FmtInv`); and that a document counted as fresh is that of the
files, the one `fmt` has truncated taken as it will be written (`FreshInv`).
`FmtKeepsThePrograms` is about the files in the order of the directory and the
invariant about those that exist, in the order of the walk: `FmtReached` carries
one to the other by `SelectAtPositions`. Each command's end is a lemma
(`AuditReports`, `CheckCompares`, `FmtThrough`, `FmtStopped`, `FmtRefuses`,
`NewDone`, `NewStopped`). `CheckCompares` and `CheckFails` turn the outcome of `openapi --check`, which
is about what it read, into a statement about the files: by `ReadInv` what it read
is what they hold.
`CliTypeCorrect`, `FmtKeeps`, `AuditVouches` and `DriftIsEdited` follow. Besides
an edit, a `fmt` killed in the middle of a file is the one thing that makes a
document stale (`FreshInv`).

`AreCheckedProofs`, for any functions, types and statements, under the
assumptions named above, and for a recursion as deep as one likes. The five
properties the run checks of accepted bodies are theorems; together they are the
soundness of the checker's types for what the interpreter does.

The shape comes first and takes no account of types (`ShapeInv`): every frame but
the last waits for the call in its first statement, a frame that got a value got it
for such a call, and only an accepted module runs. That is `CheckedTypeCorrect`.

`NamesHoldTheirTypes` is not inductive. It speaks of frames between two statements
of a body; a frame in an arm, one that is about to raise, one with a value it has
not used, one below another, are where it could be lost, and the outcome depends on
what was on the stack. The invariant (`TypesInv`) says of the bodies that
the types before each statement are those the checker went through
(`ModuleChecked`), and of every frame that it is in one of four places
(`Fitting`): before a statement of its body with names of the types there
(`AtBody`); at the end of an arm, where the names that `restore_bindings` will
make have the types after the match (`AfterArm`); before the body of an arm, which
the checker accepted with types these names have (`InArm`); or about to raise, an
expression of the error type (`Raising`). The names of a frame that is not the last
are those the frame above it set aside (`NamesIn`). A frame waits for the very
function above it (`WaitsFor`), the value it got is of the type that function
declares (`GotFits`), and, when `?` is on every fallible call, the errors of every
frame are those of the first (`ErrorsFit`).

Three bodies of lemmas carry a step. An expression without a call of a function,
accepted with types its names have, evaluates to a value of its type or stops in a
known way (`ExprSound`): paths segment by segment along both recursive functions
(`PathSound`), each builtin, the store, constructors, objects, `?`. A call that was
accepted enters with arguments of the parameters' types, returns what the caller
expects and raises the caller's errors (`CallAccepted`, `GivenBound`, `CallReturns`,
`CallRaises`). An arm that was accepted binds names of the payload's types
(`EnterArm`) and gives the names before it back (`ArmRestores`), though the checker
has one environment for all arms and the interpreter restores binding by binding:
this is where `BindsInArm` and the distinctness of an arm's bindings are needed.
`Misread` is needed in `VariantSound`, `ReturnsObject` in `ReturnHolds`, with
`ObjectElsewhere` for what an arm returns. `TypesAreSound`, `FailsInKnownWays`,
`RaisesDeclared` and `ReturnsDeclared` follow from `TypesInv`.

`AreProjectProofs`, for any list of sets of files, any JSON, any texts and any depth
of the stack, under the assumptions named above. The invariant has four parts: the
files are sources, in their order (`FilesOK`); the codes are those of the files so
far (`ErrorsOK`); a service has no code, and its tables and components are what
`from_modules` and `component_schemas` make of the files (`TablesOK`); and the last
request is one of the four kinds, answered by the operator of its kind (`RequestOK`). From there on
nothing has time in it: the properties are lemmas about `from_modules`,
`type_components` and the functions of depth. That such a function exists up to
every depth, and obeys its equation at each, is proved from the least depth at which
it would not (`OutcomesUptoExists` and its like for roots, checked roots and
admission; then `OutcomeSteps`, `RootSteps`, `CheckedSteps`, `AdmittedSteps`), and every
induction below is `UpTo`, for the same reason as in `AreStoreProofs`.

`AcceptedConforms` is by induction on the depth: a value that is `Valid` with d calls
to go is admitted by the schema of its type within some number of references
(`SoundAlways`); a name is looked up by the runtime among the aliases, structs and
models of all files and by the document among components of one name, which
`UniqueNames` makes the same declaration (`Declared`, `ObjectComponent`). One
reference more admits no less (`AdmittedMore`), and admission does not depend on the
values one asks about beside the value's own parts (`AdmittedAmong`): the object a
query is decoded to is no member of `Json`. `ConformingIsAccepted` goes the other way
along the references, and needs more: a document's rule may be one the runtime
applies to a field, an alias, or both, and a rule on what is no string never holds.
That the checker lets rules stand on strings only is what `checked_root` finds
(`CleanRules`, `StringLike`), by a walk over the aliases of one file, with options
looked through; the runtime's own walk, `primitive_root`, is over all files, with
none looked through. `RootAlways` relates the two walks and the schema.
`ConformingParameters` adds the way from texts: the name a client uses is the name
under which the loop finds the field (`FoundUnder`, where `HeaderAssumption` is
needed), the text is parsed as the root its schema has (`ReadAs`, `DecodedRoot`,
`ReadingIs`), the object has exactly the members that were sent, though two fields may be sent
as one header (`DecodedObject`, `ObjectMember`), and so it is valid iff its members are
(`ObjectAdmitted`, `ObjectConforms`).

`OverflowNeedsCircle` has one hypothesis, `StackHolds`, and no `UniqueNames`: it is about
whatever the tables are. A value whose parts are validated to an end with e calls to
go overflows only along options and aliases (`OverflowStep`, `Unwrapped`). The aliases met
with i more alias steps to go are a set that shrinks as i grows; of n + 1 such sets
over n names two that follow each other are equal, and that one is a circle
(`Shrinking`, `LongChain`, `LevelEnds`). `AllEnd` is the induction on the height of
values, and `RootCircle` the same for `primitive_root`. The bound is what makes the
property more than a matter of the instance: without a circle the number of nested
calls is known, and with one it has no limit.

Only model-checked: liveness (`EveryRequestAnswered`, `EveryRequestSettles`), since
fairness and ENABLED are out of the prover's reach, and the four disagreements, which are
counterexamples. Every other property of the runs is a theorem.

## What is left

1. A service-level specification (requests in, answers out, one table) that
   `AreServer` over `AreResponse` implements.
2. The responses of an operation in the document, against what `AreResponse`
   answers.
3. Two commands at once on one project.

## Not modelled

Text: how characters become tokens and trees and trees become text, and the
rendering of diagnostics, are functions without state, reached well by the unit
tests of their crates; of the formatter the model has what it refuses and what it
keeps. The fixed test scenarios (`are test`) are a script of requests to the
pipeline that `AreResponse` models. Parsing of arguments, printed wording, the
reports of `inspect` and the lists the audit only warns about change no state and
no verdict. Of the document the responses, the error bodies and the `x-are-`
extensions are left out. The names of collections (`are-semantics`) are constants,
though two models of a project may share one. HTTP below the path, the names and
the texts of a request (encoding of URLs and bodies, sockets) is tiny_http's.
One command runs at a time, and one service: the loop is one thread.
