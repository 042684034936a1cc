------------------------------ MODULE AreSyntax ------------------------------
(***************************************************************************)
(* Arelang function bodies, as the parser of crates/are-parser builds them *)
(* and the checker and the interpreter read them: declarations, types,     *)
(* expressions, statements, and the table of calls the language knows      *)
(* (crates/are-semantics/src/lib.rs).                                      *)
(*                                                                         *)
(* An argument, a member of an object and the operand of `?` is a literal, *)
(* a path, or (for `?`) a call: a call in such a place is a `let` before   *)
(* it.  An arm of a match holds any statement but a match.                 *)
(***************************************************************************)
EXTENDS AreSequences, FiniteSets, SequencesExt

CONSTANTS
    Functions,      \* [name -> [params, returns]], params a sequence of [name, type]
    Structs,        \* structs and models: [name -> [field -> type]]
    Models,         \* [collection -> the model it keeps]
    Enums,          \* [name -> [variant -> sequence of payload types]]
    StringAliases,  \* types declared as `String`
    Capitals        \* names that begin with a capital letter

-----------------------------------------------------------------------------
\* Types of the body checker.  A type it has no form for is Named.

TUnit == <<"Unit">>
TBool == <<"Bool">>
TString == <<"String">>
TInteger == <<"Integer">>
TObject == <<"Object">>
TRequest == <<"HttpRequest">>
TContext == <<"HttpContext">>
TResponse == <<"HttpResponse">>
TUnknown == <<"Unknown">>
TNamed(name) == <<"Named", name>>
TList(inner) == <<"List", inner>>
TResult(ok, error) == <<"Result", ok, error>>

NoReturnType == <<"none">>      \* a function declared without one

IsResult(type) == type[1] = "Result"
result_ok(type) == type[2]
result_error(type) == type[3]

-----------------------------------------------------------------------------
\* Expressions and statements.

NoLabel == "none"

Literal(type, json) == [e |-> "literal", type |-> type, json |-> json]
Path(segments) == [e |-> "path", path |-> segments]
Object(fields) == [e |-> "object", fields |-> fields]
Call(callee, type_args, args) ==
    [e |-> "call", callee |-> callee, type_args |-> type_args, args |-> args]
Try(value) == [e |-> "try", value |-> value]

Positional(value) == [label |-> NoLabel, value |-> value]
Labelled(label, value) == [label |-> label, value |-> value]

Let(name, value) == [s |-> "let", name |-> name, value |-> value]
Eval(value) == [s |-> "expr", value |-> value]
Return(value) == [s |-> "return", value |-> value]
Ensure(value, error) == [s |-> "ensure", value |-> value, error |-> error]
Match(value, arms) == [s |-> "match", value |-> value, arms |-> arms]
Arm(variant, bindings, body) == [variant |-> variant, bindings |-> bindings, body |-> body]

positional(args) == SelectAt(args, {i \in DOMAIN args : args[i].label = NoLabel})
labelled(args, label) == {i \in DOMAIN args : args[i].label = label}
First(positions) == CHOOSE i \in positions : \A j \in positions : i <= j
Untried(x) == IF x.e = "try" THEN x.value ELSE x
HasLabel(args) == \E i \in DOMAIN args : args[i].label # NoLabel

\* A name is bound, over what it was bound to before.
Bind(env, name, value) ==
    [n \in DOMAIN env \cup {name} |-> IF n = name THEN value ELSE env[n]]

-----------------------------------------------------------------------------
\* What a callee is.  `builtin_by_callee` and `db_call_by_callee` come first,
\* in the checker and in the interpreter alike.

HttpResponseOk == <<"Http", "Response", "ok">>
HttpResponseCreated == <<"Http", "Response", "created">>
HttpResponseError == <<"Http", "Response", "error">>
RequestReads == {<<"req", "json">>, <<"req", "query">>, <<"req", "headers">>, <<"req", "cookies">>}
ValidateEmail == <<"validate", "email">>
ValidateLength == <<"validate", "length">>
ContextParam == <<"ctx", "param">>

Builtins == RequestReads \cup {HttpResponseOk, HttpResponseCreated, HttpResponseError,
                               ValidateEmail, ValidateLength, ContextParam}

db_call_by_callee(callee) ==
    /\ Len(callee) = 4 /\ callee[1] = "ctx" /\ callee[2] = "db"
    /\ callee[4] \in {"insert", "get", "all"}

=============================================================================
