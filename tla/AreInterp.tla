------------------------------ MODULE AreInterp ------------------------------
(***************************************************************************)
(* The interpreter of function bodies (crates/are-interpreter/src/lib.rs): *)
(* one function is entered with its arguments, its statements run one      *)
(* after another, and calls of other functions nest.                       *)
(*                                                                         *)
(* The recursion of the code is a stack of frames.  A frame is what one    *)
(* call of interpret_function_with_args holds: the function, the names it  *)
(* set aside, the statements to do, what the call in progress returned.    *)
(* Two items of `todo` are no statements of the language: "raise", the     *)
(* second half of an `ensure`, and "restore", the end of a match arm.      *)
(*                                                                         *)
(* The host is any implementation of the trait Host that decodes what it   *)
(* was asked for, or raises an error of its own.                           *)
(***************************************************************************)
EXTENDS AreSyntax

CONSTANTS
    Entries,        \* functions the runtime enters, with arguments: [fn, args]
    Decoded,        \* [type -> JSON values the host decodes for it]
    Stored,         \* [collection -> JSON objects its rows can be]
    HostErrors,     \* enum values the host raises by itself
    MaxDepth        \* bound: frames on the stack

VARIABLES
    bodies,         \* [function -> its statements]
    env,            \* the names of the running function
    stack,          \* the frames, the running one last
    outcome         \* how the entered function ended

vars == <<bodies, env, stack, outcome>>

-----------------------------------------------------------------------------
\* Values, and what an evaluation ends with.  JSON is told apart by kind:
\* a string, an integer that is a status or is none, a boolean, an object,
\* a list.

Json(json) == <<"Json", json>>
Bool(b) == <<"Bool", b>>
EnumValue(name, variant, payload) == <<"Enum", name, variant, payload>>
HttpResponse == <<"HttpResponse">>
Unit == <<"Unit">>

JString == <<"string">>
JInteger(status) == <<"integer", status>>
JBool(b) == <<"bool", b>>
JObject(fields) == <<"object", fields>>
JList(items) == <<"list", items>>

Nothing == [is |-> "nothing"]
Value(v) == [is |-> "value", value |-> v]
Raised(error) == [is |-> "raised", error |-> error]
Failed(kind, at) == [is |-> "failed", kind |-> kind, at |-> at]

IsValue(result) == result.is = "value"

expect_json(result, x) ==
    IF ~IsValue(result) THEN result
    ELSE CASE result.value[1] = "Json" -> result
           [] result.value[1] = "Bool" -> Value(Json(JBool(result.value[2])))
           [] OTHER -> Failed("ExpectedJson", x)

\* Evaluations in a row: the first that is no value ends them.
InOrder(results) ==
    LET bad == {i \in DOMAIN results : ~IsValue(results[i])}
    IN IF bad = {} THEN Value([i \in DOMAIN results |-> results[i].value])
       ELSE results[First(bad)]

-----------------------------------------------------------------------------
\* Expressions without effects.

\* Two segments, the first a capital name, are an enum variant.  A name is
\* missing by itself, a member as part of its path.
eval_path(names, path) ==
    LET select(result, field) ==
            IF ~IsValue(result) THEN result
            ELSE IF result.value[1] # "Json" \/ result.value[2][1] # "object"
            THEN Failed("ExpectedJson", Path(path))
            ELSE IF field \notin DOMAIN result.value[2][2] THEN Failed("UnknownBinding", Path(path))
            ELSE Value(Json(result.value[2][2][field]))
    IN IF Len(path) = 2 /\ path[1] \in Capitals THEN Value(EnumValue(path[1], path[2], << >>))
       ELSE LET upto[i \in DOMAIN path] ==
                    IF i > 1 THEN select(upto[i - 1], path[i])
                    ELSE IF path[1] \in DOMAIN names THEN Value(names[path[1]])
                    ELSE Failed("UnknownBinding", Path(<<path[1]>>))
            IN upto[Len(path)]

eval_atom(names, x) ==
    IF x.e = "path" THEN eval_path(names, x.path)
    ELSE Value(IF x.type = TBool THEN Bool(x.json[2]) ELSE Json(x.json))

eval_object(names, x) ==
    LET members == [key \in DOMAIN x.fields |-> expect_json(eval_atom(names, x.fields[key]), x)]
        bad == {key \in DOMAIN members : ~IsValue(members[key])}
    IN IF bad = {} THEN {Value(Json(JObject([key \in DOMAIN members |-> members[key].value[2]])))}
       ELSE {members[key] : key \in bad}

-----------------------------------------------------------------------------
\* Builtins, the store, enum constructors: the results they can have.

Host(values) == {Value(Json(json)) : json \in values} \cup {Raised(error) : error \in HostErrors}

positional_json_arg(names, x, i, expected) ==
    IF Len(positional(x.args)) # expected THEN Failed("Arity", x)
    ELSE expect_json(eval_atom(names, positional(x.args)[i].value), x)

\* Only a string, or only an integer, goes on.
Only(kind, result, failure) ==
    IF IsValue(result) /\ result.value[2][1] # kind THEN failure ELSE result

named_i64_arg(names, x, label) ==
    LET of == labelled(x.args, label)
    IN IF of = {} THEN Failed("MissingArgument", x)
       ELSE Only("integer", expect_json(eval_atom(names, x.args[First(of)].value), x),
                 Failed("ExpectedInteger", x))

\* After arguments that are values, the results; else the failure.
After(results, then) == IF IsValue(InOrder(results)) THEN then ELSE {InOrder(results)}

eval_builtin(names, x) ==
    LET first(n) == positional_json_arg(names, x, 1, n)
        status == Only("integer", first(2), Failed("ExpectedInteger", x))
        valid == {Value(Bool(b)) : b \in BOOLEAN}
    IN CASE x.callee \in {HttpResponseOk, HttpResponseCreated} ->
              After(<<first(1)>>, {Value(HttpResponse)})
         [] x.callee = HttpResponseError ->
              After(<<status>>,
                    IF ~status.value[2][2] THEN {Failed("ExpectedInteger", x)}
                    ELSE After(<<positional_json_arg(names, x, 2, 2)>>, {Value(HttpResponse)}))
         [] x.callee \in RequestReads ->
              IF x.args # << >> THEN {Failed("Arity", x)} ELSE Host(Decoded[x.type_args[1]])
         [] x.callee = ValidateEmail -> After(<<first(1)>>, valid)
         [] x.callee = ValidateLength ->
              After(<<first(1), named_i64_arg(names, x, "min"), named_i64_arg(names, x, "max")>>, valid)
         [] x.callee = ContextParam ->
              After(<<Only("string", first(1), Failed("ExpectedString", x))>>,
                    Host(Decoded[x.type_args[1]]))

eval_db_call(names, x) ==
    LET found == IF x.callee[3] \notin DOMAIN Stored THEN {Failed("UnsupportedExpression", x)}
                 ELSE IF x.callee[4] = "all"
                      THEN {Value(Json(JList(items))) :
                               items \in {<< >>} \cup {<<row>> : row \in Stored[x.callee[3]]}}
                      ELSE Host(Stored[x.callee[3]])
    IN IF x.callee[4] = "all"
       THEN IF x.args # << >> THEN {Failed("Arity", x)} ELSE found
       ELSE After(<<positional_json_arg(names, x, 1, 1)>>, found)

\* Any two segments that are called make an enum value.
eval_enum_constructor(names, x) ==
    LET payload == InOrder([i \in DOMAIN x.args |-> eval_atom(names, x.args[i].value)])
    IN IF HasLabel(x.args) THEN Failed("UnsupportedExpression", x)
       ELSE IF IsValue(payload) THEN Value(EnumValue(x.callee[1], x.callee[2], payload.value))
       ELSE payload

IsUserCall(x) ==
    /\ x.e = "call" /\ x.callee \notin Builtins
    /\ ~db_call_by_callee(x.callee) /\ Len(x.callee) # 2

\* What an expression that calls no function can evaluate to.
eval_expr(names, x) ==
    CASE x.e = "object" -> eval_object(names, x)
      [] x.e = "call" ->
           IF x.callee \in Builtins THEN eval_builtin(names, x)
           ELSE IF db_call_by_callee(x.callee) THEN eval_db_call(names, x)
           ELSE {eval_enum_constructor(names, x)}
      [] OTHER -> {eval_atom(names, x)}

-----------------------------------------------------------------------------
\* Frames.

Frame(fn, todo) == [fn |-> fn, todo |-> todo, got |-> {}, previous_env |-> env]

Top == stack[Len(stack)]
Running == stack # << >>

\* Mutant: an error leaves the names of the function it was met in.
EndInPlace(result) == stack' = << >> /\ env' = env /\ outcome' = result

\* The entered function ends, whatever was on the stack.
End(result) == stack' = << >> /\ env' = << >> /\ outcome' = result

\* A body that is not of statements is kept unread by the parser.
interpret_function_with_args(fn, args) ==
    LET params == Functions[fn].params
        bound == DOMAIN params \cap DOMAIN args
        index(n) == CHOOSE i \in bound : params[i].name = n
    IN IF Len(args) # Len(params) /\ args # << >> THEN End(Failed("Arity", Path(<<fn>>)))
       ELSE IF bodies[fn] = << >> THEN End(Failed("UnsupportedBody", Path(<<fn>>)))
       ELSE /\ stack' = Append(stack, Frame(fn, bodies[fn]))
            /\ env' = [n \in {params[i].name : i \in bound} |-> args[index(n)]]
            /\ UNCHANGED outcome

-----------------------------------------------------------------------------
\* What a statement does with the value of its expression.

\* The head of `todo` is done, but for `items`.
Advance(names, items) ==
    /\ stack' = [stack EXCEPT ![Len(stack)].todo = items \o Tail(Top.todo),
                              ![Len(stack)].got = {}]
    /\ env' = names
    /\ UNCHANGED outcome

\* The names of the caller come back.
exec_return(v) ==
    IF Len(stack) = 1 THEN End(Value(v))
    ELSE /\ stack' = [Front(stack) EXCEPT ![Len(stack) - 1].got = {v}]
         /\ env' = Top.previous_env
         /\ UNCHANGED outcome

exec_ensure(st, v) ==
    IF v \in {Bool(TRUE), Json(JBool(TRUE))} THEN Advance(env, << >>)
    ELSE IF v \in {Bool(FALSE), Json(JBool(FALSE))}
    THEN Advance(env, <<[s |-> "raise", value |-> st.error]>>)
    ELSE End(Failed("ExpectedBool", st.value))

\* The names once the first n bindings of an arm are made, one after another.
BoundUpTo(bindings, payload, n) ==
    LET of(name) == {i \in 1..n : bindings[i] = name}
    IN [name \in DOMAIN env \cup {bindings[i] : i \in 1..n} |->
           IF of(name) = {} THEN env[name] ELSE payload[Max(of(name))]]

\* The names in an arm, and what each binding hid.
bind_match_payload(bindings, payload) ==
    LET n == Min({Len(bindings), Len(payload)})
        before(i) == BoundUpTo(bindings, payload, i - 1)
    IN [names |-> BoundUpTo(bindings, payload, n),
        previous |-> [i \in 1..n |->
            [name |-> bindings[i],
             was |-> {before(i)[name] : name \in DOMAIN before(i) \cap {bindings[i]}}]]]

\* Arms are chosen by the name of the variant alone.
exec_match(st, v) ==
    LET fit == {k \in DOMAIN st.arms : st.arms[k].variant = v[3]}
        arm == st.arms[First(fit)]
        bound == bind_match_payload(arm.bindings, v[4])
    IN IF v[1] # "Enum" THEN End(Failed("ExpectedEnum", st.value))
       ELSE IF fit = {} THEN End(Failed("UnmatchedPattern", st.value))
       ELSE Advance(bound.names, <<arm.body, [s |-> "restore", previous |-> bound.previous]>>)

Complete(st, v) ==
    CASE st.s = "let" -> Advance(Bind(env, st.name, v), << >>)
      [] st.s = "expr" -> Advance(env, << >>)
      [] st.s = "return" -> exec_return(v)
      [] st.s = "ensure" -> exec_ensure(st, v)
      [] st.s = "raise" -> End(IF v[1] = "Enum" THEN Raised(v) ELSE Failed("ExpectedEnum", st.value))
      [] st.s = "match" -> exec_match(st, v)

\* Mutant: what an arm bound stays.
restore_nothing(previous) == env

\* One after another, so the last that was kept of a name counts.
restore_bindings(previous) ==
    LET of(name) == {i \in DOMAIN previous : previous[i].name = name}
        was(name) == previous[Max(of(name))].was
        names == DOMAIN env \cup {previous[i].name : i \in DOMAIN previous}
    IN [name \in {n \in names : of(n) # {} => was(n) # {}} |->
           IF of(name) = {} THEN env[name] ELSE CHOOSE v \in was(name) : TRUE]

-----------------------------------------------------------------------------
\* Steps.

AtStatement == Running /\ Top.todo # << >> /\ Head(Top.todo).s # "restore" /\ Top.got = {}

\* The runtime enters a function for a request, once.
Enter(entries) ==
    /\ outcome = Nothing /\ ~Running
    /\ \E entry \in entries : interpret_function_with_args(entry.fn, entry.args)
    /\ UNCHANGED bodies

\* A statement whose expression calls no function.
exec_stmt ==
    /\ AtStatement
    /\ ~IsUserCall(Untried(Head(Top.todo).value))
    /\ \E result \in eval_expr(env, Untried(Head(Top.todo).value)) :
          IF IsValue(result) THEN Complete(Head(Top.todo), result.value) ELSE End(result)
    /\ UNCHANGED bodies

\* A statement whose expression calls a function: the call is checked, its
\* arguments are evaluated, the body is entered.
eval_user_function_call ==
    /\ AtStatement
    /\ LET x == Untried(Head(Top.todo).value)
           args == InOrder([i \in DOMAIN positional(x.args) |->
                               eval_atom(env, positional(x.args)[i].value)])
       IN /\ IsUserCall(x)
          /\ IF Len(x.callee) # 1 \/ x.callee[1] \notin DOMAIN Functions
             THEN End(Failed("UnsupportedExpression", x))
             ELSE IF Len(positional(x.args)) # Len(Functions[x.callee[1]].params)
             THEN End(Failed("Arity", x))
             ELSE IF HasLabel(x.args) THEN End(Failed("UnsupportedExpression", x))
             ELSE IF ~IsValue(args) THEN End(args)
             ELSE /\ Len(stack) < MaxDepth
                  /\ interpret_function_with_args(x.callee[1], args.value)
    /\ UNCHANGED bodies

\* The caller goes on with what the call returned.
Resume ==
    /\ Running /\ Top.got # {}
    /\ \E v \in Top.got : Complete(Head(Top.todo), v)
    /\ UNCHANGED bodies

\* An arm is done.
LeaveArm ==
    /\ Running /\ Top.todo # << >> /\ Head(Top.todo).s = "restore"
    /\ Advance(restore_bindings(Head(Top.todo).previous), << >>)
    /\ UNCHANGED bodies

\* The statements are done and none returned.
FallOff ==
    /\ Running /\ Top.todo = << >>
    /\ End(Failed("MissingReturn", Path(<<Top.fn>>)))
    /\ UNCHANGED bodies

=============================================================================
