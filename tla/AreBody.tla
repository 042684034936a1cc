------------------------------- MODULE AreBody -------------------------------
(***************************************************************************)
(* The function body checker (crates/are-typecheck/src/body.rs): the type  *)
(* of every expression and the diagnostics of every statement, one         *)
(* function at a time, statement by statement.                             *)
(*                                                                         *)
(* A check gives [type, errors]: the type and the codes of the diagnostics *)
(* it pushed.  A statement's check gives [env, errors]: the types of the   *)
(* names after it.                                                         *)
(***************************************************************************)
EXTENDS AreSyntax

Typed(type, errors) == [type |-> type, errors |-> errors]
Fine(type) == Typed(type, {})

\* Types are the same when they are equal up to Unknown.  The elements of a
\* list are known wherever a list is.
Agree(left, right) == left = right \/ left = TUnknown \/ right = TUnknown
same_body_type(left, right) ==
    \/ Agree(left, right)
    \/ /\ left[1] = right[1] /\ left[1] \in {"List", "Result"}
       /\ \A i \in 2..Len(left) : Agree(left[i], right[i])

expect_exact_type(actual, expected) ==
    IF same_body_type(actual, expected) THEN {} ELSE {"E_BODY_0006"}

\* Aliases are seen through only where a string is expected.
expect_string_like(actual) ==
    IF actual \in {TString, TUnknown} \cup {TNamed(name) : name \in StringAliases} THEN {}
    ELSE {"E_BODY_0006"}

\* What was checked, and what is expected of it.
Expecting(typed, expected) == typed.errors \cup expect_exact_type(typed.type, expected)
ExpectingString(typed) == typed.errors \cup expect_string_like(typed.type)

-----------------------------------------------------------------------------
\* Paths.

field_type(owner, field) ==
    IF owner.type[1] = "Named" /\ owner.type[2] \in DOMAIN Structs
       /\ field \in DOMAIN Structs[owner.type[2]]
    THEN Typed(Structs[owner.type[2]][field], owner.errors)
    ELSE Typed(TUnknown, owner.errors \cup {"E_BODY_0002"})

IsVariant(path) ==
    Len(path) = 2 /\ path[1] \in DOMAIN Enums /\ path[2] \in DOMAIN Enums[path[1]]

\* A variant without payload comes before a binding and its field.
check_path(env, path) ==
    IF IsVariant(path)
    THEN Typed(TNamed(path[1]), IF Enums[path[1]][path[2]] = << >> THEN {} ELSE {"E_BODY_0018"})
    ELSE LET upto[i \in DOMAIN path] ==
                 IF i > 1 THEN field_type(upto[i - 1], path[i])
                 ELSE IF path[1] \in DOMAIN env THEN Fine(env[path[1]])
                 ELSE Typed(TUnknown, {"E_BODY_0001"})
         IN upto[Len(path)]

check_atom(env, x) == IF x.e = "literal" THEN Fine(x.type) ELSE check_path(env, x.path)

-----------------------------------------------------------------------------
\* Calls.  fn is the function whose body is checked.

returns(fn) == Functions[fn].returns

\* What the host returns is a Result with the error of the function at hand.
result_type(fn, ok) ==
    TResult(ok, IF IsResult(returns(fn)) THEN result_error(returns(fn)) ELSE TUnknown)

check_positional_arg(env, args, i) ==
    IF i \in DOMAIN positional(args) THEN check_atom(env, positional(args)[i].value)
    ELSE Fine(TUnknown)

expect_positional_arity(args, n) == IF Len(positional(args)) = n THEN {} ELSE {"E_BODY_0004"}
no_type_args(x) == IF x.type_args = << >> THEN {} ELSE {"E_BODY_0014"}
no_labels(args) == IF HasLabel(args) THEN {"E_BODY_0015"} ELSE {}

single_type_arg(x) == IF Len(x.type_args) = 1 THEN Fine(x.type_args[1])
                      ELSE Typed(TUnknown, {"E_BODY_0007"})

\* The first argument of that label is the one that is checked.
expect_named_integer(env, args, label) ==
    LET of == labelled(args, label)
    IN IF of = {} THEN {"E_BODY_0008"}
       ELSE Expecting(check_atom(env, args[First(of)].value), TInteger)

check_builtin_call(fn, env, x) ==
    LET arg(i) == check_positional_arg(env, x.args, i)
        arity(n) == expect_positional_arity(x.args, n)
        type == single_type_arg(x)
    IN CASE x.callee \in {HttpResponseOk, HttpResponseCreated} ->
              Typed(TResponse, no_type_args(x) \cup arity(1) \cup arg(1).errors)
         [] x.callee = HttpResponseError ->
              Typed(TResponse, no_type_args(x) \cup arity(2)
                               \cup Expecting(arg(1), TInteger) \cup arg(2).errors)
         [] x.callee \in RequestReads ->
              Typed(result_type(fn, type.type), type.errors \cup arity(0))
         [] x.callee = ValidateEmail ->
              Typed(TBool, no_type_args(x) \cup arity(1) \cup ExpectingString(arg(1)))
         [] x.callee = ValidateLength ->
              Typed(TBool, no_type_args(x) \cup arity(1) \cup ExpectingString(arg(1))
                           \cup expect_named_integer(env, x.args, "min")
                           \cup expect_named_integer(env, x.args, "max"))
         [] x.callee = ContextParam ->
              Typed(result_type(fn, type.type),
                    type.errors \cup arity(1) \cup Expecting(arg(1), TString))

\* The argument of an insert or a get may have any type: the store decides.
check_db_call(fn, env, x) ==
    LET model == TNamed(Models[x.callee[3]])
        n == IF x.callee[4] = "all" THEN 0 ELSE 1
        first == check_positional_arg(env, x.args, 1)
    IN IF x.callee[3] \notin DOMAIN Models
       THEN Typed(TUnknown, no_type_args(x) \cup {"E_BODY_0019"})
       ELSE Typed(result_type(fn, IF n = 0 THEN TList(model) ELSE model),
                  no_type_args(x) \cup no_labels(x.args) \cup expect_positional_arity(x.args, n)
                  \cup IF n = 0 THEN {} ELSE first.errors)

\* Arguments are held against as many declared types as there are.
check_args(env, args, expected) ==
    UNION {Expecting(check_atom(env, positional(args)[i].value), expected[i]) :
             i \in DOMAIN positional(args) \cap DOMAIN expected}

check_enum_constructor(env, x) ==
    LET payload == Enums[x.callee[1]][x.callee[2]]
    IN Typed(TNamed(x.callee[1]),
             IF ~IsVariant(x.callee) THEN {"E_BODY_0012"}
             ELSE no_type_args(x) \cup no_labels(x.args)
                  \cup expect_positional_arity(x.args, Len(payload))
                  \cup check_args(env, x.args, payload))

check_user_function_call(env, x) ==
    LET function == Functions[x.callee[1]]
        types == [i \in DOMAIN function.params |-> function.params[i].type]
    IN Typed(IF function.returns = NoReturnType THEN TUnit ELSE function.returns,
             no_type_args(x) \cup no_labels(x.args)
             \cup expect_positional_arity(x.args, Len(types))
             \cup check_args(env, x.args, types))

check_call(fn, env, x) ==
    IF x.callee \in Builtins THEN check_builtin_call(fn, env, x)
    ELSE IF db_call_by_callee(x.callee) THEN check_db_call(fn, env, x)
    ELSE IF Len(x.callee) = 2 /\ x.callee[1] \in DOMAIN Enums THEN check_enum_constructor(env, x)
    ELSE IF Len(x.callee) = 1 /\ x.callee[1] \in DOMAIN Functions
    THEN check_user_function_call(env, x)
    ELSE Typed(TUnknown, {"E_BODY_0003"})

-----------------------------------------------------------------------------
\* Expressions and statements.

check_plain(fn, env, x) ==
    CASE x.e = "object" ->
           Typed(TObject, UNION {check_atom(env, x.fields[key]).errors : key \in DOMAIN x.fields})
      [] x.e = "call" -> check_call(fn, env, x)
      [] OTHER -> check_atom(env, x)

\* Mutant: any error goes on with `?`.
try_any_error(fn, value) ==
    IF ~IsResult(value.type) THEN Typed(TUnknown, value.errors \cup {"E_BODY_0005"})
    ELSE Typed(result_ok(value.type),
               value.errors \cup IF IsResult(returns(fn)) THEN {} ELSE {"E_BODY_0005"})

\* `?` unwraps a Result, in a function that returns one with the same error.
check_try(fn, value) ==
    IF ~IsResult(value.type) THEN Typed(TUnknown, value.errors \cup {"E_BODY_0005"})
    ELSE Typed(result_ok(value.type),
               value.errors \cup
               IF ~IsResult(returns(fn)) THEN {"E_BODY_0005"}
               ELSE expect_exact_type(result_error(value.type), result_error(returns(fn))))

Tried(fn, x, value) == IF x.e = "try" THEN check_try(fn, value) ELSE value
check_expr(fn, env, x) == Tried(fn, x, check_plain(fn, env, Untried(x)))

\* An object literal passes for any struct or model.  (No list is made of
\* object literals, so lists are the same or not.)
named_payload_accepts_object(expected, actual) ==
    expected[1] = "Named" /\ expected[2] \in DOMAIN Structs /\ actual = TObject

\* Mutant: an error is returned as it is.
return_accepts_errors(expected, actual) ==
    \/ same_body_type(expected, actual)
    \/ named_payload_accepts_object(expected, actual)
    \/ IsResult(expected) /\ (\/ same_body_type(result_ok(expected), actual)
                              \/ same_body_type(result_error(expected), actual)
                              \/ named_payload_accepts_object(result_ok(expected), actual))

return_accepts(expected, actual) ==
    \/ same_body_type(expected, actual)
    \/ named_payload_accepts_object(expected, actual)
    \/ IsResult(expected) /\ (\/ same_body_type(result_ok(expected), actual)
                              \/ named_payload_accepts_object(result_ok(expected), actual))

check_return_type(fn, type) ==
    IF returns(fn) # NoReturnType /\ return_accepts(returns(fn), type) THEN {}
    ELSE {"E_BODY_0009"}

check_ensure_statement(fn, condition, error) ==
    Expecting(condition, TBool) \cup error.errors
    \cup IF IsResult(returns(fn))
         THEN expect_exact_type(error.type, result_error(returns(fn)))
         ELSE {"E_BODY_0017"}

Checked(env, errors) == [env |-> env, errors |-> errors]

\* Any statement but a match, whose expression has been checked.
AfterValue(fn, env, st, value) ==
    CASE st.s = "let" -> Checked(Bind(env, st.name, value.type), value.errors)
      [] st.s = "expr" -> Checked(env, value.errors)
      [] st.s = "return" -> Checked(env, value.errors \cup check_return_type(fn, value.type))
      [] st.s = "ensure" ->
           Checked(env, check_ensure_statement(fn, value, check_expr(fn, env, st.error)))
check_simple(fn, env, st) == AfterValue(fn, env, st, check_expr(fn, env, st.value))

\* The bindings of an arm are the types of the payload, without repetitions.
bind_pattern_payload(env, bindings, payload) ==
    LET bound == DOMAIN bindings \cap DOMAIN payload
        first == {i \in bound : \A j \in 1..(i - 1) : bindings[j] # bindings[i]}
        index(n) == CHOOSE i \in first : bindings[i] = n
        names == {bindings[i] : i \in first}
    IN [env |-> [n \in DOMAIN env \cup names |->
                    IF n \in names THEN payload[index(n)] ELSE env[n]],
        names |-> names,
        errors |-> IF first = bound THEN {} ELSE {"E_BODY_0016"}]

restore_types(env, names, before) ==
    [n \in (DOMAIN env \ names) \cup (names \cap DOMAIN before) |->
        IF n \in names THEN before[n] ELSE env[n]]

IsEnum(type) == type[1] = "Named" /\ type[2] \in DOMAIN Enums

\* An arm of a known variant binds its payload, any other arm nothing.
bind_arm(type, env, arm) ==
    LET variants == Enums[type[2]]
        bound == bind_pattern_payload(env, arm.bindings, variants[arm.variant])
        nothing(errors) == [env |-> env, names |-> {}, errors |-> errors]
    IN IF ~IsEnum(type) THEN nothing({})
       ELSE IF arm.variant \notin DOMAIN variants THEN nothing({"E_BODY_0012"})
       ELSE [bound EXCEPT !.errors =
                @ \cup IF Len(arm.bindings) = Len(variants[arm.variant]) THEN {}
                       ELSE {"E_BODY_0013"}]

\* One arm after another, each in the environment the last one left.
LeaveChecked(checked, bound, body) ==
    Checked(restore_types(body.env, bound.names, checked.env),
            checked.errors \cup bound.errors \cup body.errors)
check_arm_body(fn, checked, bound, arm) ==
    LeaveChecked(checked, bound, check_simple(fn, bound.env, arm.body))
check_match_arm(fn, type, checked, arm) ==
    check_arm_body(fn, checked, bind_arm(type, checked.env, arm), arm)

\* Mutant: a variant may be left out.
MayCover(variants, arms, checked) == checked

MustCover(variants, arms, checked) ==
    [checked EXCEPT !.errors =
        @ \cup IF DOMAIN variants \subseteq {arms[i].variant : i \in DOMAIN arms} THEN {}
               ELSE {"E_BODY_0011"}]

\* The arms of what is no enum are checked as they are.
check_arms(fn, arms, type, checked) ==
    LET start == IF IsEnum(type) THEN checked
                 ELSE Checked(checked.env, checked.errors \cup {"E_BODY_0010"})
        after[i \in 0..Len(arms)] ==
            IF i = 0 THEN start ELSE check_match_arm(fn, type, after[i - 1], arms[i])
    IN IF IsEnum(type) THEN MustCover(Enums[type[2]], arms, after[Len(arms)])
       ELSE after[Len(arms)]

MatchOn(fn, env, arms, matched) == check_arms(fn, arms, matched.type, Checked(env, matched.errors))
check_match_statement(fn, env, st) == MatchOn(fn, env, st.arms, check_expr(fn, env, st.value))

check_statement(fn, env, st) ==
    IF st.s = "match" THEN check_match_statement(fn, env, st) ELSE check_simple(fn, env, st)

\* The names a body starts with.
ParamTypes(fn) ==
    LET params == Functions[fn].params
    IN [n \in {params[i].name : i \in DOMAIN params} |->
           params[CHOOSE i \in DOMAIN params : params[i].name = n].type]

=============================================================================
