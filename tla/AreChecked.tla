------------------------------ MODULE AreChecked ------------------------------
(***************************************************************************)
(* Programs that the checker reads and the interpreter runs: AreBody over  *)
(* AreInterp.  A module is written function by function, each statement is *)
(* checked as check_statements reaches it, and a module without diagnostics*)
(* is run (crates/are-http-runtime/src/lib.rs refuses any other).          *)
(*                                                                         *)
(* A module that has a diagnostic is not written on: further statements    *)
(* only add to its diagnostics.                                            *)
(***************************************************************************)
EXTENDS AreBody, AreInterp

CONSTANTS
    Orders,         \* modules: their functions, in the order of the source
    Statements,     \* [function -> statements its body may have]
    MaxStatements,  \* bound: [function -> statements of its body]
    JsonOf,         \* [name of a struct, model, alias or number -> its JSON values]
    Optionals       \* names of the types `Option<T>`: such a member may be absent

VARIABLES
    order,          \* the module that is written, one of Orders
    at,             \* the function being checked: an index of order
    typed,          \* [function -> the types of names before each statement]
    diagnostics     \* codes of the diagnostics so far

checkVars == <<order, at, typed, diagnostics>>
allVars == <<vars, checkVars>>

Init ==
    /\ bodies = [fn \in DOMAIN Functions |-> << >>]
    /\ env = << >> /\ stack = << >> /\ outcome = Nothing
    /\ order \in Orders /\ at = 1
    /\ typed = [fn \in DOMAIN Functions |-> <<ParamTypes(fn)>>]
    /\ diagnostics = {}

\* The next statement of the function at hand.
check_function_body ==
    /\ at <= Len(order) /\ diagnostics = {}
    /\ LET fn == order[at] IN
       /\ Len(bodies[fn]) < MaxStatements[fn]
       /\ \E st \in Statements[fn] :
          \E checked \in {check_statement(fn, Last(typed[fn]), st)} :
             /\ bodies' = [bodies EXCEPT ![fn] = Append(@, st)]
             /\ typed' = [typed EXCEPT ![fn] = Append(@, checked.env)]
             /\ diagnostics' = checked.errors
    /\ UNCHANGED <<env, stack, outcome, order, at>>

check_next_item ==
    /\ at <= Len(order)
    /\ at' = at + 1
    /\ UNCHANGED <<vars, order, typed, diagnostics>>

Accepted == at > Len(order) /\ diagnostics = {}
EntriesHere == {entry \in Entries : \E i \in DOMAIN order : order[i] = entry.fn}

run_checked(Step) == Accepted /\ Step /\ UNCHANGED checkVars

Next == \/ check_function_body \/ check_next_item
        \/ run_checked(Enter(EntriesHere)) \/ run_checked(exec_stmt)
        \/ run_checked(eval_user_function_call) \/ run_checked(Resume)
        \/ run_checked(LeaveArm) \/ run_checked(FallOff)

Spec == Init /\ [][Next]_allVars

-----------------------------------------------------------------------------
(***************************************************************************)
(* What a value is when the checker has a type for it.  Payloads of enums  *)
(* are no enums here, and lists hold no lists.                             *)
(***************************************************************************)

JsonHolds(json, type) ==
    CASE type = TString -> json = JString
      [] type = TBool -> json \in {JBool(b) : b \in BOOLEAN}
      [] type = TInteger -> json \in {JInteger(b) : b \in BOOLEAN}
      [] OTHER -> type[1] = "Named" /\ type[2] \in DOMAIN JsonOf /\ json \in JsonOf[type[2]]

IsJson(v) == v[1] = "Json" /\ v = Json(v[2])

DataHolds(v, type) ==
    CASE type = TUnknown -> TRUE
      [] type \in {TUnit, TContext, TRequest} -> v = Unit
      [] type = TResponse -> v = HttpResponse
      [] type = TObject -> IsJson(v) /\ v[2][1] = "object"
      [] type[1] = "List" -> /\ IsJson(v) /\ v[2][1] = "list" /\ v[2] = JList(v[2][2])
                             /\ \A i \in DOMAIN v[2][2] : JsonHolds(v[2][2][i], type[2])
      [] OTHER -> \/ IsJson(v) /\ JsonHolds(v[2], type)
                  \/ type = TBool /\ v \in {Bool(b) : b \in BOOLEAN}

EnumHolds(v, name) ==
    /\ v[1] = "Enum" /\ v = EnumValue(name, v[3], v[4]) /\ v[3] \in DOMAIN Enums[name]
    /\ Len(v[4]) = Len(Enums[name][v[3]])
    /\ \A i \in DOMAIN Enums[name][v[3]] : DataHolds(v[4][i], Enums[name][v[3]][i])

PlainHolds(v, type) == IF IsEnum(type) THEN EnumHolds(v, type[2]) ELSE DataHolds(v, type)

\* Where the checker has a Result, the interpreter has the value: an error
\* has left the function.
Holds(v, type) == PlainHolds(v, IF IsResult(type) THEN result_ok(type) ELSE type)

-----------------------------------------------------------------------------
(***************************************************************************)
(* The programs that are written, and the host that runs them.             *)
(***************************************************************************)

IsLiteral(x) ==
    \/ x = Literal(TString, JString)
    \/ \E b \in BOOLEAN : x \in {Literal(TInteger, JInteger(b)), Literal(TBool, JBool(b))}
IsPath(x) == x.e = "path" /\ IsSequence(x.path) /\ x.path # << >>
IsAtom(x) == IsLiteral(x) \/ IsPath(x)
IsCall(x) == /\ x.e = "call" /\ IsSequence(x.callee) /\ x.callee # << >> /\ IsSequence(x.args)
             /\ \A i \in DOMAIN x.args : IsAtom(x.args[i].value)
             /\ IsSequence(x.type_args) /\ Range(x.type_args) \subseteq DOMAIN Decoded
IsObject(x) == x.e = "object" /\ \A key \in DOMAIN x.fields : IsAtom(x.fields[key])
IsExpr(x) == IsAtom(Untried(x)) \/ IsObject(Untried(x)) \/ IsCall(Untried(x))

IsSimple(st) == /\ st.s \in {"let", "expr", "return", "ensure"} /\ IsExpr(st.value)
                /\ st.s = "ensure" => IsExpr(st.error)
IsMatch(st) == /\ st.s = "match" /\ IsExpr(st.value) /\ IsSequence(st.arms)
               /\ \A k \in DOMAIN st.arms : IsSequence(st.arms[k].bindings) /\ IsSimple(st.arms[k].body)

\* Types that a declaration can give.
PlainType(type) ==
    \/ type \in {TUnit, TBool, TString, TInteger, TContext, TRequest, TResponse}
    \/ \E name \in DOMAIN Enums \cup DOMAIN JsonOf : type = TNamed(name)
    \/ \E name \in DOMAIN JsonOf : type = TList(TNamed(name))
    \/ type = TList(TString)
DataType(type) == PlainType(type) /\ ~IsEnum(type)
DeclaredType(type) ==
    \/ PlainType(type)
    \/ /\ IsResult(type) /\ type = TResult(type[2], type[3])
       /\ PlainType(type[2]) /\ PlainType(type[3])

MayLack(type) == type[1] = "Named" /\ type[2] \in Optionals

ASSUME CheckedAssumption ==
    /\ MaxDepth \in Nat
    /\ DOMAIN Statements = DOMAIN Functions /\ DOMAIN MaxStatements = DOMAIN Functions
    /\ Orders \subseteq Seq(DOMAIN Functions)
    /\ \A fn \in DOMAIN Functions : \A st \in Statements[fn] : IsSimple(st) \/ IsMatch(st)

ASSUME DeclarationAssumption ==
    /\ \A fn \in DOMAIN Functions :
          /\ IsSequence(Functions[fn].params)
          /\ \A i \in DOMAIN Functions[fn].params : DeclaredType(Functions[fn].params[i].type)
          /\ returns(fn) = NoReturnType \/ DeclaredType(returns(fn))
    /\ \A name \in DOMAIN Structs : \A field \in DOMAIN Structs[name] : DataType(Structs[name][field])
    /\ \A name \in DOMAIN Enums : \A variant \in DOMAIN Enums[name] :
          /\ IsSequence(Enums[name][variant])
          /\ \A i \in DOMAIN Enums[name][variant] : DataType(Enums[name][variant][i])
    /\ Range(Models) \subseteq DOMAIN Structs /\ DOMAIN Structs \subseteq DOMAIN JsonOf
    /\ DOMAIN JsonOf \cap DOMAIN Enums = {} /\ Optionals \cap DOMAIN Structs = {}

\* The host decodes what it was asked for and keeps rows of their model; a
\* handler is entered with what the route declares.  (Objects have no members
\* but the declared ones here; schemas.rs lets others pass, and no accepted
\* body names one.)
ASSUME HostAssumption ==
    /\ \A name \in DOMAIN Structs : \A json \in JsonOf[name] :
          /\ json[1] = "object" /\ json = JObject(json[2]) /\ DOMAIN json[2] \subseteq DOMAIN Structs[name]
          /\ \A field \in DOMAIN Structs[name] :
                IF field \in DOMAIN json[2]
                THEN DataHolds(Json(json[2][field]), Structs[name][field])
                ELSE MayLack(Structs[name][field])
    /\ \A type \in DOMAIN Decoded :
          PlainType(type) /\ \A json \in Decoded[type] : PlainHolds(Json(json), type)
    /\ DOMAIN Stored = DOMAIN Models
    /\ \A collection \in DOMAIN Models : Stored[collection] \subseteq JsonOf[Models[collection]]
    /\ \A entry \in {entry \in Entries : entry.fn \in DOMAIN Functions} :
          /\ IsSequence(entry.args) /\ Len(entry.args) = Len(Functions[entry.fn].params)
          /\ \A i \in DOMAIN Functions[entry.fn].params :
                Holds(entry.args[i], Functions[entry.fn].params[i].type)

-----------------------------------------------------------------------------
(***************************************************************************)
(* Parts of the language where an accepted body can still go wrong.        *)
(***************************************************************************)

\* The statements of a body, those of its arms with it: the i-th, or in it.
StatementsAt(fn, i) ==
    LET st == bodies[fn][i]
    IN {st} \cup IF st.s = "match" THEN {st.arms[k].body : k \in DOMAIN st.arms} ELSE {}
StatementsOf(fn) == UNION {StatementsAt(fn, i) : i \in DOMAIN bodies[fn]}

\* An arm binds a name that the other arms do not.
BindsInArm ==
    \E fn \in DOMAIN Functions : \E i \in DOMAIN bodies[fn] :
        bodies[fn][i].s = "match" /\ \E st \in StatementsAt(fn, i) : st.s = "let"

\* A function returns what is an object to the checker for a struct, whatever
\* its members.
ReturnsObject ==
    \E fn \in DOMAIN Functions : \E i \in DOMAIN bodies[fn] : \E st \in StatementsAt(fn, i) :
        st.s = "return" /\ check_expr(fn, typed[fn][i], st.value).type = TObject

\* The interpreter tells the variant of an enum from the field of a binding by
\* its capital letter, the checker by its declaration.
Misread ==
    \/ ~(DOMAIN Enums \subseteq Capitals)
    \/ \E fn \in DOMAIN Functions :
          \/ \E i \in DOMAIN typed[fn] : DOMAIN typed[fn][i] \cap Capitals # {}
          \/ \E i \in DOMAIN bodies[fn] :
                /\ bodies[fn][i].s = "match"
                /\ \E k \in DOMAIN bodies[fn][i].arms :
                      Range(bodies[fn][i].arms[k].bindings) \cap Capitals # {}

Ordinary == ~BindsInArm /\ ~ReturnsObject /\ ~Misread

\* An application error is left to propagate without `?`.
CallsOf(st) == {x \in {st.value} \cup IF st.s = "ensure" THEN {st.error} ELSE {} : x.e = "call"}
Untested == \E fn \in DOMAIN Functions : \E st \in StatementsOf(fn) : \E x \in CallsOf(st) :
               IsUserCall(x) /\ IsResult(returns(x.callee[1]))

-----------------------------------------------------------------------------
(***************************************************************************)
(* Properties.                                                             *)
(***************************************************************************)

\* The checker's types go along with the statements; nothing runs that has a
\* diagnostic, and nothing is left on the stack when the entered function ends.
TypeOK ==
    /\ \A fn \in DOMAIN Functions : Len(typed[fn]) = Len(bodies[fn]) + 1
    /\ stack # << >> => Accepted /\ outcome = Nothing
    /\ stack = << >> => env = << >>
    /\ \A i \in DOMAIN stack : /\ stack[i].fn \in DOMAIN Functions
                               /\ stack[i].got # {} => i = Len(stack) /\ stack[i].todo # << >>

\* A frame is before its statement number Position(frame), or within one.
Position(frame) == Len(bodies[frame.fn]) - Len(frame.todo) + 1
Between(frame) ==
    /\ Position(frame) >= 1
    /\ frame.todo = SubSeq(bodies[frame.fn], Position(frame), Len(bodies[frame.fn]))

NamesOf(i) == IF i = Len(stack) THEN env ELSE stack[i + 1].previous_env

\* What the checker believes is so: before every statement of every function
\* on the stack, each name the checker knows is bound, to a value of the type
\* the checker gave it.  (body.rs keeps one environment through all arms and
\* calls, lib.rs one per call, restored on the way back.)
NamesHoldTheirTypes ==
    stack # << >> /\ Ordinary =>
        \A i \in DOMAIN stack :
            Between(stack[i]) =>
                LET types == typed[stack[i].fn][Position(stack[i])]
                IN \A name \in DOMAIN types :
                      name \in DOMAIN NamesOf(i) /\ Holds(NamesOf(i)[name], types[name])

\* It runs past its end, it has no statements, it hands on as JSON what is
\* none, it labels an argument of a read of the request, it makes a response of
\* a number that is no status, it reads a member that may be absent, it raises
\* what its function declares as an error and is no enum.
KnownFailure(result) ==
    /\ result.is = "failed"
    /\ \/ result.kind \in {"MissingReturn", "UnsupportedBody", "ExpectedJson"}
       \/ result.kind = "Arity" /\ result.at.callee \in RequestReads
       \/ result.kind = "ExpectedInteger" /\ result.at.callee = HttpResponseError
       \/ /\ result.kind = "UnknownBinding" /\ Len(result.at.path) > 1
          /\ \E name \in DOMAIN Structs : \E field \in DOMAIN Structs[name] :
                field = Last(result.at.path) /\ MayLack(Structs[name][field])
       \/ /\ result.kind = "ExpectedEnum"
          /\ \E fn \in DOMAIN Functions : /\ IsResult(returns(fn))
                                          /\ ~IsEnum(result_error(returns(fn)))

\* A body the checker accepted fails in seven known ways and no other.
AcceptedBodiesFailInKnownWays == outcome.is = "failed" /\ Ordinary => KnownFailure(outcome)

\* An accepted function raises errors of the enum it declares, when `?` is on
\* every call that can raise: the error of a helper, of an `ensure` in an arm,
\* of the host, has left through every function in between.
RaisesWhatItDeclares ==
    outcome.is = "raised" /\ Ordinary /\ ~Untested =>
        \/ outcome.error \in HostErrors
        \/ \E entry \in EntriesHere :
              /\ IsResult(returns(entry.fn))
              /\ EnumHolds(outcome.error, result_error(returns(entry.fn))[2])

\* What an accepted function returns is of the type it declares, over every
\* way of binding, matching and calling that leads to the return.
ReturnsWhatItDeclares ==
    outcome.is = "value" /\ Ordinary =>
        \E entry \in EntriesHere : Holds(outcome.value, returns(entry.fn))

-----------------------------------------------------------------------------
(***************************************************************************)
(* What the project says of bodies, and its programs do not keep.          *)
(***************************************************************************)

\* body.rs:433: "bindings must be declared with `let` or as function
\* parameters before use".
BindingsAreDeclared ==
    ~(outcome.is = "failed" /\ outcome.kind = "UnknownBinding" /\ Len(outcome.at.path) = 1)

\* spec/syntax.md:33: "A missing return type means `Unit` only if the function
\* is private and the compiler can prove it."  A function that is called and
\* reaches its end without a return type gives Unit.
MissingReturnTypeIsUnit ==
    outcome.is = "failed" /\ outcome.kind = "MissingReturn" =>
        Functions[outcome.at.path[1]].returns # NoReturnType

=============================================================================
