---------------------------- MODULE MCAreChecked ----------------------------
(***************************************************************************)
(* Small modules for AreChecked: `main` is what a route enters, `pick` a   *)
(* helper with the same error enum, `ask` one with an error enum of its    *)
(* own, `deny` one that raises a string, `note` one without return type;   *)
(* in another module `home` is entered and `turn` is its helper, which     *)
(* calls itself.                                                           *)
(***************************************************************************)
EXTENDS AreChecked

Param(name, type) == [name |-> name, type |-> type]

Input == TNamed("Input")
User == TNamed("User")
ApiError == TNamed("ApiError")
Mood == TNamed("Mood")

Main == [params |-> <<Param("ctx", TContext), Param("input", Input)>>,
         returns |-> TResult(User, ApiError)]
PickFn == [params |-> <<Param("input", TString)>>, returns |-> TResult(Mood, ApiError)]
AskFn == [params |-> <<Param("keep", TBool)>>, returns |-> TResult(TBool, Mood)]
DenyFn == [params |-> << >>, returns |-> TResult(TBool, TString)]
NoteFn == [params |-> << >>, returns |-> NoReturnType]

MCStructs == [Input |-> [email |-> TString, keep |-> TBool, nick |-> TNamed("Option<Text>")],
              User |-> [id |-> TNamed("I64"), email |-> TString]]
MCModels == [users |-> "User"]
MCEnums == [ApiError |-> [NotFound |-> << >>, Invalid |-> <<TString>>],
            Mood |-> [Up |-> << >>, Down |-> <<TString>>]]
MCCapitals == {"ApiError", "Mood"}

\* One keeps and has a nick, the other neither.
AnInput(b) == JObject(IF b THEN [email |-> JString, keep |-> JBool(TRUE), nick |-> JString]
                      ELSE [email |-> JString, keep |-> JBool(FALSE)])
ARow == JObject([id |-> JInteger(TRUE), email |-> JString])
MCEntries == {[fn |-> fn, args |-> <<Unit, Json(AnInput(b))>>] :
                 fn \in {"main", "home"}, b \in BOOLEAN}
MCJsonOf == [Input |-> {AnInput(b) : b \in BOOLEAN}, User |-> {ARow}, I64 |-> {JInteger(TRUE)}]
            @@ ("Option<Text>" :> {JString})
MCOptionals == {"Option<Text>"}
MCStored == [users |-> {ARow}]
TypesRead == {Input, TString}
MCDecoded == [t \in TypesRead |-> IF t = Input THEN {AnInput(TRUE)} ELSE {JString}]
MCHostErrors == {EnumValue("ApiError", "Invalid", <<Json(JString)>>)}

-----------------------------------------------------------------------------
\* Expressions.

P(segments) == Path(segments)
One(value) == <<Positional(value)>>
Text == Literal(TString, JString)
Ok == Literal(TInteger, JInteger(TRUE))
Huge == Literal(TInteger, JInteger(FALSE))
Yes == Literal(TBool, JBool(TRUE))
No == Literal(TBool, JBool(FALSE))
input == P(<<"input">>)
email == P(<<"input", "email">>)
keep == P(<<"input", "keep">>)
a == P(<<"a">>)
b == P(<<"b">>)
NotFound == P(<<"ApiError", "NotFound">>)
Invalid(x) == Call(<<"ApiError", "Invalid">>, << >>, One(x))
MoodUp == P(<<"Mood", "Up">>)
Get(x) == Call(<<"ctx", "db", "users", "get">>, << >>, One(x))
All == Call(<<"ctx", "db", "users", "all">>, << >>, << >>)
ReadBody(args) == Call(<<"req", "json">>, <<Input>>, args)
Pick(x) == Call(<<"pick">>, << >>, One(x))
Ask(x) == Call(<<"ask">>, << >>, One(x))
Deny == Call(<<"deny">>, << >>, << >>)
Note == Call(<<"note">>, << >>, << >>)
Respond(status) == Call(HttpResponseError, << >>, <<Positional(status), Positional(Text)>>)
IsEmail(x) == Call(ValidateEmail, << >>, One(x))
Short(x) == Call(ValidateLength, << >>,
                 <<Positional(x), Labelled("min", Ok), Labelled("max", Ok)>>)

-----------------------------------------------------------------------------
\* What `main` is written with.  Half of it is refused.

MCBound == {Text, a, Invalid(Text), Object([email |-> email]), Get(email), Try(All),
            Try(ReadBody(<< >>)), Try(ReadBody(<<Labelled("x", Text)>>)), Respond(Huge),
            Pick(email), Try(Pick(email)), Try(Pick(a)), Ask(keep), Try(Ask(keep)),
            Try(a), IsEmail(email), P(<<"a", "email">>), P(<<"input", "nick">>)}
MCReturned == {a, input, b, Try(a), Try(Get(NotFound)), Get(email), Pick(email), Respond(Ok)}
MCChecked == {keep, a, IsEmail(P(<<"a", "email">>)), Short(email)}

\* Arms that hide `input`, that bind nothing, too little, twice, or that
\* leave a variant out.
Up(body) == Arm("Up", << >>, body)
Down(bindings, body) == Arm("Down", bindings, body)
MCMatches ==
    {Match(a, <<Up(up), Down(<<name>>, down)>>) :
        name \in {"input", "b"},
        up \in {Eval(Yes), Return(Get(email))},
        down \in {Eval(Pick(b)), Eval(input), Ensure(keep, Invalid(b))}}
    \cup {Match(a, <<Down(<<"input">>, Eval(Yes))>>),
          Match(a, <<Up(Eval(Yes)), Down(<< >>, Eval(Yes))>>),
          Match(a, <<Up(Eval(Yes)), Up(Eval(a)), Down(<<"b">>, Eval(Text))>>)}

MCMain == {Let("a", x) : x \in MCBound} \cup {Return(x) : x \in MCReturned}
          \cup {Ensure(c, e) : c \in MCChecked, e \in {NotFound, a}} \cup MCMatches

ReturnUp == Return(MoodUp)
ReturnDown == Return(Call(<<"Mood", "Down">>, << >>, One(input)))
MCPick == {ReturnUp, ReturnDown, Ensure(IsEmail(input), Invalid(input))}
MCAsk == {Ensure(P(<<"keep">>), MoodUp)}
MCDeny == {Ensure(No, Text)}

-----------------------------------------------------------------------------
\* `home` enters `turn`, a helper that calls itself from inside an arm that
\* hides what it was given.

TurnFn == [params |-> <<Param("mood", Mood)>>, returns |-> TResult(Mood, ApiError)]
mood == P(<<"mood">>)
MoodDown(x) == Call(<<"Mood", "Down">>, << >>, One(x))
Turn(x) == Call(<<"turn">>, << >>, One(x))

MCHome == {Let("a", Deny), Let("a", MoodDown(email)), Let("a", Try(Turn(a))), Return(Get(email))}
MCTurn == {Match(mood, <<Up(Return(mood)), Down(<<name>>, down)>>) :
              name \in {"mood", "b"},
              down \in {Eval(Turn(MoodUp)), Eval(Turn(mood)), Ensure(IsEmail(mood), NotFound)}}
          \cup {Let("b", Try(Turn(mood))), Let("mood", Turn(MoodUp)), Let("b", MoodUp),
                Return(mood), Return(b)}

-----------------------------------------------------------------------------
\* Three modules, for the one specification.

MCFunctions == [main |-> Main, pick |-> PickFn, ask |-> AskFn, home |-> Main, turn |-> TurnFn,
                deny |-> DenyFn]
MCStatements == [main |-> MCMain, pick |-> MCPick, ask |-> MCAsk, home |-> MCHome, turn |-> MCTurn,
                 deny |-> MCDeny]
MCLengths == [main |-> 3, pick |-> 1, ask |-> 1, home |-> 3, turn |-> 3, deny |-> 1]
MCOrders == {<<"ask", "pick", "main">>, <<"turn", "home">>, <<"deny", "home">>}

-----------------------------------------------------------------------------
\* An arm that binds a name for the statements after the match.
ArmFunctions == [main |-> Main, pick |-> PickFn]
ArmStatements ==
    [main |-> {Let("a", Try(Pick(email))),
               Match(a, <<Up(Eval(Yes)), Down(<<"b">>, Let("c", b))>>),
               Ensure(IsEmail(P(<<"c">>)), NotFound)},
     pick |-> {ReturnUp}]
ArmLengths == [main |-> 3, pick |-> 1]
ArmOrders == {<<"pick", "main">>}

\* A helper called for what it does.
NoteFunctions == [main |-> Main, note |-> NoteFn]
NoteStatements == [main |-> {Eval(Note), Return(Get(email))},
                   note |-> {Let("c", Text), Eval(Text)}]
NoteLengths == [main |-> 2, note |-> 1]
NoteOrders == {<<"note", "main">>}

=============================================================================
