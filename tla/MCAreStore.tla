----------------------------- MODULE MCAreStore -----------------------------
(***************************************************************************)
(* A small instance of AreStore.  Keys are written in radix 3, so that of  *)
(* the ids 1, 2 and 3 the last is "10" and sorts between the others.       *)
(***************************************************************************)
EXTENDS AreStore

CONSTANTS a, b      \* texts that are no decimal, model values

MCTexts == Decimals \cup {a, b, NoText}

Str(t) == [kind |-> "string", text |-> t]
Num(t) == [kind |-> "number", text |-> t]
Null == [kind |-> "null", text |-> NoText]

AnyString == {Str(t) : t \in MCTexts \ {NoText}}
AnyNumber == {Num(t) : t \in Decimals}

Primary(root, admits) ==
    [name |-> "id", primary |-> TRUE, optional |-> FALSE, root |-> root, admits |-> admits]
Plain(name, optional, admits) ==
    [name |-> name, primary |-> FALSE, optional |-> optional, root |-> "String", admits |-> admits]

Object(m) == [kind |-> "object", text |-> NoText, members |-> m]

\* An input that names an id, ones that miss or misfill a field, a non-object.
MCInputs ==
    {Object([email |-> Str(a)]),
     Object([id |-> Num(1), email |-> Str(b)]),
     Object([nick |-> Null]),
     Object([email |-> Num(1)]),
     [kind |-> "array", text |-> NoText]}

MCIds == {Str(1), Num(2), Str(a), Null}

\* Beside "users", models the checker accepts and the store cannot always
\* serve: an alias whose length rule refuses the shortest ids, an F64 primary field.
MCModel == [
    users  |-> <<Primary("I64", AnyNumber), Plain("email", FALSE, AnyString)>>,
    tags   |-> <<Primary("String", {Str(t) : t \in Decimals \ {1}}),
                 Plain("nick", TRUE, AnyString \cup {Null})>>,
    floats |-> <<Plain("email", FALSE, AnyString), Primary("F64", AnyNumber)>>]

=============================================================================
