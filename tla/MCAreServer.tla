----------------------------- MODULE MCAreServer -----------------------------
(***************************************************************************)
(* A small instance of AreServer: the model of examples/users_api, with    *)
(* an input that names an id of its own, and one that misfills a field.    *)
(***************************************************************************)
EXTENDS AreServer

CONSTANTS a, b, p, q    \* texts that are no decimals; two clients

MCTexts == Decimals \cup {a, b, NoText}

Str(t) == [kind |-> "string", text |-> t]
Num(t) == [kind |-> "number", text |-> t]
Object(m) == [kind |-> "object", text |-> NoText, members |-> m]

MCModel == [users |->
    <<[name |-> "id", primary |-> TRUE, optional |-> FALSE, root |-> "U64",
       admits |-> {Num(t) : t \in Decimals}],
      [name |-> "email", primary |-> FALSE, optional |-> FALSE, root |-> "String",
       admits |-> {Str(a), Str(b)}]>>]

MCInputs == {Object([id |-> Num(1), email |-> Str(a)]), Object([email |-> Num(1)])}
MCIds == {Num(1), Num(2)}

=============================================================================
