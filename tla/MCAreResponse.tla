---------------------------- MODULE MCAreResponse ----------------------------
(***************************************************************************)
(* Small instances of AreResponse: one model, one struct, the four shapes  *)
(* of route the pipeline tells apart and the ways a service maps errors.   *)
(***************************************************************************)
EXTENDS AreResponse

CONSTANTS a     \* a text that is no decimal, a model value

MCTexts == (1..MaxId) \cup {a, NoText}

Str(t) == [kind |-> "string", text |-> t]
Num(t) == [kind |-> "number", text |-> t]
Row(m) == [kind |-> "object", text |-> NoText, members |-> m]

AnyString == {Str(t) : t \in MCTexts \ {NoText}}
FieldOf(name, primary, root, admits) ==
    [name |-> name, primary |-> primary, optional |-> FALSE, root |-> root, admits |-> admits]

MCModel == [
    users  |-> <<FieldOf("id", TRUE, "I64", {Num(t) : t \in 1..MaxId}),
                 FieldOf("email", FALSE, "String", {Str(a)})>>,
    Health |-> <<FieldOf("status", FALSE, "String", AnyString)>>]

MCInputs == {Row([email |-> Str(a)]), Row([email |-> Num(1)])}
MCIds == {Num(1), Str(2)}

MCRoutes == {
    [body |-> TRUE, bound |-> TRUE, status |-> 201, returns |-> Type("users")],
    [body |-> FALSE, bound |-> TRUE, status |-> NoStatus, returns |-> List("users")],
    [body |-> FALSE, bound |-> FALSE, status |-> 200, returns |-> Type("Health")],
    [body |-> TRUE, bound |-> FALSE, status |-> NoStatus, returns |-> NoReturns]}

ApiErrors == [InvalidInput |-> 400, NotFound |-> 404]
Contract(enum, status) == [mode |-> "errors", enum |-> enum, status |-> status]

\* The service of the examples.
ApiContract == {Contract("ApiError", ApiErrors)}

\* The same under another enum name, which the checker accepts as well.
RenamedContract == {Contract("ShopError", ApiErrors)}

\* An enum that lacks a variant, and one whose variant has no status (not
\* checked where no handler returns a Result).
PartialContracts == {
    Contract("ApiError", [InvalidInput |-> 400]),
    Contract("ApiError", [InvalidInput |-> NoStatus, NotFound |-> 404])}

Mapper == {[mode |-> "error_map", enum |-> "none", status |-> << >>]}
NoMapping == {[mode |-> "none", enum |-> "none", status |-> << >>]}

AllManifests == ApiContract \cup RenamedContract \cup PartialContracts \cup Mapper \cup NoMapping

MCMade == {Object([status |-> Str(a)]), Object([id |-> Num(1)]), Array(<< >>)}
MCRaisable == {NotFound, Error("RaisedError", "ShopError", "NotFound", "none")}

=============================================================================
