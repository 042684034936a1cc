------------------------------ MODULE AreSchemas ------------------------------
(***************************************************************************)
(* The runtime's view of the declared types (are-http-runtime/schemas.rs): *)
(* one table per kind for all files, validation of JSON against it, and    *)
(* the decoding of path, query, header and cookie text.  An outcome is     *)
(* Valid, Refused whatever the code, or Overflow: the recursion has no     *)
(* limit of its own, and Depth stands for the stack of the thread.         *)
(***************************************************************************)
EXTENDS AreTypes

Valid == "valid"
Refused == "refused"
Overflow == "overflow"
Outcomes == {Valid, Refused, Overflow}

Least(S) == CHOOSE i \in S : \A j \in S : i <= j
Greatest(S) == CHOOSE i \in S : \A j \in S : j <= i

\* The `?` operator over a sequence of checks.
FirstFailure(outcomes) ==
    LET failing == {i \in DOMAIN outcomes : outcomes[i] # Valid}
    IN  IF failing = {} THEN Valid ELSE outcomes[Least(failing)]

-----------------------------------------------------------------------------
\* Declarations of all files, by kind and name, in the order of the files.

DeclaringFiles(files, kind, name) ==
    {i \in DOMAIN files : name \in DOMAIN files[i] /\ files[i][name].kind = kind}
DeclaredAs(files, kind) ==
    {n \in UNION {DOMAIN files[i] : i \in DOMAIN files} : DeclaringFiles(files, kind, n) # {}}
LastDeclaration(files, kind, name) == files[Greatest(DeclaringFiles(files, kind, name))][name]

\* A later file replaces what an earlier one declared.
from_modules(files) ==
    [kind \in {"alias", "struct", "model"} |->
        [n \in DeclaredAs(files, kind) |-> LastDeclaration(files, kind, n)]]

-----------------------------------------------------------------------------
\* Validation.

rule_holds(rule, v) ==
    /\ v.k = "string"
    /\ rule.rule = "email" => v.at
    /\ rule.rule = "length" => v.len \in rule.min..rule.max

\* Mutant: a length may fall short of its minimum by one.
rules_off_by_one(rules, v) ==
    IF \A r \in Range(rules) :
          rule_holds(r, v) \/ (v.k = "string" /\ r.rule = "length" /\ v.len + 1 = r.min)
    THEN Valid ELSE Refused

validate_rules(rules, v) ==
    IF \A r \in Range(rules) : rule_holds(r, v) THEN Valid ELSE Refused

\* An optional field without a value is not held to its rules.
validate_field_rules(field, v) ==
    IF v = Null /\ type_expr_is_optional(field.type) THEN Valid
    ELSE validate_rules(field.rules, v)

\* In what follows below[type][v] is what a call of validate_type_expr_as
\* returns that is made from here.

\* The check of one field of an object; a field the type lacks is ignored.
field_outcome(field, v, below) ==
    IF field.name \in DOMAIN v.members THEN below[field.type][v.members[field.name]]
    ELSE IF type_expr_is_optional(field.type) THEN Valid ELSE Refused

struct_field_outcome(field, v, below) ==
    LET outcome == field_outcome(field, v, below)
    IN  IF outcome # Valid \/ field.name \notin DOMAIN v.members THEN outcome
        ELSE validate_field_rules(field, v.members[field.name])

validate_struct_fields(fields, v, below) ==
    IF v.k # "object" THEN Refused
    ELSE FirstFailure([i \in DOMAIN fields |-> struct_field_outcome(fields[i], v, below)])

validate_model_fields_as(fields, v, below) ==
    IF v.k # "object" THEN Refused
    ELSE FirstFailure([i \in DOMAIN fields |-> field_outcome(fields[i], v, below)])

\* Mutant: an alias is looked up by its own name, not by what it aliases.
value_as_alias_of_itself(s, name, v, below) ==
    IF name \in DOMAIN s["alias"]
    THEN FirstFailure(<<below[Named(name)][v], validate_rules(s["alias"][name].rules, v)>>)
    ELSE IF validate_primitive(name, v) THEN Valid ELSE Refused

validate_value_as(s, name, v, below) ==
    CASE name \in DOMAIN s["alias"] ->
            FirstFailure(<<below[s["alias"][name].type][v],
                           validate_rules(s["alias"][name].rules, v)>>)
      [] name \in DOMAIN s["struct"] \ DOMAIN s["alias"] ->
            validate_struct_fields(s["struct"][name].fields, v, below)
      [] name \in DOMAIN s["model"] \ (DOMAIN s["alias"] \cup DOMAIN s["struct"]) ->
            validate_model_fields_as(s["model"][name].fields, v, below)
      [] OTHER -> IF validate_primitive(name, v) THEN Valid ELSE Refused

\* Mutant: an optional type refuses null.
type_expr_refusing_null(s, type, v, below) ==
    IF type.shape = << >>
    THEN IF Len(type.path) # 1 THEN Valid ELSE validate_value_as(s, type.path[1], v, below)
    ELSE IF type_expr_is_optional(type)
    THEN below[inner(type)][v]
    ELSE IF v.k # "array" THEN Refused
    ELSE FirstFailure([i \in DOMAIN v.items |-> below[inner(type)][v.items[i]]])

validate_type_expr_as(s, type, v, below) ==
    IF type.shape = << >>
    THEN IF Len(type.path) # 1 THEN Valid ELSE validate_value_as(s, type.path[1], v, below)
    ELSE IF type_expr_is_optional(type)
    THEN IF v = Null THEN Valid ELSE below[inner(type)][v]
    ELSE IF v.k # "array" THEN Refused
    ELSE FirstFailure([i \in DOMAIN v.items |-> below[inner(type)][v.items[i]]])

\* Every option, list, alias and struct takes one of the calls the stack holds.
outcomes_over(s, values, below) ==
    [type \in TypeExprs |-> [v \in values |-> validate_type_expr_as(s, type, v, below)]]

stack_exhausted(values) == [type \in TypeExprs |-> [v \in values |-> Overflow]]

outcome_within(s, values) ==
    LET outcome[depth \in 0..Depth] ==
            IF depth = 0 THEN stack_exhausted(values)
            ELSE outcomes_over(s, values, outcome[depth - 1])
    IN  outcome

validate_value(s, type, v) == outcome_within(s, Json \cup {v})[Depth][type][v]

\* What the runtime says of a body.
validate_json_body(s, name, v) == validate_value(s, Named(name), v)

-----------------------------------------------------------------------------
\* Decoding.  A text is read as its type's primitive; options of an alias
\* are not looked through.

\* The name a plain alias stands for.
next_name(s, name) == s["alias"][name].type.path[1]

roots_over(s, below) ==
    [name \in STRING |->
        IF name \in Primitives THEN name
        ELSE IF /\ name \in DOMAIN s["alias"]
                /\ s["alias"][name].type.shape = << >> /\ Len(s["alias"][name].type.path) = 1
        THEN below[next_name(s, name)] ELSE "none"]

root_within(s) ==
    LET root[depth \in 0..Depth] ==
            IF depth = 0 THEN [name \in STRING |-> "overflow"] ELSE roots_over(s, root[depth - 1])
    IN  root

primitive_root(s, name) == root_within(s)[Depth][name]

type_expr_primitive_root(s, type) ==
    IF type.shape = << >> /\ Len(type.path) = 1 THEN primitive_root(s, type.path[1]) ELSE "none"

\* The type whose primitive the text of a field is read as.
decoded_type(type) == IF type_expr_is_optional(type) THEN inner(type) ELSE type

parsed(root, text) ==
    CASE root = "Int" -> text.I64
      [] root = "I64" -> text.I64
      [] root = "U64" -> text.U64
      [] root = "F64" -> text.F64
      [] root = "Bool" -> text.Bool
      [] OTHER -> text.string

decode_text_value(s, type, text) == parsed(type_expr_primitive_root(s, decoded_type(type)), text)

Reply(outcome, value) == [outcome |-> outcome, value |-> value]

decode_path_param(s, name, text) ==
    LET value == parsed(primitive_root(s, name), text)
        outcome == CASE primitive_root(s, name) = "overflow" -> Overflow
                     [] primitive_root(s, name) # "overflow" /\ value = NoValue -> Refused
                     [] OTHER -> validate_value(s, Named(name), value)
    IN  Reply(outcome, IF outcome = Valid THEN value ELSE NoValue)

-----------------------------------------------------------------------------
\* Query, headers and cookies: one loop over the fields of the payload type,
\* each with its own way to find the text of a field.

payload_fields(s, name) ==
    IF name \in DOMAIN s["struct"] THEN s["struct"][name].fields ELSE s["model"][name].fields

\* The names a field is looked up under, in order.
wire_names(location, field) ==
    IF location = "header"
    THEN <<header_name_for_field(field.name), to_ascii_lowercase(field.name)>>
    ELSE <<field.name>>

found_under(location, field, sent) ==
    {i \in DOMAIN wire_names(location, field) : wire_names(location, field)[i] \in DOMAIN sent}

text_of_field(location, field, sent) ==
    sent[wire_names(location, field)[Least(found_under(location, field, sent))]]

\* What one field is decoded to; NoValue if it is optional and not sent.
decode_field(s, location, field, sent) ==
    IF found_under(location, field, sent) = {}
    THEN Reply(IF type_expr_is_optional(field.type) THEN Valid ELSE Refused, NoValue)
    ELSE LET value == decode_text_value(s, field.type, text_of_field(location, field, sent))
         IN  IF type_expr_primitive_root(s, decoded_type(field.type)) = "overflow"
             THEN Reply(Overflow, NoValue)
             ELSE Reply(IF value = NoValue THEN Refused ELSE Valid, value)

\* The object built from what the fields are decoded to.
decoded_object(fields, decoded) ==
    LET given == {i \in DOMAIN fields : decoded[i].value # NoValue}
    IN  Obj([n \in {fields[i].name : i \in given} |->
                decoded[CHOOSE i \in given : fields[i].name = n].value])

\* It is validated as a whole.
decode_fields(s, location, name, sent) ==
    LET fields == payload_fields(s, name)
        decoded == [i \in DOMAIN fields |-> decode_field(s, location, fields[i], sent)]
        failure == FirstFailure([i \in DOMAIN fields |-> decoded[i].outcome])
        object == decoded_object(fields, decoded)
        outcome == IF failure # Valid THEN failure ELSE validate_value(s, Named(name), object)
    IN  Reply(outcome, IF outcome = Valid THEN object ELSE NoValue)

=============================================================================
