----------------------------- MODULE AreDocument -----------------------------
(***************************************************************************)
(* The exported document's view of the declared types                      *)
(* (are-http-runtime/contracts.rs, openapi.rs): the schema of a type, the  *)
(* component of each declared name and the parameters of a payload type.   *)
(* What a schema admits is JSON Schema's meaning of it; `format` is read   *)
(* as the range of a number and as the `@` of an email.                    *)
(***************************************************************************)
EXTENDS AreSchemas

\* The schema of a type: what is around its base, from the outside in, and
\* the keywords that validations add to it.
TypeSchemas ==
    [shape : Seq({"nullable", "array"}), form : {"primitive", "ref", "any"}, of : STRING,
     rules : SUBSET Rules]
Schema(shape, form, of) == [shape |-> shape, form |-> form, of |-> of, rules |-> {}]
ObjectSchema(properties, required) ==
    [form |-> "object", properties |-> properties, required |-> required]

\* A name of several segments is a reference that leads nowhere.
base_form(type) ==
    CASE Len(type.path) # 1 -> "any"
      [] Len(type.path) = 1 /\ type.path[1] \in Primitives -> "primitive"
      [] Len(type.path) = 1 /\ type.path[1] \in RefNames \ Primitives -> "ref"
      [] OTHER -> "any"

type_schema(type) ==
    Schema([i \in DOMAIN type.shape |-> IF type.shape[i] = "option" THEN "nullable" ELSE "array"],
           base_form(type), type.path[1])

\* Of two rules of a kind the last one's keywords stay.
apply_field_validations(schema, rules) ==
    LET replaced(i) == \E j \in DOMAIN rules : j > i /\ rules[j].rule = rules[i].rule
    IN  [schema EXCEPT !.rules = {rules[i] : i \in {j \in DOMAIN rules : ~replaced(j)}}]

-----------------------------------------------------------------------------
\* Components and parameters.

field_schema(field) == apply_field_validations(type_schema(field.type), field.rules)

object_component(fields) ==
    ObjectSchema([n \in {f.name : f \in Range(fields)} |->
                     field_schema(CHOOSE f \in Range(fields) : f.name = n)],
                 {f.name : f \in {g \in Range(fields) : ~type_expr_is_optional(g.type)}})

\* The component of a declaration.  (That of an enum is not needed: the
\* runtime accepts no value of an enum type.)
component(decl) ==
    CASE decl.kind = "alias" -> apply_field_validations(type_schema(decl.type), decl.rules)
      [] decl.kind \in {"struct", "model"} -> object_component(decl.fields)
      [] OTHER -> Schema(<< >>, "any", "elsewhere")

\* Aliases are entered first, then structs, models and enums, each kind in
\* the order of the files: the last one of a name stays.
entered_kind(files, name) ==
    LET kinds == <<"alias", "struct", "model", "enum">>
    IN  kinds[Greatest({k \in DOMAIN kinds : DeclaringFiles(files, kinds[k], name) # {}})]

component_schemas(files) ==
    [n \in UNION {DOMAIN files[i] : i \in DOMAIN files} |->
        component(LastDeclaration(files, entered_kind(files, n), n))]

\* The first struct of the name, or else the first model.
documented_fields(files, name) ==
    LET kind == IF DeclaringFiles(files, "struct", name) # {} THEN "struct" ELSE "model"
    IN  files[Least(DeclaringFiles(files, kind, name))][name].fields

\* Mutant: a header keeps the name of its field.
parameter_named_as_field(location, field) ==
    [name |-> field.name,
     required |-> ~type_expr_is_optional(field.type), schema |-> field_schema(field)]

field_parameter(location, field) ==
    [name |-> IF location = "header" THEN header_name_for_field(field.name) ELSE field.name,
     required |-> ~type_expr_is_optional(field.type), schema |-> field_schema(field)]

field_parameters(files, location, name) ==
    [i \in DOMAIN documented_fields(files, name) |->
        field_parameter(location, documented_fields(files, name)[i])]

-----------------------------------------------------------------------------
(***************************************************************************)
(* The reference: what a schema admits, read leniently in the two places   *)
(* where the runtime reads JSON its own way: an object may have members    *)
(* its schema does not list, and no number written with a fraction is an   *)
(* integer.                                                                *)
(***************************************************************************)
PrimitiveAdmits(name, v) ==
    CASE name \in {"String", "Text"} -> v.k = "string"
      [] name = "Bool" -> v.k = "bool"
      [] name = "F64" -> v.k = "number"
      [] name = "U64" -> v.k = "number" /\ v.class \in {"natural", "big"}
      [] OTHER -> v.k = "number" /\ v.class \in {"natural", "negative"}

\* In what follows below[schema][v] is whether a schema within admits v.

within(schema) == Schema(Tail(schema.shape), schema.form, schema.of)

ObjectAdmits(object, v, below) ==
    /\ v.k = "object"
    /\ object.required \subseteq DOMAIN v.members
    /\ \A n \in DOMAIN v.members \cap DOMAIN object.properties :
          below[object.properties[n]][v.members[n]]

\* A reference that leads nowhere says nothing.
ReferenceAdmits(components, name, v, below) ==
    name \in DOMAIN components =>
        IF components[name].form = "object" THEN ObjectAdmits(components[name], v, below)
        ELSE below[components[name]][v]

SchemaAdmits(components, schema, v, below) ==
    /\ v.k = "string" => \A r \in schema.rules : rule_holds(r, v)
    /\ IF schema.shape = << >>
       THEN CASE schema.form = "primitive" -> PrimitiveAdmits(schema.of, v)
              [] schema.form = "ref" -> ReferenceAdmits(components, schema.of, v, below)
              [] OTHER -> TRUE
       ELSE IF Head(schema.shape) = "nullable"
       THEN v = Null \/ below[within(schema)][v]
       ELSE v.k = "array" /\ \A i \in DOMAIN v.items : below[within(schema)][v.items[i]]

admitted_over(components, values, below) ==
    [schema \in TypeSchemas |-> [v \in values |-> SchemaAdmits(components, schema, v, below)]]

nothing_admitted(values) == [schema \in TypeSchemas |-> [v \in values |-> FALSE]]

admitted_within(components, values) ==
    LET admitted[depth \in 0..Depth] ==
            IF depth = 0 THEN nothing_admitted(values)
            ELSE admitted_over(components, values, admitted[depth - 1])
    IN  admitted

Admits(components, schema, v) ==
    admitted_within(components, Json \cup {v})[Depth][schema][v]

=============================================================================
