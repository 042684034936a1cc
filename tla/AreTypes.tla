------------------------------- MODULE AreTypes -------------------------------
(***************************************************************************)
(* Declared types and the JSON that inhabits them, three times over: as    *)
(* the checker reads a declaration (crates/are-resolver, are-typecheck),   *)
(* as the runtime validates and decodes by it (are-http-runtime/           *)
(* schemas.rs), and as the exported document describes it (contracts.rs,   *)
(* openapi.rs).                                                            *)
(*                                                                         *)
(* `Option<T>` and `T?` are one form here: every reader treats them alike. *)
(* Foreign stands for a type with a path of several segments.              *)
(***************************************************************************)
EXTENDS Naturals, FiniteSets, SequencesExt

CONSTANTS
    RefNames,                   \* names that begin with a capital letter
    header_name_for_field(_),   \* `user_id` is sent as `user-id`
    to_ascii_lowercase(_),
    Json,                       \* JSON values, with the values they are made of
    Depth                       \* bound: nested validations a thread's stack holds

-----------------------------------------------------------------------------
\* Type expressions, rules and declarations.  A type is the path of a name
\* and what is around it, from the outside in: `List<User?>` is the path
\* <<"User">> in the shape <<"list", "option">>.

TypeExprs == [shape : Seq({"option", "list"}), path : Seq(STRING) \ {<< >>}]

Named(name) == [shape |-> << >>, path |-> <<name>>]
Around(wrapper, type) == [shape |-> <<wrapper>> \o type.shape, path |-> type.path]
Optional(type) == Around("option", type)
ListOf(type) == Around("list", type)
Foreign == [shape |-> << >>, path |-> <<"other", "Type">>]

type_expr_is_optional(type) == type.shape # << >> /\ Head(type.shape) = "option"
inner(type) == [shape |-> Tail(type.shape), path |-> type.path]

NamesIn(type) == IF Len(type.path) = 1 THEN {type.path[1]} ELSE {}

Email == [rule |-> "email"]
Length(min, max) == [rule |-> "length", min |-> min, max |-> max]

Field(name, type, rules) == [name |-> name, type |-> type, rules |-> rules]
Alias(type, rules) == [kind |-> "alias", type |-> type, rules |-> rules]
Struct(fields) == [kind |-> "struct", fields |-> fields]
Model(fields) == [kind |-> "model", fields |-> fields]      \* no rules on its fields
Enum(variants) == [kind |-> "enum", variants |-> variants]  \* [name, payload]

Rules == {Email} \cup [rule : {"length"}, min : Nat, max : Nat]
FieldLists(rules) == Seq([name : STRING, type : TypeExprs, rules : rules])
Declarations ==
    [kind : {"alias"}, type : TypeExprs, rules : Seq(Rules)]
    \cup [kind : {"struct"}, fields : FieldLists(Seq(Rules))]
    \cup [kind : {"model"}, fields : FieldLists({<< >>})]
    \cup [kind : {"enum"}, variants : Seq([name : STRING, payload : FieldLists(Seq(Rules))])]

\* A file declares finitely many names.
IsSourceFile(file) ==
    /\ IsFiniteSet(DOMAIN file) /\ DOMAIN file \subseteq STRING
    /\ \A n \in DOMAIN file : file[n] \in Declarations

\* The types a declaration mentions at its surface.
TypesOf(decl) ==
    CASE decl.kind = "alias" -> {decl.type}
      [] decl.kind = "enum" ->
            UNION {{f.type : f \in Range(v.payload)} : v \in Range(decl.variants)}
      [] OTHER -> {f.type : f \in Range(decl.fields)}

-----------------------------------------------------------------------------
\* Values.  A number is told by the readings serde_json gives it: "big" is
\* past i64 and within u64, "whole" is written with a zero fraction.

Null == [k |-> "null"]
Bool == [k |-> "bool"]
Num(class) == [k |-> "number", class |-> class]
Str(len, at) == [k |-> "string", len |-> len, at |-> at]    \* at: it has an `@`
Arr(items) == [k |-> "array", items |-> items]
Obj(members) == [k |-> "object", members |-> members]
NoValue == [k |-> "none"]

\* The values a value is made of.
PartsOf(v) ==
    CASE v.k = "array" -> Range(v.items)
      [] v.k = "object" -> Range(v.members)
      [] OTHER -> {}

\* What a value is made of is in values.
Closed(values) ==
    \A v \in values :
        /\ v.k = "array" => v.items \in Seq(values)
        /\ v.k = "object" => \A n \in DOMAIN v.members : v.members[n] \in values

ASSUME JsonAssumption == Closed(Json) /\ NoValue \notin Json
ASSUME DepthAssumption == Depth \in Nat

\* A text of a path or a parameter, and what it parses to.
Text(string, u64, i64, f64, bool) ==
    [string |-> string, U64 |-> u64, I64 |-> i64, F64 |-> f64, Bool |-> bool]
Readings(text) == {text[r] : r \in {"string", "U64", "I64", "F64", "Bool"}} \ {NoValue}

\* What `parse` makes of one text: a natural number up to i64 is read as u64
\* and as i64, and every integer is read as f64 too.
IsText(text) ==
    /\ text.string \in Json /\ text.string.k = "string"
    /\ text.U64 \in {NoValue, Num("natural"), Num("big")}
    /\ text.I64 \in {NoValue, Num("natural"), Num("negative")}
    /\ text.U64 = Num("natural") <=> text.I64 = Num("natural")
    /\ text.F64 \in {NoValue, Num("whole")}
    /\ text.U64 # NoValue \/ text.I64 # NoValue => text.F64 # NoValue
    /\ text.Bool \in {NoValue, Bool}
    /\ Readings(text) \subseteq Json

Primitives == {"String", "Text", "Bool", "Int", "I64", "U64", "F64"}
ASSUME NameAssumption == Primitives \subseteq STRING

validate_primitive(name, v) ==
    CASE name \in {"String", "Text"} -> v.k = "string"
      [] name = "Bool" -> v.k = "bool"
      [] name \in {"Int", "I64"} -> v.k = "number" /\ v.class \in {"negative", "natural"}
      [] name = "U64" -> v.k = "number" /\ v.class \in {"natural", "big"}
      [] name = "F64" -> v.k = "number"
      [] OTHER -> FALSE

-----------------------------------------------------------------------------
\* The checks on one file, a function from the names it declares.  (The
\* resolver refuses a name declared twice in a file: E_RESOLVE_0001.)

is_builtin_type == {"String", "Str", "Bool", "Unit", "I8", "I16", "I32", "I64", "U8",
                    "U16", "U32", "U64", "F32", "F64", "Result", "Option", "List"}

resolve_file(file) ==
    {code \in {"E_RESOLVE_0003"} :
        \E n \in DOMAIN file, type \in UNION {TypesOf(file[m]) : m \in DOMAIN file} :
            ~(NamesIn(type) \subseteq is_builtin_type \cup DOMAIN file)}

\* Options are looked through.
bare_name(type) == Len(type.path) = 1 /\ Range(type.shape) \subseteq {"option"}

stands_for_a_name(file, name) ==
    name \in DOMAIN file /\ file[name].kind = "alias" /\ bare_name(file[name].type)

checked_roots_over(file, below) ==
    [name \in STRING |->
        IF name \in Primitives THEN name
        ELSE IF stands_for_a_name(file, name) THEN below[file[name].type.path[1]] ELSE "none"]

\* An alias met again has no root: a walk that meets none again is no longer
\* than the names of the file, and then at the primitive.
checked_root_within(file) ==
    LET root[hops \in 0..Cardinality(DOMAIN file) + 1] ==
            IF hops = 0 THEN [name \in STRING |-> "none"] ELSE checked_roots_over(file, root[hops - 1])
    IN  root

checked_primitive_root(file, type) ==
    IF bare_name(type) THEN checked_root_within(file)[Cardinality(DOMAIN file) + 1][type.path[1]]
    ELSE "none"

is_string_like(file, type) == checked_primitive_root(file, type) \in {"String", "Text"}

check_validations(file, type, rules) ==
    {code \in {"E_TYPE_0010", "E_TYPE_0011", "E_TYPE_0012"} :
        \/ code = "E_TYPE_0010" /\ rules # << >> /\ ~is_string_like(file, type)
        \/ code = "E_TYPE_0011"
           /\ \E r \in Range(rules) : r.rule = "length" /\ r.min > r.max
        \/ code = "E_TYPE_0012"
           /\ \E i, j \in DOMAIN rules : i < j /\ rules[i].rule = rules[j].rule}

Repeats(items) == \E i, j \in DOMAIN items : i < j /\ items[i].name = items[j].name

\* The rules of an enum's payload are not looked at.
check_declaration(file, decl) ==
    CASE decl.kind = "alias" -> check_validations(file, decl.type, decl.rules)
      [] decl.kind = "struct" ->
            (UNION {check_validations(file, f.type, f.rules) : f \in Range(decl.fields)})
            \cup {code \in {"E_TYPE_0004"} : Repeats(decl.fields)}
      [] decl.kind = "model" -> {code \in {"E_TYPE_0007"} : Repeats(decl.fields)}
      [] decl.kind = "enum" ->
            {code \in {"E_TYPE_0005"} : Repeats(decl.variants)}
            \cup {code \in {"E_TYPE_0006"} :
                     \E v \in Range(decl.variants) : Repeats(v.payload)}

\* A file that does not resolve is not typechecked.
check_source_file(file) ==
    IF resolve_file(file) # {} THEN resolve_file(file)
    ELSE UNION {check_declaration(file, file[n]) : n \in DOMAIN file}

=============================================================================
