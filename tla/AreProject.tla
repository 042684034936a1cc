------------------------------ MODULE AreProject ------------------------------
(***************************************************************************)
(* From the files of a project to the values its handlers get              *)
(* (are-project/src/lib.rs, are-http-runtime/src/lib.rs): files are        *)
(* checked one by one, in the order of their paths, each by itself; a      *)
(* project without diagnostics is prepared, all its files in one table;    *)
(* then bodies, answers and parameters are held against the types the      *)
(* service names.                                                          *)
(***************************************************************************)
EXTENDS AreDocument

CONSTANTS
    Sources,    \* Sources[i]: what the i-th file of a project may hold
    Bodies,     \* JSON values of bodies and answers
    Texts,      \* texts of path parameters
    Sent        \* what a request may send: texts by name

ASSUME SourcesAssumption ==
    /\ Sources \in Seq({Sources[i] : i \in DOMAIN Sources})
    /\ \A i \in DOMAIN Sources : \A file \in Sources[i] : IsSourceFile(file)
ASSUME InputsAssumption ==
    /\ Bodies \subseteq Json
    /\ \A text \in Texts : IsText(text)
    /\ \A sent \in Sent : \A name \in DOMAIN sent : IsText(sent[name])

\* The names of the fields that structs and models may have.
FieldNames ==
    LET declared == UNION {Range(file) : file \in UNION Range(Sources)}
    IN  UNION {{f.name : f \in Range(decl.fields)} :
                  decl \in {d \in declared : d.kind \in {"struct", "model"}}}

\* A header has no underscore: a name in lower case is that of a header only
\* if it is that of its own.
ASSUME HeaderAssumption ==
    \A f, g \in FieldNames :
        to_ascii_lowercase(f) = header_name_for_field(g) =>
            to_ascii_lowercase(f) = header_name_for_field(f)

VARIABLES
    stage,      \* "check", "serve" or "refused"
    files,      \* the files checked so far
    errors,     \* codes of the diagnostics raised for them
    schemas,    \* the types the runtime validates with
    components, \* the components of the exported document
    request     \* the last request and what was made of it

vars == <<stage, files, errors, schemas, components, request>>

Request(kind, type, sent, reply) == [kind |-> kind, type |-> type, sent |-> sent, reply |-> reply]
NoRequest == Request("none", Foreign, NoValue, Reply(Valid, NoValue))

Init ==
    /\ stage = "check" /\ files = << >> /\ errors = {}
    /\ schemas = << >> /\ components = << >>
    /\ request = NoRequest

CheckFile(file) ==
    /\ stage = "check"
    /\ files' = Append(files, file)
    /\ errors' = errors \cup check_source_file(file)
    /\ UNCHANGED <<stage, schemas, components, request>>

\* Mutant: a project is prepared whatever its diagnostics.
prepare_unchecked_project ==
    /\ stage = "check" /\ files # << >>
    /\ stage' = "serve"
    /\ schemas' = from_modules(files)
    /\ components' = component_schemas(files)
    /\ UNCHANGED <<files, errors, request>>

\* A project with a diagnostic is not prepared.
prepare_project ==
    /\ stage = "check" /\ files # << >>
    /\ IF errors # {}
       THEN stage' = "refused" /\ UNCHANGED <<schemas, components>>
       ELSE /\ stage' = "serve"
            /\ schemas' = from_modules(files)
            /\ components' = component_schemas(files)
    /\ UNCHANGED <<files, errors, request>>

-----------------------------------------------------------------------------
\* What a route may name (are-typecheck/src/http.rs): the types of one file.

is_local_payload_type(name) ==
    \E file \in Range(files) : name \in DOMAIN file /\ file[name].kind \in {"struct", "model"}

is_known_contract_type(name) ==
    name \in Primitives \/ \E file \in Range(files) : name \in DOMAIN file

DeclaredNames == UNION {DOMAIN file : file \in Range(files)}

\* Requests read the tables and write nothing: one of each is looked at, the
\* first one after the project was prepared.
Serving == stage = "serve" /\ request = NoRequest

\* A body is validated as the payload type of its route.
Body(name, v) ==
    /\ Serving /\ is_local_payload_type(name)
    /\ request' = Request("body", Named(name), v,
                          Reply(validate_json_body(schemas, name, v), v))
    /\ UNCHANGED <<stage, files, errors, schemas, components>>

\* An answer is validated as what its route returns: a declared or builtin
\* type, a list of them, or an optional one.
Answer(type, v) ==
    /\ Serving /\ \A name \in NamesIn(type) : is_known_contract_type(name)
    /\ request' = Request("answer", type, v,
                          Reply(validate_value(schemas, type, v), v))
    /\ UNCHANGED <<stage, files, errors, schemas, components>>

PathParam(name, text) ==
    /\ Serving /\ is_known_contract_type(name)
    /\ request' = Request("path", Named(name), text, decode_path_param(schemas, name, text))
    /\ UNCHANGED <<stage, files, errors, schemas, components>>

\* Query, headers or cookies of a request.
Fields(location, name, sent) ==
    /\ Serving /\ is_local_payload_type(name)
    /\ request' = Request(location, Named(name), sent, decode_fields(schemas, location, name, sent))
    /\ UNCHANGED <<stage, files, errors, schemas, components>>

Locations == {"query", "header", "cookie"}
AnswerTypes(name) == {ListOf(Named(name)), Optional(Named(name))}

Requests ==
    \/ \E name \in DeclaredNames, v \in Bodies : Body(name, v)
    \/ \E name \in DeclaredNames, v \in Bodies : \E type \in AnswerTypes(name) : Answer(type, v)
    \/ \E name \in DeclaredNames \cup {"U64", "F64"}, text \in Texts : PathParam(name, text)
    \/ \E location \in Locations, name \in DeclaredNames, sent \in Sent :
          Fields(location, name, sent)

Next ==
    \/ \E i \in DOMAIN Sources : i = Len(files) + 1 /\ \E file \in Sources[i] : CheckFile(file)
    \/ prepare_project
    \/ Serving /\ Requests

Spec == Init /\ [][Next]_vars

-----------------------------------------------------------------------------
(***************************************************************************)
(* Properties.                                                             *)
(***************************************************************************)

Codes == {"E_RESOLVE_0003", "E_TYPE_0004", "E_TYPE_0005", "E_TYPE_0006", "E_TYPE_0007",
          "E_TYPE_0010", "E_TYPE_0011", "E_TYPE_0012"}

\* A project has its types, nothing is served of one with diagnostics, and
\* a value reaches a handler only from a request that was accepted.
TypeOK ==
    /\ stage \in {"check", "serve", "refused"}
    /\ Len(files) <= Len(Sources) /\ \A i \in DOMAIN files : files[i] \in Sources[i]
    /\ errors \subseteq Codes
    /\ stage = "serve" => errors = {} /\ DOMAIN components = DeclaredNames
    /\ request # NoRequest => stage = "serve"
    /\ request.kind \in Locations \cup {"path"} =>
          (request.reply.outcome = Valid <=> request.reply.value # NoValue)

\* No name is declared in two files, and none is that of a primitive.  (The
\* checker looks for neither: the runtime then reads the declaration, and the
\* document the primitive.)
UniqueNames ==
    /\ DeclaredNames \cap Primitives = {}
    /\ \A i, j \in DOMAIN files : i # j => DOMAIN files[i] \cap DOMAIN files[j] = {}

\* The types a project can declare and the runtime does not carry out in
\* full: enums as fields or parameters, builtin names it has no primitive
\* for, paths of several segments, names the document does not refer to, and
\* aliases of optional types.
Carried ==
    \A file \in Range(files) : \A n \in DOMAIN file :
        /\ n \in RefNames /\ file[n].kind # "enum"
        /\ file[n].kind = "alias" => ~type_expr_is_optional(file[n].type)
        /\ \A type \in TypesOf(file[n]) :
              Len(type.path) = 1 /\ type.path[1] \in Primitives \cup DOMAIN file

Documented(type, v) == Admits(components, type_schema(type), v)

\* Bodies and answers the runtime lets through conform to the document, the
\* members of objects it does not list aside: the exporter and the runtime
\* each walk aliases, options, lists and rules in their own way.
AcceptedIsDocumented ==
    request.kind \in {"body", "answer"} /\ request.reply.outcome = Valid /\ UniqueNames =>
        Documented(request.type, request.sent)

\* And what conforms to the document is let through, for the types the
\* runtime carries out: a client that follows the document is not refused.
DocumentedIsAccepted ==
    /\ request.kind \in {"body", "answer"} /\ UniqueNames /\ Carried
    /\ Documented(request.type, request.sent)
    => request.reply.outcome = Valid

\* Some reading of a text conforms to the schema of its parameter.
TextConforms(schema, text) == \E v \in Readings(text) : Admits(components, schema, v)

Parameters == field_parameters(files, request.kind, request.type.path[1])
NamesOf(parameters) == [i \in DOMAIN parameters |-> parameters[i].name]

\* What was sent as a query, as headers or as cookies conforms to the
\* documented parameters.
SentAsDocumented(parameters) ==
    \A i \in DOMAIN parameters :
        IF parameters[i].name \in DOMAIN request.sent
        THEN TextConforms(parameters[i].schema, request.sent[parameters[i].name])
        ELSE ~parameters[i].required

\* Fields that are lists, objects or options of options are documented as
\* parameters, and no text decodes to them.
ScalarFields(name) ==
    \A field \in Range(payload_fields(schemas, name)) :
        \A n \in NamesIn(field.type) :
            field.type.shape \in {<< >>, <<"option">>} /\ primitive_root(schemas, n) # "none"

\* A request that sends parameters under their documented names alone is
\* let through only if every required one is there and each text conforms,
\* what the handler then gets conforms too, and one that conforms is not
\* refused: decoding chooses a primitive by its own walk over aliases and
\* looks headers up by names of its own making.  (Whether the stack holds the
\* object around them is the next property's matter.)
ParametersFollowTheDocument ==
    request.kind \in Locations /\ UniqueNames /\ Carried =>
        \E parameters \in {Parameters} :
            /\ DOMAIN request.sent \subseteq Range(NamesOf(parameters))
            /\ ScalarFields(request.type.path[1])
            => /\ request.reply.outcome = Valid =>
                     SentAsDocumented(parameters) /\ Documented(request.type, request.reply.value)
               /\ SentAsDocumented(parameters) => request.reply.outcome # Refused

\* An alias of a circle stands for another one of it when options are looked
\* through.
IsCircle(circle) ==
    \A a \in circle :
        bare_name(schemas["alias"][a].type) /\ schemas["alias"][a].type.path[1] \in circle

\* The runtime's recursion ends on every program without a circle of
\* aliases: structs may refer to themselves, and values are finite.  (The
\* checker accepts a circle; a request then exhausts the stack.)
OverflowsOnlyOnCircles ==
    request.reply.outcome = Overflow =>
        \E circle \in SUBSET DOMAIN schemas["alias"] : circle # {} /\ IsCircle(circle)

-----------------------------------------------------------------------------
\* The names of the aliases there may be.
AliasNames ==
    UNION {{n \in DOMAIN file : file[n].kind = "alias"} : file \in UNION Range(Sources)}

\* The stack holds what values of some height need, height being how many
\* arrays and objects they are of, one in the other: at each level every alias
\* once, and the options and lists around each name.  An object of query,
\* header or cookie values is one level more.
StackHolds(height, nesting, wrappers) ==
    /\ height \in [Json -> 0..nesting]
    /\ \A v \in Json : \A part \in PartsOf(v) : height[part] < height[v]
    /\ \A file \in UNION Range(Sources) : \A n \in DOMAIN file :
          \A type \in TypesOf(file[n]) : Len(type.shape) <= wrappers
    /\ IsFiniteSet(AliasNames)
    /\ Depth >= (nesting + 2) * ((Cardinality(AliasNames) + 1) * (wrappers + 1))

=============================================================================
