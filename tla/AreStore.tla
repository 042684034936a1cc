------------------------------ MODULE AreStore ------------------------------
(***************************************************************************)
(* The in-memory model store of the HTTP runtime                           *)
(* (crates/are-http-runtime/src/store.rs).  RuntimeState is one mutex over *)
(* a map from collection names to stores; each public method takes the     *)
(* lock, does all its work and releases it, so each is one action.  A      *)
(* collection that is absent from the map and one that is present but      *)
(* empty answer every call alike, so the map is total here.                *)
(***************************************************************************)
EXTENDS Naturals, Sequences, FiniteSets

CONSTANTS
    Collections,    \* collection names of the program's models
    Model,          \* Model[c]: the fields of the model behind c, in order
    Inputs,         \* JSON values a handler may pass to insert
    Ids,            \* JSON values a handler may pass to get
    Texts,          \* texts of JSON values, the decimal texts among them
    NoText,         \* the text of a value that has none (null, array, object)
    Base,           \* the radix keys are written in: 10 in the code
    MaxI64,         \* the largest id an I64 primary field can hold
    MaxId           \* bound: ids handed out per collection

(***************************************************************************)
(* JSON values are [kind, text]; the decimal text of n is written n.  An   *)
(* object a handler passes to insert also has its members by name.         *)
(***************************************************************************)
Kinds == {"string", "number", "bool", "null", "array", "object"}
Scalars == [kind : Kinds, text : Texts]
Decimals == 1..MaxId

json_key(v) == IF v.kind \in {"string", "number", "bool"} THEN v.text ELSE NoText

ASSUME KeyAssumption ==
    /\ MaxId \in Nat /\ MaxI64 \in Nat /\ Base \in Nat \ {0, 1}
    /\ Decimals \subseteq Texts
    /\ NoText \in Texts \ Decimals

ASSUME InputAssumption ==
    /\ Ids \subseteq Scalars
    /\ \A in \in Inputs : in.kind \in Kinds
    /\ \A in \in Inputs : in.kind = "object" =>
          \A f \in DOMAIN in.members : in.members[f] \in Scalars

\* A field: its name, whether it is the primary one, whether its type is
\* optional, the primitive its type resolves to, the values its type admits.
Field == [name : STRING, primary : BOOLEAN, optional : BOOLEAN,
          root : STRING, admits : SUBSET Scalars]

\* The checker rejects a repeated field and a second primary field.
ASSUME ModelAssumption ==
    \A c \in Collections :
        /\ Model[c] \in Seq(Field)
        /\ \A i, j \in DOMAIN Model[c] :
              \/ Model[c][i].name = Model[c][j].name
              \/ Model[c][i].primary /\ Model[c][j].primary
              => i = j

VARIABLES
    next_id,    \* next_id[c]: the last id drawn for collection c
    records,    \* records[c]: the records of c, by key
    ret         \* the last call, the key it addressed and what it returned

storeVars == <<next_id, records, ret>>

-----------------------------------------------------------------------------
\* What the methods return: a value, or an error of the interpreter.

Error(tag, enum, variant, code) ==
    [tag |-> tag, enum |-> enum, variant |-> variant, code |-> code]

\* The host raises its own errors as variants of an enum named ApiError.
InvalidInput(code) == Error("RaisedError", "ApiError", "InvalidInput", code)
NotFound == Error("RaisedError", "ApiError", "NotFound", "none")
Unsupported == Error("UnsupportedExpression", "none", "none", "none")
NoError == Error("none", "none", "none", "none")

Return(op, c, key, v, e) == [op |-> op, coll |-> c, key |-> key, value |-> v, error |-> e]
Ok(op, c, key, v) == Return(op, c, key, v, NoError)
Err(op, c, key, e) == Return(op, c, key, << >>, e)

-----------------------------------------------------------------------------
\* Building a record from the handler's input and the id drawn for it.

\* Mutant: the id is formatted before the counter is incremented.
FormattedTooEarly(field, id) ==
    [kind |-> IF field.root \in {"String", "Text"} THEN "string" ELSE "number",
     text |-> id - 1]

generated_primary_value(field, id) ==
    [kind |-> IF field.root \in {"String", "Text"} THEN "string" ELSE "number",
     text |-> id]

\* Why one field stops the record from being built, if it does.
FieldError(field, input, id) ==
    CASE field.primary /\ field.root = "F64" -> Unsupported
      [] field.primary /\ field.root \in {"I64", "Int"} /\ id > MaxI64 ->
            InvalidInput("invalid_id")
      [] ~field.primary /\ field.name \notin DOMAIN input.members /\ ~field.optional ->
            InvalidInput("invalid_json")
      [] OTHER -> NoError

\* The fields are visited in declaration order and the first failure returns.
BuildError(c, input, id) ==
    LET failing == {i \in DOMAIN Model[c] : FieldError(Model[c][i], input, id) # NoError}
    IN  IF failing = {} THEN NoError
        ELSE FieldError(Model[c][CHOOSE i \in failing : \A j \in failing : i <= j], input, id)

Primaries(c) == {i \in DOMAIN Model[c] : Model[c][i].primary}

\* The fields a built record has: the primary one and those the input gives.
Present(c, input) ==
    {i \in DOMAIN Model[c] : Model[c][i].primary \/ Model[c][i].name \in DOMAIN input.members}

FieldAt(c, name) == Model[c][CHOOSE i \in DOMAIN Model[c] : Model[c][i].name = name]

\* Mutant: the record starts as a copy of the input.
KeepEveryMember(c, input, id) ==
    [name \in DOMAIN input.members \cup {Model[c][i].name : i \in Primaries(c)} |->
        IF \E i \in Primaries(c) : Model[c][i].name = name
        THEN generated_primary_value(FieldAt(c, name), id)
        ELSE input.members[name]]

build_model_record(c, input, id) ==
    [name \in {Model[c][i].name : i \in Present(c, input)} |->
        IF FieldAt(c, name).primary
        THEN generated_primary_value(FieldAt(c, name), id)
        ELSE input.members[name]]

\* Every field the record has is admitted by its type, and it lacks only
\* optional ones.
validate_model_fields(c, record) ==
    \A i \in DOMAIN Model[c] :
        IF Model[c][i].name \in DOMAIN record
        THEN record[Model[c][i].name] \in Model[c][i].admits
        ELSE Model[c][i].optional

primary_record_key(c, record) ==
    json_key(record[Model[c][CHOOSE i \in Primaries(c) : TRUE].name])

\* Mutant: the built record is not validated.
InsertUnvalidated(c, input, id) ==
    IF input.kind # "object" THEN InvalidInput("invalid_json")
    ELSE IF BuildError(c, input, id) # NoError THEN BuildError(c, input, id)
    ELSE IF Primaries(c) = {} THEN Unsupported
    ELSE NoError

\* Why inserting this input fails, in the order the code finds out.
InsertError(c, input, id) ==
    IF input.kind # "object" THEN InvalidInput("invalid_json")
    ELSE IF BuildError(c, input, id) # NoError THEN BuildError(c, input, id)
    ELSE IF ~validate_model_fields(c, build_model_record(c, input, id))
         THEN InvalidInput("invalid_json")
    ELSE IF Primaries(c) = {} THEN Unsupported
    ELSE NoError

-----------------------------------------------------------------------------

StoreInit ==
    /\ next_id = [c \in Collections |-> 0]
    /\ records = [c \in Collections |-> << >>]
    /\ ret \in {Err("none", c, NoText, NoError) : c \in Collections}

\* Mutant: a record is filed under its position.
PutAtLength(table, key, record) ==
    LET position == Cardinality(DOMAIN table) + 1
    IN  [k \in DOMAIN table \cup {position} |-> IF k = position THEN record ELSE table[k]]

\* HashMap::insert: the record under key, whatever was there before.
Put(table, key, record) ==
    [k \in DOMAIN table \cup {key} |-> IF k = key THEN record ELSE table[k]]

\* Mutant: the record is stored before it is validated.
insert_before_validation(c, input) ==
    LET id == next_id[c] + 1
        error == InsertError(c, input, id)
        record == build_model_record(c, input, id)
        built == input.kind = "object" /\ BuildError(c, input, id) = NoError /\ Primaries(c) # {}
    IN  /\ next_id[c] < MaxId
        /\ next_id' = [next_id EXCEPT ![c] = id]
        /\ records' = IF built THEN [records EXCEPT ![c] = Put(records[c], id, record)]
                      ELSE records
        /\ ret' = IF error = NoError THEN Ok("insert", c, id, record)
                  ELSE Err("insert", c, NoText, error)

\* The counter moves before anything can fail, and no failure moves it back.
insert_model(c, input) ==
    LET id == next_id[c] + 1
        error == InsertError(c, input, id)
        record == build_model_record(c, input, id)
        key == primary_record_key(c, record)
    IN  /\ next_id[c] < MaxId
        /\ next_id' = [next_id EXCEPT ![c] = id]
        /\ IF error = NoError
           THEN /\ records' = [records EXCEPT ![c] = Put(records[c], key, record)]
                /\ ret' = Ok("insert", c, key, record)
           ELSE /\ ret' = Err("insert", c, NoText, error)
                /\ UNCHANGED records

get_model(c, id) ==
    /\ ret' = LET key == json_key(id) IN
              IF key = NoText THEN Err("get", c, key, InvalidInput("invalid_id"))
              ELSE IF key \notin DOMAIN records[c] THEN Err("get", c, key, NotFound)
              ELSE Ok("get", c, key, records[c][key])
    /\ UNCHANGED <<next_id, records>>

\* Keys are compared as strings, and a key is a decimal text: digit by digit
\* from the left, a proper prefix first.
Digits[n \in Nat] == IF n < Base THEN <<n>> ELSE Append(Digits[n \div Base], n % Base)

KeyLess(a, b) ==
    LET s == Digits[a] t == Digits[b] IN
    \E n \in 0..Len(s) :
        /\ n < Len(t)
        /\ \A i \in 1..n : s[i] = t[i]
        /\ n = Len(s) \/ s[n + 1] < t[n + 1]

\* Mutant: the listing is sorted by number.
SortedByNumber(c) ==
    LET keys == DOMAIN records[c]
    IN  [i \in 1..Cardinality(keys) |->
            CHOOSE k \in keys : Cardinality({j \in keys : j < k}) = i - 1]

\* The i-th key of a listing has i - 1 keys before it.
SortedKeys(c) ==
    LET keys == DOMAIN records[c]
    IN  [i \in 1..Cardinality(keys) |->
            CHOOSE k \in keys : Cardinality({j \in keys : KeyLess(j, k)}) = i - 1]

list_model(c) ==
    /\ ret' = Ok("all", c, NoText,
                 [i \in DOMAIN SortedKeys(c) |-> records[c][SortedKeys(c)[i]]])
    /\ UNCHANGED <<next_id, records>>

StoreNext ==
    \E c \in Collections :
        \/ \E input \in Inputs : insert_model(c, input)
        \/ \E id \in Ids : get_model(c, id)
        \/ list_model(c)

StoreSpec == StoreInit /\ [][StoreNext]_storeVars

-----------------------------------------------------------------------------
(***************************************************************************)
(* Properties.                                                             *)
(***************************************************************************)

FieldNames(c) == {Model[c][i].name : i \in DOMAIN Model[c]}

\* A row of c: some of the model's fields, each with a JSON value.
IsRow(c, r) == DOMAIN r \subseteq FieldNames(c) /\ r \in [DOMAIN r -> Scalars]

Refusals == {InvalidInput("invalid_json"), InvalidInput("invalid_id"), Unsupported}

\* Every collection has a counter and, under ids the counter can reach, rows
\* of its model: no field the model lacks is stored, whatever the input had.
StoreTypeOK ==
    /\ next_id \in [Collections -> 0..MaxId]
    /\ DOMAIN records = Collections
    /\ \A c \in Collections :
          /\ DOMAIN records[c] \subseteq Decimals
          /\ \A k \in DOMAIN records[c] : IsRow(c, records[c][k])

\* A record sits under the key its own primary field spells, and that id is
\* one the counter handed out: insert_model derives the key from the record
\* after building it, get_model from the caller's value.
RecordsKeyedByTheirId ==
    \A c \in Collections : \A k \in DOMAIN records[c] :
        /\ Primaries(c) # {}
        /\ primary_record_key(c, records[c][k]) = k
        /\ k <= next_id[c]

\* What is stored would pass the model's validation again, so a response
\* that returns a stored record conforms to the model type.
StoredRecordsValid ==
    \A c \in Collections : \A k \in DOMAIN records[c] :
        validate_model_fields(c, records[c][k])

\* An id the counter has passed without a record (its insert failed) never
\* gets one: a read that missed an id handed out before misses it for good.
BurnedIdsStayUnused ==
    [][\A c \in Collections : \A k \in 1..next_id[c] :
            k \in DOMAIN records'[c] => k \in DOMAIN records[c]]_storeVars

\* A listing returns every record of the collection exactly once, in the
\* order of the keys as strings.
ListingIsComplete ==
    ret.op = "all" =>
        /\ Len(ret.value) = Cardinality(DOMAIN records[ret.coll])
        /\ \A k \in DOMAIN records[ret.coll] :
              \E i \in DOMAIN ret.value : ret.value[i] = records[ret.coll][k]
        /\ \A i, j \in DOMAIN ret.value : i < j =>
              KeyLess(primary_record_key(ret.coll, ret.value[i]),
                      primary_record_key(ret.coll, ret.value[j]))

\* The store implements the table its callers rely on: an insert adds one
\* fresh row and returns it, a refused call changes nothing, a read returns
\* what was added and misses only what is absent.
Table == INSTANCE AreTable WITH
            Keys <- Texts, NoKey <- NoText, Missing <- NotFound,
            table <- records, reply <- ret

ImplementsTable == Table!Spec

=============================================================================
