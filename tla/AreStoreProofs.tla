--------------------------- MODULE AreStoreProofs ---------------------------
(***************************************************************************)
(* Proofs about AreStore, for every set of collections, every model the    *)
(* checker lets through and every input.                                   *)
(***************************************************************************)
EXTENDS AreStore, AreLemmas

-----------------------------------------------------------------------------
(***************************************************************************)
(* What build_model_record returns.                                        *)
(***************************************************************************)

\* A field name finds its field: names are unique in a model.
LEMMA FieldAtName ==
    ASSUME NEW c \in Collections, NEW i \in DOMAIN Model[c]
    PROVE  FieldAt(c, Model[c][i].name) = Model[c][i]
<1>1. \A j \in DOMAIN Model[c] : Model[c][j].name = Model[c][i].name => j = i
  BY ModelAssumption
<1>2. (CHOOSE j \in DOMAIN Model[c] : Model[c][j].name = Model[c][i].name) = i
  BY <1>1
<1>3. QED
  BY <1>2 DEF FieldAt

\* A primary field finds itself: a model has at most one.
LEMMA PrimaryField ==
    ASSUME NEW c \in Collections, Primaries(c) # {}
    PROVE  LET p == CHOOSE i \in Primaries(c) : TRUE
           IN  p \in DOMAIN Model[c] /\ Model[c][p].primary
<1>1. (CHOOSE i \in Primaries(c) : TRUE) \in Primaries(c)
  OBVIOUS
<1>2. QED
  BY <1>1 DEF Primaries

\* An insert that meets no error was given an object and has a primary field,
\* and its record passes validation.
LEMMA NoInsertError ==
    ASSUME NEW c, NEW input, NEW id, InsertError(c, input, id) = NoError
    PROVE  /\ input.kind = "object"
           /\ validate_model_fields(c, build_model_record(c, input, id))
           /\ Primaries(c) # {}
<1>1. /\ InvalidInput("invalid_json") # NoError
      /\ Unsupported # NoError
  BY DEF InvalidInput, Unsupported, NoError, Error
<1>2. QED
  BY <1>1 DEF InsertError

\* The record is stored under the id drawn for it, whatever the input says.
LEMMA BuiltKey ==
    ASSUME NEW c \in Collections, NEW input, NEW id \in Decimals, Primaries(c) # {}
    PROVE  primary_record_key(c, build_model_record(c, input, id)) = id
<1> DEFINE p == CHOOSE i \in Primaries(c) : TRUE
           record == build_model_record(c, input, id)
<1>1. p \in DOMAIN Model[c] /\ Model[c][p].primary
  BY PrimaryField
<1>2. p \in Present(c, input)
  BY <1>1 DEF Present
<1>3. FieldAt(c, Model[c][p].name) = Model[c][p]
  BY <1>1, FieldAtName
<1>4. record[Model[c][p].name] = generated_primary_value(Model[c][p], id)
  BY <1>1, <1>2, <1>3 DEF build_model_record
<1>5. json_key(generated_primary_value(Model[c][p], id)) = id
  BY DEF json_key, generated_primary_value
<1>6. QED
  BY <1>4, <1>5 DEF primary_record_key

\* The record has fields of the model only, each with a JSON value.
LEMMA BuiltRow ==
    ASSUME NEW c \in Collections, NEW input \in Inputs, NEW id \in Decimals,
           input.kind = "object"
    PROVE  IsRow(c, build_model_record(c, input, id))
<1> DEFINE record == build_model_record(c, input, id)
           names == {Model[c][i].name : i \in Present(c, input)}
<1>1. Present(c, input) \subseteq DOMAIN Model[c]
  BY DEF Present
<1>2. DOMAIN record = names
  BY DEF build_model_record
<1>3. DOMAIN record \subseteq FieldNames(c)
  BY <1>1, <1>2 DEF FieldNames
<1>4. ASSUME NEW name \in names
      PROVE  record[name] \in Scalars
  <2>1. PICK i \in Present(c, input) : name = Model[c][i].name
    OBVIOUS
  <2>2. FieldAt(c, name) = Model[c][i]
    BY <1>1, <2>1, FieldAtName
  <2>3. CASE Model[c][i].primary
    <3>1. record[name] = generated_primary_value(Model[c][i], id)
      BY <2>2, <2>3 DEF build_model_record
    <3>2. id \in Texts
      BY KeyAssumption
    <3>3. QED
      BY <3>1, <3>2 DEF generated_primary_value, Scalars, Kinds
  <2>4. CASE ~Model[c][i].primary
    <3>1. record[name] = input.members[name]
      BY <2>2, <2>4 DEF build_model_record
    <3>2. name \in DOMAIN input.members
      BY <2>1, <2>4 DEF Present
    <3>3. QED
      BY <3>1, <3>2, InputAssumption
  <2>5. QED
    BY <2>3, <2>4
<1>5. record = [name \in names |-> record[name]]
  BY DEF build_model_record
<1>6. QED
  BY <1>2, <1>3, <1>4, <1>5 DEF IsRow

-----------------------------------------------------------------------------
(***************************************************************************)
(* What an accepted insert does, in one place: every invariant below needs *)
(* exactly this.                                                           *)
(***************************************************************************)

\* An insert either leaves the records as they were or adds, under the id
\* just drawn, a valid row of the model that spells that id.
LEMMA InsertStep ==
    ASSUME NEW c \in Collections, NEW input \in Inputs, StoreTypeOK, insert_model(c, input)
    PROVE  LET id == next_id[c] + 1
               record == build_model_record(c, input, id)
           IN  /\ id \in Decimals
               /\ next_id' = [next_id EXCEPT ![c] = id]
               /\ \/ /\ UNCHANGED records
                     /\ \E e \in Refusals : ret' = Err("insert", c, NoText, e)
                  \/ /\ records' = [records EXCEPT ![c] = Put(records[c], id, record)]
                     /\ ret' = Ok("insert", c, id, record)
                     /\ IsRow(c, record)
                     /\ validate_model_fields(c, record)
                     /\ Primaries(c) # {}
                     /\ primary_record_key(c, record) = id
<1> DEFINE id == next_id[c] + 1
           error == InsertError(c, input, id)
           record == build_model_record(c, input, id)
<1>1. id \in Decimals
  BY KeyAssumption DEF StoreTypeOK, insert_model, Decimals
<1>2. CASE error = NoError
  <2>1. /\ input.kind = "object"
        /\ validate_model_fields(c, record)
        /\ Primaries(c) # {}
    BY <1>2, NoInsertError
  <2>2. primary_record_key(c, record) = id
    BY <1>1, <2>1, BuiltKey
  <2>3. IsRow(c, record)
    BY <1>1, <2>1, BuiltRow
  <2>4. QED
    BY <1>1, <1>2, <2>1, <2>2, <2>3 DEF insert_model
<1>3. CASE error # NoError
  <2>1. error \in Refusals
    BY <1>3 DEF InsertError, BuildError, FieldError, Refusals
  <2>2. QED
    BY <1>1, <1>3, <2>1 DEF insert_model
<1>4. QED
  BY <1>2, <1>3

\* The reads leave the store alone.
LEMMA ReadStep ==
    ASSUME NEW c \in Collections,
           list_model(c) \/ \E id \in Ids : get_model(c, id)
    PROVE  UNCHANGED <<next_id, records>>
BY DEF list_model, get_model

-----------------------------------------------------------------------------
(***************************************************************************)
(* Invariance.                                                             *)
(***************************************************************************)

\* A call of the store keeps its types.
LEMMA StoreTypeStep == StoreTypeOK /\ [StoreNext]_storeVars => StoreTypeOK'
<1> SUFFICES ASSUME StoreTypeOK, [StoreNext]_storeVars
             PROVE  StoreTypeOK'
  OBVIOUS
<1>1. ASSUME NEW c \in Collections, NEW input \in Inputs, insert_model(c, input)
      PROVE  StoreTypeOK'
  <2> DEFINE id == next_id[c] + 1
             record == build_model_record(c, input, id)
  <2>1. id \in Decimals /\ next_id' = [next_id EXCEPT ![c] = id]
    BY <1>1, InsertStep
  <2>2. next_id' \in [Collections -> 0..MaxId]
    BY <2>1, KeyAssumption DEF StoreTypeOK, Decimals
  <2>3. CASE UNCHANGED records
    BY <2>2, <2>3 DEF StoreTypeOK, IsRow
  <2>4. CASE /\ records' = [records EXCEPT ![c] = Put(records[c], id, record)]
             /\ IsRow(c, record)
    BY <2>1, <2>2, <2>4 DEF StoreTypeOK, Put
  <2>5. QED
    BY <1>1, <2>3, <2>4, InsertStep
<1>2. ASSUME NEW c \in Collections, list_model(c) \/ \E id \in Ids : get_model(c, id)
      PROVE  StoreTypeOK'
  BY <1>2, ReadStep DEF StoreTypeOK
<1>3. CASE UNCHANGED storeVars
  BY <1>3 DEF StoreTypeOK, storeVars
<1>4. QED
  BY <1>1, <1>2, <1>3 DEF StoreNext

\* Type correctness: the store only ever holds rows of its models, under ids
\* within the bound, whatever inserts are attempted.
THEOREM TypeCorrect == StoreSpec => []StoreTypeOK
<1>1. StoreInit => StoreTypeOK
  BY KeyAssumption DEF StoreInit, StoreTypeOK
<1>2. QED
  BY <1>1, StoreTypeStep, PTL DEF StoreSpec

\* A call of the store keeps its keys.
LEMMA StoreKeyStep == StoreTypeOK /\ RecordsKeyedByTheirId /\ [StoreNext]_storeVars => RecordsKeyedByTheirId'
<1> SUFFICES ASSUME StoreTypeOK, RecordsKeyedByTheirId, [StoreNext]_storeVars
             PROVE  RecordsKeyedByTheirId'
  OBVIOUS
<1>1. ASSUME NEW c \in Collections, NEW input \in Inputs, insert_model(c, input)
      PROVE  RecordsKeyedByTheirId'
  <2> DEFINE id == next_id[c] + 1
             record == build_model_record(c, input, id)
  <2>1. id \in Decimals /\ next_id' = [next_id EXCEPT ![c] = id]
    BY <1>1, InsertStep
  <2>2. \A d \in Collections : /\ next_id[d] \in Nat
                               /\ next_id'[d] \in Nat
                               /\ next_id[d] <= next_id'[d]
    BY <2>1, KeyAssumption DEF StoreTypeOK, Decimals
  <2>3. CASE UNCHANGED records
    <3> SUFFICES ASSUME NEW d \in Collections, NEW k \in DOMAIN records[d]
                 PROVE  /\ Primaries(d) # {}
                        /\ primary_record_key(d, records[d][k]) = k
                        /\ k <= next_id'[d]
      BY <2>3 DEF RecordsKeyedByTheirId, primary_record_key, Primaries
    <3>1. k \in Nat
      BY KeyAssumption DEF StoreTypeOK, Decimals
    <3>2. QED
      BY <2>2, <3>1 DEF RecordsKeyedByTheirId
  <2>4. CASE /\ records' = [records EXCEPT ![c] = Put(records[c], id, record)]
             /\ Primaries(c) # {}
             /\ primary_record_key(c, record) = id
    <3> SUFFICES ASSUME NEW d \in Collections, NEW k \in DOMAIN records'[d]
                 PROVE  /\ Primaries(d) # {}
                        /\ primary_record_key(d, records'[d][k]) = k
                        /\ k <= next_id'[d]
      BY DEF RecordsKeyedByTheirId, primary_record_key, Primaries
    <3>1. DOMAIN records = Collections
      BY DEF StoreTypeOK
    <3>2. CASE d = c /\ k = id
      <4>1. records'[d][k] = record
        BY <2>4, <3>1, <3>2 DEF Put
      <4>2. QED
        BY <2>1, <2>4, <3>2, <4>1, KeyAssumption DEF Decimals, StoreTypeOK
    <3>3. CASE ~(d = c /\ k = id)
      <4>1. k \in DOMAIN records[d] /\ records'[d][k] = records[d][k]
        BY <2>4, <3>1, <3>3 DEF Put
      <4>2. k \in Nat
        BY <4>1, KeyAssumption DEF StoreTypeOK, Decimals
      <4>3. QED
        BY <2>2, <4>1, <4>2 DEF RecordsKeyedByTheirId
    <3>4. QED
      BY <3>2, <3>3
  <2>5. QED
    BY <1>1, <2>3, <2>4, InsertStep
<1>2. ASSUME NEW c \in Collections, list_model(c) \/ \E id \in Ids : get_model(c, id)
      PROVE  RecordsKeyedByTheirId'
  BY <1>2, ReadStep DEF RecordsKeyedByTheirId, primary_record_key, Primaries
<1>3. CASE UNCHANGED storeVars
  BY <1>3 DEF RecordsKeyedByTheirId, primary_record_key, Primaries, storeVars
<1>4. QED
  BY <1>1, <1>2, <1>3 DEF StoreNext

\* A record is stored under the id its primary field spells, and never under
\* one the counter has not reached.
THEOREM RecordsKeyed == StoreSpec => []RecordsKeyedByTheirId
<1>1. StoreInit => RecordsKeyedByTheirId
  BY DEF StoreInit, RecordsKeyedByTheirId
<1>2. QED
  BY <1>1, StoreKeyStep, TypeCorrect, PTL DEF StoreSpec

\* A call of the store keeps its records valid.
LEMMA StoreValidStep == StoreTypeOK /\ StoredRecordsValid /\ [StoreNext]_storeVars => StoredRecordsValid'
<1> SUFFICES ASSUME StoreTypeOK, StoredRecordsValid, [StoreNext]_storeVars
             PROVE  StoredRecordsValid'
  OBVIOUS
<1>1. ASSUME NEW c \in Collections, NEW input \in Inputs, insert_model(c, input)
      PROVE  StoredRecordsValid'
  <2> DEFINE id == next_id[c] + 1
             record == build_model_record(c, input, id)
  <2>1. CASE UNCHANGED records
    BY <2>1 DEF StoredRecordsValid, validate_model_fields
  <2>2. CASE /\ records' = [records EXCEPT ![c] = Put(records[c], id, record)]
             /\ validate_model_fields(c, record)
    <3> SUFFICES ASSUME NEW d \in Collections, NEW k \in DOMAIN records'[d]
                 PROVE  validate_model_fields(d, records'[d][k])
      BY DEF StoredRecordsValid, validate_model_fields
    <3>1. DOMAIN records = Collections
      BY DEF StoreTypeOK
    <3>2. CASE d = c /\ k = id
      <4>1. records'[d][k] = record
        BY <2>2, <3>1, <3>2 DEF Put
      <4>2. QED
        BY <2>2, <3>2, <4>1
    <3>3. CASE ~(d = c /\ k = id)
      <4>1. k \in DOMAIN records[d] /\ records'[d][k] = records[d][k]
        BY <2>2, <3>1, <3>3 DEF Put
      <4>2. QED
        BY <4>1 DEF StoredRecordsValid
    <3>4. QED
      BY <3>2, <3>3
  <2>3. QED
    BY <1>1, <2>1, <2>2, InsertStep
<1>2. ASSUME NEW c \in Collections, list_model(c) \/ \E id \in Ids : get_model(c, id)
      PROVE  StoredRecordsValid'
  BY <1>2, ReadStep DEF StoredRecordsValid, validate_model_fields
<1>3. CASE UNCHANGED storeVars
  BY <1>3 DEF StoredRecordsValid, validate_model_fields, storeVars
<1>4. QED
  BY <1>1, <1>2, <1>3 DEF StoreNext

\* What is stored would be accepted again: validation precedes the store, and
\* nothing changes a record afterwards.
THEOREM RecordsValid == StoreSpec => []StoredRecordsValid
<1>1. StoreInit => StoredRecordsValid
  BY DEF StoreInit, StoredRecordsValid
<1>2. QED
  BY <1>1, StoreValidStep, TypeCorrect, PTL DEF StoreSpec

-----------------------------------------------------------------------------
(***************************************************************************)
(* The keys of a listing.  Digits is recursive: that it is defined at all, *)
(* and that no two numbers are written alike, is shown by the least number *)
(* for which it fails.                                                     *)
(***************************************************************************)

\* Division with remainder, by the base of the numerals.
LEMMA Division ==
    ASSUME NEW n \in Nat, n >= Base
    PROVE  /\ n \div Base \in Nat /\ n \div Base < n
           /\ n % Base \in 0..Base - 1
           /\ n = (Base * (n \div Base)) + (n % Base)
<1>1. Base \in Nat /\ Base > 1
  BY KeyAssumption
<1>2. n % Base \in 0..Base - 1
  BY <1>1
<1>3. n = (Base * (n \div Base)) + (n % Base)
  BY <1>1
<1>4. n \div Base \in Nat
  BY <1>1
<1>5. n \div Base < n
  BY <1>1, <1>2, <1>3, <1>4
<1>6. QED
  BY <1>2, <1>3, <1>4, <1>5

\* f writes the numbers to n.
Writes(f, n) ==
    f = [m \in 0..n |-> IF m < Base THEN <<m>> ELSE Append(f[m \div Base], m % Base)]

\* There is a function that writes each number up to n.
LEMMA WritesExists ==
    ASSUME NEW n \in Nat
    PROVE  \E f : Writes(f, n)
<1> DEFINE T == {m \in Nat : ~ \E f : Writes(f, m)}
<1>1. SUFFICES ASSUME T # {} PROVE FALSE
  OBVIOUS
<1>2. PICK m \in T : \A i \in T : m <= i
  BY <1>1, NatMin
<1>3. PICK g : \A k \in 0..m - 1 :
         g[k] = IF k < Base THEN <<k>> ELSE Append(g[k \div Base], k % Base)
  <2>1. CASE m = 0
    BY <2>1
  <2>2. CASE m # 0
    <3>1. m - 1 \in Nat /\ m - 1 \notin T
      BY <1>2, <2>2
    <3>2. PICK f : Writes(f, m - 1)
      BY <3>1
    <3>3. QED
      BY <3>2 DEF Writes
  <2>3. QED
    BY <2>1, <2>2
<1> DEFINE f == [k \in 0..m |-> IF k < m THEN g[k]
                                ELSE IF m < Base THEN <<m>> ELSE Append(g[m \div Base], m % Base)]
<1>4. ASSUME NEW k \in 0..m
      PROVE  f[k] = IF k < Base THEN <<k>> ELSE Append(f[k \div Base], k % Base)
  <2>1. CASE k < Base
    <3>1. CASE k < m
      <4>1. k \in 0..m - 1 /\ f[k] = g[k]
        BY <3>1
      <4>2. QED
        BY <1>3, <2>1, <4>1
    <3>2. CASE k = m
      BY <2>1, <3>2
    <3>3. QED
      BY <3>1, <3>2
  <2>2. CASE ~(k < Base)
    <3>1. k \div Base \in 0..m - 1
      BY <2>2, KeyAssumption, Division
    <3>2. f[k \div Base] = g[k \div Base]
      BY <3>1
    <3>3. f[k] = Append(g[k \div Base], k % Base)
      <4>1. CASE k < m
        <5>1. k \in 0..m - 1 /\ f[k] = g[k]
          BY <4>1
        <5>2. QED
          BY <1>3, <2>2, <5>1
      <4>2. CASE k = m
        BY <2>2, <4>2
      <4>3. QED
        BY <4>1, <4>2
    <3>4. QED
      BY <2>2, <3>2, <3>3
  <2>3. QED
    BY <2>1, <2>2
<1>5. Writes(f, m)
  BY <1>4 DEF Writes
<1>6. QED
  BY <1>5

\* Two such functions write the numbers that both write alike.
LEMMA WritesAlike ==
    ASSUME NEW n \in Nat, NEW f, Writes(f, n), NEW m \in Nat, NEW g, Writes(g, m)
    PROVE  \A k \in 0..n : k <= m => f[k] = g[k]
<1> DEFINE T == {k \in 0..n : k <= m /\ f[k] # g[k]}
<1>1. SUFFICES ASSUME T # {} PROVE FALSE
  OBVIOUS
<1>2. PICK k \in T : \A i \in T : k <= i
  <2>1. T \subseteq Nat
    OBVIOUS
  <2>2. QED
    BY <1>1, <2>1, NatMin
<1>3. /\ f[k] = IF k < Base THEN <<k>> ELSE Append(f[k \div Base], k % Base)
      /\ g[k] = IF k < Base THEN <<k>> ELSE Append(g[k \div Base], k % Base)
  <2>1. k \in 0..n /\ k \in 0..m
    OBVIOUS
  <2>2. QED
    BY <2>1 DEF Writes
<1>4. CASE k < Base
  BY <1>3, <1>4
<1>5. CASE ~(k < Base)
  <2>1. k \div Base \in Nat /\ k \div Base < k
    BY <1>5, KeyAssumption, Division
  <2>2. k \div Base \notin T /\ k \div Base \in 0..n /\ k \div Base <= m
    BY <1>2, <2>1
  <2>3. f[k \div Base] = g[k \div Base]
    BY <2>2
  <2>4. f[k] = g[k]
    BY <1>3, <1>5, <2>3
  <2>5. QED
    BY <2>4
<1>6. QED
  BY <1>4, <1>5

\* So Digits is what its recursive definition says.
LEMMA DigitsOf ==
    ASSUME NEW n \in Nat
    PROVE  Digits[n] = IF n < Base THEN <<n>> ELSE Append(Digits[n \div Base], n % Base)
<1> DEFINE some(m) == CHOOSE f : Writes(f, m)
           all == [m \in Nat |-> some(m)[m]]
<1>1. \A m \in Nat : Writes(some(m), m)
  BY WritesExists
<1>2. ASSUME NEW m \in Nat
      PROVE  all[m] = IF m < Base THEN <<m>> ELSE Append(all[m \div Base], m % Base)
  <2>1. some(m)[m] = IF m < Base THEN <<m>> ELSE Append(some(m)[m \div Base], m % Base)
    <3>1. m \in 0..m
      OBVIOUS
    <3> HIDE DEF some
    <3>2. QED
      BY <1>1, <3>1 DEF Writes
  <2>2. CASE m < Base
    BY <2>1, <2>2
  <2>3. CASE ~(m < Base)
    <3>1. m \div Base \in Nat /\ m \div Base < m
      BY <2>3, KeyAssumption, Division
    <3>2. some(m)[m \div Base] = some(m \div Base)[m \div Base]
      <4>1. m \div Base \in 0..m /\ m \div Base <= m \div Base
        BY <3>1
      <4>2. Writes(some(m), m) /\ Writes(some(m \div Base), m \div Base)
        BY <1>1, <3>1
      <4> HIDE DEF some
      <4>3. QED
        BY <3>1, <4>1, <4>2, WritesAlike
    <3> HIDE DEF some
    <3>3. QED
      BY <2>1, <2>3, <3>1, <3>2
  <2>4. QED
    BY <2>2, <2>3
<1>3. all = [m \in Nat |-> IF m < Base THEN <<m>> ELSE Append(all[m \div Base], m % Base)]
  <2>1. all = [m \in Nat |-> all[m]]
    OBVIOUS
  <2> HIDE DEF all
  <2>2. QED
    BY <1>2, <2>1, Zenon
<1> HIDE DEF all
<1>4. Digits = [m \in Nat |-> IF m < Base THEN <<m>> ELSE Append(Digits[m \div Base], m % Base)]
  BY <1>3 DEF Digits
<1>5. QED
  BY <1>4

\* A numeral is a sequence of digits, not empty.
LEMMA DigitsTyped ==
    \A n \in Nat : Digits[n] \in Seq(Nat) /\ Len(Digits[n]) >= 1
<1> DEFINE T == {n \in Nat : ~(Digits[n] \in Seq(Nat) /\ Len(Digits[n]) >= 1)}
<1>1. SUFFICES ASSUME T # {} PROVE FALSE
  OBVIOUS
<1>2. PICK n \in T : \A i \in T : n <= i
  BY <1>1, NatMin
<1>3. CASE n < Base
  <2>1. Digits[n] = <<n>>
    BY <1>3, DigitsOf
  <2>2. <<n>> \in Seq(Nat) /\ Len(<<n>>) >= 1
    OBVIOUS
  <2>3. Digits[n] \in Seq(Nat) /\ Len(Digits[n]) >= 1
    BY <2>1, <2>2, Zenon
  <2>4. QED
    BY <2>3
<1>4. CASE ~(n < Base)
  <2>1. n \div Base \in Nat /\ n \div Base < n /\ n % Base \in Nat
    BY <1>4, KeyAssumption, Division
  <2>2. Digits[n \div Base] \in Seq(Nat) /\ Len(Digits[n \div Base]) >= 1
    BY <1>2, <2>1
  <2>3. Digits[n] = Append(Digits[n \div Base], n % Base)
    BY <1>4, DigitsOf
  <2>4. \A s \in Seq(Nat), x \in Nat :
           Append(s, x) \in Seq(Nat) /\ Len(Append(s, x)) = Len(s) + 1 /\ Len(s) \in Nat
    OBVIOUS
  <2>5. Digits[n] \in Seq(Nat) /\ Len(Digits[n]) = Len(Digits[n \div Base]) + 1
        /\ Len(Digits[n \div Base]) \in Nat
    BY <2>1, <2>2, <2>3, <2>4
  <2>6. Len(Digits[n]) >= 1
    BY <2>5
  <2>7. QED
    BY <2>5, <2>6
<1>5. QED
  BY <1>3, <1>4

\* A numeral tells its number.
LEMMA DigitsTell ==
    \A n, m \in Nat : Digits[n] = Digits[m] => n = m
<1> DEFINE T == {n \in Nat : \E m \in Nat : Digits[n] = Digits[m] /\ n # m}
<1>1. SUFFICES ASSUME T # {} PROVE FALSE
  OBVIOUS
<1>2. PICK n \in T : \A i \in T : n <= i
  BY <1>1, NatMin
<1>3. PICK m \in Nat : Digits[n] = Digits[m] /\ n # m
  OBVIOUS
<1>4. ASSUME NEW k \in Nat
      PROVE  /\ k < Base => Digits[k] = <<k>> /\ Len(Digits[k]) = 1
             /\ ~(k < Base) =>
                    /\ Digits[k] = Append(Digits[k \div Base], k % Base)
                    /\ Digits[k \div Base] \in Seq(Nat) /\ k % Base \in Nat
                    /\ Len(Digits[k]) >= 2
  <2>1. CASE k < Base
    <3>1. Digits[k] = <<k>>
      BY <2>1, DigitsOf
    <3>2. Len(<<k>>) = 1
      OBVIOUS
    <3>3. QED
      BY <2>1, <3>1, <3>2
  <2>2. CASE ~(k < Base)
    <3>1. k \div Base \in Nat /\ k % Base \in Nat
      BY <2>2, KeyAssumption, Division
    <3>2. Digits[k \div Base] \in Seq(Nat) /\ Len(Digits[k \div Base]) >= 1
      BY <3>1, DigitsTyped
    <3>3. Digits[k] = Append(Digits[k \div Base], k % Base)
      BY <2>2, DigitsOf
    <3>4. QED
      BY <2>2, <3>1, <3>2, <3>3
  <2>3. QED
    BY <2>1, <2>2
<1>5. CASE n < Base
  <2>1. Len(Digits[m]) = 1
    BY <1>3, <1>4, <1>5
  <2>2. m < Base
    BY <1>4, <2>1
  <2>3. <<n>> = <<m>>
    BY <1>3, <1>4, <1>5, <2>2
  <2>4. QED
    BY <1>3, <2>3
<1>6. CASE ~(n < Base)
  <2>1. ~(m < Base)
    BY <1>3, <1>4, <1>6
  <2>2. Append(Digits[n \div Base], n % Base) = Append(Digits[m \div Base], m % Base)
    BY <1>3, <1>4, <1>6, <2>1
  <2>3. Digits[n \div Base] = Digits[m \div Base] /\ n % Base = m % Base
    <3> DEFINE s == Digits[n \div Base]
               t == Digits[m \div Base]
    <3>1. s \in Seq(Nat) /\ t \in Seq(Nat) /\ n % Base \in Nat /\ m % Base \in Nat
      BY <1>4, <1>6, <2>1
    <3> HIDE DEF s, t
    <3>2. Append(s, n % Base) = Append(t, m % Base)
      BY <2>2 DEF s, t
    <3>3. Len(s) = Len(t) /\ n % Base = m % Base
      BY <3>1, <3>2
    <3>4. \A i \in 1..Len(s) : s[i] = t[i]
      BY <3>1, <3>2, <3>3, SMTT(30)
    <3>5. s = [i \in 1..Len(s) |-> s[i]] /\ t = [i \in 1..Len(t) |-> t[i]]
      BY <3>1
    <3>6. s = t
      BY <3>3, <3>4, <3>5
    <3>7. QED
      BY <3>3, <3>6 DEF s, t
  <2>4. /\ n \div Base \in Nat /\ n \div Base < n /\ n = (Base * (n \div Base)) + (n % Base)
        /\ m \div Base \in Nat /\ m = (Base * (m \div Base)) + (m % Base)
    BY <1>6, <2>1, KeyAssumption, Division
  <2>5. n \div Base = m \div Base
    BY <1>2, <2>3, <2>4
  <2>6. QED
    BY <1>3, <2>3, <2>4, <2>5
<1>7. QED
  BY <1>5, <1>6

\* The keys of a collection are totally ordered.
LEMMA KeysOrdered ==
    ASSUME NEW S, S \subseteq Nat
    PROVE  StrictTotalOrder(S, {p \in S \X S : KeyLess(p[1], p[2])})
<1> DEFINE R == {p \in S \X S : KeyLess(p[1], p[2])}
<1>1. \A a, b : KeyLess(a, b) <=> Precedes(Digits[a], Digits[b])
  BY DEF KeyLess, Precedes
<1>2. \A a, b \in S : <<a, b>> \in R <=> Precedes(Digits[a], Digits[b])
  BY <1>1
<1>3. \A a \in S : Digits[a] \in Seq(Nat)
  BY DigitsTyped
<1> HIDE DEF R
<1>4. \A a \in S : <<a, a>> \notin R
  BY <1>2, <1>3, PrecedesIrreflexive
<1>5. \A a, b, c \in S : <<a, b>> \in R /\ <<b, c>> \in R => <<a, c>> \in R
  BY <1>2, <1>3, PrecedesTransitive
<1>6. \A a, b \in S : a # b => <<a, b>> \in R \/ <<b, a>> \in R
  BY <1>2, <1>3, DigitsTell, PrecedesTotal
<1>7. QED
  BY <1>4, <1>5, <1>6 DEF StrictTotalOrder, R

\* A listing has every key once, in their order.
LEMMA SortedKeysListed ==
    ASSUME NEW c \in Collections, DOMAIN records[c] \subseteq Decimals
    PROVE  LET keys == DOMAIN records[c]
               sorted == SortedKeys(c)
           IN  /\ Cardinality(keys) \in Nat /\ sorted \in [1..Cardinality(keys) -> keys]
               /\ \A k \in keys : \E i \in 1..Cardinality(keys) : sorted[i] = k
               /\ \A i, j \in 1..Cardinality(keys) : i < j => KeyLess(sorted[i], sorted[j])
<1> DEFINE keys == DOMAIN records[c]
           sorted == SortedKeys(c)
           n == Cardinality(keys)
           R == {p \in keys \X keys : KeyLess(p[1], p[2])}
           rank(k) == Cardinality(Before(keys, R, k))
<1>1. keys \subseteq Nat /\ IsFiniteSet(keys)
  <2>1. IsFiniteSet(Decimals) /\ Decimals \subseteq Nat
    BY KeyAssumption, FS_Interval DEF Decimals
  <2>2. QED
    BY <2>1, FS_Subset
<1>2. StrictTotalOrder(keys, R)
  BY <1>1, KeysOrdered
<1>3. \A k \in keys : {j \in keys : KeyLess(j, k)} = Before(keys, R, k)
  BY DEF Before
<1>4. \A j, k \in keys : <<j, k>> \in R <=> KeyLess(j, k)
  OBVIOUS
<1> DEFINE pick(i) == CHOOSE k \in keys : Cardinality({j \in keys : KeyLess(j, k)}) = i - 1
<1>5. sorted = [i \in 1..n |-> pick(i)]
  BY DEF SortedKeys
<1> HIDE DEF R, keys, sorted, pick
<1>6. /\ n \in Nat
      /\ \A i \in 1..n : \E k \in keys : rank(k) = i - 1
      /\ \A k \in keys : rank(k) \in 0..n - 1
      /\ \A j, k \in keys : <<j, k>> \in R <=> rank(j) < rank(k)
  BY <1>1, <1>2, Ranking
<1> HIDE DEF n, rank
<1>7. \A i \in 1..n : sorted[i] \in keys /\ rank(sorted[i]) = i - 1
  <2> SUFFICES ASSUME NEW i \in 1..n PROVE sorted[i] \in keys /\ rank(sorted[i]) = i - 1
    OBVIOUS
  <2> DEFINE first(k) == Cardinality({j \in keys : KeyLess(j, k)})
  <2>1. \A k \in keys : first(k) = rank(k)
    BY <1>3 DEF rank
  <2>2. sorted[i] = CHOOSE k \in keys : first(k) = i - 1
    BY <1>5 DEF pick
  <2> HIDE DEF first
  <2>3. \E k \in keys : first(k) = i - 1
    BY <1>6, <2>1
  <2>4. sorted[i] \in keys /\ first(sorted[i]) = i - 1
    BY <2>2, <2>3
  <2>5. QED
    BY <2>1, <2>4
<1>8. sorted \in [1..n -> keys]
  BY <1>5, <1>7
<1>9. \A j, k \in keys : rank(j) = rank(k) => j = k
  BY <1>2, <1>6 DEF StrictTotalOrder
<1>10. \A k \in keys : \E i \in 1..n : sorted[i] = k
  <2> SUFFICES ASSUME NEW k \in keys PROVE \E i \in 1..n : sorted[i] = k
    OBVIOUS
  <2>1. rank(k) + 1 \in 1..n /\ rank(k) = (rank(k) + 1) - 1
    BY <1>6
  <2>2. sorted[rank(k) + 1] = k
    BY <1>7, <1>9, <2>1
  <2>3. QED
    BY <2>1, <2>2
<1>11. ASSUME NEW i \in 1..n, NEW j \in 1..n, i < j
       PROVE  KeyLess(sorted[i], sorted[j])
  <2>1. rank(sorted[i]) < rank(sorted[j])
    BY <1>6, <1>7, <1>11
  <2>2. <<sorted[i], sorted[j]>> \in R
    BY <1>6, <1>7, <2>1
  <2>3. QED
    BY <1>4, <1>7, <2>2
<1>12. QED
  BY <1>6, <1>8, <1>10, <1>11 DEF keys, sorted, n

\* A call of the store leaves the listing that was returned complete.
LEMMA StoreListStep ==
    ASSUME StoreTypeOK, RecordsKeyedByTheirId, ListingIsComplete, [StoreNext]_storeVars
    PROVE  ListingIsComplete'
<1>1. ASSUME NEW c \in Collections, NEW input \in Inputs, insert_model(c, input)
      PROVE  ListingIsComplete'
  <2>1. ret'.op = "insert"
    BY <1>1 DEF insert_model, Ok, Err, Return
  <2>2. QED
    BY <2>1 DEF ListingIsComplete
<1>2. ASSUME NEW c \in Collections, NEW id \in Ids, get_model(c, id)
      PROVE  ListingIsComplete'
  <2>1. ret'.op = "get"
    BY <1>2 DEF get_model, Ok, Err, Return
  <2>2. QED
    BY <2>1 DEF ListingIsComplete
<1>3. ASSUME NEW c \in Collections, list_model(c)
      PROVE  ListingIsComplete'
  <2> DEFINE keys == DOMAIN records[c]
             sorted == SortedKeys(c)
             n == Cardinality(keys)
             rows == [i \in DOMAIN sorted |-> records[c][sorted[i]]]
  <2>1. records' = records /\ ret'.op = "all" /\ ret'.coll = c /\ ret'.value = rows
    BY <1>3 DEF list_model, Ok, Return
  <2>2. /\ n \in Nat /\ sorted \in [1..n -> keys]
        /\ \A k \in keys : \E i \in 1..n : sorted[i] = k
        /\ \A i, j \in 1..n : i < j => KeyLess(sorted[i], sorted[j])
    BY SortedKeysListed DEF StoreTypeOK
  <2>3. \A k \in keys : primary_record_key(c, records[c][k]) = k
    BY DEF RecordsKeyedByTheirId
  <2> HIDE DEF sorted, n, keys
  <2>4. DOMAIN rows = 1..n /\ Len(rows) = n /\ \A i \in 1..n : rows[i] = records[c][sorted[i]]
    <3>1. rows = [i \in 1..n |-> records[c][sorted[i]]]
      BY <2>2
    <3>2. rows \in Seq({records[c][k] : k \in keys})
      BY <2>2, <3>1
    <3>3. QED
      BY <2>2, <3>1, <3>2
  <2> HIDE DEF rows
  <2>5. \A k \in keys : \E i \in DOMAIN rows : rows[i] = records[c][k]
    BY <2>2, <2>4
  <2>6. \A i \in 1..n : primary_record_key(c, rows[i]) = sorted[i]
    BY <2>2, <2>3, <2>4
  <2>7. \A i, j \in DOMAIN rows : i < j =>
           KeyLess(primary_record_key(c, rows[i]), primary_record_key(c, rows[j]))
    BY <2>2, <2>4, <2>6
  <2>8. QED
    BY <2>1, <2>4, <2>5, <2>7 DEF ListingIsComplete, keys, n
<1>4. CASE UNCHANGED storeVars
  <2>1. ret' = ret /\ records' = records
    BY <1>4 DEF storeVars
  <2>2. QED
    BY <2>1 DEF ListingIsComplete
<1>5. QED
  BY <1>1, <1>2, <1>3, <1>4 DEF StoreNext

\* A listing returns every record of the collection exactly once, in the order
\* of the keys as strings, however the keys are written: digits in any radix
\* tell the ids apart, and the order of their texts is total (list_model).
THEOREM ListingComplete == StoreSpec => []ListingIsComplete
<1>1. StoreInit => ListingIsComplete
  BY DEF StoreInit, ListingIsComplete, Err, Return
<1>2. QED
  BY <1>1, StoreListStep, TypeCorrect, RecordsKeyed, PTL DEF StoreSpec

-----------------------------------------------------------------------------
(***************************************************************************)
(* What steps may do.                                                      *)
(***************************************************************************)

\* An id the counter has passed without a record never gets one: every new
\* record is above the counter.
THEOREM BurnedIds == StoreSpec => BurnedIdsStayUnused
<1> DEFINE Unused == \A c \in Collections : \A k \in 1..next_id[c] :
                        k \in DOMAIN records'[c] => k \in DOMAIN records[c]
<1>1. StoreTypeOK /\ [StoreNext]_storeVars => [Unused]_storeVars
  <2> SUFFICES ASSUME StoreTypeOK, [StoreNext]_storeVars
               PROVE  Unused \/ UNCHANGED storeVars
    OBVIOUS
  <2>1. ASSUME NEW c \in Collections, NEW input \in Inputs, insert_model(c, input)
        PROVE  Unused
    <3> DEFINE id == next_id[c] + 1
               record == build_model_record(c, input, id)
    <3>1. CASE UNCHANGED records
      BY <3>1
    <3>2. CASE records' = [records EXCEPT ![c] = Put(records[c], id, record)]
      <4>1. next_id[c] \in Nat
        BY KeyAssumption DEF StoreTypeOK
      <4>2. id \notin 1..next_id[c]
        BY <4>1
      <4>3. QED
        BY <3>2, <4>2 DEF Put, StoreTypeOK
    <3>3. QED
      BY <2>1, <3>1, <3>2, InsertStep
  <2>2. ASSUME NEW c \in Collections, list_model(c) \/ \E id \in Ids : get_model(c, id)
        PROVE  Unused
    BY <2>2, ReadStep
  <2>3. QED
    BY <2>1, <2>2 DEF StoreNext
<1>2. QED
  BY <1>1, TypeCorrect, PTL DEF StoreSpec, BurnedIdsStayUnused

\* The store implements the table: every step of it is a step of AreTable.
THEOREM StoreImplementsTable == StoreSpec => ImplementsTable
<1>1. StoreInit => Table!Init
  BY DEF StoreInit, Table!Init, Err, Return, Table!Refused, Table!Reply
<1>2. StoreTypeOK /\ RecordsKeyedByTheirId /\ [StoreNext]_storeVars => [Table!Next]_(Table!vars)
  <2> SUFFICES ASSUME StoreTypeOK, RecordsKeyedByTheirId, [StoreNext]_storeVars
               PROVE  Table!Next \/ UNCHANGED Table!vars
    OBVIOUS
  <2>1. ASSUME NEW c \in Collections, NEW input \in Inputs, insert_model(c, input)
        PROVE  Table!Next
    <3> DEFINE id == next_id[c] + 1
               record == build_model_record(c, input, id)
    <3>1. CASE /\ UNCHANGED records
               /\ \E e \in Refusals : ret' = Err("insert", c, NoText, e)
      <4>1. Table!Refuse(c)
        BY <3>1 DEF Table!Refuse, Table!Refused, Table!Reply, Err, Return
      <4>2. QED
        BY <4>1 DEF Table!Next
    <3>2. CASE /\ records' = [records EXCEPT ![c] = Put(records[c], id, record)]
               /\ ret' = Ok("insert", c, id, record)
      <4>1. id \in Texts \ DOMAIN records[c]
        <5>1. id \in Decimals
          BY <2>1, InsertStep
        <5>2. next_id[c] \in Nat
          BY KeyAssumption DEF StoreTypeOK
        <5>3. \A k \in DOMAIN records[c] : k \in Nat /\ k <= next_id[c]
          BY KeyAssumption DEF StoreTypeOK, RecordsKeyedByTheirId, Decimals
        <5>4. QED
          BY <5>1, <5>2, <5>3, KeyAssumption
      <4>2. ret'.value = record
        BY <3>2 DEF Ok, Return
      <4>3. Table!Create(c)
        BY <3>2, <4>1, <4>2 DEF Table!Create, Table!Ok, Table!Reply, Ok, Return, Put
      <4>4. QED
        BY <4>3 DEF Table!Next
    <3>3. QED
      BY <2>1, <3>1, <3>2, InsertStep
  <2>2. ASSUME NEW c \in Collections, NEW id \in Ids, get_model(c, id)
        PROVE  Table!Next
    <3> DEFINE key == json_key(id)
    <3>1. key \in Texts
      BY InputAssumption, KeyAssumption DEF json_key, Scalars
    <3>2. UNCHANGED records
      BY <2>2 DEF get_model
    <3>3. CASE key = NoText
      <4>1. ret' = Err("get", c, NoText, InvalidInput("invalid_id"))
        BY <2>2, <3>3 DEF get_model
      <4>2. Table!Refuse(c)
        BY <3>2, <4>1 DEF Table!Refuse, Table!Refused, Table!Reply, Err, Return, Refusals
      <4>3. QED
        BY <4>2 DEF Table!Next
    <3>4. CASE key # NoText /\ key \notin DOMAIN records[c]
      <4>1. ret' = Err("get", c, key, NotFound)
        BY <2>2, <3>4 DEF get_model
      <4>2. Table!Miss(c)
        BY <3>1, <3>2, <3>4, <4>1 DEF Table!Miss, Table!Refused, Table!Reply, Err, Return
      <4>3. QED
        BY <4>2 DEF Table!Next
    <3>5. CASE key # NoText /\ key \in DOMAIN records[c]
      <4>1. ret' = Ok("get", c, key, records[c][key])
        BY <2>2, <3>5 DEF get_model
      <4>2. Table!Read(c)
        BY <3>2, <3>5, <4>1 DEF Table!Read, Table!Ok, Table!Reply, Ok, Return
      <4>3. QED
        BY <4>2 DEF Table!Next
    <3>6. QED
      BY <3>3, <3>4, <3>5
  <2>3. ASSUME NEW c \in Collections, list_model(c)
        PROVE  Table!Next
    <3> DEFINE rows == [i \in DOMAIN SortedKeys(c) |-> records[c][SortedKeys(c)[i]]]
    <3>1. ret' = Ok("all", c, NoText, rows) /\ UNCHANGED records
      BY <2>3 DEF list_model
    <3>2. ret'.value = rows
      BY <3>1 DEF Ok, Return
    <3>3. Table!ReadAll(c)
      BY <3>1, <3>2 DEF Table!ReadAll, Table!Ok, Table!Reply, Ok, Return
    <3>4. QED
      BY <3>3 DEF Table!Next
  <2>4. CASE UNCHANGED storeVars
    BY <2>4 DEF storeVars, Table!vars
  <2>5. QED
    BY <2>1, <2>2, <2>3, <2>4 DEF StoreNext
<1>3. QED
  BY <1>1, <1>2, TypeCorrect, RecordsKeyed, PTL DEF StoreSpec, ImplementsTable, Table!Spec

=============================================================================
