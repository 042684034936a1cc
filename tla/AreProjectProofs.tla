--------------------------- MODULE AreProjectProofs ---------------------------
(***************************************************************************)
(* Theorems about projects and their requests, for any sources, any JSON   *)
(* and any depth of the stack: what the runtime lets through conforms to   *)
(* the exported document, what conforms is let through, and the recursion  *)
(* ends where the aliases have no circle.                                  *)
(*                                                                         *)
(* The runtime, the document and the checker each recur over types in      *)
(* their own way.  Each recursion is a function of its depth, and the      *)
(* proofs go by induction on that depth, for all types and values at once: *)
(* SoundAt, CompleteAt, StringsOnly and RootAt are the hypotheses.         *)
(***************************************************************************)
EXTENDS AreProject, AreLemmas

-----------------------------------------------------------------------------
\* The recursive functions of the model, step by step.

\* f is the function up to n that outcome_within computes.
OutcomesUpto(f, s, values, n) == f = [i \in 0..n |-> IF i = 0 THEN stack_exhausted(values) ELSE outcomes_over(s, values, f[i - 1])]

\* There is one.
LEMMA OutcomesUptoExists ==
    ASSUME NEW s, NEW values, NEW n \in Nat
    PROVE  \E f : OutcomesUpto(f, s, values, n)
<1> DEFINE T == {i \in Nat : ~ \E f : OutcomesUpto(f, s, values, i)}
<1>1. SUFFICES ASSUME T # {} PROVE FALSE
  OBVIOUS
<1>2. PICK m \in T : \A i \in T : m <= i
  BY <1>1, NatMin
<1>3. m # 0
  <2> DEFINE f == [i \in 0..0 |-> stack_exhausted(values)]
  <2>1. OutcomesUpto(f, s, values, 0)
    BY DEF OutcomesUpto
  <2>2. QED
    BY <2>1
<1>4. PICK g : OutcomesUpto(g, s, values, m - 1)
  <2>1. m - 1 \in Nat /\ m - 1 \notin T
    BY <1>2, <1>3
  <2>2. QED
    BY <2>1
<1> DEFINE f == [i \in 0..m |-> IF i = 0 THEN stack_exhausted(values) ELSE outcomes_over(s, values, g[i - 1])]
<1>5. \A i \in 0..m - 1 : g[i] = IF i = 0 THEN stack_exhausted(values) ELSE outcomes_over(s, values, g[i - 1])
  BY <1>4 DEF OutcomesUpto
<1>6. \A i \in 0..m - 1 : f[i] = g[i]
  BY <1>3, <1>5
<1>7. \A i \in 0..m : f[i] = IF i = 0 THEN stack_exhausted(values) ELSE outcomes_over(s, values, f[i - 1])
  <2> SUFFICES ASSUME NEW i \in 0..m
               PROVE  f[i] = IF i = 0 THEN stack_exhausted(values) ELSE outcomes_over(s, values, f[i - 1])
    OBVIOUS
  <2>1. CASE i = 0
    BY <2>1
  <2>2. CASE i # 0
    <3>1. i - 1 \in 0..m - 1
      BY <2>2
    <3>2. f[i - 1] = g[i - 1]
      BY <1>6, <3>1
    <3>3. f[i] = outcomes_over(s, values, g[i - 1])
      BY <2>2
    <3> HIDE DEF f
    <3>4. QED
      BY <2>2, <3>2, <3>3
  <2>3. QED
    BY <2>1, <2>2
<1>8. f = [i \in 0..m |-> f[i]]
  OBVIOUS
<1> HIDE DEF f
<1>9. OutcomesUpto(f, s, values, m)
  BY <1>7, <1>8 DEF OutcomesUpto
<1>10. QED
  BY <1>9

\* And outcome_within(s, values) is the one up to its bound.
LEMMA OutcomesUptoTop ==
    ASSUME NEW s, NEW values, Depth \in Nat
    PROVE  /\ outcome_within(s, values)[0] = stack_exhausted(values)
           /\ \A i \in 1..Depth : outcome_within(s, values)[i] = outcomes_over(s, values, outcome_within(s, values)[i - 1])
<1> DEFINE f == CHOOSE f : OutcomesUpto(f, s, values, Depth)
<1>1. OutcomesUpto(f, s, values, Depth)
  BY OutcomesUptoExists
<1>2. outcome_within(s, values) = f
  BY DEF outcome_within, OutcomesUpto
<1> HIDE DEF f
<1>3. \A i \in 0..Depth : f[i] = IF i = 0 THEN stack_exhausted(values) ELSE outcomes_over(s, values, f[i - 1])
  BY <1>1 DEF OutcomesUpto
<1>4. QED
  BY <1>2, <1>3

\* f is the function up to n that root_within computes.
RootsUpto(f, s, n) == f = [i \in 0..n |-> IF i = 0 THEN [name \in STRING |-> "overflow"] ELSE roots_over(s, f[i - 1])]

\* There is one.
LEMMA RootsUptoExists ==
    ASSUME NEW s, NEW n \in Nat
    PROVE  \E f : RootsUpto(f, s, n)
<1> DEFINE T == {i \in Nat : ~ \E f : RootsUpto(f, s, i)}
<1>1. SUFFICES ASSUME T # {} PROVE FALSE
  OBVIOUS
<1>2. PICK m \in T : \A i \in T : m <= i
  BY <1>1, NatMin
<1>3. m # 0
  <2> DEFINE f == [i \in 0..0 |-> [name \in STRING |-> "overflow"]]
  <2>1. RootsUpto(f, s, 0)
    BY DEF RootsUpto
  <2>2. QED
    BY <2>1
<1>4. PICK g : RootsUpto(g, s, m - 1)
  <2>1. m - 1 \in Nat /\ m - 1 \notin T
    BY <1>2, <1>3
  <2>2. QED
    BY <2>1
<1> DEFINE f == [i \in 0..m |-> IF i = 0 THEN [name \in STRING |-> "overflow"] ELSE roots_over(s, g[i - 1])]
<1>5. \A i \in 0..m - 1 : g[i] = IF i = 0 THEN [name \in STRING |-> "overflow"] ELSE roots_over(s, g[i - 1])
  BY <1>4 DEF RootsUpto
<1>6. \A i \in 0..m - 1 : f[i] = g[i]
  BY <1>3, <1>5
<1>7. \A i \in 0..m : f[i] = IF i = 0 THEN [name \in STRING |-> "overflow"] ELSE roots_over(s, f[i - 1])
  <2> SUFFICES ASSUME NEW i \in 0..m
               PROVE  f[i] = IF i = 0 THEN [name \in STRING |-> "overflow"] ELSE roots_over(s, f[i - 1])
    OBVIOUS
  <2>1. CASE i = 0
    BY <2>1
  <2>2. CASE i # 0
    <3>1. i - 1 \in 0..m - 1
      BY <2>2
    <3>2. f[i - 1] = g[i - 1]
      BY <1>6, <3>1
    <3>3. f[i] = roots_over(s, g[i - 1])
      BY <2>2
    <3> HIDE DEF f
    <3>4. QED
      BY <2>2, <3>2, <3>3
  <2>3. QED
    BY <2>1, <2>2
<1>8. f = [i \in 0..m |-> f[i]]
  OBVIOUS
<1> HIDE DEF f
<1>9. RootsUpto(f, s, m)
  BY <1>7, <1>8 DEF RootsUpto
<1>10. QED
  BY <1>9

\* And root_within(s) is the one up to its bound.
LEMMA RootsUptoTop ==
    ASSUME NEW s, Depth \in Nat
    PROVE  /\ root_within(s)[0] = [name \in STRING |-> "overflow"]
           /\ \A i \in 1..Depth : root_within(s)[i] = roots_over(s, root_within(s)[i - 1])
<1> DEFINE f == CHOOSE f : RootsUpto(f, s, Depth)
<1>1. RootsUpto(f, s, Depth)
  BY RootsUptoExists
<1>2. root_within(s) = f
  BY DEF root_within, RootsUpto
<1> HIDE DEF f
<1>3. \A i \in 0..Depth : f[i] = IF i = 0 THEN [name \in STRING |-> "overflow"] ELSE roots_over(s, f[i - 1])
  BY <1>1 DEF RootsUpto
<1>4. QED
  BY <1>2, <1>3

\* f is the function up to n that checked_root_within computes.
CheckedUpto(f, file, n) == f = [i \in 0..n |-> IF i = 0 THEN [name \in STRING |-> "none"] ELSE checked_roots_over(file, f[i - 1])]

\* There is one.
LEMMA CheckedUptoExists ==
    ASSUME NEW file, NEW n \in Nat
    PROVE  \E f : CheckedUpto(f, file, n)
<1> DEFINE T == {i \in Nat : ~ \E f : CheckedUpto(f, file, i)}
<1>1. SUFFICES ASSUME T # {} PROVE FALSE
  OBVIOUS
<1>2. PICK m \in T : \A i \in T : m <= i
  BY <1>1, NatMin
<1>3. m # 0
  <2> DEFINE f == [i \in 0..0 |-> [name \in STRING |-> "none"]]
  <2>1. CheckedUpto(f, file, 0)
    BY DEF CheckedUpto
  <2>2. QED
    BY <2>1
<1>4. PICK g : CheckedUpto(g, file, m - 1)
  <2>1. m - 1 \in Nat /\ m - 1 \notin T
    BY <1>2, <1>3
  <2>2. QED
    BY <2>1
<1> DEFINE f == [i \in 0..m |-> IF i = 0 THEN [name \in STRING |-> "none"] ELSE checked_roots_over(file, g[i - 1])]
<1>5. \A i \in 0..m - 1 : g[i] = IF i = 0 THEN [name \in STRING |-> "none"] ELSE checked_roots_over(file, g[i - 1])
  BY <1>4 DEF CheckedUpto
<1>6. \A i \in 0..m - 1 : f[i] = g[i]
  BY <1>3, <1>5
<1>7. \A i \in 0..m : f[i] = IF i = 0 THEN [name \in STRING |-> "none"] ELSE checked_roots_over(file, f[i - 1])
  <2> SUFFICES ASSUME NEW i \in 0..m
               PROVE  f[i] = IF i = 0 THEN [name \in STRING |-> "none"] ELSE checked_roots_over(file, f[i - 1])
    OBVIOUS
  <2>1. CASE i = 0
    BY <2>1
  <2>2. CASE i # 0
    <3>1. i - 1 \in 0..m - 1
      BY <2>2
    <3>2. f[i - 1] = g[i - 1]
      BY <1>6, <3>1
    <3>3. f[i] = checked_roots_over(file, g[i - 1])
      BY <2>2
    <3> HIDE DEF f
    <3>4. QED
      BY <2>2, <3>2, <3>3
  <2>3. QED
    BY <2>1, <2>2
<1>8. f = [i \in 0..m |-> f[i]]
  OBVIOUS
<1> HIDE DEF f
<1>9. CheckedUpto(f, file, m)
  BY <1>7, <1>8 DEF CheckedUpto
<1>10. QED
  BY <1>9

\* And checked_root_within(file) is the one up to its bound.
LEMMA CheckedUptoTop ==
    ASSUME NEW file, Cardinality(DOMAIN file) + 1 \in Nat
    PROVE  /\ checked_root_within(file)[0] = [name \in STRING |-> "none"]
           /\ \A i \in 1..Cardinality(DOMAIN file) + 1 : checked_root_within(file)[i] = checked_roots_over(file, checked_root_within(file)[i - 1])
<1> DEFINE f == CHOOSE f : CheckedUpto(f, file, Cardinality(DOMAIN file) + 1)
<1>1. CheckedUpto(f, file, Cardinality(DOMAIN file) + 1)
  BY CheckedUptoExists
<1>2. checked_root_within(file) = f
  BY DEF checked_root_within, CheckedUpto
<1> HIDE DEF f
<1>3. \A i \in 0..Cardinality(DOMAIN file) + 1 : f[i] = IF i = 0 THEN [name \in STRING |-> "none"] ELSE checked_roots_over(file, f[i - 1])
  BY <1>1 DEF CheckedUpto
<1>4. QED
  BY <1>2, <1>3

\* f is the function up to n that admitted_within computes.
AdmittedUpto(f, schema_of, values, n) == f = [i \in 0..n |-> IF i = 0 THEN nothing_admitted(values) ELSE admitted_over(schema_of, values, f[i - 1])]

\* There is one.
LEMMA AdmittedUptoExists ==
    ASSUME NEW schema_of, NEW values, NEW n \in Nat
    PROVE  \E f : AdmittedUpto(f, schema_of, values, n)
<1> DEFINE T == {i \in Nat : ~ \E f : AdmittedUpto(f, schema_of, values, i)}
<1>1. SUFFICES ASSUME T # {} PROVE FALSE
  OBVIOUS
<1>2. PICK m \in T : \A i \in T : m <= i
  BY <1>1, NatMin
<1>3. m # 0
  <2> DEFINE f == [i \in 0..0 |-> nothing_admitted(values)]
  <2>1. AdmittedUpto(f, schema_of, values, 0)
    BY DEF AdmittedUpto
  <2>2. QED
    BY <2>1
<1>4. PICK g : AdmittedUpto(g, schema_of, values, m - 1)
  <2>1. m - 1 \in Nat /\ m - 1 \notin T
    BY <1>2, <1>3
  <2>2. QED
    BY <2>1
<1> DEFINE f == [i \in 0..m |-> IF i = 0 THEN nothing_admitted(values) ELSE admitted_over(schema_of, values, g[i - 1])]
<1>5. \A i \in 0..m - 1 : g[i] = IF i = 0 THEN nothing_admitted(values) ELSE admitted_over(schema_of, values, g[i - 1])
  BY <1>4 DEF AdmittedUpto
<1>6. \A i \in 0..m - 1 : f[i] = g[i]
  BY <1>3, <1>5
<1>7. \A i \in 0..m : f[i] = IF i = 0 THEN nothing_admitted(values) ELSE admitted_over(schema_of, values, f[i - 1])
  <2> SUFFICES ASSUME NEW i \in 0..m
               PROVE  f[i] = IF i = 0 THEN nothing_admitted(values) ELSE admitted_over(schema_of, values, f[i - 1])
    OBVIOUS
  <2>1. CASE i = 0
    BY <2>1
  <2>2. CASE i # 0
    <3>1. i - 1 \in 0..m - 1
      BY <2>2
    <3>2. f[i - 1] = g[i - 1]
      BY <1>6, <3>1
    <3>3. f[i] = admitted_over(schema_of, values, g[i - 1])
      BY <2>2
    <3> HIDE DEF f
    <3>4. QED
      BY <2>2, <3>2, <3>3
  <2>3. QED
    BY <2>1, <2>2
<1>8. f = [i \in 0..m |-> f[i]]
  OBVIOUS
<1> HIDE DEF f
<1>9. AdmittedUpto(f, schema_of, values, m)
  BY <1>7, <1>8 DEF AdmittedUpto
<1>10. QED
  BY <1>9

\* And admitted_within(schema_of, values) is the one up to its bound.
LEMMA AdmittedUptoTop ==
    ASSUME NEW schema_of, NEW values, Depth \in Nat
    PROVE  /\ admitted_within(schema_of, values)[0] = nothing_admitted(values)
           /\ \A i \in 1..Depth : admitted_within(schema_of, values)[i] = admitted_over(schema_of, values, admitted_within(schema_of, values)[i - 1])
<1> DEFINE f == CHOOSE f : AdmittedUpto(f, schema_of, values, Depth)
<1>1. AdmittedUpto(f, schema_of, values, Depth)
  BY AdmittedUptoExists
<1>2. admitted_within(schema_of, values) = f
  BY DEF admitted_within, AdmittedUpto
<1> HIDE DEF f
<1>3. \A i \in 0..Depth : f[i] = IF i = 0 THEN nothing_admitted(values) ELSE admitted_over(schema_of, values, f[i - 1])
  BY <1>1 DEF AdmittedUpto
<1>4. QED
  BY <1>2, <1>3

\* What a validation with no call left, and with one left, comes to.
LEMMA OutcomeSteps ==
    ASSUME NEW s, NEW values, NEW type \in TypeExprs, NEW v \in values
    PROVE  /\ outcome_within(s, values)[0][type][v] = Overflow
           /\ \A i \in 1..Depth :
                 outcome_within(s, values)[i][type][v] =
                    validate_type_expr_as(s, type, v, outcome_within(s, values)[i - 1])
<1>1. Depth \in Nat
  BY DepthAssumption
<1>2. outcome_within(s, values)[0] = stack_exhausted(values)
  BY <1>1, OutcomesUptoTop
<1>3. \A i \in 1..Depth :
         outcome_within(s, values)[i] = outcomes_over(s, values, outcome_within(s, values)[i - 1])
  BY <1>1, OutcomesUptoTop
<1>4. ASSUME NEW below
      PROVE  outcomes_over(s, values, below)[type][v] = validate_type_expr_as(s, type, v, below)
  BY DEF outcomes_over
<1>5. stack_exhausted(values)[type][v] = Overflow
  BY DEF stack_exhausted
<1>6. QED
  BY <1>2, <1>3, <1>4, <1>5

\* What a schema admits with no reference left, and with one left.
LEMMA AdmittedSteps ==
    ASSUME NEW schema_of, NEW values, NEW schema \in TypeSchemas, NEW v \in values
    PROVE  /\ ~admitted_within(schema_of, values)[0][schema][v]
           /\ \A i \in 1..Depth :
                 admitted_within(schema_of, values)[i][schema][v] <=>
                    SchemaAdmits(schema_of, schema, v, admitted_within(schema_of, values)[i - 1])
<1>1. Depth \in Nat
  BY DepthAssumption
<1>2. admitted_within(schema_of, values)[0] = nothing_admitted(values)
  BY <1>1, AdmittedUptoTop
<1>3. \A i \in 1..Depth :
         admitted_within(schema_of, values)[i] =
            admitted_over(schema_of, values, admitted_within(schema_of, values)[i - 1])
  BY <1>1, AdmittedUptoTop
<1>4. ASSUME NEW below
      PROVE  admitted_over(schema_of, values, below)[schema][v] <=>
                SchemaAdmits(schema_of, schema, v, below)
  BY DEF admitted_over
<1>5. ~nothing_admitted(values)[schema][v]
  BY DEF nothing_admitted
<1>6. QED
  BY <1>2, <1>3, <1>4, <1>5

\* The primitive a name is read as.
LEMMA RootSteps ==
    ASSUME NEW s, NEW name \in STRING
    PROVE  /\ root_within(s)[0][name] = "overflow"
           /\ \A i \in 1..Depth :
                 root_within(s)[i][name] = roots_over(s, root_within(s)[i - 1])[name]
<1>1. Depth \in Nat
  BY DepthAssumption
<1>2. root_within(s)[0] = [n \in STRING |-> "overflow"]
  BY <1>1, RootsUptoTop
<1>3. \A i \in 1..Depth : root_within(s)[i] = roots_over(s, root_within(s)[i - 1])
  BY <1>1, RootsUptoTop
<1>4. QED
  BY <1>2, <1>3

-----------------------------------------------------------------------------
\* The inductive invariant: the tables are made of the files checked, and a
\* reply is what the tables make of its request.

FilesOK ==
    /\ IsSequence(files) /\ Len(files) <= Len(Sources)
    /\ \A i \in DOMAIN files : files[i] \in Sources[i]

ErrorsOK == errors = UNION {check_source_file(files[i]) : i \in DOMAIN files}

TablesOK ==
    /\ stage \in {"check", "serve", "refused"}
    /\ stage = "serve" =>
          errors = {} /\ schemas = from_modules(files) /\ components = component_schemas(files)

IsBody(r) ==
    \E name \in DeclaredNames, v \in Bodies :
        r = Request("body", Named(name), v, Reply(validate_json_body(schemas, name, v), v))

IsAnswer(r) ==
    \E name \in DeclaredNames, v \in Bodies : \E type \in AnswerTypes(name) :
        r = Request("answer", type, v, Reply(validate_value(schemas, type, v), v))

IsPath(r) ==
    \E name \in DeclaredNames \cup {"U64", "F64"}, text \in Texts :
        r = Request("path", Named(name), text, decode_path_param(schemas, name, text))

IsFields(r) ==
    \E location \in Locations, name \in DeclaredNames, sent \in Sent :
        /\ is_local_payload_type(name)
        /\ r = Request(location, Named(name), sent, decode_fields(schemas, location, name, sent))

RequestOK ==
    request # NoRequest =>
        stage = "serve" /\ (IsBody(request) \/ IsAnswer(request) \/ IsPath(request) \/ IsFields(request))

Inv == FilesOK /\ ErrorsOK /\ TablesOK /\ RequestOK

\* Before anything is checked nothing is known.
LEMMA InvInit == Init => Inv
<1> SUFFICES ASSUME Init PROVE Inv
  OBVIOUS
<1>1. FilesOK
  <2>1. Len(Sources) \in Nat
    BY SourcesAssumption
  <2>2. QED
    BY <2>1 DEF Init, FilesOK, IsSequence
<1>2. ErrorsOK
  BY DEF Init, ErrorsOK
<1>3. TablesOK /\ RequestOK
  BY DEF Init, TablesOK, RequestOK
<1>4. QED
  BY <1>1, <1>2, <1>3 DEF Inv

\* Every step keeps it.
LEMMA InvStep == Inv /\ [Next]_vars => Inv'
<1> SUFFICES ASSUME Inv, [Next]_vars PROVE Inv'
  OBVIOUS
<1> USE DEF Inv
<1>1. ASSUME NEW i \in DOMAIN Sources, i = Len(files) + 1, NEW file \in Sources[i], CheckFile(file)
      PROVE  Inv'
  <2>1. IsSequence(files) /\ Len(files) \in Nat /\ DOMAIN files = 1..Len(files)
    BY SequenceFacts DEF FilesOK
  <2>2. files' = Append(files, file)
    BY <1>1 DEF CheckFile
  <2>3. /\ IsSequence(files') /\ Len(files') = Len(files) + 1
        /\ files'[Len(files) + 1] = file
        /\ \A j \in 1..Len(files) : files'[j] = files[j]
    BY <2>1, <2>2, Appended
  <2>4. Len(Sources) \in Nat /\ DOMAIN Sources = 1..Len(Sources)
    BY SourcesAssumption
  <2>5. DOMAIN files' = 1..Len(files) + 1
    BY <2>1, <2>3, SequenceFacts
  <2>6. FilesOK'
    BY <1>1, <2>1, <2>3, <2>4, <2>5 DEF FilesOK
  <2>7. ErrorsOK'
    <3>1. errors' = errors \cup check_source_file(file)
      BY <1>1 DEF CheckFile
    <3>2. \A j \in DOMAIN files : check_source_file(files'[j]) = check_source_file(files[j])
      BY <2>1, <2>3
    <3>3. check_source_file(files'[Len(files) + 1]) = check_source_file(file)
      BY <2>3
    <3>4. DOMAIN files' = DOMAIN files \cup {Len(files) + 1}
      BY <2>1, <2>5
    <3> DEFINE C(f) == check_source_file(f)
    <3>5. errors = UNION {C(files[j]) : j \in DOMAIN files}
      BY DEF ErrorsOK
    <3>6. errors' = UNION {C(files'[j]) : j \in DOMAIN files'}
      <4> HIDE DEF C
      <4>1. errors' = errors \cup C(file)
        BY <3>1 DEF C
      <4>2. \A j \in DOMAIN files : C(files'[j]) = C(files[j])
        BY <3>2 DEF C
      <4>3. C(files'[Len(files) + 1]) = C(file)
        BY <3>3 DEF C
      <4>4. QED
        BY <3>4, <3>5, <4>1, <4>2, <4>3
    <3>7. QED
      BY <3>6 DEF ErrorsOK
  <2>8. TablesOK' /\ RequestOK'
    BY <1>1 DEF CheckFile, TablesOK, RequestOK
  <2>9. QED
    BY <2>6, <2>7, <2>8
<1>2. CASE prepare_project
  <2>1. UNCHANGED <<files, errors, request>> /\ stage = "check"
    BY <1>2 DEF prepare_project
  <2>2. FilesOK' /\ ErrorsOK'
    BY <2>1 DEF FilesOK, ErrorsOK
  <2>3. TablesOK'
    BY <1>2, <2>1 DEF prepare_project, TablesOK
  <2>4. RequestOK'
    <3>1. request = NoRequest
      BY <2>1 DEF RequestOK
    <3>2. QED
      BY <2>1, <3>1 DEF RequestOK, NoRequest
  <2>5. QED
    BY <2>2, <2>3, <2>4
<1>3. ASSUME UNCHANGED <<stage, files, errors, schemas, components>>, stage = "serve",
             IsBody(request') \/ IsAnswer(request') \/ IsPath(request') \/ IsFields(request')
      PROVE  Inv'
  <2>1. FilesOK' /\ ErrorsOK' /\ TablesOK'
    BY <1>3 DEF FilesOK, ErrorsOK, TablesOK
  <2>2. \/ IsBody(request)' \/ IsAnswer(request)' \/ IsPath(request)' \/ IsFields(request)'
    BY <1>3 DEF IsBody, IsAnswer, IsPath, IsFields, DeclaredNames, is_local_payload_type
  <2>3. RequestOK'
    BY <1>3, <2>2 DEF RequestOK
  <2>4. QED
    BY <2>1, <2>3
<1>4. ASSUME NEW name \in DeclaredNames, NEW v \in Bodies, Body(name, v)
      PROVE  Inv'
  <2>1. UNCHANGED <<stage, files, errors, schemas, components>> /\ stage = "serve"
    BY <1>4 DEF Body, Serving
  <2>2. request' = Request("body", Named(name), v, Reply(validate_json_body(schemas, name, v), v))
    BY <1>4 DEF Body
  <2>3. IsBody(request')
    BY <2>2 DEF IsBody
  <2>4. QED
    BY <1>3, <2>1, <2>3
<1>5. ASSUME NEW name \in DeclaredNames, NEW v \in Bodies, NEW type \in AnswerTypes(name),
             Answer(type, v)
      PROVE  Inv'
  <2>1. UNCHANGED <<stage, files, errors, schemas, components>> /\ stage = "serve"
    BY <1>5 DEF Answer, Serving
  <2>2. request' = Request("answer", type, v, Reply(validate_value(schemas, type, v), v))
    BY <1>5 DEF Answer
  <2>3. IsAnswer(request')
    BY <2>2 DEF IsAnswer
  <2>4. QED
    BY <1>3, <2>1, <2>3
<1>6. ASSUME NEW name \in DeclaredNames \cup {"U64", "F64"}, NEW text \in Texts,
             PathParam(name, text)
      PROVE  Inv'
  <2>1. UNCHANGED <<stage, files, errors, schemas, components>> /\ stage = "serve"
    BY <1>6 DEF PathParam, Serving
  <2>2. request' = Request("path", Named(name), text, decode_path_param(schemas, name, text))
    BY <1>6 DEF PathParam
  <2>3. IsPath(request')
    BY <2>2 DEF IsPath
  <2>4. QED
    BY <1>3, <2>1, <2>3
<1>7. ASSUME NEW location \in Locations, NEW name \in DeclaredNames, NEW sent \in Sent,
             Fields(location, name, sent)
      PROVE  Inv'
  <2>1. UNCHANGED <<stage, files, errors, schemas, components>> /\ stage = "serve"
    BY <1>7 DEF Fields, Serving
  <2>2. /\ request' = Request(location, Named(name), sent, decode_fields(schemas, location, name, sent))
        /\ is_local_payload_type(name)
    BY <1>7 DEF Fields
  <2>3. IsFields(request')
    BY <2>2 DEF IsFields
  <2>4. QED
    BY <1>3, <2>1, <2>3
<1>8. CASE UNCHANGED vars
  BY <1>8 DEF vars, FilesOK, ErrorsOK, TablesOK, RequestOK, IsBody, IsAnswer, IsPath, IsFields,
              DeclaredNames, is_local_payload_type
<1>9. QED
  BY <1>1, <1>2, <1>4, <1>5, <1>6, <1>7, <1>8 DEF Next, Requests

\* It holds throughout.
LEMMA InvAlways == Spec => []Inv
BY InvInit, InvStep, PTL DEF Spec

-----------------------------------------------------------------------------
\* Type correctness.

\* The checks on a declaration raise codes of their own.
LEMMA DeclarationCodes ==
    ASSUME NEW file, NEW decl \in Declarations
    PROVE  check_declaration(file, decl) \subseteq Codes
<1>1. ASSUME NEW type, NEW rules PROVE check_validations(file, type, rules) \subseteq Codes
  BY DEF check_validations, Codes
<1>2. CASE decl.kind = "alias"
  BY <1>1, <1>2 DEF check_declaration
<1>3. CASE decl.kind = "struct"
  <2>0. check_declaration(file, decl) =
           (UNION {check_validations(file, f.type, f.rules) : f \in Range(decl.fields)})
           \cup {code \in {"E_TYPE_0004"} : Repeats(decl.fields)}
    BY <1>3 DEF check_declaration
  <2>1. ASSUME NEW code \in check_declaration(file, decl) PROVE code \in Codes
    <3>1. CASE code \in {c \in {"E_TYPE_0004"} : Repeats(decl.fields)}
      BY <3>1 DEF Codes
    <3>2. CASE code \in UNION {check_validations(file, f.type, f.rules) : f \in Range(decl.fields)}
      <4>1. PICK f \in Range(decl.fields) : code \in check_validations(file, f.type, f.rules)
        BY <3>2
      <4>2. QED
        BY <1>1, <4>1
    <3>3. QED
      BY <2>0, <3>1, <3>2
  <2>2. QED
    BY <2>1
<1>4. CASE decl.kind = "model"
  BY <1>4 DEF check_declaration, Codes
<1>5. CASE decl.kind = "enum"
  BY <1>5 DEF check_declaration, Codes
<1>6. decl.kind \in {"alias", "struct", "model", "enum"}
  BY DEF Declarations
<1>7. QED
  BY <1>2, <1>3, <1>4, <1>5, <1>6

\* And so do those on a file.
LEMMA FileCodes ==
    ASSUME NEW file, IsSourceFile(file)
    PROVE  check_source_file(file) \subseteq Codes
<1>1. resolve_file(file) \subseteq Codes
  BY DEF resolve_file, Codes
<1>2. \A n \in DOMAIN file : check_declaration(file, file[n]) \subseteq Codes
  BY DeclarationCodes DEF IsSourceFile
<1>3. QED
  BY <1>1, <1>2 DEF check_source_file

\* A text is decoded to a value if and only if it is accepted.
LEMMA DecodedIffValid ==
    ASSUME NEW s, NEW location, NEW name, NEW text, NEW sent
    PROVE  /\ decode_path_param(s, name, text).outcome = Valid <=>
                 decode_path_param(s, name, text).value # NoValue
           /\ decode_fields(s, location, name, sent).outcome = Valid <=>
                 decode_fields(s, location, name, sent).value # NoValue
<1>1. decode_path_param(s, name, text).outcome = Valid <=>
         decode_path_param(s, name, text).value # NoValue
  <2> DEFINE value == parsed(primitive_root(s, name), text)
             checked == validate_value(s, Named(name), value)
             outcome == CASE primitive_root(s, name) = "overflow" -> Overflow
                     [] primitive_root(s, name) # "overflow" /\ value = NoValue -> Refused
                     [] OTHER -> checked
  <2>1. decode_path_param(s, name, text) = Reply(outcome, IF outcome = Valid THEN value ELSE NoValue)
    BY DEF decode_path_param
  <2> HIDE DEF value, checked
  <2>2. outcome = Valid => value # NoValue
    BY DEF Valid, Refused, Overflow
  <2> HIDE DEF outcome
  <2>3. QED
    BY <2>1, <2>2 DEF Reply
<1>2. decode_fields(s, location, name, sent).outcome = Valid <=>
         decode_fields(s, location, name, sent).value # NoValue
  <2> DEFINE fields == payload_fields(s, name)
             decoded == [i \in DOMAIN fields |-> decode_field(s, location, fields[i], sent)]
             failure == FirstFailure([i \in DOMAIN fields |-> decoded[i].outcome])
             object == decoded_object(fields, decoded)
             outcome == IF failure # Valid THEN failure ELSE validate_value(s, Named(name), object)
  <2>1. decode_fields(s, location, name, sent) =
           Reply(outcome, IF outcome = Valid THEN object ELSE NoValue)
    BY DEF decode_fields
  <2>2. object # NoValue
    <3>1. object.k = "object"
      BY DEF decoded_object, Obj
    <3>2. QED
      BY <3>1 DEF NoValue
  <2> HIDE DEF object, outcome
  <2>3. QED
    BY <2>1, <2>2 DEF Reply
<1>3. QED
  BY <1>1, <1>2

\* The invariant has the types.
LEMMA InvTypes == Inv => TypeOK
<1> SUFFICES ASSUME Inv PROVE TypeOK
  OBVIOUS
<1> USE DEF Inv
<1>1. errors \subseteq Codes
  <2>1. \A i \in DOMAIN files : IsSourceFile(files[i])
    <3>1. Len(files) \in Nat /\ DOMAIN files = 1..Len(files)
      BY SequenceFacts DEF FilesOK
    <3>2. Len(Sources) \in Nat /\ DOMAIN Sources = 1..Len(Sources)
      BY SourcesAssumption
    <3>3. QED
      BY <3>1, <3>2, SourcesAssumption DEF FilesOK
  <2>2. \A i \in DOMAIN files : check_source_file(files[i]) \subseteq Codes
    BY <2>1, FileCodes
  <2>3. QED
    BY <2>2 DEF ErrorsOK
<1>2. stage = "serve" => errors = {} /\ DOMAIN components = DeclaredNames
  <2>1. DOMAIN component_schemas(files) = UNION {DOMAIN files[i] : i \in DOMAIN files}
    BY DEF component_schemas
  <2>2. UNION {DOMAIN files[i] : i \in DOMAIN files} = DeclaredNames
    BY DEF DeclaredNames, Range
  <2>3. QED
    BY <2>1, <2>2 DEF TablesOK
<1>3. request # NoRequest => stage = "serve"
  BY DEF RequestOK
<1>4. ASSUME request.kind \in Locations \cup {"path"}
      PROVE  request.reply.outcome = Valid <=> request.reply.value # NoValue
  <2>1. request # NoRequest
    BY <1>4 DEF NoRequest, Request, Locations
  <2>2. ~IsBody(request)
    BY <1>4 DEF IsBody, Request, Locations
  <2>3. ~IsAnswer(request)
    BY <1>4 DEF IsAnswer, Request, Locations
  <2>4. CASE IsPath(request)
    <3>1. PICK name, text : request.reply = decode_path_param(schemas, name, text)
      BY <2>4 DEF IsPath, Request
    <3>2. QED
      BY <3>1, DecodedIffValid
  <2>5. CASE IsFields(request)
    <3>1. PICK location, name, sent : request.reply = decode_fields(schemas, location, name, sent)
      BY <2>5 DEF IsFields, Request
    <3>2. QED
      BY <3>1, DecodedIffValid
  <2>6. QED
    BY <2>1, <2>2, <2>3, <2>4, <2>5 DEF RequestOK
<1>5. QED
  BY <1>1, <1>2, <1>3, <1>4 DEF TypeOK, FilesOK, TablesOK

\* A project has its types, nothing is served of one with diagnostics, and a
\* value reaches a handler only from a request that was accepted.
THEOREM ProjectTypeCorrect == Spec => []TypeOK
BY InvAlways, InvTypes, PTL

-----------------------------------------------------------------------------
\* Types, their schemas, and the first failure of a sequence of checks.

\* What holds at 0 and of a number when of the one before it holds up to n.
LEMMA UpTo ==
    ASSUME NEW n \in Nat, NEW T, T \subseteq 0..n, 0 \in T,
           \A i \in 1..n : i - 1 \in T => i \in T
    PROVE  T = 0..n
<1>1. SUFFICES ASSUME (0..n) \ T # {} PROVE FALSE
  OBVIOUS
<1> DEFINE rest == (0..n) \ T
<1>a. rest \subseteq Nat /\ rest # {}
  BY <1>1
<1>b. \E m \in rest : \A i \in rest : m <= i
  <2> HIDE DEF rest
  <2>1. QED
    BY <1>a, NatMin
<1>2. PICK m \in (0..n) \ T : \A i \in (0..n) \ T : m <= i
  BY <1>b
<1>3. m # 0 /\ m - 1 \in 0..n /\ m - 1 \notin (0..n) \ T
  BY <1>2
<1>4. QED
  BY <1>2, <1>3

\* The least of some numbers is one of them, and no other is less.
LEMMA LeastIs ==
    ASSUME NEW S, S \subseteq Nat, S # {}
    PROVE  Least(S) \in S /\ \A i \in S : Least(S) <= i
BY NatMin DEF Least

\* A sequence of checks succeeds if and only if each of them does.
LEMMA AllValid ==
    ASSUME NEW outcomes, DOMAIN outcomes \subseteq Nat
    PROVE  FirstFailure(outcomes) = Valid <=> \A i \in DOMAIN outcomes : outcomes[i] = Valid
<1> DEFINE failing == {i \in DOMAIN outcomes : outcomes[i] # Valid}
<1>1. CASE failing = {}
  BY <1>1 DEF FirstFailure
<1>2. CASE failing # {}
  <2>1. Least(failing) \in failing
    BY <1>2, LeastIs
  <2>2. FirstFailure(outcomes) = outcomes[Least(failing)]
    BY <1>2 DEF FirstFailure
  <2>3. QED
    BY <2>1, <2>2
<1>3. QED
  BY <1>1, <1>2

\* Two checks in a row.
LEMMA BothValid ==
    ASSUME NEW a, NEW b
    PROVE  FirstFailure(<<a, b>>) = Valid <=> a = Valid /\ b = Valid
<1>1. DOMAIN <<a, b>> = 1..2
  OBVIOUS
<1>2. FirstFailure(<<a, b>>) = Valid <=> \A i \in 1..2 : <<a, b>>[i] = Valid
  BY <1>1, AllValid
<1>3. QED
  BY <1>2

\* A type without its outermost wrapper is one.
LEMMA InnerType ==
    ASSUME NEW type \in TypeExprs
    PROVE  /\ type.path[1] \in STRING
           /\ type_expr_is_optional(type) => type.shape # << >>
           /\ type.shape # << >> =>
                 /\ Head(type.shape) \in {"option", "list"}
                 /\ inner(type) \in TypeExprs
                 /\ inner(type).path = type.path
<1>1. type.shape \in Seq({"option", "list"}) /\ type.path \in Seq(STRING)
  BY DEF TypeExprs
<1>2. type.path # << >>
  BY DEF TypeExprs
<1>3. type.path[1] \in STRING
  BY <1>1, <1>2
<1>4. QED
  BY <1>1, <1>3 DEF TypeExprs, inner, type_expr_is_optional

\* A sequence of one.
LEMMA OneSequence ==
    ASSUME NEW S, NEW x \in S
    PROVE  <<x>> \in Seq(S) /\ <<x>> # << >> /\ Len(<<x>>) = 1 /\ <<x>>[1] = x
OBVIOUS

\* A name alone is a type.
LEMMA NameType ==
    ASSUME NEW name \in STRING
    PROVE  /\ Named(name) \in TypeExprs /\ Named(name).shape = << >>
           /\ Len(Named(name).path) = 1 /\ Named(name).path[1] = name
<1> DEFINE path == <<name>>
<1>1. path \in Seq(STRING) /\ path # << >> /\ Len(path) = 1 /\ path[1] = name
  BY OneSequence
<1>2. << >> \in Seq({"option", "list"})
  OBVIOUS
<1>3. Named(name) = [shape |-> << >>, path |-> path]
  BY DEF Named
<1> HIDE DEF path
<1>4. QED
  BY <1>1, <1>2, <1>3 DEF TypeExprs

\* The fields of a type's schema.
LEMMA SchemaOf ==
    ASSUME NEW type \in TypeExprs
    PROVE  /\ type_schema(type) \in TypeSchemas
           /\ type_schema(type).rules = {}
           /\ type_schema(type).form = base_form(type)
           /\ type_schema(type).of = type.path[1]
           /\ type_schema(type).shape = << >> <=> type.shape = << >>
           /\ type.shape # << >> =>
                 (Head(type_schema(type).shape) = "nullable" <=> type_expr_is_optional(type))
<1> DEFINE keyword(w) == IF w = "option" THEN "nullable" ELSE "array"
           shape == [i \in DOMAIN type.shape |-> keyword(type.shape[i])]
<1>1. type.shape \in Seq({"option", "list"}) /\ type.path \in Seq(STRING)
  BY DEF TypeExprs
<1>2. shape \in Seq({"nullable", "array"}) /\ Len(shape) = Len(type.shape)
  BY <1>1
<1>4. base_form(type) \in {"primitive", "ref", "any"}
  BY DEF base_form
<1> DEFINE of == type.path[1]
<1>5. of \in STRING
  BY DEF TypeExprs
<1>6. shape = << >> <=> type.shape = << >>
  BY <1>1, <1>2
<1>7. type.shape # << >> => Head(shape) = keyword(Head(type.shape))
  BY <1>1, <1>2
<1> DEFINE form == base_form(type)
<1>3. type_schema(type) = [shape |-> shape, form |-> form, of |-> of, rules |-> {}]
  BY DEF type_schema, Schema
<1>8. shape # << >> => (Head(shape) = "nullable" <=> type_expr_is_optional(type))
  BY <1>6, <1>7 DEF type_expr_is_optional
<1> HIDE DEF shape, of, form
<1>9. /\ type_schema(type).shape = shape /\ type_schema(type).form = form
      /\ type_schema(type).of = of /\ type_schema(type).rules = {}
  BY <1>3
<1>10. type_schema(type) \in TypeSchemas
  <2>1. form \in {"primitive", "ref", "any"}
    BY <1>4 DEF form
  <2>2. {} \in SUBSET Rules
    OBVIOUS
  <2>3. QED
    BY <1>2, <1>3, <1>5, <2>1, <2>2 DEF TypeSchemas
<1>11. QED
  BY <1>6, <1>8, <1>9, <1>10 DEF form, of

\* The rules of a declaration whose keywords stay.
KeptRules(rules) ==
    {rules[i] : i \in {j \in DOMAIN rules : ~ \E k \in DOMAIN rules : k > j /\ rules[k].rule = rules[j].rule}}

\* Validations add keywords to a schema and change nothing else.
LEMMA RuledSchema ==
    ASSUME NEW schema \in TypeSchemas, NEW rules \in Seq(Rules)
    PROVE  /\ apply_field_validations(schema, rules) \in TypeSchemas
           /\ apply_field_validations(schema, rules).rules = KeptRules(rules)
           /\ apply_field_validations(schema, rules).shape = schema.shape
           /\ apply_field_validations(schema, rules).form = schema.form
           /\ apply_field_validations(schema, rules).of = schema.of
           /\ KeptRules(rules) \subseteq Range(rules)
<1>1. apply_field_validations(schema, rules) = [schema EXCEPT !.rules = KeptRules(rules)]
  BY DEF apply_field_validations, KeptRules
<1>2. KeptRules(rules) \subseteq Range(rules) /\ Range(rules) \subseteq Rules
  BY DEF KeptRules, Range
<1> DEFINE kept == KeptRules(rules)
<1>3. kept \in SUBSET Rules
  BY <1>2
<1> HIDE DEF kept
<1>4. [schema EXCEPT !.rules = kept] \in TypeSchemas
  BY <1>3 DEF TypeSchemas
<1>5. QED
  BY <1>1, <1>2, <1>4 DEF kept, TypeSchemas

\* What is within the schema of a type is the schema of what is within it.
LEMMA WithinSchema ==
    ASSUME NEW type \in TypeExprs, type.shape # << >>, NEW schema \in TypeSchemas,
           schema.shape = type_schema(type).shape, schema.form = type_schema(type).form,
           schema.of = type_schema(type).of
    PROVE  within(schema) = type_schema(inner(type))
<1> DEFINE keyword(w) == IF w = "option" THEN "nullable" ELSE "array"
           shape(s) == [i \in DOMAIN s |-> keyword(s[i])]
<1>1. type.shape \in Seq({"option", "list"}) /\ inner(type) \in TypeExprs
      /\ inner(type).path = type.path /\ inner(type).shape = Tail(type.shape)
  BY InnerType DEF TypeExprs, inner
<1>2. Tail(shape(type.shape)) = shape(Tail(type.shape))
  BY <1>1
<1>3. /\ type_schema(type).shape = shape(type.shape)
      /\ type_schema(inner(type)).shape = shape(Tail(type.shape))
  BY <1>1 DEF type_schema, Schema
<1>4. base_form(inner(type)) = base_form(type)
  BY <1>1 DEF base_form
<1>5. /\ type_schema(inner(type)).form = schema.form
      /\ type_schema(inner(type)).of = schema.of
      /\ type_schema(inner(type)).rules = {}
  BY <1>1, <1>4, SchemaOf
<1>6. within(schema) = [shape |-> Tail(schema.shape), form |-> schema.form, of |-> schema.of,
                        rules |-> {}]
  BY DEF within, Schema
<1> HIDE DEF shape
<1>7. within(schema).shape = type_schema(inner(type)).shape
  <2>1. within(schema).shape = Tail(schema.shape)
    BY <1>6
  <2>2. QED
    BY <1>2, <1>3, <2>1
<1>8. type_schema(inner(type)) \in TypeSchemas
  BY <1>1, SchemaOf
<1>9. QED
  BY <1>5, <1>6, <1>7, <1>8 DEF TypeSchemas

\* What the rules that stay ask of a value: they are keywords for strings.
Held(rules, v) == v.k = "string" => \A r \in KeptRules(rules) : rule_holds(r, v)

\* A schema with the keywords of validations admits what it admits without
\* them and they hold of.
LEMMA AdmittedRules ==
    ASSUME NEW schema_of, NEW values, NEW schema \in TypeSchemas, schema.rules = {},
           NEW rules \in Seq(Rules), NEW v \in values, NEW i \in 0..Depth
    PROVE  admitted_within(schema_of, values)[i][apply_field_validations(schema, rules)][v] <=>
              admitted_within(schema_of, values)[i][schema][v] /\ Held(rules, v)
<1> DEFINE ruled == apply_field_validations(schema, rules)
           A == admitted_within(schema_of, values)
<1>1. /\ ruled \in TypeSchemas /\ ruled.rules = KeptRules(rules) /\ ruled.shape = schema.shape
      /\ ruled.form = schema.form /\ ruled.of = schema.of
  BY RuledSchema
<1>2. /\ ~A[0][ruled][v] /\ ~A[0][schema][v]
      /\ \A j \in 1..Depth : A[j][ruled][v] <=> SchemaAdmits(schema_of, ruled, v, A[j - 1])
      /\ \A j \in 1..Depth : A[j][schema][v] <=> SchemaAdmits(schema_of, schema, v, A[j - 1])
  BY <1>1, AdmittedSteps
<1> HIDE DEF A, ruled
<1>3. within(ruled) = within(schema)
  BY <1>1 DEF within
<1>4. ASSUME NEW below
      PROVE  SchemaAdmits(schema_of, ruled, v, below) <=>
                SchemaAdmits(schema_of, schema, v, below) /\ Held(rules, v)
  BY <1>1, <1>3 DEF SchemaAdmits, Held
<1>5. CASE i = 0
  BY <1>2, <1>5 DEF A, ruled
<1>6. CASE i # 0
  <2>1. i \in 1..Depth
    BY <1>6
  <2>2. QED
    BY <1>2, <1>4, <2>1 DEF A, ruled
<1>7. QED
  BY <1>5, <1>6

-----------------------------------------------------------------------------
\* The tables of a project that declares each name once.

\* A project the checker has nothing against.
IsProject(fs) ==
    /\ IsSequence(fs)
    /\ \A i \in DOMAIN fs : IsSourceFile(fs[i]) /\ check_source_file(fs[i]) = {}

Unique(fs) ==
    /\ \A i \in DOMAIN fs : DOMAIN fs[i] \cap Primitives = {}
    /\ \A i, j \in DOMAIN fs : i # j => DOMAIN fs[i] \cap DOMAIN fs[j] = {}

\* A declaration is entered under its kind and no other, and has a component.
LEMMA Entered ==
    ASSUME NEW fs, IsProject(fs), Unique(fs), NEW i \in DOMAIN fs, NEW n \in DOMAIN fs[i]
    PROVE  /\ \A kind \in {"alias", "struct", "model"} :
                 /\ n \in DOMAIN from_modules(fs)[kind] <=> fs[i][n].kind = kind
                 /\ fs[i][n].kind = kind => from_modules(fs)[kind][n] = fs[i][n]
           /\ n \in DOMAIN component_schemas(fs)
           /\ component_schemas(fs)[n] = component(fs[i][n])
           /\ \A kind \in {"alias", "struct", "model", "enum"} :
                 DeclaringFiles(fs, kind, n) = IF fs[i][n].kind = kind THEN {i} ELSE {}
<1> DEFINE decl == fs[i][n]
<1>1. DOMAIN fs \subseteq Nat
  BY SequenceFacts DEF IsProject
<1>2. decl.kind \in {"alias", "struct", "model", "enum"}
  BY DEF IsProject, IsSourceFile, Declarations
<1>3. \A j \in DOMAIN fs : n \in DOMAIN fs[j] => j = i
  BY DEF Unique
<1>4. \A kind \in {"alias", "struct", "model", "enum"} :
         DeclaringFiles(fs, kind, n) = IF decl.kind = kind THEN {i} ELSE {}
  BY <1>3 DEF DeclaringFiles
<1>5. Greatest({i}) = i
  BY <1>1 DEF Greatest
<1>6. LastDeclaration(fs, decl.kind, n) = decl
  BY <1>2, <1>4, <1>5 DEF LastDeclaration
<1>7. ASSUME NEW kind \in {"alias", "struct", "model"}
      PROVE  /\ n \in DOMAIN from_modules(fs)[kind] <=> decl.kind = kind
             /\ decl.kind = kind => from_modules(fs)[kind][n] = decl
  <2>1. n \in DeclaredAs(fs, kind) <=> decl.kind = kind
    BY <1>4 DEF DeclaredAs
  <2>2. from_modules(fs)[kind] = [m \in DeclaredAs(fs, kind) |-> LastDeclaration(fs, kind, m)]
    BY DEF from_modules
  <2> HIDE DEF decl
  <2>3. QED
    BY <1>6, <2>1, <2>2
<1>8. entered_kind(fs, n) = decl.kind
  <2> DEFINE kinds == <<"alias", "struct", "model", "enum">>
             S == {k \in DOMAIN kinds : DeclaringFiles(fs, kinds[k], n) # {}}
  <2>1. PICK k \in 1..4 : kinds[k] = decl.kind
    BY <1>2
  <2>2. \A j \in 1..4 : kinds[j] = decl.kind => j = k
    BY <2>1
  <2>3. \A j \in 1..4 : DeclaringFiles(fs, kinds[j], n) # {} <=> kinds[j] = decl.kind
    <3>1. \A j \in 1..4 : kinds[j] \in {"alias", "struct", "model", "enum"}
      OBVIOUS
    <3> HIDE DEF kinds, decl
    <3>2. QED
      BY <1>4, <3>1
  <2>4. DOMAIN kinds = 1..4
    OBVIOUS
  <2> HIDE DEF kinds
  <2>5. S = {k}
    BY <2>1, <2>2, <2>3, <2>4
  <2>6. Greatest({k}) = k
    BY DEF Greatest
  <2>7. QED
    BY <2>1, <2>5, <2>6 DEF entered_kind, kinds
<1>9. /\ n \in DOMAIN component_schemas(fs)
      /\ component_schemas(fs)[n] = component(LastDeclaration(fs, entered_kind(fs, n), n))
  BY DEF component_schemas
<1>10. component_schemas(fs)[n] = component(decl)
  BY <1>6, <1>8, <1>9
<1> HIDE DEF decl
<1>11. QED
  BY <1>4, <1>7, <1>9, <1>10 DEF decl

\* And nothing else is entered.
LEMMA OnlyEntered ==
    ASSUME NEW fs, NEW n, \A i \in DOMAIN fs : n \notin DOMAIN fs[i]
    PROVE  /\ \A kind \in {"alias", "struct", "model"} : n \notin DOMAIN from_modules(fs)[kind]
           /\ n \notin DOMAIN component_schemas(fs)
<1>1. \A kind : n \notin DeclaredAs(fs, kind)
  BY DEF DeclaredAs
<1>2. ASSUME NEW kind \in {"alias", "struct", "model"}
      PROVE  DOMAIN from_modules(fs)[kind] = DeclaredAs(fs, kind)
  BY DEF from_modules
<1>3. DOMAIN component_schemas(fs) = UNION {DOMAIN fs[i] : i \in DOMAIN fs}
  BY DEF component_schemas
<1>4. QED
  BY <1>1, <1>2, <1>3

-----------------------------------------------------------------------------
\* What is accepted is documented.

\* A value and those it is made of.
LEMMA ClosedParts ==
    ASSUME NEW values, Closed(values), NEW v \in values
    PROVE  /\ v.k = "array" => DOMAIN v.items \subseteq Nat /\ \A i \in DOMAIN v.items : v.items[i] \in values
           /\ v.k = "object" => \A n \in DOMAIN v.members : v.members[n] \in values
BY DEF Closed

\* What is accepted, with one call less, has what the document asks for.
SoundAt(s, schema_of, values, i) ==
    \A type \in TypeExprs, v \in values :
        outcome_within(s, values)[i][type][v] = Valid =>
            admitted_within(schema_of, values)[i][type_schema(type)][v]

\* A rule that holds, of a value that is there.
LEMMA RulesHeld ==
    ASSUME NEW rules \in Seq(Rules), NEW v, validate_rules(rules, v) = Valid
    PROVE  Held(rules, v)
<1>1. \A r \in Range(rules) : rule_holds(r, v)
  BY DEF validate_rules, Valid, Refused
<1>2. KeptRules(rules) \subseteq Range(rules)
  BY DEF KeptRules, Range
<1>3. QED
  BY <1>1, <1>2 DEF Held

\* The fields of a list.
LEMMA FieldsOf ==
    ASSUME NEW rules, NEW fields \in FieldLists(rules)
    PROVE  /\ DOMAIN fields \subseteq Nat
           /\ \A i \in DOMAIN fields :
                 /\ fields[i].name \in STRING /\ fields[i].type \in TypeExprs
                 /\ fields[i].rules \in rules
<1> DEFINE S == [name : STRING, type : TypeExprs, rules : rules]
<1>1. fields \in Seq(S)
  BY DEF FieldLists
<1>2. \A f \in S : f.name \in STRING /\ f.type \in TypeExprs /\ f.rules \in rules
  OBVIOUS
<1> HIDE DEF S
<1>3. DOMAIN fields = 1..Len(fields) /\ Len(fields) \in Nat /\ \A i \in DOMAIN fields : fields[i] \in S
  BY <1>1
<1>4. QED
  BY <1>2, <1>3

\* The declarations of a file.
LEMMA Declared ==
    ASSUME NEW decl \in Declarations
    PROVE  /\ decl.kind \in {"alias", "struct", "model", "enum"}
           /\ decl.kind = "alias" => decl.type \in TypeExprs /\ decl.rules \in Seq(Rules)
           /\ decl.kind \in {"struct", "model"} =>
                 /\ DOMAIN decl.fields \subseteq Nat
                 /\ \A i \in DOMAIN decl.fields :
                       /\ decl.fields[i].name \in STRING /\ decl.fields[i].type \in TypeExprs
                       /\ decl.fields[i].rules \in Seq(Rules)
                       /\ decl.kind = "model" => decl.fields[i].rules = << >>
<1>1. decl.kind \in {"alias", "struct", "model", "enum"}
  BY DEF Declarations
<1>2. CASE decl.kind = "alias"
  BY <1>2 DEF Declarations
<1>3. CASE decl.kind = "struct"
  <2>1. decl.fields \in FieldLists(Seq(Rules))
    BY <1>3 DEF Declarations
  <2>2. /\ DOMAIN decl.fields \subseteq Nat
        /\ \A i \in DOMAIN decl.fields :
              /\ decl.fields[i].name \in STRING /\ decl.fields[i].type \in TypeExprs
              /\ decl.fields[i].rules \in Seq(Rules)
    BY <2>1, FieldsOf
  <2>3. QED
    BY <1>3, <2>2
<1>4. CASE decl.kind = "model"
  <2>1. decl.fields \in FieldLists({<< >>})
    BY <1>4 DEF Declarations
  <2>2. \A i \in DOMAIN decl.fields :
           /\ decl.fields[i].name \in STRING /\ decl.fields[i].type \in TypeExprs
           /\ decl.fields[i].rules = << >>
    BY <2>1, FieldsOf
  <2>3. << >> \in Seq(Rules)
    OBVIOUS
  <2>4. DOMAIN decl.fields \subseteq Nat
    BY <2>1, FieldsOf
  <2>5. QED
    BY <1>4, <2>2, <2>3, <2>4
<1>5. QED
  BY <1>1, <1>2, <1>3, <1>4

\* The component of a struct or a model lists each field under its name.
LEMMA ObjectComponent ==
    ASSUME NEW fields
    PROVE  /\ object_component(fields).form = "object"
           /\ DOMAIN object_component(fields).properties = {f.name : f \in Range(fields)}
           /\ \A n \in DOMAIN object_component(fields).properties : \E i \in DOMAIN fields :
                 /\ fields[i].name = n
                 /\ object_component(fields).properties[n] = field_schema(fields[i])
           /\ object_component(fields).required =
                 {f.name : f \in {g \in Range(fields) : ~type_expr_is_optional(g.type)}}
<1> DEFINE properties == [n \in {f.name : f \in Range(fields)} |->
                             field_schema(CHOOSE f \in Range(fields) : f.name = n)]
           required == {f.name : f \in {g \in Range(fields) : ~type_expr_is_optional(g.type)}}
<1>1. object_component(fields) = [form |-> "object", properties |-> properties, required |-> required]
  BY DEF object_component, ObjectSchema
<1>2. ASSUME NEW n \in {f.name : f \in Range(fields)}
      PROVE  \E i \in DOMAIN fields : fields[i].name = n /\ properties[n] = field_schema(fields[i])
  <2> DEFINE f == CHOOSE f \in Range(fields) : f.name = n
  <2>1. f \in Range(fields) /\ f.name = n
    BY <1>2
  <2>2. properties[n] = field_schema(f)
    OBVIOUS
  <2> HIDE DEF f
  <2>3. PICK i \in DOMAIN fields : fields[i] = f
    BY <2>1 DEF Range
  <2>4. QED
    BY <2>1, <2>2, <2>3
<1>3. DOMAIN properties = {f.name : f \in Range(fields)}
  OBVIOUS
<1> HIDE DEF properties, required
<1>4. QED
  BY <1>1, <1>2, <1>3 DEF required

\* An object accepted has the members its component asks for.
LEMMA SoundObject ==
    ASSUME NEW s, NEW schema_of, NEW values, Closed(values), NEW i \in 0..Depth,
           SoundAt(s, schema_of, values, i),
           NEW decl \in Declarations, decl.kind \in {"struct", "model"}, NEW v \in values,
           v.k = "object",
           \A j \in DOMAIN decl.fields :
               /\ field_outcome(decl.fields[j], v, outcome_within(s, values)[i]) = Valid
               /\ decl.kind = "struct" /\ decl.fields[j].name \in DOMAIN v.members =>
                     validate_field_rules(decl.fields[j], v.members[decl.fields[j].name]) = Valid
    PROVE  ObjectAdmits(component(decl), v, admitted_within(schema_of, values)[i])
<1> DEFINE object == object_component(decl.fields)
           B == outcome_within(s, values)[i]
           A == admitted_within(schema_of, values)[i]
<1>1. component(decl) = object
  BY DEF component
<1>2. \A j \in DOMAIN decl.fields :
         /\ decl.fields[j].name \in STRING /\ decl.fields[j].type \in TypeExprs
         /\ decl.fields[j].rules \in Seq(Rules)
         /\ decl.kind = "model" => decl.fields[j].rules = << >>
  BY Declared
<1>3. ASSUME NEW n \in object.required PROVE n \in DOMAIN v.members
  <2>1. PICK j \in DOMAIN decl.fields :
           decl.fields[j].name = n /\ ~type_expr_is_optional(decl.fields[j].type)
    BY <1>3, ObjectComponent DEF Range
  <2>2. QED
    BY <2>1 DEF field_outcome, Valid, Refused
<1>4. ASSUME NEW n \in DOMAIN v.members \cap DOMAIN object.properties
      PROVE  A[object.properties[n]][v.members[n]]
  <2>1. PICK j \in DOMAIN decl.fields :
           decl.fields[j].name = n /\ object.properties[n] = field_schema(decl.fields[j])
    BY <1>4, ObjectComponent
  <2> DEFINE field == decl.fields[j]
             w == v.members[n]
             schema == type_schema(field.type)
  <2>2. w \in values
    BY <1>4, ClosedParts
  <2>3. field.type \in TypeExprs /\ field.rules \in Seq(Rules)
    BY <1>2
  <2>4. B[field.type][w] = Valid
    BY <1>4, <2>1 DEF field_outcome
  <2>5. A[schema][w]
    BY <2>2, <2>3, <2>4 DEF SoundAt
  <2>6. Held(field.rules, w)
    <3>1. CASE decl.kind = "model"
      <4>1. field.rules = << >>
        BY <1>2, <3>1
      <4>2. KeptRules(<< >>) = {}
        BY DEF KeptRules
      <4>3. QED
        BY <4>1, <4>2 DEF Held
    <3>2. CASE decl.kind = "struct"
      <4>1. validate_field_rules(field, w) = Valid
        BY <1>4, <2>1, <3>2
      <4>2. CASE w = Null
        BY <4>2 DEF Held, Null
      <4>3. CASE w # Null
        <5>1. validate_rules(field.rules, w) = Valid
          BY <4>1, <4>3 DEF validate_field_rules
        <5>2. QED
          BY <2>3, <5>1, RulesHeld
      <4>4. QED
        BY <4>2, <4>3
    <3>3. QED
      BY <3>1, <3>2
  <2>7. schema \in TypeSchemas /\ schema.rules = {}
    BY <2>3, SchemaOf
  <2>8. field_schema(field) = apply_field_validations(schema, field.rules)
    BY DEF field_schema
  <2> HIDE DEF schema, w, A
  <2>9. A[apply_field_validations(schema, field.rules)][w]
    BY <2>2, <2>3, <2>5, <2>6, <2>7, AdmittedRules DEF A
  <2>10. QED
    BY <2>1, <2>8, <2>9 DEF w
<1> HIDE DEF object, A, B
<1>5. QED
  BY <1>1, <1>3, <1>4 DEF ObjectAdmits, A

\* What a name stands for.
LEMMA SoundName ==
    ASSUME NEW fs, IsProject(fs), Unique(fs), NEW values, Closed(values), NEW i \in 0..Depth,
           SoundAt(from_modules(fs), component_schemas(fs), values, i),
           NEW name, NEW v \in values, name \notin Primitives,
           validate_value_as(from_modules(fs), name, v,
                             outcome_within(from_modules(fs), values)[i]) = Valid
    PROVE  ReferenceAdmits(component_schemas(fs), name, v,
                           admitted_within(component_schemas(fs), values)[i])
<1> DEFINE s == from_modules(fs)
           schema_of == component_schemas(fs)
           B == outcome_within(s, values)[i]
           A == admitted_within(schema_of, values)[i]
<1>1. CASE \A j \in DOMAIN fs : name \notin DOMAIN fs[j]
  BY <1>1, OnlyEntered DEF ReferenceAdmits
<1>2. ASSUME NEW j \in DOMAIN fs, name \in DOMAIN fs[j]
      PROVE  ReferenceAdmits(schema_of, name, v, A)
  <2> DEFINE decl == fs[j][name]
  <2>1. decl \in Declarations
    BY <1>2 DEF IsProject, IsSourceFile
  <2>2. /\ \A kind \in {"alias", "struct", "model"} :
              /\ name \in DOMAIN s[kind] <=> decl.kind = kind
              /\ decl.kind = kind => s[kind][name] = decl
        /\ name \in DOMAIN schema_of /\ schema_of[name] = component(decl)
    BY <1>2, Entered
  <2> DEFINE outcome == validate_value_as(s, name, v, B)
  <2>3. outcome = Valid
    OBVIOUS
  <2>4. CASE decl.kind = "alias"
    <3>1. decl.type \in TypeExprs /\ decl.rules \in Seq(Rules)
      BY <2>1, <2>4, Declared
    <3>2. outcome = FirstFailure(<<B[decl.type][v], validate_rules(decl.rules, v)>>)
      BY <2>2, <2>4 DEF validate_value_as
    <3>3. B[decl.type][v] = Valid /\ validate_rules(decl.rules, v) = Valid
      BY <2>3, <3>2, BothValid
    <3>4. A[type_schema(decl.type)][v]
      BY <3>1, <3>3 DEF SoundAt
    <3>5. Held(decl.rules, v)
      BY <3>1, <3>3, RulesHeld
    <3> DEFINE schema == type_schema(decl.type)
    <3>6. schema \in TypeSchemas /\ schema.rules = {}
      BY <3>1, SchemaOf
    <3>7. component(decl) = apply_field_validations(schema, decl.rules)
      BY <2>4 DEF component
    <3> HIDE DEF schema
    <3>8. component(decl).form = schema.form
      BY <3>1, <3>6, <3>7, RuledSchema
    <3>9. component(decl).form # "object"
      BY <3>6, <3>8 DEF TypeSchemas
    <3>10. A[component(decl)][v]
      BY <3>1, <3>4, <3>5, <3>6, <3>7, AdmittedRules DEF schema
    <3> HIDE DEF A, decl, schema_of
    <3>11. QED
      BY <2>2, <3>9, <3>10 DEF ReferenceAdmits
  <2>5. CASE decl.kind \in {"struct", "model"}
    <3>0. component(decl).form = "object"
      BY <2>5, ObjectComponent DEF component
    <3>1. DOMAIN decl.fields \subseteq Nat
      BY <2>1, <2>5, Declared
    <3>2. CASE decl.kind = "struct"
      <4>1. outcome = validate_struct_fields(decl.fields, v, B)
        BY <2>2, <3>2 DEF validate_value_as
      <4> DEFINE checks == [k \in DOMAIN decl.fields |-> struct_field_outcome(decl.fields[k], v, B)]
      <4>2. v.k = "object" /\ FirstFailure(checks) = Valid
        BY <2>3, <4>1 DEF validate_struct_fields, Valid, Refused
      <4>3. \A k \in DOMAIN decl.fields : checks[k] = Valid
        <5>1. DOMAIN checks = DOMAIN decl.fields
          OBVIOUS
        <5> HIDE DEF checks
        <5>2. QED
          BY <3>1, <4>2, <5>1, AllValid
      <4>4. \A k \in DOMAIN decl.fields :
               /\ field_outcome(decl.fields[k], v, B) = Valid
               /\ decl.fields[k].name \in DOMAIN v.members =>
                     validate_field_rules(decl.fields[k], v.members[decl.fields[k].name]) = Valid
        <5> SUFFICES ASSUME NEW k \in DOMAIN decl.fields
                     PROVE  /\ field_outcome(decl.fields[k], v, B) = Valid
                            /\ decl.fields[k].name \in DOMAIN v.members =>
                                  validate_field_rules(decl.fields[k], v.members[decl.fields[k].name]) = Valid
          OBVIOUS
        <5>1. struct_field_outcome(decl.fields[k], v, B) = Valid
          BY <4>3
        <5> HIDE DEF decl, B
        <5>2. QED
          BY <5>1 DEF struct_field_outcome
      <4>5. ObjectAdmits(component(decl), v, A)
        BY <2>1, <3>2, <4>2, <4>4, SoundObject
      <4> HIDE DEF A, decl, schema_of
      <4>6. QED
        BY <2>2, <3>0, <4>5 DEF ReferenceAdmits
    <3>3. CASE decl.kind = "model"
      <4>1. outcome = validate_model_fields_as(decl.fields, v, B)
        BY <2>2, <3>3 DEF validate_value_as
      <4> DEFINE checks == [k \in DOMAIN decl.fields |-> field_outcome(decl.fields[k], v, B)]
      <4>2. v.k = "object" /\ FirstFailure(checks) = Valid
        BY <2>3, <4>1 DEF validate_model_fields_as, Valid, Refused
      <4>3. \A k \in DOMAIN decl.fields : checks[k] = Valid
        <5>1. DOMAIN checks = DOMAIN decl.fields
          OBVIOUS
        <5> HIDE DEF checks
        <5>2. QED
          BY <3>1, <4>2, <5>1, AllValid
      <4>4. \A k \in DOMAIN decl.fields : field_outcome(decl.fields[k], v, B) = Valid
        BY <4>3
      <4>5. ObjectAdmits(component(decl), v, A)
        BY <2>1, <3>3, <4>2, <4>4, SoundObject
      <4> HIDE DEF A, decl, schema_of
      <4>6. QED
        BY <2>2, <3>0, <4>5 DEF ReferenceAdmits
    <3>4. QED
      BY <2>5, <3>2, <3>3
  <2>6. CASE decl.kind = "enum"
    <3>1. outcome = IF validate_primitive(name, v) THEN Valid ELSE Refused
      BY <2>2, <2>6 DEF validate_value_as
    <3>2. ~validate_primitive(name, v)
      BY DEF validate_primitive, Primitives
    <3>3. QED
      BY <2>3, <3>1, <3>2 DEF Valid, Refused
  <2>7. QED
    BY <2>1, <2>4, <2>5, <2>6, Declared
<1>3. QED
  BY <1>1, <1>2

\* One call more.
LEMMA SoundStep ==
    ASSUME NEW fs, IsProject(fs), Unique(fs), NEW values, Closed(values), NEW i \in 1..Depth,
           SoundAt(from_modules(fs), component_schemas(fs), values, i - 1)
    PROVE  SoundAt(from_modules(fs), component_schemas(fs), values, i)
<1> DEFINE s == from_modules(fs)
           schema_of == component_schemas(fs)
           B == outcome_within(s, values)[i - 1]
           A == admitted_within(schema_of, values)[i - 1]
<1> SUFFICES ASSUME NEW type \in TypeExprs, NEW v \in values,
                    outcome_within(s, values)[i][type][v] = Valid
             PROVE  admitted_within(schema_of, values)[i][type_schema(type)][v]
  BY DEF SoundAt
<1> DEFINE schema == type_schema(type)
<1>0. i - 1 \in 0..Depth
  BY DepthAssumption
<1>1. validate_type_expr_as(s, type, v, B) = Valid
  BY OutcomeSteps, ZenonT(60)
<1>2. schema \in TypeSchemas /\ schema.rules = {} /\ (schema.shape = << >> <=> type.shape = << >>)
  BY SchemaOf
<1>3. SUFFICES SchemaAdmits(schema_of, schema, v, A)
  <2>1. admitted_within(schema_of, values)[i][schema][v] <=> SchemaAdmits(schema_of, schema, v, A)
    BY <1>2, AdmittedSteps
  <2> HIDE DEF A, schema_of
  <2>2. QED
    BY <1>3, <2>1
<1>4. CASE type.shape # << >>
  <2>1. inner(type) \in TypeExprs
    BY <1>4, InnerType
  <2>2. within(schema) = type_schema(inner(type))
    BY <1>2, <1>4, WithinSchema
  <2>3. Head(schema.shape) = "nullable" <=> type_expr_is_optional(type)
    BY <1>4, SchemaOf
  <2>4. \A w \in values : B[inner(type)][w] = Valid => A[within(schema)][w]
    BY <2>1, <2>2 DEF SoundAt
  <2> HIDE DEF schema, A, B, schema_of, s
  <2>5. CASE type_expr_is_optional(type)
    BY <1>1, <1>2, <1>4, <2>3, <2>4, <2>5 DEF validate_type_expr_as, SchemaAdmits
  <2>6. CASE ~type_expr_is_optional(type)
    <3> DEFINE checks == [k \in DOMAIN v.items |-> B[inner(type)][v.items[k]]]
    <3>1. v.k = "array" /\ FirstFailure(checks) = Valid
      BY <1>1, <1>4, <2>6 DEF validate_type_expr_as, Valid, Refused
    <3>2. DOMAIN v.items \subseteq Nat /\ \A k \in DOMAIN v.items : v.items[k] \in values
      BY <3>1, ClosedParts
    <3>3. DOMAIN checks = DOMAIN v.items /\ \A k \in DOMAIN v.items : checks[k] = B[inner(type)][v.items[k]]
      OBVIOUS
    <3> HIDE DEF checks
    <3>4. \A k \in DOMAIN v.items : checks[k] = Valid
      BY <3>1, <3>2, <3>3, AllValid
    <3>5. \A k \in DOMAIN v.items : A[within(schema)][v.items[k]]
      BY <2>4, <3>2, <3>3, <3>4
    <3>6. QED
      BY <1>2, <1>4, <2>3, <2>6, <3>1, <3>5 DEF SchemaAdmits
  <2>7. QED
    BY <2>5, <2>6
<1>5. CASE type.shape = << >>
  <2> DEFINE name == type.path[1]
  <2>1. /\ schema.form = base_form(type) /\ schema.of = name
    BY SchemaOf
  <2>2. CASE schema.form = "primitive"
    <3>1. Len(type.path) = 1 /\ name \in Primitives
      BY <2>1, <2>2 DEF base_form
    <3>2. \A j \in DOMAIN fs : name \notin DOMAIN fs[j]
      BY <3>1 DEF Unique
    <3>3. name \notin DOMAIN s["alias"] /\ name \notin DOMAIN s["struct"] /\ name \notin DOMAIN s["model"]
      BY <3>2, OnlyEntered
    <3> HIDE DEF schema, A, B, schema_of, s
    <3>4. validate_value_as(s, name, v, B) = Valid
      BY <1>1, <1>5, <3>1 DEF validate_type_expr_as
    <3> HIDE DEF name
    <3>5. validate_primitive(name, v)
      BY <3>3, <3>4 DEF validate_value_as, Valid, Refused
    <3>6. PrimitiveAdmits(name, v)
      BY <3>1, <3>5 DEF validate_primitive, PrimitiveAdmits, Primitives
    <3>7. QED
      BY <1>2, <1>5, <2>1, <2>2, <3>6 DEF SchemaAdmits
  <2>3. CASE schema.form = "ref"
    <3>1. Len(type.path) = 1 /\ name \notin Primitives
      BY <2>1, <2>3 DEF base_form
    <3>2. validate_value_as(s, name, v, B) = Valid
      BY <1>1, <1>5, <3>1 DEF validate_type_expr_as
    <3>3. ReferenceAdmits(schema_of, name, v, A)
      BY <1>0, <3>1, <3>2, SoundName
    <3> HIDE DEF schema, A, B, schema_of, s, name
    <3>4. QED
      BY <1>2, <1>5, <2>1, <2>3, <3>3 DEF SchemaAdmits
  <2>4. CASE schema.form \notin {"primitive", "ref"}
    <3> HIDE DEF schema, A, B, schema_of, s, name
    <3>1. QED
      BY <1>2, <1>5, <2>4 DEF SchemaAdmits
  <2>5. QED
    BY <2>2, <2>3, <2>4
<1>6. QED
  BY <1>4, <1>5

\* And so with any number of them.
LEMMA SoundAlways ==
    ASSUME NEW fs, IsProject(fs), Unique(fs), NEW values, Closed(values)
    PROVE  SoundAt(from_modules(fs), component_schemas(fs), values, Depth)
<1> DEFINE T == {i \in 0..Depth : SoundAt(from_modules(fs), component_schemas(fs), values, i)}
<1>1. Depth \in Nat
  BY DepthAssumption
<1>2. 0 \in T
  <2>1. \A type \in TypeExprs, v \in values :
           outcome_within(from_modules(fs), values)[0][type][v] = Overflow
    BY OutcomeSteps
  <2>2. SoundAt(from_modules(fs), component_schemas(fs), values, 0)
    BY <2>1 DEF SoundAt, Valid, Overflow
  <2>3. QED
    BY <1>1, <2>2
<1>3. \A i \in 1..Depth : i - 1 \in T => i \in T
  <2>1. ASSUME NEW i \in 1..Depth, i - 1 \in T PROVE i \in T
    BY <1>1, <2>1, SoundStep
  <2>2. QED
    BY <2>1
<1>4. T = 0..Depth
  <2> HIDE DEF T
  <2>1. T \subseteq 0..Depth
    BY DEF T
  <2>2. QED
    BY <1>1, <1>2, <1>3, <2>1, UpTo
<1>5. QED
  BY <1>1, <1>4

\* The files of a project that is served.
LEMMA Served ==
    ASSUME Inv, UniqueNames, request # NoRequest
    PROVE  /\ IsProject(files) /\ Unique(files)
           /\ schemas = from_modules(files) /\ components = component_schemas(files)
           /\ \A n \in DeclaredNames : n \in STRING /\ \E i \in DOMAIN files : n \in DOMAIN files[i]
<1> USE DEF Inv
<1>1. stage = "serve"
  BY DEF RequestOK
<1>2. errors = {} /\ schemas = from_modules(files) /\ components = component_schemas(files)
  BY <1>1 DEF TablesOK
<1>3. \A i \in DOMAIN files : IsSourceFile(files[i])
  <2>1. Len(files) \in Nat /\ DOMAIN files = 1..Len(files)
    BY SequenceFacts DEF FilesOK
  <2>2. Len(Sources) \in Nat /\ DOMAIN Sources = 1..Len(Sources)
    BY SourcesAssumption
  <2>3. QED
    BY <2>1, <2>2, SourcesAssumption DEF FilesOK
<1>4. \A i \in DOMAIN files : check_source_file(files[i]) = {}
  BY <1>2 DEF ErrorsOK
<1>5. IsProject(files)
  BY <1>3, <1>4 DEF IsProject, FilesOK
<1>6. Unique(files)
  BY DEF UniqueNames, Unique, DeclaredNames, Range
<1>7. \A n \in DeclaredNames : n \in STRING /\ \E i \in DOMAIN files : n \in DOMAIN files[i]
  BY <1>3 DEF DeclaredNames, Range, IsSourceFile
<1>8. QED
  BY <1>2, <1>5, <1>6, <1>7

\* The type of a body or an answer.
LEMMA AskedTypes ==
    ASSUME NEW name \in STRING, NEW type \in {Named(name)} \cup AnswerTypes(name)
    PROVE  type \in TypeExprs
<1>1. << >> \in Seq({"option", "list"}) /\ <<"list">> \in Seq({"option", "list"})
      /\ <<"option">> \in Seq({"option", "list"})
  OBVIOUS
<1>2. Named(name) \in TypeExprs
  BY NameType
<1>3. \A w \in {"list", "option"} : <<w>> \o << >> \in Seq({"option", "list"})
  BY <1>1
<1> DEFINE path == <<name>>
<1>4. path \in Seq(STRING) \ {<< >>}
  BY OneSequence
<1>5. Named(name) = [shape |-> << >>, path |-> path]
  BY DEF Named
<1> HIDE DEF path
<1>6. ASSUME NEW w \in {"list", "option"} PROVE Around(w, Named(name)) \in TypeExprs
  <2> DEFINE shape == <<w>> \o << >>
  <2>1. Around(w, Named(name)) = [shape |-> shape, path |-> path]
    BY <1>5 DEF Around
  <2>2. shape \in Seq({"option", "list"})
    BY <1>3
  <2> HIDE DEF shape
  <2>3. QED
    BY <1>4, <2>1, <2>2 DEF TypeExprs
<1>7. QED
  BY <1>2, <1>6 DEF AnswerTypes, ListOf, Optional

\* A body or an answer is a value the runtime was asked about.
LEMMA AskedValues ==
    ASSUME Inv, UniqueNames, request.kind \in {"body", "answer"}
    PROVE  /\ request # NoRequest
           /\ request.type \in TypeExprs /\ request.sent \in Json
           /\ request.reply.outcome = validate_value(schemas, request.type, request.sent)
           /\ Json \cup {request.sent} = Json
<1>1. request # NoRequest
  BY DEF NoRequest, Request
<1>2. ~IsPath(request) /\ ~IsFields(request)
  BY DEF IsPath, IsFields, Request, Locations
<1>3. IsBody(request) \/ IsAnswer(request)
  BY <1>1, <1>2 DEF Inv, RequestOK
<1>4. \E name \in DeclaredNames, v \in Bodies : \E type \in {Named(name)} \cup AnswerTypes(name) :
         /\ request.type = type /\ request.sent = v
         /\ request.reply.outcome = validate_value(schemas, type, v)
  BY <1>3 DEF IsBody, IsAnswer, Request, Reply, validate_json_body
<1>5. \A name \in DeclaredNames : name \in STRING
  BY <1>1, Served
<1>6. request.type \in TypeExprs
  BY <1>4, <1>5, AskedTypes
<1>7. request.sent \in Json
  BY <1>4, InputsAssumption
<1>8. QED
  BY <1>1, <1>4, <1>6, <1>7

\* What the invariant says of a body or an answer that was let through.
LEMMA InvSound == Inv => AcceptedIsDocumented
<1> SUFFICES ASSUME Inv, request.kind \in {"body", "answer"}, request.reply.outcome = Valid,
                    UniqueNames
             PROVE  Documented(request.type, request.sent)
  BY DEF AcceptedIsDocumented
<1>1. /\ request # NoRequest /\ request.type \in TypeExprs /\ request.sent \in Json
      /\ outcome_within(schemas, Json)[Depth][request.type][request.sent] = Valid
  BY AskedValues DEF validate_value
<1>2. SoundAt(schemas, components, Json, Depth)
  BY <1>1, Served, SoundAlways, JsonAssumption
<1>3. admitted_within(components, Json)[Depth][type_schema(request.type)][request.sent]
  BY <1>1, <1>2 DEF SoundAt
<1>4. QED
  BY <1>3, AskedValues DEF Documented, Admits

\* Bodies and answers the runtime lets through conform to the document.
THEOREM AcceptedConforms == Spec => []AcceptedIsDocumented
BY InvAlways, InvSound, PTL

-----------------------------------------------------------------------------
\* What is documented is accepted.

\* The runtime carries out the types of a project.
AllCarried(fs) ==
    \A j \in DOMAIN fs : \A n \in DOMAIN fs[j] :
        /\ n \in RefNames /\ fs[j][n].kind # "enum"
        /\ fs[j][n].kind = "alias" => ~type_expr_is_optional(fs[j][n].type)
        /\ \A type \in TypesOf(fs[j][n]) :
              Len(type.path) = 1 /\ type.path[1] \in Primitives \cup DOMAIN fs[j]

\* The checker has nothing against the validations of a declaration.
LEMMA CleanDeclaration ==
    ASSUME NEW fs, IsProject(fs), NEW j \in DOMAIN fs, NEW n \in DOMAIN fs[j]
    PROVE  /\ fs[j][n].kind = "alias" => check_validations(fs[j], fs[j][n].type, fs[j][n].rules) = {}
           /\ fs[j][n].kind = "struct" => \A k \in DOMAIN fs[j][n].fields :
                 check_validations(fs[j], fs[j][n].fields[k].type, fs[j][n].fields[k].rules) = {}
           /\ fs[j][n].kind \in {"struct", "model"} => ~Repeats(fs[j][n].fields)
<1> DEFINE decl == fs[j][n]
<1>1. check_source_file(fs[j]) = {}
  BY DEF IsProject
<1>2. check_declaration(fs[j], decl) = {}
  BY <1>1 DEF check_source_file
<1>3. CASE decl.kind = "alias"
  BY <1>2, <1>3 DEF check_declaration
<1>4. CASE decl.kind = "struct"
  <2>1. check_declaration(fs[j], decl) =
           (UNION {check_validations(fs[j], f.type, f.rules) : f \in Range(decl.fields)})
           \cup {code \in {"E_TYPE_0004"} : Repeats(decl.fields)}
    BY <1>4 DEF check_declaration
  <2>2. ~Repeats(decl.fields)
    BY <1>2, <2>1
  <2>3. \A f \in Range(decl.fields) : check_validations(fs[j], f.type, f.rules) = {}
    BY <1>2, <2>1
  <2>4. \A k \in DOMAIN decl.fields : decl.fields[k] \in Range(decl.fields)
    BY DEF Range
  <2>5. QED
    BY <1>4, <2>2, <2>3, <2>4
<1>5. CASE decl.kind = "model"
  BY <1>2, <1>5 DEF check_declaration
<1>6. CASE decl.kind \notin {"alias", "struct", "model"}
  BY <1>6
<1>7. QED
  BY <1>3, <1>4, <1>5, <1>6

\* Rules it has nothing against all stay, and are those of a string.
LEMMA CleanRules ==
    ASSUME NEW file, NEW type, NEW rules \in Seq(Rules), check_validations(file, type, rules) = {}
    PROVE  /\ rules # << >> => is_string_like(file, type)
           /\ KeptRules(rules) = Range(rules)
<1>1. "E_TYPE_0010" \notin check_validations(file, type, rules)
  OBVIOUS
<1>2. rules # << >> => is_string_like(file, type)
  BY <1>1 DEF check_validations
<1>3. "E_TYPE_0012" \notin check_validations(file, type, rules)
  OBVIOUS
<1>4. ~ \E i, k \in DOMAIN rules : i < k /\ rules[i].rule = rules[k].rule
  BY <1>3 DEF check_validations
<1>5. KeptRules(rules) = Range(rules)
  BY <1>4 DEF KeptRules, Range
<1>6. QED
  BY <1>2, <1>5

\* A text rule that stays holds of a string.
LEMMA RulesOfString ==
    ASSUME NEW rules, KeptRules(rules) = Range(rules), NEW v, v.k = "string", Held(rules, v)
    PROVE  validate_rules(rules, v) = Valid
BY DEF Held, validate_rules

\* No rules hold of anything.
LEMMA NoRules ==
    ASSUME NEW v
    PROVE  validate_rules(<< >>, v) = Valid
BY DEF validate_rules, Range

\* The root of a name, one alias after another.
LEMMA CheckedSteps ==
    ASSUME NEW file, IsSourceFile(file), NEW name \in STRING
    PROVE  /\ Cardinality(DOMAIN file) \in Nat
           /\ checked_root_within(file)[0][name] = "none"
           /\ \A i \in 1..Cardinality(DOMAIN file) + 1 :
                 checked_root_within(file)[i][name] =
                    IF name \in Primitives THEN name
                    ELSE IF stands_for_a_name(file, name)
                    THEN checked_root_within(file)[i - 1][file[name].type.path[1]] ELSE "none"
<1> DEFINE last == Cardinality(DOMAIN file) + 1
           R == checked_root_within(file)
<1>1. Cardinality(DOMAIN file) \in Nat
  BY FS_CardinalityType DEF IsSourceFile
<1>2. last \in Nat
  BY <1>1
<1>3. R[0] = [n \in STRING |-> "none"]
  BY <1>2, CheckedUptoTop
<1>4. \A i \in 1..last : R[i] = checked_roots_over(file, R[i - 1])
  BY <1>2, CheckedUptoTop
<1>5. ASSUME NEW below
      PROVE  checked_roots_over(file, below)[name] =
                IF name \in Primitives THEN name
                ELSE IF stands_for_a_name(file, name) THEN below[file[name].type.path[1]] ELSE "none"
  BY DEF checked_roots_over
<1> HIDE DEF R
<1>6. QED
  BY <1>1, <1>3, <1>4, <1>5 DEF R

\* A type that is only optional is optional or bare.
LEMMA OnlyOptions ==
    ASSUME NEW type \in TypeExprs, bare_name(type)
    PROVE  /\ Len(type.path) = 1
           /\ type.shape # << >> => type_expr_is_optional(type) /\ bare_name(inner(type))
<1>1. type.shape \in Seq({"option", "list"})
  BY DEF TypeExprs
<1>2. Len(type.path) = 1 /\ \A k \in DOMAIN type.shape : type.shape[k] = "option"
  BY DEF bare_name, Range
<1>3. ASSUME type.shape # << >> PROVE type_expr_is_optional(type) /\ bare_name(inner(type))
  <2>1. Head(type.shape) = "option"
    BY <1>1, <1>2, <1>3
  <2>2. DOMAIN Tail(type.shape) = 1..Len(type.shape) - 1
        /\ \A k \in 1..Len(type.shape) - 1 : k + 1 \in DOMAIN type.shape /\ Tail(type.shape)[k] = type.shape[k + 1]
    BY <1>1, <1>3
  <2>3. \A k \in DOMAIN Tail(type.shape) : Tail(type.shape)[k] = "option"
    BY <1>2, <2>2
  <2>4. Range(inner(type).shape) \subseteq {"option"}
    BY <2>3 DEF inner, Range
  <2>5. inner(type).path = type.path
    BY DEF inner
  <2>6. QED
    BY <1>2, <1>3, <2>1, <2>4, <2>5 DEF bare_name, type_expr_is_optional
<1>4. QED
  BY <1>2, <1>3

\* A reference to an alias admits what its component admits.
LEMMA AliasAdmits ==
    ASSUME NEW fs, IsProject(fs), Unique(fs), AllCarried(fs), NEW values,
           NEW j \in DOMAIN fs, NEW type \in TypeExprs, type.shape = << >>, Len(type.path) = 1,
           type.path[1] \in DOMAIN fs[j], fs[j][type.path[1]].kind = "alias",
           NEW i \in 1..Depth, NEW v \in values
    PROVE  LET decl == fs[j][type.path[1]]
               A == admitted_within(component_schemas(fs), values)
           IN  A[i][type_schema(type)][v] <=>
                  A[i - 1][type_schema(decl.type)][v] /\ Held(decl.rules, v)
<1> DEFINE name == type.path[1]
           decl == fs[j][name]
           A == admitted_within(component_schemas(fs), values)
           schema == type_schema(type)
           under == type_schema(decl.type)
           rules == decl.rules
<1>1. /\ schema \in TypeSchemas /\ schema.rules = {} /\ schema.form = base_form(type)
      /\ schema.of = name /\ schema.shape = << >>
  BY SchemaOf
<1>2. decl.type \in TypeExprs /\ rules \in Seq(Rules)
  BY Declared DEF IsProject, IsSourceFile
<1>3. under \in TypeSchemas /\ under.rules = {}
  BY <1>2, SchemaOf
<1>4. name \in RefNames /\ name \notin Primitives
  BY DEF AllCarried, Unique
<1>5. schema.form = "ref"
  BY <1>1, <1>4 DEF base_form
<1>6. name \in DOMAIN component_schemas(fs) /\ component_schemas(fs)[name] = component(decl)
  BY Entered
<1>7. component(decl) = apply_field_validations(under, rules)
  BY DEF component
<1>8. i - 1 \in 0..Depth
  BY DepthAssumption
<1>9. A[i][schema][v] <=> SchemaAdmits(component_schemas(fs), schema, v, A[i - 1])
  <2>1. schema \in TypeSchemas
    BY <1>1
  <2> HIDE DEF schema
  <2>2. QED
    BY <2>1, AdmittedSteps, ZenonT(60)
<1> HIDE DEF under, rules, schema
<1>10. component(decl).form # "object"
  <2>1. component(decl).form = under.form
    BY <1>2, <1>3, <1>7, RuledSchema
  <2>2. QED
    BY <1>3, <2>1 DEF TypeSchemas
<1>11. A[i - 1][apply_field_validations(under, rules)][v] <=> A[i - 1][under][v] /\ Held(rules, v)
  BY <1>2, <1>3, <1>8, AdmittedRules
<1>12. SchemaAdmits(component_schemas(fs), schema, v, A[i - 1]) <=> A[i - 1][component(decl)][v]
  <2> HIDE DEF A, decl, name
  <2>1. SchemaAdmits(component_schemas(fs), schema, v, A[i - 1]) <=>
           ReferenceAdmits(component_schemas(fs), name, v, A[i - 1])
    BY <1>1, <1>5 DEF SchemaAdmits
  <2>2. ReferenceAdmits(component_schemas(fs), name, v, A[i - 1]) <=> A[i - 1][component(decl)][v]
    BY <1>6, <1>10 DEF ReferenceAdmits
  <2>3. QED
    BY <2>1, <2>2
<1> HIDE DEF A
<1>13. A[i][schema][v] <=> A[i - 1][under][v] /\ Held(rules, v)
  BY <1>7, <1>9, <1>11, <1>12
<1>14. QED
  BY <1>13 DEF A, schema, under, rules

\* A primitive's schema.
LEMMA PrimitiveSchema ==
    ASSUME NEW schema_of, NEW values, NEW type \in TypeExprs, type.shape = << >>, Len(type.path) = 1,
           type.path[1] \in Primitives, NEW i \in 1..Depth, NEW v \in values
    PROVE  admitted_within(schema_of, values)[i][type_schema(type)][v] <=> PrimitiveAdmits(type.path[1], v)
<1> DEFINE schema == type_schema(type)
           A == admitted_within(schema_of, values)
           name == type.path[1]
<1>1. /\ schema \in TypeSchemas /\ schema.rules = {} /\ schema.form = base_form(type)
      /\ schema.of = name /\ schema.shape = << >>
  BY SchemaOf
<1>2. schema.form = "primitive"
  BY <1>1 DEF base_form
<1>3. A[i][schema][v] <=> SchemaAdmits(schema_of, schema, v, A[i - 1])
  <2>1. schema \in TypeSchemas
    BY <1>1
  <2> HIDE DEF schema
  <2>2. QED
    BY <2>1, AdmittedSteps, ZenonT(60)
<1> HIDE DEF schema, A, name
<1>4. SchemaAdmits(schema_of, schema, v, A[i - 1]) <=> PrimitiveAdmits(name, v)
  BY <1>1, <1>2 DEF SchemaAdmits
<1>5. QED
  BY <1>3, <1>4 DEF A, schema, name

\* Fields with names of their own are listed as they are.
LEMMA ComponentField ==
    ASSUME NEW fields, \A k, m \in DOMAIN fields : fields[k].name = fields[m].name => k = m,
           NEW k \in DOMAIN fields
    PROVE  /\ fields[k].name \in DOMAIN object_component(fields).properties
           /\ object_component(fields).properties[fields[k].name] = field_schema(fields[k])
           /\ ~type_expr_is_optional(fields[k].type) => fields[k].name \in object_component(fields).required
<1> DEFINE object == object_component(fields)
           field == fields[k]
<1>1. field \in Range(fields)
  BY DEF Range
<1>2. field.name \in DOMAIN object.properties
  BY <1>1, ObjectComponent
<1>3. PICK m \in DOMAIN fields : fields[m].name = field.name
          /\ object.properties[field.name] = field_schema(fields[m])
  BY <1>2, ObjectComponent
<1>4. m = k
  BY <1>3
<1>5. ~type_expr_is_optional(field.type) => field.name \in object.required
  BY <1>1, ObjectComponent
<1>6. QED
  BY <1>2, <1>3, <1>4, <1>5

\* The fields of a declaration have names of their own.
LEMMA DistinctFields ==
    ASSUME NEW fs, IsProject(fs), NEW j \in DOMAIN fs, NEW n \in DOMAIN fs[j],
           fs[j][n].kind \in {"struct", "model"}
    PROVE  \A k, m \in DOMAIN fs[j][n].fields :
              fs[j][n].fields[k].name = fs[j][n].fields[m].name => k = m
<1>1. DOMAIN fs[j][n].fields \subseteq Nat
  BY Declared DEF IsProject, IsSourceFile
<1>2. ~Repeats(fs[j][n].fields)
  BY CleanDeclaration
<1>3. QED
  BY <1>1, <1>2 DEF Repeats

\* A schema admits strings alone.
StringsOnly(schema_of, values, schema, i) ==
    \A v \in values : admitted_within(schema_of, values)[i][schema][v] => v.k = "string"

\* The schema of a name the checker takes for a string admits strings alone:
\* every alias on the way there refers to the next one.
LEMMA StringName ==
    ASSUME NEW fs, IsProject(fs), Unique(fs), AllCarried(fs), NEW values, NEW j \in DOMAIN fs,
           NEW hops \in 0..Cardinality(DOMAIN fs[j]) + 1,
           NEW type \in TypeExprs, type.shape = << >>, Len(type.path) = 1,
           checked_root_within(fs[j])[hops][type.path[1]] \in {"String", "Text"},
           NEW i \in 0..Depth
    PROVE  StringsOnly(component_schemas(fs), values, type_schema(type), i)
<1> DEFINE file == fs[j]
           R == checked_root_within(file)
           last == Cardinality(DOMAIN file) + 1
           A == admitted_within(component_schemas(fs), values)
           StringAt(h) ==
              \A t \in TypeExprs, d \in 0..Depth :
                 t.shape = << >> /\ Len(t.path) = 1 /\ R[h][t.path[1]] \in {"String", "Text"} =>
                    StringsOnly(component_schemas(fs), values, type_schema(t), d)
           T == {h \in 0..last : StringAt(h)}
<1>1. IsSourceFile(file)
  BY DEF IsProject
<1>2. /\ Cardinality(DOMAIN file) \in Nat
      /\ \A name \in STRING :
            /\ R[0][name] = "none"
            /\ \A h \in 1..last :
                  R[h][name] = IF name \in Primitives THEN name
                               ELSE IF stands_for_a_name(file, name)
                               THEN R[h - 1][file[name].type.path[1]] ELSE "none"
  <2>1. hops \in 0..Cardinality(DOMAIN file) + 1
    OBVIOUS
  <2>2. Cardinality(DOMAIN file) \in Nat
    BY <1>1, FS_CardinalityType DEF IsSourceFile
  <2>3. QED
    BY <1>1, <2>2, CheckedSteps
<1>3. last \in Nat
  BY <1>2
<1> HIDE DEF R
<1>4. 0 \in T
  <2>1. ASSUME NEW t \in TypeExprs, R[0][t.path[1]] \in {"String", "Text"} PROVE FALSE
    BY <1>2, <2>1, InnerType
  <2>2. StringAt(0)
    BY <2>1
  <2>3. QED
    BY <1>3, <2>2
<1>5. ASSUME NEW h \in 1..last, h - 1 \in T PROVE h \in T
  <2>1. SUFFICES ASSUME NEW t \in TypeExprs, NEW d \in 0..Depth, t.shape = << >>, Len(t.path) = 1,
                        R[h][t.path[1]] \in {"String", "Text"}, NEW v \in values,
                        A[d][type_schema(t)][v]
                 PROVE  v.k = "string"
    <3>1. StringAt(h)
      BY <2>1 DEF StringsOnly
    <3>2. QED
      BY <1>3, <3>1
  <2> DEFINE name == t.path[1]
  <2>2. name \in STRING
    BY InnerType
  <2>3. d # 0 /\ d \in 1..Depth /\ d - 1 \in 0..Depth
    <3>1. type_schema(t) \in TypeSchemas
      BY SchemaOf
    <3>2. ~A[0][type_schema(t)][v]
      BY <3>1, AdmittedSteps
    <3>3. QED
      BY <2>1, <3>2, DepthAssumption
  <2>4. CASE name \in Primitives
    <3>1. name \in {"String", "Text"}
      <4>1. h \in 1..last
        BY <1>5
      <4> HIDE DEF last
      <4>2. R[h][name] = name
        BY <1>2, <2>2, <2>4, <4>1
      <4>3. QED
        BY <2>1, <4>2
    <3>2. PrimitiveAdmits(name, v)
      BY <2>1, <2>3, <2>4, PrimitiveSchema
    <3>3. QED
      BY <3>1, <3>2 DEF PrimitiveAdmits
  <2>5. CASE name \notin Primitives
    <3> DEFINE decl == file[name]
    <3>1. stands_for_a_name(file, name) /\ R[h - 1][decl.type.path[1]] \in {"String", "Text"}
      BY <1>2, <2>1, <2>2, <2>5
    <3>2. name \in DOMAIN file /\ decl.kind = "alias" /\ bare_name(decl.type)
      BY <3>1 DEF stands_for_a_name
    <3>3. decl.type \in TypeExprs
      BY <1>1, <3>2, Declared DEF IsSourceFile
    <3>4. ~type_expr_is_optional(decl.type)
      BY <3>2 DEF AllCarried
    <3>5. decl.type.shape = << >> /\ Len(decl.type.path) = 1
      BY <3>2, <3>3, <3>4, OnlyOptions
    <3>6. A[d - 1][type_schema(decl.type)][v]
      BY <2>1, <2>3, <3>2, AliasAdmits
    <3>7. StringsOnly(component_schemas(fs), values, type_schema(decl.type), d - 1)
      <4>1. StringAt(h - 1)
        BY <1>5
      <4>2. QED
        BY <2>3, <3>1, <3>3, <3>5, <4>1
    <3>8. QED
      BY <3>6, <3>7 DEF StringsOnly
  <2>6. QED
    BY <2>4, <2>5
<1>6. T = 0..last
  <2> HIDE DEF T, last
  <2>1. T \subseteq 0..last
    BY DEF T
  <2>2. QED
    BY <1>3, <1>4, <1>5, <2>1, UpTo
<1>7. StringAt(hops)
  BY <1>6
<1>8. QED
  BY <1>7 DEF R

\* And null, when it looked through options.
LEMMA StringLike ==
    ASSUME NEW fs, IsProject(fs), Unique(fs), AllCarried(fs), NEW values, NEW j \in DOMAIN fs,
           NEW type \in TypeExprs, is_string_like(fs[j], type), NEW i \in 0..Depth,
           NEW v \in values, admitted_within(component_schemas(fs), values)[i][type_schema(type)][v]
    PROVE  v.k = "string" \/ (v = Null /\ type_expr_is_optional(type))
<1> DEFINE file == fs[j]
           last == Cardinality(DOMAIN file) + 1
           A == admitted_within(component_schemas(fs), values)
           R == checked_root_within(file)
           TextAt(d) == \A t \in TypeExprs, w \in values :
              /\ bare_name(t) /\ R[last][t.path[1]] \in {"String", "Text"}
              /\ A[d][type_schema(t)][w]
              => w.k = "string" \/ (w = Null /\ type_expr_is_optional(t))
           T == {d \in 0..Depth : TextAt(d)}
<1>1. Depth \in Nat
  BY DepthAssumption
<1>2. last \in 0..last
  <2>1. Cardinality(DOMAIN file) \in Nat
    BY FS_CardinalityType DEF IsProject, IsSourceFile
  <2>2. QED
    BY <2>1
<1>3. bare_name(type) /\ R[last][type.path[1]] \in {"String", "Text"}
  <2>1. checked_primitive_root(file, type) \in {"String", "Text"}
    BY DEF is_string_like
  <2>2. QED
    BY <2>1 DEF checked_primitive_root
<1>4. ASSUME NEW t \in TypeExprs, t.shape = << >>, bare_name(t), NEW d \in 0..Depth,
             R[last][t.path[1]] \in {"String", "Text"}
      PROVE  \A w \in values : A[d][type_schema(t)][w] => w.k = "string"
  <2>1. Len(t.path) = 1
    BY <1>4, OnlyOptions
  <2>2. StringsOnly(component_schemas(fs), values, type_schema(t), d)
    BY <1>2, <1>4, <2>1, StringName
  <2>3. QED
    BY <2>2 DEF StringsOnly
<1> HIDE DEF R, A, last
<1>5. 0 \in T
  <2>1. \A t \in TypeExprs, w \in values : ~A[0][type_schema(t)][w]
    <3>1. \A t \in TypeExprs : type_schema(t) \in TypeSchemas
      BY SchemaOf
    <3>2. QED
      BY <3>1, AdmittedSteps DEF A
  <2>2. TextAt(0)
    BY <2>1
  <2>3. QED
    BY <1>1, <2>2
<1>6. ASSUME NEW d \in 1..Depth, d - 1 \in T PROVE d \in T
  <2>1. SUFFICES ASSUME NEW t \in TypeExprs, NEW w \in values, bare_name(t),
                        R[last][t.path[1]] \in {"String", "Text"}, A[d][type_schema(t)][w],
                        t.shape # << >>
                 PROVE  w.k = "string" \/ (w = Null /\ type_expr_is_optional(t))
    <3>1. d \in 0..Depth
      BY <1>1
    <3>2. TextAt(d)
      BY <1>4, <2>1, <3>1
    <3>3. QED
      BY <3>1, <3>2
  <2> DEFINE schema == type_schema(t)
  <2>2. type_expr_is_optional(t) /\ bare_name(inner(t)) /\ inner(t) \in TypeExprs
        /\ inner(t).path = t.path
    BY <2>1, OnlyOptions, InnerType
  <2>3. /\ schema \in TypeSchemas /\ schema.shape # << >> /\ Head(schema.shape) = "nullable"
        /\ within(schema) = type_schema(inner(t))
    BY <2>1, <2>2, SchemaOf, WithinSchema
  <2>4. A[d][schema][w] <=> SchemaAdmits(component_schemas(fs), schema, w, A[d - 1])
    BY <2>3, AdmittedSteps DEF A
  <2>5. w = Null \/ A[d - 1][type_schema(inner(t))][w]
    <3>1. SchemaAdmits(component_schemas(fs), schema, w, A[d - 1])
      BY <2>1, <2>4
    <3> HIDE DEF schema
    <3>2. QED
      BY <2>3, <3>1 DEF SchemaAdmits
  <2>6. TextAt(d - 1)
    BY <1>6
  <2>7. QED
    BY <2>1, <2>2, <2>5, <2>6
<1>7. T = 0..Depth
  <2> HIDE DEF T
  <2>1. T \subseteq 0..Depth
    BY DEF T
  <2>2. QED
    BY <1>1, <1>5, <1>6, <2>1, UpTo
<1>8. TextAt(i)
  BY <1>7
<1>9. QED
  BY <1>3, <1>8 DEF A

\* What has what the document asks for, with one reference less, has a good
\* outcome with one call less: it is accepted, or at least not refused.
CarriedType(fs, type) ==
    /\ Len(type.path) = 1
    /\ type.path[1] \in Primitives \/ \E j \in DOMAIN fs : type.path[1] \in DOMAIN fs[j]

CompleteAt(fs, values, i, d, good) ==
    \A type \in TypeExprs, v \in values :
        /\ CarriedType(fs, type)
        /\ admitted_within(component_schemas(fs), values)[d][type_schema(type)][v]
        => outcome_within(from_modules(fs), values)[i][type][v] \in good

\* Validations that the checker has nothing against, of a value that conforms.
LEMMA CompleteRules ==
    ASSUME NEW fs, IsProject(fs), Unique(fs), AllCarried(fs), NEW values, NEW i \in 0..Depth,
           NEW j \in DOMAIN fs, NEW type \in TypeExprs, NEW rules \in Seq(Rules), NEW v \in values,
           check_validations(fs[j], type, rules) = {},
           admitted_within(component_schemas(fs), values)[i][type_schema(type)][v],
           Held(rules, v), v # Null \/ ~type_expr_is_optional(type)
    PROVE  validate_rules(rules, v) = Valid
<1>1. CASE rules = << >>
  BY <1>1, NoRules
<1>2. CASE rules # << >>
  <2>1. is_string_like(fs[j], type) /\ KeptRules(rules) = Range(rules)
    BY <1>2, CleanRules
  <2>2. v.k = "string"
    BY <2>1, StringLike
  <2>3. QED
    BY <2>1, <2>2, RulesOfString
<1>3. QED
  BY <1>1, <1>2

\* The first failure of checks of good outcomes is good.
LEMMA AllGood ==
    ASSUME NEW outcomes, DOMAIN outcomes \subseteq Nat, NEW good, Valid \in good,
           \A i \in DOMAIN outcomes : outcomes[i] \in good
    PROVE  FirstFailure(outcomes) \in good
<1> DEFINE failing == {i \in DOMAIN outcomes : outcomes[i] # Valid}
<1>1. CASE failing = {}
  BY <1>1 DEF FirstFailure
<1>2. CASE failing # {}
  <2>1. Least(failing) \in failing
    BY <1>2, LeastIs
  <2>2. FirstFailure(outcomes) = outcomes[Least(failing)]
    BY <1>2 DEF FirstFailure
  <2>3. QED
    BY <2>1, <2>2
<1>3. QED
  BY <1>1, <1>2

\* An object that conforms is let through.
LEMMA CompleteObject ==
    ASSUME NEW fs, IsProject(fs), Unique(fs), AllCarried(fs), NEW values, Closed(values),
           NEW i \in 0..Depth, NEW d \in 0..Depth,
           NEW good, Valid \in good, CompleteAt(fs, values, i, d, good),
           NEW j \in DOMAIN fs, NEW n \in DOMAIN fs[j], fs[j][n].kind \in {"struct", "model"},
           NEW v \in values,
           ObjectAdmits(component(fs[j][n]), v, admitted_within(component_schemas(fs), values)[d])
    PROVE  /\ v.k = "object"
           /\ \A k \in DOMAIN fs[j][n].fields :
                 /\ field_outcome(fs[j][n].fields[k], v, outcome_within(from_modules(fs), values)[i]) \in good
                 /\ fs[j][n].kind = "struct" =>
                       struct_field_outcome(fs[j][n].fields[k], v,
                                            outcome_within(from_modules(fs), values)[i]) \in good
<1> DEFINE decl == fs[j][n]
           object == object_component(decl.fields)
           B == outcome_within(from_modules(fs), values)[i]
           A == admitted_within(component_schemas(fs), values)[d]
<1>1. component(decl) = object
  BY DEF component
<1>2. decl \in Declarations
  BY DEF IsProject, IsSourceFile
<1>3. \A k \in DOMAIN decl.fields :
         /\ decl.fields[k].name \in STRING /\ decl.fields[k].type \in TypeExprs
         /\ decl.fields[k].rules \in Seq(Rules)
         /\ decl.kind = "model" => decl.fields[k].rules = << >>
  BY <1>2, Declared
<1>4. /\ v.k = "object" /\ object.required \subseteq DOMAIN v.members
      /\ \A m \in DOMAIN v.members \cap DOMAIN object.properties : A[object.properties[m]][v.members[m]]
  <2> HIDE DEF object, decl, A
  <2>1. ObjectAdmits(object, v, A)
    BY <1>1 DEF decl, A
  <2>2. QED
    BY <2>1 DEF ObjectAdmits
<1>5. \A k, m \in DOMAIN decl.fields : decl.fields[k].name = decl.fields[m].name => k = m
  BY DistinctFields
<1>6. ASSUME NEW k \in DOMAIN decl.fields
      PROVE  /\ field_outcome(decl.fields[k], v, B) \in good
             /\ decl.kind = "struct" => struct_field_outcome(decl.fields[k], v, B) \in good
  <2> DEFINE field == decl.fields[k]
             w == v.members[field.name]
             schema == type_schema(field.type)
  <2>1. field.type \in TypeExprs /\ field.rules \in Seq(Rules)
    BY <1>3
  <2>2. CASE field.name \notin DOMAIN v.members
    <3>1. type_expr_is_optional(field.type)
      <4>1. ~type_expr_is_optional(field.type) => field.name \in object.required
        BY <1>5, ComponentField
      <4> HIDE DEF object, decl
      <4>2. QED
        BY <1>4, <2>2, <4>1
    <3> HIDE DEF B, decl
    <3>2. QED
      BY <2>2, <3>1 DEF field_outcome, struct_field_outcome
  <2>3. CASE field.name \in DOMAIN v.members
    <3>1. field.name \in DOMAIN object.properties /\ object.properties[field.name] = field_schema(field)
      BY <1>5, ComponentField
    <3>2. A[field_schema(field)][w]
      <4>1. field.name \in DOMAIN v.members \cap DOMAIN object.properties
        BY <2>3, <3>1
      <4> HIDE DEF object, A, decl
      <4>2. QED
        BY <1>4, <3>1, <4>1
    <3>3. w \in values
      BY <1>4, <2>3, ClosedParts
    <3>4. schema \in TypeSchemas /\ schema.rules = {}
      BY <2>1, SchemaOf
    <3>5. A[schema][w] /\ Held(field.rules, w)
      <4>1. field_schema(field) = apply_field_validations(schema, field.rules)
        BY DEF field_schema
      <4> DEFINE rules == field.rules
      <4>2. rules \in Seq(Rules)
        BY <2>1
      <4> HIDE DEF schema, w, rules
      <4>3. A[apply_field_validations(schema, rules)][w] <=> A[schema][w] /\ Held(rules, w)
        BY <3>3, <3>4, <4>2, AdmittedRules
      <4> HIDE DEF A, decl
      <4>4. QED
        BY <3>2, <4>1, <4>3 DEF rules
    <3>6. CarriedType(fs, field.type)
      <4>1. field.type \in TypesOf(decl)
        BY DEF TypesOf, Range
      <4>2. Len(field.type.path) = 1 /\ field.type.path[1] \in Primitives \cup DOMAIN fs[j]
        BY <4>1 DEF AllCarried
      <4>3. QED
        BY <4>2 DEF CarriedType
    <3>7. B[field.type][w] \in good
      BY <2>1, <3>3, <3>5, <3>6 DEF CompleteAt
    <3>8. field_outcome(field, v, B) \in good
      <4> HIDE DEF B, decl
      <4>1. QED
        BY <2>3, <3>7 DEF field_outcome
    <3>9. ASSUME decl.kind = "struct" PROVE struct_field_outcome(field, v, B) \in good
      <4>1. check_validations(fs[j], field.type, field.rules) = {}
        BY <3>9, CleanDeclaration
      <4>2. validate_field_rules(field, w) = Valid
        <5>1. CASE w = Null /\ type_expr_is_optional(field.type)
          BY <5>1 DEF validate_field_rules
        <5>2. CASE w # Null \/ ~type_expr_is_optional(field.type)
          <6>1. validate_rules(field.rules, w) = Valid
            <7> DEFINE type == field.type
                       rules == field.rules
            <7>1. /\ type \in TypeExprs /\ rules \in Seq(Rules)
                  /\ check_validations(fs[j], type, rules) = {}
                  /\ w # Null \/ ~type_expr_is_optional(type)
                  /\ A[type_schema(type)][w] /\ Held(rules, w)
              BY <2>1, <3>5, <4>1, <5>2
            <7> HIDE DEF type, rules, w
            <7>2. validate_rules(rules, w) = Valid
              BY <3>3, <7>1, CompleteRules
            <7>3. QED
              BY <7>2 DEF rules
          <6>2. QED
            BY <5>2, <6>1 DEF validate_field_rules
        <5>3. QED
          BY <5>1, <5>2
      <4> HIDE DEF B, decl
      <4>3. QED
        BY <2>3, <3>8, <4>2 DEF struct_field_outcome
    <3>10. QED
      BY <3>8, <3>9
  <2>4. QED
    BY <2>2, <2>3
<1>7. QED
  BY <1>4, <1>6

\* What a declared name stands for.
LEMMA CompleteName ==
    ASSUME NEW fs, IsProject(fs), Unique(fs), AllCarried(fs), NEW values, Closed(values),
           NEW i \in 0..Depth, NEW d \in 0..Depth,
           NEW good, Valid \in good, CompleteAt(fs, values, i, d, good),
           NEW j \in DOMAIN fs, NEW n \in DOMAIN fs[j], NEW v \in values,
           ReferenceAdmits(component_schemas(fs), n, v, admitted_within(component_schemas(fs), values)[d])
    PROVE  validate_value_as(from_modules(fs), n, v,
                             outcome_within(from_modules(fs), values)[i]) \in good
<1> DEFINE decl == fs[j][n]
           s == from_modules(fs)
           schema_of == component_schemas(fs)
           B == outcome_within(s, values)[i]
           A == admitted_within(schema_of, values)[d]
<1>1. decl \in Declarations
  BY DEF IsProject, IsSourceFile
<1>2. /\ \A kind \in {"alias", "struct", "model"} :
            /\ n \in DOMAIN s[kind] <=> decl.kind = kind
            /\ decl.kind = kind => s[kind][n] = decl
      /\ n \in DOMAIN schema_of /\ schema_of[n] = component(decl)
  BY Entered
<1>3. CASE decl.kind = "alias"
  <2>1. decl.type \in TypeExprs /\ decl.rules \in Seq(Rules)
    BY <1>1, <1>3, Declared
  <2> DEFINE schema == type_schema(decl.type)
  <2>2. schema \in TypeSchemas /\ schema.rules = {}
    BY <2>1, SchemaOf
  <2>3. component(decl) = apply_field_validations(schema, decl.rules)
    BY <1>3 DEF component
  <2> HIDE DEF schema
  <2>4. component(decl).form # "object"
    <3>1. component(decl).form = schema.form
      BY <2>1, <2>2, <2>3, RuledSchema
    <3>2. QED
      BY <2>2, <3>1 DEF TypeSchemas
  <2>5. A[component(decl)][v]
    <3> HIDE DEF A, decl, schema_of
    <3>1. ReferenceAdmits(schema_of, n, v, A)
      BY DEF schema_of, A
    <3>2. QED
      BY <1>2, <2>4, <3>1 DEF ReferenceAdmits
  <2>6. A[schema][v] /\ Held(decl.rules, v)
    <3> DEFINE rules == decl.rules
    <3>1. rules \in Seq(Rules)
      BY <2>1
    <3> HIDE DEF rules
    <3>2. A[apply_field_validations(schema, rules)][v] <=> A[schema][v] /\ Held(rules, v)
      BY <2>2, <3>1, AdmittedRules
    <3> HIDE DEF A, decl
    <3>3. QED
      BY <2>3, <2>5, <3>2 DEF rules
  <2>7. CarriedType(fs, decl.type)
    <3>1. decl.type \in TypesOf(decl)
      BY <1>3 DEF TypesOf
    <3>2. Len(decl.type.path) = 1 /\ decl.type.path[1] \in Primitives \cup DOMAIN fs[j]
      BY <3>1 DEF AllCarried
    <3>3. QED
      BY <3>2 DEF CarriedType
  <2>8. B[decl.type][v] \in good
    BY <2>1, <2>6, <2>7 DEF CompleteAt, schema
  <2>9. validate_rules(decl.rules, v) = Valid
    <3> DEFINE type == decl.type
               rules == decl.rules
    <3>1. /\ type \in TypeExprs /\ rules \in Seq(Rules) /\ A[type_schema(type)][v] /\ Held(rules, v)
      BY <2>1, <2>6 DEF schema
    <3>2. check_validations(fs[j], type, rules) = {}
      BY <1>3, CleanDeclaration
    <3>3. ~type_expr_is_optional(type)
      BY <1>3 DEF AllCarried
    <3> HIDE DEF type, rules
    <3>4. validate_rules(rules, v) = Valid
      BY <3>1, <3>2, <3>3, CompleteRules
    <3>5. QED
      BY <3>4 DEF rules
  <2>10. FirstFailure(<<B[decl.type][v], validate_rules(decl.rules, v)>>) \in good
    <3> DEFINE checks == <<B[decl.type][v], validate_rules(decl.rules, v)>>
    <3>1. DOMAIN checks = 1..2 /\ checks[1] \in good /\ checks[2] \in good
      BY <2>8, <2>9
    <3>2. DOMAIN checks \subseteq Nat /\ \A k \in DOMAIN checks : checks[k] \in good
      BY <3>1
    <3> HIDE DEF checks
    <3>3. QED
      BY <3>2, AllGood DEF checks
  <2>11. n \in DOMAIN s["alias"] /\ s["alias"][n] = decl
    BY <1>2, <1>3
  <2> HIDE DEF B, decl, s
  <2>12. QED
    BY <2>10, <2>11 DEF validate_value_as, B, s
<1>4. CASE decl.kind \in {"struct", "model"}
  <2>1. ObjectAdmits(component(decl), v, A)
    <3>1. component(decl).form = "object"
      BY <1>4, ObjectComponent DEF component
    <3> HIDE DEF A, decl, schema_of
    <3>2. ReferenceAdmits(schema_of, n, v, A)
      BY DEF schema_of, A
    <3>3. QED
      BY <1>2, <3>1, <3>2 DEF ReferenceAdmits
  <2>2. v.k = "object" /\ \A k \in DOMAIN decl.fields :
                 /\ field_outcome(decl.fields[k], v, B) \in good
                 /\ decl.kind = "struct" => struct_field_outcome(decl.fields[k], v, B) \in good
    BY <1>4, <2>1, CompleteObject
  <2>3. DOMAIN decl.fields \subseteq Nat
    BY <1>1, <1>4, Declared
  <2>4. CASE decl.kind = "struct"
    <3> DEFINE checks == [k \in DOMAIN decl.fields |-> struct_field_outcome(decl.fields[k], v, B)]
    <3>1. DOMAIN checks = DOMAIN decl.fields /\ \A k \in DOMAIN decl.fields : checks[k] \in good
      BY <2>2, <2>4
    <3>2. FirstFailure(checks) \in good
      <4> HIDE DEF checks
      <4>1. QED
        BY <2>3, <3>1, AllGood
    <3>3. validate_struct_fields(decl.fields, v, B) \in good
      BY <2>2, <3>2 DEF validate_struct_fields
    <3>4. validate_value_as(s, n, v, B) = validate_struct_fields(decl.fields, v, B)
      BY <1>2, <2>4 DEF validate_value_as
    <3>5. QED
      BY <3>3, <3>4
  <2>5. CASE decl.kind = "model"
    <3> DEFINE checks == [k \in DOMAIN decl.fields |-> field_outcome(decl.fields[k], v, B)]
    <3>1. DOMAIN checks = DOMAIN decl.fields /\ \A k \in DOMAIN decl.fields : checks[k] \in good
      BY <2>2, <2>5
    <3>2. FirstFailure(checks) \in good
      <4> HIDE DEF checks
      <4>1. QED
        BY <2>3, <3>1, AllGood
    <3>3. validate_model_fields_as(decl.fields, v, B) \in good
      BY <2>2, <3>2 DEF validate_model_fields_as
    <3>4. validate_value_as(s, n, v, B) = validate_model_fields_as(decl.fields, v, B)
      BY <1>2, <2>5 DEF validate_value_as
    <3>5. QED
      BY <3>3, <3>4
  <2>6. QED
    BY <1>4, <2>4, <2>5
<1>5. decl.kind # "enum"
  BY DEF AllCarried
<1>6. QED
  BY <1>1, <1>3, <1>4, <1>5, Declared

\* One call more.
LEMMA CompleteStep ==
    ASSUME NEW fs, IsProject(fs), Unique(fs), AllCarried(fs), NEW values, Closed(values),
           NEW i \in 1..Depth, NEW d \in 1..Depth, NEW good, Valid \in good,
           CompleteAt(fs, values, i - 1, d - 1, good)
    PROVE  CompleteAt(fs, values, i, d, good)
<1> DEFINE s == from_modules(fs)
           schema_of == component_schemas(fs)
           B == outcome_within(s, values)[i - 1]
           A == admitted_within(schema_of, values)[d - 1]
<1> SUFFICES ASSUME NEW type \in TypeExprs, NEW v \in values, CarriedType(fs, type),
                    admitted_within(schema_of, values)[d][type_schema(type)][v]
             PROVE  outcome_within(s, values)[i][type][v] \in good
  BY DEF CompleteAt
<1> DEFINE schema == type_schema(type)
<1>0. i - 1 \in 0..Depth /\ d - 1 \in 0..Depth
  BY DepthAssumption
<1>1. SUFFICES validate_type_expr_as(s, type, v, B) \in good
  BY OutcomeSteps
<1>2. schema \in TypeSchemas /\ schema.rules = {} /\ (schema.shape = << >> <=> type.shape = << >>)
  BY SchemaOf
<1>3. SchemaAdmits(schema_of, schema, v, A)
  <2>1. admitted_within(schema_of, values)[d][schema][v] <=> SchemaAdmits(schema_of, schema, v, A)
    BY <1>2, AdmittedSteps
  <2> HIDE DEF A, schema_of
  <2>2. QED
    BY <2>1
<1>4. CASE type.shape # << >>
  <2>1. inner(type) \in TypeExprs /\ inner(type).path = type.path
    BY <1>4, InnerType
  <2>2. within(schema) = type_schema(inner(type))
    BY <1>2, <1>4, WithinSchema
  <2>3. Head(schema.shape) = "nullable" <=> type_expr_is_optional(type)
    BY <1>4, SchemaOf
  <2>4. \A w \in values : A[within(schema)][w] => B[inner(type)][w] \in good
    BY <2>1, <2>2 DEF CompleteAt, CarriedType
  <2> HIDE DEF schema, A, B, schema_of, s
  <2>5. CASE type_expr_is_optional(type)
    BY <1>2, <1>3, <1>4, <2>3, <2>4, <2>5 DEF validate_type_expr_as, SchemaAdmits
  <2>6. CASE ~type_expr_is_optional(type)
    <3> DEFINE checks == [k \in DOMAIN v.items |-> B[inner(type)][v.items[k]]]
    <3>1. v.k = "array" /\ \A k \in DOMAIN v.items : A[within(schema)][v.items[k]]
      BY <1>2, <1>3, <1>4, <2>3, <2>6 DEF SchemaAdmits
    <3>2. DOMAIN v.items \subseteq Nat /\ \A k \in DOMAIN v.items : v.items[k] \in values
      BY <3>1, ClosedParts
    <3>3. DOMAIN checks = DOMAIN v.items /\ \A k \in DOMAIN v.items : checks[k] \in good
      BY <2>4, <3>1, <3>2
    <3>4. validate_type_expr_as(s, type, v, B) = FirstFailure(checks)
      BY <1>4, <2>6, <3>1 DEF validate_type_expr_as
    <3> HIDE DEF checks
    <3>5. FirstFailure(checks) \in good
      BY <3>2, <3>3, AllGood
    <3>6. QED
      BY <3>4, <3>5
  <2>7. QED
    BY <2>5, <2>6
<1>5. CASE type.shape = << >>
  <2> DEFINE name == type.path[1]
  <2>1. schema.form = base_form(type) /\ schema.of = name /\ Len(type.path) = 1
    BY SchemaOf DEF CarriedType
  <2>2. validate_type_expr_as(s, type, v, B) = validate_value_as(s, name, v, B)
    <3> HIDE DEF B, s
    <3>1. QED
      BY <1>5, <2>1 DEF validate_type_expr_as
  <2>3. CASE name \in Primitives
    <3>1. schema.form = "primitive"
      BY <2>1, <2>3 DEF base_form
    <3>2. \A j \in DOMAIN fs : name \notin DOMAIN fs[j]
      BY <2>3 DEF Unique
    <3>3. name \notin DOMAIN s["alias"] /\ name \notin DOMAIN s["struct"] /\ name \notin DOMAIN s["model"]
      BY <3>2, OnlyEntered
    <3> HIDE DEF schema, A, B, schema_of, s, name
    <3>4. PrimitiveAdmits(name, v)
      BY <1>2, <1>3, <1>5, <2>1, <3>1 DEF SchemaAdmits
    <3>5. validate_primitive(name, v)
      BY <2>3, <3>4 DEF validate_primitive, PrimitiveAdmits, Primitives
    <3>6. QED
      BY <2>2, <3>3, <3>5 DEF validate_value_as
  <2>4. CASE name \notin Primitives
    <3>1. PICK j \in DOMAIN fs : name \in DOMAIN fs[j]
      BY <2>4 DEF CarriedType
    <3>2. name \in RefNames
      BY <3>1 DEF AllCarried
    <3>3. schema.form = "ref"
      BY <2>1, <2>4, <3>2 DEF base_form
    <3>4. ReferenceAdmits(schema_of, name, v, A)
      <4> HIDE DEF schema, A, schema_of, name
      <4>1. QED
        BY <1>2, <1>3, <1>5, <2>1, <3>3 DEF SchemaAdmits
    <3>5. validate_value_as(s, name, v, B) \in good
      BY <1>0, <3>1, <3>4, CompleteName
    <3>6. QED
      BY <2>2, <3>5
  <2>5. QED
    BY <2>3, <2>4
<1>6. QED
  BY <1>4, <1>5

\* And so with any number of them: what is documented is accepted with as
\* many calls as it takes references, and is never refused.
LEMMA CompleteAlways ==
    ASSUME NEW fs, IsProject(fs), Unique(fs), AllCarried(fs), NEW values, Closed(values)
    PROVE  /\ CompleteAt(fs, values, Depth, Depth, {Valid})
           /\ \A i, d \in 0..Depth : CompleteAt(fs, values, i, d, {Valid, Overflow})
<1>1. Depth \in Nat
  BY DepthAssumption
<1>2. \A i \in 0..Depth : \A good : CompleteAt(fs, values, i, 0, good)
  <2>1. \A type \in TypeExprs, v \in values :
           ~admitted_within(component_schemas(fs), values)[0][type_schema(type)][v]
    <3>1. \A type \in TypeExprs : type_schema(type) \in TypeSchemas
      BY SchemaOf
    <3>2. QED
      BY <3>1, AdmittedSteps
  <2>2. QED
    BY <2>1 DEF CompleteAt
<1>3. \A d \in 0..Depth : CompleteAt(fs, values, 0, d, {Valid, Overflow})
  <2>1. \A type \in TypeExprs, v \in values :
           outcome_within(from_modules(fs), values)[0][type][v] = Overflow
    BY OutcomeSteps
  <2>2. QED
    BY <2>1 DEF CompleteAt
<1>4. CompleteAt(fs, values, Depth, Depth, {Valid})
  <2> DEFINE T == {i \in 0..Depth : CompleteAt(fs, values, i, i, {Valid})}
  <2>1. 0 \in T
    BY <1>1, <1>2
  <2>2. ASSUME NEW i \in 1..Depth, i - 1 \in T PROVE i \in T
    <3>1. CompleteAt(fs, values, i, i, {Valid})
      BY <2>2, CompleteStep
    <3>2. QED
      BY <1>1, <3>1
  <2>3. T = 0..Depth
    <3> HIDE DEF T
    <3>1. T \subseteq 0..Depth
      BY DEF T
    <3>2. QED
      BY <1>1, <2>1, <2>2, <3>1, UpTo
  <2>4. QED
    BY <1>1, <2>3
<1>5. \A i, d \in 0..Depth : CompleteAt(fs, values, i, d, {Valid, Overflow})
  <2> DEFINE good == {Valid, Overflow}
             T == {i \in 0..Depth : \A d \in 0..Depth : CompleteAt(fs, values, i, d, good)}
  <2>1. 0 \in T
    BY <1>1, <1>3
  <2>2. ASSUME NEW i \in 1..Depth, i - 1 \in T PROVE i \in T
    <3>1. ASSUME NEW d \in 0..Depth PROVE CompleteAt(fs, values, i, d, good)
      <4>1. CASE d = 0
        BY <1>1, <1>2, <4>1
      <4>2. CASE d # 0
        <5>1. d \in 1..Depth /\ d - 1 \in 0..Depth
          BY <1>1, <4>2
        <5>2. CompleteAt(fs, values, i - 1, d - 1, good)
          BY <2>2, <5>1
        <5>3. Valid \in good
          OBVIOUS
        <5> HIDE DEF good, T
        <5>4. QED
          BY <5>1, <5>2, <5>3, CompleteStep
      <4>3. QED
        BY <4>1, <4>2
    <3>2. QED
      BY <1>1, <3>1
  <2>3. T = 0..Depth
    <3> HIDE DEF T
    <3>1. T \subseteq 0..Depth
      BY DEF T
    <3>2. QED
      BY <1>1, <2>1, <2>2, <3>1, UpTo
  <2>4. QED
    BY <2>3
<1>6. QED
  BY <1>4, <1>5

\* The declarations of a project that is served and carried out.
LEMMA ServedCarried ==
    ASSUME Inv, UniqueNames, Carried, request # NoRequest
    PROVE  /\ AllCarried(files)
           /\ \A n \in DeclaredNames : CarriedType(files, Named(n))
<1>1. AllCarried(files)
  <2>1. \A i \in DOMAIN files : files[i] \in Range(files)
    BY DEF Range
  <2>2. QED
    BY <2>1 DEF Carried, AllCarried
<1>2. ASSUME NEW n \in DeclaredNames PROVE CarriedType(files, Named(n))
  BY Served, NameType DEF CarriedType
<1>3. QED
  BY <1>1, <1>2

\* The type of a body or an answer names a declaration.
LEMMA AskedName ==
    ASSUME Inv, UniqueNames, request.kind \in {"body", "answer"}
    PROVE  \E n \in DeclaredNames : request.type.path = Named(n).path
<1>1. request # NoRequest
  BY DEF NoRequest, Request
<1>2. ~IsPath(request) /\ ~IsFields(request)
  BY DEF IsPath, IsFields, Request, Locations
<1>3. IsBody(request) \/ IsAnswer(request)
  BY <1>1, <1>2 DEF Inv, RequestOK
<1>4. \E name \in DeclaredNames : request.type \in {Named(name)} \cup AnswerTypes(name)
  BY <1>3 DEF IsBody, IsAnswer, Request
<1>5. \A name : \A type \in {Named(name)} \cup AnswerTypes(name) : type.path = Named(name).path
  BY DEF AnswerTypes, ListOf, Optional, Around
<1>6. QED
  BY <1>4, <1>5

\* What the invariant says of a body or an answer that conforms.
LEMMA InvComplete == Inv => DocumentedIsAccepted
<1> SUFFICES ASSUME Inv, request.kind \in {"body", "answer"}, UniqueNames, Carried,
                    Documented(request.type, request.sent)
             PROVE  request.reply.outcome = Valid
  BY DEF DocumentedIsAccepted
<1>1. /\ request # NoRequest /\ request.type \in TypeExprs /\ request.sent \in Json
      /\ request.reply.outcome = outcome_within(schemas, Json)[Depth][request.type][request.sent]
  BY AskedValues DEF validate_value
<1>2. admitted_within(components, Json)[Depth][type_schema(request.type)][request.sent]
  BY AskedValues DEF Documented, Admits
<1>3. PICK n \in DeclaredNames : request.type.path = Named(n).path
  BY AskedName
<1>4. CarriedType(files, request.type)
  BY <1>1, <1>3, ServedCarried DEF CarriedType
<1>5. CompleteAt(files, Json, Depth, Depth, {Valid})
  BY <1>1, Served, ServedCarried, CompleteAlways, JsonAssumption
<1>6. outcome_within(from_modules(files), Json)[Depth][request.type][request.sent] = Valid
  BY <1>1, <1>2, <1>4, <1>5, Served DEF CompleteAt
<1>7. QED
  BY <1>1, <1>6, Served

\* What conforms to the document is let through, for the types the runtime
\* carries out.
THEOREM ConformingIsAccepted == Spec => []DocumentedIsAccepted
BY InvAlways, InvComplete, PTL

-----------------------------------------------------------------------------
\* Parameters: what a schema admits depends neither on the values looked at
\* besides, nor on references left over.

\* The schemas of components are schemas.
TypedComponents(schema_of) ==
    \A n \in DOMAIN schema_of :
        IF schema_of[n].form = "object"
        THEN \A m \in DOMAIN schema_of[n].properties : schema_of[n].properties[m] \in TypeSchemas
        ELSE schema_of[n] \in TypeSchemas

\* Those of a project are.
LEMMA ComponentsTyped ==
    ASSUME NEW fs, IsProject(fs), Unique(fs), AllCarried(fs)
    PROVE  TypedComponents(component_schemas(fs))
<1> DEFINE schema_of == component_schemas(fs)
<1> SUFFICES ASSUME NEW n \in DOMAIN schema_of
             PROVE  IF schema_of[n].form = "object"
                    THEN \A m \in DOMAIN schema_of[n].properties : schema_of[n].properties[m] \in TypeSchemas
                    ELSE schema_of[n] \in TypeSchemas
  BY DEF TypedComponents
<1>1. PICK j \in DOMAIN fs : n \in DOMAIN fs[j]
  BY OnlyEntered
<1> DEFINE decl == fs[j][n]
<1>2. schema_of[n] = component(decl)
  BY <1>1, Entered
<1>3. decl \in Declarations /\ decl.kind \in {"alias", "struct", "model"}
  BY <1>1, Declared DEF IsProject, IsSourceFile, AllCarried
<1> HIDE DEF schema_of
<1>4. CASE decl.kind = "alias"
  <2> DEFINE schema == type_schema(decl.type)
             rules == decl.rules
  <2>1. schema \in TypeSchemas /\ rules \in Seq(Rules)
    BY <1>3, <1>4, Declared, SchemaOf
  <2>2. component(decl) = apply_field_validations(schema, rules)
    BY <1>4 DEF component
  <2> HIDE DEF schema, rules
  <2>3. component(decl) \in TypeSchemas
    BY <2>1, <2>2, RuledSchema
  <2>4. component(decl).form # "object"
    BY <2>3 DEF TypeSchemas
  <2>5. QED
    BY <1>2, <2>3, <2>4
<1>5. CASE decl.kind \in {"struct", "model"}
  <2> DEFINE object == object_component(decl.fields)
  <2>1. component(decl) = object
    BY <1>5 DEF component
  <2>2. ASSUME NEW m \in DOMAIN object.properties
        PROVE  object.properties[m] \in TypeSchemas
    <3>1. PICK k \in DOMAIN decl.fields : object.properties[m] = field_schema(decl.fields[k])
      BY <2>2, ObjectComponent
    <3> DEFINE schema == type_schema(decl.fields[k].type)
               rules == decl.fields[k].rules
    <3>2. schema \in TypeSchemas /\ rules \in Seq(Rules)
      BY <1>3, <1>5, Declared, SchemaOf
    <3>3. field_schema(decl.fields[k]) = apply_field_validations(schema, rules)
      BY DEF field_schema
    <3> HIDE DEF schema, rules
    <3>4. QED
      BY <3>1, <3>2, <3>3, RuledSchema
  <2>3. object.form = "object"
    BY ObjectComponent
  <2> HIDE DEF object
  <2>4. QED
    BY <1>2, <2>1, <2>2, <2>3
<1>6. QED
  BY <1>3, <1>4, <1>5

\* A schema without its outermost keyword is one.
LEMMA WithinTyped ==
    ASSUME NEW schema \in TypeSchemas, schema.shape # << >>
    PROVE  within(schema) \in TypeSchemas
<1> DEFINE shape == Tail(schema.shape)
<1>1. schema.shape \in Seq({"nullable", "array"}) /\ schema.of \in STRING
      /\ schema.form \in {"primitive", "ref", "any"}
  BY DEF TypeSchemas
<1>2. shape \in Seq({"nullable", "array"})
  BY <1>1
<1>3. within(schema) = [shape |-> shape, form |-> schema.form, of |-> schema.of, rules |-> {}]
  BY DEF within, Schema
<1> HIDE DEF shape
<1>4. {} \in SUBSET Rules
  OBVIOUS
<1>5. QED
  BY <1>1, <1>2, <1>3, <1>4 DEF TypeSchemas

\* What admits more, below, admits more.
LEMMA AdmitsMore ==
    ASSUME NEW schema_of, TypedComponents(schema_of), NEW values, Closed(values),
           NEW less, NEW more,
           \A s \in TypeSchemas, w \in values : less[s][w] => more[s][w],
           NEW schema \in TypeSchemas, NEW v \in values, SchemaAdmits(schema_of, schema, v, less)
    PROVE  SchemaAdmits(schema_of, schema, v, more)
<1>0. v.k = "string" => \A r \in schema.rules : rule_holds(r, v)
  BY DEF SchemaAdmits
<1>1. CASE schema.shape # << >>
  <2>1. within(schema) \in TypeSchemas
    BY <1>1, WithinTyped
  <2>2. \A w \in values : less[within(schema)][w] => more[within(schema)][w]
    BY <2>1
  <2>3. CASE Head(schema.shape) = "nullable"
    BY <1>1, <2>2, <2>3 DEF SchemaAdmits
  <2>4. CASE Head(schema.shape) # "nullable"
    <3>1. v.k = "array" /\ \A i \in DOMAIN v.items : less[within(schema)][v.items[i]]
      BY <1>1, <2>4 DEF SchemaAdmits
    <3>2. \A i \in DOMAIN v.items : more[within(schema)][v.items[i]]
      BY <2>2, <3>1, ClosedParts
    <3>3. QED
      BY <1>0, <1>1, <2>4, <3>1, <3>2 DEF SchemaAdmits
  <2>5. QED
    BY <2>3, <2>4
<1>2. CASE schema.shape = << >> /\ schema.form = "ref"
  <2> DEFINE name == schema.of
  <2>1. ReferenceAdmits(schema_of, name, v, less)
    BY <1>2 DEF SchemaAdmits
  <2>2. ReferenceAdmits(schema_of, name, v, more)
    <3>1. CASE name \notin DOMAIN schema_of
      BY <3>1 DEF ReferenceAdmits
    <3>2. CASE name \in DOMAIN schema_of /\ schema_of[name].form = "object"
      <4> DEFINE object == schema_of[name]
      <4>1. ObjectAdmits(object, v, less)
        BY <2>1, <3>2 DEF ReferenceAdmits
      <4>2. \A m \in DOMAIN object.properties : object.properties[m] \in TypeSchemas
        BY <3>2 DEF TypedComponents
      <4> HIDE DEF object
      <4>3. ObjectAdmits(object, v, more)
        BY <4>1, <4>2, ClosedParts DEF ObjectAdmits
      <4>4. QED
        BY <3>2, <4>3 DEF ReferenceAdmits, object
    <3>3. CASE name \in DOMAIN schema_of /\ schema_of[name].form # "object"
      <4>1. schema_of[name] \in TypeSchemas
        BY <3>3 DEF TypedComponents
      <4>2. QED
        BY <2>1, <3>3, <4>1 DEF ReferenceAdmits
    <3>4. QED
      BY <3>1, <3>2, <3>3
  <2>3. QED
    BY <1>0, <1>2, <2>2 DEF SchemaAdmits
<1>3. CASE schema.shape = << >> /\ schema.form # "ref"
  BY <1>3 DEF SchemaAdmits
<1>4. QED
  BY <1>1, <1>2, <1>3

\* With one reference more left a schema admits no less.
LEMMA AdmittedMore ==
    ASSUME NEW schema_of, TypedComponents(schema_of), NEW values, Closed(values),
           NEW schema \in TypeSchemas, NEW v \in values, NEW i \in 1..Depth,
           admitted_within(schema_of, values)[i - 1][schema][v]
    PROVE  admitted_within(schema_of, values)[i][schema][v]
<1> DEFINE A == admitted_within(schema_of, values)
           MoreAt(d) == \A s \in TypeSchemas, w \in values : A[d - 1][s][w] => A[d][s][w]
           T == {d \in 0..Depth : d # 0 => MoreAt(d)}
<1>1. Depth \in Nat
  BY DepthAssumption
<1>2. \A s \in TypeSchemas, w \in values :
         /\ ~A[0][s][w]
         /\ \A d \in 1..Depth : A[d][s][w] <=> SchemaAdmits(schema_of, s, w, A[d - 1])
  BY AdmittedSteps
<1> HIDE DEF A
<1>3. 0 \in T
  BY <1>1
<1>4. ASSUME NEW d \in 1..Depth, d - 1 \in T PROVE d \in T
  <2>1. SUFFICES ASSUME NEW s \in TypeSchemas, NEW w \in values, A[d - 1][s][w]
                 PROVE  A[d][s][w]
    BY <1>1
  <2>2. d - 1 # 0 /\ d - 1 \in 1..Depth /\ (d - 1) - 1 = d - 2
    BY <1>1, <1>2, <2>1
  <2>3. \A t \in TypeSchemas, x \in values : A[d - 2][t][x] => A[d - 1][t][x]
    <3>1. MoreAt(d - 1)
      BY <1>4, <2>2
    <3>2. QED
      BY <2>2, <3>1
  <2>4. SchemaAdmits(schema_of, s, w, A[d - 2])
    BY <1>2, <2>1, <2>2
  <2>5. SchemaAdmits(schema_of, s, w, A[d - 1])
    <3> DEFINE less == A[d - 2]
               more == A[d - 1]
    <3>1. /\ \A t \in TypeSchemas, x \in values : less[t][x] => more[t][x]
          /\ SchemaAdmits(schema_of, s, w, less)
      BY <2>3, <2>4
    <3> HIDE DEF less, more
    <3>2. SchemaAdmits(schema_of, s, w, more)
      BY <3>1, AdmitsMore
    <3>3. QED
      BY <3>2 DEF more
  <2>6. QED
    BY <1>2, <2>5
<1>5. T = 0..Depth
  <2> HIDE DEF T
  <2>1. T \subseteq 0..Depth
    BY DEF T
  <2>2. QED
    BY <1>1, <1>3, <1>4, <2>1, UpTo
<1>6. MoreAt(i)
  <2>1. i \in T
    BY <1>1, <1>5
  <2> HIDE DEF MoreAt
  <2>2. QED
    BY <1>1, <2>1
<1>7. QED
  BY <1>6 DEF A

\* And whatever else is looked at.
LEMMA AdmittedAmong ==
    ASSUME NEW schema_of, TypedComponents(schema_of), NEW values, Closed(values),
           NEW all, Closed(all), values \subseteq all,
           NEW schema \in TypeSchemas, NEW v \in values, NEW i \in 0..Depth
    PROVE  admitted_within(schema_of, values)[i][schema][v] <=>
              admitted_within(schema_of, all)[i][schema][v]
<1> DEFINE A == admitted_within(schema_of, values)
           C == admitted_within(schema_of, all)
           SameAt(d) == \A s \in TypeSchemas, w \in values : A[d][s][w] <=> C[d][s][w]
           T == {d \in 0..Depth : SameAt(d)}
<1>1. Depth \in Nat
  BY DepthAssumption
<1>2. \A s \in TypeSchemas, w \in values :
         /\ ~A[0][s][w]
         /\ \A d \in 1..Depth : A[d][s][w] <=> SchemaAdmits(schema_of, s, w, A[d - 1])
  BY AdmittedSteps
<1>3. \A s \in TypeSchemas, w \in all :
         /\ ~C[0][s][w]
         /\ \A d \in 1..Depth : C[d][s][w] <=> SchemaAdmits(schema_of, s, w, C[d - 1])
  BY AdmittedSteps
<1> HIDE DEF A, C
<1>4. 0 \in T
  BY <1>1, <1>2, <1>3
<1>5. ASSUME NEW d \in 1..Depth, d - 1 \in T PROVE d \in T
  <2>1. SUFFICES ASSUME NEW s \in TypeSchemas, NEW w \in values
                 PROVE  SchemaAdmits(schema_of, s, w, A[d - 1]) <=>
                           SchemaAdmits(schema_of, s, w, C[d - 1])
    <3>1. \A s \in TypeSchemas, w \in values : A[d][s][w] <=> SchemaAdmits(schema_of, s, w, A[d - 1])
      BY <1>2
    <3>2. \A s \in TypeSchemas, w \in values : C[d][s][w] <=> SchemaAdmits(schema_of, s, w, C[d - 1])
      BY <1>3
    <3>3. SameAt(d)
      BY <2>1, <3>1, <3>2
    <3>4. QED
      BY <1>1, <3>3
  <2>2. \A t \in TypeSchemas, x \in values : A[d - 1][t][x] <=> C[d - 1][t][x]
    <3>1. SameAt(d - 1)
      BY <1>5
    <3>2. QED
      BY <3>1
  <2> DEFINE one == A[d - 1]
             other == C[d - 1]
  <2>3. /\ \A t \in TypeSchemas, x \in values : one[t][x] => other[t][x]
        /\ \A t \in TypeSchemas, x \in values : other[t][x] => one[t][x]
    BY <2>2
  <2> HIDE DEF one, other
  <2>4. SchemaAdmits(schema_of, s, w, one) => SchemaAdmits(schema_of, s, w, other)
    BY <2>3, AdmitsMore
  <2>5. SchemaAdmits(schema_of, s, w, other) => SchemaAdmits(schema_of, s, w, one)
    BY <2>3, AdmitsMore
  <2>6. QED
    BY <2>4, <2>5 DEF one, other
<1>6. T = 0..Depth
  <2> HIDE DEF T
  <2>1. T \subseteq 0..Depth
    BY DEF T
  <2>2. QED
    BY <1>1, <1>4, <1>5, <2>1, UpTo
<1>7. SameAt(i)
  BY <1>6
<1>8. QED
  BY <1>7 DEF A, C

-----------------------------------------------------------------------------
\* Parameters: the primitive a text is read as.

\* The root of a name, one plain alias after another.
LEMMA RootStep ==
    ASSUME NEW s, NEW name \in STRING
    PROVE  /\ root_within(s)[0][name] = "overflow"
           /\ \A d \in 1..Depth :
                 root_within(s)[d][name] =
                    IF name \in Primitives THEN name
                    ELSE IF /\ name \in DOMAIN s["alias"]
                            /\ s["alias"][name].type.shape = << >> /\ Len(s["alias"][name].type.path) = 1
                    THEN root_within(s)[d - 1][s["alias"][name].type.path[1]] ELSE "none"
<1> DEFINE R == root_within(s)
<1>1. ASSUME NEW below
      PROVE  roots_over(s, below)[name] =
                IF name \in Primitives THEN name
                ELSE IF /\ name \in DOMAIN s["alias"]
                        /\ s["alias"][name].type.shape = << >> /\ Len(s["alias"][name].type.path) = 1
                THEN below[s["alias"][name].type.path[1]] ELSE "none"
  BY DEF roots_over, next_name
<1>2. R[0][name] = "overflow" /\ \A d \in 1..Depth : R[d][name] = roots_over(s, R[d - 1])[name]
  BY RootSteps
<1> HIDE DEF R
<1>3. QED
  BY <1>1, <1>2 DEF R

\* What a schema admits is what its name's root reads, up to the rules on the
\* way there, which are about strings; nothing is admitted on a way that has
\* not ended.
RootAt(fs, values, d) ==
    \A t \in TypeExprs :
        t.shape = << >> /\ CarriedType(fs, t) =>
            LET A == admitted_within(component_schemas(fs), values)
                root == root_within(from_modules(fs))[d][t.path[1]]
            IN  /\ root \in Primitives \cup {"none", "overflow"}
                /\ \A i \in 0..Depth, v \in values : A[i][type_schema(t)][v] =>
                      /\ root = "overflow" => d < i
                      /\ root \in Primitives =>
                            /\ PrimitiveAdmits(root, v)
                            /\ \A w \in values : w.k # "string" /\ PrimitiveAdmits(root, w) =>
                                  A[i][type_schema(t)][w]

\* With no alias followed every root is open.
LEMMA RootNone ==
    ASSUME NEW fs, NEW values
    PROVE  RootAt(fs, values, 0)
<1> DEFINE A == admitted_within(component_schemas(fs), values)
           R == root_within(from_modules(fs))
<1>1. \A t \in TypeExprs : R[0][t.path[1]] = "overflow"
  BY InnerType, RootStep
<1>2. \A t \in TypeExprs, v \in values : ~A[0][type_schema(t)][v]
  <2>1. \A t \in TypeExprs : type_schema(t) \in TypeSchemas
    BY SchemaOf
  <2>2. QED
    BY <2>1, AdmittedSteps
<1>3. "overflow" \notin Primitives
  BY DEF Primitives
<1> HIDE DEF A, R
<1>4. \A i \in 0..Depth : i # 0 => 0 < i
  BY DepthAssumption
<1>5. QED
  BY <1>1, <1>2, <1>3, <1>4 DEF RootAt, A, R

\* One alias more.
LEMMA RootMore ==
    ASSUME NEW fs, IsProject(fs), Unique(fs), AllCarried(fs), NEW values,
           NEW d \in 1..Depth, RootAt(fs, values, d - 1)
    PROVE  RootAt(fs, values, d)
<1> DEFINE A == admitted_within(component_schemas(fs), values)
           R == root_within(from_modules(fs))
<1> SUFFICES ASSUME NEW t \in TypeExprs, t.shape = << >>, CarriedType(fs, t)
             PROVE  /\ R[d][t.path[1]] \in Primitives \cup {"none", "overflow"}
                    /\ \A i \in 0..Depth, v \in values : A[i][type_schema(t)][v] =>
                          /\ R[d][t.path[1]] = "overflow" => d < i
                          /\ R[d][t.path[1]] \in Primitives =>
                                /\ PrimitiveAdmits(R[d][t.path[1]], v)
                                /\ \A w \in values : w.k # "string" /\ PrimitiveAdmits(R[d][t.path[1]], w) =>
                                      A[i][type_schema(t)][w]
  <2> HIDE DEF A, R
  <2>1. QED
    BY DEF RootAt, A, R
<1> DEFINE name == t.path[1]
<1>1. name \in STRING /\ Len(t.path) = 1
  BY InnerType DEF CarriedType
<1>2. R[d][name] = IF name \in Primitives THEN name
                   ELSE IF /\ name \in DOMAIN from_modules(fs)["alias"]
                           /\ from_modules(fs)["alias"][name].type.shape = << >>
                           /\ Len(from_modules(fs)["alias"][name].type.path) = 1
                   THEN R[d - 1][from_modules(fs)["alias"][name].type.path[1]] ELSE "none"
  BY <1>1, RootStep, ZenonT(60)
<1>3. \A v \in values, i \in 0..Depth : A[i][type_schema(t)][v] => i \in 1..Depth
  <2>1. type_schema(t) \in TypeSchemas
    BY SchemaOf
  <2>2. \A v \in values : ~A[0][type_schema(t)][v]
    BY <2>1, AdmittedSteps
  <2>3. QED
    BY <2>2, DepthAssumption
<1>4. "none" \notin Primitives /\ "overflow" \notin Primitives
  BY DEF Primitives
<1>5. CASE name \in Primitives
  <2>1. R[d][name] = name /\ name # "overflow"
    BY <1>2, <1>4, <1>5
  <2>2. \A i \in 1..Depth, v \in values : A[i][type_schema(t)][v] <=> PrimitiveAdmits(name, v)
    BY <1>1, <1>5, PrimitiveSchema
  <2> HIDE DEF A, R, name
  <2>3. QED
    BY <1>3, <1>5, <2>1, <2>2 DEF name
<1>6. CASE name \notin Primitives
  <2>1. PICK j \in DOMAIN fs : name \in DOMAIN fs[j]
    BY <1>6 DEF CarriedType
  <2> DEFINE decl == fs[j][name]
  <2>2. /\ name \in DOMAIN from_modules(fs)["alias"] <=> decl.kind = "alias"
        /\ decl.kind = "alias" => from_modules(fs)["alias"][name] = decl
    BY <2>1, Entered
  <2>3. CASE decl.kind = "alias" /\ decl.type.shape = << >> /\ Len(decl.type.path) = 1
    <3>1. decl.type \in TypeExprs
      BY <2>1, <2>3, Declared DEF IsProject, IsSourceFile
    <3>2. CarriedType(fs, decl.type)
      <4>1. decl.type \in TypesOf(decl)
        BY <2>3 DEF TypesOf
      <4>2. decl.type.path[1] \in Primitives \cup DOMAIN fs[j]
        BY <2>1, <4>1 DEF AllCarried
      <4>3. QED
        BY <2>3, <4>2 DEF CarriedType
    <3> DEFINE root == R[d - 1][decl.type.path[1]]
               under == type_schema(decl.type)
    <3>3. R[d][name] = root
      <4> HIDE DEF R
      <4>1. QED
        BY <1>2, <1>6, <2>2, <2>3
    <3>4. /\ root \in Primitives \cup {"none", "overflow"}
          /\ \A i \in 0..Depth, v \in values : A[i][under][v] =>
                /\ root = "overflow" => d - 1 < i
                /\ root \in Primitives =>
                      /\ PrimitiveAdmits(root, v)
                      /\ \A w \in values : w.k # "string" /\ PrimitiveAdmits(root, w) => A[i][under][w]
      <4>1. RootAt(fs, values, d - 1)
        OBVIOUS
      <4>2. QED
        BY <2>3, <3>1, <3>2, <4>1 DEF RootAt
    <3>5. \A i \in 1..Depth, v \in values :
             A[i][type_schema(t)][v] <=> A[i - 1][under][v] /\ Held(decl.rules, v)
      BY <1>1, <2>1, <2>3, AliasAdmits
    <3>6. ASSUME NEW i \in 0..Depth, NEW v \in values, A[i][type_schema(t)][v]
          PROVE  /\ root = "overflow" => d < i
                 /\ root \in Primitives =>
                       /\ PrimitiveAdmits(root, v)
                       /\ \A w \in values : w.k # "string" /\ PrimitiveAdmits(root, w) =>
                             A[i][type_schema(t)][w]
      <4>1. i \in 1..Depth /\ i - 1 \in 0..Depth
        BY <1>3, <3>6, DepthAssumption
      <4> HIDE DEF A, root, under, decl
      <4>2. A[i - 1][under][v]
        BY <3>5, <3>6, <4>1
      <4>3. root = "overflow" => d < i
        BY <3>4, <4>1, <4>2, DepthAssumption
      <4>4. ASSUME root \in Primitives
            PROVE  /\ PrimitiveAdmits(root, v)
                   /\ \A w \in values : w.k # "string" /\ PrimitiveAdmits(root, w) => A[i - 1][under][w]
        BY <3>4, <4>1, <4>2, <4>4
      <4>5. ASSUME NEW w \in values, w.k # "string", A[i - 1][under][w]
            PROVE  A[i][type_schema(t)][w]
        BY <3>5, <4>1, <4>5 DEF Held
      <4>6. QED
        BY <4>3, <4>4, <4>5
    <3> HIDE DEF A, R, root
    <3>7. QED
      BY <3>3, <3>4, <3>6
  <2>4. CASE ~(decl.kind = "alias" /\ decl.type.shape = << >> /\ Len(decl.type.path) = 1)
    <3>1. R[d][name] = "none"
      <4> HIDE DEF R
      <4>1. QED
        BY <1>2, <1>6, <2>2, <2>4
    <3> HIDE DEF A, R, name
    <3>2. QED
      BY <1>4, <3>1 DEF name
  <2>5. QED
    BY <2>3, <2>4
<1>7. QED
  BY <1>5, <1>6

\* Any number of them.
LEMMA RootAlways ==
    ASSUME NEW fs, IsProject(fs), Unique(fs), AllCarried(fs), NEW values
    PROVE  RootAt(fs, values, Depth)
<1> DEFINE T == {d \in 0..Depth : RootAt(fs, values, d)}
<1>1. Depth \in Nat
  BY DepthAssumption
<1>2. 0 \in T
  BY <1>1, RootNone
<1>3. ASSUME NEW d \in 1..Depth, d - 1 \in T PROVE d \in T
  <2>1. RootAt(fs, values, d)
    BY <1>3, RootMore
  <2>2. QED
    BY <1>1, <2>1
<1>4. T = 0..Depth
  <2> HIDE DEF T
  <2>1. T \subseteq 0..Depth
    BY DEF T
  <2>2. QED
    BY <1>1, <1>2, <1>3, <2>1, UpTo
<1>5. QED
  BY <1>1, <1>4

\* A text some reading of which is one of a primitive is read as that one,
\* and the reading of a string is the text.
LEMMA ReadAs ==
    ASSUME NEW text, IsText(text), NEW root \in Primitives, NEW v \in Readings(text),
           PrimitiveAdmits(root, v)
    PROVE  /\ parsed(root, text) # NoValue /\ parsed(root, text) \in Readings(text)
           /\ PrimitiveAdmits(root, parsed(root, text))
           /\ parsed(root, text).k = "string" => parsed(root, text) = v
<1>1. v \in {text.string, text.U64, text.I64, text.F64, text.Bool} /\ v # NoValue
  BY DEF Readings
<1>2. /\ text.string.k = "string" /\ text.string # NoValue
      /\ text.U64 \in {NoValue, Num("natural"), Num("big")}
      /\ text.I64 \in {NoValue, Num("natural"), Num("negative")}
      /\ text.U64 = Num("natural") <=> text.I64 = Num("natural")
      /\ text.F64 \in {NoValue, Num("whole")}
      /\ text.U64 # NoValue \/ text.I64 # NoValue => text.F64 # NoValue
      /\ text.Bool \in {NoValue, Bool}
  BY DEF IsText, NoValue
<1>3. /\ \A c : Num(c).k = "number" /\ Num(c).class = c
      /\ Bool.k = "bool" /\ NoValue.k = "none"
  BY DEF Num, Bool, NoValue
<1>4. parsed(root, text) \in {text.string, text.U64, text.I64, text.F64, text.Bool}
  BY DEF parsed
<1>5. CASE root \in {"String", "Text"}
  <2>1. v.k = "string"
    BY <1>5 DEF PrimitiveAdmits
  <2>2. v = text.string
    BY <1>1, <1>2, <1>3, <2>1
  <2>3. parsed(root, text) = text.string
    BY <1>5 DEF parsed
  <2>4. QED
    BY <2>2, <2>3, <1>1
<1>6. CASE root = "Bool"
  <2>1. v.k = "bool"
    BY <1>6 DEF PrimitiveAdmits
  <2>2. v = text.Bool
    BY <1>1, <1>2, <1>3, <2>1
  <2>3. parsed(root, text) = text.Bool
    BY <1>6 DEF parsed
  <2>4. QED
    BY <2>2, <2>3, <1>1
<1>7. CASE root \in {"Int", "I64"}
  <2>1. v.k = "number" /\ v.class \in {"natural", "negative"}
    BY <1>7 DEF PrimitiveAdmits
  <2>2. text.I64 \in {Num("natural"), Num("negative")}
    BY <1>1, <1>2, <1>3, <2>1
  <2>3. parsed(root, text) = text.I64
    BY <1>7 DEF parsed
  <2>4. PrimitiveAdmits(root, text.I64)
    BY <1>3, <1>7, <2>2 DEF PrimitiveAdmits
  <2>5. text.I64.k = "number" /\ text.I64 # NoValue
    BY <1>3, <2>2
  <2>6. QED
    BY <2>3, <2>4, <2>5 DEF Readings
<1>8. CASE root = "U64"
  <2>1. v.k = "number" /\ v.class \in {"natural", "big"}
    BY <1>8 DEF PrimitiveAdmits
  <2>2. text.U64 \in {Num("natural"), Num("big")}
    BY <1>1, <1>2, <1>3, <2>1
  <2>3. parsed(root, text) = text.U64
    BY <1>8 DEF parsed
  <2>4. PrimitiveAdmits(root, text.U64)
    BY <1>3, <1>8, <2>2 DEF PrimitiveAdmits
  <2>5. text.U64.k = "number" /\ text.U64 # NoValue
    BY <1>3, <2>2
  <2>6. QED
    BY <2>3, <2>4, <2>5 DEF Readings
<1>9. CASE root = "F64"
  <2>1. v.k = "number"
    BY <1>9 DEF PrimitiveAdmits
  <2>2. text.F64 = Num("whole")
    BY <1>1, <1>2, <1>3, <2>1
  <2>3. parsed(root, text) = text.F64
    BY <1>9 DEF parsed
  <2>4. PrimitiveAdmits(root, text.F64)
    BY <1>3, <1>9, <2>2 DEF PrimitiveAdmits
  <2>5. text.F64.k = "number" /\ text.F64 # NoValue
    BY <1>3, <2>2
  <2>6. QED
    BY <2>3, <2>4, <2>5 DEF Readings
<1>10. QED
  BY <1>5, <1>6, <1>7, <1>8, <1>9 DEF Primitives

-----------------------------------------------------------------------------
\* Parameters: one field.

\* A field is looked up under a second name only when that is its first.
LEMMA FoundUnder ==
    ASSUME NEW location, NEW fields, NEW sent, NEW k \in DOMAIN fields,
           \A i \in DOMAIN fields : fields[i].name \in FieldNames,
           DOMAIN sent \subseteq {field_parameter(location, fields[i]).name : i \in DOMAIN fields}
    PROVE  LET name == field_parameter(location, fields[k]).name
           IN  /\ found_under(location, fields[k], sent) # {} <=> name \in DOMAIN sent
               /\ name \in DOMAIN sent => text_of_field(location, fields[k], sent) = sent[name]
<1> DEFINE field == fields[k]
           found == found_under(location, field, sent)
           name == field_parameter(location, field).name
<1>1. CASE location # "header"
  <2>1. name = field.name
    BY <1>1 DEF field_parameter
  <2>2. wire_names(location, field) = <<field.name>>
    BY <1>1 DEF wire_names
  <2>3. DOMAIN <<field.name>> = {1} /\ <<field.name>>[1] = field.name
    OBVIOUS
  <2>4. found = IF name \in DOMAIN sent THEN {1} ELSE {}
    BY <2>1, <2>2, <2>3 DEF found_under
  <2>5. Least({1}) = 1
    BY DEF Least
  <2>6. name \in DOMAIN sent => text_of_field(location, field, sent) = sent[name]
    BY <2>1, <2>2, <2>3, <2>4, <2>5 DEF text_of_field
  <2> HIDE DEF found, name
  <2>7. QED
    BY <2>4, <2>6 DEF found, name
<1>2. CASE location = "header"
  <2> DEFINE lower == to_ascii_lowercase(field.name)
             names == <<name, lower>>
  <2>1. \A i \in DOMAIN fields :
           field_parameter(location, fields[i]).name = header_name_for_field(fields[i].name)
    BY <1>2 DEF field_parameter
  <2>2. wire_names(location, field) = names
    BY <1>2, <2>1 DEF wire_names
  <2>3. DOMAIN names = {1, 2} /\ names[1] = name /\ names[2] = lower
    OBVIOUS
  <2>4. found = {i \in {1, 2} : names[i] \in DOMAIN sent}
    BY <2>2, <2>3 DEF found_under
  <2>5. lower \in DOMAIN sent => lower = name
    <3>1. ASSUME lower \in DOMAIN sent PROVE lower = name
      <4>1. PICK i \in DOMAIN fields : lower = field_parameter(location, fields[i]).name
        BY <3>1
      <4>2. lower = header_name_for_field(fields[i].name)
        BY <2>1, <4>1
      <4>3. name = header_name_for_field(field.name)
        BY <2>1
      <4>4. field.name \in FieldNames /\ fields[i].name \in FieldNames
        OBVIOUS
      <4>5. QED
        BY <4>2, <4>3, <4>4, HeaderAssumption
    <3>2. QED
      BY <3>1
  <2> HIDE DEF names, lower, name
  <2>6. found # {} <=> name \in DOMAIN sent
    BY <2>3, <2>4, <2>5
  <2>7. ASSUME name \in DOMAIN sent PROVE text_of_field(location, field, sent) = sent[name]
    <3>1. 1 \in found /\ found \subseteq Nat /\ \A i \in found : i \in {1, 2}
      BY <2>3, <2>4, <2>7
    <3> HIDE DEF found
    <3>2. Least(found) \in found /\ Least(found) <= 1
      BY <3>1, LeastIs
    <3>3. Least(found) = 1
      <4> DEFINE m == Least(found)
      <4>1. m \in {1, 2} /\ m <= 1
        BY <3>1, <3>2
      <4> HIDE DEF m
      <4>2. m = 1
        BY <4>1
      <4>3. QED
        BY <4>2 DEF m
    <3>4. QED
      BY <2>2, <2>3, <3>3 DEF text_of_field, found
  <2>8. QED
    BY <2>6, <2>7 DEF name
<1>3. QED
  BY <1>1, <1>2

\* The type a text is decoded as is a name's.
LEMMA DecodedType ==
    ASSUME NEW type \in TypeExprs, type.shape \in {<< >>, <<"option">>}
    PROVE  /\ decoded_type(type) \in TypeExprs
           /\ decoded_type(type).shape = << >> /\ decoded_type(type).path = type.path
<1>1. CASE type.shape = << >>
  BY <1>1 DEF decoded_type, type_expr_is_optional
<1>2. CASE type.shape = <<"option">>
  <2>1. type.shape # << >> /\ Head(type.shape) = "option" /\ Tail(type.shape) = << >>
    BY <1>2
  <2>2. decoded_type(type) = inner(type)
    BY <2>1 DEF decoded_type, type_expr_is_optional
  <2>3. inner(type) \in TypeExprs /\ inner(type).path = type.path
    BY <2>1, InnerType
  <2>4. inner(type).shape = << >>
    BY <2>1 DEF inner
  <2>5. QED
    BY <2>2, <2>3, <2>4
<1>3. QED
  BY <1>1, <1>2

\* The primitive of the text of a field.
RootOf(fs, type) == root_within(from_modules(fs))[Depth][type.path[1]]

Scalar(fs, type) == type.shape \in {<< >>, <<"option">>} /\ RootOf(fs, type) # "none"

\* It is that of the type the text is decoded as.
LEMMA DecodedRoot ==
    ASSUME NEW fs, NEW type \in TypeExprs, CarriedType(fs, type), Scalar(fs, type)
    PROVE  type_expr_primitive_root(from_modules(fs), decoded_type(type)) = RootOf(fs, type)
<1>1. /\ decoded_type(type).shape = << >> /\ decoded_type(type).path = type.path
      /\ Len(type.path) = 1
  BY DecodedType DEF Scalar, CarriedType
<1>2. QED
  BY <1>1 DEF type_expr_primitive_root, primitive_root, RootOf

\* A reading is not null.
LEMMA ReadingIs ==
    ASSUME NEW text, IsText(text), NEW v \in Readings(text)
    PROVE  v \in Json /\ v # Null /\ v # NoValue
<1>1. v \in {text.string, text.U64, text.I64, text.F64, text.Bool} /\ v # NoValue
  BY DEF Readings
<1>2. v.k \in {"string", "number", "bool"}
  BY <1>1 DEF IsText, Num, Bool, NoValue
<1>3. QED
  BY <1>1, <1>2 DEF IsText, Null

\* A value that is there conforms to a type if and only if it conforms to the
\* type it is decoded as.
LEMMA DecodedAdmits ==
    ASSUME NEW schema_of, NEW values, NEW type \in TypeExprs, type.shape \in {<< >>, <<"option">>},
           0 < Depth
    PROVE  \E e \in 0..Depth : \A v \in values : v # Null =>
              (admitted_within(schema_of, values)[Depth][type_schema(type)][v] <=>
               admitted_within(schema_of, values)[e][type_schema(decoded_type(type))][v])
<1> DEFINE A == admitted_within(schema_of, values)
<1>0. Depth \in Nat /\ Depth \in 0..Depth /\ Depth - 1 \in 0..Depth /\ Depth \in 1..Depth
  BY DepthAssumption
<1>1. CASE type.shape = << >>
  <2>1. decoded_type(type) = type
    BY <1>1 DEF decoded_type, type_expr_is_optional
  <2>2. QED
    BY <1>0, <2>1
<1>2. CASE type.shape = <<"option">>
  <2>1. type.shape # << >> /\ Head(type.shape) = "option"
    BY <1>2
  <2>2. type_expr_is_optional(type)
    BY <2>1 DEF type_expr_is_optional
  <2>3. decoded_type(type) = inner(type)
    BY <2>2 DEF decoded_type
  <2> DEFINE schema == type_schema(type)
  <2>4. /\ schema \in TypeSchemas /\ schema.rules = {} /\ schema.shape # << >>
        /\ Head(schema.shape) = "nullable" /\ within(schema) = type_schema(inner(type))
    BY <2>1, <2>2, SchemaOf, WithinSchema
  <2>5. \A v \in values : A[Depth][schema][v] <=> SchemaAdmits(schema_of, schema, v, A[Depth - 1])
    <3>1. schema \in TypeSchemas
      BY <2>4
    <3> HIDE DEF schema
    <3>2. QED
      BY <1>0, <3>1, AdmittedSteps, ZenonT(60)
  <2>6. \A v \in values : v # Null =>
           (SchemaAdmits(schema_of, schema, v, A[Depth - 1]) <=> A[Depth - 1][type_schema(inner(type))][v])
    <3> HIDE DEF schema, A
    <3>1. QED
      BY <2>4 DEF SchemaAdmits
  <2>7. \A v \in values : v # Null =>
           (A[Depth][schema][v] <=> A[Depth - 1][type_schema(decoded_type(type))][v])
    <3> HIDE DEF A, schema
    <3>1. QED
      BY <2>3, <2>5, <2>6
  <2>8. QED
    BY <1>0, <2>7
<1>3. QED
  BY <1>1, <1>2

\* Some reading of a text conforms to the schema of a field: then the text is
\* decoded to a reading that does.
LEMMA TextRead ==
    ASSUME NEW fs, IsProject(fs), Unique(fs), AllCarried(fs),
           NEW type \in TypeExprs, CarriedType(fs, type), Scalar(fs, type), NEW rules \in Seq(Rules),
           NEW text, IsText(text), NEW v \in Readings(text),
           admitted_within(component_schemas(fs), Json)[Depth][apply_field_validations(type_schema(type), rules)][v]
    PROVE  LET x == parsed(RootOf(fs, type), text)
           IN  /\ RootOf(fs, type) # "overflow" /\ x # NoValue /\ x \in Readings(text)
               /\ admitted_within(component_schemas(fs), Json)[Depth][type_schema(type)][x]
               /\ Held(rules, x)
<1> DEFINE x == parsed(RootOf(fs, type), text)
           A == admitted_within(component_schemas(fs), Json)
           root == RootOf(fs, type)
           schema == type_schema(type)
           under == type_schema(decoded_type(type))
<1>1. v \in Json /\ v # Null
  BY ReadingIs
<1>2. schema \in TypeSchemas /\ schema.rules = {}
  BY SchemaOf
<1>3. Depth \in Nat /\ Depth \in 0..Depth
  BY DepthAssumption
<1>4. A[Depth][schema][v] /\ Held(rules, v)
  <2> HIDE DEF schema
  <2>1. A[Depth][apply_field_validations(schema, rules)][v] <=> A[Depth][schema][v] /\ Held(rules, v)
    BY <1>1, <1>2, <1>3, AdmittedRules
  <2> HIDE DEF A
  <2>2. QED
    BY <2>1 DEF schema, A
<1>5. 0 < Depth
  <2>1. ~A[0][schema][v]
    <3> HIDE DEF schema
    <3>1. QED
      BY <1>1, <1>2, AdmittedSteps
  <2> HIDE DEF A, schema
  <2>2. QED
    BY <1>3, <1>4, <2>1
<1>6. type.shape \in {<< >>, <<"option">>} /\ root # "none"
  BY DEF Scalar
<1>7. PICK e \in 0..Depth : \A w \in Json : w # Null => (A[Depth][schema][w] <=> A[e][under][w])
  BY <1>5, <1>6, DecodedAdmits
<1>8. /\ decoded_type(type) \in TypeExprs /\ decoded_type(type).shape = << >>
      /\ decoded_type(type).path = type.path /\ CarriedType(fs, decoded_type(type))
  BY <1>6, DecodedType DEF CarriedType
<1>9. A[e][under][v]
  <2> HIDE DEF A, schema, under
  <2>1. QED
    BY <1>1, <1>4, <1>7
<1>10. /\ root \in Primitives \cup {"none", "overflow"}
       /\ root = "overflow" => Depth < e
       /\ root \in Primitives =>
             /\ PrimitiveAdmits(root, v)
             /\ \A w \in Json : w.k # "string" /\ PrimitiveAdmits(root, w) => A[e][under][w]
  <2>1. RootAt(fs, Json, Depth)
    BY RootAlways
  <2>2. QED
    BY <1>1, <1>8, <1>9, <2>1 DEF RootAt, RootOf
<1>11. root \in Primitives
  BY <1>3, <1>6, <1>10
<1>12. /\ x # NoValue /\ x \in Readings(text) /\ PrimitiveAdmits(root, x)
       /\ x.k = "string" => x = v
  BY <1>10, <1>11, ReadAs
<1>13. x \in Json /\ x # Null
  BY <1>12, ReadingIs
<1>14. root # "overflow"
  BY <1>11 DEF Primitives
<1> HIDE DEF x, A, schema, under, root
<1>15. CASE x.k = "string"
  BY <1>4, <1>12, <1>14, <1>15 DEF x, A, schema, root
<1>16. CASE x.k # "string"
  <2>1. A[e][under][x]
    BY <1>10, <1>11, <1>12, <1>13, <1>16
  <2>2. A[Depth][schema][x]
    BY <1>7, <1>13, <2>1
  <2>3. Held(rules, x)
    BY <1>16 DEF Held
  <2>4. QED
    BY <1>12, <1>14, <2>2, <2>3 DEF x, A, schema, root
<1>17. QED
  BY <1>15, <1>16

-----------------------------------------------------------------------------
\* Parameters: the object built from them.

\* The object has a member for each field that was decoded to a value.
LEMMA DecodedObject ==
    ASSUME NEW fields, \A k, m \in DOMAIN fields : fields[k].name = fields[m].name => k = m,
           NEW decoded
    PROVE  LET object == decoded_object(fields, decoded)
           IN  /\ object.k = "object"
               /\ \A n \in DOMAIN object.members : \E k \in DOMAIN fields :
                     n = fields[k].name /\ decoded[k].value # NoValue
               /\ \A k \in DOMAIN fields :
                     /\ fields[k].name \in DOMAIN object.members <=> decoded[k].value # NoValue
                     /\ decoded[k].value # NoValue => object.members[fields[k].name] = decoded[k].value
<1> DEFINE given == {i \in DOMAIN fields : decoded[i].value # NoValue}
           members == [n \in {fields[i].name : i \in given} |->
                          decoded[CHOOSE i \in given : fields[i].name = n].value]
<1>1. decoded_object(fields, decoded) = [k |-> "object", members |-> members]
  BY DEF decoded_object, Obj
<1>2. ASSUME NEW k \in given
      PROVE  fields[k].name \in DOMAIN members /\ members[fields[k].name] = decoded[k].value
  <2>1. (CHOOSE i \in given : fields[i].name = fields[k].name) = k
    <3> DEFINE c == CHOOSE i \in given : fields[i].name = fields[k].name
    <3>1. c \in given /\ fields[c].name = fields[k].name
      OBVIOUS
    <3>2. c \in DOMAIN fields /\ k \in DOMAIN fields
      BY <3>1
    <3> HIDE DEF c
    <3>3. c = k
      BY <3>1, <3>2
    <3>4. QED
      BY <3>3 DEF c
  <2>2. members[fields[k].name] = decoded[CHOOSE i \in given : fields[i].name = fields[k].name].value
    OBVIOUS
  <2>3. QED
    BY <2>1, <2>2
<1>3. DOMAIN members = {fields[i].name : i \in given}
  OBVIOUS
<1>4. \A k \in DOMAIN fields : fields[k].name \in DOMAIN members => decoded[k].value # NoValue
  <2>1. ASSUME NEW k \in DOMAIN fields, fields[k].name \in DOMAIN members PROVE k \in given
    <3>1. PICK i \in given : fields[k].name = fields[i].name
      BY <1>3, <2>1
    <3>2. i \in DOMAIN fields
      OBVIOUS
    <3>3. i = k
      BY <3>1, <3>2
    <3>4. QED
      BY <3>3
  <2>2. QED
    BY <2>1
<1>5. \A n \in DOMAIN members : \E k \in DOMAIN fields : n = fields[k].name /\ decoded[k].value # NoValue
  BY <1>3
<1>6. \A k \in DOMAIN fields : decoded[k].value # NoValue =>
         fields[k].name \in DOMAIN members /\ members[fields[k].name] = decoded[k].value
  BY <1>2
<1> HIDE DEF members
<1>7. QED
  BY <1>1, <1>4, <1>5, <1>6

\* What is parsed of a text is one of its readings.
LEMMA ParsedReading ==
    ASSUME NEW root, NEW text, parsed(root, text) # NoValue
    PROVE  parsed(root, text) \in Readings(text)
BY DEF parsed, Readings

\* A payload of scalar fields, and what a request sends for it.
Payload(fs, location, fields, sent) ==
    /\ DOMAIN fields \subseteq Nat
    /\ \A k, m \in DOMAIN fields : fields[k].name = fields[m].name => k = m
    /\ \A k \in DOMAIN fields :
          /\ fields[k].type \in TypeExprs /\ fields[k].rules \in Seq(Rules)
          /\ fields[k].name \in FieldNames
          /\ CarriedType(fs, fields[k].type) /\ Scalar(fs, fields[k].type)
    /\ DOMAIN sent \subseteq {field_parameter(location, fields[k]).name : k \in DOMAIN fields}
    /\ \A n \in DOMAIN sent : IsText(sent[n])

\* What one field is decoded to: what its parameter was sent as.
LEMMA DecodedField ==
    ASSUME NEW fs, NEW location, NEW fields, NEW sent, Payload(fs, location, fields, sent),
           NEW k \in DOMAIN fields
    PROVE  LET name == field_parameter(location, fields[k]).name
               root == RootOf(fs, fields[k].type)
               x == parsed(root, sent[name])
               reply == decode_field(from_modules(fs), location, fields[k], sent)
           IN  /\ name \notin DOMAIN sent =>
                     reply = Reply(IF type_expr_is_optional(fields[k].type) THEN Valid ELSE Refused, NoValue)
               /\ name \in DOMAIN sent =>
                     reply = IF root = "overflow" THEN Reply(Overflow, NoValue)
                             ELSE Reply(IF x = NoValue THEN Refused ELSE Valid, x)
<1> DEFINE field == fields[k]
           name == field_parameter(location, field).name
           found == found_under(location, field, sent)
           s == from_modules(fs)
           root == RootOf(fs, field.type)
<1>1. /\ found # {} <=> name \in DOMAIN sent
      /\ name \in DOMAIN sent => text_of_field(location, field, sent) = sent[name]
  BY FoundUnder DEF Payload
<1>2. type_expr_primitive_root(s, decoded_type(field.type)) = root
  <2> DEFINE type == field.type
  <2>1. type \in TypeExprs /\ CarriedType(fs, type) /\ Scalar(fs, type)
    BY DEF Payload
  <2> HIDE DEF type
  <2>2. type_expr_primitive_root(s, decoded_type(type)) = RootOf(fs, type)
    BY <2>1, DecodedRoot
  <2>3. QED
    BY <2>2 DEF type
<1>3. decode_text_value(s, field.type, text_of_field(location, field, sent)) =
         parsed(root, text_of_field(location, field, sent))
  BY <1>2 DEF decode_text_value
<1> HIDE DEF root, s, found, name, field
<1>4. found = {} => decode_field(s, location, field, sent) =
         Reply(IF type_expr_is_optional(field.type) THEN Valid ELSE Refused, NoValue)
  BY DEF decode_field, found
<1>5. found # {} => decode_field(s, location, field, sent) =
         LET value == parsed(root, text_of_field(location, field, sent))
         IN  IF root = "overflow" THEN Reply(Overflow, NoValue)
             ELSE Reply(IF value = NoValue THEN Refused ELSE Valid, value)
  BY <1>2, <1>3 DEF decode_field, found
<1>6. QED
  BY <1>1, <1>4, <1>5 DEF root, s, name, field

\* The values that the object and its members are among.
LEMMA ObjectValues ==
    ASSUME NEW object, object.k = "object", \A n \in DOMAIN object.members : object.members[n] \in Json
    PROVE  Closed(Json \cup {object})
<1> DEFINE all == Json \cup {object}
<1>1. Closed(Json)
  BY JsonAssumption
<1>2. \A items : items \in Seq(Json) => items \in Seq(all)
  OBVIOUS
<1>3. ASSUME NEW v \in all
      PROVE  /\ v.k = "array" => v.items \in Seq(all)
             /\ v.k = "object" => \A n \in DOMAIN v.members : v.members[n] \in all
  <2>1. CASE v = object
    BY <2>1
  <2>2. CASE v \in Json
    <3>1. /\ v.k = "array" => v.items \in Seq(Json)
          /\ v.k = "object" => \A n \in DOMAIN v.members : v.members[n] \in Json
      BY <1>1, <2>2 DEF Closed
    <3> HIDE DEF all
    <3>2. v.k = "array" => v.items \in Seq(all)
      BY <1>2, <3>1
    <3>3. QED
      BY <3>1, <3>2 DEF all
  <2>3. QED
    BY <2>1, <2>2
<1>4. QED
  BY <1>3 DEF Closed

\* What is decoded from the fields of a payload.
Decoded(fs, location, fields, sent) ==
    [k \in DOMAIN fields |-> decode_field(from_modules(fs), location, fields[k], sent)]
ObjectOf(fs, location, fields, sent) == decoded_object(fields, Decoded(fs, location, fields, sent))

\* What a field's parameter is read as, if it was sent and is read at all.
ReadFor(fs, location, field, sent) ==
    parsed(RootOf(fs, field.type), sent[field_parameter(location, field).name])
GivenFor(fs, location, field, sent) ==
    /\ field_parameter(location, field).name \in DOMAIN sent
    /\ RootOf(fs, field.type) # "overflow" /\ ReadFor(fs, location, field, sent) # NoValue

\* The object's members are what the parameters are read as.
MembersRead(fs, location, fields, sent, object) ==
    \A k \in DOMAIN fields :
        /\ fields[k].name \in DOMAIN object.members <=> GivenFor(fs, location, fields[k], sent)
        /\ fields[k].name \in DOMAIN object.members =>
              object.members[fields[k].name] = ReadFor(fs, location, fields[k], sent)

\* They are so in the object that is decoded.
LEMMA ObjectMembers ==
    ASSUME NEW fs, NEW location, NEW fields, NEW sent, Payload(fs, location, fields, sent)
    PROVE  LET object == ObjectOf(fs, location, fields, sent)
           IN  /\ object.k = "object" /\ Closed(Json \cup {object})
               /\ MembersRead(fs, location, fields, sent, object)
<1> DEFINE decoded == Decoded(fs, location, fields, sent)
           object == ObjectOf(fs, location, fields, sent)
           name(k) == field_parameter(location, fields[k]).name
           root(k) == RootOf(fs, fields[k].type)
           x(k) == parsed(root(k), sent[name(k)])
<1>1. \A k, m \in DOMAIN fields : fields[k].name = fields[m].name => k = m
  BY DEF Payload
<1>2. /\ object.k = "object"
      /\ \A n \in DOMAIN object.members : \E k \in DOMAIN fields :
            n = fields[k].name /\ decoded[k].value # NoValue
      /\ \A k \in DOMAIN fields :
            /\ fields[k].name \in DOMAIN object.members <=> decoded[k].value # NoValue
            /\ decoded[k].value # NoValue => object.members[fields[k].name] = decoded[k].value
  BY <1>1, DecodedObject DEF ObjectOf
<1>3. ASSUME NEW k \in DOMAIN fields
      PROVE  decoded[k].value = IF name(k) \in DOMAIN sent /\ root(k) # "overflow" THEN x(k) ELSE NoValue
  <2>1. decoded[k] = decode_field(from_modules(fs), location, fields[k], sent)
    BY DEF Decoded
  <2> HIDE DEF decoded
  <2>2. name(k) \notin DOMAIN sent => decoded[k].value = NoValue
    BY <2>1, DecodedField DEF Reply
  <2>3. name(k) \in DOMAIN sent =>
           decoded[k] = IF root(k) = "overflow" THEN Reply(Overflow, NoValue)
                        ELSE Reply(IF x(k) = NoValue THEN Refused ELSE Valid, x(k))
    BY <2>1, DecodedField
  <2> HIDE DEF name, root, x
  <2>4. QED
    BY <2>2, <2>3 DEF Reply
<1>4. \A n \in DOMAIN object.members : object.members[n] \in Json
  <2>1. ASSUME NEW n \in DOMAIN object.members PROVE object.members[n] \in Json
    <3>1. PICK k \in DOMAIN fields : n = fields[k].name /\ decoded[k].value # NoValue
      BY <1>2, <2>1
    <3>2. object.members[n] = decoded[k].value
      BY <1>2, <3>1
    <3>3. decoded[k].value = x(k) /\ x(k) # NoValue /\ name(k) \in DOMAIN sent
      <4> HIDE DEF decoded, object, name, root, x
      <4>1. QED
        BY <1>3, <3>1
    <3>4. x(k) \in Readings(sent[name(k)])
      BY <3>3, ParsedReading
    <3>5. IsText(sent[name(k)])
      BY <3>3 DEF Payload
    <3>6. x(k) \in Json
      BY <3>4, <3>5, ReadingIs
    <3> HIDE DEF decoded, object, x
    <3>7. QED
      BY <3>2, <3>3, <3>6
  <2>2. QED
    BY <2>1
<1>5. Closed(Json \cup {object})
  <2> HIDE DEF object
  <2>1. QED
    BY <1>2, <1>4, ObjectValues
<1> HIDE DEF decoded, object, name, root, x
<1>6. \A k \in DOMAIN fields :
         /\ fields[k].name \in DOMAIN object.members <=>
               name(k) \in DOMAIN sent /\ root(k) # "overflow" /\ x(k) # NoValue
         /\ fields[k].name \in DOMAIN object.members => object.members[fields[k].name] = x(k)
  BY <1>2, <1>3
<1>7. MembersRead(fs, location, fields, sent, object)
  BY <1>6 DEF name, root, x, GivenFor, ReadFor, MembersRead
<1>8. QED
  BY <1>2, <1>5, <1>7 DEF object

\* One member of it.
LEMMA ObjectMember ==
    ASSUME NEW fs, NEW location, NEW fields, NEW sent, Payload(fs, location, fields, sent),
           NEW k \in DOMAIN fields
    PROVE  LET object == ObjectOf(fs, location, fields, sent)
           IN  /\ fields[k].name \in DOMAIN object.members <=> GivenFor(fs, location, fields[k], sent)
               /\ fields[k].name \in DOMAIN object.members =>
                     object.members[fields[k].name] = ReadFor(fs, location, fields[k], sent)
<1>1. MembersRead(fs, location, fields, sent, ObjectOf(fs, location, fields, sent))
  BY ObjectMembers
<1>2. QED
  BY <1>1 DEF MembersRead
-----------------------------------------------------------------------------
\* Parameters: the whole payload.

\* What the document says of what is sent.
Conforms(schema_of, location, fields, sent) ==
    \A k \in DOMAIN fields :
        LET parameter == field_parameter(location, fields[k])
        IN  IF parameter.name \in DOMAIN sent
            THEN \E v \in Readings(sent[parameter.name]) :
                    admitted_within(schema_of, Json)[Depth][field_schema(fields[k])][v]
            ELSE ~parameter.required

\* A payload type and its fields.
PayloadType(fs, j, name, fields) ==
    /\ j \in DOMAIN fs /\ name \in DOMAIN fs[j] /\ fs[j][name].kind \in {"struct", "model"}
    /\ fields = fs[j][name].fields

\* The runtime decodes the fields that the document lists.
LEMMA PayloadFields ==
    ASSUME NEW fs, IsProject(fs), Unique(fs), NEW j, NEW name, NEW fields,
           PayloadType(fs, j, name, fields)
    PROVE  /\ payload_fields(from_modules(fs), name) = fields
           /\ documented_fields(fs, name) = fields
<1> DEFINE s == from_modules(fs)
           decl == fs[j][name]
<1>1. /\ \A kind \in {"alias", "struct", "model"} :
            /\ name \in DOMAIN s[kind] <=> decl.kind = kind
            /\ decl.kind = kind => s[kind][name] = decl
      /\ \A kind \in {"alias", "struct", "model", "enum"} :
            DeclaringFiles(fs, kind, name) = IF decl.kind = kind THEN {j} ELSE {}
  BY Entered DEF PayloadType
<1>2. decl.kind \in {"struct", "model"} /\ fields = decl.fields
  BY DEF PayloadType
<1>3. payload_fields(s, name) = fields
  <2> HIDE DEF s, decl
  <2>1. QED
    BY <1>1, <1>2 DEF payload_fields
<1> DEFINE kind == IF DeclaringFiles(fs, "struct", name) # {} THEN "struct" ELSE "model"
<1>4. DeclaringFiles(fs, kind, name) = {j}
  BY <1>1, <1>2
<1>5. Least({j}) = j
  <2>1. j \in Nat
    BY SequenceFacts DEF PayloadType, IsProject
  <2>2. QED
    BY <2>1, LeastIs
<1>6. documented_fields(fs, name) = fields
  <2>1. documented_fields(fs, name) = fs[Least(DeclaringFiles(fs, kind, name))][name].fields
    BY DEF documented_fields
  <2>2. QED
    BY <1>2, <1>4, <1>5, <2>1
<1>7. QED
  BY <1>3, <1>6

\* The outcome of decoding: that of the first field that is refused, or else
\* that of the object.
LEMMA DecodeOutcome ==
    ASSUME NEW fs, IsProject(fs), Unique(fs), NEW j, NEW name, NEW fields,
           PayloadType(fs, j, name, fields), NEW location, NEW sent
    PROVE  LET object == ObjectOf(fs, location, fields, sent)
               decoded == Decoded(fs, location, fields, sent)
               outcomes == [k \in DOMAIN fields |-> decoded[k].outcome]
               outcome == outcome_within(from_modules(fs), Json \cup {object})[Depth][Named(name)][object]
               reply == decode_fields(from_modules(fs), location, name, sent)
           IN  /\ reply.outcome = IF FirstFailure(outcomes) # Valid THEN FirstFailure(outcomes) ELSE outcome
               /\ reply.outcome = Valid => reply.value = object
<1> DEFINE s == from_modules(fs)
<1>1. payload_fields(s, name) = fields
  BY PayloadFields
<1> DEFINE decoded == Decoded(fs, location, fields, sent)
           failure == FirstFailure([k \in DOMAIN fields |-> decoded[k].outcome])
           object == decoded_object(fields, decoded)
           outcome == IF failure # Valid THEN failure ELSE validate_value(s, Named(name), object)
<1>2. decode_fields(s, location, name, sent) = Reply(outcome, IF outcome = Valid THEN object ELSE NoValue)
  BY <1>1 DEF decode_fields, Decoded
<1>3. validate_value(s, Named(name), object) =
         outcome_within(s, Json \cup {object})[Depth][Named(name)][object]
  BY DEF validate_value
<1>4. object = ObjectOf(fs, location, fields, sent)
  BY DEF ObjectOf
<1> HIDE DEF object, failure, s
<1>5. QED
  BY <1>2, <1>3, <1>4 DEF Reply, failure, s

\* An object that conforms to a payload type has the members of its component.
LEMMA ObjectAdmitted ==
    ASSUME NEW fs, IsProject(fs), Unique(fs), AllCarried(fs), NEW j, NEW name, NEW fields,
           PayloadType(fs, j, name, fields), NEW values, NEW v \in values,
           admitted_within(component_schemas(fs), values)[Depth][type_schema(Named(name))][v]
    PROVE  /\ Depth \in 1..Depth
           /\ ObjectAdmits(object_component(fields), v,
                           admitted_within(component_schemas(fs), values)[Depth - 1])
<1> DEFINE A == admitted_within(component_schemas(fs), values)
           type == Named(name)
           schema == type_schema(type)
<1>1. name \in STRING
  BY DEF PayloadType, IsProject, IsSourceFile
<1>2. type \in TypeExprs /\ type.shape = << >> /\ Len(type.path) = 1 /\ type.path[1] = name
  BY <1>1, NameType
<1> HIDE DEF type
<1>3. /\ schema \in TypeSchemas /\ schema.rules = {} /\ schema.form = base_form(type)
      /\ schema.of = name /\ schema.shape = << >>
  BY <1>2, SchemaOf
<1>4. name \in RefNames /\ name \notin Primitives
  BY DEF AllCarried, Unique, PayloadType
<1>5. schema.form = "ref"
  BY <1>2, <1>3, <1>4 DEF base_form
<1>6. schema \in TypeSchemas
  BY <1>3
<1>7. A[Depth][schema][v]
  BY DEF type
<1>8. Depth \in 1..Depth
  <2> HIDE DEF schema
  <2>1. ~A[0][schema][v]
    BY <1>6, AdmittedSteps
  <2> HIDE DEF A
  <2>2. QED
    BY <1>7, <2>1, DepthAssumption
<1>9. A[Depth][schema][v] <=> SchemaAdmits(component_schemas(fs), schema, v, A[Depth - 1])
  <2> HIDE DEF schema
  <2>1. QED
    BY <1>6, <1>8, AdmittedSteps, ZenonT(60)
<1>10. ReferenceAdmits(component_schemas(fs), name, v, A[Depth - 1])
  <2> HIDE DEF A, schema
  <2>1. QED
    BY <1>3, <1>5, <1>7, <1>9 DEF SchemaAdmits
<1>11. /\ name \in DOMAIN component_schemas(fs)
       /\ component_schemas(fs)[name] = object_component(fields)
       /\ object_component(fields).form = "object"
  <2>1. name \in DOMAIN component_schemas(fs) /\ component_schemas(fs)[name] = component(fs[j][name])
    BY Entered DEF PayloadType
  <2>2. component(fs[j][name]) = object_component(fields)
    BY DEF component, PayloadType
  <2>3. QED
    BY <2>1, <2>2, ObjectComponent
<1> HIDE DEF A
<1>12. ObjectAdmits(object_component(fields), v, A[Depth - 1])
  BY <1>10, <1>11 DEF ReferenceAdmits
<1>13. QED
  BY <1>8, <1>12 DEF A

\* What is let through conforms, and so does what the handler gets.
LEMMA DecodedConforms ==
    ASSUME NEW fs, IsProject(fs), Unique(fs), AllCarried(fs), NEW j, NEW name, NEW fields,
           PayloadType(fs, j, name, fields), NEW location, NEW sent,
           Payload(fs, location, fields, sent),
           decode_fields(from_modules(fs), location, name, sent).outcome = Valid
    PROVE  /\ Conforms(component_schemas(fs), location, fields, sent)
           /\ Admits(component_schemas(fs), type_schema(Named(name)),
                     decode_fields(from_modules(fs), location, name, sent).value)
<1> DEFINE object == ObjectOf(fs, location, fields, sent)
           decoded == Decoded(fs, location, fields, sent)
           outcomes == [k \in DOMAIN fields |-> decoded[k].outcome]
           all == Json \cup {object}
           A == admitted_within(component_schemas(fs), all)
           A0 == admitted_within(component_schemas(fs), Json)
<1>1. /\ FirstFailure(outcomes) = Valid
      /\ outcome_within(from_modules(fs), all)[Depth][Named(name)][object] = Valid
      /\ decode_fields(from_modules(fs), location, name, sent).value = object
  BY DecodeOutcome
<1>2. \A k \in DOMAIN fields : decoded[k].outcome = Valid
  <2>1. DOMAIN outcomes = DOMAIN fields /\ \A k \in DOMAIN fields : outcomes[k] = decoded[k].outcome
    OBVIOUS
  <2> HIDE DEF outcomes, decoded
  <2>2. DOMAIN outcomes \subseteq Nat
    BY <2>1 DEF Payload
  <2>3. QED
    BY <1>1, <2>1, <2>2, AllValid
<1>3. Closed(all) /\ object \in all
  BY ObjectMembers
<1>4. name \in STRING /\ Named(name) \in TypeExprs
  <2>1. name \in STRING
    BY DEF PayloadType, IsProject, IsSourceFile
  <2>2. QED
    BY <2>1, NameType
<1>5. A[Depth][type_schema(Named(name))][object]
  <2>1. SoundAt(from_modules(fs), component_schemas(fs), all, Depth)
    <3> HIDE DEF all
    <3>1. QED
      BY <1>3, SoundAlways
  <2>2. QED
    BY <1>1, <1>3, <1>4, <2>1 DEF SoundAt
<1>6. Depth \in 1..Depth /\ ObjectAdmits(object_component(fields), object, A[Depth - 1])
  <2> HIDE DEF all, object
  <2>1. QED
    BY <1>3, <1>5, ObjectAdmitted
<1>7. ASSUME NEW k \in DOMAIN fields
      PROVE  LET parameter == field_parameter(location, fields[k])
             IN  IF parameter.name \in DOMAIN sent
                 THEN \E v \in Readings(sent[parameter.name]) : A0[Depth][field_schema(fields[k])][v]
                 ELSE ~parameter.required
  <2> DEFINE pname == field_parameter(location, fields[k]).name
             root == RootOf(fs, fields[k].type)
             x == parsed(root, sent[pname])
             schema == field_schema(fields[k])
  <2>1. decoded[k] = decode_field(from_modules(fs), location, fields[k], sent)
    BY DEF Decoded
  <2>2. CASE pname \notin DOMAIN sent
    <3>1. decoded[k] = Reply(IF type_expr_is_optional(fields[k].type) THEN Valid ELSE Refused, NoValue)
      BY <2>1, <2>2, DecodedField
    <3>2. type_expr_is_optional(fields[k].type)
      BY <1>2, <3>1 DEF Reply, Valid, Refused
    <3>3. ~field_parameter(location, fields[k]).required
      BY <3>2 DEF field_parameter
    <3>4. QED
      BY <2>2, <3>3
  <2>3. CASE pname \in DOMAIN sent
    <3>1. root # "overflow" /\ x # NoValue
      <4>1. decoded[k] = IF root = "overflow" THEN Reply(Overflow, NoValue)
                         ELSE Reply(IF x = NoValue THEN Refused ELSE Valid, x)
        BY <2>1, <2>3, DecodedField
      <4> HIDE DEF root, x, decoded
      <4>2. QED
        BY <1>2, <4>1 DEF Reply, Valid, Refused, Overflow
    <3>2. fields[k].name \in DOMAIN object.members /\ object.members[fields[k].name] = x
      <4>1. GivenFor(fs, location, fields[k], sent) /\ ReadFor(fs, location, fields[k], sent) = x
        BY <2>3, <3>1 DEF GivenFor, ReadFor
      <4>2. /\ fields[k].name \in DOMAIN object.members <=> GivenFor(fs, location, fields[k], sent)
            /\ fields[k].name \in DOMAIN object.members =>
                  object.members[fields[k].name] = ReadFor(fs, location, fields[k], sent)
        BY ObjectMember
      <4> HIDE DEF object, x
      <4>3. QED
        BY <4>1, <4>2
    <3>3. x \in Readings(sent[pname]) /\ x \in Json
      <4>1. x \in Readings(sent[pname])
        BY <3>1, ParsedReading
      <4>2. IsText(sent[pname])
        BY <2>3 DEF Payload
      <4>3. QED
        BY <4>1, <4>2, ReadingIs
    <3>4. /\ fields[k].name \in DOMAIN object_component(fields).properties
          /\ object_component(fields).properties[fields[k].name] = schema
      BY ComponentField DEF Payload
    <3>5. A[Depth - 1][schema][x]
      <4> HIDE DEF A, object, x, schema
      <4>1. QED
        BY <1>6, <3>2, <3>4 DEF ObjectAdmits
    <3>6. schema \in TypeSchemas
      <4> DEFINE under == type_schema(fields[k].type)
                 rules == fields[k].rules
      <4>1. under \in TypeSchemas /\ rules \in Seq(Rules)
        BY SchemaOf DEF Payload
      <4>2. schema = apply_field_validations(under, rules)
        BY DEF field_schema
      <4> HIDE DEF under, rules, schema
      <4>3. QED
        BY <4>1, <4>2, RuledSchema
    <3>7. TypedComponents(component_schemas(fs)) /\ Closed(Json) /\ x \in all /\ Json \subseteq all
      BY <3>3, ComponentsTyped, JsonAssumption
    <3> HIDE DEF all, x, schema
    <3>8. A[Depth][schema][x]
      BY <1>3, <1>6, <3>5, <3>6, <3>7, AdmittedMore
    <3>9. Depth \in 0..Depth
      BY <1>6
    <3>10. A0[Depth][schema][x] <=> A[Depth][schema][x]
      BY <1>3, <3>3, <3>6, <3>7, <3>9, AdmittedAmong
    <3> HIDE DEF A, A0
    <3>11. A0[Depth][schema][x]
      BY <3>8, <3>10
    <3>12. QED
      BY <2>3, <3>3, <3>11 DEF schema
  <2>4. QED
    BY <2>2, <2>3
<1>8. Conforms(component_schemas(fs), location, fields, sent)
  BY <1>7 DEF Conforms
<1>9. Admits(component_schemas(fs), type_schema(Named(name)), object)
  BY <1>5 DEF Admits
<1>10. QED
  BY <1>1, <1>8, <1>9


-----------------------------------------------------------------------------
\* Parameters: what conforms is let through.

\* A field whose parameter conforms is decoded, to a value that conforms.
LEMMA ConformingField ==
    ASSUME NEW fs, IsProject(fs), Unique(fs), AllCarried(fs), NEW location, NEW fields, NEW sent,
           Payload(fs, location, fields, sent),
           Conforms(component_schemas(fs), location, fields, sent), NEW k \in DOMAIN fields
    PROVE  /\ decode_field(from_modules(fs), location, fields[k], sent).outcome = Valid
           /\ ~type_expr_is_optional(fields[k].type) => GivenFor(fs, location, fields[k], sent)
           /\ GivenFor(fs, location, fields[k], sent) =>
                 /\ ReadFor(fs, location, fields[k], sent) \in Json
                 /\ admitted_within(component_schemas(fs), Json)[Depth][field_schema(fields[k])]
                       [ReadFor(fs, location, fields[k], sent)]
<1> DEFINE pname == field_parameter(location, fields[k]).name
           type == fields[k].type
           rules == fields[k].rules
           root == RootOf(fs, type)
           x == parsed(root, sent[pname])
           reply == decode_field(from_modules(fs), location, fields[k], sent)
           A == admitted_within(component_schemas(fs), Json)
           under == type_schema(type)
           schema == field_schema(fields[k])
           given == GivenFor(fs, location, fields[k], sent)
<1>1. /\ type \in TypeExprs /\ rules \in Seq(Rules) /\ CarriedType(fs, type) /\ Scalar(fs, type)
      /\ pname \in DOMAIN sent => IsText(sent[pname])
  BY DEF Payload
<1>2. /\ pname \notin DOMAIN sent =>
            reply = Reply(IF type_expr_is_optional(type) THEN Valid ELSE Refused, NoValue)
      /\ pname \in DOMAIN sent =>
            reply = IF root = "overflow" THEN Reply(Overflow, NoValue)
                    ELSE Reply(IF x = NoValue THEN Refused ELSE Valid, x)
  BY DecodedField
<1>3. /\ given <=> pname \in DOMAIN sent /\ root # "overflow" /\ x # NoValue
      /\ ReadFor(fs, location, fields[k], sent) = x
  BY DEF GivenFor, ReadFor
<1>4. CASE pname \notin DOMAIN sent
  <2>1. ~field_parameter(location, fields[k]).required
    BY <1>4 DEF Conforms
  <2>2. type_expr_is_optional(type)
    BY <2>1 DEF field_parameter
  <2> HIDE DEF reply, given, pname
  <2>3. QED
    BY <1>2, <1>3, <1>4, <2>2 DEF Reply, reply, given
<1>5. CASE pname \in DOMAIN sent
  <2>1. PICK v \in Readings(sent[pname]) : A[Depth][schema][v]
    BY <1>5 DEF Conforms
  <2>2. schema = apply_field_validations(under, rules)
    BY DEF field_schema
  <2>3. /\ root # "overflow" /\ x # NoValue /\ x \in Readings(sent[pname])
        /\ A[Depth][under][x] /\ Held(rules, x)
    <3> DEFINE text == sent[pname]
    <3>1. A[Depth][apply_field_validations(under, rules)][v]
      BY <2>1, <2>2
    <3>2. v \in Readings(text) /\ IsText(text)
      BY <1>1, <1>5
    <3> HIDE DEF text, type, rules
    <3>3. LET y == parsed(RootOf(fs, type), text)
          IN  /\ RootOf(fs, type) # "overflow" /\ y # NoValue /\ y \in Readings(text)
              /\ admitted_within(component_schemas(fs), Json)[Depth][type_schema(type)][y]
              /\ Held(rules, y)
      BY <1>1, <3>1, <3>2, TextRead
    <3>4. QED
      BY <3>3 DEF text
  <2>4. x \in Json
    BY <1>1, <1>5, <2>3, ReadingIs
  <2>5. A[Depth][schema][x]
    <3>1. under \in TypeSchemas /\ under.rules = {} /\ Depth \in 0..Depth
      BY <1>1, SchemaOf, DepthAssumption
    <3> HIDE DEF under, rules, x
    <3>2. A[Depth][apply_field_validations(under, rules)][x] <=> A[Depth][under][x] /\ Held(rules, x)
      BY <1>1, <2>4, <3>1, AdmittedRules
    <3> HIDE DEF A, schema
    <3>3. QED
      BY <2>2, <2>3, <3>2
  <2> HIDE DEF reply, given, pname, root, x, A, schema
  <2>6. reply.outcome = Valid
    BY <1>2, <1>5, <2>3 DEF Reply
  <2>7. QED
    BY <1>3, <1>5, <2>3, <2>4, <2>5, <2>6 DEF reply, given, A, schema
<1>6. QED
  BY <1>4, <1>5

\* The object that is decoded conforms to the component of its type.
LEMMA ObjectConforms ==
    ASSUME NEW fs, IsProject(fs), Unique(fs), AllCarried(fs), NEW location, NEW fields, NEW sent,
           Payload(fs, location, fields, sent),
           Conforms(component_schemas(fs), location, fields, sent)
    PROVE  LET object == ObjectOf(fs, location, fields, sent)
           IN  ObjectAdmits(object_component(fields), object,
                            admitted_within(component_schemas(fs), Json \cup {object})[Depth])
<1> DEFINE object == ObjectOf(fs, location, fields, sent)
           all == Json \cup {object}
           A == admitted_within(component_schemas(fs), all)
           A0 == admitted_within(component_schemas(fs), Json)
           c == object_component(fields)
<1>1. object.k = "object" /\ Closed(all)
  BY ObjectMembers
<1>2. ASSUME NEW k \in DOMAIN fields
      PROVE  /\ fields[k].name \in DOMAIN object.members <=> GivenFor(fs, location, fields[k], sent)
             /\ fields[k].name \in DOMAIN object.members =>
                   object.members[fields[k].name] = ReadFor(fs, location, fields[k], sent)
  BY ObjectMember
<1>3. c.required \subseteq DOMAIN object.members
  <2>1. ASSUME NEW f \in Range(fields), ~type_expr_is_optional(f.type)
        PROVE  f.name \in DOMAIN object.members
    <3>1. PICK k \in DOMAIN fields : fields[k] = f
      BY DEF Range
    <3>2. GivenFor(fs, location, fields[k], sent)
      BY <2>1, <3>1, ConformingField
    <3>3. fields[k].name \in DOMAIN object.members
      <4> HIDE DEF object
      <4>1. QED
        BY <1>2, <3>2
    <3> HIDE DEF object
    <3>4. QED
      BY <3>1, <3>3
  <2>2. c.required = {f.name : f \in {g \in Range(fields) : ~type_expr_is_optional(g.type)}}
    BY ObjectComponent
  <2> HIDE DEF object, c
  <2>3. QED
    BY <2>1, <2>2
<1>4. ASSUME NEW n \in DOMAIN object.members \cap DOMAIN c.properties
      PROVE  A[Depth][c.properties[n]][object.members[n]]
  <2>1. PICK k \in DOMAIN fields : fields[k].name = n /\ c.properties[n] = field_schema(fields[k])
    BY ObjectComponent
  <2> DEFINE x == ReadFor(fs, location, fields[k], sent)
             schema == field_schema(fields[k])
  <2>2. GivenFor(fs, location, fields[k], sent) /\ object.members[n] = x
    <3> HIDE DEF object, x
    <3>1. QED
      BY <1>2, <1>4, <2>1 DEF x
  <2>3. x \in Json /\ A0[Depth][schema][x]
    BY <2>2, ConformingField
  <2>4. schema \in TypeSchemas
    <3> DEFINE under == type_schema(fields[k].type)
               rules == fields[k].rules
    <3>1. under \in TypeSchemas /\ rules \in Seq(Rules)
      BY SchemaOf DEF Payload
    <3>2. schema = apply_field_validations(under, rules)
      BY DEF field_schema
    <3> HIDE DEF under, rules, schema
    <3>3. QED
      BY <3>1, <3>2, RuledSchema
  <2>5. TypedComponents(component_schemas(fs)) /\ Closed(Json) /\ Json \subseteq all /\ Depth \in 0..Depth
    BY ComponentsTyped, JsonAssumption, DepthAssumption
  <2>6. A0[Depth][schema][x] <=> A[Depth][schema][x]
    <3> HIDE DEF all, x, schema
    <3>1. QED
      BY <1>1, <2>3, <2>4, <2>5, AdmittedAmong
  <2> HIDE DEF A, A0, object, c, x, schema
  <2>7. QED
    BY <2>1, <2>2, <2>3, <2>6 DEF schema
<1> HIDE DEF A, object, c
<1>5. ObjectAdmits(c, object, A[Depth])
  BY <1>1, <1>3, <1>4 DEF ObjectAdmits
<1>6. QED
  BY <1>5 DEF A, object, c

\* What conforms is not refused.
LEMMA ConformingDecoded ==
    ASSUME NEW fs, IsProject(fs), Unique(fs), AllCarried(fs), NEW j, NEW name, NEW fields,
           PayloadType(fs, j, name, fields), NEW location, NEW sent,
           Payload(fs, location, fields, sent),
           Conforms(component_schemas(fs), location, fields, sent)
    PROVE  decode_fields(from_modules(fs), location, name, sent).outcome # Refused
<1> DEFINE object == ObjectOf(fs, location, fields, sent)
           decoded == Decoded(fs, location, fields, sent)
           outcomes == [k \in DOMAIN fields |-> decoded[k].outcome]
           all == Json \cup {object}
           s == from_modules(fs)
           B == outcome_within(s, all)
           A == admitted_within(component_schemas(fs), all)
           reply == decode_fields(s, location, name, sent)
<1>1. reply.outcome = IF FirstFailure(outcomes) # Valid THEN FirstFailure(outcomes)
                      ELSE B[Depth][Named(name)][object]
  BY DecodeOutcome
<1>2. FirstFailure(outcomes) = Valid
  <2>1. \A k \in DOMAIN fields : decoded[k].outcome = Valid
    BY ConformingField DEF Decoded
  <2>2. DOMAIN outcomes = DOMAIN fields /\ \A k \in DOMAIN fields : outcomes[k] = decoded[k].outcome
    OBVIOUS
  <2> HIDE DEF outcomes, decoded
  <2>3. DOMAIN outcomes \subseteq Nat
    BY <2>2 DEF Payload
  <2>4. QED
    BY <2>1, <2>2, <2>3, AllValid
<1>3. Closed(all) /\ object \in all
  BY ObjectMembers
<1>4. /\ name \in STRING /\ Named(name) \in TypeExprs /\ Named(name).shape = << >>
      /\ Len(Named(name).path) = 1 /\ Named(name).path[1] = name
  <2>1. name \in STRING
    BY DEF PayloadType, IsProject, IsSourceFile
  <2>2. QED
    BY <2>1, NameType
<1>5. ReferenceAdmits(component_schemas(fs), name, object, A[Depth])
  <2>1. name \in DOMAIN component_schemas(fs) /\ component_schemas(fs)[name] = component(fs[j][name])
    BY Entered DEF PayloadType
  <2>2. component(fs[j][name]) = object_component(fields) /\ object_component(fields).form = "object"
    BY ObjectComponent DEF component, PayloadType
  <2>3. ObjectAdmits(object_component(fields), object, A[Depth])
    BY ObjectConforms
  <2> HIDE DEF object, A
  <2>4. QED
    BY <2>1, <2>2, <2>3 DEF ReferenceAdmits
<1>6. CASE Depth = 0
  <2>1. B[0][Named(name)][object] = Overflow
    <3> DEFINE type == Named(name)
    <3>1. type \in TypeExprs
      BY <1>4
    <3> HIDE DEF all, object, type
    <3>2. B[0][type][object] = Overflow
      BY <1>3, <3>1, OutcomeSteps
    <3>3. QED
      BY <3>2 DEF type
  <2> HIDE DEF B, reply, object, outcomes
  <2>2. QED
    BY <1>1, <1>2, <1>6, <2>1 DEF Overflow, Refused, Valid, reply
<1>7. CASE Depth # 0
  <2>1. Depth \in 1..Depth /\ Depth - 1 \in 0..Depth /\ Depth \in 0..Depth
    BY <1>7, DepthAssumption
  <2>2. B[Depth][Named(name)][object] = validate_type_expr_as(s, Named(name), object, B[Depth - 1])
    <3> DEFINE type == Named(name)
    <3>1. type \in TypeExprs
      BY <1>4
    <3> HIDE DEF all, object, type, s
    <3>2. B[Depth][type][object] = validate_type_expr_as(s, type, object, B[Depth - 1])
      BY <1>3, <2>1, <3>1, OutcomeSteps, ZenonT(60)
    <3>3. QED
      BY <3>2 DEF type
  <2>3. validate_type_expr_as(s, Named(name), object, B[Depth - 1]) =
           validate_value_as(s, name, object, B[Depth - 1])
    BY <1>4 DEF validate_type_expr_as
  <2>4. validate_value_as(s, name, object, B[Depth - 1]) \in {Valid, Overflow}
    <3>1. CompleteAt(fs, all, Depth - 1, Depth, {Valid, Overflow})
      <4> HIDE DEF all
      <4>1. \A i, d \in 0..Depth : CompleteAt(fs, all, i, d, {Valid, Overflow})
        BY <1>3, CompleteAlways
      <4>2. QED
        BY <2>1, <4>1
    <3>2. j \in DOMAIN fs /\ name \in DOMAIN fs[j]
      BY DEF PayloadType
    <3> DEFINE good == {Valid, Overflow}
               e == Depth - 1
    <3>3. Valid \in good /\ e \in 0..Depth /\ CompleteAt(fs, all, e, Depth, good)
      BY <2>1, <3>1
    <3> HIDE DEF all, object, good, e
    <3>4. validate_value_as(from_modules(fs), name, object, outcome_within(from_modules(fs), all)[e]) \in good
      BY <1>3, <1>5, <2>1, <3>2, <3>3, CompleteName
    <3>5. QED
      BY <3>4 DEF good, e
  <2> HIDE DEF B, reply, object, outcomes, s
  <2>5. QED
    BY <1>1, <1>2, <2>2, <2>3, <2>4 DEF Overflow, Refused, Valid, reply, s
<1>8. QED
  BY <1>6, <1>7

-----------------------------------------------------------------------------
\* Parameters: the request.

\* A request with a query, headers or cookies is for a payload type.
LEMMA AskedFields ==
    ASSUME Inv, UniqueNames, request.kind \in Locations
    PROVE  /\ request # NoRequest
           /\ request.sent \in Sent
           /\ \E j, name, fields :
                 /\ PayloadType(files, j, name, fields)
                 /\ request.type = Named(name)
                 /\ request.reply = decode_fields(schemas, request.kind, name, request.sent)
<1>1. request # NoRequest
  BY DEF NoRequest, Request, Locations
<1>2. ~IsPath(request) /\ ~IsBody(request) /\ ~IsAnswer(request)
  BY DEF IsPath, IsBody, IsAnswer, Request, Locations
<1>3. IsFields(request)
  BY <1>1, <1>2 DEF Inv, RequestOK
<1>4. PICK location \in Locations, name \in DeclaredNames, sent \in Sent :
         /\ is_local_payload_type(name)
         /\ request = Request(location, Named(name), sent, decode_fields(schemas, location, name, sent))
  BY <1>3 DEF IsFields
<1>5. /\ request.kind = location /\ request.type = Named(name) /\ request.sent = sent
      /\ request.reply = decode_fields(schemas, location, name, sent)
  BY <1>4 DEF Request
<1>6. PICK j \in DOMAIN files : name \in DOMAIN files[j] /\ files[j][name].kind \in {"struct", "model"}
  BY <1>4 DEF is_local_payload_type, Range
<1>7. PayloadType(files, j, name, files[j][name].fields)
  BY <1>6 DEF PayloadType
<1>8. QED
  BY <1>1, <1>5, <1>7

\* A field of a payload type is one of the sources'.
LEMMA SourceField ==
    ASSUME Inv, NEW j, NEW name, NEW fields, PayloadType(files, j, name, fields),
           NEW k \in DOMAIN fields
    PROVE  fields[k].name \in FieldNames
<1> DEFINE file == files[j]
           decl == file[name]
           declared == UNION {Range(f) : f \in UNION Range(Sources)}
<1>1. j \in DOMAIN files /\ name \in DOMAIN file /\ decl.kind \in {"struct", "model"} /\ fields = decl.fields
  BY DEF PayloadType
<1>2. file \in UNION Range(Sources)
  <2>1. file \in Sources[j]
    BY <1>1 DEF Inv, FilesOK
  <2>2. Len(files) \in Nat /\ DOMAIN files = 1..Len(files)
    BY SequenceFacts DEF Inv, FilesOK
  <2>3. Len(Sources) \in Nat /\ DOMAIN Sources = 1..Len(Sources)
    BY SourcesAssumption
  <2>4. j \in DOMAIN Sources
    BY <1>1, <2>2, <2>3 DEF Inv, FilesOK
  <2>5. QED
    BY <2>1, <2>4 DEF Range
<1>3. decl \in Range(file)
  BY <1>1 DEF Range
<1>4. decl \in declared
  BY <1>2, <1>3
<1>5. fields[k] \in Range(decl.fields)
  BY <1>1 DEF Range
<1>6. FieldNames = UNION {{f.name : f \in Range(d.fields)} :
                             d \in {e \in declared : e.kind \in {"struct", "model"}}}
  BY DEF FieldNames
<1> HIDE DEF decl, declared
<1>7. QED
  BY <1>1, <1>4, <1>5, <1>6

\* The parameters of a payload type: one for each field.
LEMMA ParametersOf ==
    ASSUME NEW fs, IsProject(fs), Unique(fs), NEW j, NEW name, NEW fields,
           PayloadType(fs, j, name, fields), NEW location
    PROVE  field_parameters(fs, location, name) =
              [k \in DOMAIN fields |-> field_parameter(location, fields[k])]
BY PayloadFields DEF field_parameters

\* What a request sends under its documented names is a payload.
LEMMA AskedPayload ==
    ASSUME Inv, UniqueNames, Carried, request # NoRequest,
           NEW j, NEW name, NEW fields, PayloadType(files, j, name, fields),
           NEW location, NEW sent \in Sent,
           DOMAIN sent \subseteq Range(NamesOf(field_parameters(files, location, name))),
           ScalarFields(name)
    PROVE  Payload(files, location, fields, sent)
<1> DEFINE decl == files[j][name]
<1>1. /\ IsProject(files) /\ Unique(files) /\ schemas = from_modules(files)
      /\ AllCarried(files)
  BY Served, ServedCarried
<1>2. j \in DOMAIN files /\ name \in DOMAIN files[j] /\ decl.kind \in {"struct", "model"} /\ fields = decl.fields
  BY DEF PayloadType
<1>3. decl \in Declarations
  BY <1>1, <1>2 DEF IsProject, IsSourceFile
<1>4. /\ DOMAIN fields \subseteq Nat
      /\ \A k \in DOMAIN fields : fields[k].type \in TypeExprs /\ fields[k].rules \in Seq(Rules)
  <2> HIDE DEF decl
  <2>1. QED
    BY <1>2, <1>3, Declared
<1>5. \A k, m \in DOMAIN fields : fields[k].name = fields[m].name => k = m
  BY <1>1, <1>2, DistinctFields
<1>6. ASSUME NEW k \in DOMAIN fields
      PROVE  CarriedType(files, fields[k].type) /\ Scalar(files, fields[k].type)
  <2> DEFINE type == fields[k].type
  <2>1. fields[k] \in Range(fields)
    BY DEF Range
  <2>2. type \in TypesOf(decl)
    BY <1>2, <2>1 DEF TypesOf
  <2>3. Len(type.path) = 1 /\ type.path[1] \in Primitives \cup DOMAIN files[j]
    BY <1>1, <1>2, <2>2 DEF AllCarried
  <2>4. CarriedType(files, type)
    BY <1>2, <2>3 DEF CarriedType
  <2>5. type.path[1] \in NamesIn(type)
    BY <2>3 DEF NamesIn
  <2>6. fields[k] \in Range(payload_fields(schemas, name))
    BY <1>1, <2>1, PayloadFields
  <2>7. type.shape \in {<< >>, <<"option">>} /\ primitive_root(schemas, type.path[1]) # "none"
    BY <2>5, <2>6 DEF ScalarFields
  <2>8. Scalar(files, type)
    BY <1>1, <2>7 DEF Scalar, RootOf, primitive_root
  <2>9. QED
    BY <2>4, <2>8
<1>7. DOMAIN sent \subseteq {field_parameter(location, fields[k]).name : k \in DOMAIN fields}
  <2> DEFINE parameters == field_parameters(files, location, name)
  <2>1. parameters = [k \in DOMAIN fields |-> field_parameter(location, fields[k])]
    BY <1>1, ParametersOf
  <2>2. Range(NamesOf(parameters)) = {parameters[k].name : k \in DOMAIN parameters}
    BY DEF Range, NamesOf
  <2> HIDE DEF parameters
  <2>3. Range(NamesOf(parameters)) = {field_parameter(location, fields[k]).name : k \in DOMAIN fields}
    BY <2>1, <2>2
  <2>4. QED
    BY <2>3 DEF parameters
<1>8. \A n \in DOMAIN sent : IsText(sent[n])
  BY InputsAssumption
<1>9. \A k \in DOMAIN fields : fields[k].name \in FieldNames
  BY SourceField
<1>10. QED
  BY <1>4, <1>5, <1>6, <1>7, <1>8, <1>9 DEF Payload

\* What was sent conforms to the parameters of the document.
LEMMA SentConforms ==
    ASSUME Inv, UniqueNames, request # NoRequest,
           NEW j, NEW name, NEW fields, PayloadType(files, j, name, fields),
           \A n \in DOMAIN request.sent : IsText(request.sent[n])
    PROVE  SentAsDocumented(field_parameters(files, request.kind, name)) <=>
              Conforms(components, request.kind, fields, request.sent)
<1> DEFINE parameters == field_parameters(files, request.kind, name)
           parameter(k) == field_parameter(request.kind, fields[k])
           sent == request.sent
<1>1. parameters = [k \in DOMAIN fields |-> parameter(k)]
  BY Served, ParametersOf
<1>2. ASSUME NEW k \in DOMAIN fields, parameter(k).name \in DOMAIN sent
      PROVE  TextConforms(parameter(k).schema, sent[parameter(k).name]) <=>
             \E v \in Readings(sent[parameter(k).name]) :
                admitted_within(components, Json)[Depth][field_schema(fields[k])][v]
  <2> DEFINE text == sent[parameter(k).name]
             schema == field_schema(fields[k])
  <2>1. parameter(k).schema = schema
    BY DEF field_parameter
  <2>2. IsText(text)
    BY <1>2
  <2> HIDE DEF text, schema, parameter
  <2>3. \A v \in Readings(text) : Json \cup {v} = Json
    BY <2>2, ReadingIs
  <2>4. \A v \in Readings(text) :
           Admits(components, schema, v) <=> admitted_within(components, Json)[Depth][schema][v]
    BY <2>3 DEF Admits
  <2>5. QED
    BY <2>1, <2>4 DEF TextConforms, text, schema
<1>3. SentAsDocumented(parameters) <=>
         \A k \in DOMAIN fields :
            IF parameter(k).name \in DOMAIN sent
            THEN TextConforms(parameter(k).schema, sent[parameter(k).name])
            ELSE ~parameter(k).required
  <2> HIDE DEF parameters, parameter
  <2>1. QED
    BY <1>1 DEF SentAsDocumented
<1>4. Conforms(components, request.kind, fields, sent) <=>
         \A k \in DOMAIN fields :
            IF parameter(k).name \in DOMAIN sent
            THEN \E v \in Readings(sent[parameter(k).name]) :
                    admitted_within(components, Json)[Depth][field_schema(fields[k])][v]
            ELSE ~parameter(k).required
  BY DEF Conforms
<1> HIDE DEF parameters, parameter
<1>5. QED
  BY <1>2, <1>3, <1>4 DEF parameters

\* What the invariant says of a query, of headers or of cookies.
LEMMA InvParameters == Inv => ParametersFollowTheDocument
<1> SUFFICES ASSUME Inv, request.kind \in Locations, UniqueNames, Carried,
                    DOMAIN request.sent \subseteq Range(NamesOf(Parameters)),
                    ScalarFields(request.type.path[1])
             PROVE  /\ request.reply.outcome = Valid =>
                          SentAsDocumented(Parameters) /\ Documented(request.type, request.reply.value)
                    /\ SentAsDocumented(Parameters) => request.reply.outcome # Refused
  BY DEF ParametersFollowTheDocument
<1>1. request # NoRequest /\ request.sent \in Sent
  BY AskedFields
<1>2. PICK j, name, fields :
         /\ PayloadType(files, j, name, fields)
         /\ request.type = Named(name)
         /\ request.reply = decode_fields(schemas, request.kind, name, request.sent)
  BY AskedFields
<1>3. request.type.path[1] = name /\ Parameters = field_parameters(files, request.kind, name)
  BY <1>2 DEF Named, Parameters
<1>4. /\ IsProject(files) /\ Unique(files) /\ AllCarried(files)
      /\ schemas = from_modules(files) /\ components = component_schemas(files)
  BY <1>1, Served, ServedCarried
<1>5. Payload(files, request.kind, fields, request.sent)
  BY <1>1, <1>2, <1>3, AskedPayload
<1>6. SentAsDocumented(Parameters) <=> Conforms(components, request.kind, fields, request.sent)
  <2>1. \A n \in DOMAIN request.sent : IsText(request.sent[n])
    BY <1>5 DEF Payload
  <2>2. QED
    BY <1>1, <1>2, <1>3, <2>1, SentConforms
<1>7. ASSUME request.reply.outcome = Valid
      PROVE  SentAsDocumented(Parameters) /\ Documented(request.type, request.reply.value)
  <2>1. /\ Conforms(component_schemas(files), request.kind, fields, request.sent)
        /\ Admits(component_schemas(files), type_schema(Named(name)), request.reply.value)
    BY <1>2, <1>4, <1>5, <1>7, DecodedConforms
  <2>2. QED
    BY <1>2, <1>4, <1>6, <2>1 DEF Documented
<1>8. ASSUME SentAsDocumented(Parameters) PROVE request.reply.outcome # Refused
  <2>1. Conforms(component_schemas(files), request.kind, fields, request.sent)
    BY <1>4, <1>6, <1>8
  <2>2. QED
    BY <1>2, <1>4, <1>5, <2>1, ConformingDecoded
<1>9. QED
  BY <1>7, <1>8

\* A request that sends parameters under their documented names alone is let
\* through only if they conform, and is not refused if they do.
THEOREM ConformingParameters == Spec => []ParametersFollowTheDocument
BY InvAlways, InvParameters, PTL

-----------------------------------------------------------------------------
(***************************************************************************)
(* The recursion of the runtime ends where there is no circle of aliases.  *)
(***************************************************************************)

\* A check that ends in an overflow has one that does.
LEMMA FirstOverflow ==
    ASSUME NEW outcomes, DOMAIN outcomes \subseteq Nat, FirstFailure(outcomes) = Overflow
    PROVE  \E i \in DOMAIN outcomes : outcomes[i] = Overflow
<1> DEFINE good == {Valid} \cup {outcomes[i] : i \in DOMAIN outcomes}
<1>1. FirstFailure(outcomes) \in good
  <2> DEFINE G == good
  <2>1. Valid \in G /\ \A i \in DOMAIN outcomes : outcomes[i] \in G
    OBVIOUS
  <2> HIDE DEF G
  <2>2. FirstFailure(outcomes) \in G
    BY <2>1, AllGood
  <2>3. QED
    BY <2>2 DEF G
<1>2. QED
  BY <1>1 DEF Valid, Overflow

\* The rules of an alias do not overflow.
LEMMA AliasOverflow ==
    ASSUME NEW outcome, NEW rules, NEW v,
           FirstFailure(<<outcome, validate_rules(rules, v)>>) = Overflow
    PROVE  outcome = Overflow
<1> DEFINE checks == <<outcome, validate_rules(rules, v)>>
<1>1. DOMAIN checks = 1..2 /\ checks[1] = outcome /\ checks[2] = validate_rules(rules, v)
  OBVIOUS
<1>2. validate_rules(rules, v) # Overflow
  BY DEF validate_rules, Valid, Refused, Overflow
<1>3. PICK i \in DOMAIN checks : checks[i] = Overflow
  <2>1. DOMAIN checks \subseteq Nat /\ FirstFailure(checks) = Overflow
    BY <1>1
  <2> HIDE DEF checks
  <2>2. QED
    BY <2>1, FirstOverflow
<1>4. QED
  BY <1>1, <1>2, <1>3

\* A type with no more around its name than wrappers.
Fits(type, wrappers) == type \in TypeExprs /\ Len(type.shape) <= wrappers

\* The types in the tables of the runtime are such.
Tabled(s, wrappers) ==
    /\ \A a \in DOMAIN s["alias"] : Fits(s["alias"][a].type, wrappers)
    /\ \A kind \in {"struct", "model"} : \A n \in DOMAIN s[kind] :
          /\ DOMAIN s[kind][n].fields \subseteq Nat
          /\ \A k \in DOMAIN s[kind][n].fields : Fits(s[kind][n].fields[k].type, wrappers)

\* With e calls to go, what v is made of is validated to an end.
PartsEnd(s, values, wrappers, v, e) ==
    \A part \in PartsOf(v), type \in TypeExprs, d \in e..Depth :
        Fits(type, wrappers) => outcome_within(s, values)[d][type][part] # Overflow

\* Then no object overflows in its members.
LEMMA MembersEnd ==
    ASSUME NEW s, NEW values, NEW wrappers, NEW v \in values, NEW e \in Nat,
           PartsEnd(s, values, wrappers, v, e), NEW d \in e..Depth,
           NEW fields, DOMAIN fields \subseteq Nat,
           \A k \in DOMAIN fields : Fits(fields[k].type, wrappers)
    PROVE  /\ validate_struct_fields(fields, v, outcome_within(s, values)[d]) # Overflow
           /\ validate_model_fields_as(fields, v, outcome_within(s, values)[d]) # Overflow
<1> DEFINE below == outcome_within(s, values)[d]
<1>1. ASSUME v.k = "object", NEW k \in DOMAIN fields
      PROVE  /\ field_outcome(fields[k], v, below) # Overflow
             /\ struct_field_outcome(fields[k], v, below) # Overflow
  <2> DEFINE type == fields[k].type
             member == v.members[fields[k].name]
  <2>1. type \in TypeExprs /\ Fits(type, wrappers)
    BY DEF Fits
  <2>2. fields[k].name \in DOMAIN v.members => below[type][member] # Overflow
    <3>1. fields[k].name \in DOMAIN v.members => member \in PartsOf(v)
      BY <1>1 DEF PartsOf, Range
    <3> HIDE DEF member, type
    <3>2. QED
      BY <2>1, <3>1 DEF PartsEnd
  <2>3. field_outcome(fields[k], v, below) # Overflow
    <3> HIDE DEF below
    <3>1. QED
      BY <2>2 DEF field_outcome, Valid, Refused, Overflow
  <2>4. validate_field_rules(fields[k], member) # Overflow
    BY DEF validate_field_rules, validate_rules, Valid, Refused, Overflow
  <2>5. QED
    BY <2>3, <2>4 DEF struct_field_outcome
<1> HIDE DEF below
<1>2. validate_struct_fields(fields, v, below) # Overflow
  <2> DEFINE checks == [i \in DOMAIN fields |-> struct_field_outcome(fields[i], v, below)]
  <2>1. v.k = "object" => \A i \in DOMAIN checks : checks[i] # Overflow
    BY <1>1
  <2>2. DOMAIN checks \subseteq Nat
    OBVIOUS
  <2>3. v.k = "object" => FirstFailure(checks) # Overflow
    <3> HIDE DEF checks
    <3>1. QED
      BY <2>1, <2>2, FirstOverflow
  <2>4. QED
    BY <2>3 DEF validate_struct_fields, Refused, Overflow
<1>3. validate_model_fields_as(fields, v, below) # Overflow
  <2> DEFINE checks == [i \in DOMAIN fields |-> field_outcome(fields[i], v, below)]
  <2>1. v.k = "object" => \A i \in DOMAIN checks : checks[i] # Overflow
    BY <1>1
  <2>2. DOMAIN checks \subseteq Nat
    OBVIOUS
  <2>3. v.k = "object" => FirstFailure(checks) # Overflow
    <3> HIDE DEF checks
    <3>1. QED
      BY <2>1, <2>2, FirstOverflow
  <2>4. QED
    BY <2>3 DEF validate_model_fields_as, Refused, Overflow
<1>4. QED
  BY <1>2, <1>3 DEF below

\* What overflows is then an option around what does, or an alias.
LEMMA OverflowStep ==
    ASSUME NEW s, NEW values, Closed(values), NEW wrappers \in Nat, Tabled(s, wrappers),
           NEW v \in values, NEW e \in Nat, PartsEnd(s, values, wrappers, v, e),
           NEW d \in e + 1..Depth, NEW type \in TypeExprs, Fits(type, wrappers),
           outcome_within(s, values)[d][type][v] = Overflow
    PROVE  \/ /\ type.shape # << >> /\ type_expr_is_optional(type)
              /\ outcome_within(s, values)[d - 1][inner(type)][v] = Overflow
           \/ /\ type.shape = << >> /\ Len(type.path) = 1
              /\ type.path[1] \in DOMAIN s["alias"]
              /\ outcome_within(s, values)[d - 1][s["alias"][type.path[1]].type][v] = Overflow
<1> DEFINE below == outcome_within(s, values)[d - 1]
           name == type.path[1]
<1>0. Depth \in Nat /\ d \in 1..Depth /\ d - 1 \in e..Depth
  BY DepthAssumption
<1>1. validate_type_expr_as(s, type, v, below) = Overflow
  <2>1. outcome_within(s, values)[d][type][v] = validate_type_expr_as(s, type, v, below)
    BY <1>0, OutcomeSteps, ZenonT(60)
  <2>2. QED
    BY <2>1
<1>2. CASE type.shape = << >>
  <2>1. Len(type.path) = 1 /\ validate_value_as(s, name, v, below) = Overflow
    <3> HIDE DEF below
    <3>1. QED
      BY <1>1, <1>2 DEF validate_type_expr_as, Valid, Overflow
  <2>2. CASE name \in DOMAIN s["alias"]
    <3>1. FirstFailure(<<below[s["alias"][name].type][v],
                         validate_rules(s["alias"][name].rules, v)>>) = Overflow
      <4> HIDE DEF below, name
      <4>1. QED
        BY <2>1, <2>2 DEF validate_value_as
    <3>2. below[s["alias"][name].type][v] = Overflow
      <4> HIDE DEF below, name
      <4>1. QED
        BY <3>1, AliasOverflow
    <3>3. QED
      BY <1>2, <2>1, <2>2, <3>2
  <2>3. CASE name \notin DOMAIN s["alias"]
    <3>1. name \in DOMAIN s["struct"] => validate_struct_fields(s["struct"][name].fields, v, below) # Overflow
      <4> HIDE DEF name
      <4>1. QED
        BY <1>0, MembersEnd DEF Tabled
    <3>2. name \in DOMAIN s["model"] => validate_model_fields_as(s["model"][name].fields, v, below) # Overflow
      <4> HIDE DEF name
      <4>1. QED
        BY <1>0, MembersEnd DEF Tabled
    <3> HIDE DEF below, name
    <3>3. validate_value_as(s, name, v, below) # Overflow
      BY <2>3, <3>1, <3>2 DEF validate_value_as, Valid, Refused, Overflow
    <3>4. QED
      BY <2>1, <3>3
  <2>4. QED
    BY <2>2, <2>3
<1>3. CASE type.shape # << >> /\ type_expr_is_optional(type)
  <2>1. below[inner(type)][v] = Overflow
    <3> HIDE DEF below
    <3>1. QED
      BY <1>1, <1>3 DEF validate_type_expr_as, Valid, Overflow
  <2>2. QED
    BY <1>3, <2>1
<1>4. CASE type.shape # << >> /\ ~type_expr_is_optional(type)
  <2> DEFINE checks == [i \in DOMAIN v.items |-> below[inner(type)][v.items[i]]]
  <2>1. v.k = "array" /\ FirstFailure(checks) = Overflow
    <3> HIDE DEF below
    <3>1. QED
      BY <1>1, <1>4 DEF validate_type_expr_as, Refused, Overflow
  <2>2. DOMAIN checks \subseteq Nat
    BY <2>1, ClosedParts
  <2>3. PICK i \in DOMAIN checks : checks[i] = Overflow
    <3> HIDE DEF checks
    <3>1. QED
      BY <2>1, <2>2, FirstOverflow
  <2>4. v.items[i] \in PartsOf(v) /\ below[inner(type)][v.items[i]] = Overflow
    BY <2>1, <2>3 DEF PartsOf, Range
  <2>5. inner(type) \in TypeExprs /\ Fits(inner(type), wrappers)
    <3>1. inner(type) \in TypeExprs
      BY <1>4, InnerType
    <3>2. type.shape \in Seq({"option", "list"})
      BY DEF TypeExprs
    <3>3. Len(inner(type).shape) <= Len(type.shape)
      BY <1>4, <3>2 DEF inner
    <3>4. Len(inner(type).shape) \in Nat /\ Len(type.shape) \in Nat
      BY <3>1, <3>2 DEF TypeExprs
    <3>5. QED
      BY <3>1, <3>3, <3>4 DEF Fits
  <2>6. QED
    BY <1>0, <2>4, <2>5 DEF PartsEnd
<1>5. QED
  BY <1>2, <1>3, <1>4

\* An alias of type type is a link to another one, whose type overflows with
\* low calls to go or more.
Links(s, values, v, type, low) ==
    /\ bare_name(type) /\ type.path[1] \in DOMAIN s["alias"]
    /\ \E d \in low..Depth : outcome_within(s, values)[d][s["alias"][type.path[1]].type][v] = Overflow

\* Nothing around a name but options is looked through.
LEMMA Unwrapped ==
    ASSUME NEW s, NEW values, Closed(values), NEW wrappers \in Nat, Tabled(s, wrappers),
           NEW v \in values, NEW e \in Nat, PartsEnd(s, values, wrappers, v, e),
           NEW type \in TypeExprs, Fits(type, wrappers), NEW d \in e + wrappers + 1..Depth,
           outcome_within(s, values)[d][type][v] = Overflow
    PROVE  Links(s, values, v, type, d - (wrappers + 1))
<1> DEFINE A == outcome_within(s, values)
           LinksAt(t, m) == \A c \in e + m + 1..Depth : A[c][t][v] = Overflow => Links(s, values, v, t, c - (m + 1))
           T == {m \in 0..wrappers : \A t \in TypeExprs : Len(t.shape) = m => LinksAt(t, m)}
<1>0. Depth \in Nat
  BY DepthAssumption
<1>1. ASSUME NEW t \in TypeExprs
      PROVE  /\ Len(t.shape) \in Nat /\ (Len(t.shape) = 0 <=> t.shape = << >>)
             /\ t.shape # << >> => Len(inner(t).shape) = Len(t.shape) - 1
  <2>1. t.shape \in Seq({"option", "list"})
    BY DEF TypeExprs
  <2>2. QED
    BY <2>1 DEF inner
<1>2. ASSUME NEW t \in TypeExprs, Len(t.shape) <= wrappers, NEW c \in e + 1..Depth, A[c][t][v] = Overflow
      PROVE  \/ t.shape # << >> /\ type_expr_is_optional(t) /\ A[c - 1][inner(t)][v] = Overflow
             \/ /\ t.shape = << >> /\ Len(t.path) = 1 /\ t.path[1] \in DOMAIN s["alias"]
                /\ A[c - 1][s["alias"][t.path[1]].type][v] = Overflow
  <2>1. Fits(t, wrappers) /\ outcome_within(s, values)[c][t][v] = Overflow
    BY <1>2 DEF Fits
  <2>2. QED
    BY <2>1, OverflowStep
<1> HIDE DEF A
<1>3. 0 \in T
  <2> SUFFICES ASSUME NEW t \in TypeExprs, Len(t.shape) = 0, NEW c \in e + 0 + 1..Depth, A[c][t][v] = Overflow
               PROVE  Links(s, values, v, t, c - (0 + 1))
    OBVIOUS
  <2>1. t.shape = << >> /\ c \in e + 1..Depth
    BY <1>1
  <2>2. /\ Len(t.path) = 1 /\ t.path[1] \in DOMAIN s["alias"]
        /\ A[c - 1][s["alias"][t.path[1]].type][v] = Overflow
    BY <1>2, <2>1
  <2>3. bare_name(t)
    BY <2>1, <2>2 DEF bare_name, Range
  <2>4. c - 1 \in c - (0 + 1)..Depth
    BY <1>0
  <2>5. QED
    BY <2>2, <2>3, <2>4 DEF Links, A
<1>4. ASSUME NEW m \in 1..wrappers, m - 1 \in T PROVE m \in T
  <2> SUFFICES ASSUME NEW t \in TypeExprs, Len(t.shape) = m, NEW c \in e + m + 1..Depth, A[c][t][v] = Overflow
               PROVE  Links(s, values, v, t, c - (m + 1))
    OBVIOUS
  <2>1. t.shape # << >> /\ c \in e + 1..Depth /\ c - 1 \in e + (m - 1) + 1..Depth /\ Len(t.shape) <= wrappers
    BY <1>0, <1>1
  <2>2. type_expr_is_optional(t) /\ A[c - 1][inner(t)][v] = Overflow
    BY <1>2, <2>1
  <2>3. /\ inner(t) \in TypeExprs /\ Len(inner(t).shape) = m - 1
        /\ inner(t).path = t.path
    BY <1>1, <2>1, InnerType
  <2>4. LinksAt(inner(t), m - 1)
    BY <1>4, <2>3
  <2>5. Links(s, values, v, inner(t), (c - 1) - ((m - 1) + 1))
    BY <2>1, <2>2, <2>4
  <2>6. (c - 1) - ((m - 1) + 1) = c - (m + 1)
    BY <2>1
  <2>7. bare_name(inner(t)) => bare_name(t)
    <3>1. t.shape \in Seq({"option", "list"})
      BY DEF TypeExprs
    <3>2. t.shape[1] = "option"
      BY <2>2, <3>1 DEF type_expr_is_optional
    <3>3. ASSUME Range(Tail(t.shape)) \subseteq {"option"}, NEW k \in DOMAIN t.shape
          PROVE  t.shape[k] = "option"
      <4>1. k = 1 \/ (k - 1 \in DOMAIN Tail(t.shape) /\ Tail(t.shape)[k - 1] = t.shape[k])
        BY <2>1, <3>1
      <4>2. QED
        BY <3>2, <3>3, <4>1 DEF Range
    <3>4. QED
      BY <2>3, <3>3 DEF bare_name, inner, Range
  <2>8. QED
    BY <2>3, <2>5, <2>6, <2>7 DEF Links
<1>5. T = 0..wrappers
  <2> HIDE DEF T
  <2>1. T \subseteq 0..wrappers
    BY DEF T
  <2>2. QED
    BY <1>3, <1>4, <2>1, UpTo
<1>6. PICK m \in 0..wrappers : Len(type.shape) = m
  BY <1>1 DEF Fits
<1>7. LinksAt(type, m)
  BY <1>5, <1>6
<1>8. Links(s, values, v, type, d - (m + 1))
  <2>1. d \in e + m + 1..Depth /\ A[d][type][v] = Overflow
    BY <1>0 DEF A
  <2>2. QED
    BY <1>7, <2>1
<1>9. d - (m + 1) >= d - (wrappers + 1) /\ d \in Nat
  BY <1>0
<1>10. QED
  <2>1. ASSUME NEW c \in d - (m + 1)..Depth PROVE c \in d - (wrappers + 1)..Depth
    BY <1>0, <1>9
  <2>2. QED
    BY <1>8, <2>1 DEF Links

\* Of n + 1 sets, each within the one before it, the first of n elements or
\* fewer and the last of one, two that follow each other are the same.
LEMMA Shrinking ==
    ASSUME NEW S, IsFiniteSet(S), NEW n \in Nat, Cardinality(S) <= n,
           NEW B, \A i \in 0..n : B[i] \subseteq S, \A i \in 1..n : B[i] \subseteq B[i - 1],
           B[n] # {}
    PROVE  \E i \in 1..n : B[i] = B[i - 1]
<1> SUFFICES ASSUME \A i \in 1..n : B[i] # B[i - 1] PROVE FALSE
  OBVIOUS
<1>1. \A i \in 0..n : IsFiniteSet(B[i]) /\ Cardinality(B[i]) \in Nat /\ Cardinality(B[i]) <= Cardinality(S)
  BY FS_Subset, FS_CardinalityType
<1> DEFINE T == {i \in 0..n : Cardinality(B[i]) <= n - i}
<1>2. 0 \in T
  <2>1. Cardinality(S) \in Nat /\ Cardinality(B[0]) \in Nat /\ Cardinality(B[0]) <= Cardinality(S)
    BY <1>1, FS_CardinalityType
  <2>2. QED
    BY <2>1
<1>3. ASSUME NEW i \in 1..n, i - 1 \in T PROVE i \in T
  <2>1. /\ Cardinality(B[i]) \in Nat /\ Cardinality(B[i - 1]) \in Nat
        /\ IsFiniteSet(B[i - 1]) /\ B[i] \subseteq B[i - 1] /\ B[i] # B[i - 1]
    BY <1>1
  <2>2. Cardinality(B[i]) <= Cardinality(B[i - 1]) /\ Cardinality(B[i]) # Cardinality(B[i - 1])
    BY <2>1, FS_Subset
  <2>3. Cardinality(B[i - 1]) <= n - (i - 1)
    BY <1>3
  <2>4. Cardinality(B[i]) <= n - i
    BY <2>1, <2>2, <2>3
  <2>5. QED
    BY <2>4
<1>4. T = 0..n
  <2> HIDE DEF T
  <2>1. T \subseteq 0..n
    BY DEF T
  <2>2. QED
    BY <1>2, <1>3, <2>1, UpTo
<1>5. Cardinality(B[n]) <= 0
  <2>1. n \in T
    <3> HIDE DEF T
    <3>1. n \in 0..n
      OBVIOUS
    <3>2. QED
      BY <1>4, <3>1
  <2>2. Cardinality(B[n]) <= n - n
    BY <2>1
  <2>3. QED
    BY <2>2
<1>6. QED
  BY <1>1, <1>5, FS_EmptySet

\* Aliases that are looked through in a circle.
CircleIn(s) ==
    \E circle \in SUBSET DOMAIN s["alias"] :
        /\ circle # {}
        /\ \A a \in circle : bare_name(s["alias"][a].type) /\ s["alias"][a].type.path[1] \in circle

\* A chain of links that is longer than there are aliases has a circle.
LEMMA LongChain ==
    ASSUME NEW s, IsFiniteSet(DOMAIN s["alias"]), NEW n \in Nat, Cardinality(DOMAIN s["alias"]) <= n,
           NEW B, \A i \in 0..n : B[i] \subseteq DOMAIN s["alias"], \A i \in 1..n : B[i] \subseteq B[i - 1],
           B[n] # {},
           \A i \in 1..n : \A a \in B[i] :
               bare_name(s["alias"][a].type) /\ s["alias"][a].type.path[1] \in B[i - 1]
    PROVE  CircleIn(s)
<1>1. PICK i \in 1..n : B[i] = B[i - 1]
  BY Shrinking
<1> DEFINE T == {j \in 0..n : B[n] \subseteq B[n - j]}
<1>2. 0 \in T
  OBVIOUS
<1>3. ASSUME NEW j \in 1..n, j - 1 \in T PROVE j \in T
  <2>1. n - j + 1 \in 1..n /\ (n - j + 1) - 1 = n - j /\ n - (j - 1) = n - j + 1
    OBVIOUS
  <2>2. B[n] \subseteq B[n - j + 1] /\ B[n - j + 1] \subseteq B[n - j]
    BY <1>3, <2>1
  <2>3. QED
    BY <2>2
<1>4. T = 0..n
  <2> HIDE DEF T
  <2>1. T \subseteq 0..n
    BY DEF T
  <2>2. QED
    BY <1>2, <1>3, <2>1, UpTo
<1>5. B[n] \subseteq B[i]
  <2>1. n - i \in 0..n /\ n - (n - i) = i
    OBVIOUS
  <2>2. B[n] \subseteq B[n - (n - i)]
    BY <1>4, <2>1
  <2>3. QED
    BY <2>1, <2>2
<1>6. B[i] # {}
  BY <1>5
<1>7. QED
  BY <1>1, <1>6 DEF CircleIn

\* Where the parts of a value are validated to an end with e calls to go, it is
\* itself with as many more as aliases may need, if there is no circle of them.
LEMMA LevelEnds ==
    ASSUME NEW s, NEW values, Closed(values), NEW wrappers \in Nat, Tabled(s, wrappers),
           IsFiniteSet(DOMAIN s["alias"]), NEW n \in Nat, Cardinality(DOMAIN s["alias"]) <= n,
           ~CircleIn(s), NEW v \in values, NEW e \in Nat, PartsEnd(s, values, wrappers, v, e),
           NEW type \in TypeExprs, Fits(type, wrappers), NEW d \in e + (n + 1) * (wrappers + 1)..Depth
    PROVE  outcome_within(s, values)[d][type][v] # Overflow
<1> DEFINE A == outcome_within(s, values)
           w == wrappers + 1
           B == [i \in 0..n |-> {a \in DOMAIN s["alias"] :
                    \E c \in e + i * w..Depth : A[c][s["alias"][a].type][v] = Overflow}]
<1> SUFFICES ASSUME A[d][type][v] = Overflow
             PROVE  FALSE
  OBVIOUS
<1>1. /\ Depth \in Nat /\ w \in Nat /\ w = wrappers + 1 /\ w >= 1
      /\ \A i \in 0..n : i * w \in Nat
      /\ (n + 1) * w = n * w + w
      /\ \A i \in 1..n : i * w = (i - 1) * w + w
  BY DepthAssumption
<1>2. ASSUME NEW t \in TypeExprs, Fits(t, wrappers), NEW c \in e + w..Depth, A[c][t][v] = Overflow
      PROVE  Links(s, values, v, t, c - w)
  <2>1. c \in e + wrappers + 1..Depth
    <3>1. e + w = e + wrappers + 1
      OBVIOUS
    <3>2. QED
      BY <3>1
  <2>2. outcome_within(s, values)[c][t][v] = Overflow
    BY <1>2
  <2>3. Links(s, values, v, t, c - (wrappers + 1))
    BY <1>2, <2>1, <2>2, Unwrapped
  <2>4. QED
    BY <2>3
<1>3. ASSUME NEW i \in 0..n, NEW t \in TypeExprs, Fits(t, wrappers), NEW c \in e + i * w + w..Depth,
             A[c][t][v] = Overflow
      PROVE  bare_name(t) /\ t.path[1] \in B[i]
  <2>1. c \in e + w..Depth /\ e + i * w \in Nat /\ c - w \in e + i * w..Depth
    BY <1>1
  <2>2. Links(s, values, v, t, c - w)
    BY <1>2, <1>3, <2>1
  <2>3. PICK x \in c - w..Depth : A[x][s["alias"][t.path[1]].type][v] = Overflow
    BY <2>2 DEF Links
  <2>4. x \in e + i * w..Depth
    BY <1>1, <2>1
  <2>5. QED
    BY <2>2, <2>3, <2>4 DEF Links
<1> HIDE DEF A, w
<1>4. \A i \in 0..n : B[i] \subseteq DOMAIN s["alias"]
  OBVIOUS
<1>5. \A i \in 1..n : B[i] \subseteq B[i - 1]
  <2> SUFFICES ASSUME NEW i \in 1..n, NEW a \in B[i] PROVE a \in B[i - 1]
    OBVIOUS
  <2>1. PICK c \in e + i * w..Depth : A[c][s["alias"][a].type][v] = Overflow
    OBVIOUS
  <2>2. i - 1 \in 0..n /\ i \in 0..n /\ i * w = (i - 1) * w + w /\ i * w \in Nat /\ (i - 1) * w \in Nat
    <3> HIDE DEF B
    <3>1. i - 1 \in 0..n /\ i \in 0..n
      OBVIOUS
    <3>2. QED
      BY <1>1, <3>1, Zenon
  <2>3. c \in e + (i - 1) * w..Depth
    BY <1>1, <2>2
  <2>4. QED
    BY <2>1, <2>2, <2>3
<1>6. B[n] # {}
  <2>1. d \in e + n * w + w..Depth
    <3>1. e + (n + 1) * (wrappers + 1) = e + n * w + w
      BY <1>1
    <3>2. QED
      BY <3>1
  <2>2. type.path[1] \in B[n]
    <3> HIDE DEF B
    <3>1. QED
      BY <1>3, <2>1
  <2>3. QED
    BY <2>2
<1>7. \A i \in 1..n : \A a \in B[i] :
         bare_name(s["alias"][a].type) /\ s["alias"][a].type.path[1] \in B[i - 1]
  <2> SUFFICES ASSUME NEW i \in 1..n, NEW a \in B[i]
               PROVE  bare_name(s["alias"][a].type) /\ s["alias"][a].type.path[1] \in B[i - 1]
    OBVIOUS
  <2>1. PICK c \in e + i * w..Depth : A[c][s["alias"][a].type][v] = Overflow
    OBVIOUS
  <2>2. a \in DOMAIN s["alias"] /\ i - 1 \in 0..n
    OBVIOUS
  <2> HIDE DEF B
  <2>3. s["alias"][a].type \in TypeExprs /\ Fits(s["alias"][a].type, wrappers)
    BY <2>2 DEF Tabled, Fits
  <2>4. i * w = (i - 1) * w + w /\ (i - 1) * w \in Nat
    BY <1>1, <2>2
  <2>5. c \in e + (i - 1) * w + w..Depth
    BY <1>1, <2>4
  <2>6. QED
    BY <1>3, <2>1, <2>2, <2>3, <2>5
<1> HIDE DEF B
<1>8. CircleIn(s)
  BY <1>4, <1>5, <1>6, <1>7, LongChain
<1>9. QED
  BY <1>8

\* So every value is validated to an end by a stack that holds what its height needs.
LEMMA AllEnd ==
    ASSUME NEW s, NEW values, Closed(values), NEW wrappers \in Nat, Tabled(s, wrappers),
           IsFiniteSet(DOMAIN s["alias"]), NEW n \in Nat, Cardinality(DOMAIN s["alias"]) <= n,
           ~CircleIn(s), NEW top \in Nat, NEW rank \in [values -> 0..top],
           \A x \in values : \A part \in PartsOf(x) : part \in values /\ rank[part] < rank[x],
           Depth >= (top + 1) * ((n + 1) * (wrappers + 1)),
           NEW type \in TypeExprs, Fits(type, wrappers), NEW v \in values
    PROVE  outcome_within(s, values)[Depth][type][v] # Overflow
<1> DEFINE w == (n + 1) * (wrappers + 1)
           Ends(x, e) == \A t \in TypeExprs, d \in e..Depth :
                            Fits(t, wrappers) => outcome_within(s, values)[d][t][x] # Overflow
           T == {h \in 0..top : \A x \in values : rank[x] <= h => Ends(x, (h + 1) * w)}
<1>1. Depth \in Nat /\ w \in Nat /\ \A h \in Nat : h * w \in Nat /\ (h + 1) * w = h * w + w
  BY DepthAssumption
<1>2. ASSUME NEW x \in values, NEW e \in Nat, PartsEnd(s, values, wrappers, x, e)
      PROVE  Ends(x, e + w)
  <2> SUFFICES ASSUME NEW t \in TypeExprs, NEW d \in e + (n + 1) * (wrappers + 1)..Depth, Fits(t, wrappers)
               PROVE  outcome_within(s, values)[d][t][x] # Overflow
    OBVIOUS
  <2>1. QED
    BY <1>2, LevelEnds
<1> HIDE DEF w
<1>3. 0 \in T
  <2> SUFFICES ASSUME NEW x \in values, rank[x] <= 0 PROVE Ends(x, (0 + 1) * w)
    OBVIOUS
  <2>1. PartsOf(x) = {}
    <3>1. \A part \in PartsOf(x) : rank[part] \in 0..top /\ rank[part] < rank[x] /\ rank[x] \in 0..top
      OBVIOUS
    <3>2. QED
      BY <3>1
  <2>2. PartsEnd(s, values, wrappers, x, 0)
    BY <2>1 DEF PartsEnd
  <2>3. (0 + 1) * w = 0 + w
    BY <1>1
  <2> HIDE DEF Ends
  <2>4. QED
    BY <1>2, <2>2, <2>3
<1>4. ASSUME NEW h \in 1..top, h - 1 \in T PROVE h \in T
  <2> SUFFICES ASSUME NEW x \in values, rank[x] <= h PROVE Ends(x, (h + 1) * w)
    OBVIOUS
  <2>1. h \in Nat /\ h * w \in Nat /\ (h - 1) + 1 = h
    BY <1>1
  <2>2. ASSUME NEW part \in PartsOf(x) PROVE Ends(part, h * w)
    <3>1. part \in values /\ rank[part] \in 0..top /\ rank[x] \in 0..top /\ rank[part] <= h - 1
      OBVIOUS
    <3> HIDE DEF Ends
    <3>2. Ends(part, ((h - 1) + 1) * w)
      BY <1>4, <3>1
    <3>3. QED
      BY <2>1, <3>2
  <2>3. PartsEnd(s, values, wrappers, x, h * w)
    BY <2>2 DEF PartsEnd
  <2>4. (h + 1) * w = h * w + w
    BY <1>1, <2>1
  <2> HIDE DEF Ends
  <2>5. Ends(x, h * w + w)
    BY <1>2, <2>1, <2>3
  <2>6. QED
    BY <2>4, <2>5
<1>5. T = 0..top
  <2> HIDE DEF T
  <2>1. T \subseteq 0..top
    BY DEF T
  <2>2. QED
    BY <1>3, <1>4, <2>1, UpTo
<1>6. Ends(v, (top + 1) * w)
  <2>1. top \in T /\ rank[v] <= top
    BY <1>5
  <2> HIDE DEF Ends
  <2>2. QED
    BY <2>1
<1>7. Depth \in (top + 1) * w..Depth
  <2>1. (top + 1) * w \in Nat /\ Depth >= (top + 1) * w
    BY <1>1 DEF w
  <2>2. QED
    BY <1>1, <2>1
<1>8. QED
  BY <1>6, <1>7

\* The walk to a root that overflows has a circle, too.
LEMMA RootCircle ==
    ASSUME NEW s, NEW wrappers, Tabled(s, wrappers), DOMAIN s["alias"] \subseteq STRING,
           IsFiniteSet(DOMAIN s["alias"]), NEW n \in Nat, Cardinality(DOMAIN s["alias"]) <= n,
           n < Depth, NEW name \in STRING, primitive_root(s, name) = "overflow"
    PROVE  CircleIn(s)
<1> DEFINE R == root_within(s)
           B == [i \in 0..n |-> {a \in DOMAIN s["alias"] : \E d \in i + 1..Depth : R[d][a] = "overflow"}]
<1>1. Depth \in Nat /\ \A x \in Primitives : x # "overflow"
  BY DepthAssumption DEF Primitives
<1>2. ASSUME NEW a \in STRING, NEW d \in 1..Depth, R[d][a] = "overflow"
      PROVE  /\ a \in DOMAIN s["alias"] /\ bare_name(s["alias"][a].type)
             /\ s["alias"][a].type.path[1] \in STRING
             /\ R[d - 1][s["alias"][a].type.path[1]] = "overflow"
  <2>1. R[d][a] = IF a \in Primitives THEN a
                  ELSE IF /\ a \in DOMAIN s["alias"]
                          /\ s["alias"][a].type.shape = << >> /\ Len(s["alias"][a].type.path) = 1
                  THEN R[d - 1][s["alias"][a].type.path[1]] ELSE "none"
    BY RootStep
  <2> HIDE DEF R
  <2>2. /\ a \in DOMAIN s["alias"]
        /\ s["alias"][a].type.shape = << >> /\ Len(s["alias"][a].type.path) = 1
        /\ R[d - 1][s["alias"][a].type.path[1]] = "overflow"
    BY <1>1, <1>2, <2>1
  <2>3. s["alias"][a].type \in TypeExprs
    BY <2>2 DEF Tabled, Fits
  <2>4. s["alias"][a].type.path[1] \in STRING
    BY <2>3, InnerType
  <2>5. bare_name(s["alias"][a].type)
    BY <2>2 DEF bare_name, Range
  <2>6. QED
    BY <2>2, <2>4, <2>5
<1> HIDE DEF R
<1>3. \A i \in 0..n : B[i] \subseteq DOMAIN s["alias"]
  OBVIOUS
<1>4. \A i \in 1..n : B[i] \subseteq B[i - 1]
  <2> SUFFICES ASSUME NEW i \in 1..n, NEW a \in B[i] PROVE a \in B[i - 1]
    OBVIOUS
  <2>1. PICK d \in i + 1..Depth : R[d][a] = "overflow"
    OBVIOUS
  <2>2. i - 1 \in 0..n /\ d \in (i - 1) + 1..Depth
    BY <1>1
  <2>3. QED
    BY <2>1, <2>2
<1>5. B[n] # {}
  <2>1. R[Depth][name] = "overflow" /\ Depth \in 1..Depth /\ Depth \in n + 1..Depth
    BY <1>1 DEF primitive_root, R
  <2>2. name \in DOMAIN s["alias"]
    BY <1>2, <2>1
  <2>3. name \in B[n]
    BY <2>1, <2>2
  <2>4. QED
    BY <2>3
<1>6. \A i \in 1..n : \A a \in B[i] :
         bare_name(s["alias"][a].type) /\ s["alias"][a].type.path[1] \in B[i - 1]
  <2> SUFFICES ASSUME NEW i \in 1..n, NEW a \in B[i]
               PROVE  bare_name(s["alias"][a].type) /\ s["alias"][a].type.path[1] \in B[i - 1]
    OBVIOUS
  <2>1. PICK d \in i + 1..Depth : R[d][a] = "overflow"
    OBVIOUS
  <2>2. a \in STRING /\ d \in 1..Depth /\ i - 1 \in 0..n /\ d - 1 \in (i - 1) + 1..Depth /\ d - 1 \in 1..Depth
    BY <1>1
  <2> DEFINE next == s["alias"][a].type.path[1]
  <2>3. bare_name(s["alias"][a].type) /\ next \in STRING /\ R[d - 1][next] = "overflow"
    BY <1>2, <2>1, <2>2
  <2>4. next \in DOMAIN s["alias"]
    BY <1>2, <2>2, <2>3
  <2>5. QED
    BY <2>2, <2>3, <2>4
<1> HIDE DEF B
<1>7. QED
  BY <1>3, <1>4, <1>5, <1>6, LongChain

\* The greatest of some numbers up to a bound is one of them.
LEMMA GreatestIs ==
    ASSUME NEW n \in Nat, NEW S, S \subseteq 1..n, S # {}
    PROVE  Greatest(S) \in S
<1> DEFINE D == {n - i : i \in S}
<1>1. D \subseteq Nat /\ D # {}
  <2>1. PICK i \in S : TRUE
    OBVIOUS
  <2>2. n - i \in D
    OBVIOUS
  <2>3. \A j \in S : n - j \in Nat
    OBVIOUS
  <2>4. QED
    BY <2>2, <2>3
<1>2. \E m \in D : \A d \in D : m <= d
  <2> HIDE DEF D
  <2>1. QED
    BY <1>1, NatMin
<1>3. PICK i \in S : \A j \in S : n - i <= n - j
  BY <1>2
<1>4. \A j \in S : i \in 1..n /\ j \in 1..n /\ j <= i
  BY <1>3
<1>5. QED
  BY <1>4 DEF Greatest

\* What the tables of a served project have for a name is declared in a file of it.
LEMMA TableEntry ==
    ASSUME Inv, request # NoRequest, NEW kind \in {"alias", "struct", "model"},
           NEW n \in DOMAIN schemas[kind]
    PROVE  \E file \in UNION Range(Sources) :
              /\ IsSourceFile(file) /\ n \in DOMAIN file /\ file[n].kind = kind
              /\ schemas[kind][n] = file[n]
<1> DEFINE S == DeclaringFiles(files, kind, n)
<1>1. schemas = from_modules(files)
  BY DEF Inv, RequestOK, TablesOK
<1>2. DOMAIN schemas[kind] = DeclaredAs(files, kind) /\ schemas[kind][n] = LastDeclaration(files, kind, n)
  BY <1>1 DEF from_modules
<1>3. S # {}
  BY <1>2 DEF DeclaredAs
<1>4. Len(files) \in Nat /\ DOMAIN files = 1..Len(files) /\ Len(files) <= Len(Sources)
  BY SequenceFacts DEF Inv, FilesOK
<1>5. Len(Sources) \in Nat /\ DOMAIN Sources = 1..Len(Sources)
  BY SourcesAssumption
<1>6. S \subseteq 1..Len(files)
  BY <1>4 DEF DeclaringFiles
<1>7. Greatest(S) \in S
  <2> HIDE DEF S
  <2>1. QED
    BY <1>3, <1>4, <1>6, GreatestIs
<1>8. PICK i \in S : i = Greatest(S)
  BY <1>7
<1>9. i \in DOMAIN files /\ n \in DOMAIN files[i] /\ files[i][n].kind = kind
  BY DEF DeclaringFiles
<1>10. i \in DOMAIN Sources /\ files[i] \in Sources[i]
  BY <1>4, <1>5, <1>9 DEF Inv, FilesOK
<1>11. files[i] \in UNION Range(Sources) /\ IsSourceFile(files[i])
  BY <1>10, SourcesAssumption DEF Range
<1>12. schemas[kind][n] = files[i][n]
  BY <1>2, <1>8 DEF LastDeclaration
<1>13. QED
  BY <1>9, <1>11, <1>12

\* So its types are no larger than those of the sources, and its aliases are theirs.
LEMMA ServedTables ==
    ASSUME Inv, request # NoRequest,
           NEW nesting \in Nat, NEW wrappers \in Nat \ {0}, NEW height,
           StackHolds(height, nesting, wrappers)
    PROVE  /\ Tabled(schemas, wrappers)
           /\ DOMAIN schemas["alias"] \subseteq STRING
           /\ IsFiniteSet(DOMAIN schemas["alias"])
           /\ Cardinality(AliasNames) \in Nat
           /\ Cardinality(DOMAIN schemas["alias"]) <= Cardinality(AliasNames)
<1>1. \A file \in UNION Range(Sources) : \A n \in DOMAIN file :
         \A type \in TypesOf(file[n]) : Len(type.shape) <= wrappers
  BY DEF StackHolds
<1>2. ASSUME NEW a \in DOMAIN schemas["alias"]
      PROVE  a \in STRING /\ a \in AliasNames /\ Fits(schemas["alias"][a].type, wrappers)
  <2>1. PICK file \in UNION Range(Sources) :
           /\ IsSourceFile(file) /\ a \in DOMAIN file /\ file[a].kind = "alias"
           /\ schemas["alias"][a] = file[a]
    BY TableEntry
  <2>2. a \in STRING /\ file[a] \in Declarations
    BY <2>1 DEF IsSourceFile
  <2>3. file[a].type \in TypesOf(file[a])
    BY <2>1 DEF TypesOf
  <2>4. file[a].type \in TypeExprs
    BY <2>1, <2>2, Declared
  <2>5. Fits(file[a].type, wrappers)
    BY <1>1, <2>1, <2>3, <2>4 DEF Fits
  <2>6. a \in AliasNames
    BY <2>1 DEF AliasNames
  <2>7. QED
    BY <2>1, <2>2, <2>5, <2>6
<1>3. ASSUME NEW kind \in {"struct", "model"}, NEW n \in DOMAIN schemas[kind]
      PROVE  /\ DOMAIN schemas[kind][n].fields \subseteq Nat
             /\ \A k \in DOMAIN schemas[kind][n].fields : Fits(schemas[kind][n].fields[k].type, wrappers)
  <2>1. PICK file \in UNION Range(Sources) :
           /\ IsSourceFile(file) /\ n \in DOMAIN file /\ file[n].kind = kind
           /\ schemas[kind][n] = file[n]
    BY TableEntry
  <2> DEFINE decl == file[n]
  <2>2. decl \in Declarations
    BY <2>1 DEF IsSourceFile
  <2>3. /\ DOMAIN decl.fields \subseteq Nat
        /\ \A k \in DOMAIN decl.fields : decl.fields[k].type \in TypeExprs
    BY <2>1, <2>2, Declared
  <2>4. \A k \in DOMAIN decl.fields : decl.fields[k].type \in TypesOf(decl)
    BY <2>1 DEF TypesOf, Range
  <2>5. \A k \in DOMAIN decl.fields : Fits(decl.fields[k].type, wrappers)
    BY <1>1, <2>1, <2>3, <2>4 DEF Fits
  <2>6. QED
    BY <2>1, <2>3, <2>5
<1>4. Tabled(schemas, wrappers)
  BY <1>2, <1>3 DEF Tabled
<1>5. IsFiniteSet(AliasNames) /\ DOMAIN schemas["alias"] \subseteq AliasNames
  BY <1>2 DEF StackHolds
<1>6. QED
  BY <1>2, <1>4, <1>5, FS_Subset, FS_CardinalityType

\* A value of the JSON there is, or an object of such, is validated to an end.
LEMMA ValueEnds ==
    ASSUME Inv, request # NoRequest, ~CircleIn(schemas),
           NEW nesting \in Nat, NEW wrappers \in Nat \ {0}, NEW height,
           StackHolds(height, nesting, wrappers),
           NEW type, Fits(type, wrappers),
           NEW v, Closed(Json \cup {v}), PartsOf(v) \subseteq Json
    PROVE  validate_value(schemas, type, v) # Overflow
<1> DEFINE values == Json \cup {v}
           rank == [x \in values |-> IF x \in Json THEN height[x] ELSE nesting + 1]
           n == Cardinality(AliasNames)
<1>1. /\ Tabled(schemas, wrappers) /\ IsFiniteSet(DOMAIN schemas["alias"])
      /\ n \in Nat /\ Cardinality(DOMAIN schemas["alias"]) <= n
  BY ServedTables
<1>2. /\ height \in [Json -> 0..nesting]
      /\ \A x \in Json : \A part \in PartsOf(x) : height[part] < height[x]
  BY DEF StackHolds
<1>3. \A x \in Json : PartsOf(x) \subseteq Json
  <2> SUFFICES ASSUME NEW x \in Json PROVE PartsOf(x) \subseteq Json
    OBVIOUS
  <2>1. /\ x.k = "array" => \A i \in DOMAIN x.items : x.items[i] \in Json
        /\ x.k = "object" => \A m \in DOMAIN x.members : x.members[m] \in Json
    BY JsonAssumption, ClosedParts
  <2>2. QED
    BY <2>1 DEF PartsOf, Range
<1>4. rank \in [values -> 0..nesting + 1]
  BY <1>2
<1>5. ASSUME NEW x \in values, NEW part \in PartsOf(x)
      PROVE  part \in values /\ rank[part] < rank[x]
  <2>1. part \in Json /\ rank[part] = height[part] /\ height[part] \in 0..nesting
    BY <1>2, <1>3
  <2>2. CASE x \in Json
    BY <1>2, <2>1, <2>2
  <2>3. CASE x \notin Json
    BY <2>1, <2>3
  <2>4. QED
    BY <2>1, <2>2, <2>3
<1>6. Depth >= ((nesting + 1) + 1) * ((n + 1) * (wrappers + 1))
  <2>1. Depth >= (nesting + 2) * ((n + 1) * (wrappers + 1))
    BY DEF StackHolds
  <2>2. (nesting + 1) + 1 = nesting + 2
    OBVIOUS
  <2>3. QED
    BY <2>1, <2>2
<1>7. type \in TypeExprs /\ v \in values /\ nesting + 1 \in Nat /\ wrappers \in Nat
  BY DEF Fits
<1> HIDE DEF values, rank, n
<1>8. outcome_within(schemas, values)[Depth][type][v] # Overflow
  <2>1. Closed(values)
    BY DEF values
  <2>2. QED
    BY <1>1, <1>4, <1>5, <1>6, <1>7, <2>1, AllEnd
<1>9. QED
  BY <1>8 DEF validate_value, values

\* The types requests are about have at most one option or list around a name.
LEMMA FitsAsked ==
    ASSUME NEW wrappers \in Nat \ {0}, NEW name \in STRING, NEW type \in {Named(name)} \cup AnswerTypes(name)
    PROVE  Fits(type, wrappers)
<1>1. type \in TypeExprs
  BY AskedTypes
<1>2. Len(type.shape) \in {0, 1}
  BY DEF AnswerTypes, ListOf, Optional, Around, Named
<1>3. \A length \in {0, 1} : length <= wrappers
  OBVIOUS
<1>4. QED
  BY <1>1, <1>2, <1>3 DEF Fits

\* What a text is read as is one of its readings.
LEMMA FieldReading ==
    ASSUME NEW s, NEW location, NEW field, NEW sent, \A name \in DOMAIN sent : IsText(sent[name]),
           decode_field(s, location, field, sent).value # NoValue
    PROVE  decode_field(s, location, field, sent).value \in Json
<1> DEFINE found == found_under(location, field, sent)
           text == text_of_field(location, field, sent)
           value == decode_text_value(s, field.type, text)
<1>1. found # {} /\ decode_field(s, location, field, sent).value = value /\ value # NoValue
  <2> HIDE DEF value, found
  <2>1. decode_field(s, location, field, sent) =
           IF found = {}
           THEN Reply(IF type_expr_is_optional(field.type) THEN Valid ELSE Refused, NoValue)
           ELSE IF type_expr_primitive_root(s, decoded_type(field.type)) = "overflow"
                THEN Reply(Overflow, NoValue)
                ELSE Reply(IF value = NoValue THEN Refused ELSE Valid, value)
    BY DEF decode_field, value, found
  <2>2. QED
    BY <2>1 DEF Reply
<1>2. found \subseteq Nat /\ \A i \in found : wire_names(location, field)[i] \in DOMAIN sent
  BY DEF found_under, wire_names
<1>3. Least(found) \in found
  <2> HIDE DEF found
  <2>1. QED
    BY <1>1, <1>2, LeastIs
<1>4. IsText(text)
  BY <1>2, <1>3 DEF text_of_field
<1> HIDE DEF text, found
<1>5. value \in Readings(text)
  BY <1>1, ParsedReading DEF decode_text_value
<1> HIDE DEF value
<1>6. value \in Json
  BY <1>4, <1>5, ReadingIs
<1>7. QED
  BY <1>1, <1>6

\* An overflow where a field is decoded is one of the walk to its root.
LEMMA FieldOverflow ==
    ASSUME NEW s, NEW location, NEW field, field.type \in TypeExprs, NEW sent,
           decode_field(s, location, field, sent).outcome = Overflow
    PROVE  \E name \in STRING : primitive_root(s, name) = "overflow"
<1> DEFINE type == decoded_type(field.type)
           root == type_expr_primitive_root(s, type)
           value == decode_text_value(s, field.type, text_of_field(location, field, sent))
<1>1. root = "overflow"
  <2> HIDE DEF root, value
  <2>1. decode_field(s, location, field, sent) =
           IF found_under(location, field, sent) = {}
           THEN Reply(IF type_expr_is_optional(field.type) THEN Valid ELSE Refused, NoValue)
           ELSE IF root = "overflow" THEN Reply(Overflow, NoValue)
                ELSE Reply(IF value = NoValue THEN Refused ELSE Valid, value)
    BY DEF decode_field, root, value
  <2>2. QED
    BY <2>1 DEF Reply, Valid, Refused, Overflow
<1>2. primitive_root(s, type.path[1]) = "overflow"
  BY <1>1 DEF type_expr_primitive_root
<1>3. type.path = field.type.path
  BY DEF decoded_type, inner
<1>4. type.path[1] \in STRING
  BY <1>3, InnerType
<1> HIDE DEF type
<1>5. QED
  BY <1>2, <1>4

\* No object of a query, of headers or of cookies overflows without a circle.
LEMMA FieldsEnd ==
    ASSUME Inv, request # NoRequest, ~CircleIn(schemas),
           NEW nesting \in Nat, NEW wrappers \in Nat \ {0}, NEW height,
           StackHolds(height, nesting, wrappers),
           NEW location, NEW name \in STRING,
           name \in DOMAIN schemas["struct"] \cup DOMAIN schemas["model"],
           NEW sent \in Sent,
           \A x \in STRING : primitive_root(schemas, x) # "overflow"
    PROVE  decode_fields(schemas, location, name, sent).outcome # Overflow
<1> DEFINE fields == payload_fields(schemas, name)
           decoded == [i \in DOMAIN fields |-> decode_field(schemas, location, fields[i], sent)]
           outcomes == [i \in DOMAIN fields |-> decoded[i].outcome]
           object == decoded_object(fields, decoded)
<1>1. DOMAIN fields \subseteq Nat /\ \A i \in DOMAIN fields : fields[i].type \in TypeExprs
  <2>1. Tabled(schemas, wrappers)
    BY ServedTables
  <2>2. QED
    BY <2>1 DEF payload_fields, Tabled, Fits
<1>2. \A x \in DOMAIN sent : IsText(sent[x])
  BY InputsAssumption
<1>3. \A i \in DOMAIN fields : decoded[i] = decode_field(schemas, location, fields[i], sent)
  OBVIOUS
<1> HIDE DEF fields
<1>4. FirstFailure(outcomes) # Overflow
  <2>1. ASSUME NEW i \in DOMAIN outcomes PROVE outcomes[i] # Overflow
    <3>1. i \in DOMAIN fields /\ outcomes[i] = decode_field(schemas, location, fields[i], sent).outcome
      OBVIOUS
    <3> HIDE DEF outcomes, decoded
    <3>2. QED
      BY <1>1, <3>1, FieldOverflow
  <2>2. DOMAIN outcomes \subseteq Nat
    BY <1>1
  <2> HIDE DEF outcomes
  <2>3. QED
    BY <2>1, <2>2, FirstOverflow
<1>5. \A i \in DOMAIN fields : decoded[i].value # NoValue => decoded[i].value \in Json
  <2> HIDE DEF decoded
  <2>1. QED
    BY <1>2, <1>3, FieldReading
<1> HIDE DEF decoded
<1>6. object.k = "object" /\ \A m \in DOMAIN object.members : object.members[m] \in Json
  <2> DEFINE given == {i \in DOMAIN fields : decoded[i].value # NoValue}
             members == [m \in {fields[i].name : i \in given} |->
                            decoded[CHOOSE i \in given : fields[i].name = m].value]
  <2>1. object.k = "object" /\ object.members = members
    BY DEF decoded_object, Obj
  <2>2. ASSUME NEW m \in DOMAIN members PROVE members[m] \in Json
    <3>1. \E i \in given : fields[i].name = m
      OBVIOUS
    <3>2. PICK i \in given : i = CHOOSE j \in given : fields[j].name = m
      BY <3>1
    <3>3. members[m] = decoded[i].value
      BY <3>2
    <3>4. QED
      BY <1>5, <3>3
  <2> HIDE DEF members, object
  <2>3. QED
    BY <2>1, <2>2
<1>7. decode_fields(schemas, location, name, sent).outcome =
         IF FirstFailure(outcomes) # Valid THEN FirstFailure(outcomes)
         ELSE validate_value(schemas, Named(name), object)
  BY DEF decode_fields, Reply, fields, decoded
<1> HIDE DEF outcomes, object
<1>8. validate_value(schemas, Named(name), object) # Overflow
  <2>1. Closed(Json \cup {object})
    BY <1>6, ObjectValues
  <2>2. PartsOf(object) \subseteq Json
    BY <1>6 DEF PartsOf, Range
  <2>3. Fits(Named(name), wrappers)
    BY FitsAsked
  <2>4. QED
    BY <2>1, <2>2, <2>3, ValueEnds
<1>9. QED
  BY <1>4, <1>7, <1>8

\* Without a circle none of the four kinds of requests overflows.
LEMMA InvOverflows ==
    ASSUME NEW nesting \in Nat, NEW wrappers \in Nat \ {0}, NEW height,
           StackHolds(height, nesting, wrappers), Inv
    PROVE  OverflowsOnlyOnCircles
<1> SUFFICES ASSUME request.reply.outcome = Overflow, ~CircleIn(schemas)
             PROVE  FALSE
  BY DEF OverflowsOnlyOnCircles, IsCircle, CircleIn
<1>1. request # NoRequest
  BY DEF NoRequest, Request, Reply, Valid, Overflow
<1>2. stage = "serve" /\ schemas = from_modules(files)
  BY <1>1 DEF Inv, RequestOK, TablesOK
<1>3. \A name \in DeclaredNames \cup {"U64", "F64"} : name \in STRING
  <2>1. \A name \in {"U64", "F64"} : name \in STRING
    BY NameAssumption DEF Primitives
  <2>2. ASSUME NEW name \in DeclaredNames PROVE name \in STRING
    <3>1. PICK i \in DOMAIN files : name \in DOMAIN files[i]
      BY DEF DeclaredNames, Range
    <3>2. Len(files) \in Nat /\ DOMAIN files = 1..Len(files) /\ Len(files) <= Len(Sources)
      BY SequenceFacts DEF Inv, FilesOK
    <3>3. Len(Sources) \in Nat /\ DOMAIN Sources = 1..Len(Sources)
      BY SourcesAssumption
    <3>4. IsSourceFile(files[i])
      BY <3>2, <3>3, SourcesAssumption DEF Inv, FilesOK
    <3>5. QED
      BY <3>1, <3>4 DEF IsSourceFile
  <2>3. QED
    BY <2>1, <2>2
<1>4. \A x \in Json : Closed(Json \cup {x}) /\ PartsOf(x) \subseteq Json
  <2> SUFFICES ASSUME NEW x \in Json PROVE Closed(Json \cup {x}) /\ PartsOf(x) \subseteq Json
    OBVIOUS
  <2>1. Json \cup {x} = Json
    OBVIOUS
  <2>2. /\ x.k = "array" => \A i \in DOMAIN x.items : x.items[i] \in Json
        /\ x.k = "object" => \A m \in DOMAIN x.members : x.members[m] \in Json
    BY JsonAssumption, ClosedParts
  <2>3. QED
    BY <2>1, <2>2, JsonAssumption DEF PartsOf, Range
<1>5. ASSUME NEW name \in STRING, NEW type \in {Named(name)} \cup AnswerTypes(name), NEW v \in Json
      PROVE  validate_value(schemas, type, v) # Overflow
  <2>1. Fits(type, wrappers)
    BY FitsAsked
  <2>2. Closed(Json \cup {v}) /\ PartsOf(v) \subseteq Json
    BY <1>4
  <2>3. QED
    BY <1>1, <2>1, <2>2, ValueEnds
<1>6. \A x \in STRING : primitive_root(schemas, x) # "overflow"
  <2> DEFINE n == Cardinality(AliasNames)
  <2>1. /\ Tabled(schemas, wrappers) /\ DOMAIN schemas["alias"] \subseteq STRING
        /\ IsFiniteSet(DOMAIN schemas["alias"])
        /\ n \in Nat /\ Cardinality(DOMAIN schemas["alias"]) <= n
    BY <1>1, ServedTables
  <2>2. Depth >= (nesting + 2) * ((n + 1) * (wrappers + 1))
    BY DEF StackHolds
  <2> HIDE DEF n
  <2>3. n < Depth
    <3> DEFINE c == (n + 1) * (wrappers + 1)
    <3>1. c = (n + 1) * wrappers + n + 1 /\ (n + 1) * wrappers \in Nat /\ c \in Nat /\ n < c
      BY <2>1
    <3> HIDE DEF c
    <3>2. (nesting + 2) * c = (nesting + 1) * c + c /\ (nesting + 1) * c \in Nat
      BY <3>1
    <3>3. Depth >= (nesting + 2) * c
      BY <2>2 DEF c
    <3>4. QED
      BY <2>1, <3>1, <3>2, <3>3, DepthAssumption
  <2>4. QED
    BY <2>1, <2>3, RootCircle
<1>7. CASE IsBody(request)
  <2>1. PICK name \in DeclaredNames, v \in Bodies :
           request.reply.outcome = validate_value(schemas, Named(name), v)
    BY <1>7 DEF IsBody, Request, Reply, validate_json_body
  <2>2. name \in STRING /\ v \in Json
    BY <1>3, InputsAssumption
  <2>3. QED
    BY <1>5, <2>1, <2>2
<1>8. CASE IsAnswer(request)
  <2>1. PICK name \in DeclaredNames, v \in Bodies : \E type \in AnswerTypes(name) :
           request.reply.outcome = validate_value(schemas, type, v)
    BY <1>8 DEF IsAnswer, Request, Reply
  <2>2. name \in STRING /\ v \in Json
    BY <1>3, InputsAssumption
  <2>3. QED
    BY <1>5, <2>1, <2>2
<1>9. CASE IsPath(request)
  <2>1. PICK name \in DeclaredNames \cup {"U64", "F64"}, text \in Texts :
           request.reply = decode_path_param(schemas, name, text)
    BY <1>9 DEF IsPath, Request
  <2> DEFINE root == primitive_root(schemas, name)
             value == parsed(root, text)
  <2>2. name \in STRING /\ IsText(text)
    BY <1>3, InputsAssumption
  <2>3. root # "overflow"
    BY <1>6, <2>2
  <2>4. decode_path_param(schemas, name, text).outcome =
           IF value = NoValue THEN Refused ELSE validate_value(schemas, Named(name), value)
    <3> HIDE DEF value
    <3>1. decode_path_param(schemas, name, text).outcome =
             CASE root = "overflow" -> Overflow
               [] root # "overflow" /\ value = NoValue -> Refused
               [] OTHER -> validate_value(schemas, Named(name), value)
      BY DEF decode_path_param, Reply, value
    <3> HIDE DEF root
    <3>2. QED
      BY <2>3, <3>1
  <2> HIDE DEF root
  <2>5. value # NoValue => value \in Json
    BY <2>2, ParsedReading, ReadingIs
  <2> HIDE DEF value
  <2>6. value # NoValue => validate_value(schemas, Named(name), value) # Overflow
    BY <1>5, <2>2, <2>5
  <2>7. QED
    BY <2>1, <2>4, <2>6 DEF Refused, Overflow
<1>10. CASE IsFields(request)
  <2>1. PICK location \in Locations, name \in DeclaredNames, sent \in Sent :
           /\ is_local_payload_type(name)
           /\ request.reply = decode_fields(schemas, location, name, sent)
    BY <1>10 DEF IsFields, Request
  <2>2. PICK i \in DOMAIN files : name \in DOMAIN files[i] /\ files[i][name].kind \in {"struct", "model"}
    BY <2>1 DEF is_local_payload_type, Range
  <2>3. name \in DOMAIN schemas["struct"] \cup DOMAIN schemas["model"]
    <3>1. i \in DeclaringFiles(files, files[i][name].kind, name)
      BY <2>2 DEF DeclaringFiles
    <3>2. name \in DeclaredAs(files, files[i][name].kind)
      BY <2>2, <3>1 DEF DeclaredAs
    <3>3. DOMAIN schemas["struct"] = DeclaredAs(files, "struct") /\ DOMAIN schemas["model"] = DeclaredAs(files, "model")
      BY <1>2 DEF from_modules
    <3>4. QED
      BY <2>2, <3>2, <3>3
  <2>4. name \in STRING
    BY <1>3
  <2>5. decode_fields(schemas, location, name, sent).outcome # Overflow
    BY <1>1, <1>6, <2>3, <2>4, FieldsEnd
  <2>6. QED
    BY <2>1, <2>5
<1>11. QED
  BY <1>1, <1>7, <1>8, <1>9, <1>10 DEF Inv, RequestOK

\* On a stack that holds what the height of values and the number of aliases
\* need, the runtime's recursion ends but for a circle of aliases, whatever
\* refers to itself through structs.
THEOREM OverflowNeedsCircle ==
    ASSUME NEW nesting \in Nat, NEW wrappers \in Nat \ {0}, NEW height,
           StackHolds(height, nesting, wrappers)
    PROVE  Spec => []OverflowsOnlyOnCircles
<1>1. Inv => OverflowsOnlyOnCircles
  BY InvOverflows
<1>2. QED
  BY <1>1, InvAlways, PTL

=============================================================================
