----------------------------- MODULE MCAreProject -----------------------------
(***************************************************************************)
(* Small instances of AreProject: a first file with two aliases that may   *)
(* name each other and a type over them, and a second file that is sound,  *)
(* refers to the first one's types, or declares its names again.           *)
(***************************************************************************)
EXTENDS AreProject

MCRefNames == {"A", "B", "S", "T", "K"}
MCHeader(name) == IF name = "a_b" THEN "a-b" ELSE IF name = "N" THEN "n" ELSE name
MCLower(name) == IF name = "N" THEN "n" ELSE name

F(name, type) == Field(name, type, << >>)

\* What A aliases, and with which rules; what B aliases.
AliasesOfA ==
    {Alias(Named("String"), << >>), Alias(Named("String"), <<Length(1, 2), Email>>),
     Alias(Named("String"), <<Length(1, 1), Length(2, 2)>>),
     Alias(Named("U64"), << >>), Alias(Named("U64"), <<Email>>),
     Alias(Named("B"), << >>), Alias(Named("B"), <<Length(2, 2)>>),
     Alias(Named("A"), << >>), Alias(Optional(Named("A")), << >>),
     Alias(Optional(Named("String")), <<Length(1, 2)>>), Alias(ListOf(Named("B")), << >>)}
AliasesOfB ==
    {Alias(Named("String"), <<Length(1, 2)>>), Alias(Named("I64"), << >>),
     Alias(Named("A"), << >>), Alias(Optional(Named("F64")), << >>)}

Payloads ==
    {Struct(<<F("a_b", Named("A"))>>),
     Struct(<<F("a_b", Optional(Named("B"))), Field("b", Named("A"), <<Email>>)>>),
     Struct(<<Field("b", Optional(Named("A")), <<Length(2, 2)>>), F("a_b", Named("Bool"))>>),
     Struct(<<F("b", Optional(Named("S"))), F("a_b", ListOf(Named("B")))>>),
     Model(<<F("b", Named("A")), F("a_b", Optional(Named("F64")))>>)}

\* Declarations the runtime does not carry out, and ones the checker refuses.
Oddities ==
    {[S |-> Struct(<<F("n", Named("U64")), F("N", Named("String"))>>)],
     [S |-> Struct(<<F("b", Named("K"))>>), K |-> Enum(<<[name |-> "X", payload |-> << >>]>>)],
     [K |-> Enum(<<[name |-> "X", payload |-> << >>], [name |-> "X", payload |-> <<F("b", Named("Bool")), F("b", Named("Bool"))>>]>>)],
     [S |-> Struct(<<F("b", Named("I32"))>>)],
     [S |-> Struct(<<F("b", Foreign)>>)],
     [S |-> Struct(<<F("b", Named("Text"))>>), Text |-> Alias(Named("U64"), << >>)],
     [S |-> Struct(<<F("b", Named("T"))>>)],
     [S |-> Struct(<<F("b", Named("t"))>>), t |-> Struct(<<F("b", Named("Bool"))>>)],
     [S |-> Struct(<<F("b", Named("Bool")), F("b", Named("U64"))>>)],
     [S |-> Model(<<F("b", Named("Bool")), F("b", Named("U64"))>>)]}

FirstFiles ==
    {[A |-> a, B |-> b, S |-> s] : a \in AliasesOfA, b \in AliasesOfB, s \in Payloads} \cup Oddities

SecondFiles ==
    {[T |-> Struct(<<F("b", Named("U64"))>>)],
     [T |-> Struct(<<F("b", Named("A"))>>)],
     [A |-> Alias(Named("Bool"), << >>)],
     [S |-> Alias(Named("Bool"), << >>), A |-> Struct(<<F("b", Named("Bool"))>>)],
     [S |-> Struct(<<F("a_b", Named("String"))>>)]}

MCSources == <<FirstFiles, SecondFiles>>

Short == Str(1, FALSE)
Mail == Str(2, TRUE)
Long == Str(3, TRUE)

Scalars == {Null, Bool, Num("negative"), Num("natural"), Num("big"), Num("whole"), Short, Mail, Long}

\* `a_b` as a scalar or a list, `b` absent, a scalar or an object, `n` twice.
MCBodies ==
    Scalars \cup {Arr(<< >>), Arr(<<Mail, Null>>), Arr(<<Num("natural")>>)}
    \cup {Obj([x \in {"a_b"} |-> v]) : v \in Scalars \cup {Arr(<<Mail>>), Arr(<<Bool, Mail>>)}}
    \cup {Obj([x \in {"b"} |-> v]) : v \in {Null, Bool, Mail}}
    \cup {Obj([a_b |-> v, b |-> w]) : v \in {Null, Bool, Mail}, w \in {Null, Short, Num("natural")}}
    \cup {Obj([a_b |-> Arr(<<Mail>>), b |-> Obj([a_b |-> v])]) : v \in {Bool, Arr(<<Short>>), Arr(<< >>)}}
    \cup {Obj([a_b |-> Mail, z |-> Bool]), Obj([n |-> Num("natural"), N |-> Mail])}

\* `x@`, `5`, `-5`, `true`, and one past i64.
Word == Text(Mail, NoValue, NoValue, NoValue, NoValue)
Five == Text(Short, Num("natural"), Num("natural"), Num("whole"), NoValue)
Minus == Text(Str(2, FALSE), NoValue, Num("negative"), Num("whole"), NoValue)
True == Text(Str(4, FALSE), NoValue, NoValue, NoValue, Bool)
Huge == Text(Str(19, FALSE), Num("big"), NoValue, Num("whole"), NoValue)
MCTexts == {Word, Five, Minus, True, Huge}

MCSent ==
    {<< >>} \cup {[x \in names |-> text] : names \in {{"a_b"}, {"a-b"}, {"b"}, {"n"}}, text \in {Word, Five}}
    \cup {[x \in {"b", n} |-> IF x = "b" THEN v ELSE w] : n \in {"a_b", "a-b"}, v \in {Word, Five}, w \in MCTexts \ {Huge}}

\* The bodies, what they are made of, and what the texts are read as.
WithParts(values) == values \cup UNION {PartsOf(v) : v \in values}
MCJson == WithParts(WithParts(WithParts(MCBodies))) \cup UNION {Readings(text) : text \in MCTexts}

MCHeight[v \in MCJson] ==
    IF v.k \in {"array", "object"} THEN 1 + Max({MCHeight[w] : w \in PartsOf(v)} \cup {0}) ELSE 0

\* Three levels of values, one option or list around a name.
ASSUME MCStackHolds == StackHolds(MCHeight, 3, 1)

=============================================================================
