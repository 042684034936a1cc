------------------------------ MODULE AreLemmas ------------------------------
(***************************************************************************)
(* What the models' recursive functions and rankings compute, for every    *)
(* input.  Induction is done by hand, from the least element of a set of   *)
(* counterexamples.                                                        *)
(***************************************************************************)
EXTENDS AreSequences, FiniteSets, WellFoundedInduction, FiniteSetTheorems, TLAPS

\* A set of naturals that is not empty has a least element.
LEMMA NatMin ==
    ASSUME NEW T, T \subseteq Nat, T # {}
    PROVE  \E m \in T : \A n \in T : m <= n
<1>1. \E m \in T : \A n \in T : ~(<<n, m>> \in OpToRel(<, Nat))
  BY NatLessThanWellFounded, WFMin, Zenon
<1>2. PICK m \in T : \A n \in T : ~(<<n, m>> \in OpToRel(<, Nat))
  BY <1>1
<1>3. \A n \in T : ~(n < m)
  BY <1>2 DEF OpToRel
<1>4. QED
  BY <1>3

-----------------------------------------------------------------------------
\* Sequences of anything.

\* A sequence of members of S is one.
LEMMA SequenceOf ==
    ASSUME NEW S, NEW s \in Seq(S)
    PROVE  /\ IsSequence(s) /\ Len(s) \in Nat /\ DOMAIN s = 1..Len(s)
           /\ \A i \in 1..Len(s) : s[i] \in S
<1>1. \A i \in 1..Len(s) : s[i] \in {s[j] : j \in DOMAIN s}
  OBVIOUS
<1>2. QED
  BY <1>1 DEF IsSequence

\* Its positions are the numbers up to its length.
LEMMA SequenceFacts ==
    ASSUME NEW s, IsSequence(s)
    PROVE  /\ Len(s) \in Nat /\ DOMAIN s = 1..Len(s)
           /\ s = << >> <=> Len(s) = 0
BY DEF IsSequence

\* It is one over a set that has T in it.
LEMMA SequenceIn ==
    ASSUME NEW s, IsSequence(s), NEW T
    PROVE  \E S : T \subseteq S /\ s \in Seq(S)
<1>1. s \in Seq({s[i] : i \in DOMAIN s} \cup T)
  BY DEF IsSequence
<1>2. QED
  BY <1>1

\* Sequences are the same when their elements are.
LEMMA SameSequence ==
    ASSUME NEW s, IsSequence(s), NEW t, IsSequence(t), Len(s) = Len(t),
           \A i \in 1..Len(s) : s[i] = t[i]
    PROVE  s = t
BY SMTT(30) DEF IsSequence

\* What an element more makes of it.
LEMMA Appended ==
    ASSUME NEW s, IsSequence(s), NEW x
    PROVE  /\ IsSequence(Append(s, x)) /\ Len(Append(s, x)) = Len(s) + 1
           /\ \A i \in 1..Len(s) : Append(s, x)[i] = s[i]
           /\ Append(s, x)[Len(s) + 1] = x
<1>1. PICK S : {x} \subseteq S /\ s \in Seq(S)
  BY SequenceIn
<1>2. Append(s, x) \in Seq(S)
  BY <1>1
<1>3. IsSequence(Append(s, x))
  BY <1>2, SequenceOf
<1>4. QED
  BY <1>1, <1>3

\* What an element before it makes of it.
LEMMA Prefixed ==
    ASSUME NEW s, IsSequence(s), NEW x
    PROVE  /\ IsSequence(<<x>> \o s) /\ Len(<<x>> \o s) = Len(s) + 1
           /\ Head(<<x>> \o s) = x /\ Tail(<<x>> \o s) = s
           /\ <<x>> \o s # << >>
<1>1. PICK S : {x} \subseteq S /\ s \in Seq(S)
  BY SequenceIn
<1>2. <<x>> \in Seq(S)
  BY <1>1
<1>3. <<x>> \o s \in Seq(S) /\ Len(<<x>> \o s) = Len(s) + 1 /\ Len(s) \in Nat
  BY <1>1, <1>2
<1>4. \A i \in 1..Len(s) : (<<x>> \o s)[i + 1] = s[i]
  BY <1>1, <1>2
<1>5. Tail(<<x>> \o s) = s
  <2>1. Tail(<<x>> \o s) \in Seq(S) /\ Len(Tail(<<x>> \o s)) = Len(s)
    BY <1>3
  <2>2. \A i \in 1..Len(s) : Tail(<<x>> \o s)[i] = s[i]
    BY <1>3, <1>4
  <2>3. QED
    BY <1>1, <2>1, <2>2
<1>6. (<<x>> \o s)[1] = x
  BY <1>1, <1>2
<1>7. IsSequence(<<x>> \o s)
  BY <1>3, SequenceOf
<1>8. QED
  BY <1>3, <1>5, <1>6, <1>7

\* Two elements before it are one and one.
LEMMA Prefixed2 ==
    ASSUME NEW s, IsSequence(s), NEW x, NEW y
    PROVE  <<x, y>> \o s = <<x>> \o (<<y>> \o s)
<1>1. PICK S : {x, y} \subseteq S /\ s \in Seq(S)
  BY SequenceIn
<1>2. <<x>> \in Seq(S) /\ <<y>> \in Seq(S) /\ <<x, y>> \in Seq(S)
  BY <1>1
<1>3. <<y>> \o s \in Seq(S) /\ Len(<<y>> \o s) = Len(s) + 1 /\ Len(s) \in Nat
  BY <1>1, <1>2
<1>4. /\ <<x, y>> \o s \in Seq(S) /\ <<x>> \o (<<y>> \o s) \in Seq(S)
      /\ Len(<<x, y>> \o s) = Len(s) + 2 /\ Len(<<x>> \o (<<y>> \o s)) = Len(s) + 2
  BY <1>1, <1>2, <1>3
<1>5. ASSUME NEW i \in 1..Len(s) + 2
      PROVE  (<<x, y>> \o s)[i] = (<<x>> \o (<<y>> \o s))[i]
  <2>1. (<<x>> \o (<<y>> \o s))[i] = IF i = 1 THEN x ELSE (<<y>> \o s)[i - 1]
    BY <1>2, <1>3
  <2>2. i # 1 => (<<y>> \o s)[i - 1] = IF i = 2 THEN y ELSE s[i - 2]
    BY <1>1, <1>2, <1>3
  <2>3. (<<x, y>> \o s)[i] = IF i = 1 THEN x ELSE IF i = 2 THEN y ELSE s[i - 2]
    BY <1>1, <1>2, <1>3
  <2>4. QED
    BY <2>1, <2>2, <2>3
<1>6. IsSequence(<<x, y>> \o s) /\ IsSequence(<<x>> \o (<<y>> \o s))
  BY <1>4, SequenceOf
<1>7. QED
  BY <1>4, <1>5, <1>6, SameSequence

\* What is left without its head.
LEMMA Tailed ==
    ASSUME NEW s, IsSequence(s), s # << >>
    PROVE  /\ IsSequence(Tail(s)) /\ Len(Tail(s)) = Len(s) - 1 /\ Head(s) = s[1]
           /\ Len(s) >= 1 /\ \A i \in 1..Len(s) - 1 : Tail(s)[i] = s[i + 1]
<1>1. PICK S : s \in Seq(S)
  BY SequenceIn
<1>2. Tail(s) \in Seq(S) /\ Len(s) \in Nat /\ Len(s) # 0
  BY <1>1
<1>3. IsSequence(Tail(s))
  BY <1>2, SequenceOf
<1>4. QED
  BY <1>1, <1>2, <1>3

\* Its elements from the k-th to the n-th.
LEMMA Subsequence ==
    ASSUME NEW s, IsSequence(s), NEW k \in Nat \ {0}, NEW n \in 0..Len(s), k <= n + 1
    PROVE  /\ IsSequence(SubSeq(s, k, n)) /\ Len(SubSeq(s, k, n)) = n - k + 1
           /\ \A i \in 1..n - k + 1 : SubSeq(s, k, n)[i] = s[k + i - 1]
<1>1. PICK S : s \in Seq(S)
  BY SequenceIn
<1>2. Len(s) \in Nat
  BY <1>1
<1>3. SubSeq(s, k, n) \in Seq(S) /\ Len(SubSeq(s, k, n)) = n - k + 1
  BY <1>1, <1>2
<1>4. \A i \in 1..n - k + 1 : SubSeq(s, k, n)[i] = s[k + i - 1]
  BY <1>1, <1>2
<1>5. IsSequence(SubSeq(s, k, n))
  BY <1>3, SequenceOf
<1>6. QED
  BY <1>3, <1>4, <1>5

\* A function on the positions of a sequence is one.
LEMMA SamePositions ==
    ASSUME NEW s, IsSequence(s), NEW t, DOMAIN t = DOMAIN s,
           t \in [DOMAIN s -> {t[j] : j \in DOMAIN s}]
    PROVE  IsSequence(t) /\ Len(t) = Len(s)
<1>1. Len(s) \in Nat /\ DOMAIN s = 1..Len(s)
  BY SequenceFacts
<1>2. t \in Seq({t[j] : j \in DOMAIN t}) /\ Len(t) = Len(s)
  BY <1>1
<1>3. QED
  BY <1>2 DEF IsSequence

\* What is left of a sequence from its k-th element on.
LEMMA Suffix ==
    ASSUME NEW s, IsSequence(s), NEW k \in 1..Len(s) + 1
    PROVE  /\ IsSequence(SubSeq(s, k, Len(s))) /\ Len(SubSeq(s, k, Len(s))) = Len(s) - k + 1
           /\ k <= Len(s) => /\ SubSeq(s, k, Len(s)) # << >>
                             /\ Head(SubSeq(s, k, Len(s))) = s[k]
                             /\ Tail(SubSeq(s, k, Len(s))) = SubSeq(s, k + 1, Len(s))
<1> DEFINE t == SubSeq(s, k, Len(s))  u == SubSeq(s, k + 1, Len(s))
<1>1. Len(s) \in Nat
  BY SequenceFacts
<1>2. /\ IsSequence(t) /\ Len(t) = Len(s) - k + 1
      /\ \A i \in 1..Len(s) - k + 1 : t[i] = s[k + i - 1]
  BY <1>1, Subsequence
<1>3. ASSUME k <= Len(s)
      PROVE  t # << >> /\ Head(t) = s[k] /\ Tail(t) = u
  <2>1. /\ IsSequence(u) /\ Len(u) = Len(s) - (k + 1) + 1
        /\ \A i \in 1..Len(s) - (k + 1) + 1 : u[i] = s[(k + 1) + i - 1]
    BY <1>1, <1>3, Subsequence
  <2> HIDE DEF t, u
  <2>2. t # << >>
    BY <1>1, <1>2, <1>3, SequenceFacts
  <2>3. /\ IsSequence(Tail(t)) /\ Len(Tail(t)) = Len(t) - 1 /\ Head(t) = t[1]
        /\ \A i \in 1..Len(t) - 1 : Tail(t)[i] = t[i + 1]
    BY <1>2, <2>2, Tailed
  <2>4. Len(Tail(t)) = Len(u) /\ \A i \in 1..Len(u) : Tail(t)[i] = u[i]
    BY <1>1, <1>2, <1>3, <2>1, <2>3
  <2>5. Tail(t) = u
    BY <2>1, <2>3, <2>4, SameSequence
  <2>6. QED
    BY <1>1, <1>2, <1>3, <2>2, <2>3, <2>5
<1>4. QED
  BY <1>1, <1>2, <1>3
-----------------------------------------------------------------------------
\* SelectAt.

\* f is the function of the prefixes of s up to n that SelectAt computes.
Selects(f, s, keep, n) ==
    f = [i \in 0..n |-> IF i = 0 THEN << >>
                        ELSE IF i \in keep THEN Append(f[i - 1], s[i])
                        ELSE f[i - 1]]

\* There is one, for every sequence.
LEMMA SelectsExists ==
    ASSUME NEW s, NEW keep, NEW n \in Nat
    PROVE  \E f : Selects(f, s, keep, n)
<1> DEFINE T == {i \in Nat : ~ \E f : Selects(f, s, keep, i)}
<1>1. SUFFICES ASSUME T # {} PROVE FALSE
  OBVIOUS
<1>2. PICK m \in T : \A i \in T : m <= i
  BY <1>1, NatMin
<1>3. m # 0
  <2> DEFINE f == [i \in 0..0 |-> << >>]
  <2>1. Selects(f, s, keep, 0)
    BY DEF Selects
  <2>2. QED
    BY <2>1
<1>4. PICK g : Selects(g, s, keep, m - 1)
  <2>1. m - 1 \in Nat /\ m - 1 \notin T
    BY <1>2, <1>3
  <2>2. QED
    BY <2>1
<1> DEFINE step == IF m \in keep THEN Append(g[m - 1], s[m]) ELSE g[m - 1]
           f == [i \in 0..m |-> IF i = m THEN step ELSE g[i]]
<1>5. \A i \in 0..m - 1 : f[i] = g[i]
  BY <1>3
<1>6. \A i \in 0..m - 1 : g[i] = IF i = 0 THEN << >>
                                 ELSE IF i \in keep THEN Append(g[i - 1], s[i]) ELSE g[i - 1]
  BY <1>4 DEF Selects
<1>7. \A i \in 0..m : f[i] = IF i = 0 THEN << >>
                             ELSE IF i \in keep THEN Append(f[i - 1], s[i]) ELSE f[i - 1]
  <2> SUFFICES ASSUME NEW i \in 0..m
               PROVE  f[i] = IF i = 0 THEN << >>
                             ELSE IF i \in keep THEN Append(f[i - 1], s[i]) ELSE f[i - 1]
    OBVIOUS
  <2>1. CASE i = m
    <3>1. f[m - 1] = g[m - 1]
      BY <1>3, <1>5
    <3>2. QED
      BY <1>3, <2>1, <3>1
  <2>2. CASE i # m /\ i # 0
    <3>1. i \in 0..m - 1 /\ i - 1 \in 0..m - 1
      BY <2>2
    <3>2. f[i] = g[i] /\ f[i - 1] = g[i - 1]
      BY <1>5, <3>1
    <3>3. QED
      BY <1>6, <2>2, <3>1, <3>2
  <2>3. CASE i # m /\ i = 0
    BY <1>3, <1>5, <1>6, <2>3
  <2>4. QED
    BY <2>1, <2>2, <2>3
<1>8. Selects(f, s, keep, m)
  BY <1>7 DEF Selects
<1>9. QED
  BY <1>8

\* So SelectAt(s, keep) is the last value of such a function.
LEMMA SelectAtSelects ==
    ASSUME NEW s, NEW keep, Len(s) \in Nat
    PROVE  \E f : Selects(f, s, keep, Len(s)) /\ SelectAt(s, keep) = f[Len(s)]
<1> DEFINE f == CHOOSE f : Selects(f, s, keep, Len(s))
<1>1. Selects(f, s, keep, Len(s))
  BY SelectsExists
<1>2. SelectAt(s, keep) = f[Len(s)]
  BY DEF SelectAt, Selects
<1>3. QED
  BY <1>1, <1>2

\* All of a sequence is the sequence.
LEMMA SelectAtAll ==
    ASSUME NEW s, IsSequence(s)
    PROVE  SelectAt(s, DOMAIN s) = s
<1>1. Len(s) \in Nat /\ DOMAIN s = 1..Len(s)
  BY SequenceFacts
<1>2. PICK f : Selects(f, s, DOMAIN s, Len(s)) /\ SelectAt(s, DOMAIN s) = f[Len(s)]
  BY <1>1, SelectAtSelects
<1> DEFINE P(n) == /\ IsSequence(f[n]) /\ Len(f[n]) = n
                   /\ \A i \in 1..n : f[n][i] = s[i]
           T == {n \in 0..Len(s) : ~P(n)}
<1>3. ASSUME T # {} PROVE FALSE
  <2> HIDE DEF P
  <2>1. T \subseteq Nat
    BY <1>1
  <2>2. PICK m \in T : \A n \in T : m <= n
    BY <1>3, <2>1, NatMin
  <2>3. m \in 0..Len(s) /\ ~P(m)
    OBVIOUS
  <2>4. m # 0
    <3>1. f[0] = << >>
      BY <1>1, <1>2 DEF Selects
    <3>2. << >> \in Seq({}) /\ Len(<< >>) = 0
      OBVIOUS
    <3>3. IsSequence(<< >>)
      BY <3>2, SequenceOf
    <3>4. P(0)
      BY <3>1, <3>2, <3>3 DEF P
    <3>5. QED
      BY <2>3, <3>4
  <2>5. m - 1 \in 0..Len(s) /\ P(m - 1)
    BY <1>1, <2>2, <2>3, <2>4
  <2>6. f[m] = Append(f[m - 1], s[m])
    <3>1. m \in DOMAIN s
      BY <1>1, <2>3, <2>4
    <3>2. QED
      BY <1>1, <1>2, <2>3, <2>4, <3>1 DEF Selects
  <2>7. IsSequence(f[m - 1]) /\ Len(f[m - 1]) = m - 1 /\ \A i \in 1..m - 1 : f[m - 1][i] = s[i]
    BY <2>5 DEF P
  <2>8. /\ IsSequence(f[m]) /\ Len(f[m]) = Len(f[m - 1]) + 1
        /\ \A i \in 1..Len(f[m - 1]) : f[m][i] = f[m - 1][i]
        /\ f[m][Len(f[m - 1]) + 1] = s[m]
    BY <2>6, <2>7, Appended
  <2>9. P(m)
    BY <1>1, <2>3, <2>4, <2>7, <2>8 DEF P
  <2>10. QED
    BY <2>3, <2>9
<1>4. P(Len(s))
  <2> HIDE DEF P
  <2>1. QED
    BY <1>1, <1>3
<1>5. QED
  BY <1>2, <1>4, SameSequence

\* e enumerates, in order, the positions up to n that keep holds.
Enumerates(e, keep, len, n) ==
    /\ e \in [1..len -> keep \cap 1..n]
    /\ \A i, j \in 1..len : i < j => e[i] < e[j]
    /\ \A p \in keep \cap 1..n : \E i \in 1..len : e[i] = p

\* It has no more of them than there are.
LEMMA EnumeratesAtMost ==
    ASSUME NEW len \in Nat, NEW n \in Nat, NEW keep, NEW e, Enumerates(e, keep, len, n)
    PROVE  len <= n
<1> DEFINE T == {i \in 1..len : e[i] < i}
<1>1. \A i \in 1..len : e[i] \in 1..n
  BY DEF Enumerates
<1>2. ASSUME T # {} PROVE FALSE
  <2>1. T \subseteq Nat
    OBVIOUS
  <2>2. PICK m \in T : \A i \in T : m <= i
    BY <1>2, <2>1, NatMin
  <2>3. m \in 1..len /\ e[m] < m
    OBVIOUS
  <2>4. m # 1
    BY <1>1, <2>3
  <2>5. m - 1 \in 1..len /\ m - 1 \notin T
    BY <2>2, <2>3, <2>4
  <2>6. e[m - 1] >= m - 1 /\ e[m - 1] < e[m]
    BY <1>1, <2>3, <2>5 DEF Enumerates
  <2>7. QED
    BY <1>1, <2>3, <2>5, <2>6
<1>3. CASE len = 0
  BY <1>3
<1>4. CASE len # 0
  BY <1>1, <1>2, <1>4
<1>5. QED
  BY <1>3, <1>4

\* Two sequences of one length, filtered at the same positions, give
\* sequences of one length whose elements come from the same positions.
LEMMA SelectAtBoth ==
    ASSUME NEW S, NEW s \in Seq(S), NEW R, NEW r \in Seq(R), Len(s) = Len(r), NEW keep
    PROVE  /\ SelectAt(s, keep) \in Seq(S)
           /\ SelectAt(r, keep) \in Seq(R)
           /\ Len(SelectAt(r, keep)) = Len(SelectAt(s, keep))
           /\ \E e : /\ Enumerates(e, keep, Len(SelectAt(s, keep)), Len(s))
                     /\ \A i \in 1..Len(SelectAt(s, keep)) :
                           /\ SelectAt(s, keep)[i] = s[e[i]]
                           /\ SelectAt(r, keep)[i] = r[e[i]]
<1>1. Len(s) \in Nat
  OBVIOUS
<1>2. PICK f : Selects(f, s, keep, Len(s)) /\ SelectAt(s, keep) = f[Len(s)]
  BY <1>1, SelectAtSelects
<1>3. PICK g : Selects(g, r, keep, Len(s)) /\ SelectAt(r, keep) = g[Len(s)]
  BY <1>1, SelectAtSelects
<1> DEFINE P(n) == /\ f[n] \in Seq(S) /\ g[n] \in Seq(R) /\ Len(g[n]) = Len(f[n])
                   /\ \E e : /\ Enumerates(e, keep, Len(f[n]), n)
                             /\ \A i \in 1..Len(f[n]) : f[n][i] = s[e[i]] /\ g[n][i] = r[e[i]]
           T == {n \in 0..Len(s) : ~P(n)}
<1>4. SUFFICES ASSUME T # {} PROVE FALSE
  <2>1. ASSUME T = {} PROVE P(Len(s))
    BY <1>1, <2>1
  <2>2. QED
    BY <1>2, <1>3, <2>1
<1>5. PICK m \in T : \A n \in T : m <= n
  <2> HIDE DEF P
  <2>1. T \subseteq Nat
    BY <1>1
  <2>2. QED
    BY <1>4, <2>1, NatMin
<1>6. m \in 0..Len(s) /\ ~P(m)
  BY <1>5
<1>7. m # 0
  <2>1. f[0] = << >> /\ g[0] = << >>
    BY <1>1, <1>2, <1>3 DEF Selects
  <2>2. Enumerates([i \in 1..0 |-> 0], keep, 0, 0)
    BY DEF Enumerates
  <2>3. P(0)
    BY <2>1, <2>2
  <2>4. QED
    BY <1>6, <2>3
<1>8. m - 1 \in 0..Len(s) /\ P(m - 1)
  BY <1>1, <1>5, <1>6, <1>7
<1>9. /\ f[m] = IF m \in keep THEN Append(f[m - 1], s[m]) ELSE f[m - 1]
      /\ g[m] = IF m \in keep THEN Append(g[m - 1], r[m]) ELSE g[m - 1]
  BY <1>1, <1>2, <1>3, <1>6, <1>7 DEF Selects
<1>10. PICK e : /\ Enumerates(e, keep, Len(f[m - 1]), m - 1)
                /\ \A i \in 1..Len(f[m - 1]) : f[m - 1][i] = s[e[i]] /\ g[m - 1][i] = r[e[i]]
  BY <1>8
<1> DEFINE len == Len(f[m - 1])
<1>11. len \in Nat /\ m \in Nat /\ s[m] \in S /\ r[m] \in R
  BY <1>1, <1>6, <1>7, <1>8
<1>12. CASE m \notin keep
  <2>1. f[m] = f[m - 1] /\ g[m] = g[m - 1]
    BY <1>9, <1>12
  <2>2. keep \cap 1..m = keep \cap 1..m - 1
    BY <1>11, <1>12
  <2>3. Enumerates(e, keep, len, m)
    BY <1>10, <2>2 DEF Enumerates
  <2>4. P(m)
    BY <1>8, <1>10, <2>1, <2>3
  <2>5. QED
    BY <1>6, <2>4
<1>13. CASE m \in keep
  <2> DEFINE h == [i \in 1..len + 1 |-> IF i = len + 1 THEN m ELSE e[i]]
  <2>1. f[m] = Append(f[m - 1], s[m]) /\ g[m] = Append(g[m - 1], r[m])
    BY <1>9, <1>13
  <2>2. /\ f[m] \in Seq(S) /\ g[m] \in Seq(R)
        /\ Len(f[m]) = len + 1 /\ Len(g[m]) = len + 1
    BY <1>8, <1>11, <2>1
  <2>3. \A i \in 1..len : h[i] = e[i] /\ e[i] \in keep \cap 1..m - 1
    BY <1>10, <1>11 DEF Enumerates
  <2>4. h[len + 1] = m
    BY <1>11
  <2>5. Enumerates(h, keep, len + 1, m)
    <3>1. h \in [1..len + 1 -> keep \cap 1..m]
      <4>1. \A i \in 1..len + 1 : h[i] \in keep \cap 1..m
        <5> SUFFICES ASSUME NEW i \in 1..len + 1
                     PROVE  h[i] \in keep \cap 1..m
          OBVIOUS
        <5>1. CASE i = len + 1
          <6>1. h[i] = m
            BY <2>4, <5>1
          <6>2. m \in keep \cap 1..m
            BY <1>7, <1>11, <1>13
          <6>3. QED
            BY <6>1, <6>2
        <5>2. CASE i # len + 1
          <6>1. i \in 1..len
            BY <1>11, <5>2
          <6>2. h[i] \in keep \cap 1..m - 1
            BY <2>3, <6>1
          <6>3. QED
            BY <1>11, <6>2
        <5>3. QED
          BY <5>1, <5>2
      <4>2. QED
        BY <4>1
    <3> HIDE DEF h
    <3>2. \A i, j \in 1..len + 1 : i < j => h[i] < h[j]
      <4> SUFFICES ASSUME NEW i \in 1..len + 1, NEW j \in 1..len + 1, i < j
                   PROVE  h[i] < h[j]
        OBVIOUS
      <4>1. i \in 1..len
        BY <1>11
      <4>2. CASE j = len + 1
        <5>1. h[i] \in 1..m - 1 /\ h[j] = m
          BY <2>3, <2>4, <4>1, <4>2
        <5>2. QED
          BY <1>11, <5>1
      <4>3. CASE j # len + 1
        <5>1. j \in 1..len
          BY <1>11, <4>3
        <5>2. QED
          BY <1>10, <2>3, <4>1, <5>1 DEF Enumerates
      <4>4. QED
        BY <4>2, <4>3
    <3>3. \A p \in keep \cap 1..m : \E i \in 1..len + 1 : h[i] = p
      <4> SUFFICES ASSUME NEW p \in keep \cap 1..m
                   PROVE  \E i \in 1..len + 1 : h[i] = p
        OBVIOUS
      <4>1. CASE p = m
        <5>1. len + 1 \in 1..len + 1
          BY <1>11
        <5>2. QED
          BY <2>4, <4>1, <5>1
      <4>2. CASE p # m
        <5>1. p \in keep \cap 1..m - 1
          BY <1>11, <4>2
        <5>2. PICK i \in 1..len : e[i] = p
          BY <1>10, <5>1 DEF Enumerates
        <5>3. i \in 1..len + 1 /\ h[i] = p
          BY <1>11, <2>3, <5>2
        <5>4. QED
          BY <5>3
      <4>3. QED
        BY <4>1, <4>2
    <3>4. QED
      BY <3>1, <3>2, <3>3 DEF Enumerates
  <2>6. \A i \in 1..len + 1 : f[m][i] = s[h[i]] /\ g[m][i] = r[h[i]]
    <3> SUFFICES ASSUME NEW i \in 1..len + 1
                 PROVE  f[m][i] = s[h[i]] /\ g[m][i] = r[h[i]]
      OBVIOUS
    <3>1. CASE i = len + 1
      <4>1. f[m][len + 1] = s[m] /\ g[m][len + 1] = r[m]
        <5>1. /\ f[m - 1] \in Seq(S) /\ g[m - 1] \in Seq(R)
              /\ Len(f[m - 1]) = len /\ Len(g[m - 1]) = len
          BY <1>8
        <5> HIDE DEF len
        <5>2. QED
          BY <1>11, <2>1, <5>1
      <4>2. QED
        BY <2>4, <3>1, <4>1
    <3>2. CASE i # len + 1
      <4>1. i \in 1..len
        BY <1>11, <3>2
      <4>2. f[m][i] = f[m - 1][i] /\ g[m][i] = g[m - 1][i]
        BY <1>8, <1>11, <2>1, <4>1
      <4>3. QED
        BY <1>10, <2>3, <4>1, <4>2
    <3>3. QED
      BY <3>1, <3>2
  <2>7. P(m)
    BY <2>2, <2>5, <2>6
  <2>8. QED
    BY <1>6, <2>7
<1>14. QED
  BY <1>12, <1>13

\* What SelectAt returns: the elements at the positions kept, in order.
LEMMA SelectAtPositions ==
    ASSUME NEW S, NEW s \in Seq(S), NEW keep
    PROVE  /\ SelectAt(s, keep) \in Seq(S)
           /\ \E e : /\ Enumerates(e, keep, Len(SelectAt(s, keep)), Len(s))
                     /\ \A i \in 1..Len(SelectAt(s, keep)) : SelectAt(s, keep)[i] = s[e[i]]
BY SelectAtBoth

-----------------------------------------------------------------------------
\* Ranking.

\* The elements of S that R puts before x.
Before(S, R, x) == {y \in S : <<y, x>> \in R}

StrictTotalOrder(S, R) ==
    /\ \A x \in S : <<x, x>> \notin R
    /\ \A x, y, z \in S : <<x, y>> \in R /\ <<y, z>> \in R => <<x, z>> \in R
    /\ \A x, y \in S : x # y => <<x, y>> \in R \/ <<y, x>> \in R

\* In a finite set that is totally ordered, each position has one element.
LEMMA Ranking ==
    ASSUME NEW S, IsFiniteSet(S), NEW R, StrictTotalOrder(S, R)
    PROVE  /\ Cardinality(S) \in Nat
           /\ \A i \in 1..Cardinality(S) : \E x \in S : Cardinality(Before(S, R, x)) = i - 1
           /\ \A x \in S : Cardinality(Before(S, R, x)) \in 0..Cardinality(S) - 1
           /\ \A x, y \in S :
                 <<x, y>> \in R <=> Cardinality(Before(S, R, x)) < Cardinality(Before(S, R, y))
<1> DEFINE rank == [x \in S |-> Cardinality(Before(S, R, x))]
           n == Cardinality(S)
<1>1. n \in Nat
  BY FS_CardinalityType
<1>2. \A x \in S : /\ IsFiniteSet(Before(S, R, x)) /\ rank[x] \in Nat /\ rank[x] < n
  <2> SUFFICES ASSUME NEW x \in S
               PROVE  IsFiniteSet(Before(S, R, x)) /\ rank[x] \in Nat /\ rank[x] < n
    OBVIOUS
  <2>1. Before(S, R, x) \in SUBSET S /\ Before(S, R, x) # S
    BY DEF Before, StrictTotalOrder
  <2>2. IsFiniteSet(Before(S, R, x)) /\ rank[x] <= n /\ rank[x] # n
    BY <2>1, FS_Subset
  <2>3. rank[x] \in Nat
    BY <2>2, FS_CardinalityType
  <2>4. QED
    BY <1>1, <2>2, <2>3
<1>3. \A x, y \in S : <<x, y>> \in R => rank[x] < rank[y]
  <2> SUFFICES ASSUME NEW x \in S, NEW y \in S, <<x, y>> \in R
               PROVE  rank[x] < rank[y]
    OBVIOUS
  <2>1. Before(S, R, x) \in SUBSET Before(S, R, y) /\ Before(S, R, x) # Before(S, R, y)
    BY DEF Before, StrictTotalOrder
  <2>2. Cardinality(Before(S, R, x)) <= Cardinality(Before(S, R, y))
        /\ Cardinality(Before(S, R, x)) # Cardinality(Before(S, R, y))
    BY <1>2, <2>1, FS_Subset
  <2>3. QED
    BY <1>2, <2>2
<1>4. \A x, y \in S : <<x, y>> \in R <=> rank[x] < rank[y]
  <2> SUFFICES ASSUME NEW x \in S, NEW y \in S, rank[x] < rank[y]
               PROVE  <<x, y>> \in R
    BY <1>3
  <2>1. x # y
    BY <1>2
  <2>2. ~(<<y, x>> \in R)
    BY <1>2, <1>3
  <2>3. QED
    BY <2>1, <2>2 DEF StrictTotalOrder
<1>5. rank \in Injection(S, 0..n - 1)
  <2>1. rank \in [S -> 0..n - 1]
    BY <1>1, <1>2
  <2>2. \A x, y \in S : rank[x] = rank[y] => x = y
    <3> SUFFICES ASSUME NEW x \in S, NEW y \in S, rank[x] = rank[y], x # y
                 PROVE  FALSE
      OBVIOUS
    <3>1. <<x, y>> \in R \/ <<y, x>> \in R
      BY DEF StrictTotalOrder
    <3>2. QED
      BY <1>2, <1>3, <3>1
  <2>3. QED
    BY <2>1, <2>2 DEF Injection, IsInjective
<1>6. IsFiniteSet(0..n - 1) /\ Cardinality(0..n - 1) = n
  BY <1>1, FS_Interval
<1>7. rank \in Surjection(S, 0..n - 1)
  BY <1>5, <1>6, FS_Injection
<1>8. \A i \in 1..n : \E x \in S : rank[x] = i - 1
  <2> HIDE DEF rank
  <2>1. \A j \in 0..n - 1 : \E x \in S : rank[x] = j
    BY <1>7 DEF Surjection
  <2> HIDE DEF n
  <2>2. \A i \in 1..n : i - 1 \in 0..n - 1
    BY <1>1
  <2>3. QED
    BY <2>1, <2>2
<1>9. QED
  BY <1>1, <1>2, <1>4, <1>8

-----------------------------------------------------------------------------
\* Sequences of numbers in the order of a dictionary.

Precedes(s, t) ==
    \E n \in 0..Len(s) :
        /\ n < Len(t)
        /\ \A i \in 1..n : s[i] = t[i]
        /\ n = Len(s) \/ s[n + 1] < t[n + 1]

\* No numeral precedes itself.
LEMMA PrecedesIrreflexive ==
    ASSUME NEW s \in Seq(Nat)
    PROVE  ~Precedes(s, s)
<1> SUFFICES ASSUME NEW n \in 0..Len(s), n < Len(s), n = Len(s) \/ s[n + 1] < s[n + 1]
             PROVE  FALSE
  BY DEF Precedes
<1>1. n + 1 \in 1..Len(s)
  OBVIOUS
<1>2. s[n + 1] \in Nat
  BY <1>1
<1>3. QED
  BY <1>2

\* What precedes what precedes a third precedes the third.
LEMMA PrecedesTransitive ==
    ASSUME NEW s \in Seq(Nat), NEW t \in Seq(Nat), NEW u \in Seq(Nat), Precedes(s, t), Precedes(t, u)
    PROVE  Precedes(s, u)
<1>1. PICK n \in 0..Len(s) : /\ n < Len(t) /\ \A i \in 1..n : s[i] = t[i]
                             /\ n = Len(s) \/ s[n + 1] < t[n + 1]
  BY DEF Precedes
<1>2. PICK m \in 0..Len(t) : /\ m < Len(u) /\ \A i \in 1..m : t[i] = u[i]
                             /\ m = Len(t) \/ t[m + 1] < u[m + 1]
  BY DEF Precedes
<1>3. /\ Len(s) \in Nat /\ \A i \in 1..Len(s) : s[i] \in Nat
      /\ Len(t) \in Nat /\ \A i \in 1..Len(t) : t[i] \in Nat
      /\ Len(u) \in Nat /\ \A i \in 1..Len(u) : u[i] \in Nat
  OBVIOUS
<1>4. CASE n < m
  <2>1. n < Len(u) /\ n + 1 \in 1..m
    BY <1>2, <1>3, <1>4
  <2>2. \A i \in 1..n : s[i] = u[i]
    BY <1>1, <1>2, <1>4
  <2>3. t[n + 1] = u[n + 1]
    BY <1>2, <2>1
  <2>4. QED
    BY <1>1, <2>1, <2>2, <2>3 DEF Precedes
<1>5. CASE n = m
  <2>1. \A i \in 1..n : s[i] = u[i]
    BY <1>1, <1>2, <1>5
  <2>2. n + 1 \in 1..Len(t) /\ n + 1 \in 1..Len(u) /\ n # Len(t)
    BY <1>1, <1>2, <1>3, <1>5
  <2>3. n = Len(s) \/ s[n + 1] < u[n + 1]
    <3>1. CASE n = Len(s)
      BY <3>1
    <3>2. CASE n # Len(s)
      <4>1. n + 1 \in 1..Len(s)
        BY <1>3, <3>2
      <4>2. s[n + 1] \in Nat /\ t[n + 1] \in Nat /\ u[n + 1] \in Nat
        BY <1>3, <2>2, <4>1
      <4>3. s[n + 1] < t[n + 1] /\ t[n + 1] < u[n + 1]
        BY <1>1, <1>2, <1>5, <2>2, <3>2
      <4>4. QED
        BY <4>2, <4>3, SMTT(30)
    <3>3. QED
      BY <3>1, <3>2
  <2>4. QED
    BY <1>2, <1>5, <2>1, <2>3 DEF Precedes
<1>6. CASE m < n
  <2>1. m \in 0..Len(s) /\ m + 1 \in 1..n /\ m # Len(t)
    BY <1>1, <1>3, <1>6
  <2>2. \A i \in 1..m : s[i] = u[i]
    BY <1>1, <1>2, <1>6
  <2>3. s[m + 1] < u[m + 1]
    BY <1>1, <1>2, <2>1
  <2>4. QED
    BY <1>2, <2>1, <2>2, <2>3 DEF Precedes
<1>7. QED
  BY <1>4, <1>5, <1>6

\* Of two that differ, one precedes the other.
LEMMA PrecedesTotal ==
    ASSUME NEW s \in Seq(Nat), NEW t \in Seq(Nat), s # t
    PROVE  Precedes(s, t) \/ Precedes(t, s)
<1> DEFINE T == {n \in Nat : n = Len(s) \/ n = Len(t) \/ s[n + 1] # t[n + 1]}
<1>1. Len(s) \in Nat /\ Len(t) \in Nat
  OBVIOUS
<1>2. T # {}
  BY <1>1
<1>3. PICK n \in T : \A m \in T : n <= m
  BY <1>2, NatMin
<1>4. n \in Nat /\ n <= Len(s) /\ n <= Len(t)
  <2>1. Len(s) \in T /\ Len(t) \in T
    BY <1>1
  <2>2. QED
    BY <1>3, <2>1
<1>5. \A i \in 1..n : s[i] = t[i]
  <2> SUFFICES ASSUME NEW i \in 1..n PROVE s[i] = t[i]
    OBVIOUS
  <2>1. i - 1 \in Nat /\ ~(n <= i - 1) /\ (i - 1) + 1 = i
    BY <1>4
  <2>2. i - 1 \notin T
    BY <1>3, <2>1
  <2>3. QED
    BY <2>1, <2>2
<1>6. CASE n = Len(s) /\ n < Len(t)
  BY <1>4, <1>5, <1>6 DEF Precedes
<1>7. CASE n = Len(t) /\ n < Len(s)
  BY <1>4, <1>5, <1>7 DEF Precedes
<1>8. CASE n = Len(s) /\ n = Len(t)
  <2>1. s = [i \in 1..Len(s) |-> s[i]] /\ t = [i \in 1..Len(t) |-> t[i]]
    OBVIOUS
  <2>2. QED
    BY <1>5, <1>8, <2>1
<1>9. CASE n < Len(s) /\ n < Len(t)
  <2>1. s[n + 1] # t[n + 1]
    BY <1>9
  <2>2. s[n + 1] \in Nat /\ t[n + 1] \in Nat
    BY <1>4, <1>9
  <2>3. s[n + 1] < t[n + 1] \/ t[n + 1] < s[n + 1]
    BY <2>1, <2>2
  <2>4. n \in 0..Len(s) /\ n \in 0..Len(t)
    BY <1>1, <1>4
  <2>5. QED
    BY <1>5, <1>9, <2>3, <2>4 DEF Precedes
<1>10. QED
  BY <1>1, <1>4, <1>6, <1>7, <1>8, <1>9

=============================================================================
