---------------------------- MODULE AreSequences ----------------------------
(***************************************************************************)
(* The elements of a sequence that a filter lets through.  The filter is   *)
(* given as the set of positions it keeps, and the recursion as a function *)
(* on the prefixes, so that AreLemmas can say what it returns.             *)
(***************************************************************************)
EXTENDS Naturals, Sequences

\* s is a sequence, of whatever it holds.
IsSequence(s) == s \in Seq({s[i] : i \in DOMAIN s})

\* The elements of s at the positions in keep, in order.
SelectAt(s, keep) ==
    LET kept[n \in 0..Len(s)] ==
            IF n = 0 THEN << >>
            ELSE IF n \in keep THEN Append(kept[n - 1], s[n])
            ELSE kept[n - 1]
    IN  kept[Len(s)]

=============================================================================
