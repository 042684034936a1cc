------------------------------ MODULE AreTable ------------------------------
(***************************************************************************)
(* What the in-memory model store promises the program that calls it: one  *)
(* table per collection, to which rows are only ever added, each under a   *)
(* key of its own.  A call either adds one row and returns it, or is       *)
(* refused and leaves every table as it was; a read by key returns the row *)
(* as it was added, and misses only a key that has no row.  AreStore       *)
(* (store.rs) is shown to implement this.                                  *)
(***************************************************************************)
CONSTANTS
    Collections,    \* the collections a program can name
    Keys,           \* the keys a row can be asked for
    NoKey,          \* the key of a call that addresses no row
    Refusals,       \* the errors a call can be refused with
    Missing,        \* the error of a read that finds no row
    NoError         \* the error of a call that succeeds

VARIABLES
    table,          \* table[c]: the rows of c, by key
    reply           \* the last call and what it returned to its caller

vars == <<table, reply>>

Reply(op, c, key, v, e) == [op |-> op, coll |-> c, key |-> key, value |-> v, error |-> e]
Ok(op, c, key, v) == Reply(op, c, key, v, NoError)
Refused(op, c, key, e) == Reply(op, c, key, << >>, e)

Init ==
    /\ table = [c \in Collections |-> << >>]
    /\ reply \in {Refused("none", c, NoKey, NoError) : c \in Collections}

\* The row a step returns enters under a key no row of the collection has.
Create(c) ==
    /\ \E key \in Keys \ DOMAIN table[c], row \in {reply'.value} :
          /\ table' = [table EXCEPT ![c] =
                          [k \in DOMAIN table[c] \cup {key} |->
                              IF k = key THEN row ELSE table[c][k]]]
          /\ reply' = Ok("insert", c, key, row)

\* A refused call changes no table.
Refuse(c) ==
    /\ \E op \in {"insert", "get"}, e \in Refusals : reply' = Refused(op, c, NoKey, e)
    /\ UNCHANGED table

\* A read by key returns the row stored under it.
Read(c) ==
    /\ \E key \in DOMAIN table[c] : reply' = Ok("get", c, key, table[c][key])
    /\ UNCHANGED table

\* A read misses only a key that no row has.
Miss(c) ==
    /\ \E key \in Keys \ DOMAIN table[c] : reply' = Refused("get", c, key, Missing)
    /\ UNCHANGED table

\* A listing changes nothing.  (What it holds is ListingIsComplete's business.)
ReadAll(c) ==
    /\ \E rows \in {reply'.value} : reply' = Ok("all", c, NoKey, rows)
    /\ UNCHANGED table

Next == \E c \in Collections : Create(c) \/ Refuse(c) \/ Read(c) \/ Miss(c) \/ ReadAll(c)

Spec == Init /\ [][Next]_vars

=============================================================================
