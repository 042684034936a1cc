-------------------------- MODULE AreCheckedProofs --------------------------
(***************************************************************************)
(* Proofs about AreChecked.  First the shape of the stack, for any         *)
(* statements; then that the checker's types are what the interpreter has: *)
(* of literals and paths, of the builtins, the store and constructors, of  *)
(* calls, of the bindings of an arm, and of each statement of each         *)
(* activation.                                                             *)
(***************************************************************************)
EXTENDS AreChecked, AreLemmas

\* What is left without its last element.
LEMMA Fronted ==
    ASSUME NEW s, IsSequence(s), s # << >>
    PROVE  /\ IsSequence(Front(s)) /\ Len(Front(s)) = Len(s) - 1
           /\ \A i \in 1..Len(s) - 1 : Front(s)[i] = s[i]
<1>1. Len(s) \in Nat /\ Len(s) # 0
  BY SequenceFacts
<1>2. /\ IsSequence(SubSeq(s, 1, Len(s) - 1)) /\ Len(SubSeq(s, 1, Len(s) - 1)) = Len(s) - 1
      /\ \A i \in 1..Len(s) - 1 : SubSeq(s, 1, Len(s) - 1)[i] = s[1 + i - 1]
  <2>1. Len(s) - 1 \in 0..Len(s) /\ 1 \in Nat \ {0} /\ 1 <= (Len(s) - 1) + 1
    BY <1>1
  <2>2. (Len(s) - 1) - 1 + 1 = Len(s) - 1
    BY <1>1
  <2> HIDE <1>1
  <2>3. QED
    BY <2>1, <2>2, Subsequence
<1>3. QED
  BY <1>1, <1>2 DEF Front

-----------------------------------------------------------------------------
(***************************************************************************)
(* The shape of the state.                                                 *)
(***************************************************************************)

\* What a frame has to do.
IsItem(item) ==
    \/ IsSimple(item) \/ IsMatch(item)
    \/ item.s = "raise" /\ IsExpr(item.value)
    \/ item.s = "restore"

IsFrame(frame) ==
    /\ DOMAIN frame = {"fn", "todo", "got", "previous_env"}
    /\ frame.fn \in DOMAIN Functions
    /\ IsSequence(frame.todo) /\ \A j \in 1..Len(frame.todo) : IsItem(frame.todo[j])

\* It waits for the call in its first statement, or goes on with its result.
Calls(frame) == /\ frame.todo # << >> /\ Head(frame.todo).s # "restore"
                /\ IsUserCall(Untried(Head(frame.todo).value))

FramesInv(frames) ==
    /\ IsSequence(frames)
    /\ \A i \in 1..Len(frames) :
          /\ IsFrame(frames[i])
          /\ i < Len(frames) => frames[i].got = {} /\ Calls(frames[i])
          /\ frames[i].got # {} => Calls(frames[i])

ModuleInv ==
    /\ order \in Orders /\ at \in Nat \ {0}
    /\ DOMAIN bodies = DOMAIN Functions /\ DOMAIN typed = DOMAIN Functions
    /\ \A fn \in DOMAIN Functions :
          /\ IsSequence(bodies[fn]) /\ IsSequence(typed[fn])
          /\ Len(typed[fn]) = Len(bodies[fn]) + 1
          /\ \A i \in 1..Len(bodies[fn]) : bodies[fn][i] \in Statements[fn]

RunInv ==
    /\ stack # << >> => outcome = Nothing
    /\ stack # << >> \/ outcome # Nothing => Accepted
    /\ stack = << >> => env = << >>

ShapeInv == ModuleInv /\ RunInv /\ FramesInv(stack)

\* A statement that a function may have is something to do.
LEMMA StatementItems ==
    ASSUME NEW fn \in DOMAIN Functions, NEW st \in Statements[fn]
    PROVE  IsItem(st)
BY CheckedAssumption DEF IsItem

\* Nothing is asked of a stack that is empty.
LEMMA EmptyStack == FramesInv(<< >>)
<1>1. << >> \in Seq({}) /\ Len(<< >>) = 0
  OBVIOUS
<1>2. IsSequence(<< >>)
  BY <1>1, SequenceOf
<1>3. QED
  BY <1>1, <1>2 DEF FramesInv

\* The entered function ends.
LEMMA ShapeEnd ==
    ASSUME ShapeInv, Accepted, UNCHANGED checkVars, UNCHANGED bodies, NEW result, End(result)
    PROVE  ShapeInv'
<1>1. stack' = << >> /\ env' = << >>
  BY DEF End
<1>2. FramesInv(stack)'
  BY <1>1, EmptyStack
<1>3. ModuleInv'
  BY DEF ShapeInv, ModuleInv, checkVars
<1>4. Accepted'
  BY DEF Accepted, checkVars
<1>5. QED
  BY <1>1, <1>2, <1>3, <1>4 DEF ShapeInv, RunInv

\* What goes before the rest of a frame's statements.
AreItems(items) ==
    \/ items = << >>
    \/ \E x : items = <<x>> /\ IsItem(x)
    \/ \E x, y : items = <<x, y>> /\ IsItem(x) /\ IsItem(y)

\* What goes before the rest is, with the rest, something to do.
LEMMA ItemsBefore ==
    ASSUME NEW items, AreItems(items), NEW rest, IsSequence(rest),
           \A j \in 1..Len(rest) : IsItem(rest[j])
    PROVE  IsSequence(items \o rest) /\ \A j \in 1..Len(items \o rest) : IsItem((items \o rest)[j])
<1> DEFINE Fine_(s) == IsSequence(s) /\ \A j \in 1..Len(s) : IsItem(s[j])
<1>1. ASSUME NEW s, Fine_(s), NEW x, IsItem(x)
      PROVE  Fine_(<<x>> \o s)
  <2>1. /\ IsSequence(<<x>> \o s) /\ Len(<<x>> \o s) = Len(s) + 1 /\ Head(<<x>> \o s) = x
        /\ Tail(<<x>> \o s) = s /\ <<x>> \o s # << >>
    BY <1>1, Prefixed
  <2> DEFINE t == <<x>> \o s
  <2> HIDE DEF t
  <2>2. Head(t) = t[1] /\ \A i \in 1..Len(t) - 1 : Tail(t)[i] = t[i + 1]
    BY <2>1, Tailed DEF t
  <2>3. Len(s) \in Nat
    BY <1>1, SequenceFacts
  <2>4. \A j \in 1..Len(t) : IsItem(t[j])
    <3> SUFFICES ASSUME NEW j \in 1..Len(t) PROVE IsItem(t[j])
      OBVIOUS
    <3>1. CASE j = 1
      BY <1>1, <2>1, <2>2, <3>1 DEF t
    <3>2. CASE j # 1
      <4>1. j - 1 \in 1..Len(s) /\ j - 1 \in 1..Len(t) - 1 /\ (j - 1) + 1 = j
        BY <2>1, <2>3, <3>2 DEF t
      <4>2. t[j] = s[j - 1]
        BY <2>1, <2>2, <4>1 DEF t
      <4>3. QED
        BY <1>1, <4>1, <4>2
    <3>3. QED
      BY <3>1, <3>2
  <2>5. QED
    BY <2>1, <2>4 DEF t
<1> HIDE DEF Fine_
<1>2. Fine_(rest)
  BY DEF Fine_
<1>3. CASE items = << >>
  <2>1. << >> \o rest = rest
    <3>1. PICK S : rest \in Seq(S)
      BY SequenceIn
    <3>2. QED
      BY <3>1
  <2>2. QED
    BY <1>2, <1>3, <2>1 DEF Fine_
<1>4. ASSUME NEW x, items = <<x>>, IsItem(x)
      PROVE  Fine_(items \o rest)
  BY <1>1, <1>2, <1>4
<1>5. ASSUME NEW x, NEW y, items = <<x, y>>, IsItem(x), IsItem(y)
      PROVE  Fine_(items \o rest)
  <2>1. Fine_(<<x>> \o (<<y>> \o rest))
    BY <1>1, <1>2, <1>5
  <2>2. QED
    BY <1>5, <2>1, Prefixed2
<1>6. QED
  BY <1>3, <1>4, <1>5 DEF AreItems, Fine_

\* One frame has less, or something else, to do.
Advanced(items) ==
    /\ stack' # << >> /\ Len(stack') = Len(stack)
    /\ \A i \in 1..Len(stack) - 1 : stack'[i] = stack[i]
    /\ stack'[Len(stack)].fn = Top.fn
    /\ stack'[Len(stack)].todo = items \o Tail(Top.todo)
    /\ stack'[Len(stack)].got = {}
    /\ stack'[Len(stack)].previous_env = Top.previous_env

\* A frame with other statements to do is a frame.
LEMMA FrameExcept ==
    ASSUME NEW f, DOMAIN f = {"fn", "todo", "got", "previous_env"}, NEW todo,
           NEW g, g = [f EXCEPT !.todo = todo, !.got = {}]
    PROVE  /\ DOMAIN g = {"fn", "todo", "got", "previous_env"}
           /\ g.fn = f.fn /\ g.todo = todo /\ g.got = {} /\ g.previous_env = f.previous_env
OBVIOUS

\* The stack whose last frame goes on keeps its shape.
LEMMA FrameAdvances ==
    ASSUME FramesInv(stack), stack # << >>, NEW items,
           IsSequence(items \o Tail(Top.todo)),
           \A j \in 1..Len(items \o Tail(Top.todo)) : IsItem((items \o Tail(Top.todo))[j]),
           stack' = [stack EXCEPT ![Len(stack)].todo = items \o Tail(Top.todo),
                                  ![Len(stack)].got = {}]
    PROVE  FramesInv(stack') /\ Advanced(items)
<1> DEFINE n == Len(stack)
           todo == items \o Tail(Top.todo)
           frame == [Top EXCEPT !.todo = todo, !.got = {}]
<1>1. IsSequence(stack) /\ n \in Nat /\ n \in 1..n /\ DOMAIN stack = 1..n
  BY SequenceFacts DEF FramesInv
<1>2. IsFrame(Top)
  BY <1>1 DEF FramesInv, Top
<1>3. stack' = [stack EXCEPT ![n] = frame]
  BY <1>1 DEF Top
<1> HIDE DEF todo
<1>4. /\ DOMAIN frame = {"fn", "todo", "got", "previous_env"}
      /\ frame.fn = Top.fn /\ frame.todo = todo /\ frame.got = {}
      /\ frame.previous_env = Top.previous_env
  <2>1. DOMAIN Top = {"fn", "todo", "got", "previous_env"}
    BY <1>2 DEF IsFrame
  <2>2. QED
    BY <2>1, FrameExcept
<1> HIDE DEF frame
<1>6. /\ IsSequence(stack') /\ Len(stack') = n /\ stack'[n] = frame
      /\ \A j \in 1..n \ {n} : stack'[j] = stack[j]
  <2>1. /\ DOMAIN stack' = DOMAIN stack /\ stack' \in [DOMAIN stack -> {stack'[j] : j \in DOMAIN stack}]
        /\ stack'[n] = frame /\ \A j \in 1..n \ {n} : stack'[j] = stack[j]
    BY <1>1, <1>3
  <2>2. IsSequence(stack)
    BY <1>1
  <2>3. IsSequence(stack') /\ Len(stack') = Len(stack)
    BY <2>1, <2>2, SamePositions
  <2>4. QED
    BY <2>1, <2>3
<1>7. IsFrame(frame)
  BY <1>2, <1>4 DEF IsFrame, todo
<1>8. FramesInv(stack')
  BY <1>1, <1>4, <1>6, <1>7 DEF FramesInv
<1>9. stack' # << >>
  BY <1>1, <1>6, SequenceFacts
<1>10. \A i \in 1..n - 1 : stack'[i] = stack[i]
  BY <1>1, <1>6
<1>11. QED
  BY <1>4, <1>6, <1>8, <1>9, <1>10 DEF todo, Advanced

\* Advance keeps the shape, and changes the last frame alone.
LEMMA ShapeAdvance ==
    ASSUME ShapeInv, Accepted, UNCHANGED checkVars, UNCHANGED bodies,
           Running, Top.todo # << >>, NEW names, NEW items, AreItems(items),
           Advance(names, items)
    PROVE  ShapeInv' /\ Advanced(items) /\ env' = names /\ outcome' = outcome
<1> DEFINE rest == Tail(Top.todo)
<1>1. IsFrame(Top)
  BY SequenceFacts DEF ShapeInv, FramesInv, Running, Top
<1>2. IsSequence(rest) /\ \A j \in 1..Len(rest) : IsItem(rest[j])
  BY <1>1, Tailed DEF IsFrame
<1>3. IsSequence(items \o rest) /\ \A j \in 1..Len(items \o rest) : IsItem((items \o rest)[j])
  BY <1>2, ItemsBefore
<1>4. stack' = [stack EXCEPT ![Len(stack)].todo = items \o rest, ![Len(stack)].got = {}]
      /\ env' = names /\ outcome' = outcome
  BY DEF Advance
<1>5. FramesInv(stack') /\ Advanced(items)
  BY <1>3, <1>4, FrameAdvances DEF ShapeInv, Running
<1>6. ModuleInv'
  BY DEF ShapeInv, ModuleInv, checkVars
<1>7. Accepted'
  BY DEF Accepted, checkVars
<1>8. QED
  BY <1>4, <1>5, <1>6, <1>7 DEF ShapeInv, RunInv, Running, Advanced

\* The first of some positions is one of them.
LEMMA FirstOf ==
    ASSUME NEW positions, positions \subseteq Nat, positions # {}
    PROVE  First(positions) \in positions /\ \A j \in positions : First(positions) <= j
BY NatMin DEF First

\* The running function returns to its caller.
Returned(v) ==
    /\ Len(stack') = Len(stack) - 1
    /\ \A i \in 1..Len(stack) - 2 : stack'[i] = stack[i]
    /\ stack'[Len(stack) - 1].fn = stack[Len(stack) - 1].fn
    /\ stack'[Len(stack) - 1].todo = stack[Len(stack) - 1].todo
    /\ stack'[Len(stack) - 1].got = {v}
    /\ stack'[Len(stack) - 1].previous_env = stack[Len(stack) - 1].previous_env

\* A frame that has got a value is a frame.
LEMMA GotExcept ==
    ASSUME NEW f, DOMAIN f = {"fn", "todo", "got", "previous_env"}, NEW got,
           NEW g, g = [f EXCEPT !.got = got]
    PROVE  /\ DOMAIN g = {"fn", "todo", "got", "previous_env"}
           /\ g.fn = f.fn /\ g.todo = f.todo /\ g.got = got /\ g.previous_env = f.previous_env
OBVIOUS

\* A return to a caller keeps the shape: the caller has the value.
LEMMA ShapeReturn ==
    ASSUME ShapeInv, Accepted, UNCHANGED checkVars, UNCHANGED bodies,
           Running, Len(stack) # 1, NEW v, exec_return(v)
    PROVE  ShapeInv' /\ Returned(v) /\ stack' # << >> /\ env' = Top.previous_env /\ outcome' = outcome
<1> DEFINE n == Len(stack) - 1
           front == Front(stack)
           frame == [front[n] EXCEPT !.got = {v}]
<1>1. IsSequence(stack) /\ Len(stack) \in Nat /\ Len(stack) # 0
  BY SequenceFacts DEF ShapeInv, FramesInv, Running
<1>2. n \in Nat /\ n >= 1
  BY <1>1
<1>3. IsSequence(front) /\ Len(front) = n /\ \A i \in 1..n : front[i] = stack[i]
  BY <1>1, Fronted DEF Running
<1>4. DOMAIN front = 1..n
  BY <1>3, SequenceFacts
<1>5. stack' = [front EXCEPT ![n].got = {v}] /\ env' = Top.previous_env /\ outcome' = outcome
  BY DEF exec_return
<1> HIDE DEF n, front
<1>6. stack' = [front EXCEPT ![n] = frame]
  BY <1>2, <1>4, <1>5
<1> HIDE DEF frame
<1>7. /\ DOMAIN stack' = DOMAIN front /\ stack' \in [DOMAIN front -> {stack'[j] : j \in DOMAIN front}]
      /\ stack'[n] = frame /\ \A j \in 1..n : j # n => stack'[j] = front[j]
  <2>1. n \in DOMAIN front
    BY <1>2, <1>4
  <2> HIDE <1>2, <1>4, <1>5
  <2>2. DOMAIN stack' = DOMAIN front /\ stack' \in [DOMAIN front -> {stack'[j] : j \in DOMAIN front}]
    BY <1>6
  <2>3. stack'[n] = frame /\ \A j \in DOMAIN front : j # n => stack'[j] = front[j]
    BY <1>6, <2>1
  <2>4. QED
    BY <1>4, <2>2, <2>3
<1>8. IsSequence(stack') /\ Len(stack') = n
  <2>1. IsSequence(front)
    BY <1>3
  <2>2. QED
    BY <1>3, <1>7, <2>1, SamePositions
<1>9. front[n] = stack[n] /\ IsFrame(stack[n]) /\ Calls(stack[n])
  <2>1. n \in 1..Len(stack) /\ n < Len(stack)
    BY <1>1, <1>2 DEF n
  <2>2. QED
    BY <1>2, <1>3, <2>1 DEF ShapeInv, FramesInv
<1>10. /\ DOMAIN frame = {"fn", "todo", "got", "previous_env"}
       /\ frame.fn = stack[n].fn /\ frame.todo = stack[n].todo /\ frame.got = {v}
       /\ frame.previous_env = stack[n].previous_env
  BY <1>9, GotExcept DEF IsFrame, frame
<1>11. IsFrame(frame) /\ Calls(frame)
  BY <1>9, <1>10 DEF IsFrame, Calls
<1>12. \A i \in 1..n - 1 : stack'[i] = stack[i]
  BY <1>2, <1>3, <1>7, SMTT(30)
<1>13. FramesInv(stack')
  <2> SUFFICES ASSUME NEW i \in 1..n
               PROVE  /\ IsFrame(stack'[i])
                      /\ i < n => stack'[i].got = {} /\ Calls(stack'[i])
                      /\ stack'[i].got # {} => Calls(stack'[i])
    BY <1>8 DEF FramesInv
  <2>1. CASE i = n
    BY <1>2, <1>7, <1>11, <2>1
  <2>2. CASE i # n
    <3>1. i \in 1..n - 1 /\ i \in 1..Len(stack) /\ i < Len(stack)
      BY <1>1, <1>2, <2>2 DEF n
    <3>2. QED
      BY <1>12, <3>1 DEF ShapeInv, FramesInv
  <2>3. QED
    BY <2>1, <2>2
<1>14. stack' # << >>
  BY <1>2, <1>8, SequenceFacts
<1>15. ModuleInv' /\ Accepted'
  BY DEF ShapeInv, ModuleInv, Accepted, checkVars
<1>16. Returned(v)
  <2>1. Len(stack) - 2 = n - 1
    BY <1>1 DEF n
  <2>2. QED
    BY <1>7, <1>8, <1>10, <1>12, <2>1 DEF Returned, n
<1>17. outcome' = Nothing
  BY <1>5 DEF ShapeInv, RunInv, Running
<1>18. QED
  BY <1>5, <1>13, <1>14, <1>15, <1>16, <1>17 DEF ShapeInv, RunInv

\* A function is entered.
Entered(fn, args) ==
    /\ Len(stack') = Len(stack) + 1
    /\ \A i \in 1..Len(stack) : stack'[i] = stack[i]
    /\ stack'[Len(stack) + 1].fn = fn /\ stack'[Len(stack) + 1].todo = bodies[fn]
    /\ stack'[Len(stack) + 1].got = {} /\ stack'[Len(stack) + 1].previous_env = env

\* A call that enters a body keeps the shape: the body is the last frame.
LEMMA ShapeEnter ==
    ASSUME ShapeInv, Accepted, UNCHANGED checkVars, UNCHANGED bodies,
           outcome = Nothing, Running => Calls(Top) /\ Top.got = {},
           NEW fn \in DOMAIN Functions, NEW args,
           Len(args) = Len(Functions[fn].params) \/ args = << >>, bodies[fn] # << >>,
           interpret_function_with_args(fn, args)
    PROVE  ShapeInv' /\ Entered(fn, args) /\ stack' # << >> /\ outcome' = outcome
<1> DEFINE n == Len(stack)  frame == Frame(fn, bodies[fn])
<1>1. stack' = Append(stack, frame) /\ outcome' = outcome
  BY DEF interpret_function_with_args
<1>2. IsSequence(stack) /\ n \in Nat
  BY SequenceFacts DEF ShapeInv, FramesInv
<1>3. /\ DOMAIN frame = {"fn", "todo", "got", "previous_env"} /\ frame.fn = fn
      /\ frame.todo = bodies[fn] /\ frame.got = {} /\ frame.previous_env = env
  BY DEF Frame
<1> HIDE DEF frame
<1>4. /\ IsSequence(stack') /\ Len(stack') = n + 1 /\ \A i \in 1..n : stack'[i] = stack[i]
      /\ stack'[n + 1] = frame
  BY <1>1, <1>2, Appended
<1>5. IsFrame(frame)
  <2>1. IsSequence(bodies[fn]) /\ \A i \in 1..Len(bodies[fn]) : bodies[fn][i] \in Statements[fn]
    BY DEF ShapeInv, ModuleInv
  <2>2. \A i \in 1..Len(bodies[fn]) : IsItem(bodies[fn][i])
    BY <2>1, StatementItems
  <2>3. QED
    BY <1>3, <2>1, <2>2 DEF IsFrame
<1>6. n # 0 => Calls(stack[n]) /\ stack[n].got = {}
  BY <1>2, SequenceFacts DEF Running, Top
<1>7. FramesInv(stack')
  <2> SUFFICES ASSUME NEW i \in 1..n + 1
               PROVE  /\ IsFrame(stack'[i])
                      /\ i < n + 1 => stack'[i].got = {} /\ Calls(stack'[i])
                      /\ stack'[i].got # {} => Calls(stack'[i])
    BY <1>4 DEF FramesInv
  <2>1. CASE i = n + 1
    BY <1>3, <1>4, <1>5, <2>1
  <2>2. CASE i = n
    <3>1. i \in 1..n
      BY <1>2, <2>2
    <3>2. QED
      BY <1>4, <1>6, <2>2, <3>1 DEF ShapeInv, FramesInv
  <2>3. CASE i < n
    <3>1. i \in 1..n
      BY <1>2, <2>3
    <3>2. QED
      BY <1>4, <2>3, <3>1 DEF ShapeInv, FramesInv
  <2>4. QED
    BY <1>2, <2>1, <2>2, <2>3
<1>8. stack' # << >>
  BY <1>2, <1>4, SequenceFacts
<1>9. ModuleInv' /\ Accepted'
  BY DEF ShapeInv, ModuleInv, Accepted, checkVars
<1>10. Entered(fn, args)
  BY <1>3, <1>4 DEF Entered
<1>11. QED
  BY <1>1, <1>7, <1>8, <1>9, <1>10 DEF ShapeInv, RunInv

-----------------------------------------------------------------------------
\* Every action keeps the shape.

\* The running activation is a frame; it has got a value only for a call.
LEMMA TopIsFrame ==
    ASSUME ShapeInv, Running
    PROVE  /\ IsFrame(Top)
           /\ Top.got # {} => Calls(Top)
           /\ Top.todo # << >> => IsItem(Head(Top.todo))
<1>1. IsSequence(stack) /\ Len(stack) \in Nat /\ Len(stack) # 0
  BY SequenceFacts DEF ShapeInv, FramesInv, Running
<1>2. IsFrame(Top) /\ (Top.got # {} => Calls(Top))
  BY <1>1 DEF ShapeInv, FramesInv, Top
<1>3. ASSUME Top.todo # << >> PROVE IsItem(Head(Top.todo))
  <2>1. IsSequence(Top.todo) /\ \A j \in 1..Len(Top.todo) : IsItem(Top.todo[j])
    BY <1>2 DEF IsFrame
  <2>2. Head(Top.todo) = Top.todo[1] /\ Len(Top.todo) >= 1
    BY <1>3, <2>1, Tailed
  <2>3. Len(Top.todo) \in Nat
    BY <2>1, SequenceFacts
  <2>4. QED
    BY <2>1, <2>2, <2>3
<1>4. QED
  BY <1>2, <1>3

\* The arm that is taken is one of the arms.
LEMMA ArmTaken ==
    ASSUME NEW st, IsMatch(st), NEW variant,
           NEW fit, fit = {k \in DOMAIN st.arms : st.arms[k].variant = variant}, fit # {}
    PROVE  /\ First(fit) \in 1..Len(st.arms) /\ st.arms[First(fit)].variant = variant
           /\ IsSequence(st.arms[First(fit)].bindings) /\ IsSimple(st.arms[First(fit)].body)
<1>1. DOMAIN st.arms = 1..Len(st.arms) /\ Len(st.arms) \in Nat
  BY SequenceFacts DEF IsMatch
<1>2. fit \subseteq Nat
  BY <1>1
<1>3. First(fit) \in fit
  BY <1>2, FirstOf
<1>4. QED
  BY <1>1, <1>3 DEF IsMatch

\* Whatever a statement does with a value keeps the shape.
LEMMA ShapeComplete ==
    ASSUME ShapeInv, Accepted, UNCHANGED checkVars, UNCHANGED bodies,
           Running, Top.todo # << >>, Head(Top.todo).s # "restore", NEW v,
           Complete(Head(Top.todo), v)
    PROVE  ShapeInv'
<1> DEFINE st == Head(Top.todo)
<1>1. IsItem(st)
  BY TopIsFrame
<1> HIDE DEF st
<1>2. ASSUME NEW names, NEW items, AreItems(items), Advance(names, items)
      PROVE  ShapeInv'
  BY <1>2, ShapeAdvance
<1>3. ASSUME NEW result, End(result)
      PROVE  ShapeInv'
  BY <1>3, ShapeEnd
<1>4. AreItems(<< >>)
  BY DEF AreItems
<1>5. CASE st.s = "let"
  <2>1. Advance(Bind(env, st.name, v), << >>)
    BY <1>5 DEF Complete, st
  <2>2. QED
    BY <1>2, <1>4, <2>1
<1>6. CASE st.s = "expr"
  <2>1. Advance(env, << >>)
    BY <1>6 DEF Complete, st
  <2>2. QED
    BY <1>2, <1>4, <2>1
<1>7. CASE st.s = "return"
  <2>1. exec_return(v)
    BY <1>7 DEF Complete, st
  <2>2. CASE Len(stack) = 1
    <3>1. End(Value(v))
      BY <2>1, <2>2 DEF exec_return
    <3>2. QED
      BY <1>3, <3>1
  <2>3. CASE Len(stack) # 1
    BY <2>1, <2>3, ShapeReturn
  <2>4. QED
    BY <2>2, <2>3
<1>8. CASE st.s = "ensure"
  <2>1. exec_ensure(st, v)
    BY <1>8 DEF Complete, st
  <2>2. \/ Advance(env, << >>)
        \/ Advance(env, <<[s |-> "raise", value |-> st.error]>>)
        \/ End(Failed("ExpectedBool", st.value))
    BY <2>1 DEF exec_ensure
  <2>3. AreItems(<<[s |-> "raise", value |-> st.error]>>)
    <3>1. IsExpr(st.error)
      BY <1>1, <1>8 DEF IsItem, IsSimple, IsMatch
    <3> DEFINE raise == [s |-> "raise", value |-> st.error]
    <3>2. raise.s = "raise" /\ raise.value = st.error
      OBVIOUS
    <3> HIDE DEF raise
    <3>3. IsItem(raise)
      BY <3>1, <3>2 DEF IsItem
    <3>4. AreItems(<<raise>>)
      BY <3>3 DEF AreItems
    <3>5. QED
      BY <3>4 DEF raise
  <2>4. QED
    BY <1>2, <1>3, <1>4, <2>2, <2>3
<1>9. CASE st.s = "raise"
  <2>1. End(IF v[1] = "Enum" THEN Raised(v) ELSE Failed("ExpectedEnum", st.value))
    BY <1>9 DEF Complete, st
  <2>2. QED
    BY <1>3, <2>1
<1>10. CASE st.s = "match"
  <2> DEFINE fit == {k \in DOMAIN st.arms : st.arms[k].variant = v[3]}
             arm == st.arms[First(fit)]
             bound == bind_match_payload(arm.bindings, v[4])
             restore == [s |-> "restore", previous |-> bound.previous]
  <2>1. exec_match(st, v)
    BY <1>10 DEF Complete, st
  <2>2. \/ End(Failed("ExpectedEnum", st.value))
        \/ End(Failed("UnmatchedPattern", st.value))
        \/ fit # {} /\ Advance(bound.names, <<arm.body, restore>>)
    BY <2>1 DEF exec_match
  <2>3. ASSUME fit # {}
        PROVE  AreItems(<<arm.body, restore>>)
    <3>1. IsMatch(st)
      BY <1>1, <1>10 DEF IsItem, IsSimple
    <3>2. IsSimple(arm.body)
      BY <2>3, <3>1, ArmTaken
    <3>3. restore.s = "restore"
      OBVIOUS
    <3> HIDE DEF arm, restore
    <3>4. IsItem(arm.body) /\ IsItem(restore)
      BY <3>2, <3>3 DEF IsItem
    <3>5. QED
      BY <3>4 DEF AreItems
  <2> HIDE DEF fit, arm, bound, restore
  <2>4. QED
    BY <1>2, <1>3, <2>2, <2>3
<1>11. QED
  <2>1. st.s \in {"let", "expr", "return", "ensure", "raise", "match"}
    BY <1>1 DEF IsItem, IsSimple, IsMatch, st
  <2>2. QED
    BY <1>5, <1>6, <1>7, <1>8, <1>9, <1>10, <2>1

\* Whether it enters the function or ends.
LEMMA ShapeInterpret ==
    ASSUME ShapeInv, Accepted, UNCHANGED checkVars, UNCHANGED bodies,
           outcome = Nothing, Running => Calls(Top) /\ Top.got = {},
           NEW fn \in DOMAIN Functions, NEW args, interpret_function_with_args(fn, args)
    PROVE  ShapeInv'
<1>1. CASE (Len(args) # Len(Functions[fn].params) /\ args # << >>) \/ bodies[fn] = << >>
  <2>1. \E result : End(result)
    BY <1>1 DEF interpret_function_with_args
  <2>2. QED
    BY <2>1, ShapeEnd
<1>2. CASE ~(Len(args) # Len(Functions[fn].params) /\ args # << >>) /\ bodies[fn] # << >>
  BY <1>2, ShapeEnter
<1>3. QED
  BY <1>1, <1>2

\* What the host enters is a function of the program.
LEMMA EntryInOrder ==
    ASSUME ShapeInv, NEW entry \in EntriesHere
    PROVE  entry \in Entries /\ entry.fn \in DOMAIN Functions
BY CheckedAssumption DEF ShapeInv, ModuleInv, EntriesHere

\* Every step of the interpreter keeps the shape.
LEMMA ShapeRun ==
    ASSUME ShapeInv, Accepted, UNCHANGED checkVars,
           \/ Enter(EntriesHere) \/ exec_stmt \/ eval_user_function_call
           \/ Resume \/ LeaveArm \/ FallOff
    PROVE  ShapeInv'
<1>1. CASE Enter(EntriesHere)
  <2>1. PICK entry \in EntriesHere : interpret_function_with_args(entry.fn, entry.args)
    BY <1>1 DEF Enter
  <2>2. QED
    BY <1>1, <2>1, EntryInOrder, ShapeInterpret DEF Enter, Running
<1>2. CASE exec_stmt
  <2>1. PICK result : IF IsValue(result) THEN Complete(Head(Top.todo), result.value) ELSE End(result)
    BY <1>2 DEF exec_stmt
  <2>2. QED
    BY <1>2, <2>1, ShapeComplete, ShapeEnd DEF exec_stmt, AtStatement
<1>3. CASE eval_user_function_call
  <2> DEFINE x == Untried(Head(Top.todo).value)
             args == InOrder([i \in DOMAIN positional(x.args) |->
                                 eval_atom(env, positional(x.args)[i].value)])
  <2>1. \/ \E result : End(result)
        \/ x.callee[1] \in DOMAIN Functions /\ interpret_function_with_args(x.callee[1], args.value)
    BY <1>3 DEF eval_user_function_call
  <2>2. Running /\ Top.got = {} /\ Calls(Top) /\ bodies' = bodies
    BY <1>3 DEF eval_user_function_call, AtStatement, Calls
  <2>3. outcome = Nothing
    BY <2>2 DEF ShapeInv, RunInv, Running
  <2> HIDE DEF x, args
  <2>4. QED
    BY <2>1, <2>2, <2>3, ShapeEnd, ShapeInterpret
<1>4. CASE Resume
  <2>1. Running /\ Calls(Top) /\ bodies' = bodies
    <3>1. Running /\ Top.got # {} /\ bodies' = bodies
      BY <1>4 DEF Resume
    <3>2. QED
      BY <3>1, TopIsFrame
  <2>2. PICK v : Complete(Head(Top.todo), v)
    BY <1>4 DEF Resume
  <2>3. QED
    BY <2>1, <2>2, ShapeComplete DEF Calls
<1>5. CASE LeaveArm
  <2>1. AreItems(<< >>)
    BY DEF AreItems
  <2>2. QED
    BY <1>5, <2>1, ShapeAdvance DEF LeaveArm
<1>6. CASE FallOff
  BY <1>6, ShapeEnd DEF FallOff
<1>7. QED
  BY <1>1, <1>2, <1>3, <1>4, <1>5, <1>6

\* The shape is there when the first module is begun.
LEMMA ShapeInit == Init => ShapeInv
<1> SUFFICES ASSUME Init PROVE ShapeInv
  OBVIOUS
<1>1. FramesInv(stack)
  BY EmptyStack DEF Init
<1>2. ASSUME NEW fn \in DOMAIN Functions
      PROVE  /\ IsSequence(bodies[fn]) /\ IsSequence(typed[fn])
             /\ Len(typed[fn]) = Len(bodies[fn]) + 1 /\ Len(bodies[fn]) = 0
  <2>1. bodies[fn] = << >> /\ typed[fn] = <<ParamTypes(fn)>>
    BY DEF Init
  <2>2. << >> \in Seq({}) /\ <<ParamTypes(fn)>> \in Seq({ParamTypes(fn)})
    OBVIOUS
  <2>3. IsSequence(<< >>) /\ IsSequence(<<ParamTypes(fn)>>)
    BY <2>2, SequenceOf
  <2>4. QED
    BY <2>1, <2>3
<1>3. DOMAIN bodies = DOMAIN Functions /\ DOMAIN typed = DOMAIN Functions
  BY DEF Init
<1>4. QED
  BY <1>1, <1>2, <1>3 DEF Init, ShapeInv, ModuleInv, RunInv

\* A statement that is checked is added to its body, with the types after it.
LEMMA ShapeWrite ==
    ASSUME ShapeInv, check_function_body
    PROVE  /\ ShapeInv'
           /\ \E st : LET fn == order[at]
                          checked == check_statement(fn, typed[fn][Len(typed[fn])], st)
                      IN /\ fn \in DOMAIN Functions /\ st \in Statements[fn]
                         /\ bodies' = [bodies EXCEPT ![fn] = Append(bodies[fn], st)]
                         /\ typed' = [typed EXCEPT ![fn] = Append(typed[fn], checked.env)]
                         /\ diagnostics' = checked.errors
<1> DEFINE fn == order[at]
<1>1. fn \in DOMAIN Functions
  BY CheckedAssumption DEF ShapeInv, ModuleInv, check_function_body
<1>2. PICK st \in Statements[fn] :
         /\ bodies' = [bodies EXCEPT ![fn] = Append(bodies[fn], st)]
         /\ typed' = [typed EXCEPT ![fn] =
                         Append(typed[fn], check_statement(fn, typed[fn][Len(typed[fn])], st).env)]
         /\ diagnostics' = check_statement(fn, typed[fn][Len(typed[fn])], st).errors
  BY <1>1 DEF check_function_body, Last, ShapeInv, ModuleInv
<1> HIDE DEF fn
<1>3. stack = << >> /\ outcome = Nothing /\ env = << >>
  BY DEF ShapeInv, RunInv, Accepted, check_function_body, ModuleInv
<1>4. stack' = << >> /\ outcome' = Nothing /\ env' = << >> /\ order' = order /\ at' = at
  BY <1>3 DEF check_function_body
<1>5. FramesInv(stack)'
  BY <1>4, EmptyStack
<1>6. ModuleInv'
  <2>1. DOMAIN bodies' = DOMAIN Functions /\ DOMAIN typed' = DOMAIN Functions
    BY <1>2 DEF ShapeInv, ModuleInv
  <2> SUFFICES ASSUME NEW f \in DOMAIN Functions
               PROVE  /\ IsSequence(bodies'[f]) /\ IsSequence(typed'[f])
                      /\ Len(typed'[f]) = Len(bodies'[f]) + 1
                      /\ \A i \in 1..Len(bodies'[f]) : bodies'[f][i] \in Statements[f]
    BY <1>4, <2>1 DEF ShapeInv, ModuleInv
  <2>2. CASE f # fn
    <3>1. bodies'[f] = bodies[f] /\ typed'[f] = typed[f]
      BY <1>2, <2>2 DEF ShapeInv, ModuleInv
    <3>2. QED
      BY <3>1 DEF ShapeInv, ModuleInv
  <2>3. CASE f = fn
    <3> DEFINE types == check_statement(fn, typed[fn][Len(typed[fn])], st).env
    <3>1. bodies'[fn] = Append(bodies[fn], st) /\ typed'[fn] = Append(typed[fn], types)
      BY <1>1, <1>2 DEF ShapeInv, ModuleInv
    <3> HIDE DEF types
    <3>2. /\ IsSequence(bodies[fn]) /\ IsSequence(typed[fn]) /\ Len(bodies[fn]) \in Nat
          /\ Len(typed[fn]) = Len(bodies[fn]) + 1
          /\ \A i \in 1..Len(bodies[fn]) : bodies[fn][i] \in Statements[fn]
      BY <1>1, SequenceFacts DEF ShapeInv, ModuleInv
    <3>3. /\ IsSequence(bodies'[fn]) /\ Len(bodies'[fn]) = Len(bodies[fn]) + 1
          /\ \A i \in 1..Len(bodies[fn]) : bodies'[fn][i] = bodies[fn][i]
          /\ bodies'[fn][Len(bodies[fn]) + 1] = st
      BY <3>1, <3>2, Appended
    <3>4. IsSequence(typed'[fn]) /\ Len(typed'[fn]) = Len(typed[fn]) + 1
      BY <3>1, <3>2, Appended
    <3>5. \A i \in 1..Len(bodies'[fn]) : bodies'[fn][i] \in Statements[fn]
      BY <1>2, <3>2, <3>3
    <3>6. QED
      BY <2>3, <3>2, <3>3, <3>4, <3>5
  <2>4. QED
    BY <2>2, <2>3
<1>7. QED
  BY <1>1, <1>2, <1>4, <1>5, <1>6 DEF ShapeInv, RunInv, fn

\* Every step keeps the shape.
LEMMA ShapeNext ==
    ASSUME ShapeInv, [Next]_allVars
    PROVE  ShapeInv'
<1>1. CASE check_function_body
  BY <1>1, ShapeWrite
<1>2. CASE check_next_item
  <2>1. stack = << >> /\ outcome = Nothing
    BY <1>2 DEF check_next_item, ShapeInv, RunInv, Accepted, ModuleInv
  <2>2. QED
    BY <1>2, <2>1, EmptyStack DEF check_next_item, ShapeInv, RunInv, ModuleInv, vars
<1>3. CASE /\ Accepted /\ UNCHANGED checkVars
           /\ \/ Enter(EntriesHere) \/ exec_stmt \/ eval_user_function_call
              \/ Resume \/ LeaveArm \/ FallOff
  BY <1>3, ShapeRun
<1>4. CASE UNCHANGED allVars
  BY <1>4 DEF allVars, vars, checkVars, ShapeInv, RunInv, ModuleInv, Accepted
<1>5. QED
  BY <1>1, <1>2, <1>3, <1>4 DEF Next, run_checked

\* The shape is more than what the run checks as type correctness.
LEMMA ShapeType == ShapeInv => TypeOK
<1> SUFFICES ASSUME ShapeInv PROVE TypeOK
  OBVIOUS
<1>1. IsSequence(stack) /\ DOMAIN stack = 1..Len(stack) /\ Len(stack) \in Nat
  BY SequenceFacts DEF ShapeInv, FramesInv
<1>2. ASSUME NEW i \in DOMAIN stack
      PROVE  /\ stack[i].fn \in DOMAIN Functions
             /\ stack[i].got # {} => i = Len(stack) /\ stack[i].todo # << >>
  BY <1>1 DEF ShapeInv, FramesInv, IsFrame, Calls
<1>3. QED
  BY <1>2 DEF ShapeInv, ModuleInv, RunInv, TypeOK

\* The checker's types go along with the statements of every module, and the
\* stack is one of activations that wait for the next: nothing that has a
\* diagnostic runs, nothing is left when the entered function ends.
THEOREM CheckedTypeCorrect == Spec => []TypeOK
<1>1. Init => ShapeInv
  BY ShapeInit
<1>2. ShapeInv /\ [Next]_allVars => ShapeInv'
  BY ShapeNext
<1>3. ShapeInv => TypeOK
  BY ShapeType
<1>4. QED
  BY <1>1, <1>2, <1>3, PTL DEF Spec

-----------------------------------------------------------------------------
(***************************************************************************)
(* Types.                                                                  *)
(***************************************************************************)

\* The type of an expression that has no diagnostic.
KnownType(type) ==
    \/ PlainType(type) \/ type = TObject
    \/ type = TResult(type[2], type[3]) /\ PlainType(type[2])

\* A plain type is none of the types that only the checker makes.
LEMMA PlainIs ==
    ASSUME NEW type, PlainType(type)
    PROVE  /\ type # TUnknown /\ type # TObject /\ ~IsResult(type) /\ type # NoReturnType
           /\ type[1] # "Unknown" /\ type[1] # "Object"
           /\ type[1] = "List" => \E inner : type = TList(inner) /\ inner[1] # "Unknown"
           /\ type[1] = "Named" => \E name \in DOMAIN Enums \cup DOMAIN JsonOf : type = TNamed(name)
BY DEF PlainType, TUnknown, TObject, IsResult, NoReturnType, TUnit, TBool, TString, TInteger,
       TContext, TRequest, TResponse, TNamed, TList

\* A known type is a Result of a plain type, a plain type, or an object.
LEMMA KnownIs ==
    ASSUME NEW type, KnownType(type)
    PROVE  /\ type[1] # "Unknown"
           /\ IsResult(type) => type = TResult(type[2], type[3]) /\ PlainType(type[2])
           /\ ~IsResult(type) => PlainType(type) \/ type = TObject
<1>1. CASE PlainType(type)
  BY <1>1, PlainIs
<1>2. CASE type = TObject
  BY <1>2 DEF TObject, IsResult
<1>3. CASE type = TResult(type[2], type[3]) /\ PlainType(type[2])
  <2>1. type[1] = "Result"
    BY <1>3 DEF TResult
  <2>2. QED
    BY <1>3, <2>1 DEF IsResult
<1>4. QED
  BY <1>1, <1>2, <1>3 DEF KnownType

\* Known types that are the same to the checker are equal, but for the errors
\* of results.
LEMMA SamePlain ==
    ASSUME NEW actual, KnownType(actual), NEW expected, PlainType(expected),
           same_body_type(actual, expected) \/ same_body_type(expected, actual)
    PROVE  actual = expected
<1>1. actual[1] # "Unknown" /\ expected[1] # "Unknown" /\ ~IsResult(expected)
  BY KnownIs, PlainIs
<1>2. actual # TUnknown /\ expected # TUnknown
  BY <1>1 DEF TUnknown
<1>3. CASE Agree(actual, expected) \/ Agree(expected, actual)
  BY <1>2, <1>3 DEF Agree
<1>4. CASE ~(Agree(actual, expected) \/ Agree(expected, actual))
  <2>1. /\ actual[1] = "List" /\ expected[1] = "List"
        /\ \/ \A i \in 2..Len(actual) : Agree(actual[i], expected[i])
           \/ \A i \in 2..Len(expected) : Agree(expected[i], actual[i])
    BY <1>1, <1>4 DEF same_body_type, IsResult
  <2>2. PICK inner : expected = TList(inner) /\ inner[1] # "Unknown"
    BY <2>1, PlainIs
  <2>3. PlainType(actual)
    BY <2>1, KnownIs DEF IsResult, TObject
  <2>4. PICK other : actual = TList(other) /\ other[1] # "Unknown"
    BY <2>1, <2>3, PlainIs
  <2>5. /\ Len(actual) = 2 /\ Len(expected) = 2 /\ actual[2] = other /\ expected[2] = inner
    BY <2>2, <2>4 DEF TList
  <2>6. Agree(other, inner) \/ Agree(inner, other)
    BY <2>1, <2>5
  <2>7. other # TUnknown /\ inner # TUnknown
    BY <2>2, <2>4 DEF TUnknown
  <2>8. QED
    BY <2>2, <2>4, <2>6, <2>7 DEF Agree
<1>5. QED
  BY <1>3, <1>4

\* Results that are the same to the checker hold the same type.
LEMMA SameResult ==
    ASSUME NEW actual, KnownType(actual), NEW expected, DeclaredType(expected), IsResult(expected),
           same_body_type(actual, expected) \/ same_body_type(expected, actual)
    PROVE  IsResult(actual) /\ result_ok(actual) = result_ok(expected)
<1>1. /\ actual[1] # "Unknown" /\ expected = TResult(expected[2], expected[3])
      /\ PlainType(expected[2])
  BY KnownIs, PlainIs DEF DeclaredType
<1>2. actual # TUnknown /\ expected # TUnknown
  BY <1>1 DEF TUnknown, TResult
<1>3. CASE actual = expected
  BY <1>3
<1>4. CASE actual # expected
  <2>1. /\ actual[1] = "Result"
        /\ \/ \A i \in 2..Len(actual) : Agree(actual[i], expected[i])
           \/ \A i \in 2..Len(expected) : Agree(expected[i], actual[i])
    <3>1. expected[1] = "Result"
      BY DEF IsResult
    <3>2. QED
      BY <1>2, <1>4, <3>1 DEF same_body_type, Agree
  <2>2. actual = TResult(actual[2], actual[3]) /\ PlainType(actual[2])
    BY <2>1, KnownIs DEF IsResult
  <2>3. Len(actual) = 3 /\ Len(expected) = 3
    BY <1>1, <2>2 DEF TResult
  <2>4. Agree(actual[2], expected[2]) \/ Agree(expected[2], actual[2])
    BY <2>1, <2>3
  <2>5. actual[2] # TUnknown /\ expected[2] # TUnknown
    BY <1>1, <2>2, PlainIs
  <2>6. QED
    BY <2>1, <2>4, <2>5 DEF Agree, IsResult, result_ok
<1>5. QED
  BY <1>3, <1>4

\* So a value of the one type is of the other.
LEMMA SameHolds ==
    ASSUME NEW actual, KnownType(actual), NEW expected, DeclaredType(expected),
           same_body_type(actual, expected) \/ same_body_type(expected, actual),
           NEW v, Holds(v, actual)
    PROVE  Holds(v, expected)
<1>1. CASE IsResult(expected)
  BY <1>1, SameResult DEF Holds
<1>2. CASE ~IsResult(expected)
  BY <1>2, SamePlain DEF DeclaredType
<1>3. QED
  BY <1>1, <1>2

-----------------------------------------------------------------------------
(***************************************************************************)
(* Paths.                                                                  *)
(***************************************************************************)

\* f is what check_path finds of each prefix of a path.
ChecksPath(f, types, path, n) ==
    f = [i \in 1..n |-> IF i > 1 THEN field_type(f[i - 1], path[i])
                        ELSE IF path[1] \in DOMAIN types THEN Fine(types[path[1]])
                        ELSE Typed(TUnknown, {"E_BODY_0001"})]

\* There is such a function for every path.
LEMMA ChecksPathExists ==
    ASSUME NEW types, NEW path, NEW n \in Nat
    PROVE  \E f : ChecksPath(f, types, path, n)
<1> DEFINE first == IF path[1] \in DOMAIN types THEN Fine(types[path[1]])
                    ELSE Typed(TUnknown, {"E_BODY_0001"})
           T == {i \in Nat : ~ \E f : ChecksPath(f, types, path, i)}
<1>1. SUFFICES ASSUME T # {} PROVE FALSE
  OBVIOUS
<1>2. PICK m \in T : \A i \in T : m <= i
  BY <1>1, NatMin
<1> HIDE DEF first
<1>3. m # 0
  <2> DEFINE f == [i \in 1..0 |-> first]
  <2>1. ChecksPath(f, types, path, 0)
    BY DEF ChecksPath
  <2>2. QED
    BY <2>1
<1>4. PICK g : ChecksPath(g, types, path, m - 1)
  <2>1. m - 1 \in Nat /\ m - 1 \notin T
    BY <1>2, <1>3
  <2>2. QED
    BY <2>1
<1> DEFINE step == IF m > 1 THEN field_type(g[m - 1], path[m]) ELSE first
           f == [i \in 1..m |-> IF i = m THEN step ELSE g[i]]
<1>5. \A i \in 1..m - 1 : f[i] = g[i]
  BY <1>3
<1>6. \A i \in 1..m - 1 : g[i] = IF i > 1 THEN field_type(g[i - 1], path[i]) ELSE first
  BY <1>4 DEF ChecksPath, first
<1>7. \A i \in 1..m : f[i] = IF i > 1 THEN field_type(f[i - 1], path[i]) ELSE first
  <2> SUFFICES ASSUME NEW i \in 1..m
               PROVE  f[i] = IF i > 1 THEN field_type(f[i - 1], path[i]) ELSE first
    OBVIOUS
  <2>1. CASE i = m /\ i > 1
    <3>1. f[m - 1] = g[m - 1]
      BY <1>3, <1>5, <2>1
    <3>2. QED
      BY <1>3, <2>1, <3>1
  <2>2. CASE i # m /\ i > 1
    <3>1. i \in 1..m - 1 /\ i - 1 \in 1..m - 1
      BY <2>2
    <3>2. f[i] = g[i] /\ f[i - 1] = g[i - 1]
      BY <1>5, <3>1
    <3>3. QED
      BY <1>6, <2>2, <3>1, <3>2
  <2>3. CASE ~(i > 1) /\ i = m
    BY <2>3
  <2>4. CASE ~(i > 1) /\ i # m
    <3>1. i \in 1..m - 1
      BY <2>4
    <3>2. QED
      BY <1>5, <1>6, <2>4, <3>1
  <2>5. QED
    BY <2>1, <2>2, <2>3, <2>4
<1>8. ChecksPath(f, types, path, m)
  BY <1>7 DEF ChecksPath, first
<1>9. QED
  BY <1>8

\* g is what eval_path finds of each prefix.
Selected(path, result, field) ==
    IF ~IsValue(result) THEN result
    ELSE IF result.value[1] # "Json" \/ result.value[2][1] # "object"
    THEN Failed("ExpectedJson", Path(path))
    ELSE IF field \notin DOMAIN result.value[2][2] THEN Failed("UnknownBinding", Path(path))
    ELSE Value(Json(result.value[2][2][field]))

EvalsPath(g, names, path, n) ==
    g = [i \in 1..n |-> IF i > 1 THEN Selected(path, g[i - 1], path[i])
                        ELSE IF path[1] \in DOMAIN names THEN Value(names[path[1]])
                        ELSE Failed("UnknownBinding", Path(<<path[1]>>))]

\* There is such a function for every path.
LEMMA EvalsPathExists ==
    ASSUME NEW names, NEW path, NEW n \in Nat
    PROVE  \E g : EvalsPath(g, names, path, n)
<1> DEFINE first == IF path[1] \in DOMAIN names THEN Value(names[path[1]])
                    ELSE Failed("UnknownBinding", Path(<<path[1]>>))
           T == {i \in Nat : ~ \E g : EvalsPath(g, names, path, i)}
<1>1. SUFFICES ASSUME T # {} PROVE FALSE
  OBVIOUS
<1>2. PICK m \in T : \A i \in T : m <= i
  BY <1>1, NatMin
<1> HIDE DEF first
<1>3. m # 0
  <2> DEFINE f == [i \in 1..0 |-> first]
  <2>1. EvalsPath(f, names, path, 0)
    BY DEF EvalsPath
  <2>2. QED
    BY <2>1
<1>4. PICK g : EvalsPath(g, names, path, m - 1)
  <2>1. m - 1 \in Nat /\ m - 1 \notin T
    BY <1>2, <1>3
  <2>2. QED
    BY <2>1
<1> DEFINE step == IF m > 1 THEN Selected(path, g[m - 1], path[m]) ELSE first
           f == [i \in 1..m |-> IF i = m THEN step ELSE g[i]]
<1>5. \A i \in 1..m - 1 : f[i] = g[i]
  BY <1>3
<1>6. \A i \in 1..m - 1 : g[i] = IF i > 1 THEN Selected(path, g[i - 1], path[i]) ELSE first
  BY <1>4 DEF EvalsPath, first
<1>7. \A i \in 1..m : f[i] = IF i > 1 THEN Selected(path, f[i - 1], path[i]) ELSE first
  <2> SUFFICES ASSUME NEW i \in 1..m
               PROVE  f[i] = IF i > 1 THEN Selected(path, f[i - 1], path[i]) ELSE first
    OBVIOUS
  <2>1. CASE i = m /\ i > 1
    <3>1. f[m - 1] = g[m - 1]
      BY <1>3, <1>5, <2>1
    <3>2. QED
      BY <1>3, <2>1, <3>1
  <2>2. CASE i # m /\ i > 1
    <3>1. i \in 1..m - 1 /\ i - 1 \in 1..m - 1
      BY <2>2
    <3>2. f[i] = g[i] /\ f[i - 1] = g[i - 1]
      BY <1>5, <3>1
    <3>3. QED
      BY <1>6, <2>2, <3>1, <3>2
  <2>3. CASE ~(i > 1) /\ i = m
    BY <2>3
  <2>4. CASE ~(i > 1) /\ i # m
    <3>1. i \in 1..m - 1
      BY <2>4
    <3>2. QED
      BY <1>5, <1>6, <2>4, <3>1
  <2>5. QED
    BY <2>1, <2>2, <2>3, <2>4
<1>8. EvalsPath(f, names, path, m)
  BY <1>7 DEF EvalsPath, first
<1>9. QED
  BY <1>8

\* check_path and eval_path are the last values of such functions.
LEMMA CheckPathIs ==
    ASSUME NEW types, NEW path, IsSequence(path), ~IsVariant(path)
    PROVE  \E f : ChecksPath(f, types, path, Len(path)) /\ check_path(types, path) = f[Len(path)]
<1> DEFINE f == CHOOSE f : ChecksPath(f, types, path, Len(path))
<1>1. Len(path) \in Nat /\ DOMAIN path = 1..Len(path)
  BY SequenceFacts
<1>2. ChecksPath(f, types, path, Len(path))
  BY <1>1, ChecksPathExists
<1>3. check_path(types, path) = f[Len(path)]
  BY <1>1 DEF check_path, ChecksPath
<1>4. QED
  BY <1>2, <1>3

\* The same of eval_path, for a path that is no variant of an enum.
LEMMA EvalPathIs ==
    ASSUME NEW names, NEW path, IsSequence(path), ~(Len(path) = 2 /\ path[1] \in Capitals)
    PROVE  \E g : EvalsPath(g, names, path, Len(path)) /\ eval_path(names, path) = g[Len(path)]
<1> DEFINE g == CHOOSE g : EvalsPath(g, names, path, Len(path))
<1>1. Len(path) \in Nat /\ DOMAIN path = 1..Len(path)
  BY SequenceFacts
<1>2. EvalsPath(g, names, path, Len(path))
  BY <1>1, EvalsPathExists
<1>3. eval_path(names, path) = g[Len(path)]
  BY <1>1 DEF eval_path, EvalsPath, Selected
<1>4. QED
  BY <1>2, <1>3

-----------------------------------------------------------------------------
(***************************************************************************)
(* Names, and the paths that begin with one.                               *)
(***************************************************************************)

\* How the evaluation of an accepted expression may stop.
Stop(result) == \/ KnownFailure(result)
                \/ result.is = "raised" /\ result.error \in HostErrors

\* What it ends with, when the checker has this type for it.
Fits(result, type) == \/ IsValue(result) /\ Holds(result.value, type)
                      \/ Stop(result)

\* Each name the checker knows is bound, to a value of its type.
Bound(names, types) ==
    /\ DOMAIN Enums \subseteq Capitals /\ DOMAIN types \cap Capitals = {}
    /\ \A name \in DOMAIN types :
          name \in DOMAIN names /\ KnownType(types[name]) /\ Holds(names[name], types[name])

\* The name of a struct is no enum and no optional type.
LEMMA StructsApart ==
    ASSUME NEW name \in DOMAIN Structs
    PROVE  /\ ~IsEnum(TNamed(name)) /\ ~IsResult(TNamed(name)) /\ name \in DOMAIN JsonOf
           /\ PlainType(TNamed(name)) /\ ~MayLack(TNamed(name))
<1>1. name \in DOMAIN JsonOf /\ name \notin DOMAIN Enums /\ name \notin Optionals
  BY DeclarationAssumption
<1>2. QED
  BY <1>1 DEF IsEnum, IsResult, TNamed, PlainType, MayLack

\* A known type with a name is plain.
LEMMA KnownNamed ==
    ASSUME NEW type, KnownType(type), type[1] = "Named"
    PROVE  PlainType(type) /\ type = TNamed(type[2])
           /\ type[2] \in DOMAIN Enums \cup DOMAIN JsonOf
<1>1. PlainType(type)
  BY KnownIs DEF IsResult, TObject
<1>2. PICK name \in DOMAIN Enums \cup DOMAIN JsonOf : type = TNamed(name)
  BY <1>1, PlainIs
<1>3. QED
  BY <1>1, <1>2 DEF TNamed

\* The type of a member is no object and no Result, so its values are data.
LEMMA DataIs ==
    ASSUME NEW type, DataType(type), NEW v
    PROVE  /\ KnownType(type) /\ type # TObject /\ ~IsResult(type)
           /\ DataHolds(v, type) <=> Holds(v, type)
BY PlainIs DEF DataType, KnownType, Holds, PlainHolds

\* A value of a struct has the members of the struct, but those that may lack.
LEMMA StructHolds ==
    ASSUME NEW name \in DOMAIN Structs, NEW v, Holds(v, TNamed(name))
    PROVE  /\ v[1] = "Json" /\ v[2][1] = "object"
           /\ \A field \in DOMAIN Structs[name] :
                 IF field \in DOMAIN v[2][2] THEN Holds(Json(v[2][2][field]), Structs[name][field])
                 ELSE MayLack(Structs[name][field])
<1>1. DataHolds(v, TNamed(name))
  BY StructsApart DEF Holds, PlainHolds
<1>2. IsJson(v) /\ JsonHolds(v[2], TNamed(name))
  BY <1>1 DEF DataHolds, TNamed, TUnknown, TUnit, TContext, TRequest, TResponse, TObject, TBool
<1>3. v[2] \in JsonOf[name]
  BY <1>2 DEF JsonHolds, TNamed, TString, TBool, TInteger
<1>4. /\ v[2][1] = "object"
      /\ \A field \in DOMAIN Structs[name] :
            IF field \in DOMAIN v[2][2] THEN DataHolds(Json(v[2][2][field]), Structs[name][field])
            ELSE MayLack(Structs[name][field])
  BY <1>3, HostAssumption
<1>5. \A field \in DOMAIN Structs[name] : DataType(Structs[name][field])
  BY DeclarationAssumption
<1>6. QED
  BY <1>2, <1>4, <1>5, DataIs DEF IsJson

\* The field of a struct has a type when the struct has the field.
LEMMA FieldTyped ==
    ASSUME NEW owner, NEW field, field_type(owner, field).errors = {}
    PROVE  /\ owner.errors = {} /\ owner.type[1] = "Named"
           /\ owner.type[2] \in DOMAIN Structs /\ field \in DOMAIN Structs[owner.type[2]]
           /\ field_type(owner, field).type = Structs[owner.type[2]][field]
BY DEF field_type, Typed

\* The first segment of a path that was accepted is a name the checker knows.
LEMMA PathRooted ==
    ASSUME NEW types, NEW path, IsSequence(path), path # << >>, ~IsVariant(path),
           check_path(types, path).errors = {}
    PROVE  path[1] \in DOMAIN types
<1>1. Len(path) \in Nat /\ Len(path) >= 1
  BY SequenceFacts
<1>2. PICK f : ChecksPath(f, types, path, Len(path)) /\ check_path(types, path) = f[Len(path)]
  BY CheckPathIs
<1>3. \A i \in 1..Len(path) :
         f[i] = IF i > 1 THEN field_type(f[i - 1], path[i])
                ELSE IF path[1] \in DOMAIN types THEN Fine(types[path[1]])
                ELSE Typed(TUnknown, {"E_BODY_0001"})
  BY <1>2 DEF ChecksPath
<1> DEFINE T == {i \in 1..Len(path) : f[i].errors = {}}
<1>4. Len(path) \in T
  BY <1>1, <1>2
<1>5. PICK m \in T : \A i \in T : m <= i
  <2>1. T \subseteq Nat
    BY <1>1
  <2>2. QED
    BY <1>4, <2>1, NatMin
<1>6. CASE m > 1
  <2>1. f[m] = field_type(f[m - 1], path[m]) /\ m - 1 \in 1..Len(path)
    BY <1>1, <1>3, <1>6
  <2>2. f[m - 1].errors = {}
    BY <2>1, FieldTyped
  <2>3. QED
    BY <1>1, <1>5, <1>6, <2>1, <2>2
<1>7. CASE ~(m > 1)
  <2>1. f[m].errors = {} /\ m \in 1..Len(path)
    OBVIOUS
  <2>2. QED
    BY <1>3, <1>7, <2>1 DEF Typed
<1>8. QED
  BY <1>6, <1>7

\* An accepted variant without payload evaluates to a value of its enum.
LEMMA VariantSound ==
    ASSUME NEW names, NEW types, Bound(names, types), NEW path, IsVariant(path),
           check_path(types, path).errors = {}
    PROVE  /\ KnownType(check_path(types, path).type)
           /\ check_path(types, path).type = TNamed(path[1])
           /\ eval_path(names, path) = Value(EnumValue(path[1], path[2], << >>))
           /\ Fits(eval_path(names, path), check_path(types, path).type)
<1> DEFINE v == EnumValue(path[1], path[2], << >>)
<1>1. /\ check_path(types, path).type = TNamed(path[1]) /\ Enums[path[1]][path[2]] = << >>
      /\ path[1] \in DOMAIN Enums /\ path[2] \in DOMAIN Enums[path[1]] /\ Len(path) = 2
  BY DEF check_path, IsVariant, Typed
<1>2. eval_path(names, path) = Value(v)
  BY <1>1 DEF eval_path, Bound
<1>3. IsEnum(TNamed(path[1])) /\ ~IsResult(TNamed(path[1])) /\ PlainType(TNamed(path[1]))
      /\ TNamed(path[1])[2] = path[1]
  BY <1>1 DEF IsEnum, IsResult, TNamed, PlainType
<1>4. EnumHolds(v, path[1])
  <2>1. v[1] = "Enum" /\ v[3] = path[2] /\ v[4] = << >>
    BY DEF EnumValue
  <2>2. Len(<< >>) = 0 /\ DOMAIN << >> = {}
    OBVIOUS
  <2>3. QED
    BY <1>1, <2>1, <2>2 DEF EnumHolds
<1>5. Holds(v, TNamed(path[1]))
  BY <1>3, <1>4 DEF Holds, PlainHolds
<1>6. Value(v).is = "value" /\ Value(v).value = v
  BY DEF Value
<1>7. QED
  BY <1>1, <1>2, <1>3, <1>5, <1>6 DEF Fits, IsValue, KnownType

\* An accepted path evaluates to a value of its type, or stops in a known way.
LEMMA PathSound ==
    ASSUME NEW names, NEW types, Bound(names, types), NEW path, IsSequence(path), path # << >>,
           check_path(types, path).errors = {}
    PROVE  /\ KnownType(check_path(types, path).type)
           /\ Fits(eval_path(names, path), check_path(types, path).type)
<1>1. CASE IsVariant(path)
  BY <1>1, VariantSound
<1>2. CASE ~IsVariant(path)
  <2>1. path[1] \in DOMAIN types
    BY <1>2, PathRooted
  <2>2. /\ path[1] \in DOMAIN names /\ KnownType(types[path[1]])
        /\ Holds(names[path[1]], types[path[1]]) /\ path[1] \notin Capitals
    BY <2>1 DEF Bound
  <2>3. PICK f : ChecksPath(f, types, path, Len(path)) /\ check_path(types, path) = f[Len(path)]
    BY <1>2, CheckPathIs
  <2>4. PICK g : EvalsPath(g, names, path, Len(path)) /\ eval_path(names, path) = g[Len(path)]
    BY <2>2, EvalPathIs
  <2>5. Len(path) \in Nat /\ Len(path) >= 1
    BY SequenceFacts
  <2>6. f[1] = Fine(types[path[1]]) /\ g[1] = Value(names[path[1]])
    BY <2>1, <2>2, <2>3, <2>4, <2>5 DEF ChecksPath, EvalsPath
  <2>7. \A i \in 2..Len(path) : /\ f[i] = field_type(f[i - 1], path[i])
                                /\ g[i] = Selected(path, g[i - 1], path[i])
    <3> SUFFICES ASSUME NEW i \in 2..Len(path)
                 PROVE  /\ f[i] = field_type(f[i - 1], path[i])
                        /\ g[i] = Selected(path, g[i - 1], path[i])
      OBVIOUS
    <3>1. i \in 1..Len(path) /\ i > 1
      BY <2>5
    <3>2. f[i] = field_type(f[i - 1], path[i])
      BY <2>3, <3>1 DEF ChecksPath
    <3>3. g[i] = Selected(path, g[i - 1], path[i])
      BY <2>4, <3>1 DEF EvalsPath
    <3>4. QED
      BY <3>2, <3>3
  <2> DEFINE Lacks(i) == /\ i > 1 /\ g[i] = Failed("UnknownBinding", Path(path)) /\ MayLack(f[i].type)
                         /\ \E name \in DOMAIN Structs :
                               /\ path[i] \in DOMAIN Structs[name]
                               /\ f[i].type = Structs[name][path[i]]
             Sound(i) == /\ KnownType(f[i].type)
                         /\ Lacks(i) \/ (IsValue(g[i]) /\ Holds(g[i].value, f[i].type))
             T == {i \in 1..Len(path) : f[i].errors = {} /\ ~Sound(i)}
  <2>8. ASSUME T # {} PROVE FALSE
    <3> HIDE DEF Sound
    <3>1. T \subseteq Nat
      BY <2>5
    <3>2. PICK m \in T : \A i \in T : m <= i
      BY <2>8, <3>1, NatMin
    <3>3. m \in 1..Len(path) /\ f[m].errors = {} /\ ~Sound(m)
      OBVIOUS
    <3>4. CASE m = 1
      <4>1. f[1].type = types[path[1]] /\ IsValue(g[1]) /\ g[1].value = names[path[1]]
        BY <2>6 DEF Fine, Typed, IsValue, Value
      <4>2. Sound(1)
        BY <2>2, <4>1 DEF Sound
      <4>3. QED
        BY <3>3, <3>4, <4>2
    <3>5. CASE m # 1
      <4> DEFINE owner == f[m - 1]  name == owner.type[2]  field == path[m]
      <4>1. m \in 2..Len(path) /\ m - 1 \in 1..Len(path)
        BY <2>5, <3>3, <3>5
      <4>2. f[m] = field_type(owner, field) /\ g[m] = Selected(path, g[m - 1], field)
        BY <2>7, <4>1
      <4>3. /\ owner.errors = {} /\ owner.type[1] = "Named" /\ name \in DOMAIN Structs
            /\ field \in DOMAIN Structs[name] /\ f[m].type = Structs[name][field]
        BY <3>3, <4>2, FieldTyped
      <4>4. Sound(m - 1)
        <5>1. m - 1 \notin T
          BY <2>5, <3>2, <3>3
        <5>2. QED
          BY <4>1, <4>3, <5>1
      <4>5. owner.type = TNamed(name)
        BY <4>3, <4>4, KnownNamed DEF Sound
      <4>6. ~MayLack(owner.type)
        BY <4>3, <4>5, StructsApart
      <4>7. IsValue(g[m - 1]) /\ Holds(g[m - 1].value, TNamed(name))
        BY <4>4, <4>5, <4>6 DEF Sound
      <4> DEFINE v == g[m - 1].value
      <4>8. /\ v[1] = "Json" /\ v[2][1] = "object"
            /\ IF field \in DOMAIN v[2][2] THEN Holds(Json(v[2][2][field]), f[m].type)
               ELSE MayLack(f[m].type)
        BY <4>3, <4>7, StructHolds
      <4>9. KnownType(f[m].type)
        BY <4>3, DataIs, DeclarationAssumption
      <4> HIDE DEF owner, name, field, v
      <4>10. g[m] = IF field \in DOMAIN v[2][2] THEN Value(Json(v[2][2][field]))
                    ELSE Failed("UnknownBinding", Path(path))
        BY <4>2, <4>7, <4>8 DEF Selected, v
      <4>11. CASE field \in DOMAIN v[2][2]
        <5>1. IsValue(g[m]) /\ g[m].value = Json(v[2][2][field])
          BY <4>10, <4>11 DEF Value, IsValue
        <5>2. QED
          BY <3>3, <4>8, <4>9, <4>11, <5>1 DEF Sound
      <4>12. CASE field \notin DOMAIN v[2][2]
        <5>1. Lacks(m)
          BY <3>3, <3>5, <4>3, <4>8, <4>10, <4>12 DEF field, name
        <5> HIDE DEF Lacks
        <5>2. QED
          BY <3>3, <4>9, <5>1 DEF Sound
      <4>13. QED
        BY <4>11, <4>12
    <3>6. QED
      BY <3>4, <3>5
  <2> DEFINE n == Len(path)
  <2>9. f[n].errors = {} /\ n \in 1..Len(path)
    BY <2>3, <2>5
  <2>10. Sound(n)
    <3> HIDE DEF Sound
    <3>1. QED
      BY <2>8, <2>9
  <2>11. ASSUME Lacks(n) PROVE KnownFailure(g[n])
    <3>1. /\ g[n].is = "failed" /\ g[n].kind = "UnknownBinding" /\ g[n].at.path = path
      BY <2>11 DEF Failed, Path
    <3>2. Last(path) = path[n]
      BY DEF Last
    <3> HIDE DEF n
    <3>3. n > 1 /\ \E name \in DOMAIN Structs : /\ path[n] \in DOMAIN Structs[name]
                                               /\ MayLack(Structs[name][path[n]])
      BY <2>11
    <3>4. QED
      BY <3>1, <3>2, <3>3 DEF KnownFailure, n
  <2>12. QED
    BY <2>3, <2>4, <2>10, <2>11 DEF Fits, Stop
<1>3. QED
  BY <1>1, <1>2

-----------------------------------------------------------------------------
(***************************************************************************)
(* Expressions that call no function.                                      *)
(***************************************************************************)

\* A value of type Integer is JSON of an integer.
LEMMA HeldInteger ==
    ASSUME NEW v, Holds(v, TInteger)
    PROVE  \E b \in BOOLEAN : v = Json(JInteger(b))
<1>1. DataHolds(v, TInteger)
  BY DEF Holds, PlainHolds, IsEnum, IsResult, TInteger
<1>2. IsJson(v) /\ JsonHolds(v[2], TInteger)
  BY <1>1 DEF DataHolds, TInteger, TUnknown, TUnit, TContext, TRequest, TResponse, TObject, TBool
<1>3. QED
  BY <1>2 DEF JsonHolds, IsJson, TInteger, TBool, TString

\* A value of type String is JSON of a string.
LEMMA HeldString ==
    ASSUME NEW v, Holds(v, TString)
    PROVE  v = Json(JString)
<1>1. DataHolds(v, TString)
  BY DEF Holds, PlainHolds, IsEnum, IsResult, TString
<1>2. IsJson(v) /\ JsonHolds(v[2], TString)
  BY <1>1 DEF DataHolds, TString, TUnknown, TUnit, TContext, TRequest, TResponse, TObject, TBool
<1>3. QED
  BY <1>2 DEF JsonHolds, IsJson, TInteger, TBool, TString

\* A value of type Bool is a boolean, as JSON or of the interpreter.
LEMMA HeldBool ==
    ASSUME NEW v, Holds(v, TBool)
    PROVE  \E b \in BOOLEAN : v = Json(JBool(b)) \/ v = Bool(b)
<1>1. DataHolds(v, TBool)
  BY DEF Holds, PlainHolds, IsEnum, IsResult, TBool
<1>2. \/ IsJson(v) /\ JsonHolds(v[2], TBool)
      \/ v \in {Bool(b) : b \in BOOLEAN}
  BY <1>1 DEF DataHolds, TString, TUnknown, TUnit, TContext, TRequest, TResponse, TObject, TBool
<1>3. QED
  BY <1>2 DEF JsonHolds, IsJson, TInteger, TBool, TString

\* The host's JSON of a plain type.
LEMMA HeldOf ==
    ASSUME NEW type, PlainType(type), NEW v
    PROVE  /\ Holds(v, type) <=> PlainHolds(v, type)
           /\ \A error : /\ Holds(v, TResult(type, error)) <=> PlainHolds(v, type)
                         /\ KnownType(TResult(type, error))
           /\ KnownType(type)
<1>1. ~IsResult(type)
  BY PlainIs
<1>2. ASSUME NEW error
      PROVE  /\ IsResult(TResult(type, error)) /\ result_ok(TResult(type, error)) = type
             /\ KnownType(TResult(type, error))
  BY DEF IsResult, TResult, result_ok, KnownType
<1>3. QED
  BY <1>1, <1>2 DEF Holds, KnownType

\* A literal evaluates to a value of its type.
LEMMA LiteralSound ==
    ASSUME NEW x, IsLiteral(x), NEW names, NEW types
    PROVE  /\ KnownType(check_atom(types, x).type)
           /\ Fits(eval_atom(names, x), check_atom(types, x).type)
<1>1. /\ check_atom(types, x).type = x.type
      /\ eval_atom(names, x) = Value(IF x.type = TBool THEN Bool(x.json[2]) ELSE Json(x.json))
  BY DEF IsLiteral, Literal, check_atom, eval_atom, Fine, Typed
<1>2. \A v : IsValue(Value(v)) /\ Value(v).value = v
  BY DEF IsValue, Value
<1>3. CASE x = Literal(TString, JString)
  <2>1. x.type = TString /\ x.json = JString /\ TString # TBool
    BY <1>3 DEF Literal, TString, TBool
  <2>2. PlainType(TString) /\ PlainHolds(Json(JString), TString)
    BY DEF PlainType, PlainHolds, IsEnum, DataHolds, IsJson, Json, JsonHolds, JString,
           TString, TInteger, TUnknown, TUnit, TContext, TRequest, TResponse, TObject, TBool
  <2>3. QED
    BY <1>1, <1>2, <2>1, <2>2, HeldOf DEF Fits
<1>4. ASSUME NEW b \in BOOLEAN, x = Literal(TInteger, JInteger(b))
      PROVE  KnownType(x.type) /\ Fits(Value(Json(x.json)), x.type) /\ x.type # TBool
  <2>1. x.type = TInteger /\ x.json = JInteger(b) /\ TInteger # TBool
    BY <1>4 DEF Literal, TInteger, TBool
  <2>2. PlainType(TInteger) /\ PlainHolds(Json(JInteger(b)), TInteger)
    BY DEF PlainType, PlainHolds, IsEnum, DataHolds, IsJson, Json, JsonHolds, JInteger,
           TString, TInteger, TUnknown, TUnit, TContext, TRequest, TResponse, TObject, TBool
  <2>3. QED
    BY <1>2, <2>1, <2>2, HeldOf DEF Fits
<1>5. ASSUME NEW b \in BOOLEAN, x = Literal(TBool, JBool(b))
      PROVE  KnownType(x.type) /\ Fits(Value(Bool(x.json[2])), x.type) /\ x.type = TBool
  <2>1. x.type = TBool /\ x.json[2] = b
    BY <1>5 DEF Literal, JBool
  <2>2. PlainType(TBool) /\ PlainHolds(Bool(b), TBool)
    BY DEF PlainType, PlainHolds, IsEnum, DataHolds, Bool,
           TString, TInteger, TUnknown, TUnit, TContext, TRequest, TResponse, TObject, TBool
  <2>3. QED
    BY <1>2, <2>1, <2>2, HeldOf DEF Fits
<1>6. QED
  BY <1>1, <1>3, <1>4, <1>5 DEF IsLiteral

\* So does every literal and every accepted path.
LEMMA AtomSound ==
    ASSUME NEW names, NEW types, Bound(names, types), NEW x, IsAtom(x),
           check_atom(types, x).errors = {}
    PROVE  /\ KnownType(check_atom(types, x).type)
           /\ Fits(eval_atom(names, x), check_atom(types, x).type)
<1>1. CASE IsLiteral(x)
  BY <1>1, LiteralSound
<1>2. CASE IsPath(x)
  <2>1. x.e = "path" /\ IsSequence(x.path) /\ x.path # << >>
    BY <1>2 DEF IsPath
  <2>2. check_atom(types, x) = check_path(types, x.path) /\ eval_atom(names, x) = eval_path(names, x.path)
    BY <2>1 DEF check_atom, eval_atom
  <2>3. QED
    BY <2>1, <2>2, PathSound
<1>3. QED
  BY <1>1, <1>2 DEF IsAtom

\* Evaluation goes on with a value, or stops as it may.
Goes(result) == IsValue(result) \/ Stop(result)

\* What expect_json makes of a value: JSON of its type, or a known failure.
LEMMA ExpectJson ==
    ASSUME NEW result, NEW type, KnownType(type), Fits(result, type), NEW x
    PROVE  /\ Goes(expect_json(result, x))
           /\ IsValue(expect_json(result, x)) /\ type = TInteger =>
                 \E b \in BOOLEAN : expect_json(result, x).value = Json(JInteger(b))
           /\ IsValue(expect_json(result, x)) /\ type = TString =>
                 expect_json(result, x).value = Json(JString)
<1>1. CASE ~IsValue(result)
  BY <1>1 DEF expect_json, Fits, Goes
<1>2. CASE IsValue(result)
  <2>1. Holds(result.value, type)
    BY <1>2 DEF Fits, Stop, KnownFailure, IsValue
  <2>2. CASE result.value[1] = "Json"
    <3>1. expect_json(result, x) = result
      BY <1>2, <2>2 DEF expect_json
    <3>2. QED
      BY <1>2, <2>1, <3>1, HeldInteger, HeldString DEF Goes
  <2>3. CASE result.value[1] # "Json"
    <3>1. type # TInteger /\ type # TString
      BY <2>1, <2>3, HeldInteger, HeldString DEF Json
    <3>2. CASE result.value[1] = "Bool"
      <4>1. IsValue(expect_json(result, x))
        BY <1>2, <3>2 DEF expect_json, IsValue, Value
      <4>2. QED
        BY <3>1, <4>1 DEF Goes
    <3>3. CASE result.value[1] # "Bool"
      <4>1. expect_json(result, x) = Failed("ExpectedJson", x)
        BY <1>2, <2>3, <3>3 DEF expect_json
      <4>2. KnownFailure(Failed("ExpectedJson", x))
        BY DEF KnownFailure, Failed
      <4>3. QED
        BY <3>1, <4>1, <4>2 DEF Goes, Stop
    <3>4. QED
      BY <3>2, <3>3
  <2>4. QED
    BY <2>2, <2>3
<1>3. QED
  BY <1>1, <1>2

\* Evaluations in a row.
LEMMA InOrderIs ==
    ASSUME NEW results, DOMAIN results \subseteq Nat
    PROVE  \/ /\ \A i \in DOMAIN results : IsValue(results[i])
              /\ InOrder(results) = Value([i \in DOMAIN results |-> results[i].value])
           \/ \E i \in DOMAIN results : ~IsValue(results[i]) /\ InOrder(results) = results[i]
<1> DEFINE bad == {i \in DOMAIN results : ~IsValue(results[i])}
<1>1. CASE bad = {}
  BY <1>1 DEF InOrder
<1>2. CASE bad # {}
  <2>1. InOrder(results) = results[First(bad)]
    BY <1>2 DEF InOrder
  <2>2. \E i \in bad : \A j \in bad : i <= j
    <3>1. bad \subseteq Nat
      OBVIOUS
    <3> HIDE DEF bad
    <3>2. QED
      BY <1>2, <3>1, NatMin
  <2>3. First(bad) \in bad
    BY <2>2 DEF First
  <2>4. QED
    BY <2>1, <2>3
<1>3. QED
  BY <1>1, <1>2

\* After arguments that go on, the results are those of the call.
LEMMA AfterIs ==
    ASSUME NEW results, DOMAIN results \subseteq Nat,
           \A i \in DOMAIN results : Goes(results[i]),
           NEW then, NEW result \in After(results, then)
    PROVE  \/ Stop(result)
           \/ result \in then /\ \A i \in DOMAIN results : IsValue(results[i])
<1>1. CASE IsValue(InOrder(results))
  <2>1. result \in then
    BY <1>1 DEF After
  <2>2. QED
    BY <1>1, <2>1, InOrderIs
<1>2. CASE ~IsValue(InOrder(results))
  <2>1. result = InOrder(results)
    BY <1>2 DEF After
  <2>2. PICK i \in DOMAIN results : ~IsValue(results[i]) /\ InOrder(results) = results[i]
    BY <1>2, InOrderIs DEF IsValue, Value
  <2>3. QED
    BY <2>1, <2>2 DEF Goes
<1>3. QED
  BY <1>1, <1>2

-----------------------------------------------------------------------------
(***************************************************************************)
(* Arguments.                                                              *)
(***************************************************************************)

\* The arguments without label are arguments, all of them if none has one.
LEMMA Positionals ==
    ASSUME NEW args, IsSequence(args)
    PROVE  /\ IsSequence(positional(args))
           /\ \A i \in DOMAIN positional(args) : \E j \in DOMAIN args : positional(args)[i] = args[j]
           /\ ~HasLabel(args) => positional(args) = args
<1> DEFINE keep == {i \in DOMAIN args : args[i].label = NoLabel}
<1>1. positional(args) = SelectAt(args, keep)
  BY DEF positional
<1> HIDE DEF keep
<1>2. DOMAIN args = 1..Len(args) /\ Len(args) \in Nat
  BY SequenceFacts
<1>3. PICK S : args \in Seq(S)
  BY DEF IsSequence
<1>4. /\ SelectAt(args, keep) \in Seq(S)
      /\ \E e : /\ Enumerates(e, keep, Len(SelectAt(args, keep)), Len(args))
                /\ \A i \in 1..Len(SelectAt(args, keep)) : SelectAt(args, keep)[i] = args[e[i]]
  BY <1>3, SelectAtPositions
<1> DEFINE chosen == SelectAt(args, keep)
<1> HIDE DEF chosen
<1>5. IsSequence(chosen) /\ DOMAIN chosen = 1..Len(chosen)
  BY <1>4, SequenceOf DEF chosen
<1>6. PICK e : /\ Enumerates(e, keep, Len(chosen), Len(args))
               /\ \A i \in 1..Len(chosen) : chosen[i] = args[e[i]]
  BY <1>4 DEF chosen
<1>7. ASSUME NEW i \in DOMAIN chosen
      PROVE  \E j \in DOMAIN args : chosen[i] = args[j]
  <2>1. e[i] \in 1..Len(args)
    BY <1>5, <1>6 DEF Enumerates
  <2>2. QED
    BY <1>2, <1>5, <1>6, <2>1
<1>8. ASSUME ~HasLabel(args)
      PROVE  chosen = args
  <2>1. keep = DOMAIN args
    BY <1>8 DEF HasLabel, keep
  <2>2. QED
    BY <2>1, SelectAtAll DEF chosen
<1>9. QED
  BY <1>1, <1>5, <1>7, <1>8 DEF chosen

\* An argument of a call is a literal or a path.
LEMMA PositionalAtom ==
    ASSUME NEW x, IsCall(x), NEW i \in DOMAIN positional(x.args)
    PROVE  IsAtom(positional(x.args)[i].value)
<1>1. IsSequence(x.args) /\ \A j \in DOMAIN x.args : IsAtom(x.args[j].value)
  BY DEF IsCall
<1>2. \A k \in DOMAIN positional(x.args) : \E j \in DOMAIN x.args : positional(x.args)[k] = x.args[j]
  BY <1>1, Positionals
<1>3. PICK j \in DOMAIN x.args : positional(x.args)[i] = x.args[j]
  BY <1>2
<1>4. QED
  BY <1>1, <1>3

\* An accepted argument evaluates to a value of its type, or stops.
LEMMA PositionalSound ==
    ASSUME NEW names, NEW types, Bound(names, types), NEW x, IsCall(x),
           NEW i \in DOMAIN positional(x.args),
           check_atom(types, positional(x.args)[i].value).errors = {}
    PROVE  /\ KnownType(check_atom(types, positional(x.args)[i].value).type)
           /\ Fits(eval_atom(names, positional(x.args)[i].value),
                   check_atom(types, positional(x.args)[i].value).type)
BY PositionalAtom, AtomSound

\* A positional argument that the checker has a type for.
LEMMA PositionalJson ==
    ASSUME NEW names, NEW types, Bound(names, types), NEW x, IsCall(x), NEW n \in Nat, NEW i \in 1..n,
           expect_positional_arity(x.args, n) = {},
           check_positional_arg(types, x.args, i).errors = {}
    PROVE  /\ KnownType(check_positional_arg(types, x.args, i).type)
           /\ Goes(positional_json_arg(names, x, i, n))
           /\ IsValue(positional_json_arg(names, x, i, n))
              /\ check_positional_arg(types, x.args, i).type = TInteger =>
                 \E b \in BOOLEAN : positional_json_arg(names, x, i, n).value = Json(JInteger(b))
           /\ IsValue(positional_json_arg(names, x, i, n))
              /\ check_positional_arg(types, x.args, i).type = TString =>
                 positional_json_arg(names, x, i, n).value = Json(JString)
<1>1. IsSequence(positional(x.args)) /\ Len(positional(x.args)) = n
  BY Positionals DEF IsCall, expect_positional_arity
<1>2. i \in DOMAIN positional(x.args)
  BY <1>1, SequenceFacts
<1> DEFINE atom == positional(x.args)[i].value
<1>3. check_positional_arg(types, x.args, i) = check_atom(types, atom)
  BY <1>2 DEF check_positional_arg
<1>4. positional_json_arg(names, x, i, n) = expect_json(eval_atom(names, atom), x)
  BY <1>1 DEF positional_json_arg
<1>5. KnownType(check_atom(types, atom).type) /\ Fits(eval_atom(names, atom), check_atom(types, atom).type)
  BY <1>2, <1>3, PositionalSound
<1> HIDE DEF atom
<1>6. QED
  BY <1>3, <1>4, <1>5, ExpectJson

\* Known types that are expected to be integers, or strings, are.
LEMMA ExpectedIs ==
    ASSUME NEW typed_, KnownType(typed_.type), NEW expected, PlainType(expected),
           expect_exact_type(typed_.type, expected) = {}
    PROVE  typed_.type = expected
BY SamePlain DEF expect_exact_type

\* What is of the kind that is asked for goes on.
LEMMA OnlyGoes ==
    ASSUME NEW kind, NEW result, NEW failure, Goes(result),
           IsValue(result) => result.value[2][1] = kind
    PROVE  Only(kind, result, failure) = result
BY DEF Only

\* An accepted argument with a label, an integer, goes on as one.
LEMMA NamedInteger ==
    ASSUME NEW names, NEW types, Bound(names, types), NEW x, IsCall(x), NEW label,
           expect_named_integer(types, x.args, label) = {}
    PROVE  Goes(named_i64_arg(names, x, label))
<1> DEFINE of == labelled(x.args, label)  atom == x.args[First(of)].value
<1>1. of # {} /\ Expecting(check_atom(types, atom), TInteger) = {}
  BY DEF expect_named_integer
<1>2. First(of) \in DOMAIN x.args
  <2>1. of \subseteq DOMAIN x.args /\ DOMAIN x.args = 1..Len(x.args)
    BY SequenceFacts DEF labelled, IsCall
  <2> HIDE DEF of
  <2>2. of \subseteq Nat
    BY <2>1
  <2>3. \E i \in of : \A j \in of : i <= j
    BY <1>1, <2>2, NatMin
  <2>4. QED
    BY <2>1, <2>3 DEF First
<1>3. IsAtom(atom)
  BY <1>2 DEF IsCall
<1>4. check_atom(types, atom).errors = {} /\ expect_exact_type(check_atom(types, atom).type, TInteger) = {}
  BY <1>1 DEF Expecting
<1> DEFINE result == expect_json(eval_atom(names, atom), x)
<1>5. named_i64_arg(names, x, label) = Only("integer", result, Failed("ExpectedInteger", x))
  BY <1>1 DEF named_i64_arg
<1> HIDE DEF of, atom
<1>6. KnownType(check_atom(types, atom).type) /\ Fits(eval_atom(names, atom), check_atom(types, atom).type)
  BY <1>3, <1>4, AtomSound
<1>7. check_atom(types, atom).type = TInteger
  BY <1>4, <1>6, ExpectedIs DEF PlainType
<1>8. Goes(result) /\ (IsValue(result) => \E b \in BOOLEAN : result.value = Json(JInteger(b)))
  BY <1>6, <1>7, ExpectJson
<1>9. IsValue(result) => result.value[2][1] = "integer"
  BY <1>8 DEF Json, JInteger
<1> HIDE DEF result
<1>10. QED
  BY <1>5, <1>8, <1>9, OnlyGoes

-----------------------------------------------------------------------------
(***************************************************************************)
(* Calls of builtins, of the store and of enum constructors.               *)
(***************************************************************************)

\* The values of calls that respond and that validate.
LEMMA Responds ==
    /\ KnownType(TResponse) /\ Fits(Value(HttpResponse), TResponse)
    /\ KnownType(TBool) /\ \A b \in BOOLEAN : Fits(Value(Bool(b)), TBool)
<1>1. PlainType(TResponse) /\ PlainType(TBool)
  BY DEF PlainType
<1>2. PlainHolds(HttpResponse, TResponse)
  BY DEF PlainHolds, IsEnum, DataHolds, TBool, TUnknown, TUnit, TContext, TRequest, TResponse, TObject
<1>3. \A b \in BOOLEAN : PlainHolds(Bool(b), TBool)
  BY DEF PlainHolds, IsEnum, DataHolds, TBool, TUnknown, TUnit, TContext, TRequest, TResponse, TObject
<1>4. \A v : IsValue(Value(v)) /\ Value(v).value = v
  BY DEF IsValue, Value
<1>5. QED
  BY <1>1, <1>2, <1>3, <1>4, HeldOf DEF Fits

\* What the host gives.
LEMMA HostFits ==
    ASSUME NEW type, PlainType(type), NEW values, \A json \in values : PlainHolds(Json(json), type),
           NEW fn, NEW result \in Host(values)
    PROVE  KnownType(result_type(fn, type)) /\ Fits(result, result_type(fn, type))
<1>1. PICK error : result_type(fn, type) = TResult(type, error)
  BY DEF result_type
<1>2. CASE \E json \in values : result = Value(Json(json))
  <2>1. PICK json \in values : result = Value(Json(json))
    BY <1>2
  <2>2. IsValue(result) /\ result.value = Json(json)
    BY <2>1 DEF IsValue, Value
  <2>3. QED
    BY <1>1, <2>2, HeldOf DEF Fits
<1>3. CASE \E e \in HostErrors : result = Raised(e)
  <2>1. Stop(result)
    BY <1>3 DEF Stop, Raised
  <2>2. QED
    BY <1>1, <2>1, HeldOf DEF Fits
<1>4. QED
  BY <1>2, <1>3 DEF Host

\* What the host decodes for an accepted type argument is of that type.
LEMMA DecodedOf ==
    ASSUME NEW x, IsCall(x), single_type_arg(x).errors = {}
    PROVE  /\ single_type_arg(x).type = x.type_args[1] /\ PlainType(x.type_args[1])
           /\ \A json \in Decoded[x.type_args[1]] : PlainHolds(Json(json), x.type_args[1])
<1>1. Len(x.type_args) = 1 /\ single_type_arg(x).type = x.type_args[1]
  BY DEF single_type_arg, Fine, Typed
<1>2. 1 \in DOMAIN x.type_args
  BY <1>1, SequenceFacts DEF IsCall
<1>3. x.type_args[1] \in DOMAIN Decoded
  BY <1>2 DEF IsCall, Range
<1>4. QED
  BY <1>1, <1>3, HostAssumption

\* AfterIs for one argument.
LEMMA SingleIs ==
    ASSUME NEW result, Goes(result), NEW then, NEW r \in After(<<result>>, then)
    PROVE  Stop(r) \/ (r \in then /\ IsValue(result))
<1> DEFINE results == <<result>>
<1>1. DOMAIN results = {1} /\ results[1] = result
  OBVIOUS
<1> HIDE DEF results
<1>2. DOMAIN results \subseteq Nat /\ \A i \in DOMAIN results : Goes(results[i])
  BY <1>1
<1>3. r \in After(results, then)
  BY DEF results
<1>4. Stop(r) \/ (r \in then /\ \A i \in DOMAIN results : IsValue(results[i]))
  BY <1>2, <1>3, AfterIs
<1>5. QED
  BY <1>1, <1>4

\* Http.Response.ok and created: a response, or a known stop.
LEMMA OkSound ==
    ASSUME NEW names, NEW types, Bound(names, types), NEW x, IsCall(x), NEW fn,
           x.callee \in {HttpResponseOk, HttpResponseCreated},
           check_builtin_call(fn, types, x).errors = {}, NEW r \in eval_builtin(names, x)
    PROVE  /\ KnownType(check_builtin_call(fn, types, x).type)
           /\ Fits(r, check_builtin_call(fn, types, x).type)
<1> DEFINE arg == check_positional_arg(types, x.args, 1)
           first == positional_json_arg(names, x, 1, 1)
<1>1. check_builtin_call(fn, types, x)
         = Typed(TResponse, no_type_args(x) \cup expect_positional_arity(x.args, 1) \cup arg.errors)
  BY DEF check_builtin_call, HttpResponseOk, HttpResponseCreated, HttpResponseError,
         RequestReads, ValidateEmail, ValidateLength, ContextParam
<1>2. eval_builtin(names, x) = After(<<first>>, {Value(HttpResponse)})
  BY DEF eval_builtin, HttpResponseOk, HttpResponseCreated, HttpResponseError,
         RequestReads, ValidateEmail, ValidateLength, ContextParam
<1>3. expect_positional_arity(x.args, 1) = {} /\ arg.errors = {}
  BY <1>1 DEF Typed
<1>4. Goes(first)
  BY <1>3, PositionalJson
<1> HIDE DEF arg, first
<1>5. Stop(r) \/ r = Value(HttpResponse)
  BY <1>2, <1>4, SingleIs
<1>6. check_builtin_call(fn, types, x).type = TResponse
  BY <1>1 DEF Typed
<1>7. QED
  BY <1>5, <1>6, Responds DEF Fits

\* Http.Response.error: a response, or a known stop, a status that is none among them.
LEMMA ErrorSound ==
    ASSUME NEW names, NEW types, Bound(names, types), NEW x, IsCall(x), NEW fn,
           x.callee = HttpResponseError,
           check_builtin_call(fn, types, x).errors = {}, NEW r \in eval_builtin(names, x)
    PROVE  /\ KnownType(check_builtin_call(fn, types, x).type)
           /\ Fits(r, check_builtin_call(fn, types, x).type)
<1> DEFINE arg == check_positional_arg(types, x.args, 1)
           arg2 == check_positional_arg(types, x.args, 2)
           first == positional_json_arg(names, x, 1, 2)
           second == positional_json_arg(names, x, 2, 2)
           status == Only("integer", first, Failed("ExpectedInteger", x))
           then == IF ~status.value[2][2] THEN {Failed("ExpectedInteger", x)}
                   ELSE After(<<second>>, {Value(HttpResponse)})
<1>1. check_builtin_call(fn, types, x)
         = Typed(TResponse, no_type_args(x) \cup expect_positional_arity(x.args, 2)
                            \cup Expecting(arg, TInteger) \cup arg2.errors)
  BY DEF check_builtin_call, HttpResponseOk, HttpResponseCreated, HttpResponseError,
         RequestReads, ValidateEmail, ValidateLength, ContextParam
<1>2. eval_builtin(names, x) = After(<<status>>, then)
  BY DEF eval_builtin, HttpResponseOk, HttpResponseCreated, HttpResponseError,
         RequestReads, ValidateEmail, ValidateLength, ContextParam
<1>3. /\ expect_positional_arity(x.args, 2) = {} /\ arg2.errors = {}
      /\ arg.errors = {} /\ expect_exact_type(arg.type, TInteger) = {}
  BY <1>1 DEF Typed, Expecting
<1>4. KnownType(arg.type)
  BY <1>3, PositionalJson
<1>5. arg.type = TInteger
  BY <1>3, <1>4, ExpectedIs DEF PlainType
<1>6. Goes(first) /\ (IsValue(first) => \E b \in BOOLEAN : first.value = Json(JInteger(b)))
  BY <1>3, <1>5, PositionalJson
<1>7. Goes(second)
  BY <1>3, PositionalJson
<1> HIDE DEF arg, arg2, first, second
<1>8. IsValue(first) => first.value[2][1] = "integer"
  BY <1>6 DEF Json, JInteger
<1>9. status = first
  BY <1>6, <1>8, OnlyGoes
<1> HIDE DEF status, then
<1>10. Stop(r) \/ r \in then
  BY <1>2, <1>6, <1>9, SingleIs
<1>11. ASSUME r \in then PROVE Fits(r, TResponse)
  <2>1. CASE r = Failed("ExpectedInteger", x)
    <3>1. r.is = "failed" /\ r.kind = "ExpectedInteger" /\ r.at.callee = HttpResponseError
      BY <2>1 DEF Failed
    <3>2. QED
      BY <3>1 DEF Fits, Stop, KnownFailure
  <2>2. CASE r \in After(<<second>>, {Value(HttpResponse)})
    <3>1. Stop(r) \/ r = Value(HttpResponse)
      BY <1>7, <2>2, SingleIs
    <3>2. QED
      BY <3>1, Responds DEF Fits
  <2>3. QED
    BY <1>11, <2>1, <2>2 DEF then
<1>12. check_builtin_call(fn, types, x).type = TResponse
  BY <1>1 DEF Typed
<1>13. QED
  BY <1>10, <1>11, <1>12, Responds DEF Fits

\* The reads of the request: what the host decodes is of the type asked for.
LEMMA ReadsSound ==
    ASSUME NEW x, IsCall(x), NEW fn, NEW names, NEW types, x.callee \in RequestReads,
           check_builtin_call(fn, types, x).errors = {}, NEW r \in eval_builtin(names, x)
    PROVE  /\ KnownType(check_builtin_call(fn, types, x).type)
           /\ Fits(r, check_builtin_call(fn, types, x).type)
<1> DEFINE type == single_type_arg(x)
<1>1. check_builtin_call(fn, types, x)
         = Typed(result_type(fn, type.type), type.errors \cup expect_positional_arity(x.args, 0))
  BY DEF check_builtin_call, HttpResponseOk, HttpResponseCreated, HttpResponseError,
         RequestReads, ValidateEmail, ValidateLength, ContextParam
<1>2. eval_builtin(names, x) = IF x.args # << >> THEN {Failed("Arity", x)} ELSE Host(Decoded[x.type_args[1]])
  BY DEF eval_builtin, HttpResponseOk, HttpResponseCreated, HttpResponseError,
         RequestReads, ValidateEmail, ValidateLength, ContextParam
<1>3. type.errors = {} /\ check_builtin_call(fn, types, x).type = result_type(fn, type.type)
  BY <1>1 DEF Typed
<1>4. /\ type.type = x.type_args[1] /\ PlainType(x.type_args[1])
      /\ \A json \in Decoded[x.type_args[1]] : PlainHolds(Json(json), x.type_args[1])
  BY <1>3, DecodedOf
<1> HIDE DEF type
<1>5. KnownType(result_type(fn, x.type_args[1]))
  BY <1>4, HeldOf DEF result_type
<1>6. CASE x.args # << >>
  <2>1. r.is = "failed" /\ r.kind = "Arity" /\ r.at.callee \in RequestReads
    BY <1>2, <1>6 DEF Failed
  <2>2. QED
    BY <1>3, <1>4, <1>5, <2>1 DEF Fits, Stop, KnownFailure
<1>7. CASE x.args = << >>
  <2>1. r \in Host(Decoded[x.type_args[1]])
    BY <1>2, <1>7
  <2>2. QED
    BY <1>3, <1>4, <2>1, HostFits
<1>8. QED
  BY <1>6, <1>7

\* The validations: a boolean, or a known stop.
LEMMA ValidateSound ==
    ASSUME NEW names, NEW types, Bound(names, types), NEW x, IsCall(x), NEW fn,
           x.callee \in {ValidateEmail, ValidateLength},
           check_builtin_call(fn, types, x).errors = {}, NEW r \in eval_builtin(names, x)
    PROVE  /\ KnownType(check_builtin_call(fn, types, x).type)
           /\ Fits(r, check_builtin_call(fn, types, x).type)
<1> DEFINE arg == check_positional_arg(types, x.args, 1)
           first == positional_json_arg(names, x, 1, 1)
           valid == {Value(Bool(b)) : b \in BOOLEAN}
<1>1. CASE x.callee = ValidateEmail
  <2>1. check_builtin_call(fn, types, x)
          = Typed(TBool, no_type_args(x) \cup expect_positional_arity(x.args, 1) \cup ExpectingString(arg))
    BY <1>1 DEF check_builtin_call, HttpResponseOk, HttpResponseCreated, HttpResponseError,
           RequestReads, ValidateEmail, ValidateLength, ContextParam
  <2>2. eval_builtin(names, x) = After(<<first>>, valid)
    BY <1>1 DEF eval_builtin, HttpResponseOk, HttpResponseCreated, HttpResponseError,
           RequestReads, ValidateEmail, ValidateLength, ContextParam
  <2>3. expect_positional_arity(x.args, 1) = {} /\ arg.errors = {}
    BY <2>1 DEF Typed, ExpectingString
  <2>4. Goes(first)
    BY <2>3, PositionalJson
  <2> HIDE DEF arg, first, valid
  <2>5. Stop(r) \/ r \in valid
    BY <2>2, <2>4, SingleIs
  <2>6. check_builtin_call(fn, types, x).type = TBool
    BY <2>1 DEF Typed
  <2>7. QED
    BY <2>5, <2>6, Responds DEF Fits, valid
<1>2. CASE x.callee = ValidateLength
  <2> DEFINE least == named_i64_arg(names, x, "min")  most == named_i64_arg(names, x, "max")
             results == <<first, least, most>>
  <2>1. check_builtin_call(fn, types, x)
          = Typed(TBool, no_type_args(x) \cup expect_positional_arity(x.args, 1) \cup ExpectingString(arg)
                         \cup expect_named_integer(types, x.args, "min")
                         \cup expect_named_integer(types, x.args, "max"))
    BY <1>2 DEF check_builtin_call, HttpResponseOk, HttpResponseCreated, HttpResponseError,
           RequestReads, ValidateEmail, ValidateLength, ContextParam
  <2>2. eval_builtin(names, x) = After(results, valid)
    BY <1>2 DEF eval_builtin, HttpResponseOk, HttpResponseCreated, HttpResponseError,
           RequestReads, ValidateEmail, ValidateLength, ContextParam
  <2>3. /\ expect_positional_arity(x.args, 1) = {} /\ arg.errors = {}
        /\ expect_named_integer(types, x.args, "min") = {}
        /\ expect_named_integer(types, x.args, "max") = {}
    BY <2>1 DEF Typed, ExpectingString
  <2>4. Goes(first)
    BY <2>3, PositionalJson
  <2>5. Goes(least) /\ Goes(most)
    BY <2>3, NamedInteger
  <2> HIDE DEF arg, first, valid, least, most
  <2>6. DOMAIN results = {1, 2, 3} /\ results[1] = first /\ results[2] = least /\ results[3] = most
    OBVIOUS
  <2> HIDE DEF results
  <2>7. DOMAIN results \subseteq Nat /\ \A i \in DOMAIN results : Goes(results[i])
    BY <2>4, <2>5, <2>6
  <2>8. Stop(r) \/ r \in valid
    BY <2>2, <2>7, AfterIs
  <2>9. check_builtin_call(fn, types, x).type = TBool
    BY <2>1 DEF Typed
  <2>10. QED
    BY <2>8, <2>9, Responds DEF Fits, valid
<1>3. QED
  BY <1>1, <1>2

\* ctx.param: what the host decodes is of the type asked for.
LEMMA ParamSound ==
    ASSUME NEW names, NEW types, Bound(names, types), NEW x, IsCall(x), NEW fn,
           x.callee = ContextParam,
           check_builtin_call(fn, types, x).errors = {}, NEW r \in eval_builtin(names, x)
    PROVE  /\ KnownType(check_builtin_call(fn, types, x).type)
           /\ Fits(r, check_builtin_call(fn, types, x).type)
<1> DEFINE arg == check_positional_arg(types, x.args, 1)
           first == positional_json_arg(names, x, 1, 1)
           name == Only("string", first, Failed("ExpectedString", x))
           type == single_type_arg(x)
<1>1. check_builtin_call(fn, types, x)
         = Typed(result_type(fn, type.type), type.errors \cup expect_positional_arity(x.args, 1)
                                             \cup Expecting(arg, TString))
  BY DEF check_builtin_call, HttpResponseOk, HttpResponseCreated, HttpResponseError,
         RequestReads, ValidateEmail, ValidateLength, ContextParam
<1>2. eval_builtin(names, x) = After(<<name>>, Host(Decoded[x.type_args[1]]))
  BY DEF eval_builtin, HttpResponseOk, HttpResponseCreated, HttpResponseError,
         RequestReads, ValidateEmail, ValidateLength, ContextParam
<1>3. /\ type.errors = {} /\ expect_positional_arity(x.args, 1) = {}
      /\ arg.errors = {} /\ expect_exact_type(arg.type, TString) = {}
  BY <1>1 DEF Typed, Expecting
<1>4. KnownType(arg.type)
  BY <1>3, PositionalJson
<1>5. arg.type = TString
  BY <1>3, <1>4, ExpectedIs DEF PlainType
<1>6. Goes(first) /\ (IsValue(first) => first.value = Json(JString))
  BY <1>3, <1>5, PositionalJson
<1>7. /\ type.type = x.type_args[1] /\ PlainType(x.type_args[1])
      /\ \A json \in Decoded[x.type_args[1]] : PlainHolds(Json(json), x.type_args[1])
  BY <1>3, DecodedOf
<1>8. check_builtin_call(fn, types, x).type = result_type(fn, x.type_args[1])
  BY <1>1, <1>7 DEF Typed
<1> HIDE DEF arg, first, type
<1>9. IsValue(first) => first.value[2][1] = "string"
  BY <1>6 DEF Json, JString
<1>10. name = first
  BY <1>6, <1>9, OnlyGoes
<1> HIDE DEF name
<1>11. Stop(r) \/ r \in Host(Decoded[x.type_args[1]])
  BY <1>2, <1>6, <1>10, SingleIs
<1>12. KnownType(result_type(fn, x.type_args[1]))
  BY <1>7, HeldOf DEF result_type
<1>13. QED
  BY <1>7, <1>8, <1>11, <1>12, HostFits DEF Fits

\* So every builtin call that was accepted.
LEMMA BuiltinSound ==
    ASSUME NEW names, NEW types, Bound(names, types), NEW x, IsCall(x), NEW fn, x.callee \in Builtins,
           check_builtin_call(fn, types, x).errors = {}, NEW r \in eval_builtin(names, x)
    PROVE  /\ KnownType(check_builtin_call(fn, types, x).type)
           /\ Fits(r, check_builtin_call(fn, types, x).type)
<1>1. CASE x.callee \in {HttpResponseOk, HttpResponseCreated}
  BY <1>1, OkSound
<1>2. CASE x.callee = HttpResponseError
  BY <1>2, ErrorSound
<1>3. CASE x.callee \in RequestReads
  BY <1>3, ReadsSound
<1>4. CASE x.callee \in {ValidateEmail, ValidateLength}
  BY <1>4, ValidateSound
<1>5. CASE x.callee = ContextParam
  BY <1>5, ParamSound
<1>6. QED
  BY <1>1, <1>2, <1>3, <1>4, <1>5 DEF Builtins

\* What is asked of the store fits the model of the collection.
LEMMA DbSound ==
    ASSUME NEW names, NEW types, Bound(names, types), NEW x, IsCall(x), NEW fn,
           db_call_by_callee(x.callee),
           check_db_call(fn, types, x).errors = {}, NEW r \in eval_db_call(names, x)
    PROVE  /\ KnownType(check_db_call(fn, types, x).type)
           /\ Fits(r, check_db_call(fn, types, x).type)
<1> DEFINE collection == x.callee[3]
           name == Models[collection]  model == TNamed(name)
           arg == check_positional_arg(types, x.args, 1)
           first == positional_json_arg(names, x, 1, 1)
           rows == Stored[collection]
           lists == {Value(Json(JList(items))) : items \in {<< >>} \cup {<<row>> : row \in rows}}
<1>1. collection \in DOMAIN Models
  BY DEF check_db_call, Typed
<1>2. name \in DOMAIN Structs /\ collection \in DOMAIN Stored /\ rows \subseteq JsonOf[name]
  BY <1>1, DeclarationAssumption, HostAssumption DEF Range
<1>3. /\ ~IsEnum(model) /\ PlainType(model) /\ name \in DOMAIN JsonOf
  BY <1>2, StructsApart
<1>4. \A row \in rows : IsJson(Json(row)) /\ JsonHolds(row, model) /\ PlainHolds(Json(row), model)
  <2> SUFFICES ASSUME NEW row \in rows
               PROVE  IsJson(Json(row)) /\ JsonHolds(row, model) /\ PlainHolds(Json(row), model)
    OBVIOUS
  <2>1. JsonHolds(row, model)
    BY <1>2, <1>3 DEF JsonHolds, TNamed, TString, TBool, TInteger
  <2>2. IsJson(Json(row)) /\ Json(row)[2] = row
    BY DEF IsJson, Json
  <2>3. DataHolds(Json(row), model)
    BY <2>1, <2>2 DEF DataHolds, TNamed, TUnknown, TUnit, TContext, TRequest, TResponse, TObject, TBool
  <2>4. QED
    BY <1>3, <2>1, <2>2, <2>3 DEF PlainHolds
<1>5. CASE x.callee[4] = "all"
  <2>1. check_db_call(fn, types, x)
          = Typed(result_type(fn, TList(model)),
                  no_type_args(x) \cup no_labels(x.args) \cup expect_positional_arity(x.args, 0) \cup {})
    BY <1>1, <1>5 DEF check_db_call
  <2>2. no_labels(x.args) = {} /\ expect_positional_arity(x.args, 0) = {}
    BY <2>1 DEF Typed
  <2>3. ~HasLabel(x.args) /\ Len(positional(x.args)) = 0
    BY <2>2 DEF no_labels, expect_positional_arity
  <2>4. x.args = << >>
    <3>1. IsSequence(x.args)
      BY DEF IsCall
    <3>2. positional(x.args) = x.args
      BY <2>3, <3>1, Positionals
    <3>3. QED
      BY <2>3, <3>1, <3>2, SequenceFacts
  <2>5. r \in lists
    BY <1>2, <1>5, <2>4 DEF eval_db_call
  <2>6. PICK items \in {<< >>} \cup {<<row>> : row \in rows} : r = Value(Json(JList(items)))
    BY <2>5
  <2>7. PlainHolds(Json(JList(items)), TList(model))
    <3>1. \A i \in DOMAIN items : JsonHolds(items[i], model)
      BY <1>4, <2>6
    <3>2. ~IsEnum(TList(model)) /\ TList(model)[1] = "List" /\ TList(model)[2] = model
      BY DEF IsEnum, TList
    <3> DEFINE v == Json(JList(items))
    <3>3. IsJson(v) /\ v[2] = JList(items) /\ v[2][1] = "list" /\ v[2][2] = items
      BY DEF IsJson, Json, JList
    <3> HIDE DEF v, model
    <3>4. DataHolds(v, TList(model))
      BY <3>1, <3>2, <3>3
      DEF DataHolds, TList, TUnknown, TUnit, TContext, TRequest, TResponse, TObject
    <3>5. QED
      BY <3>2, <3>4 DEF PlainHolds, v
  <2>8. PlainType(TList(model))
    BY <1>3 DEF PlainType
  <2>9. check_db_call(fn, types, x).type = result_type(fn, TList(model))
    BY <2>1 DEF Typed
  <2>10. IsValue(r) /\ r.value = Json(JList(items))
    BY <2>6 DEF IsValue, Value
  <2>11. PICK e : result_type(fn, TList(model)) = TResult(TList(model), e)
    BY DEF result_type
  <2> HIDE DEF model
  <2>12. QED
    BY <2>7, <2>8, <2>9, <2>10, <2>11, HeldOf DEF Fits
<1>6. CASE x.callee[4] # "all"
  <2>1. check_db_call(fn, types, x)
          = Typed(result_type(fn, model),
                  no_type_args(x) \cup no_labels(x.args) \cup expect_positional_arity(x.args, 1)
                  \cup arg.errors)
    BY <1>1, <1>6 DEF check_db_call
  <2>2. expect_positional_arity(x.args, 1) = {} /\ arg.errors = {}
    BY <2>1 DEF Typed
  <2>3. Goes(first)
    BY <2>2, PositionalJson
  <2>4. eval_db_call(names, x) = After(<<first>>, Host(rows))
    BY <1>2, <1>6 DEF eval_db_call
  <2>5. check_db_call(fn, types, x).type = result_type(fn, model)
    BY <2>1 DEF Typed
  <2>6. KnownType(result_type(fn, model))
    BY <1>3, HeldOf DEF result_type
  <2> HIDE DEF first, rows, model
  <2>7. Stop(r) \/ r \in Host(rows)
    BY <2>3, <2>4, SingleIs
  <2>8. QED
    BY <1>3, <1>4, <2>5, <2>6, <2>7, HostFits DEF Fits
<1>7. QED
  BY <1>5, <1>6

\* Arguments that were held against their declared types.
LEMMA ArgumentsSound ==
    ASSUME NEW names, NEW types, Bound(names, types), NEW x, IsCall(x),
           NEW expected, IsSequence(expected), \A i \in DOMAIN expected : DeclaredType(expected[i]),
           no_labels(x.args) = {}, expect_positional_arity(x.args, Len(expected)) = {},
           check_args(types, x.args, expected) = {},
           NEW results,
           results = [i \in DOMAIN x.args |-> eval_atom(names, x.args[i].value)]
    PROVE  /\ ~HasLabel(x.args) /\ positional(x.args) = x.args /\ DOMAIN x.args = DOMAIN expected
           /\ Len(x.args) = Len(expected)
           /\ \/ ~IsValue(InOrder(results)) /\ Stop(InOrder(results))
              \/ \E values : /\ InOrder(results) = Value(values)
                             /\ IsSequence(values) /\ Len(values) = Len(expected)
                             /\ \A i \in DOMAIN expected : Holds(values[i], expected[i])
<1>1. ~HasLabel(x.args) /\ IsSequence(x.args)
  BY DEF no_labels, IsCall
<1>2. positional(x.args) = x.args
  BY <1>1, Positionals
<1>3. Len(x.args) = Len(expected)
  BY <1>2 DEF expect_positional_arity
<1>4. DOMAIN x.args = 1..Len(x.args) /\ DOMAIN expected = 1..Len(expected)
  BY <1>1, SequenceFacts
<1>5. ASSUME NEW i \in DOMAIN expected
      PROVE  Fits(results[i], expected[i])
  <2> DEFINE atom == check_atom(types, x.args[i].value)
  <2>1. Expecting(atom, expected[i]) \subseteq check_args(types, x.args, expected)
    BY <1>2, <1>3, <1>4 DEF check_args
  <2>2. atom.errors = {} /\ expect_exact_type(atom.type, expected[i]) = {}
    BY <2>1 DEF Expecting
  <2>3. IsAtom(x.args[i].value)
    BY <1>3, <1>4 DEF IsCall
  <2>4. KnownType(atom.type) /\ Fits(eval_atom(names, x.args[i].value), atom.type)
    BY <2>2, <2>3, AtomSound
  <2>5. same_body_type(atom.type, expected[i]) /\ DeclaredType(expected[i])
    BY <2>2 DEF expect_exact_type
  <2>6. results[i] = eval_atom(names, x.args[i].value)
    BY <1>3, <1>4
  <2> HIDE DEF atom
  <2>7. QED
    BY <2>4, <2>5, <2>6, SameHolds DEF Fits
<1>6. DOMAIN results = DOMAIN x.args
  OBVIOUS
<1>7. CASE /\ \A i \in DOMAIN results : IsValue(results[i])
           /\ InOrder(results) = Value([i \in DOMAIN results |-> results[i].value])
  <2> DEFINE values == [i \in DOMAIN results |-> results[i].value]
  <2>1. InOrder(results) = Value(values)
    BY <1>7
  <2>2. DOMAIN values = DOMAIN expected /\ values \in [DOMAIN expected -> {values[j] : j \in DOMAIN expected}]
    BY <1>3, <1>4, <1>6
  <2>3. \A i \in DOMAIN expected : values[i] = results[i].value
    BY <1>3, <1>4, <1>6
  <2> HIDE DEF values
  <2>4. IsSequence(values) /\ Len(values) = Len(expected)
    BY <2>2, SamePositions
  <2>5. \A i \in DOMAIN expected : Holds(values[i], expected[i])
    BY <1>3, <1>4, <1>5, <1>6, <1>7, <2>3 DEF Fits, Stop, KnownFailure, IsValue
  <2>6. QED
    BY <1>1, <1>2, <1>3, <1>4, <2>1, <2>4, <2>5
<1>8. CASE \E i \in DOMAIN results : ~IsValue(results[i]) /\ InOrder(results) = results[i]
  BY <1>1, <1>2, <1>3, <1>4, <1>5, <1>6, <1>8 DEF Fits
<1>9. QED
  <2>1. DOMAIN results \subseteq Nat
    BY <1>4, <1>6
  <2>2. QED
    BY <1>7, <1>8, <2>1, InOrderIs

\* An accepted constructor makes a value of its enum, or stops in a known way.
LEMMA ConstructorSound ==
    ASSUME NEW names, NEW types, Bound(names, types), NEW x, IsCall(x),
           check_enum_constructor(types, x).errors = {}
    PROVE  /\ KnownType(check_enum_constructor(types, x).type)
           /\ Fits(eval_enum_constructor(names, x), check_enum_constructor(types, x).type)
<1> DEFINE name == x.callee[1]  variant == x.callee[2]  payload == Enums[name][variant]
           results == [i \in DOMAIN x.args |-> eval_atom(names, x.args[i].value)]
<1>1. /\ check_enum_constructor(types, x).type = TNamed(name) /\ IsVariant(x.callee)
      /\ no_labels(x.args) = {} /\ expect_positional_arity(x.args, Len(payload)) = {}
      /\ check_args(types, x.args, payload) = {}
  BY DEF check_enum_constructor, Typed
<1>2. name \in DOMAIN Enums /\ variant \in DOMAIN Enums[name]
  BY <1>1 DEF IsVariant
<1>3. IsSequence(payload) /\ \A i \in DOMAIN payload : DataType(payload[i])
  BY <1>2, DeclarationAssumption
<1>4. \A i \in DOMAIN payload : DeclaredType(payload[i])
  BY <1>3 DEF DataType, DeclaredType
<1>5. IsEnum(TNamed(name)) /\ PlainType(TNamed(name)) /\ TNamed(name)[2] = name
  BY <1>2 DEF IsEnum, TNamed, PlainType
<1> HIDE DEF results, payload
<1>6. /\ ~HasLabel(x.args)
      /\ \/ ~IsValue(InOrder(results)) /\ Stop(InOrder(results))
         \/ \E values : /\ InOrder(results) = Value(values)
                        /\ IsSequence(values) /\ Len(values) = Len(payload)
                        /\ \A i \in DOMAIN payload : Holds(values[i], payload[i])
  BY <1>1, <1>3, <1>4, ArgumentsSound DEF results
<1>7. eval_enum_constructor(names, x)
        = IF IsValue(InOrder(results)) THEN Value(EnumValue(name, variant, InOrder(results).value))
          ELSE InOrder(results)
  BY <1>6 DEF eval_enum_constructor, results
<1>8. CASE ~IsValue(InOrder(results)) /\ Stop(InOrder(results))
  BY <1>1, <1>5, <1>7, <1>8, HeldOf DEF Fits
<1>9. ASSUME NEW values, InOrder(results) = Value(values),
             IsSequence(values), Len(values) = Len(payload),
             \A i \in DOMAIN payload : Holds(values[i], payload[i])
      PROVE  Fits(eval_enum_constructor(names, x), TNamed(name))
  <2> DEFINE v == EnumValue(name, variant, values)
  <2>1. eval_enum_constructor(names, x) = Value(v)
    BY <1>7, <1>9 DEF IsValue, Value
  <2>2. v[1] = "Enum" /\ v[3] = variant /\ v[4] = values /\ v = EnumValue(name, v[3], v[4])
    BY DEF EnumValue
  <2>3. \A i \in DOMAIN payload : DataHolds(values[i], payload[i])
    BY <1>3, <1>9, DataIs
  <2> HIDE DEF v
  <2>4. EnumHolds(v, name)
    BY <1>2, <1>9, <2>2, <2>3 DEF EnumHolds, payload
  <2>5. Holds(v, TNamed(name))
    BY <1>5, <2>4, HeldOf DEF PlainHolds
  <2>6. QED
    BY <2>1, <2>5 DEF Fits, IsValue, Value
<1>10. QED
  BY <1>1, <1>5, <1>6, <1>8, <1>9, HeldOf

\* An accepted object evaluates to an object, or stops in a known way.
LEMMA ObjectSound ==
    ASSUME NEW names, NEW types, Bound(names, types), NEW x, IsObject(x), NEW fn,
           check_plain(fn, types, x).errors = {}, NEW r \in eval_object(names, x)
    PROVE  check_plain(fn, types, x).type = TObject /\ Fits(r, TObject)
<1>1. x.e = "object" /\ \A key \in DOMAIN x.fields : IsAtom(x.fields[key])
  BY DEF IsObject
<1>2. check_plain(fn, types, x)
        = Typed(TObject, UNION {check_atom(types, x.fields[key]).errors : key \in DOMAIN x.fields})
  BY <1>1 DEF check_plain
<1>3. UNION {check_atom(types, x.fields[key]).errors : key \in DOMAIN x.fields} = {}
  BY <1>2 DEF Typed
<1> DEFINE members == [key \in DOMAIN x.fields |-> expect_json(eval_atom(names, x.fields[key]), x)]
<1>4. ASSUME NEW key \in DOMAIN x.fields
      PROVE  Goes(members[key])
  <2>1. check_atom(types, x.fields[key]).errors = {} /\ IsAtom(x.fields[key])
    BY <1>1, <1>3
  <2>2. /\ KnownType(check_atom(types, x.fields[key]).type)
        /\ Fits(eval_atom(names, x.fields[key]), check_atom(types, x.fields[key]).type)
    BY <2>1, AtomSound
  <2>3. QED
    BY <2>2, ExpectJson
<1>5. DOMAIN members = DOMAIN x.fields
  OBVIOUS
<1> DEFINE fields == [key \in DOMAIN members |-> members[key].value[2]]
           bad == {key \in DOMAIN members : ~IsValue(members[key])}
<1>6. r \in IF bad = {} THEN {Value(Json(JObject(fields)))} ELSE {members[key] : key \in bad}
  BY DEF eval_object
<1> HIDE DEF members, fields
<1>7. CASE bad = {}
  <2>1. IsValue(r) /\ r.value = Json(JObject(fields))
    BY <1>6, <1>7 DEF IsValue, Value
  <2>2. IsJson(Json(JObject(fields))) /\ Json(JObject(fields))[2][1] = "object"
    BY DEF IsJson, Json, JObject
  <2>3. ~IsResult(TObject) /\ ~IsEnum(TObject)
    BY DEF IsResult, IsEnum, TObject
  <2>4. DataHolds(Json(JObject(fields)), TObject)
    BY <2>2 DEF DataHolds, TObject, TUnknown, TUnit, TContext, TRequest, TResponse
  <2>5. QED
    BY <1>2, <2>1, <2>3, <2>4 DEF Fits, Holds, PlainHolds, Typed
<1>8. CASE bad # {}
  <2>1. PICK key \in bad : r = members[key]
    BY <1>6, <1>8
  <2>2. QED
    BY <1>2, <1>4, <1>5, <2>1 DEF Goes, Fits, Typed
<1>9. QED
  BY <1>7, <1>8

\* An expression without `?`, that calls no function.
LEMMA PlainSound ==
    ASSUME NEW names, NEW types, Bound(names, types), NEW x, NEW fn,
           IsAtom(x) \/ IsObject(x) \/ IsCall(x), ~IsUserCall(x),
           check_plain(fn, types, x).errors = {}, NEW r \in eval_expr(names, x)
    PROVE  /\ KnownType(check_plain(fn, types, x).type)
           /\ Fits(r, check_plain(fn, types, x).type)
<1>1. CASE IsAtom(x)
  <2>1. x.e # "object" /\ x.e # "call"
    BY <1>1 DEF IsAtom, IsLiteral, Literal, IsPath
  <2>2. check_plain(fn, types, x) = check_atom(types, x) /\ r = eval_atom(names, x)
    BY <2>1 DEF check_plain, eval_expr
  <2>3. QED
    BY <1>1, <2>2, AtomSound
<1>2. CASE IsObject(x)
  <2>1. r \in eval_object(names, x)
    BY <1>2 DEF eval_expr, IsObject
  <2>2. check_plain(fn, types, x).type = TObject /\ Fits(r, TObject)
    BY <1>2, <2>1, ObjectSound
  <2>3. QED
    BY <2>2 DEF KnownType
<1>3. CASE IsCall(x)
  <2>1. check_plain(fn, types, x) = check_call(fn, types, x)
    BY <1>3 DEF check_plain, IsCall
  <2>2. CASE x.callee \in Builtins
    <3>1. check_call(fn, types, x) = check_builtin_call(fn, types, x) /\ r \in eval_builtin(names, x)
      BY <1>3, <2>2 DEF check_call, eval_expr, IsCall
    <3>2. QED
      BY <1>3, <2>1, <2>2, <3>1, BuiltinSound
  <2>3. CASE x.callee \notin Builtins /\ db_call_by_callee(x.callee)
    <3>1. check_call(fn, types, x) = check_db_call(fn, types, x) /\ r \in eval_db_call(names, x)
      BY <1>3, <2>3 DEF check_call, eval_expr, IsCall
    <3>2. QED
      BY <1>3, <2>1, <2>3, <3>1, DbSound
  <2>4. CASE x.callee \notin Builtins /\ ~db_call_by_callee(x.callee)
    <3>1. Len(x.callee) = 2 /\ r = eval_enum_constructor(names, x)
      BY <1>3, <2>4 DEF IsUserCall, eval_expr, IsCall
    <3>2. check_call(fn, types, x) = check_enum_constructor(types, x)
      BY <2>1, <2>4, <3>1 DEF check_call, Typed
    <3>3. QED
      BY <1>3, <2>1, <3>1, <3>2, ConstructorSound
  <2>5. QED
    BY <2>2, <2>3, <2>4
<1>4. QED
  BY <1>1, <1>2, <1>3

\* `?` lets the value of a Result through.
LEMMA TriedSound ==
    ASSUME NEW fn, NEW x, NEW value, KnownType(value.type), Tried(fn, x, value).errors = {}
    PROVE  /\ value.errors = {} /\ KnownType(Tried(fn, x, value).type)
           /\ \A v : Holds(v, value.type) => Holds(v, Tried(fn, x, value).type)
           /\ x.e = "try" /\ IsResult(value.type) =>
                 /\ IsResult(returns(fn))
                 /\ same_body_type(result_error(value.type), result_error(returns(fn)))
<1>1. CASE x.e # "try"
  BY <1>1 DEF Tried
<1>2. CASE x.e = "try"
  <2>1. Tried(fn, x, value) = check_try(fn, value)
    BY <1>2 DEF Tried
  <2>2. IsResult(value.type)
    BY <2>1 DEF check_try, Typed
  <2>3. /\ value.errors = {} /\ Tried(fn, x, value).type = result_ok(value.type)
        /\ IsResult(returns(fn))
        /\ expect_exact_type(result_error(value.type), result_error(returns(fn))) = {}
    BY <2>1, <2>2 DEF check_try, Typed
  <2>4. same_body_type(result_error(value.type), result_error(returns(fn)))
    BY <2>3 DEF expect_exact_type
  <2>5. value.type = TResult(value.type[2], value.type[3]) /\ PlainType(value.type[2])
    BY <2>2, KnownIs
  <2>6. result_ok(value.type) = value.type[2]
    BY DEF result_ok
  <2>7. KnownType(result_ok(value.type))
    BY <2>5, <2>6, HeldOf
  <2>8. \A v : Holds(v, value.type) => Holds(v, result_ok(value.type))
    BY <2>2, <2>5, <2>6, HeldOf DEF Holds
  <2>9. QED
    BY <2>3, <2>4, <2>7, <2>8
<1>3. QED
  BY <1>1, <1>2

-----------------------------------------------------------------------------
(***************************************************************************)
(* Expressions of statements, and the functions they call.                 *)
(***************************************************************************)

\* An accepted expression that calls no function evaluates to a value of its
\* type, or stops in a known way: under `?` too.
LEMMA ExprSound ==
    ASSUME NEW names, NEW types, Bound(names, types), NEW x, IsExpr(x), NEW fn,
           ~IsUserCall(Untried(x)), check_expr(fn, types, x).errors = {},
           NEW r \in eval_expr(names, Untried(x))
    PROVE  /\ KnownType(check_expr(fn, types, x).type)
           /\ Fits(r, check_expr(fn, types, x).type)
<1> DEFINE value == check_plain(fn, types, Untried(x))
<1>1. check_expr(fn, types, x) = Tried(fn, x, value)
  BY DEF check_expr
<1>2. value.errors = {}
  BY <1>1 DEF Tried, check_try, Typed
<1>3. KnownType(value.type) /\ Fits(r, value.type)
  BY <1>2, PlainSound DEF IsExpr
<1> HIDE DEF value
<1>4. /\ KnownType(Tried(fn, x, value).type)
      /\ \A v : Holds(v, value.type) => Holds(v, Tried(fn, x, value).type)
  BY <1>1, <1>3, TriedSound
<1>5. QED
  BY <1>1, <1>3, <1>4 DEF Fits

\* The types of the parameters of a function.
ParamList(fn) == [i \in DOMAIN Functions[fn].params |-> Functions[fn].params[i].type]

\* The parameters of a function and their declared types.
LEMMA Params ==
    ASSUME NEW fn \in DOMAIN Functions
    PROVE  /\ IsSequence(Functions[fn].params) /\ IsSequence(ParamList(fn))
           /\ DOMAIN ParamList(fn) = DOMAIN Functions[fn].params
           /\ Len(ParamList(fn)) = Len(Functions[fn].params)
           /\ \A i \in DOMAIN ParamList(fn) :
                 ParamList(fn)[i] = Functions[fn].params[i].type /\ DeclaredType(ParamList(fn)[i])
<1> DEFINE params == Functions[fn].params  list == ParamList(fn)
<1>1. IsSequence(params) /\ \A i \in DOMAIN params : DeclaredType(params[i].type)
  BY DeclarationAssumption
<1>2. DOMAIN list = DOMAIN params /\ \A i \in DOMAIN params : list[i] = params[i].type
  BY DEF ParamList
<1>3. list \in [DOMAIN params -> {list[j] : j \in DOMAIN params}]
  BY DEF ParamList
<1> HIDE DEF params, list
<1>4. IsSequence(list) /\ Len(list) = Len(params)
  BY <1>1, <1>2, <1>3, SamePositions
<1>5. QED
  BY <1>1, <1>2, <1>4 DEF params, list

\* A type that a declaration gives is known.
LEMMA DeclaredKnown ==
    ASSUME NEW type, DeclaredType(type)
    PROVE  KnownType(type)
BY DEF DeclaredType, KnownType

\* A call that the checker accepted is of a function, with as many arguments
\* as it has parameters.
LEMMA CallAccepted ==
    ASSUME NEW fn, NEW types, NEW x, IsExpr(x), IsUserCall(Untried(x)),
           check_expr(fn, types, x).errors = {}
    PROVE  LET u == Untried(x)  callee == u.callee[1]
               type == IF returns(callee) = NoReturnType THEN TUnit ELSE returns(callee)
               value == check_plain(fn, types, u)
           IN /\ IsCall(u) /\ Len(u.callee) = 1 /\ callee \in DOMAIN Functions
              /\ value.type = type /\ value.errors = {} /\ KnownType(type)
              /\ check_expr(fn, types, x) = Tried(fn, x, value)
              /\ no_labels(u.args) = {}
              /\ expect_positional_arity(u.args, Len(ParamList(callee))) = {}
              /\ check_args(types, u.args, ParamList(callee)) = {}
<1> DEFINE u == Untried(x)  callee == u.callee[1]
           type == IF returns(callee) = NoReturnType THEN TUnit ELSE returns(callee)
           value == check_plain(fn, types, u)
<1>1. IsCall(u)
  BY DEF IsExpr, IsUserCall, IsAtom, IsLiteral, Literal, IsPath, IsObject
<1>2. u.callee \notin Builtins /\ ~db_call_by_callee(u.callee) /\ Len(u.callee) # 2 /\ u.e = "call"
  BY DEF IsUserCall
<1>3. check_expr(fn, types, x) = Tried(fn, x, value)
  BY DEF check_expr
<1>4. value.errors = {}
  BY <1>3 DEF Tried, check_try, Typed
<1>5. value = check_call(fn, types, u)
  BY <1>2 DEF check_plain
<1>6. Len(u.callee) = 1 /\ callee \in DOMAIN Functions /\ value = check_user_function_call(types, u)
  BY <1>2, <1>4, <1>5 DEF check_call, Typed
<1> DEFINE list == [i \in DOMAIN Functions[callee].params |-> Functions[callee].params[i].type]
<1>7. value = Typed(type, no_type_args(u) \cup no_labels(u.args)
                          \cup expect_positional_arity(u.args, Len(list))
                          \cup check_args(types, u.args, list))
  BY <1>6 DEF check_user_function_call, returns
<1>8. /\ value.type = type /\ no_labels(u.args) = {}
      /\ expect_positional_arity(u.args, Len(list)) = {}
      /\ check_args(types, u.args, list) = {}
  <2> HIDE DEF value, u, list, type
  <2>1. QED
    BY <1>4, <1>7 DEF Typed
<1>9. KnownType(type)
  <2>1. returns(callee) = NoReturnType \/ DeclaredType(returns(callee))
    BY <1>6, DeclarationAssumption
  <2>2. KnownType(TUnit)
    BY DEF KnownType, PlainType
  <2>3. QED
    BY <2>1, <2>2, DeclaredKnown
<1>10. list = ParamList(callee)
  BY DEF ParamList
<1> HIDE DEF value, list, type
<1>11. QED
  BY <1>1, <1>3, <1>4, <1>6, <1>8, <1>9, <1>10 DEF value, type

\* What a call returned is of the type that the checker has for the call.
LEMMA CallReturns ==
    ASSUME NEW fn, NEW types, NEW x, IsExpr(x), IsUserCall(Untried(x)),
           check_expr(fn, types, x).errors = {},
           returns(Untried(x).callee[1]) # NoReturnType,
           NEW v, Holds(v, returns(Untried(x).callee[1]))
    PROVE  KnownType(check_expr(fn, types, x).type) /\ Holds(v, check_expr(fn, types, x).type)
<1> DEFINE u == Untried(x)  callee == u.callee[1]  value == check_plain(fn, types, u)
<1>1. /\ value.type = returns(callee) /\ KnownType(value.type)
      /\ check_expr(fn, types, x) = Tried(fn, x, value)
  BY CallAccepted
<1> HIDE DEF value
<1>2. /\ KnownType(Tried(fn, x, value).type)
      /\ \A w : Holds(w, value.type) => Holds(w, Tried(fn, x, value).type)
  BY <1>1, TriedSound
<1>3. QED
  BY <1>1, <1>2

\* An error that leaves through a call under `?` is of the caller's enum.
LEMMA CallRaises ==
    ASSUME NEW fn \in DOMAIN Functions, NEW types, NEW x, IsExpr(x), IsUserCall(Untried(x)),
           check_expr(fn, types, x).errors = {}, x.e = "try",
           IsResult(returns(Untried(x).callee[1]))
    PROVE  /\ IsResult(returns(fn))
           /\ result_error(returns(Untried(x).callee[1])) = result_error(returns(fn))
<1> DEFINE u == Untried(x)  callee == u.callee[1]  value == check_plain(fn, types, u)
<1>1. returns(callee) # NoReturnType
  BY DEF IsResult, NoReturnType
<1>2. /\ value.type = returns(callee) /\ KnownType(value.type) /\ callee \in DOMAIN Functions
      /\ check_expr(fn, types, x) = Tried(fn, x, value)
  BY <1>1, CallAccepted
<1> HIDE DEF value
<1>3. /\ IsResult(returns(fn))
      /\ same_body_type(result_error(returns(callee)), result_error(returns(fn)))
  BY <1>2, TriedSound
<1>4. DeclaredType(returns(callee)) /\ DeclaredType(returns(fn))
  BY <1>1, <1>2, <1>3, DeclarationAssumption DEF IsResult, NoReturnType
<1>5. PlainType(result_error(returns(callee))) /\ PlainType(result_error(returns(fn)))
  BY <1>3, <1>4, PlainIs DEF DeclaredType, result_error
<1>6. KnownType(result_error(returns(callee)))
  BY <1>5 DEF KnownType
<1>7. QED
  BY <1>3, <1>5, <1>6, SamePlain

\* The names a function begins with.
GivenAt(fn, args, bound) ==
    LET params == Functions[fn].params
        index(n) == CHOOSE i \in bound : params[i].name = n
    IN [n \in {params[i].name : i \in bound} |-> args[index(n)]]
Given(fn, args) == GivenAt(fn, args, DOMAIN Functions[fn].params \cap DOMAIN args)

\* Arguments of the declared types make names that have the parameters' types.
LEMMA GivenBound ==
    ASSUME NEW fn \in DOMAIN Functions, NEW args, IsSequence(args),
           Len(args) = Len(Functions[fn].params),
           \A i \in DOMAIN Functions[fn].params : Holds(args[i], Functions[fn].params[i].type),
           DOMAIN Enums \subseteq Capitals, DOMAIN ParamTypes(fn) \cap Capitals = {}
    PROVE  Bound(Given(fn, args), ParamTypes(fn))
<1> DEFINE params == Functions[fn].params
           index(n) == CHOOSE i \in DOMAIN params : params[i].name = n
           all == {params[i].name : i \in DOMAIN params}
<1>1. IsSequence(params) /\ \A i \in DOMAIN params : DeclaredType(params[i].type)
  BY DeclarationAssumption
<1>2. DOMAIN params = DOMAIN args
  BY <1>1, SequenceFacts
<1>3. Given(fn, args) = [n \in all |-> args[index(n)]]
  <2>1. DOMAIN params \cap DOMAIN args = DOMAIN params
    BY <1>2
  <2>2. Given(fn, args) = GivenAt(fn, args, DOMAIN params)
    BY <2>1 DEF Given
  <2>3. QED
    BY <2>2 DEF GivenAt
<1>4. ParamTypes(fn) = [n \in all |-> params[index(n)].type]
  BY DEF ParamTypes
<1>5. ASSUME NEW n \in all
      PROVE  /\ n \in DOMAIN Given(fn, args) /\ KnownType(ParamTypes(fn)[n])
             /\ Holds(Given(fn, args)[n], ParamTypes(fn)[n])
  <2>1. index(n) \in DOMAIN params
    OBVIOUS
  <2>2. Given(fn, args)[n] = args[index(n)] /\ ParamTypes(fn)[n] = params[index(n)].type
        /\ n \in DOMAIN Given(fn, args)
    BY <1>3, <1>4
  <2> HIDE DEF index
  <2>3. QED
    BY <1>1, <2>1, <2>2, DeclaredKnown
<1>6. DOMAIN ParamTypes(fn) = all
  BY <1>4
<1>7. QED
  BY <1>5, <1>6 DEF Bound

-----------------------------------------------------------------------------
(***************************************************************************)
(* Matches: what the checker found of their arms.                          *)
(***************************************************************************)

SameTypes(left, right) ==
    DOMAIN left = DOMAIN right /\ \A name \in DOMAIN right : left[name] = right[name]

\* Names have the one types exactly if they have the other that are the same.
LEMMA BoundSame ==
    ASSUME NEW names, NEW left, NEW right, SameTypes(left, right)
    PROVE  Bound(names, left) <=> Bound(names, right)
BY DEF SameTypes, Bound

\* What an arm binds is added to what was known.
LEMMA BindArmIs ==
    ASSUME NEW type, NEW types, NEW arm
    PROVE  LET b == bind_arm(type, types, arm)
               p == bind_pattern_payload(types, arm.bindings, Enums[type[2]][arm.variant])
           IN /\ DOMAIN b.env = DOMAIN types \cup b.names
              /\ \A name \in DOMAIN types \ b.names : b.env[name] = types[name]
              /\ IsEnum(type) /\ b.errors = {} =>
                    /\ arm.variant \in DOMAIN Enums[type[2]]
                    /\ Len(arm.bindings) = Len(Enums[type[2]][arm.variant])
                    /\ b.env = p.env /\ b.names = p.names /\ p.errors = {}
<1> DEFINE b == bind_arm(type, types, arm)
           p == bind_pattern_payload(types, arm.bindings, Enums[type[2]][arm.variant])
           arity == IF Len(arm.bindings) = Len(Enums[type[2]][arm.variant]) THEN {} ELSE {"E_BODY_0013"}
           all == [p EXCEPT !.errors = @ \cup arity]
<1>1. CASE ~IsEnum(type) \/ arm.variant \notin DOMAIN Enums[type[2]]
  <2>1. b.env = types /\ b.names = {} /\ (IsEnum(type) => b.errors # {})
    BY <1>1 DEF bind_arm
  <2>2. QED
    BY <2>1
<1>2. CASE IsEnum(type) /\ arm.variant \in DOMAIN Enums[type[2]]
  <2>1. b = all
    BY <1>2 DEF bind_arm
  <2>2. /\ DOMAIN p.env = DOMAIN types \cup p.names
        /\ \A name \in DOMAIN types \ p.names : p.env[name] = types[name]
        /\ DOMAIN p = {"env", "names", "errors"}
    BY DEF bind_pattern_payload
  <2> HIDE DEF p, arity, b
  <2>3. b.env = p.env /\ b.names = p.names /\ b.errors = p.errors \cup arity
    BY <2>1, <2>2
  <2>4. b.errors = {} => p.errors = {} /\ Len(arm.bindings) = Len(Enums[type[2]][arm.variant])
    BY <2>3 DEF arity
  <2>5. QED
    BY <1>2, <2>2, <2>3, <2>4 DEF p, b
<1>3. QED
  BY <1>1, <1>2

\* The bindings of an arm have the types of the payload.
LEMMA BindingsAre ==
    ASSUME NEW type, NEW types, NEW arm, IsEnum(type), bind_arm(type, types, arm).errors = {},
           IsSequence(arm.bindings), IsSequence(Enums[type[2]][arm.variant])
    PROVE  LET b == bind_arm(type, types, arm)
               payload == Enums[type[2]][arm.variant]
           IN /\ b.names = {arm.bindings[i] : i \in 1..Len(payload)}
              /\ Len(arm.bindings) = Len(payload) /\ arm.variant \in DOMAIN Enums[type[2]]
              /\ \A i, j \in 1..Len(payload) : arm.bindings[i] = arm.bindings[j] => i = j
              /\ \A i \in 1..Len(payload) : b.env[arm.bindings[i]] = payload[i]
<1> DEFINE b == bind_arm(type, types, arm)  payload == Enums[type[2]][arm.variant]
           bindings == arm.bindings
           p == bind_pattern_payload(types, bindings, payload)
           bound == DOMAIN bindings \cap DOMAIN payload
           first == {i \in bound : \A j \in 1..(i - 1) : bindings[j] # bindings[i]}
           index(n) == CHOOSE i \in first : bindings[i] = n
           names == {bindings[i] : i \in first}
<1>1. /\ arm.variant \in DOMAIN Enums[type[2]] /\ Len(bindings) = Len(payload)
      /\ b.env = p.env /\ b.names = p.names /\ p.errors = {}
  <2>1. IsEnum(type) /\ b.errors = {} =>
           /\ arm.variant \in DOMAIN Enums[type[2]]
           /\ Len(arm.bindings) = Len(Enums[type[2]][arm.variant])
           /\ b.env = p.env /\ b.names = p.names /\ p.errors = {}
    BY BindArmIs, Zenon
  <2>2. QED
    BY <2>1
<1>2. DOMAIN bindings = 1..Len(payload) /\ DOMAIN payload = 1..Len(payload) /\ Len(payload) \in Nat
  BY <1>1, SequenceFacts
<1>3. /\ p.names = names
      /\ p.env = [n \in DOMAIN types \cup names |-> IF n \in names THEN payload[index(n)] ELSE types[n]]
      /\ p.errors = IF first = bound THEN {} ELSE {"E_BODY_0016"}
  BY DEF bind_pattern_payload
<1>4. first = bound
  BY <1>1, <1>3
<1>5. first = 1..Len(payload)
  BY <1>2, <1>4
<1>6. \A i, j \in 1..Len(payload) : j < i => bindings[j] # bindings[i]
  <2> SUFFICES ASSUME NEW i \in 1..Len(payload), NEW j \in 1..Len(payload), j < i
               PROVE  bindings[j] # bindings[i]
    OBVIOUS
  <2>1. i \in first /\ j \in 1..(i - 1)
    BY <1>2, <1>5
  <2>2. QED
    BY <2>1
<1>7. \A i, j \in 1..Len(payload) : bindings[i] = bindings[j] => i = j
  BY <1>2, <1>6
<1>8. ASSUME NEW i \in 1..Len(payload)
      PROVE  b.env[bindings[i]] = payload[i]
  <2>1. i \in first
    BY <1>5
  <2>2. index(bindings[i]) \in first /\ bindings[index(bindings[i])] = bindings[i]
    <3>1. \E j \in first : bindings[j] = bindings[i]
      BY <2>1
    <3> HIDE DEF first, bindings
    <3>2. QED
      BY <3>1
  <2> HIDE DEF index
  <2>3. index(bindings[i]) = i
    BY <1>5, <1>7, <2>2
  <2>4. bindings[i] \in names
    BY <2>1
  <2> HIDE DEF names, bindings, payload, p, first
  <2>5. p.env[bindings[i]] = payload[index(bindings[i])]
    BY <1>3, <2>4
  <2>6. QED
    BY <1>1, <2>3, <2>5
<1>9. QED
  BY <1>1, <1>3, <1>5, <1>7, <1>8

\* An arm that has no `let` leaves the types as they were.
LEMMA ArmLeaves ==
    ASSUME NEW fn, NEW type, NEW checked, NEW arm, IsSimple(arm.body), arm.body.s # "let"
    PROVE  LET b == bind_arm(type, checked.env, arm)
               after == check_match_arm(fn, type, checked, arm)
           IN /\ after = Checked(after.env, after.errors)
              /\ after.errors = checked.errors \cup b.errors \cup check_simple(fn, b.env, arm.body).errors
              /\ SameTypes(after.env, checked.env)
<1> DEFINE b == bind_arm(type, checked.env, arm)
           body == check_simple(fn, b.env, arm.body)
           after == check_match_arm(fn, type, checked, arm)
           types == restore_types(body.env, b.names, checked.env)
<1>1. after = Checked(types, checked.errors \cup b.errors \cup body.errors)
  BY DEF check_match_arm, check_arm_body, LeaveChecked
<1>2. after.env = types /\ after.errors = checked.errors \cup b.errors \cup body.errors
  BY <1>1 DEF Checked
<1>3. body.env = b.env
  BY DEF check_simple, AfterValue, Checked, IsSimple
<1>4. /\ DOMAIN b.env = DOMAIN checked.env \cup b.names
      /\ \A name \in DOMAIN checked.env \ b.names : b.env[name] = checked.env[name]
  BY BindArmIs
<1> HIDE DEF b, body
<1>5. SameTypes(types, checked.env)
  BY <1>3, <1>4 DEF SameTypes, restore_types
<1>6. QED
  BY <1>1, <1>2, <1>5 DEF b, body

\* f is what check_arms has after each arm.
ChecksArms(f, fn, arms, type, start, n) ==
    f = [i \in 0..n |-> IF i = 0 THEN start ELSE check_match_arm(fn, type, f[i - 1], arms[i])]

\* There is such a function for every match.
LEMMA ChecksArmsExists ==
    ASSUME NEW fn, NEW arms, NEW type, NEW start, NEW n \in Nat
    PROVE  \E f : ChecksArms(f, fn, arms, type, start, n)
<1> DEFINE T == {i \in Nat : ~ \E f : ChecksArms(f, fn, arms, type, start, i)}
<1>1. SUFFICES ASSUME T # {} PROVE FALSE
  OBVIOUS
<1>2. PICK m \in T : \A i \in T : m <= i
  BY <1>1, NatMin
<1>3. m # 0
  <2> DEFINE f == [i \in 0..0 |-> start]
  <2>1. ChecksArms(f, fn, arms, type, start, 0)
    BY DEF ChecksArms
  <2>2. QED
    BY <2>1
<1>4. PICK g : ChecksArms(g, fn, arms, type, start, m - 1)
  <2>1. m - 1 \in Nat /\ m - 1 \notin T
    BY <1>2, <1>3
  <2>2. QED
    BY <2>1
<1> DEFINE step == check_match_arm(fn, type, g[m - 1], arms[m])
           f == [i \in 0..m |-> IF i = m THEN step ELSE g[i]]
<1>5. \A i \in 0..m - 1 : f[i] = g[i]
  BY <1>3
<1>6. \A i \in 0..m - 1 : g[i] = IF i = 0 THEN start ELSE check_match_arm(fn, type, g[i - 1], arms[i])
  BY <1>4 DEF ChecksArms
<1>7. \A i \in 0..m : f[i] = IF i = 0 THEN start ELSE check_match_arm(fn, type, f[i - 1], arms[i])
  <2> SUFFICES ASSUME NEW i \in 0..m
               PROVE  f[i] = IF i = 0 THEN start ELSE check_match_arm(fn, type, f[i - 1], arms[i])
    OBVIOUS
  <2>1. CASE i = m
    <3>1. f[m - 1] = g[m - 1]
      BY <1>3, <1>5
    <3>2. QED
      BY <1>3, <2>1, <3>1
  <2>2. CASE i # m /\ i # 0
    <3>1. i \in 0..m - 1 /\ i - 1 \in 0..m - 1
      BY <2>2
    <3>2. f[i] = g[i] /\ f[i - 1] = g[i - 1]
      BY <1>5, <3>1
    <3>3. QED
      BY <1>6, <2>2, <3>1, <3>2
  <2>3. CASE i # m /\ i = 0
    BY <1>3, <1>5, <1>6, <2>3
  <2>4. QED
    BY <2>1, <2>2, <2>3
<1>8. ChecksArms(f, fn, arms, type, start, m)
  BY <1>7 DEF ChecksArms
<1>9. QED
  BY <1>8

\* A match that was accepted is on an enum, its arms cover the variants, each
\* was accepted with what it binds; the types after it are those before it.
LEMMA MatchAccepted ==
    ASSUME NEW fn, NEW types, NEW st, IsMatch(st), \A k \in DOMAIN st.arms : st.arms[k].body.s # "let",
           check_match_statement(fn, types, st).errors = {}
    PROVE  LET matched == check_expr(fn, types, st.value)
           IN /\ matched.errors = {} /\ IsEnum(matched.type)
              /\ SameTypes(check_match_statement(fn, types, st).env, types)
              /\ DOMAIN Enums[matched.type[2]] \subseteq {st.arms[k].variant : k \in DOMAIN st.arms}
              /\ \A k \in DOMAIN st.arms : \E outer :
                    /\ SameTypes(outer, types)
                    /\ bind_arm(matched.type, outer, st.arms[k]).errors = {}
                    /\ check_simple(fn, bind_arm(matched.type, outer, st.arms[k]).env,
                                    st.arms[k].body).errors = {}
<1> DEFINE matched == check_expr(fn, types, st.value)  type == matched.type
           arms == st.arms  n == Len(arms)
           checked == Checked(types, matched.errors)
           start == IF IsEnum(type) THEN checked
                    ELSE Checked(checked.env, checked.errors \cup {"E_BODY_0010"})
           f == CHOOSE f : ChecksArms(f, fn, arms, type, start, n)
           result == check_match_statement(fn, types, st)
<1>1. IsSequence(arms) /\ n \in Nat /\ DOMAIN arms = 1..n
  BY SequenceFacts DEF IsMatch
<1>2. ChecksArms(f, fn, arms, type, start, n)
  BY <1>1, ChecksArmsExists
<1>3. result = IF IsEnum(type) THEN MustCover(Enums[type[2]], arms, f[n]) ELSE f[n]
  BY DEF check_match_statement, MatchOn, check_arms, ChecksArms
<1>4. \A i \in 0..n : f[i] = IF i = 0 THEN start ELSE check_match_arm(fn, type, f[i - 1], arms[i])
  BY <1>1, <1>2 DEF ChecksArms
<1>5. start = Checked(types, start.errors) /\ start.env = types
      /\ matched.errors \subseteq start.errors /\ (~IsEnum(type) => start.errors # {})
  BY DEF Checked
<1>6. \A k \in 1..n : IsSimple(arms[k].body) /\ arms[k].body.s # "let"
  BY <1>1 DEF IsMatch
<1> HIDE DEF f, start, type, arms, n, result, matched
<1> DEFINE B(k) == bind_arm(type, f[k - 1].env, arms[k])
<1>7. \A k \in 1..n : /\ f[k] = Checked(f[k].env, f[k].errors)
                      /\ f[k].errors = f[k - 1].errors \cup B(k).errors
                                       \cup check_simple(fn, B(k).env, arms[k].body).errors
                      /\ SameTypes(f[k].env, f[k - 1].env)
  <2> SUFFICES ASSUME NEW k \in 1..n
               PROVE  /\ f[k] = Checked(f[k].env, f[k].errors)
                      /\ f[k].errors = f[k - 1].errors \cup B(k).errors
                                       \cup check_simple(fn, B(k).env, arms[k].body).errors
                      /\ SameTypes(f[k].env, f[k - 1].env)
    OBVIOUS
  <2>1. f[k] = check_match_arm(fn, type, f[k - 1], arms[k])
    BY <1>1, <1>4
  <2>2. QED
    BY <1>6, <2>1, ArmLeaves
<1>8. f[0] = start
  BY <1>1, <1>4
<1>9. f[n] = Checked(f[n].env, f[n].errors)
  BY <1>1, <1>5, <1>7, <1>8
<1>10. /\ f[n].errors = {} /\ result.env = f[n].env
       /\ IsEnum(type) => DOMAIN Enums[type[2]] \subseteq {arms[i].variant : i \in DOMAIN arms}
  <2>1. CASE ~IsEnum(type)
    BY <1>3, <2>1 DEF result
  <2>2. CASE IsEnum(type)
    <3> DEFINE cover == IF DOMAIN Enums[type[2]] \subseteq {arms[i].variant : i \in DOMAIN arms} THEN {}
                        ELSE {"E_BODY_0011"}
    <3>1. result = [f[n] EXCEPT !.errors = @ \cup cover]
      BY <1>3, <2>2 DEF MustCover
    <3> HIDE DEF cover
    <3>2. result.errors = f[n].errors \cup cover /\ result.env = f[n].env
      BY <1>9, <3>1 DEF Checked
    <3>3. f[n].errors = {} /\ cover = {}
      BY <3>2 DEF result
    <3>4. QED
      BY <3>2, <3>3 DEF cover
  <2>3. QED
    BY <2>1, <2>2
\* Going back, none of the arms had an error.
<1>11. \A k \in 0..n : f[k].errors = {}
  <2> DEFINE T == {j \in 0..n : f[n - j].errors # {}}
  <2>1. ASSUME T # {} PROVE FALSE
    <3>1. T \subseteq Nat
      BY <1>1
    <3>2. PICK m \in T : \A j \in T : m <= j
      BY <2>1, <3>1, NatMin
    <3>3. m \in 0..n /\ f[n - m].errors # {} /\ m # 0
      BY <1>1, <1>10
    <3>4. m - 1 \in 0..n /\ m - 1 \notin T /\ n - m + 1 \in 1..n /\ n - (m - 1) = n - m + 1
      BY <1>1, <3>2, <3>3, SMTT(30)
    <3>5. f[n - m + 1].errors = {}
      BY <3>4
    <3>6. f[(n - m + 1) - 1].errors \subseteq f[n - m + 1].errors
      BY <1>7, <3>4
    <3>7. (n - m + 1) - 1 = n - m
      BY <1>1, <3>3
    <3>8. QED
      BY <3>3, <3>5, <3>6, <3>7
  <2>2. ASSUME NEW k \in 0..n PROVE f[k].errors = {}
    <3>1. n - k \in 0..n /\ n - (n - k) = k
      BY <1>1
    <3>2. f[n - (n - k)].errors = {}
      BY <2>1, <3>1
    <3>3. QED
      BY <3>1, <3>2
  <2>3. QED
    BY <2>2
\* Going on, none of them changed the types.
<1>12. \A k \in 0..n : SameTypes(f[k].env, types)
  <2> DEFINE T == {k \in 0..n : ~SameTypes(f[k].env, types)}
  <2>1. SUFFICES ASSUME T # {} PROVE FALSE
    OBVIOUS
  <2>2. PICK m \in T : \A k \in T : m <= k
    <3>1. T \subseteq Nat
      BY <1>1
    <3>2. QED
      BY <2>1, <3>1, NatMin
  <2>3. m \in 0..n /\ ~SameTypes(f[m].env, types)
    OBVIOUS
  <2>4. m # 0
    BY <1>5, <1>8, <2>3 DEF SameTypes
  <2>5. m - 1 \in 0..n /\ m \in 1..n /\ SameTypes(f[m - 1].env, types)
    BY <1>1, <2>2, <2>3, <2>4
  <2>6. SameTypes(f[m].env, f[m - 1].env)
    BY <1>7, <2>5
  <2>7. QED
    BY <2>3, <2>5, <2>6 DEF SameTypes
<1>13. IsEnum(type) /\ matched.errors = {}
  BY <1>1, <1>5, <1>8, <1>11
<1>14. SameTypes(result.env, types)
  BY <1>1, <1>10, <1>12
<1>15. ASSUME NEW k \in DOMAIN arms
       PROVE  \E outer : /\ SameTypes(outer, types)
                         /\ bind_arm(type, outer, arms[k]).errors = {}
                         /\ check_simple(fn, bind_arm(type, outer, arms[k]).env, arms[k].body).errors = {}
  <2>1. k \in 1..n /\ k \in 0..n /\ k - 1 \in 0..n
    BY <1>1, <1>15
  <2>2. /\ SameTypes(f[k - 1].env, types) /\ B(k).errors = {}
        /\ check_simple(fn, B(k).env, arms[k].body).errors = {}
    <3>1. f[k].errors = {}
      BY <1>11, <2>1
    <3>2. QED
      BY <1>7, <1>12, <2>1, <3>1
  <2>3. QED
    BY <2>2
<1>16. QED
  BY <1>10, <1>13, <1>14, <1>15 DEF type, arms, result, matched

-----------------------------------------------------------------------------
(***************************************************************************)
(* Matches: what an arm binds when it runs, and what comes back.           *)
(***************************************************************************)

\* What restore_bindings makes of some names.
Restored(names, previous) ==
    LET of(name) == {i \in DOMAIN previous : previous[i].name = name}
        was(name) == previous[Max(of(name))].was
        known == DOMAIN names \cup {previous[i].name : i \in DOMAIN previous}
    IN [name \in {n \in known : of(n) # {} => was(n) # {}} |->
           IF of(name) = {} THEN names[name] ELSE CHOOSE v \in was(name) : TRUE]

\* That is what restore_bindings makes of the names of the running function.
LEMMA RestoredIs ==
    ASSUME NEW previous
    PROVE  restore_bindings(previous) = Restored(env, previous)
BY DEF restore_bindings, Restored

\* The maximum of one number.
LEMMA OnlyOne ==
    ASSUME NEW i \in Nat, NEW S, S = {i}
    PROVE  Max(S) = i
BY DEF Max

\* The first n of some bindings are distinct names.
Distinct(bindings, n) == \A i, j \in 1..n : bindings[i] = bindings[j] => i = j

\* The names after some bindings are those of before and those bound.
LEMMA BoundUpToDomain ==
    ASSUME NEW bindings, NEW payload, NEW n \in Nat
    PROVE  DOMAIN BoundUpTo(bindings, payload, n) = DOMAIN env \cup {bindings[i] : i \in 1..n}
BY DEF BoundUpTo

\* Each of the distinct bindings has its part of the payload.
LEMMA BoundUpToBinds ==
    ASSUME NEW bindings, NEW payload, NEW n \in Nat, Distinct(bindings, n)
    PROVE  \A i \in 1..n : BoundUpTo(bindings, payload, n)[bindings[i]] = payload[i]
<1> SUFFICES ASSUME NEW i \in 1..n
             PROVE  BoundUpTo(bindings, payload, n)[bindings[i]] = payload[i]
  OBVIOUS
<1> DEFINE of(name) == {j \in 1..n : bindings[j] = name}
           known == DOMAIN env \cup {bindings[j] : j \in 1..n}
<1>1. BoundUpTo(bindings, payload, n) =
         [name \in known |-> IF of(name) = {} THEN env[name] ELSE payload[Max(of(name))]]
  BY DEF BoundUpTo
<1>2. of(bindings[i]) = {i}
  BY DEF Distinct
<1>3. Max(of(bindings[i])) = i
  BY <1>2, OnlyOne
<1>4. bindings[i] \in known
  OBVIOUS
<1> HIDE DEF of, known
<1>5. QED
  BY <1>1, <1>2, <1>3, <1>4

\* A name that is not bound keeps its value.
LEMMA BoundUpToKeeps ==
    ASSUME NEW bindings, NEW payload, NEW n \in Nat
    PROVE  \A name \in DOMAIN env \ {bindings[i] : i \in 1..n} :
              BoundUpTo(bindings, payload, n)[name] = env[name]
<1> SUFFICES ASSUME NEW name \in DOMAIN env \ {bindings[i] : i \in 1..n}
             PROVE  BoundUpTo(bindings, payload, n)[name] = env[name]
  OBVIOUS
<1> DEFINE of(m) == {j \in 1..n : bindings[j] = m}
           known == DOMAIN env \cup {bindings[j] : j \in 1..n}
<1>1. BoundUpTo(bindings, payload, n) =
         [m \in known |-> IF of(m) = {} THEN env[m] ELSE payload[Max(of(m))]]
  BY DEF BoundUpTo
<1>2. of(name) = {} /\ name \in known
  OBVIOUS
<1> HIDE DEF of, known
<1>3. QED
  BY <1>1, <1>2

\* The names in an arm have the types that the checker has there.
LEMMA EnterArm ==
    ASSUME NEW type, IsEnum(type), NEW v, EnumHolds(v, type[2]), NEW arm, arm.variant = v[3],
           IsSequence(arm.bindings), {arm.bindings[i] : i \in DOMAIN arm.bindings} \cap Capitals = {},
           NEW outer, Bound(env, outer), bind_arm(type, outer, arm).errors = {}
    PROVE  Bound(bind_match_payload(arm.bindings, v[4]).names, bind_arm(type, outer, arm).env)
<1> DEFINE bindings == arm.bindings  payload == Enums[type[2]][arm.variant]
           b == bind_arm(type, outer, arm)  n == Len(bindings)
           names == BoundUpTo(bindings, v[4], n)
<1>1. type[2] \in DOMAIN Enums /\ v[3] \in DOMAIN Enums[type[2]]
  BY DEF IsEnum, EnumHolds
<1>2. /\ IsSequence(payload) /\ \A i \in DOMAIN payload : DataType(payload[i])
  BY <1>1, DeclarationAssumption
<1>3. /\ b.names = {bindings[i] : i \in 1..Len(payload)}
      /\ n = Len(payload)
      /\ \A i, j \in 1..Len(payload) : bindings[i] = bindings[j] => i = j
      /\ \A i \in 1..Len(payload) : b.env[bindings[i]] = payload[i]
  BY <1>2, BindingsAre
<1>4. n \in Nat /\ DOMAIN bindings = 1..n /\ DOMAIN payload = 1..n
  BY <1>2, <1>3, SequenceFacts
<1>5. Len(v[4]) = n /\ \A i \in 1..n : DataHolds(v[4][i], payload[i])
  BY <1>3, <1>4 DEF EnumHolds
<1>6. bind_match_payload(bindings, v[4]).names = names
  <2>1. Min({Len(bindings), Len(v[4])}) = n
    BY <1>4, <1>5 DEF Min
  <2>2. QED
    BY <2>1 DEF bind_match_payload
<1>7. /\ DOMAIN b.env = DOMAIN outer \cup b.names
      /\ \A name \in DOMAIN outer \ b.names : b.env[name] = outer[name]
  BY BindArmIs
<1>8. /\ DOMAIN names = DOMAIN env \cup {bindings[i] : i \in 1..n}
      /\ \A i \in 1..n : names[bindings[i]] = v[4][i]
      /\ \A name \in DOMAIN env \ {bindings[i] : i \in 1..n} : names[name] = env[name]
  <2> DEFINE values == v[4]
  <2>1. n \in Nat /\ Distinct(bindings, n)
    BY <1>3, <1>4 DEF Distinct
  <2> HIDE DEF bindings, n, values
  <2>2. DOMAIN BoundUpTo(bindings, values, n) = DOMAIN env \cup {bindings[i] : i \in 1..n}
    BY <2>1, BoundUpToDomain
  <2>3. \A i \in 1..n : BoundUpTo(bindings, values, n)[bindings[i]] = values[i]
    BY <2>1, BoundUpToBinds
  <2>4. \A name \in DOMAIN env \ {bindings[i] : i \in 1..n} :
           BoundUpTo(bindings, values, n)[name] = env[name]
    BY <2>1, BoundUpToKeeps
  <2>5. QED
    BY <2>2, <2>3, <2>4 DEF values
<1> HIDE DEF bindings, payload, b, n, names
<1>9. ASSUME NEW name \in DOMAIN b.env
      PROVE  /\ name \in DOMAIN names /\ KnownType(b.env[name]) /\ Holds(names[name], b.env[name])
             /\ name \notin Capitals
  <2>1. CASE name \in b.names
    <3>1. PICK i \in 1..n : name = bindings[i]
      BY <1>3, <2>1
    <3>2. b.env[name] = payload[i] /\ names[name] = v[4][i] /\ name \in DOMAIN names
      BY <1>3, <1>8, <3>1
    <3>3. KnownType(payload[i]) /\ Holds(v[4][i], payload[i])
      BY <1>2, <1>4, <1>5, <3>1, DataIs
    <3>4. name \notin Capitals
      BY <1>4, <3>1 DEF bindings
    <3>5. QED
      BY <3>2, <3>3, <3>4
  <2>2. CASE name \notin b.names
    <3>1. name \in DOMAIN outer /\ b.env[name] = outer[name]
      BY <1>7, <2>2
    <3>2. /\ name \in DOMAIN env /\ KnownType(outer[name]) /\ Holds(env[name], outer[name])
          /\ name \notin Capitals
      BY <3>1 DEF Bound
    <3>3. name \in DOMAIN names /\ names[name] = env[name]
      BY <1>3, <1>8, <2>2, <3>2
    <3>4. QED
      BY <3>1, <3>2, <3>3
  <2>3. QED
    BY <2>1, <2>2
<1>10. DOMAIN Enums \subseteq Capitals
  BY DEF Bound
<1>11. Bound(names, b.env)
  BY <1>9, <1>10 DEF Bound
<1>12. QED
  BY <1>6, <1>11 DEF b, bindings

\* At the end of the arm the names of before are back.
LEMMA ArmRestores ==
    ASSUME NEW bindings, IsSequence(bindings), NEW payload, Len(payload) = Len(bindings),
           Distinct(bindings, Len(bindings)),
           NEW types, Bound(env, types)
    PROVE  LET bound == bind_match_payload(bindings, payload)
           IN Bound(Restored(bound.names, bound.previous), types)
<1> DEFINE n == Len(bindings)
           names == BoundUpTo(bindings, payload, n)
           before(i) == BoundUpTo(bindings, payload, i - 1)
           previous == [i \in 1..n |->
               [name |-> bindings[i],
                was |-> {before(i)[name] : name \in DOMAIN before(i) \cap {bindings[i]}}]]
           of(name) == {i \in DOMAIN previous : previous[i].name = name}
           was(name) == previous[Max(of(name))].was
           known == DOMAIN names \cup {previous[i].name : i \in DOMAIN previous}
           back == Restored(names, previous)
<1>1. n \in Nat /\ DOMAIN bindings = 1..n
  BY SequenceFacts
<1>2. /\ bind_match_payload(bindings, payload).names = names
      /\ bind_match_payload(bindings, payload).previous = previous
  <2>1. Min({Len(bindings), Len(payload)}) = n
    BY <1>1 DEF Min
  <2>2. QED
    BY <2>1 DEF bind_match_payload
<1>3. back = [name \in {m \in known : of(m) # {} => was(m) # {}} |->
                 IF of(name) = {} THEN names[name] ELSE CHOOSE v \in was(name) : TRUE]
  BY DEF Restored
<1>4. /\ DOMAIN names = DOMAIN env \cup {bindings[i] : i \in 1..n}
      /\ \A name \in DOMAIN env \ {bindings[i] : i \in 1..n} : names[name] = env[name]
  <2> HIDE DEF n
  <2>1. DOMAIN BoundUpTo(bindings, payload, n) = DOMAIN env \cup {bindings[i] : i \in 1..n}
    BY <1>1, BoundUpToDomain
  <2>2. \A name \in DOMAIN env \ {bindings[i] : i \in 1..n} :
           BoundUpTo(bindings, payload, n)[name] = env[name]
    BY <1>1, BoundUpToKeeps
  <2>3. QED
    BY <2>1, <2>2
<1>5. ASSUME NEW i \in 1..n, bindings[i] \in DOMAIN env
      PROVE  previous[i].was = {env[bindings[i]]}
  <2>1. i - 1 \in Nat /\ \A j \in 1..i - 1 : j \in 1..n /\ j # i
    BY <1>1
  <2>2. Distinct(bindings, i - 1)
    BY <2>1 DEF Distinct
  <2> DEFINE k == i - 1
  <2>3. /\ DOMAIN before(i) = DOMAIN env \cup {bindings[j] : j \in 1..i - 1}
        /\ \A name \in DOMAIN env \ {bindings[j] : j \in 1..i - 1} : before(i)[name] = env[name]
    <3> HIDE DEF k
    <3>1. DOMAIN BoundUpTo(bindings, payload, k) = DOMAIN env \cup {bindings[j] : j \in 1..k}
      BY <2>1, BoundUpToDomain DEF k
    <3>2. \A name \in DOMAIN env \ {bindings[j] : j \in 1..k} :
             BoundUpTo(bindings, payload, k)[name] = env[name]
      BY <2>1, BoundUpToKeeps DEF k
    <3>3. QED
      BY <3>1, <3>2 DEF k
  <2>4. bindings[i] \notin {bindings[j] : j \in 1..i - 1}
    BY <2>1 DEF Distinct
  <2>5. previous[i].was = {before(i)[name] : name \in DOMAIN before(i) \cap {bindings[i]}}
    OBVIOUS
  <2> HIDE DEF previous, before
  <2>6. DOMAIN before(i) \cap {bindings[i]} = {bindings[i]} /\ before(i)[bindings[i]] = env[bindings[i]]
    BY <1>5, <2>3, <2>4
  <2>7. QED
    BY <2>5, <2>6
<1>6. DOMAIN previous = 1..n /\ \A i \in 1..n : previous[i].name = bindings[i]
  OBVIOUS
<1> HIDE DEF previous, names, n
<1>7. ASSUME NEW name \in DOMAIN env
      PROVE  name \in DOMAIN back /\ back[name] = env[name]
  <2>0. name \in known
    BY <1>4
  <2>1. CASE of(name) = {}
    <3>1. names[name] = env[name]
      BY <1>4, <1>6, <2>1
    <3> HIDE DEF of, was, known, back
    <3>2. QED
      BY <1>3, <2>0, <2>1, <3>1
  <2>2. CASE of(name) # {}
    <3>1. PICK i \in 1..n : bindings[i] = name
      BY <1>6, <2>2
    <3>2. of(name) = {i}
      BY <1>6, <3>1 DEF n, Distinct
    <3>3. Max(of(name)) = i
      BY <1>1, <3>1, <3>2, OnlyOne
    <3>4. was(name) = {env[name]}
      BY <1>5, <3>1, <3>3
    <3> HIDE DEF of, was, known, back
    <3>5. (CHOOSE v \in was(name) : TRUE) = env[name]
      BY <3>4
    <3>6. QED
      BY <1>3, <2>0, <2>2, <3>4, <3>5
  <2>3. QED
    BY <2>1, <2>2
<1> HIDE DEF back
<1>8. Bound(back, types)
  BY <1>7 DEF Bound
<1>9. QED
  BY <1>2, <1>8 DEF back

-----------------------------------------------------------------------------
(***************************************************************************)
(* Objects: what is one to the checker is one wherever it is read.         *)
(***************************************************************************)

\* Neither the type nor what `?` makes of it is an object.
NoObject(type) == type # TObject /\ (IsResult(type) => result_ok(type) # TObject)

\* A known type that is no object is none under `?` either.
LEMMA KnownNoObject ==
    ASSUME NEW type, KnownType(type), type # TObject
    PROVE  NoObject(type)
<1>1. IsResult(type) => PlainType(type[2])
  BY KnownIs
<1>2. QED
  BY <1>1, PlainIs DEF NoObject, result_ok

\* No call that was accepted gives an object.
LEMMA CallNoObject ==
    ASSUME NEW fn, NEW types, NEW x, IsCall(x), check_call(fn, types, x).errors = {}
    PROVE  NoObject(check_call(fn, types, x).type)
<1>1. ASSUME NEW type, PlainType(type)
      PROVE  NoObject(type) /\ NoObject(result_type(fn, type))
  <2>1. type # TObject /\ ~IsResult(type)
    BY <1>1, PlainIs
  <2>2. \E error : result_type(fn, type) = TResult(type, error)
    BY DEF result_type
  <2>3. QED
    BY <2>1, <2>2 DEF NoObject, TResult, TObject, result_ok
<1>2. CASE x.callee \in Builtins
  <2> DEFINE c == check_builtin_call(fn, types, x)  type == single_type_arg(x)
  <2>1. check_call(fn, types, x) = c
    BY <1>2 DEF check_call
  <2>2. \/ c.type \in {TResponse, TBool}
        \/ c.type = result_type(fn, type.type) /\ type.errors \subseteq c.errors
    BY <1>2 DEF check_builtin_call, Builtins, Typed, HttpResponseOk, HttpResponseCreated,
                HttpResponseError, RequestReads, ValidateEmail, ValidateLength, ContextParam
  <2>3. PlainType(TResponse) /\ PlainType(TBool)
    BY DEF PlainType
  <2> HIDE DEF c
  <2>4. CASE c.type \in {TResponse, TBool}
    BY <1>1, <2>1, <2>3, <2>4
  <2>5. CASE c.type = result_type(fn, type.type) /\ type.errors \subseteq c.errors
    <3>1. single_type_arg(x).errors = {}
      BY <2>1, <2>5
    <3>2. PlainType(single_type_arg(x).type)
      BY <3>1, DecodedOf
    <3>3. QED
      BY <1>1, <2>1, <2>5, <3>2
  <2>6. QED
    BY <2>2, <2>4, <2>5
<1>3. CASE x.callee \notin Builtins /\ db_call_by_callee(x.callee)
  <2> DEFINE c == check_db_call(fn, types, x)  name == Models[x.callee[3]]
  <2>1. check_call(fn, types, x) = c
    BY <1>3 DEF check_call
  <2>2. /\ x.callee[3] \in DOMAIN Models
        /\ c.type \in {result_type(fn, TList(TNamed(name))), result_type(fn, TNamed(name))}
    BY <2>1 DEF check_db_call, Typed
  <2>3. name \in DOMAIN Structs
    BY <2>2, DeclarationAssumption DEF Range
  <2>4. PlainType(TNamed(name)) /\ PlainType(TList(TNamed(name)))
    <3>1. name \in DOMAIN JsonOf
      BY <2>3, StructsApart
    <3>2. QED
      BY <3>1 DEF PlainType
  <2> HIDE DEF c, name
  <2>5. QED
    BY <1>1, <2>1, <2>2, <2>4
<1>4. CASE /\ x.callee \notin Builtins /\ ~db_call_by_callee(x.callee)
           /\ Len(x.callee) = 2 /\ x.callee[1] \in DOMAIN Enums
  <2>1. check_call(fn, types, x).type = TNamed(x.callee[1])
    BY <1>4 DEF check_call, check_enum_constructor, Typed
  <2>2. PlainType(TNamed(x.callee[1]))
    BY <1>4 DEF PlainType
  <2>3. QED
    BY <1>1, <2>1, <2>2
<1>5. CASE /\ x.callee \notin Builtins /\ ~db_call_by_callee(x.callee)
           /\ ~(Len(x.callee) = 2 /\ x.callee[1] \in DOMAIN Enums)
  <2> DEFINE callee == x.callee[1]
             type == IF returns(callee) = NoReturnType THEN TUnit ELSE returns(callee)
  <2>1. /\ callee \in DOMAIN Functions
        /\ check_call(fn, types, x).type = check_user_function_call(types, x).type
    BY <1>5 DEF check_call, Typed
  <2>2. check_user_function_call(types, x).type = type
    BY DEF check_user_function_call, Typed, returns
  <2>3. type = TUnit \/ DeclaredType(type)
    BY <2>1, DeclarationAssumption
  <2> HIDE DEF type
  <2>4. KnownType(type) /\ type # TObject
    <3>1. PlainType(TUnit)
      BY DEF PlainType
    <3>2. CASE PlainType(type)
      BY <3>2, PlainIs DEF KnownType
    <3>3. CASE ~PlainType(type)
      <4>1. IsResult(type) /\ KnownType(type)
        BY <2>3, <3>1, <3>3, DeclaredKnown DEF DeclaredType
      <4>2. QED
        BY <4>1 DEF IsResult, TObject
    <3>4. QED
      BY <3>2, <3>3
  <2>5. QED
    BY <2>1, <2>2, <2>4, KnownNoObject
<1>6. QED
  BY <1>2, <1>3, <1>4, <1>5

AllKnown(types) == \A name \in DOMAIN types : KnownType(types[name])

\* A path to an object is a name.
LEMMA PathObject ==
    ASSUME NEW types, AllKnown(types),
           NEW path, IsSequence(path), path # << >>, check_path(types, path).errors = {}
    PROVE  /\ check_path(types, path).type # TObject => NoObject(check_path(types, path).type)
           /\ check_path(types, path).type = TObject =>
                 /\ Len(path) = 1 /\ path[1] \in DOMAIN types /\ types[path[1]] = TObject
<1>1. Len(path) \in Nat /\ Len(path) >= 1
  BY SequenceFacts
<1>2. CASE IsVariant(path)
  <2>1. check_path(types, path).type = TNamed(path[1]) /\ path[1] \in DOMAIN Enums
    BY <1>2 DEF check_path, Typed, IsVariant
  <2>2. PlainType(TNamed(path[1]))
    BY <2>1 DEF PlainType
  <2>3. TNamed(path[1]) # TObject /\ KnownType(TNamed(path[1]))
    BY <2>2, PlainIs DEF KnownType
  <2>4. QED
    BY <2>1, <2>3, KnownNoObject
<1>3. CASE ~IsVariant(path)
  <2>1. PICK f : ChecksPath(f, types, path, Len(path)) /\ check_path(types, path) = f[Len(path)]
    BY <1>3, CheckPathIs
  <2>2. path[1] \in DOMAIN types
    BY <1>3, PathRooted
  <2>3. CASE Len(path) = 1
    <3>1. check_path(types, path) = Fine(types[path[1]])
      BY <2>1, <2>2, <2>3 DEF ChecksPath
    <3>2. check_path(types, path).type = types[path[1]]
      BY <3>1 DEF Fine, Typed
    <3>3. QED
      BY <2>2, <2>3, <3>2, KnownNoObject DEF AllKnown
  <2>4. CASE Len(path) # 1
    <3> DEFINE n == Len(path)  owner == f[n - 1]
    <3>1. n \in 1..n /\ n > 1
      <4> HIDE DEF n, owner
      <4>1. n \in Nat /\ n >= 1 /\ n # 1
        BY <1>1, <2>4 DEF n
      <4>2. QED
        BY <4>1
    <3>2. f[n] = field_type(owner, path[n])
      BY <2>1, <3>1 DEF ChecksPath
    <3> HIDE DEF owner, n
    <3>3. /\ owner.type[2] \in DOMAIN Structs /\ path[n] \in DOMAIN Structs[owner.type[2]]
          /\ f[n].type = Structs[owner.type[2]][path[n]]
      BY <2>1, <3>2, FieldTyped DEF n
    <3>4. DataType(f[n].type)
      BY <3>3, DeclarationAssumption
    <3>5. KnownType(f[n].type) /\ f[n].type # TObject
      BY <3>4, DataIs
    <3>6. QED
      BY <2>1, <3>5, KnownNoObject DEF n
  <2>5. QED
    BY <2>3, <2>4
<1>4. QED
  BY <1>2, <1>3

\* What is an object with the types of an arm is one with those before it.
LEMMA ObjectElsewhere ==
    ASSUME NEW inner, NEW outer, AllKnown(inner),
           \A name \in DOMAIN inner :
              inner[name] = TObject => name \in DOMAIN outer /\ outer[name] = TObject,
           NEW fn, NEW x, IsExpr(x), check_expr(fn, inner, x).errors = {},
           check_expr(fn, inner, x).type = TObject
    PROVE  check_expr(fn, outer, x).type = TObject
<1> DEFINE u == Untried(x)  value == check_plain(fn, inner, u)
<1>1. value.errors = {} /\ check_expr(fn, inner, x) = Tried(fn, x, value)
  BY DEF check_expr, Tried, check_try, Typed
<1>2. CASE IsCall(u)
  <2>1. value = check_call(fn, inner, u)
    BY <1>2 DEF check_plain, IsCall
  <2>2. NoObject(value.type)
    BY <1>1, <1>2, <2>1, CallNoObject
  <2> HIDE DEF value
  <2>3. Tried(fn, x, value).type # TObject
    BY <1>1, <2>2 DEF NoObject, Tried, check_try, Typed, TObject, TUnknown
  <2>4. QED
    BY <1>1, <2>3
<1>3. CASE IsObject(u)
  <2>1. value.type = TObject /\ check_plain(fn, outer, u).type = TObject
    BY <1>3 DEF check_plain, IsObject, Typed
  <2>2. ~IsResult(TObject)
    BY DEF IsResult, TObject
  <2> HIDE DEF value
  <2>3. x.e # "try"
    BY <1>1, <2>1, <2>2 DEF Tried, check_try, Typed
  <2>4. QED
    BY <2>1, <2>3 DEF check_expr, Tried
<1>4. CASE IsAtom(u)
  <2>1. u.e # "object" /\ u.e # "call" /\ (u.e = "literal" \/ IsPath(u))
    BY <1>4 DEF IsAtom, IsLiteral, Literal, IsPath
  <2>2. value = check_atom(inner, u) /\ check_plain(fn, outer, u) = check_atom(outer, u)
    BY <2>1 DEF check_plain
  <2>3. CASE u.e = "literal"
    <3>1. value = Fine(u.type) /\ u.type \in {TString, TInteger, TBool}
      BY <1>4, <2>2, <2>3 DEF check_atom, IsAtom, IsLiteral, Literal, IsPath
    <3>2. value.type \in {TString, TInteger, TBool}
      BY <3>1 DEF Fine, Typed
    <3> HIDE DEF value
    <3>3. NoObject(value.type)
      BY <3>2 DEF NoObject, TString, TInteger, TBool, TObject, IsResult
    <3>4. Tried(fn, x, value).type # TObject
      BY <1>1, <3>3 DEF NoObject, Tried, check_try, Typed, TObject, TUnknown
    <3>5. QED
      BY <1>1, <3>4
  <2>4. CASE IsPath(u)
    <3>1. value = check_path(inner, u.path) /\ check_atom(outer, u) = check_path(outer, u.path)
      BY <2>2, <2>4 DEF check_atom, IsPath
    <3>2. IsSequence(u.path) /\ u.path # << >> /\ check_path(inner, u.path).errors = {}
      BY <1>1, <2>4, <3>1 DEF IsPath
    <3>3. /\ value.type # TObject => NoObject(value.type)
          /\ value.type = TObject => /\ Len(u.path) = 1 /\ u.path[1] \in DOMAIN inner
                                     /\ inner[u.path[1]] = TObject
      BY <3>1, <3>2, PathObject
    <3> HIDE DEF value
    <3>4. value.type = TObject
      <4>1. CASE NoObject(value.type)
        <5>1. Tried(fn, x, value).type # TObject
          BY <1>1, <4>1 DEF NoObject, Tried, check_try, Typed, TObject, TUnknown
        <5>2. QED
          BY <1>1, <5>1
      <4>2. QED
        BY <3>3, <4>1
    <3>5. x.e # "try"
      BY <1>1, <3>4 DEF Tried, check_try, Typed, IsResult, TObject
    <3>6. u.path[1] \in DOMAIN outer /\ outer[u.path[1]] = TObject /\ Len(u.path) = 1
      BY <3>3, <3>4
    <3>7. ~IsVariant(u.path)
      BY <3>6 DEF IsVariant
    <3>8. PICK f : ChecksPath(f, outer, u.path, Len(u.path)) /\ check_path(outer, u.path) = f[Len(u.path)]
      BY <3>2, <3>7, CheckPathIs
    <3>9. check_path(outer, u.path) = Fine(TObject)
      BY <3>6, <3>8 DEF ChecksPath
    <3>10. check_plain(fn, outer, u).type = TObject
      BY <2>2, <3>1, <3>9 DEF Fine, Typed
    <3>11. QED
      BY <3>5, <3>10 DEF check_expr, Tried
  <2>5. QED
    BY <2>1, <2>3, <2>4
<1>5. QED
  BY <1>2, <1>3, <1>4 DEF IsExpr

-----------------------------------------------------------------------------
(***************************************************************************)
(* The invariant: every activation on the stack is where the checker's     *)
(* types of its names are so.                                              *)
(***************************************************************************)

\* The types before each statement are those the checker went through.
BodyChecked(fn, body, typing) ==
    /\ typing[1] = ParamTypes(fn)
    /\ \A k \in 1..Len(body) : /\ check_statement(fn, typing[k], body[k]).errors = {}
                               /\ typing[k + 1] = check_statement(fn, typing[k], body[k]).env

ModuleChecked ==
    diagnostics = {} => \A fn \in DOMAIN Functions : BodyChecked(fn, bodies[fn], typed[fn])

\* The statements of a body, with those of its arms.
StatementsIn(body) ==
    UNION {{body[i]} \cup IF body[i].s = "match" THEN {body[i].arms[k].body : k \in DOMAIN body[i].arms}
                          ELSE {} : i \in DOMAIN body}

\* Before a statement, or at the end.
AtBody(body, typing, todo, names) ==
    \E k \in 1..Len(body) + 1 : todo = SubSeq(body, k, Len(body)) /\ Bound(names, typing[k])

\* At the end of an arm: the names of before come back.
AfterArm(body, typing, todo, names) ==
    /\ todo # << >> /\ Head(todo).s = "restore"
    /\ AtBody(body, typing, Tail(todo), Restored(names, Head(todo).previous))

\* The checker accepted the body of an arm with these types.
Accepts(fn, body, st, types) ==
    /\ st \in StatementsIn(body) /\ IsSimple(st) /\ st.s # "let"
    /\ check_simple(fn, types, st).errors = {}
    /\ st.s = "return" => check_expr(fn, types, st.value).type # TObject

\* Before the body of an arm.
InArm(fn, body, typing, todo, names) ==
    /\ todo # << >> /\ AfterArm(body, typing, Tail(todo), names)
    /\ \E types : Bound(names, types) /\ Accepts(fn, body, Head(todo), types)

\* The condition of an `ensure` was false.
Raising(fn, body, todo, names) ==
    /\ todo # << >> /\ Head(todo).s = "raise" /\ IsResult(returns(fn)) /\ IsExpr(Head(todo).value)
    /\ \E st \in StatementsIn(body) : st.s = "ensure" /\ st.error = Head(todo).value
    /\ \E types : /\ Bound(names, types) /\ check_expr(fn, types, Head(todo).value).errors = {}
                  /\ expect_exact_type(check_expr(fn, types, Head(todo).value).type,
                                       result_error(returns(fn))) = {}

Fitting(fn, body, typing, todo, names) ==
    \/ AtBody(body, typing, todo, names) \/ AfterArm(body, typing, todo, names)
    \/ InArm(fn, body, typing, todo, names) \/ Raising(fn, body, todo, names)

\* A frame waits for the function that is above it, and for a value of its type.
CalleeOf(frame) == Untried(Head(frame.todo).value).callee
WaitsFor(frame, fn) == Len(CalleeOf(frame)) = 1 /\ CalleeOf(frame)[1] = fn
GotFits(frame) ==
    \A v \in frame.got : \E fn \in DOMAIN Functions :
        WaitsFor(frame, fn) /\ returns(fn) # NoReturnType /\ Holds(v, returns(fn))

NamesIn(frames, names, i) == IF i = Len(frames) THEN names ELSE frames[i + 1].previous_env
FramesFit(frames, names, code, typing) ==
    \A i \in 1..Len(frames) :
        /\ Fitting(frames[i].fn, code[frames[i].fn], typing[frames[i].fn], frames[i].todo,
                   NamesIn(frames, names, i))
        /\ GotFits(frames[i])
        /\ i < Len(frames) => WaitsFor(frames[i], frames[i + 1].fn)

\* What is an error of the one function is an error of the other.
SameErrors(fn, outer) ==
    IsResult(returns(fn)) => /\ IsResult(returns(outer))
                             /\ result_error(returns(outer)) = result_error(returns(fn))
ErrorsFit(frames) == \A i \in 1..Len(frames) : SameErrors(frames[i].fn, frames[1].fn)

RunFits == /\ FramesFit(stack, env, bodies, typed)
           /\ ~Untested => ErrorsFit(stack)
           /\ \E entry \in EntriesHere : entry.fn = stack[1].fn

\* The outcome is one that the properties allow.
Ended(result) ==
    /\ result.is = "failed" => KnownFailure(result)
    /\ result.is = "raised" /\ ~Untested =>
          \/ result.error \in HostErrors
          \/ \E entry \in EntriesHere : /\ IsResult(returns(entry.fn))
                                        /\ EnumHolds(result.error, result_error(returns(entry.fn))[2])
    /\ result.is = "value" => \E entry \in EntriesHere : Holds(result.value, returns(entry.fn))

SoundInv == Ordinary => (stack # << >> => RunFits) /\ Ended(outcome)

TypesInv == ShapeInv /\ ModuleChecked /\ SoundInv

-----------------------------------------------------------------------------
\* What the checker does.

\* A checked statement after a checked body makes a checked body.
LEMMA BodyAppends ==
    ASSUME NEW fn, NEW body, NEW typing, IsSequence(body), IsSequence(typing),
           Len(typing) = Len(body) + 1, BodyChecked(fn, body, typing),
           NEW st, NEW c, c = check_statement(fn, typing[Len(typing)], st), c.errors = {}
    PROVE  BodyChecked(fn, Append(body, st), Append(typing, c.env))
<1> DEFINE n == Len(body)  longer == Append(body, st)  types == Append(typing, c.env)
<1>1. n \in Nat /\ Len(typing) = n + 1
  BY SequenceFacts
<1>2. Len(longer) = n + 1 /\ longer[n + 1] = st /\ \A i \in 1..n : longer[i] = body[i]
  BY Appended
<1>3. types[n + 2] = c.env /\ \A i \in 1..n + 1 : types[i] = typing[i]
  <2>1. types[Len(typing) + 1] = c.env /\ \A i \in 1..Len(typing) : types[i] = typing[i]
    BY Appended
  <2> HIDE DEF types
  <2>2. QED
    BY <1>1, <2>1
<1> HIDE DEF n, longer, types
<1>4. types[1] = ParamTypes(fn)
  BY <1>1, <1>3 DEF BodyChecked
<1>5. ASSUME NEW k \in 1..n + 1
      PROVE  /\ check_statement(fn, types[k], longer[k]).errors = {}
             /\ types[k + 1] = check_statement(fn, types[k], longer[k]).env
  <2>1. CASE k = n + 1
    <3>1. types[k] = typing[Len(typing)] /\ longer[k] = st /\ types[k + 1] = c.env
      BY <1>1, <1>2, <1>3, <2>1
    <3>2. QED
      BY <3>1
  <2>2. CASE k # n + 1
    <3>1. k \in 1..n /\ k + 1 \in 1..n + 1
      BY <1>1, <2>2
    <3>2. types[k] = typing[k] /\ longer[k] = body[k] /\ types[k + 1] = typing[k + 1]
      BY <1>1, <1>2, <1>3, <3>1
    <3>3. QED
      BY <3>1, <3>2 DEF BodyChecked, n
  <2>3. QED
    BY <2>1, <2>2
<1>6. BodyChecked(fn, longer, types)
  BY <1>2, <1>4, <1>5 DEF BodyChecked
<1>7. QED
  BY <1>6 DEF longer, types

\* Bodies without statements are checked.
LEMMA CheckedInit == Init => ModuleChecked
<1> SUFFICES ASSUME Init, NEW fn \in DOMAIN Functions
             PROVE  BodyChecked(fn, bodies[fn], typed[fn])
  BY DEF ModuleChecked
<1>1. bodies[fn] = << >> /\ typed[fn] = <<ParamTypes(fn)>>
  BY DEF Init
<1>2. Len(bodies[fn]) = 0 /\ typed[fn][1] = ParamTypes(fn)
  BY <1>1
<1>3. QED
  BY <1>2 DEF BodyChecked

\* Writing a statement without diagnostics keeps every body checked.
LEMMA CheckedWrite ==
    ASSUME ShapeInv, ModuleChecked, check_function_body
    PROVE  ModuleChecked'
<1> DEFINE fn == order[at]
<1>1. PICK st : /\ fn \in DOMAIN Functions
                /\ bodies' = [bodies EXCEPT ![fn] = Append(bodies[fn], st)]
                /\ typed' = [typed EXCEPT ![fn] =
                       Append(typed[fn], check_statement(fn, typed[fn][Len(typed[fn])], st).env)]
                /\ diagnostics' = check_statement(fn, typed[fn][Len(typed[fn])], st).errors
  BY ShapeWrite
<1> HIDE DEF fn
<1> DEFINE c == check_statement(fn, typed[fn][Len(typed[fn])], st)
<1>2. /\ IsSequence(bodies[fn]) /\ IsSequence(typed[fn]) /\ Len(typed[fn]) = Len(bodies[fn]) + 1
      /\ DOMAIN bodies = DOMAIN Functions /\ DOMAIN typed = DOMAIN Functions
  BY <1>1 DEF ShapeInv, ModuleInv
<1>3. \A f \in DOMAIN Functions : BodyChecked(f, bodies[f], typed[f])
  BY DEF ModuleChecked, check_function_body
<1> HIDE DEF c
<1>4. ASSUME diagnostics' = {}, NEW f \in DOMAIN Functions
      PROVE  BodyChecked(f, bodies'[f], typed'[f])
  <2>1. CASE f = fn
    <3>1. c.errors = {} /\ bodies'[fn] = Append(bodies[fn], st) /\ typed'[fn] = Append(typed[fn], c.env)
      BY <1>1, <1>2, <1>4 DEF c
    <3>2. BodyChecked(fn, bodies[fn], typed[fn])
      BY <1>1, <1>3
    <3>3. BodyChecked(fn, Append(bodies[fn], st), Append(typed[fn], c.env))
      BY <1>2, <3>1, <3>2, BodyAppends DEF c
    <3>4. QED
      BY <2>1, <3>1, <3>3
  <2>2. CASE f # fn
    <3>1. bodies'[f] = bodies[f] /\ typed'[f] = typed[f]
      BY <1>1, <1>2, <2>2
    <3>2. QED
      BY <1>3, <3>1
  <2>3. QED
    BY <2>1, <2>2
<1>5. QED
  BY <1>4 DEF ModuleChecked

-----------------------------------------------------------------------------
\* What keeps the frames where they fit.

\* The stack of a program that runs, and its last frame.
LEMMA StackIs ==
    ASSUME ShapeInv, Running
    PROVE  IsSequence(stack) /\ Len(stack) \in Nat /\ Len(stack) >= 1 /\ Top = stack[Len(stack)]
BY SequenceFacts DEF ShapeInv, FramesInv, Running, Top

\* The running function goes on with its names.
LEMMA FitAdvanced ==
    ASSUME ShapeInv, Running, NEW names, NEW items, Advanced(items), NEW code, NEW typing,
           FramesFit(stack, env, code, typing),
           Fitting(Top.fn, code[Top.fn], typing[Top.fn], items \o Tail(Top.todo), names)
    PROVE  FramesFit(stack', names, code, typing)
<1> DEFINE n == Len(stack)
<1>1. n \in Nat /\ n >= 1 /\ Top = stack[n]
  BY StackIs
<1>2. /\ Len(stack') = n
      /\ \A i \in 1..n - 1 : stack'[i] = stack[i]
      /\ stack'[n].fn = Top.fn /\ stack'[n].todo = items \o Tail(Top.todo)
      /\ stack'[n].got = {} /\ stack'[n].previous_env = Top.previous_env
  BY DEF Advanced
<1> HIDE DEF n
<1>3. ASSUME NEW i \in 1..n
      PROVE  /\ Fitting(stack'[i].fn, code[stack'[i].fn], typing[stack'[i].fn], stack'[i].todo,
                        NamesIn(stack', names, i))
             /\ GotFits(stack'[i])
             /\ i < n => WaitsFor(stack'[i], stack'[i + 1].fn)
  <2>1. CASE i = n
    <3>1. NamesIn(stack', names, i) = names
      BY <1>2, <2>1 DEF NamesIn
    <3>2. GotFits(stack'[i])
      BY <1>2, <2>1 DEF GotFits
    <3>3. stack'[i].fn = Top.fn /\ stack'[i].todo = items \o Tail(Top.todo) /\ ~(i < n)
      BY <1>1, <1>2, <2>1
    <3>4. QED
      BY <3>1, <3>2, <3>3
  <2>2. CASE i # n
    <3>1. i \in 1..n - 1 /\ i < n /\ i + 1 \in 1..n
      BY <1>1, <2>2
    <3>2. stack'[i] = stack[i]
      BY <1>2, <3>1
    <3>3. stack'[i + 1].fn = stack[i + 1].fn /\ stack'[i + 1].previous_env = stack[i + 1].previous_env
      <4>1. CASE i + 1 = n
        BY <1>1, <1>2, <4>1
      <4>2. CASE i + 1 # n
        <5>1. i + 1 \in 1..n - 1
          BY <1>1, <3>1, <4>2
        <5>2. QED
          BY <1>2, <5>1
      <4>3. QED
        BY <4>1, <4>2
    <3>4. NamesIn(stack', names, i) = NamesIn(stack, env, i)
      BY <1>2, <2>2, <3>3 DEF NamesIn, n
    <3>5. /\ Fitting(stack[i].fn, code[stack[i].fn], typing[stack[i].fn], stack[i].todo,
                     NamesIn(stack, env, i))
          /\ GotFits(stack[i]) /\ WaitsFor(stack[i], stack[i + 1].fn)
      BY <3>1 DEF FramesFit, n
    <3>6. QED
      BY <3>2, <3>3, <3>4, <3>5
  <2>3. QED
    BY <2>1, <2>2
<1>4. QED
  BY <1>2, <1>3 DEF FramesFit

\* What a frame waits for depends on its statements alone.
LEMMA WaitsSame ==
    ASSUME NEW f, NEW g, f.todo = g.todo, NEW fn
    PROVE  WaitsFor(f, fn) <=> WaitsFor(g, fn)
BY DEF WaitsFor, CalleeOf

\* The running function returns what its caller waits for.
LEMMA FitReturned ==
    ASSUME ShapeInv, Running, Len(stack) # 1, NEW v, Returned(v), NEW code, NEW typing,
           FramesFit(stack, env, code, typing),
           returns(Top.fn) # NoReturnType, Holds(v, returns(Top.fn))
    PROVE  FramesFit(stack', Top.previous_env, code, typing)
<1> DEFINE n == Len(stack)  m == n - 1  names == Top.previous_env
<1>1. n \in Nat /\ n >= 1 /\ Top = stack[n] /\ n # 1
  BY StackIs
<1>2. m \in Nat /\ m >= 1 /\ m + 1 = n /\ m \in 1..n /\ m < n /\ n - 2 = m - 1
  <2> HIDE DEF n
  <2>1. QED
    BY <1>1
<1>3. /\ Len(stack') = m
      /\ \A i \in 1..m - 1 : stack'[i] = stack[i]
      /\ stack'[m].fn = stack[m].fn /\ stack'[m].todo = stack[m].todo
      /\ stack'[m].got = {v} /\ stack'[m].previous_env = stack[m].previous_env
  BY <1>2 DEF Returned
<1>4. \A i \in 1..n :
         /\ Fitting(stack[i].fn, code[stack[i].fn], typing[stack[i].fn], stack[i].todo,
                    NamesIn(stack, env, i))
         /\ GotFits(stack[i])
         /\ i < n => WaitsFor(stack[i], stack[i + 1].fn)
  BY DEF FramesFit
<1>5. NamesIn(stack, env, m) = names
  <2>1. NamesIn(stack, env, m) = IF m = n THEN env ELSE stack[m + 1].previous_env
    BY DEF NamesIn
  <2> HIDE DEF n, m
  <2>2. QED
    BY <1>1, <1>2, <2>1
<1>6. Top.fn \in DOMAIN Functions
  BY TopIsFrame DEF IsFrame
<1>7. \A i \in 1..m : i # m => NamesIn(stack, env, i) = stack[i + 1].previous_env
  <2>1. \A i \in 1..m : NamesIn(stack, env, i) = IF i = n THEN env ELSE stack[i + 1].previous_env
    BY DEF NamesIn
  <2> HIDE DEF n, m
  <2>2. \A i \in 1..m : i # n
    BY <1>1, <1>2
  <2>3. QED
    BY <2>1, <2>2
<1> HIDE DEF n, m, names
<1>8. ASSUME NEW i \in 1..m
      PROVE  /\ Fitting(stack'[i].fn, code[stack'[i].fn], typing[stack'[i].fn], stack'[i].todo,
                        NamesIn(stack', names, i))
             /\ GotFits(stack'[i])
             /\ i < m => WaitsFor(stack'[i], stack'[i + 1].fn)
  <2>1. CASE i = m
    <3>1. NamesIn(stack', names, i) = names
      BY <1>3, <2>1 DEF NamesIn
    <3>2. WaitsFor(stack[m], Top.fn)
      BY <1>1, <1>2, <1>4
    <3>3. WaitsFor(stack'[m], Top.fn)
      BY <1>3, <3>2, WaitsSame
    <3>4. GotFits(stack'[m])
      BY <1>3, <1>6, <3>3 DEF GotFits
    <3>5. QED
      BY <1>2, <1>3, <1>4, <1>5, <2>1, <3>1, <3>4
  <2>2. CASE i # m
    <3>1. i \in 1..m - 1 /\ i < m /\ i + 1 \in 1..m /\ i \in 1..n /\ i < n
      BY <1>1, <1>2, <2>2
    <3>2. stack'[i] = stack[i]
      BY <1>3, <3>1
    <3>3. stack'[i + 1].fn = stack[i + 1].fn /\ stack'[i + 1].previous_env = stack[i + 1].previous_env
      <4>1. CASE i + 1 = m
        BY <1>3, <4>1
      <4>2. CASE i + 1 # m
        <5>1. i + 1 \in 1..m - 1
          BY <1>2, <3>1, <4>2
        <5>2. QED
          BY <1>3, <5>1
      <4>3. QED
        BY <4>1, <4>2
    <3>4. NamesIn(stack', names, i) = NamesIn(stack, env, i)
      BY <1>3, <1>7, <2>2, <3>3 DEF NamesIn
    <3>5. QED
      BY <1>4, <3>1, <3>2, <3>3, <3>4
  <2>3. QED
    BY <2>1, <2>2
<1>9. FramesFit(stack', names, code, typing)
  BY <1>3, <1>8 DEF FramesFit
<1>10. QED
  BY <1>9 DEF names

\* The function that is called begins with its names.
LEMMA FitEntered ==
    ASSUME ShapeInv, NEW fn, NEW args, Entered(fn, args), NEW names, NEW code, NEW typing,
           code[fn] = bodies[fn],
           FramesFit(stack, env, code, typing),
           Running => WaitsFor(Top, fn),
           Fitting(fn, code[fn], typing[fn], code[fn], names)
    PROVE  FramesFit(stack', names, code, typing)
<1> DEFINE n == Len(stack)
<1>1. IsSequence(stack) /\ n \in Nat
  BY SequenceFacts DEF ShapeInv, FramesInv
<1>2. n >= 1 => WaitsFor(stack[n], fn)
  BY <1>1, SequenceFacts DEF Running, Top
<1>3. /\ Len(stack') = n + 1
      /\ \A i \in 1..n : stack'[i] = stack[i]
      /\ stack'[n + 1].fn = fn /\ stack'[n + 1].todo = code[fn]
      /\ stack'[n + 1].got = {} /\ stack'[n + 1].previous_env = env
  BY DEF Entered
<1>4. \A i \in 1..n :
         /\ Fitting(stack[i].fn, code[stack[i].fn], typing[stack[i].fn], stack[i].todo,
                    NamesIn(stack, env, i))
         /\ GotFits(stack[i])
         /\ i < n => WaitsFor(stack[i], stack[i + 1].fn)
  BY DEF FramesFit
<1>5. \A i \in 1..n : NamesIn(stack, env, i) = IF i = n THEN env ELSE stack[i + 1].previous_env
  BY DEF NamesIn
<1> HIDE DEF n
<1>6. ASSUME NEW i \in 1..n + 1
      PROVE  /\ Fitting(stack'[i].fn, code[stack'[i].fn], typing[stack'[i].fn], stack'[i].todo,
                        NamesIn(stack', names, i))
             /\ GotFits(stack'[i])
             /\ i < n + 1 => WaitsFor(stack'[i], stack'[i + 1].fn)
  <2>1. CASE i = n + 1
    <3>1. NamesIn(stack', names, i) = names
      BY <1>3, <2>1 DEF NamesIn
    <3>2. GotFits(stack'[i])
      BY <1>3, <2>1 DEF GotFits
    <3>3. QED
      BY <1>3, <2>1, <3>1, <3>2
  <2>2. CASE i = n
    <3>1. i \in 1..n /\ i # n + 1 /\ n >= 1
      BY <1>1, <2>2
    <3>2. NamesIn(stack', names, i) = NamesIn(stack, env, i)
      BY <1>3, <1>5, <2>2, <3>1 DEF NamesIn
    <3>3. WaitsFor(stack'[i], stack'[i + 1].fn)
      BY <1>2, <1>3, <2>2, <3>1
    <3>4. QED
      BY <1>3, <1>4, <3>1, <3>2, <3>3
  <2>3. CASE i # n /\ i # n + 1
    <3>1. i \in 1..n /\ i < n /\ i + 1 \in 1..n
      BY <1>1, <2>3
    <3>2. stack'[i] = stack[i] /\ stack'[i + 1] = stack[i + 1]
      BY <1>3, <3>1
    <3>3. NamesIn(stack', names, i) = NamesIn(stack, env, i)
      BY <1>3, <1>5, <2>3, <3>1, <3>2 DEF NamesIn
    <3>4. QED
      BY <1>4, <3>1, <3>2, <3>3
  <2>4. QED
    BY <2>1, <2>2, <2>3
<1>7. QED
  BY <1>3, <1>6 DEF FramesFit

\* The errors of the functions on the stack are those of the first.
LEMMA ErrorsKept ==
    ASSUME NEW frames, NEW after, Len(frames) \in Nat, Len(after) \in Nat, Len(after) >= 1,
           Len(after) <= Len(frames), \A i \in 1..Len(after) : after[i].fn = frames[i].fn,
           ErrorsFit(frames)
    PROVE  ErrorsFit(after) /\ after[1].fn = frames[1].fn
<1>1. \A i \in 1..Len(after) : i \in 1..Len(frames)
  OBVIOUS
<1>2. 1 \in 1..Len(after)
  OBVIOUS
<1>3. QED
  BY <1>1, <1>2 DEF ErrorsFit

\* Nothing changes that the properties of the programs are about.
LEMMA SameProgram ==
    ASSUME UNCHANGED checkVars, UNCHANGED bodies
    PROVE  /\ Ordinary' = Ordinary /\ Untested' = Untested /\ EntriesHere' = EntriesHere
           /\ Accepted' = Accepted
<1>1. bodies' = bodies /\ typed' = typed /\ order' = order /\ at' = at /\ diagnostics' = diagnostics
  BY DEF checkVars
<1>3. BindsInArm' = BindsInArm
  BY <1>1 DEF BindsInArm, StatementsAt
<1>4. ReturnsObject' = ReturnsObject
  BY <1>1 DEF ReturnsObject, StatementsAt
<1>5. Misread' = Misread
  BY <1>1 DEF Misread
<1>6. Untested' = Untested
  BY <1>1 DEF Untested, StatementsOf, StatementsAt
<1>7. QED
  BY <1>1, <1>3, <1>4, <1>5, <1>6 DEF Ordinary, EntriesHere, Accepted

-----------------------------------------------------------------------------
\* The steps of a function that runs, and what they need to keep the invariant.

RunsWell == ShapeInv /\ ModuleChecked /\ Ordinary /\ Accepted /\ RunFits /\ Running

\* The program is the same, and what runs is the caller's to show.
LEMMA StillRuns ==
    ASSUME RunsWell, UNCHANGED checkVars, UNCHANGED bodies, stack' # << >>, outcome' = outcome,
           FramesFit(stack', env', bodies, typed), ~Untested => ErrorsFit(stack'),
           stack'[1].fn = stack[1].fn
    PROVE  SoundInv'
<1>1. outcome' = Nothing
  BY DEF RunsWell, ShapeInv, RunInv, Running
<1>2. Ended(outcome)'
  <2>1. outcome'.is = "nothing"
    BY <1>1 DEF Nothing
  <2>2. QED
    BY <2>1 DEF Ended
<1>3. bodies' = bodies /\ typed' = typed
  BY DEF checkVars
<1>4. Untested' = Untested /\ EntriesHere' = EntriesHere
  BY SameProgram
<1>5. \E entry \in EntriesHere : entry.fn = stack[1].fn
  BY DEF RunsWell, RunFits
<1>6. RunFits'
  BY <1>3, <1>4, <1>5 DEF RunFits
<1>7. QED
  BY <1>2, <1>6 DEF SoundInv

\* A function that goes on to where it fits keeps the invariant.
LEMMA AdvanceFits ==
    ASSUME RunsWell, UNCHANGED checkVars, UNCHANGED bodies, Top.todo # << >>,
           NEW names, NEW items, AreItems(items), Advance(names, items),
           Fitting(Top.fn, bodies[Top.fn], typed[Top.fn], items \o Tail(Top.todo), names)
    PROVE  SoundInv'
<1>1. ShapeInv /\ Accepted /\ Running /\ FramesFit(stack, env, bodies, typed)
      /\ (~Untested => ErrorsFit(stack))
  BY DEF RunsWell, RunFits
<1>2. Advanced(items) /\ env' = names /\ outcome' = outcome
  BY <1>1, ShapeAdvance
<1>3. FramesFit(stack', names, bodies, typed)
  BY <1>1, <1>2, FitAdvanced
<1>4. Len(stack) \in Nat /\ Len(stack) >= 1 /\ Top = stack[Len(stack)]
  BY <1>1, StackIs
<1>5. stack' # << >> /\ Len(stack') = Len(stack) /\ \A i \in 1..Len(stack') : stack'[i].fn = stack[i].fn
  BY <1>2, <1>4 DEF Advanced
<1>6. /\ ~Untested => ErrorsFit(stack')
      /\ stack'[1].fn = stack[1].fn
  <2>1. 1 \in 1..Len(stack')
    BY <1>4, <1>5
  <2>2. QED
    BY <1>1, <1>4, <1>5, <2>1, ErrorsKept
<1>7. QED
  BY <1>2, <1>3, <1>5, <1>6, StillRuns

\* So does an end with an outcome that the properties allow.
LEMMA EndFits ==
    ASSUME Ordinary, UNCHANGED checkVars, UNCHANGED bodies,
           NEW result, End(result), Ended(result)
    PROVE  SoundInv'
<1>1. stack' = << >> /\ outcome' = result
  BY DEF End
<1>2. Untested' = Untested /\ EntriesHere' = EntriesHere
  BY SameProgram
<1>3. Ended(outcome)'
  BY <1>1, <1>2 DEF Ended
<1>4. QED
  BY <1>1, <1>3 DEF SoundInv

\* A stop of an expression, and a known failure, may end the entered function.
LEMMA StopEnds ==
    ASSUME NEW result, Stop(result)
    PROVE  Ended(result)
BY DEF Stop, Ended, KnownFailure

\* So does a return of a value of the declared type: to the host as the
\* outcome, to a caller as what it waits for.
LEMMA ReturnFits ==
    ASSUME RunsWell, UNCHANGED checkVars, UNCHANGED bodies,
           NEW v, exec_return(v), returns(Top.fn) # NoReturnType, Holds(v, returns(Top.fn))
    PROVE  SoundInv'
<1>1. /\ ShapeInv /\ Accepted /\ Running /\ Ordinary /\ FramesFit(stack, env, bodies, typed)
      /\ ~Untested => ErrorsFit(stack)
      /\ \E entry \in EntriesHere : entry.fn = stack[1].fn
  BY DEF RunsWell, RunFits
<1>2. Len(stack) \in Nat /\ Len(stack) >= 1 /\ Top = stack[Len(stack)]
  BY <1>1, StackIs
<1>3. CASE Len(stack) = 1
  <2>1. End(Value(v))
    BY <1>3 DEF exec_return
  <2>2. Value(v).is = "value" /\ Value(v).value = v
    BY DEF Value
  <2>3. Ended(Value(v))
    BY <1>1, <1>2, <1>3, <2>2 DEF Ended
  <2>4. QED
    BY <1>1, <2>1, <2>3, EndFits
<1>4. CASE Len(stack) # 1
  <2>1. Returned(v) /\ stack' # << >> /\ env' = Top.previous_env /\ outcome' = outcome
    BY <1>1, <1>4, ShapeReturn
  <2>2. FramesFit(stack', Top.previous_env, bodies, typed)
    BY <1>1, <1>4, <2>1, FitReturned
  <2>3. /\ Len(stack') = Len(stack) - 1 /\ Len(stack') \in Nat /\ Len(stack') >= 1
        /\ Len(stack') <= Len(stack)
    BY <1>2, <1>4, <2>1 DEF Returned
  <2>4. \A i \in 1..Len(stack') : stack'[i].fn = stack[i].fn
    <3> SUFFICES ASSUME NEW i \in 1..Len(stack') PROVE stack'[i].fn = stack[i].fn
      OBVIOUS
    <3>1. CASE i = Len(stack) - 1
      BY <2>1, <3>1 DEF Returned
    <3>2. CASE i # Len(stack) - 1
      <4>1. i \in 1..Len(stack) - 2
        BY <1>2, <2>3, <3>2
      <4>2. QED
        BY <2>1, <4>1 DEF Returned
    <3>3. QED
      BY <3>1, <3>2
  <2>5. /\ ~Untested => ErrorsFit(stack')
        /\ stack'[1].fn = stack[1].fn
    <3>1. 1 \in 1..Len(stack')
      BY <2>3
    <3>2. QED
      BY <1>1, <1>2, <2>3, <2>4, <3>1, ErrorsKept
  <2>6. QED
    BY <2>1, <2>2, <2>5, StillRuns
<1>5. QED
  BY <1>3, <1>4

\* A statement of a body, with what the checker found before it.
Ahead(fn, body, typing, st, rest, names, k) ==
    /\ st = body[k] /\ rest = SubSeq(body, k + 1, Len(body)) /\ Bound(names, typing[k])
    /\ check_statement(fn, typing[k], st).errors = {}
    /\ typing[k + 1] = check_statement(fn, typing[k], st).env
    /\ IsSimple(st) \/ IsMatch(st)

\* What is next for the running function.
LEMMA HeadCases ==
    ASSUME RunsWell, Top.todo # << >>, Head(Top.todo).s # "restore"
    PROVE  \/ \E k \in 1..Len(bodies[Top.fn]) :
                 Ahead(Top.fn, bodies[Top.fn], typed[Top.fn], Head(Top.todo), Tail(Top.todo), env, k)
           \/ InArm(Top.fn, bodies[Top.fn], typed[Top.fn], Top.todo, env)
           \/ Raising(Top.fn, bodies[Top.fn], Top.todo, env)
<1> DEFINE fn == Top.fn  body == bodies[fn]  typing == typed[fn]  todo == Top.todo
<1>1. ShapeInv /\ Running /\ FramesFit(stack, env, bodies, typed) /\ ModuleChecked /\ diagnostics = {}
  BY DEF RunsWell, RunFits, Accepted
<1>2. fn \in DOMAIN Functions
  BY <1>1, TopIsFrame DEF IsFrame
<1>3. IsSequence(body) /\ \A i \in 1..Len(body) : body[i] \in Statements[fn]
  BY <1>1, <1>2 DEF ShapeInv, ModuleInv
<1>4. BodyChecked(fn, body, typing)
  BY <1>1, <1>2 DEF ModuleChecked
<1>5. Fitting(fn, body, typing, todo, env)
  <2>1. Len(stack) \in 1..Len(stack) /\ Top = stack[Len(stack)]
    BY <1>1, StackIs
  <2>2. NamesIn(stack, env, Len(stack)) = env
    BY DEF NamesIn
  <2>3. QED
    BY <1>1, <2>1, <2>2 DEF FramesFit
<1> HIDE DEF fn, body, typing, todo
<1>6. CASE AtBody(body, typing, todo, env)
  <2>1. PICK k \in 1..Len(body) + 1 : todo = SubSeq(body, k, Len(body)) /\ Bound(env, typing[k])
    BY <1>6 DEF AtBody
  <2>2. Len(body) \in Nat
    BY <1>3, SequenceFacts
  <2>3. k \in 1..Len(body) /\ Head(todo) = body[k] /\ Tail(todo) = SubSeq(body, k + 1, Len(body))
    <3>1. Len(todo) = Len(body) - k + 1 /\ IsSequence(todo)
      BY <1>3, <2>1, Suffix
    <3>2. Len(todo) # 0
      BY <3>1, SequenceFacts DEF todo
    <3>3. k <= Len(body)
      BY <2>2, <3>1, <3>2
    <3>4. QED
      BY <1>3, <2>1, <2>2, <3>3, Suffix
  <2>4. IsSimple(body[k]) \/ IsMatch(body[k])
    BY <1>2, <1>3, <2>3, CheckedAssumption
  <2>5. Ahead(fn, body, typing, Head(todo), Tail(todo), env, k)
    BY <1>4, <2>1, <2>3, <2>4 DEF BodyChecked, Ahead
  <2>6. QED
    BY <2>3, <2>5 DEF fn, body, typing, todo
<1>7. CASE ~AtBody(body, typing, todo, env)
  BY <1>5, <1>7 DEF Fitting, AfterArm, fn, body, typing, todo
<1>8. QED
  BY <1>6, <1>7

\* Nothing before a sequence.
LEMMA EmptyBefore ==
    ASSUME NEW s, IsSequence(s)
    PROVE  << >> \o s = s
<1>1. PICK S : s \in Seq(S)
  BY SequenceIn
<1>2. QED
  BY <1>1

\* The statements that the properties of the programs are about.
LEMMA StatementsOfIs ==
    ASSUME NEW fn
    PROVE  /\ StatementsOf(fn) = StatementsIn(bodies[fn])
           /\ \A i \in DOMAIN bodies[fn] : bodies[fn][i] \in StatementsIn(bodies[fn])
           /\ \A i \in DOMAIN bodies[fn] :
                 bodies[fn][i].s = "match" =>
                    \A k \in DOMAIN bodies[fn][i].arms :
                       /\ bodies[fn][i].arms[k].body \in StatementsIn(bodies[fn])
                       /\ bodies[fn][i].arms[k].body \in StatementsAt(fn, i)
BY DEF StatementsOf, StatementsAt, StatementsIn

\* What an ordinary program leaves out.
LEMMA OrdinaryIs ==
    ASSUME ShapeInv, Ordinary, NEW fn \in DOMAIN Functions
    PROVE  /\ DOMAIN bodies[fn] = 1..Len(bodies[fn]) /\ DOMAIN typed[fn] = 1..Len(bodies[fn]) + 1
           /\ Len(bodies[fn]) \in Nat
           /\ DOMAIN Enums \subseteq Capitals
           /\ \A k \in 1..Len(bodies[fn]) + 1 : DOMAIN typed[fn][k] \cap Capitals = {}
           /\ \A k \in 1..Len(bodies[fn]) : \A st \in StatementsAt(fn, k) :
                 /\ st.s = "return" => check_expr(fn, typed[fn][k], st.value).type # TObject
                 /\ bodies[fn][k].s = "match" => st.s # "let"
           /\ \A k \in 1..Len(bodies[fn]) : bodies[fn][k].s = "match" =>
                 \A j \in DOMAIN bodies[fn][k].arms :
                    Range(bodies[fn][k].arms[j].bindings) \cap Capitals = {}
<1>1. /\ IsSequence(bodies[fn]) /\ IsSequence(typed[fn]) /\ Len(typed[fn]) = Len(bodies[fn]) + 1
  BY DEF ShapeInv, ModuleInv
<1>2. /\ DOMAIN bodies[fn] = 1..Len(bodies[fn]) /\ DOMAIN typed[fn] = 1..Len(bodies[fn]) + 1
      /\ Len(bodies[fn]) \in Nat
  BY <1>1, SequenceFacts
<1>3. ~BindsInArm /\ ~ReturnsObject /\ ~Misread
  BY DEF Ordinary
<1>4. /\ DOMAIN Enums \subseteq Capitals
      /\ \A i \in DOMAIN typed[fn] : DOMAIN typed[fn][i] \cap Capitals = {}
      /\ \A i \in DOMAIN bodies[fn] : bodies[fn][i].s = "match" =>
            \A k \in DOMAIN bodies[fn][i].arms :
               Range(bodies[fn][i].arms[k].bindings) \cap Capitals = {}
  BY <1>3 DEF Misread
<1>5. \A i \in DOMAIN bodies[fn] : \A st \in StatementsAt(fn, i) :
         st.s = "return" => check_expr(fn, typed[fn][i], st.value).type # TObject
  BY <1>3 DEF ReturnsObject
<1>6. \A i \in DOMAIN bodies[fn] : bodies[fn][i].s = "match" =>
         \A st \in StatementsAt(fn, i) : st.s # "let"
  BY <1>3 DEF BindsInArm
<1>7. QED
  BY <1>2, <1>4, <1>5, <1>6

\* What the checker found of a statement that it accepted.
LEMMA SimpleChecked ==
    ASSUME NEW fn, NEW types, NEW st, IsSimple(st), check_simple(fn, types, st).errors = {}
    PROVE  LET value == check_expr(fn, types, st.value)
           IN /\ value.errors = {}
              /\ st.s # "let" => check_simple(fn, types, st).env = types
              /\ st.s = "return" => check_return_type(fn, value.type) = {}
<1> DEFINE value == check_expr(fn, types, st.value)
<1>1. check_simple(fn, types, st) = AfterValue(fn, types, st, value)
  BY DEF check_simple
<1> HIDE DEF value
<1>2. CASE st.s = "let"
  BY <1>1, <1>2 DEF AfterValue, Checked, value
<1>3. CASE st.s = "expr"
  BY <1>1, <1>3 DEF AfterValue, Checked, value
<1>4. CASE st.s = "return"
  BY <1>1, <1>4 DEF AfterValue, Checked, value
<1>5. CASE st.s = "ensure"
  BY <1>1, <1>5 DEF AfterValue, Checked, check_ensure_statement, Expecting, value
<1>6. QED
  BY <1>2, <1>3, <1>4, <1>5 DEF IsSimple

\* A statement that is no match and binds nothing: what is after it fits.
LEMMA HeadSimple ==
    ASSUME RunsWell, Top.todo # << >>, Head(Top.todo).s \notin {"restore", "raise", "match", "let"}
    PROVE  LET fn == Top.fn  body == bodies[fn]  typing == typed[fn]
           IN /\ \/ AtBody(body, typing, Tail(Top.todo), env)
                 \/ AfterArm(body, typing, Tail(Top.todo), env)
              /\ \E types : Bound(env, types) /\ Accepts(fn, body, Head(Top.todo), types)
<1> DEFINE fn == Top.fn  body == bodies[fn]  typing == typed[fn]  st == Head(Top.todo)
<1>1. ShapeInv /\ Running /\ Ordinary /\ fn \in DOMAIN Functions
  <2>1. ShapeInv /\ Running /\ Ordinary
    BY DEF RunsWell
  <2>2. QED
    BY <2>1, TopIsFrame DEF IsFrame
<1>2. CASE \E k \in 1..Len(body) : Ahead(fn, body, typing, st, Tail(Top.todo), env, k)
  <2>1. PICK k \in 1..Len(body) : Ahead(fn, body, typing, st, Tail(Top.todo), env, k)
    BY <1>2
  <2> HIDE DEF fn, body, typing, st
  <2>2. /\ st = body[k] /\ Tail(Top.todo) = SubSeq(body, k + 1, Len(body)) /\ Bound(env, typing[k])
        /\ check_statement(fn, typing[k], st).errors = {}
        /\ typing[k + 1] = check_statement(fn, typing[k], st).env
        /\ IsSimple(st)
    BY <2>1 DEF Ahead, IsMatch, st
  <2>3. check_statement(fn, typing[k], st) = check_simple(fn, typing[k], st)
    BY DEF check_statement, st
  <2>4. typing[k + 1] = typing[k]
    BY <2>2, <2>3, SimpleChecked DEF st
  <2>5. AtBody(body, typing, Tail(Top.todo), env)
    <3>1. Len(body) \in Nat
      BY <1>1, OrdinaryIs DEF body
    <3>2. k + 1 \in 1..Len(body) + 1
      BY <3>1
    <3>3. QED
      BY <2>2, <2>4, <3>2 DEF AtBody
  <2>6. st \in StatementsIn(body) /\ st \in StatementsAt(fn, k)
    <3>1. k \in DOMAIN body
      BY <1>1, OrdinaryIs DEF body
    <3>2. QED
      BY <2>2, <3>1 DEF StatementsIn, StatementsAt, body
  <2>7. st.s = "return" => check_expr(fn, typing[k], st.value).type # TObject
    BY <1>1, <2>6, OrdinaryIs DEF body, typing
  <2>8. Accepts(fn, body, st, typing[k])
    BY <2>2, <2>3, <2>6, <2>7 DEF Accepts, st
  <2>9. QED
    BY <2>2, <2>5, <2>8 DEF fn, body, typing, st
<1>3. CASE InArm(fn, body, typing, Top.todo, env)
  BY <1>3 DEF InArm
<1>4. CASE Raising(fn, body, Top.todo, env)
  BY <1>4 DEF Raising
<1>5. QED
  BY <1>2, <1>3, <1>4, HeadCases

\* Only a body has a match, or a `let`, and only an `ensure` raises.
LEMMA HeadOfBody ==
    ASSUME RunsWell, Top.todo # << >>, Head(Top.todo).s \in {"match", "let"}
    PROVE  \E k \in 1..Len(bodies[Top.fn]) :
              Ahead(Top.fn, bodies[Top.fn], typed[Top.fn], Head(Top.todo), Tail(Top.todo), env, k)
<1>1. ~InArm(Top.fn, bodies[Top.fn], typed[Top.fn], Top.todo, env)
  BY DEF InArm, Accepts, IsSimple
<1>2. ~Raising(Top.fn, bodies[Top.fn], Top.todo, env)
  BY DEF Raising
<1>3. QED
  BY <1>1, <1>2, HeadCases

\* Only where the condition of an `ensure` was false is an error raised.
LEMMA HeadRaises ==
    ASSUME RunsWell, Top.todo # << >>, Head(Top.todo).s = "raise"
    PROVE  Raising(Top.fn, bodies[Top.fn], Top.todo, env)
<1>1. ~InArm(Top.fn, bodies[Top.fn], typed[Top.fn], Top.todo, env)
  BY DEF InArm, Accepts, IsSimple
<1>2. \A k \in 1..Len(bodies[Top.fn]) :
         ~Ahead(Top.fn, bodies[Top.fn], typed[Top.fn], Head(Top.todo), Tail(Top.todo), env, k)
  BY DEF Ahead, IsSimple, IsMatch
<1>3. QED
  BY <1>1, <1>2, HeadCases

\* The arms of a match ahead bind nothing of their own.
LEMMA MatchAhead ==
    ASSUME RunsWell, NEW k \in 1..Len(bodies[Top.fn]), NEW rest, NEW st, st.s = "match",
           Ahead(Top.fn, bodies[Top.fn], typed[Top.fn], st, rest, env, k)
    PROVE  /\ IsMatch(st) /\ Top.fn \in DOMAIN Functions /\ st = bodies[Top.fn][k]
           /\ Bound(env, typed[Top.fn][k])
           /\ \A j \in DOMAIN st.arms : st.arms[j].body.s # "let"
           /\ check_match_statement(Top.fn, typed[Top.fn][k], st).errors = {}
           /\ typed[Top.fn][k + 1] = check_match_statement(Top.fn, typed[Top.fn][k], st).env
           /\ st \in StatementsIn(bodies[Top.fn])
<1> DEFINE fn == Top.fn  body == bodies[fn]  typing == typed[fn]
<1>1. ShapeInv /\ Ordinary /\ fn \in DOMAIN Functions
  <2>1. ShapeInv /\ Running /\ Ordinary
    BY DEF RunsWell
  <2>2. QED
    BY <2>1, TopIsFrame DEF IsFrame
<1>2. k \in DOMAIN body /\ k \in 1..Len(body)
  BY <1>1, OrdinaryIs
<1> HIDE DEF fn, body, typing
<1>3. /\ st = body[k] /\ Bound(env, typing[k])
      /\ check_statement(fn, typing[k], st).errors = {}
      /\ typing[k + 1] = check_statement(fn, typing[k], st).env
      /\ IsMatch(st)
  BY DEF Ahead, IsSimple, fn, body, typing
<1>4. check_statement(fn, typing[k], st) = check_match_statement(fn, typing[k], st)
  BY DEF check_statement
<1>5. \A j \in DOMAIN st.arms : st.arms[j].body.s # "let"
  <2> SUFFICES ASSUME NEW j \in DOMAIN st.arms PROVE st.arms[j].body.s # "let"
    OBVIOUS
  <2>1. st.arms[j].body \in StatementsAt(fn, k)
    BY <1>2, <1>3, StatementsOfIs DEF body
  <2>2. body[k].s = "match"
    BY <1>3
  <2>3. \A s \in StatementsAt(fn, k) : bodies[fn][k].s = "match" => s.s # "let"
    BY <1>1, <1>2, OrdinaryIs DEF body
  <2>4. QED
    BY <2>1, <2>2, <2>3 DEF body
<1>6. st \in StatementsIn(body)
  BY <1>2, <1>3, StatementsOfIs DEF body
<1>7. QED
  BY <1>1, <1>3, <1>4, <1>5, <1>6 DEF fn, body, typing

\* The expression at the head was accepted, with types that the names have.
LEMMA HeadTyped ==
    ASSUME RunsWell, Top.todo # << >>, Head(Top.todo).s # "restore"
    PROVE  LET fn == Top.fn  x == Head(Top.todo).value
           IN /\ IsExpr(x)
              /\ \E types : Bound(env, types) /\ check_expr(fn, types, x).errors = {}
              /\ \E st \in StatementsOf(fn) : x = st.value \/ (st.s = "ensure" /\ x = st.error)
<1> DEFINE fn == Top.fn  st == Head(Top.todo)  x == st.value  body == bodies[fn]
<1>0. StatementsOf(fn) = StatementsIn(body)
  BY StatementsOfIs
<1>1. CASE st.s = "raise"
  <2>1. Raising(fn, body, Top.todo, env)
    BY <1>1, HeadRaises
  <2>2. QED
    BY <1>0, <2>1 DEF Raising
<1>2. CASE st.s = "match"
  <2>1. PICK k \in 1..Len(body) : Ahead(fn, body, typed[fn], st, Tail(Top.todo), env, k)
    BY <1>2, HeadOfBody
  <2> HIDE DEF st
  <2>2. /\ IsMatch(st) /\ Bound(env, typed[fn][k]) /\ st \in StatementsIn(body)
        /\ \A j \in DOMAIN st.arms : st.arms[j].body.s # "let"
        /\ check_match_statement(fn, typed[fn][k], st).errors = {}
    BY <1>2, <2>1, MatchAhead, SMTT(30)
  <2> HIDE DEF fn, body
  <2>3. check_expr(fn, typed[fn][k], st.value).errors = {}
    BY <2>2, MatchAccepted
  <2>4. QED
    BY <1>0, <2>2, <2>3 DEF IsMatch, st, fn
<1>3. CASE st.s = "let"
  <2>1. PICK k \in 1..Len(body) : Ahead(fn, body, typed[fn], st, Tail(Top.todo), env, k)
    BY <1>3, HeadOfBody
  <2>2. k \in DOMAIN body
    <3>1. ShapeInv /\ Running /\ Ordinary
      BY DEF RunsWell
    <3>2. fn \in DOMAIN Functions
      BY <3>1, TopIsFrame DEF IsFrame
    <3>3. QED
      BY <3>1, <3>2, OrdinaryIs
  <2> HIDE DEF st, fn, body
  <2>3. /\ st = body[k] /\ Bound(env, typed[fn][k]) /\ IsSimple(st)
        /\ check_simple(fn, typed[fn][k], st).errors = {}
    BY <1>3, <2>1 DEF Ahead, IsMatch, check_statement
  <2>4. check_expr(fn, typed[fn][k], st.value).errors = {}
    BY <2>3, SimpleChecked
  <2>5. st \in StatementsIn(body)
    BY <2>2, <2>3, StatementsOfIs DEF body
  <2>6. QED
    BY <1>0, <2>3, <2>4, <2>5 DEF IsSimple, st, fn
<1>4. CASE st.s \notin {"raise", "match", "let"}
  <2>1. PICK types : Bound(env, types) /\ Accepts(fn, body, st, types)
    BY <1>4, HeadSimple
  <2> HIDE DEF st, fn, body
  <2>2. IsSimple(st) /\ check_simple(fn, types, st).errors = {} /\ st \in StatementsIn(body)
    BY <2>1 DEF Accepts
  <2>3. check_expr(fn, types, st.value).errors = {}
    BY <2>2, SimpleChecked
  <2>4. QED
    BY <1>0, <2>1, <2>2, <2>3 DEF IsSimple, st, fn
<1>5. QED
  BY <1>1, <1>2, <1>3, <1>4

\* What the value of an accepted expression is, whatever types its names have.
Suits(names, fn, x, v) ==
    \A types : Bound(names, types) /\ check_expr(fn, types, x).errors = {} =>
                  /\ KnownType(check_expr(fn, types, x).type)
                  /\ Holds(v, check_expr(fn, types, x).type)

\* A name bound to a value of its type, over whatever it was.
LEMMA BindBound ==
    ASSUME NEW names, NEW types, Bound(names, types), NEW name, name \notin Capitals,
           NEW v, NEW type, KnownType(type), Holds(v, type)
    PROVE  Bound(Bind(names, name, v), Bind(types, name, type))
<1> DEFINE after == Bind(names, name, v)  known == Bind(types, name, type)
<1>1. /\ DOMAIN after = DOMAIN names \cup {name}
      /\ after[name] = v /\ \A n \in DOMAIN names : n # name => after[n] = names[n]
  BY DEF Bind
<1>2. /\ DOMAIN known = DOMAIN types \cup {name}
      /\ known[name] = type /\ \A n \in DOMAIN types : n # name => known[n] = types[n]
  BY DEF Bind
<1> HIDE DEF after, known
<1>3. \A n \in DOMAIN known : n \in DOMAIN after /\ KnownType(known[n]) /\ Holds(after[n], known[n])
  <2> SUFFICES ASSUME NEW n \in DOMAIN known
               PROVE  n \in DOMAIN after /\ KnownType(known[n]) /\ Holds(after[n], known[n])
    OBVIOUS
  <2>1. CASE n = name
    BY <1>1, <1>2, <2>1
  <2>2. CASE n # name
    BY <1>1, <1>2, <2>2 DEF Bound
  <2>3. QED
    BY <2>1, <2>2
<1>4. QED
  BY <1>2, <1>3 DEF Bound, known, after

\* The statement at the head is done, and binds nothing.
LEMMA AdvanceOver ==
    ASSUME RunsWell, UNCHANGED checkVars, UNCHANGED bodies, Top.todo # << >>, NEW names,
           Advance(names, << >>),
           \/ AtBody(bodies[Top.fn], typed[Top.fn], Tail(Top.todo), names)
           \/ AfterArm(bodies[Top.fn], typed[Top.fn], Tail(Top.todo), names)
    PROVE  SoundInv'
<1>1. IsSequence(Tail(Top.todo))
  <2>1. ShapeInv /\ Running
    BY DEF RunsWell
  <2>2. IsSequence(Top.todo)
    BY <2>1, TopIsFrame DEF IsFrame
  <2>3. QED
    BY <2>2, Tailed
<1>2. << >> \o Tail(Top.todo) = Tail(Top.todo)
  BY <1>1, EmptyBefore
<1>3. AreItems(<< >>)
  BY DEF AreItems
<1>4. Fitting(Top.fn, bodies[Top.fn], typed[Top.fn], << >> \o Tail(Top.todo), names)
  BY <1>2 DEF Fitting
<1>5. QED
  BY <1>3, <1>4, AdvanceFits

\* A `let` binds a value of the type that the checker has after it.
LEMMA LetFits ==
    ASSUME RunsWell, UNCHANGED checkVars, UNCHANGED bodies, Top.todo # << >>,
           Head(Top.todo).s = "let", NEW v, Suits(env, Top.fn, Head(Top.todo).value, v),
           Advance(Bind(env, Head(Top.todo).name, v), << >>)
    PROVE  SoundInv'
<1> DEFINE fn == Top.fn  st == Head(Top.todo)  body == bodies[fn]  typing == typed[fn]
<1>1. ShapeInv /\ Ordinary /\ fn \in DOMAIN Functions
  <2>1. ShapeInv /\ Running /\ Ordinary
    BY DEF RunsWell
  <2>2. QED
    BY <2>1, TopIsFrame DEF IsFrame
<1>2. PICK k \in 1..Len(body) : Ahead(fn, body, typing, st, Tail(Top.todo), env, k)
  BY HeadOfBody
<1>3. Len(body) \in Nat /\ \A i \in 1..Len(body) + 1 : DOMAIN typing[i] \cap Capitals = {}
  BY <1>1, OrdinaryIs
<1> HIDE DEF st, fn, body, typing
<1>4. /\ st = body[k] /\ Bound(env, typing[k]) /\ IsSimple(st)
      /\ Tail(Top.todo) = SubSeq(body, k + 1, Len(body))
      /\ check_simple(fn, typing[k], st).errors = {}
      /\ typing[k + 1] = check_simple(fn, typing[k], st).env
  BY <1>2 DEF Ahead, IsMatch, check_statement, st
<1> DEFINE type == check_expr(fn, typing[k], st.value).type
<1>5. typing[k + 1] = Bind(typing[k], st.name, type) /\ check_expr(fn, typing[k], st.value).errors = {}
  <2>1. st.s = "let"
    BY DEF st
  <2>2. check_simple(fn, typing[k], st).env = Bind(typing[k], st.name, type)
    BY <2>1 DEF check_simple, AfterValue, Checked
  <2>3. check_expr(fn, typing[k], st.value).errors = {}
    BY <1>4, SimpleChecked
  <2>4. QED
    BY <1>4, <2>2, <2>3
<1>6. KnownType(type) /\ Holds(v, type)
  BY <1>4, <1>5 DEF Suits, st, fn
<1> HIDE DEF type
<1>7. k + 1 \in 1..Len(body) + 1
  BY <1>3
<1>8. st.name \notin Capitals
  BY <1>3, <1>5, <1>7 DEF Bind
<1>9. Bound(Bind(env, st.name, v), typing[k + 1])
  BY <1>4, <1>5, <1>6, <1>8, BindBound
<1>10. AtBody(body, typing, Tail(Top.todo), Bind(env, st.name, v))
  BY <1>4, <1>7, <1>9 DEF AtBody
<1>11. QED
  BY <1>10, AdvanceOver DEF st, fn, body, typing

\* A return gives what the function declares.
LEMMA ReturnHolds ==
    ASSUME RunsWell, Top.todo # << >>, Head(Top.todo).s = "return",
           NEW v, Suits(env, Top.fn, Head(Top.todo).value, v)
    PROVE  returns(Top.fn) # NoReturnType /\ Holds(v, returns(Top.fn))
<1> DEFINE fn == Top.fn  st == Head(Top.todo)  body == bodies[fn]  expected == returns(fn)
<1>1. fn \in DOMAIN Functions
  <2>1. ShapeInv /\ Running
    BY DEF RunsWell
  <2>2. QED
    BY <2>1, TopIsFrame DEF IsFrame
<1>2. PICK types : Bound(env, types) /\ Accepts(fn, body, st, types)
  BY HeadSimple
<1> HIDE DEF st, fn, body
<1> DEFINE actual == check_expr(fn, types, st.value).type
<1>3. IsSimple(st) /\ check_simple(fn, types, st).errors = {} /\ actual # TObject
  BY <1>2 DEF Accepts, st
<1>4. check_expr(fn, types, st.value).errors = {} /\ check_return_type(fn, actual) = {}
  BY <1>3, SimpleChecked DEF st
<1>5. KnownType(actual) /\ Holds(v, actual)
  BY <1>2, <1>4 DEF Suits, st, fn
<1> HIDE DEF actual, expected
<1>6. expected # NoReturnType /\ return_accepts(expected, actual)
  BY <1>4 DEF check_return_type, expected
<1>7. DeclaredType(expected)
  BY <1>1, <1>6, DeclarationAssumption DEF expected
<1>8. \/ same_body_type(expected, actual)
      \/ IsResult(expected) /\ same_body_type(result_ok(expected), actual)
  BY <1>3, <1>6 DEF return_accepts, named_payload_accepts_object
<1>9. CASE same_body_type(expected, actual)
  <2>1. Holds(v, expected)
    BY <1>5, <1>7, <1>9, SameHolds
  <2>2. QED
    BY <1>6, <2>1 DEF expected, fn
<1>10. CASE IsResult(expected) /\ same_body_type(result_ok(expected), actual)
  <2>1. expected = TResult(expected[2], expected[3]) /\ PlainType(expected[2])
    BY <1>7, <1>10, PlainIs DEF DeclaredType
  <2>2. actual = expected[2]
    BY <1>5, <1>10, <2>1, SamePlain DEF result_ok
  <2>3. PlainHolds(v, expected[2])
    BY <1>5, <2>1, <2>2, HeldOf
  <2>4. Holds(v, expected)
    BY <1>10, <2>3 DEF Holds, result_ok
  <2>5. QED
    BY <1>6, <2>4 DEF expected, fn
<1>11. QED
  BY <1>8, <1>9, <1>10

\* An `ensure` goes on, or raises its error; its condition is a boolean.
LEMMA EnsureFits ==
    ASSUME RunsWell, UNCHANGED checkVars, UNCHANGED bodies, Top.todo # << >>,
           Head(Top.todo).s = "ensure", NEW v, Suits(env, Top.fn, Head(Top.todo).value, v),
           exec_ensure(Head(Top.todo), v)
    PROVE  SoundInv'
<1> DEFINE fn == Top.fn  st == Head(Top.todo)  body == bodies[fn]  typing == typed[fn]
           rest == Tail(Top.todo)  raise == [s |-> "raise", value |-> st.error]
<1>1. AtBody(body, typing, rest, env) \/ AfterArm(body, typing, rest, env)
  BY HeadSimple
<1>2. PICK types : Bound(env, types) /\ Accepts(fn, body, st, types)
  BY HeadSimple
<1>3. IsSequence(rest)
  <2>1. ShapeInv /\ Running
    BY DEF RunsWell
  <2>2. IsSequence(Top.todo)
    BY <2>1, TopIsFrame DEF IsFrame
  <2>3. QED
    BY <2>2, Tailed
<1>4. raise.s = "raise" /\ raise.value = st.error
  OBVIOUS
<1>5. \/ v \in {Bool(TRUE), Json(JBool(TRUE))} /\ Advance(env, << >>)
      \/ v \in {Bool(FALSE), Json(JBool(FALSE))} /\ Advance(env, <<raise>>)
      \/ v \notin {Bool(b) : b \in BOOLEAN} \cup {Json(JBool(b)) : b \in BOOLEAN}
  BY DEF exec_ensure
<1> HIDE DEF st, fn, body, typing, rest, raise
<1>6. /\ IsSimple(st) /\ check_simple(fn, types, st).errors = {} /\ st \in StatementsIn(body)
      /\ st.s = "ensure"
  BY <1>2 DEF Accepts, st
<1> DEFINE value == check_expr(fn, types, st.value)  error == check_expr(fn, types, st.error)
<1>7. /\ value.errors = {} /\ expect_exact_type(value.type, TBool) = {}
      /\ IsResult(returns(fn)) /\ error.errors = {}
      /\ expect_exact_type(error.type, result_error(returns(fn))) = {}
  <2> HIDE DEF value, error
  <2>1. value.errors = {}
    BY <1>6, SimpleChecked DEF value
  <2>2. check_simple(fn, types, st) = Checked(types, check_ensure_statement(fn, value, error))
    BY <1>6 DEF check_simple, AfterValue, value, error
  <2>3. check_ensure_statement(fn, value, error) = {}
    BY <1>6, <2>2 DEF Checked
  <2>4. /\ Expecting(value, TBool) = {} /\ error.errors = {}
        /\ (IF IsResult(returns(fn)) THEN expect_exact_type(error.type, result_error(returns(fn)))
            ELSE {"E_BODY_0017"}) = {}
    BY <2>3 DEF check_ensure_statement
  <2>5. QED
    BY <2>1, <2>4 DEF Expecting
<1>8. KnownType(value.type) /\ Holds(v, value.type)
  BY <1>2, <1>7 DEF Suits, st, fn
<1>9. Raising(fn, body, <<raise>> \o rest, env)
  <2>1. /\ <<raise>> \o rest # << >> /\ Head(<<raise>> \o rest) = raise
    BY <1>3, Prefixed
  <2>2. IsExpr(raise.value)
    BY <1>4, <1>6 DEF IsSimple
  <2> HIDE DEF value
  <2> DEFINE todo == <<raise>> \o rest
  <2> HIDE DEF todo
  <2>3. todo # << >> /\ Head(todo).s = "raise" /\ Head(todo).value = st.error /\ IsExpr(Head(todo).value)
    BY <1>4, <2>1, <2>2 DEF todo
  <2>4. Raising(fn, body, todo, env)
    BY <1>2, <1>6, <1>7, <2>3 DEF Raising
  <2>5. QED
    BY <2>4 DEF todo
<1> HIDE DEF value, error
<1>10. value.type = TBool
  <2>1. PlainType(TBool)
    BY DEF PlainType
  <2>2. QED
    BY <1>7, <1>8, <2>1, ExpectedIs
<1>11. v \in {Bool(b) : b \in BOOLEAN} \cup {Json(JBool(b)) : b \in BOOLEAN}
  <2>1. Holds(v, TBool)
    BY <1>8, <1>10
  <2>2. QED
    BY <2>1, HeldBool
<1>12. CASE Advance(env, << >>)
  BY <1>1, <1>12, AdvanceOver DEF fn, body, typing, rest
<1>13. CASE Advance(env, <<raise>>)
  <2>1. IsItem(raise)
    BY <1>4, <1>6 DEF IsItem, IsSimple
  <2>2. AreItems(<<raise>>)
    BY <2>1 DEF AreItems
  <2>3. Fitting(fn, body, typing, <<raise>> \o rest, env)
    BY <1>9 DEF Fitting
  <2>4. QED
    BY <1>13, <2>2, <2>3, AdvanceFits DEF fn, body, typing, rest
<1>14. QED
  BY <1>5, <1>11, <1>12, <1>13

\* A value of a type that is no enum is no enum value.
LEMMA NoEnumHeld ==
    ASSUME NEW type, PlainType(type), ~IsEnum(type), NEW v, PlainHolds(v, type)
    PROVE  v[1] # "Enum"
<1>1. DataHolds(v, type) /\ type # TUnknown
  BY PlainIs DEF PlainHolds
<1>2. \/ v = Unit \/ v = HttpResponse \/ IsJson(v) \/ \E b \in BOOLEAN : v = Bool(b)
  BY <1>1 DEF DataHolds
<1>3. QED
  BY <1>2 DEF Unit, HttpResponse, IsJson, Json, Bool

\* An error is raised of the enum that the function declares.
LEMMA RaiseFits ==
    ASSUME RunsWell, UNCHANGED checkVars, UNCHANGED bodies, Top.todo # << >>,
           Head(Top.todo).s = "raise", NEW v, Suits(env, Top.fn, Head(Top.todo).value, v),
           End(IF v[1] = "Enum" THEN Raised(v) ELSE Failed("ExpectedEnum", Head(Top.todo).value))
    PROVE  SoundInv'
<1> DEFINE fn == Top.fn  x == Head(Top.todo).value  type == result_error(returns(fn))
<1>1. /\ ShapeInv /\ Running /\ Ordinary
      /\ ~Untested => ErrorsFit(stack)
      /\ \E entry \in EntriesHere : entry.fn = stack[1].fn
  BY DEF RunsWell, RunFits
<1>2. fn \in DOMAIN Functions
  BY <1>1, TopIsFrame DEF IsFrame
<1>3. Len(stack) \in 1..Len(stack) /\ Top = stack[Len(stack)]
  BY <1>1, StackIs
<1>4. Raising(fn, bodies[fn], Top.todo, env)
  BY HeadRaises
<1> HIDE DEF fn, x
<1>5. IsResult(returns(fn))
  BY <1>4 DEF Raising
<1>6. PICK types : /\ Bound(env, types) /\ check_expr(fn, types, x).errors = {}
                   /\ expect_exact_type(check_expr(fn, types, x).type, type) = {}
  BY <1>4 DEF Raising, x
<1>7. KnownType(check_expr(fn, types, x).type) /\ Holds(v, check_expr(fn, types, x).type)
  BY <1>6 DEF Suits, x, fn
<1>8. PlainType(type)
  <2>1. DeclaredType(returns(fn))
    BY <1>2, <1>5, DeclarationAssumption DEF IsResult, NoReturnType
  <2>2. QED
    BY <1>5, <2>1, PlainIs DEF DeclaredType, result_error
<1> HIDE DEF type
<1>9. PlainHolds(v, type)
  <2>1. check_expr(fn, types, x).type = type
    BY <1>6, <1>7, <1>8, ExpectedIs
  <2>2. Holds(v, type)
    BY <1>7, <2>1
  <2>3. QED
    BY <1>8, <2>2, HeldOf
<1>10. CASE v[1] = "Enum"
  <2>1. End(Raised(v))
    BY <1>10
  <2>2. IsEnum(type)
    BY <1>8, <1>9, <1>10, NoEnumHeld
  <2>3. EnumHolds(v, type[2])
    BY <1>9, <2>2 DEF PlainHolds
  <2>4. Raised(v).is = "raised" /\ Raised(v).error = v
    BY DEF Raised
  <2>5. PICK entry \in EntriesHere : entry.fn = stack[1].fn
    BY <1>1
  <2>6. ~Untested => IsResult(returns(entry.fn)) /\ result_error(returns(entry.fn)) = type
    BY <1>1, <1>3, <1>5, <2>5 DEF ErrorsFit, SameErrors, type, fn
  <2>7. Ended(Raised(v))
    BY <2>3, <2>4, <2>5, <2>6 DEF Ended
  <2>8. QED
    BY <1>1, <2>1, <2>7, EndFits
<1>11. CASE v[1] # "Enum"
  <2> DEFINE result == Failed("ExpectedEnum", x)
  <2>1. End(result)
    BY <1>11 DEF x
  <2>2. ~IsEnum(type)
    BY <1>9, <1>11 DEF PlainHolds, EnumHolds
  <2>3. result.is = "failed" /\ result.kind = "ExpectedEnum"
    BY DEF Failed
  <2> HIDE DEF result
  <2>4. KnownFailure(result)
    BY <1>2, <1>5, <2>2, <2>3 DEF KnownFailure, type
  <2>5. Ended(result)
    BY <2>3, <2>4 DEF Ended
  <2>6. QED
    BY <1>1, <2>1, <2>5, EndFits
<1>12. QED
  BY <1>10, <1>11

\* An object in an arm was one before it: no payload is an object.
LEMMA ObjectsInArm ==
    ASSUME NEW type, IsEnum(type), NEW outer, NEW types, SameTypes(outer, types), NEW arm,
           IsSequence(arm.bindings), bind_arm(type, outer, arm).errors = {}
    PROVE  LET b == bind_arm(type, outer, arm)
           IN \A name \in DOMAIN b.env :
                 b.env[name] = TObject => name \in DOMAIN types /\ types[name] = TObject
<1> DEFINE b == bind_arm(type, outer, arm)  payload == Enums[type[2]][arm.variant]
<1>1. type[2] \in DOMAIN Enums /\ arm.variant \in DOMAIN Enums[type[2]]
  <2>1. arm.variant \in DOMAIN Enums[type[2]]
    BY DEF bind_arm
  <2>2. QED
    BY <2>1 DEF IsEnum
<1>2. IsSequence(payload) /\ \A i \in DOMAIN payload : payload[i] # TObject
  BY <1>1, DeclarationAssumption, DataIs
<1>3. /\ b.names = {arm.bindings[i] : i \in 1..Len(payload)}
      /\ \A i \in 1..Len(payload) : b.env[arm.bindings[i]] = payload[i]
  BY <1>2, BindingsAre
<1>4. /\ DOMAIN b.env = DOMAIN outer \cup b.names
      /\ \A name \in DOMAIN outer \ b.names : b.env[name] = outer[name]
  BY BindArmIs
<1>5. DOMAIN payload = 1..Len(payload)
  BY <1>2, SequenceFacts
<1> HIDE DEF b, payload
<1>6. ASSUME NEW name \in DOMAIN b.env, b.env[name] = TObject
      PROVE  name \in DOMAIN types /\ types[name] = TObject
  <2>1. name \notin b.names
    BY <1>2, <1>3, <1>5, <1>6
  <2>2. name \in DOMAIN outer /\ outer[name] = TObject
    BY <1>4, <1>6, <2>1
  <2>3. QED
    BY <2>2 DEF SameTypes
<1>7. QED
  BY <1>6 DEF b

\* The arm that is taken, with the names that it binds and the names that come back.
LEMMA ArmFits ==
    ASSUME RunsWell, NEW k \in 1..Len(bodies[Top.fn]), NEW rest, NEW st, st.s = "match",
           Ahead(Top.fn, bodies[Top.fn], typed[Top.fn], st, rest, env, k),
           NEW v, Suits(env, Top.fn, st.value, v)
    PROVE  /\ v[1] = "Enum" /\ v[3] \in {st.arms[j].variant : j \in DOMAIN st.arms}
           /\ \A j \in DOMAIN st.arms : st.arms[j].variant = v[3] =>
                 LET arm == st.arms[j]  bound == bind_match_payload(arm.bindings, v[4])
                 IN /\ \E types : /\ Bound(bound.names, types)
                                  /\ Accepts(Top.fn, bodies[Top.fn], arm.body, types)
                    /\ Bound(Restored(bound.names, bound.previous), typed[Top.fn][k + 1])
<1> DEFINE fn == Top.fn  body == bodies[fn]  typing == typed[fn]  types == typing[k]
           matched == check_expr(fn, types, st.value)
           after == check_match_statement(fn, types, st)
<1>0. ShapeInv /\ Ordinary
  BY DEF RunsWell
<1>1. /\ IsMatch(st) /\ fn \in DOMAIN Functions /\ st = body[k] /\ Bound(env, types)
      /\ \A j \in DOMAIN st.arms : st.arms[j].body.s # "let"
      /\ after.errors = {} /\ typing[k + 1] = after.env
  <2> HIDE DEF fn, body, typing, types, matched, after
  <2>1. IsMatch(st)
    BY MatchAhead
  <2>2. Top.fn \in DOMAIN Functions /\ st = bodies[Top.fn][k]
    BY MatchAhead
  <2>3. Bound(env, typed[Top.fn][k])
    BY MatchAhead
  <2>4. \A j \in DOMAIN st.arms : st.arms[j].body.s # "let"
    BY MatchAhead
  <2>5. check_match_statement(Top.fn, typed[Top.fn][k], st).errors = {}
    BY MatchAhead
  <2>6. typed[Top.fn][k + 1] = check_match_statement(Top.fn, typed[Top.fn][k], st).env
    BY MatchAhead
  <2>7. QED
    BY <2>1, <2>2, <2>3, <2>4, <2>5, <2>6 DEF fn, body, typing, types, after
<1>2. k \in DOMAIN body
  BY <1>0, <1>1, OrdinaryIs
<1>3. /\ \A j \in DOMAIN st.arms : /\ st.arms[j].body \in StatementsIn(body)
                                   /\ st.arms[j].body \in StatementsAt(fn, k)
  BY <1>1, <1>2, StatementsOfIs
<1>4. \A s \in StatementsAt(fn, k) : s.s = "return" => check_expr(fn, types, s.value).type # TObject
  BY <1>0, <1>1, OrdinaryIs, SMTT(30)
<1>5. \A j \in DOMAIN st.arms : Range(st.arms[j].bindings) \cap Capitals = {}
  BY <1>0, <1>1, OrdinaryIs
<1>6. Suits(env, fn, st.value, v)
  OBVIOUS
<1> HIDE DEF fn, body, typing, types, after
<1>7. /\ matched.errors = {} /\ IsEnum(matched.type) /\ SameTypes(after.env, types)
      /\ DOMAIN Enums[matched.type[2]] \subseteq {st.arms[j].variant : j \in DOMAIN st.arms}
      /\ \A j \in DOMAIN st.arms : \E outer :
            /\ SameTypes(outer, types)
            /\ bind_arm(matched.type, outer, st.arms[j]).errors = {}
            /\ check_simple(fn, bind_arm(matched.type, outer, st.arms[j]).env,
                            st.arms[j].body).errors = {}
  <2>1. check_match_statement(fn, types, st).errors = {}
    BY <1>1 DEF after
  <2>2. /\ matched.errors = {} /\ IsEnum(matched.type)
        /\ SameTypes(check_match_statement(fn, types, st).env, types)
        /\ DOMAIN Enums[matched.type[2]] \subseteq {st.arms[j].variant : j \in DOMAIN st.arms}
        /\ \A j \in DOMAIN st.arms : \E outer :
              /\ SameTypes(outer, types)
              /\ bind_arm(matched.type, outer, st.arms[j]).errors = {}
              /\ check_simple(fn, bind_arm(matched.type, outer, st.arms[j]).env,
                              st.arms[j].body).errors = {}
    <3>1. IsMatch(st) /\ \A j \in DOMAIN st.arms : st.arms[j].body.s # "let"
      BY <1>1
    <3>2. QED
      BY <2>1, <3>1, MatchAccepted
  <2>3. QED
    BY <2>2 DEF after
<1>8. Holds(v, matched.type)
  BY <1>1, <1>6, <1>7 DEF Suits
<1> HIDE DEF matched
<1> DEFINE type == matched.type  payload == Enums[type[2]][v[3]]
<1>9. EnumHolds(v, type[2])
  <2>1. ~IsResult(type)
    BY <1>7 DEF IsEnum, IsResult
  <2>2. QED
    BY <1>7, <1>8, <2>1 DEF Holds, PlainHolds
<1>10. v[1] = "Enum" /\ v[3] \in DOMAIN Enums[type[2]] /\ Len(v[4]) = Len(payload)
  BY <1>9 DEF EnumHolds
<1>11. ASSUME NEW j \in DOMAIN st.arms, st.arms[j].variant = v[3]
       PROVE  LET arm == st.arms[j]  bound == bind_match_payload(arm.bindings, v[4])
              IN /\ \E inner : Bound(bound.names, inner) /\ Accepts(fn, body, arm.body, inner)
                 /\ Bound(Restored(bound.names, bound.previous), typing[k + 1])
  <2> DEFINE arm == st.arms[j]  bound == bind_match_payload(arm.bindings, v[4])
  <2>1. IsSequence(arm.bindings) /\ IsSimple(arm.body) /\ arm.body.s # "let"
    BY <1>1, <1>11 DEF IsMatch
  <2>2. PICK outer : /\ SameTypes(outer, types)
                     /\ bind_arm(type, outer, arm).errors = {}
                     /\ check_simple(fn, bind_arm(type, outer, arm).env, arm.body).errors = {}
    BY <1>7
  <2>3. /\ arm.variant = v[3] /\ arm.body \in StatementsIn(body)
        /\ arm.body.s = "return" => check_expr(fn, types, arm.body.value).type # TObject
        /\ {arm.bindings[i] : i \in DOMAIN arm.bindings} \cap Capitals = {}
    BY <1>3, <1>4, <1>5, <1>11 DEF Range
  <2>4. type[2] \in DOMAIN Enums
    BY <1>7 DEF IsEnum
  <2>5. IsSequence(payload)
    BY <1>10, <2>4, DeclarationAssumption
  <2>6. Bound(env, outer)
    BY <1>1, <2>2, BoundSame
  <2>7. IsEnum(type)
    BY <1>7
  <2> HIDE DEF arm, type
  <2>8. Bound(bound.names, bind_arm(type, outer, arm).env)
    BY <1>9, <2>1, <2>2, <2>3, <2>6, <2>7, EnterArm
  <2>9. /\ Len(arm.bindings) = Len(payload)
        /\ \A i, l \in 1..Len(payload) : arm.bindings[i] = arm.bindings[l] => i = l
    BY <2>1, <2>2, <2>3, <2>5, <2>7, BindingsAre
  <2>10. Bound(Restored(bound.names, bound.previous), types)
    <3> DEFINE bindings == arm.bindings  values == v[4]
    <3>1. IsSequence(bindings) /\ Len(values) = Len(bindings) /\ Distinct(bindings, Len(bindings))
      BY <1>10, <2>1, <2>9 DEF Distinct
    <3> HIDE DEF bindings, values
    <3>2. Bound(Restored(bind_match_payload(bindings, values).names,
                         bind_match_payload(bindings, values).previous), types)
      BY <1>1, <3>1, ArmRestores
    <3>3. QED
      BY <3>2 DEF bindings, values
  <2> HIDE DEF bound
  <2>11. Bound(Restored(bound.names, bound.previous), typing[k + 1])
    BY <1>1, <1>7, <2>10, BoundSame
  <2> DEFINE inner == bind_arm(type, outer, arm).env
  <2>12. arm.body.s = "return" => check_expr(fn, inner, arm.body.value).type # TObject
    <3> SUFFICES ASSUME arm.body.s = "return", check_expr(fn, inner, arm.body.value).type = TObject
                 PROVE  FALSE
      OBVIOUS
    <3>1. \A name \in DOMAIN inner : inner[name] = TObject => name \in DOMAIN types /\ types[name] = TObject
      BY <2>1, <2>2, <2>7, ObjectsInArm
    <3> HIDE DEF inner
    <3>2. AllKnown(inner)
      BY <2>8 DEF AllKnown, Bound, inner
    <3>3. check_expr(fn, inner, arm.body.value).errors = {}
      BY <2>1, <2>2, SimpleChecked DEF inner
    <3>4. IsExpr(arm.body.value)
      BY <2>1 DEF IsSimple
    <3>5. check_expr(fn, types, arm.body.value).type = TObject
      BY <3>1, <3>2, <3>3, <3>4, ObjectElsewhere
    <3>6. QED
      BY <2>3, <3>5
  <2>13. Accepts(fn, body, arm.body, inner)
    <3> HIDE DEF inner
    <3>1. check_simple(fn, inner, arm.body).errors = {}
      BY <2>2 DEF inner
    <3>2. QED
      BY <2>1, <2>3, <2>12, <3>1 DEF Accepts
  <2> HIDE DEF inner
  <2>14. Bound(bound.names, inner)
    BY <2>8 DEF inner
  <2>15. QED
    BY <2>11, <2>13, <2>14 DEF arm, bound
<1>12. v[3] \in {st.arms[j].variant : j \in DOMAIN st.arms}
  BY <1>7, <1>10
<1>13. QED
  BY <1>10, <1>11, <1>12 DEF fn, body, typing

\* A match takes an arm, with its names bound and what they hid kept.
LEMMA MatchFits ==
    ASSUME RunsWell, UNCHANGED checkVars, UNCHANGED bodies, Top.todo # << >>,
           Head(Top.todo).s = "match", NEW v, Suits(env, Top.fn, Head(Top.todo).value, v),
           exec_match(Head(Top.todo), v)
    PROVE  SoundInv'
<1> DEFINE fn == Top.fn  st == Head(Top.todo)  body == bodies[fn]  typing == typed[fn]
           rest == Tail(Top.todo)
           fit == {k \in DOMAIN st.arms : st.arms[k].variant = v[3]}
           arm == st.arms[First(fit)]  bound == bind_match_payload(arm.bindings, v[4])
           names == bound.names  restore == [s |-> "restore", previous |-> bound.previous]
<1>1. PICK k \in 1..Len(body) : Ahead(fn, body, typing, st, rest, env, k)
  BY HeadOfBody
<1>2. /\ v[1] = "Enum" /\ v[3] \in {st.arms[j].variant : j \in DOMAIN st.arms}
      /\ \A j \in DOMAIN st.arms : st.arms[j].variant = v[3] =>
            /\ \E types : /\ Bound(bind_match_payload(st.arms[j].bindings, v[4]).names, types)
                          /\ Accepts(fn, body, st.arms[j].body, types)
            /\ Bound(Restored(bind_match_payload(st.arms[j].bindings, v[4]).names,
                              bind_match_payload(st.arms[j].bindings, v[4]).previous), typing[k + 1])
  BY <1>1, ArmFits
<1>3. /\ IsMatch(st) /\ fn \in DOMAIN Functions
  BY <1>1, MatchAhead
<1>4. rest = SubSeq(body, k + 1, Len(body))
  BY <1>1 DEF Ahead
<1>5. fit # {}
  BY <1>2
<1>6. First(fit) \in DOMAIN st.arms /\ arm.variant = v[3] /\ IsSimple(arm.body)
  <2>1. DOMAIN st.arms = 1..Len(st.arms)
    BY <1>3, SequenceFacts DEF IsMatch
  <2>2. fit \subseteq Nat
    BY <1>3, <2>1, SequenceFacts DEF IsMatch
  <2>3. First(fit) \in fit
    <3> HIDE DEF fit
    <3>1. QED
      BY <1>5, <2>2, FirstOf
  <2>4. QED
    BY <1>3, <2>1, <2>3 DEF IsMatch
<1>7. Advance(names, <<arm.body, restore>>)
  BY <1>2, <1>5 DEF exec_match
<1>8. restore.s = "restore" /\ restore.previous = bound.previous
  OBVIOUS
<1>9. /\ \E types : Bound(names, types) /\ Accepts(fn, body, arm.body, types)
      /\ Bound(Restored(names, restore.previous), typing[k + 1])
  BY <1>2, <1>6, <1>8
<1>10. IsSequence(rest) /\ Len(body) \in Nat
  <2>1. ShapeInv /\ Running /\ Ordinary
    BY DEF RunsWell
  <2>2. IsSequence(Top.todo)
    BY <2>1, TopIsFrame DEF IsFrame
  <2>3. QED
    BY <1>3, <2>1, <2>2, Tailed, OrdinaryIs
<1> HIDE DEF fn, st, body, typing, rest, fit, arm, bound, names, restore
<1> DEFINE body_ == arm.body  tail == <<restore>> \o rest  todo == <<body_>> \o tail
<1>11. AfterArm(body, typing, tail, names)
  <2>1. tail # << >> /\ Head(tail) = restore /\ Tail(tail) = rest
    BY <1>10, Prefixed
  <2>2. k + 1 \in 1..Len(body) + 1
    BY <1>10
  <2>3. AtBody(body, typing, rest, Restored(names, restore.previous))
    BY <1>4, <1>9, <2>2 DEF AtBody
  <2> HIDE DEF tail
  <2>4. QED
    BY <1>8, <2>1, <2>3 DEF AfterArm
<1>12. Fitting(fn, body, typing, todo, names)
  <2>1. IsSequence(tail)
    BY <1>10, Prefixed
  <2> HIDE DEF tail, body_
  <2>2. todo # << >> /\ Head(todo) = body_ /\ Tail(todo) = tail
    BY <2>1, Prefixed
  <2> HIDE DEF todo
  <2>3. InArm(fn, body, typing, todo, names)
    BY <1>9, <1>11, <2>2 DEF InArm, body_
  <2>4. QED
    BY <2>3 DEF Fitting
<1>13. <<arm.body, restore>> \o rest = todo
  BY <1>10, Prefixed2
<1>14. AreItems(<<arm.body, restore>>)
  <2>1. IsItem(arm.body) /\ IsItem(restore)
    BY <1>6, <1>8 DEF IsItem
  <2>2. QED
    BY <2>1 DEF AreItems
<1> HIDE DEF todo
<1>15. Fitting(fn, body, typing, <<arm.body, restore>> \o rest, names)
  BY <1>12, <1>13
<1>16. QED
  BY <1>7, <1>14, <1>15, AdvanceFits DEF fn, body, typing, rest

\* Whatever the statement does with a value that suits its expression.
LEMMA CompleteFits ==
    ASSUME RunsWell, UNCHANGED checkVars, UNCHANGED bodies, Top.todo # << >>,
           Head(Top.todo).s # "restore", NEW v, Suits(env, Top.fn, Head(Top.todo).value, v),
           Complete(Head(Top.todo), v)
    PROVE  SoundInv'
<1> DEFINE st == Head(Top.todo)
<1>1. st.s \in {"let", "expr", "return", "ensure", "raise", "match"}
  <2>1. ShapeInv /\ Running
    BY DEF RunsWell
  <2>2. IsItem(st)
    BY <2>1, TopIsFrame
  <2>3. QED
    BY <2>2 DEF IsItem, IsSimple, IsMatch
<1>2. CASE st.s = "let"
  <2>1. Advance(Bind(env, st.name, v), << >>)
    BY <1>2 DEF Complete
  <2>2. QED
    BY <1>2, <2>1, LetFits
<1>3. CASE st.s = "expr"
  <2>1. Advance(env, << >>)
    BY <1>3 DEF Complete
  <2>2. \/ AtBody(bodies[Top.fn], typed[Top.fn], Tail(Top.todo), env)
        \/ AfterArm(bodies[Top.fn], typed[Top.fn], Tail(Top.todo), env)
    BY <1>3, HeadSimple
  <2>3. QED
    BY <2>1, <2>2, AdvanceOver
<1>4. CASE st.s = "return"
  <2>1. exec_return(v)
    BY <1>4 DEF Complete
  <2>2. returns(Top.fn) # NoReturnType /\ Holds(v, returns(Top.fn))
    BY <1>4, ReturnHolds
  <2>3. QED
    BY <2>1, <2>2, ReturnFits
<1>5. CASE st.s = "ensure"
  <2>1. exec_ensure(st, v)
    BY <1>5 DEF Complete
  <2>2. QED
    BY <1>5, <2>1, EnsureFits
<1>6. CASE st.s = "raise"
  <2>1. End(IF v[1] = "Enum" THEN Raised(v) ELSE Failed("ExpectedEnum", st.value))
    BY <1>6 DEF Complete
  <2>2. QED
    BY <1>6, <2>1, RaiseFits
<1>7. CASE st.s = "match"
  <2>1. exec_match(st, v)
    BY <1>7 DEF Complete
  <2>2. QED
    BY <1>7, <2>1, MatchFits
<1>8. QED
  BY <1>1, <1>2, <1>3, <1>4, <1>5, <1>6, <1>7

\* A statement whose expression calls no function.
LEMMA StatementFits ==
    ASSUME RunsWell, UNCHANGED checkVars, exec_stmt
    PROVE  SoundInv'
<1> DEFINE fn == Top.fn  x == Head(Top.todo).value
<1>1. /\ Top.todo # << >> /\ Head(Top.todo).s # "restore" /\ bodies' = bodies
      /\ ~IsUserCall(Untried(x))
  BY DEF exec_stmt, AtStatement
<1>2. PICK result \in eval_expr(env, Untried(x)) :
         IF IsValue(result) THEN Complete(Head(Top.todo), result.value) ELSE End(result)
  BY DEF exec_stmt
<1>3. /\ IsExpr(x)
      /\ \E types : Bound(env, types) /\ check_expr(fn, types, x).errors = {}
  BY <1>1, HeadTyped
<1> HIDE DEF fn, x
<1>4. \A types : Bound(env, types) /\ check_expr(fn, types, x).errors = {} =>
         /\ KnownType(check_expr(fn, types, x).type)
         /\ Fits(result, check_expr(fn, types, x).type)
  BY <1>1, <1>2, <1>3, ExprSound
<1>5. CASE IsValue(result)
  <2>1. \A type : Fits(result, type) => Holds(result.value, type)
    BY <1>5 DEF Fits, Stop, KnownFailure, IsValue
  <2>2. Suits(env, fn, x, result.value)
    BY <1>4, <2>1 DEF Suits
  <2>3. QED
    BY <1>1, <1>2, <1>5, <2>2, CompleteFits DEF fn, x
<1>6. CASE ~IsValue(result)
  <2>1. Stop(result)
    BY <1>3, <1>4, <1>6 DEF Fits
  <2>2. Ended(result)
    BY <2>1, StopEnds
  <2>3. QED
    BY <1>1, <1>2, <1>6, <2>2, EndFits DEF RunsWell
<1>7. QED
  BY <1>5, <1>6

\* The frame on top fits.
LEMMA TopFits ==
    ASSUME RunsWell
    PROVE  /\ Fitting(Top.fn, bodies[Top.fn], typed[Top.fn], Top.todo, env)
           /\ GotFits(Top)
<1>1. ShapeInv /\ Running /\ FramesFit(stack, env, bodies, typed)
  BY DEF RunsWell, RunFits
<1>2. Len(stack) \in 1..Len(stack) /\ Top = stack[Len(stack)]
  BY <1>1, StackIs
<1>3. NamesIn(stack, env, Len(stack)) = env
  BY DEF NamesIn
<1>4. QED
  BY <1>1, <1>2, <1>3 DEF FramesFit

\* The caller goes on with what the call returned.
LEMMA ResumeFits ==
    ASSUME RunsWell, UNCHANGED checkVars, Resume
    PROVE  SoundInv'
<1> DEFINE fn == Top.fn  x == Head(Top.todo).value
<1>1. ShapeInv /\ Running /\ Top.got # {} /\ bodies' = bodies
  BY DEF RunsWell, Resume
<1>2. Top.todo # << >> /\ Head(Top.todo).s # "restore" /\ IsUserCall(Untried(x))
  BY <1>1, TopIsFrame DEF Calls
<1>3. PICK v \in Top.got : Complete(Head(Top.todo), v)
  BY DEF Resume
<1>4. GotFits(Top)
  BY TopFits
<1>5. PICK callee \in DOMAIN Functions :
         WaitsFor(Top, callee) /\ returns(callee) # NoReturnType /\ Holds(v, returns(callee))
  BY <1>3, <1>4 DEF GotFits
<1>6. Untried(x).callee[1] = callee
  BY <1>5 DEF WaitsFor, CalleeOf
<1>7. IsExpr(x)
  BY <1>2, HeadTyped
<1> HIDE DEF fn, x
<1>8. Suits(env, fn, x, v)
  <2> SUFFICES ASSUME NEW types, check_expr(fn, types, x).errors = {}
               PROVE  /\ KnownType(check_expr(fn, types, x).type)
                      /\ Holds(v, check_expr(fn, types, x).type)
    BY DEF Suits
  <2>1. returns(Untried(x).callee[1]) # NoReturnType /\ Holds(v, returns(Untried(x).callee[1]))
    BY <1>5, <1>6
  <2>2. QED
    BY <1>2, <1>7, <2>1, CallReturns
<1>9. QED
  BY <1>1, <1>2, <1>3, <1>8, CompleteFits DEF fn, x

\* An arm is done, and the names of before it come back.
LEMMA LeaveFits ==
    ASSUME RunsWell, UNCHANGED checkVars, LeaveArm
    PROVE  SoundInv'
<1> DEFINE fn == Top.fn  body == bodies[fn]  typing == typed[fn]  todo == Top.todo
           previous == Head(Top.todo).previous
<1>1. /\ Top.todo # << >> /\ Head(Top.todo).s = "restore" /\ bodies' = bodies
      /\ Advance(Restored(env, previous), << >>)
  BY RestoredIs DEF LeaveArm
<1>2. Fitting(fn, body, typing, todo, env)
  BY TopFits
<1>3. ShapeInv /\ Running
  BY DEF RunsWell
<1>4. fn \in DOMAIN Functions
  BY <1>3, TopIsFrame DEF IsFrame
<1>5. IsSequence(body) /\ \A i \in 1..Len(body) : IsSimple(body[i]) \/ IsMatch(body[i])
  BY <1>3, <1>4, CheckedAssumption DEF ShapeInv, ModuleInv
<1> HIDE DEF fn, body, typing, todo, previous
<1>6. ~AtBody(body, typing, todo, env)
  <2> SUFFICES ASSUME NEW k \in 1..Len(body) + 1, todo = SubSeq(body, k, Len(body)) PROVE FALSE
    BY DEF AtBody
  <2>1. Len(body) \in Nat
    BY <1>5, SequenceFacts
  <2>2. Len(todo) = Len(body) - k + 1 /\ IsSequence(todo)
    BY <1>5, Suffix
  <2>3. Len(todo) # 0
    BY <1>1, <2>2, SequenceFacts DEF todo
  <2>4. k \in 1..Len(body)
    BY <2>1, <2>2, <2>3
  <2>5. Head(todo) = body[k]
    BY <1>5, <2>1, <2>4, Suffix
  <2>6. Head(todo).s # "restore"
    BY <1>5, <2>4, <2>5 DEF IsSimple, IsMatch
  <2>7. QED
    BY <1>1, <2>6 DEF todo
<1>7. ~InArm(fn, body, typing, todo, env) /\ ~Raising(fn, body, todo, env)
  BY <1>1 DEF InArm, Accepts, IsSimple, Raising, todo
<1>8. AtBody(body, typing, Tail(todo), Restored(env, previous))
  BY <1>2, <1>6, <1>7 DEF Fitting, AfterArm, previous, todo
<1>9. QED
  BY <1>1, <1>8, AdvanceOver DEF fn, body, typing, todo

\* The end of the statements is a known failure.
LEMMA FallFits ==
    ASSUME RunsWell, UNCHANGED checkVars, FallOff
    PROVE  SoundInv'
<1> DEFINE result == Failed("MissingReturn", Path(<<Top.fn>>))
<1>1. End(result) /\ bodies' = bodies
  BY DEF FallOff
<1>2. result.is = "failed" /\ result.kind = "MissingReturn"
  BY DEF Failed
<1> HIDE DEF result
<1>3. Ended(result)
  BY <1>2 DEF Ended, KnownFailure
<1>4. QED
  BY <1>1, <1>3, EndFits DEF RunsWell

\* A function whose body is none is not entered.
LEMMA UnsupportedEnds ==
    ASSUME Ordinary, UNCHANGED checkVars, UNCHANGED bodies, NEW place,
           End(Failed("UnsupportedBody", place))
    PROVE  SoundInv'
<1> DEFINE result == Failed("UnsupportedBody", place)
<1>1. result.is = "failed" /\ result.kind = "UnsupportedBody"
  BY DEF Failed
<1>2. End(result)
  OBVIOUS
<1> HIDE DEF result
<1>3. Ended(result)
  BY <1>1 DEF Ended, KnownFailure
<1>4. QED
  BY <1>2, <1>3, EndFits

\* What a function is entered with: its names have the types of its parameters.
LEMMA EntersAtBody ==
    ASSUME ShapeInv, ModuleChecked, Ordinary, Accepted,
           NEW fn \in DOMAIN Functions, NEW args, IsSequence(args),
           Len(args) = Len(Functions[fn].params),
           \A i \in DOMAIN Functions[fn].params : Holds(args[i], Functions[fn].params[i].type)
    PROVE  Fitting(fn, bodies[fn], typed[fn], bodies[fn], Given(fn, args))
<1> DEFINE body == bodies[fn]  typing == typed[fn]
<1>1. /\ IsSequence(body) /\ Len(body) \in Nat /\ DOMAIN Enums \subseteq Capitals
      /\ \A k \in 1..Len(body) + 1 : DOMAIN typing[k] \cap Capitals = {}
  BY OrdinaryIs DEF ShapeInv, ModuleInv
<1>2. typing[1] = ParamTypes(fn)
  BY DEF ModuleChecked, Accepted, BodyChecked
<1> HIDE DEF body, typing
<1>3. 1 \in 1..Len(body) + 1
  BY <1>1
<1>4. Bound(Given(fn, args), typing[1])
  BY <1>1, <1>2, <1>3, GivenBound
<1>5. body = SubSeq(body, 1, Len(body))
  BY <1>1 DEF IsSequence
<1>6. AtBody(body, typing, body, Given(fn, args))
  BY <1>3, <1>4, <1>5 DEF AtBody
<1>7. QED
  BY <1>6 DEF Fitting, body, typing

\* A function is entered, by the host or by the function that runs.
LEMMA InterpretFits ==
    ASSUME ShapeInv, ModuleChecked, Ordinary, Accepted, UNCHANGED checkVars, UNCHANGED bodies,
           outcome = Nothing, Running => Calls(Top) /\ Top.got = {},
           NEW fn \in DOMAIN Functions, NEW args, IsSequence(args),
           Len(args) = Len(Functions[fn].params),
           \A i \in DOMAIN Functions[fn].params : Holds(args[i], Functions[fn].params[i].type),
           interpret_function_with_args(fn, args),
           Running => /\ RunFits /\ WaitsFor(Top, fn)
                      /\ ~Untested => SameErrors(fn, Top.fn),
           ~Running => \E entry \in EntriesHere : entry.fn = fn
    PROVE  SoundInv'
<1>1. CASE bodies[fn] = << >>
  <2>1. End(Failed("UnsupportedBody", Path(<<fn>>)))
    BY <1>1 DEF interpret_function_with_args
  <2>2. QED
    BY <2>1, UnsupportedEnds
<1>2. CASE bodies[fn] # << >>
  <2>1. Entered(fn, args) /\ stack' # << >> /\ outcome' = outcome
    BY <1>2, ShapeEnter
  <2>2. env' = Given(fn, args)
    BY <1>2 DEF interpret_function_with_args, Given, GivenAt
  <2>3. Fitting(fn, bodies[fn], typed[fn], bodies[fn], env')
    BY <2>2, EntersAtBody
  <2>4. FramesFit(stack, env, bodies, typed)
    <3>1. CASE Running
      BY <3>1 DEF RunFits
    <3>2. CASE ~Running
      BY <3>2 DEF FramesFit, Running
    <3>3. QED
      BY <3>1, <3>2
  <2>5. FramesFit(stack', env', bodies, typed)
    BY <2>1, <2>3, <2>4, FitEntered
  <2>6. IsSequence(stack) /\ Len(stack) \in Nat
    BY SequenceFacts DEF ShapeInv, FramesInv
  <2>7. CASE Running
    <3>1. Len(stack) >= 1 /\ Top = stack[Len(stack)]
      BY <2>7, StackIs
    <3>2. stack'[1] = stack[1]
      BY <2>1, <2>6, <3>1 DEF Entered
    <3>3. ASSUME ~Untested PROVE ErrorsFit(stack')
      <4>1. ErrorsFit(stack) /\ SameErrors(fn, Top.fn)
        BY <2>7, <3>3 DEF RunFits
      <4>2. SameErrors(Top.fn, stack[1].fn)
        BY <2>6, <3>1, <4>1 DEF ErrorsFit
      <4>3. SameErrors(fn, stack[1].fn)
        BY <4>1, <4>2 DEF SameErrors
      <4>4. ASSUME NEW i \in 1..Len(stack') PROVE SameErrors(stack'[i].fn, stack'[1].fn)
        <5>1. CASE i = Len(stack) + 1
          BY <2>1, <3>2, <4>3, <5>1 DEF Entered
        <5>2. CASE i # Len(stack) + 1
          <6>1. i \in 1..Len(stack) /\ stack'[i] = stack[i]
            BY <2>1, <2>6, <5>2 DEF Entered
          <6>2. QED
            BY <3>2, <4>1, <6>1 DEF ErrorsFit
        <5>3. QED
          BY <5>1, <5>2
      <4>5. QED
        BY <4>4 DEF ErrorsFit
    <3>4. RunsWell
      BY <2>7 DEF RunsWell
    <3>5. QED
      BY <2>1, <2>5, <3>2, <3>3, <3>4, StillRuns
  <2>8. CASE ~Running
    <3>1. Len(stack) = 0 /\ Len(stack') = 1
      BY <2>1, <2>6, <2>8 DEF Entered, Running
    <3>2. stack'[1].fn = fn
      BY <2>1, <3>1 DEF Entered
    <3>3. ErrorsFit(stack')
      BY <3>1 DEF ErrorsFit, SameErrors
    <3>4. bodies' = bodies /\ typed' = typed /\ EntriesHere' = EntriesHere
      BY SameProgram DEF checkVars
    <3>5. RunFits'
      BY <2>5, <2>8, <3>2, <3>3, <3>4 DEF RunFits
    <3>6. Ended(outcome)'
      <4>1. outcome'.is = "nothing"
        BY <2>1 DEF Nothing
      <4>2. QED
        BY <4>1 DEF Ended
    <3>7. QED
      BY <3>5, <3>6 DEF SoundInv
  <2>9. QED
    BY <2>7, <2>8
<1>3. QED
  BY <1>1, <1>2

\* The host enters a function of the module.
LEMMA EnterFits ==
    ASSUME ShapeInv, ModuleChecked, Ordinary, Accepted, UNCHANGED checkVars, Enter(EntriesHere)
    PROVE  SoundInv'
<1>1. outcome = Nothing /\ ~Running /\ bodies' = bodies
  BY DEF Enter
<1>2. PICK entry \in EntriesHere : interpret_function_with_args(entry.fn, entry.args)
  BY DEF Enter
<1>3. entry \in Entries /\ entry.fn \in DOMAIN Functions
  BY EntryInOrder
<1>4. /\ IsSequence(entry.args) /\ Len(entry.args) = Len(Functions[entry.fn].params)
      /\ \A i \in DOMAIN Functions[entry.fn].params :
            Holds(entry.args[i], Functions[entry.fn].params[i].type)
  BY <1>3, HostAssumption
<1>5. QED
  BY <1>1, <1>2, <1>3, <1>4, InterpretFits

\* An error that leaves the function that is called is one of its caller's,
\* when no error is left to propagate without `?`.
LEMMA CalledErrors ==
    ASSUME ~Untested, NEW fn \in DOMAIN Functions, NEW types, NEW x, IsExpr(x),
           IsUserCall(Untried(x)), check_expr(fn, types, x).errors = {},
           \E st \in StatementsOf(fn) : x = st.value \/ (st.s = "ensure" /\ x = st.error)
    PROVE  SameErrors(Untried(x).callee[1], fn)
<1> DEFINE callee == Untried(x).callee[1]
<1> SUFFICES ASSUME IsResult(returns(callee))
             PROVE  /\ IsResult(returns(fn))
                    /\ result_error(returns(fn)) = result_error(returns(callee))
  BY DEF SameErrors
<1>1. x.e = "try"
  <2> SUFFICES ASSUME x.e # "try" PROVE FALSE
    OBVIOUS
  <2>1. Untried(x) = x /\ x.e = "call"
    BY DEF Untried, IsUserCall
  <2>2. PICK st \in StatementsOf(fn) : x = st.value \/ (st.s = "ensure" /\ x = st.error)
    OBVIOUS
  <2>3. x \in CallsOf(st)
    BY <2>1, <2>2 DEF CallsOf
  <2>4. IsUserCall(x) /\ IsResult(returns(x.callee[1]))
    BY <2>1
  <2>5. QED
    BY <2>2, <2>3, <2>4 DEF Untested
<1>2. QED
  BY <1>1, CallRaises

\* A statement whose expression calls a function.
LEMMA CallFits ==
    ASSUME RunsWell, UNCHANGED checkVars, eval_user_function_call
    PROVE  SoundInv'
<1> DEFINE fn == Top.fn  x == Head(Top.todo).value  u == Untried(x)  callee == u.callee[1]
           expected == ParamList(callee)
           results == [i \in DOMAIN u.args |-> eval_atom(env, u.args[i].value)]
<1>1. /\ ShapeInv /\ ModuleChecked /\ Ordinary /\ Accepted /\ Running /\ RunFits
      /\ outcome = Nothing
  BY DEF RunsWell, ShapeInv, RunInv, Running
<1>2. /\ Top.todo # << >> /\ Head(Top.todo).s # "restore" /\ Top.got = {} /\ bodies' = bodies
      /\ IsUserCall(u)
  BY DEF eval_user_function_call, AtStatement
<1>3. fn \in DOMAIN Functions
  BY <1>1, TopIsFrame DEF IsFrame
<1>4. /\ IsExpr(x)
      /\ \E types : Bound(env, types) /\ check_expr(fn, types, x).errors = {}
      /\ \E st \in StatementsOf(fn) : x = st.value \/ (st.s = "ensure" /\ x = st.error)
  BY <1>2, HeadTyped
<1>5. PICK types : Bound(env, types) /\ check_expr(fn, types, x).errors = {}
  BY <1>4
<1> HIDE DEF fn, x
<1>6. /\ IsCall(u) /\ Len(u.callee) = 1 /\ callee \in DOMAIN Functions
      /\ no_labels(u.args) = {}
      /\ expect_positional_arity(u.args, Len(expected)) = {}
      /\ check_args(types, u.args, expected) = {}
  BY <1>2, <1>4, <1>5, CallAccepted
<1>7. /\ IsSequence(expected) /\ \A i \in DOMAIN expected : DeclaredType(expected[i])
      /\ Len(expected) = Len(Functions[callee].params)
      /\ DOMAIN expected = DOMAIN Functions[callee].params
      /\ \A i \in DOMAIN expected : expected[i] = Functions[callee].params[i].type
  BY <1>6, Params
<1> HIDE DEF u, callee, expected
<1>8. /\ ~HasLabel(u.args) /\ positional(u.args) = u.args /\ Len(u.args) = Len(expected)
      /\ \/ ~IsValue(InOrder(results)) /\ Stop(InOrder(results))
         \/ \E values : /\ InOrder(results) = Value(values)
                        /\ IsSequence(values) /\ Len(values) = Len(expected)
                        /\ \A i \in DOMAIN expected : Holds(values[i], expected[i])
  <2>1. results = [i \in DOMAIN u.args |-> eval_atom(env, u.args[i].value)]
    OBVIOUS
  <2> HIDE DEF results
  <2>2. QED
    <3>1. /\ Bound(env, types) /\ IsCall(u) /\ IsSequence(expected) /\ no_labels(u.args) = {}
          /\ expect_positional_arity(u.args, Len(expected)) = {}
          /\ check_args(types, u.args, expected) = {}
      BY <1>5, <1>6, <1>7
    <3>2. \A i \in DOMAIN expected : DeclaredType(expected[i])
      BY <1>7
    <3>3. QED
      BY <2>1, <3>1, <3>2, ArgumentsSound, SMTT(30)
<1>9. IF IsValue(InOrder(results)) THEN interpret_function_with_args(callee, InOrder(results).value)
      ELSE End(InOrder(results))
  <2>1. positional(Untried(Head(Top.todo).value).args) = u.args /\ u = Untried(Head(Top.todo).value)
    BY <1>8 DEF u, x
  <2>2. IF IsValue(InOrder([i \in DOMAIN positional(u.args) |->
                               eval_atom(env, positional(u.args)[i].value)]))
        THEN interpret_function_with_args(callee,
                InOrder([i \in DOMAIN positional(u.args) |->
                            eval_atom(env, positional(u.args)[i].value)]).value)
        ELSE End(InOrder([i \in DOMAIN positional(u.args) |->
                             eval_atom(env, positional(u.args)[i].value)]))
    BY <1>6, <1>7, <1>8, <2>1 DEF eval_user_function_call, callee
  <2>3. QED
    BY <1>8, <2>2
<1> HIDE DEF results
<1>10. CASE ~IsValue(InOrder(results))
  <2>1. Stop(InOrder(results))
    BY <1>8, <1>10 DEF Value, IsValue
  <2>2. Ended(InOrder(results))
    BY <2>1, StopEnds
  <2>3. QED
    BY <1>1, <1>2, <1>9, <1>10, <2>2, EndFits
<1>11. CASE IsValue(InOrder(results))
  <2>1. PICK values : /\ InOrder(results) = Value(values)
                      /\ IsSequence(values) /\ Len(values) = Len(expected)
                      /\ \A i \in DOMAIN expected : Holds(values[i], expected[i])
    BY <1>8, <1>11
  <2>2. interpret_function_with_args(callee, values)
    <3>1. Value(values).value = values
      BY DEF Value
    <3>2. QED
      BY <1>9, <1>11, <2>1, <3>1
  <2>3. \A i \in DOMAIN Functions[callee].params : Holds(values[i], Functions[callee].params[i].type)
    BY <1>7, <2>1
  <2>4. Calls(Top) /\ WaitsFor(Top, callee)
    BY <1>2, <1>6 DEF Calls, WaitsFor, CalleeOf, u, x, callee
  <2>5. ~Untested => SameErrors(callee, fn)
    BY <1>2, <1>3, <1>4, <1>5, CalledErrors DEF callee, u
  <2>6. QED
    BY <1>1, <1>2, <1>6, <1>7, <2>1, <2>2, <2>3, <2>4, <2>5, InterpretFits DEF fn
<1>12. QED
  BY <1>10, <1>11

-----------------------------------------------------------------------------
\* Every step keeps the invariant.

\* Nothing runs as long as the module is written.
LEMMA SoundBefore ==
    ASSUME stack' = << >>, outcome' = Nothing
    PROVE  SoundInv'
<1>1. outcome'.is = "nothing"
  BY DEF Nothing
<1>2. Ended(outcome)'
  BY <1>1 DEF Ended
<1>3. QED
  BY <1>2 DEF SoundInv

\* Every step of a program that runs.
LEMMA SoundRun ==
    ASSUME TypesInv, Accepted, UNCHANGED checkVars,
           \/ Enter(EntriesHere) \/ exec_stmt \/ eval_user_function_call
           \/ Resume \/ LeaveArm \/ FallOff
    PROVE  SoundInv'
<1>1. UNCHANGED bodies
  BY DEF Enter, exec_stmt, eval_user_function_call, Resume, LeaveArm, FallOff
<1>2. CASE ~Ordinary
  <2>1. ~Ordinary'
    BY <1>1, <1>2, SameProgram
  <2>2. QED
    BY <2>1 DEF SoundInv
<1>3. CASE Ordinary /\ Enter(EntriesHere)
  BY <1>3, EnterFits DEF TypesInv
<1>4. CASE Ordinary /\ ~Enter(EntriesHere)
  <2>1. Running
    BY <1>4 DEF exec_stmt, eval_user_function_call, AtStatement, Resume, LeaveArm, FallOff
  <2>2. RunsWell
    BY <1>4, <2>1 DEF RunsWell, TypesInv, SoundInv, Running
  <2>3. QED
    BY <1>4, <2>2, StatementFits, CallFits, ResumeFits, LeaveFits, FallFits
<1>5. QED
  BY <1>2, <1>3, <1>4

\* The invariant holds before anything is written.
LEMMA TypesInit == Init => TypesInv
<1> SUFFICES ASSUME Init PROVE TypesInv
  OBVIOUS
<1>1. stack = << >> /\ outcome.is = "nothing"
  BY DEF Init, Nothing
<1>2. SoundInv
  BY <1>1 DEF SoundInv, Ended
<1>3. QED
  BY <1>2, ShapeInit, CheckedInit DEF TypesInv

\* Every step keeps the invariant.
LEMMA TypesNext ==
    ASSUME TypesInv, [Next]_allVars
    PROVE  TypesInv'
<1>1. ShapeInv'
  BY ShapeNext DEF TypesInv
<1>2. CASE check_function_body
  <2>1. ModuleChecked'
    BY <1>2, CheckedWrite DEF TypesInv
  <2>2. stack = << >> /\ outcome = Nothing
    BY <1>2 DEF check_function_body, TypesInv, ShapeInv, RunInv, ModuleInv, Accepted
  <2>3. SoundInv'
    BY <1>2, <2>2, SoundBefore DEF check_function_body
  <2>4. QED
    BY <1>1, <2>1, <2>3 DEF TypesInv
<1>3. CASE check_next_item
  <2>1. ModuleChecked'
    BY <1>3 DEF check_next_item, TypesInv, ModuleChecked, vars
  <2>2. stack = << >> /\ outcome = Nothing
    BY <1>3 DEF check_next_item, TypesInv, ShapeInv, RunInv, Accepted, ModuleInv
  <2>3. SoundInv'
    BY <1>3, <2>2, SoundBefore DEF check_next_item, vars
  <2>4. QED
    BY <1>1, <2>1, <2>3 DEF TypesInv
<1>4. CASE /\ Accepted /\ UNCHANGED checkVars
           /\ \/ Enter(EntriesHere) \/ exec_stmt \/ eval_user_function_call
              \/ Resume \/ LeaveArm \/ FallOff
  <2>1. UNCHANGED bodies
    BY <1>4 DEF Enter, exec_stmt, eval_user_function_call, Resume, LeaveArm, FallOff
  <2>2. ModuleChecked'
    BY <1>4, <2>1 DEF TypesInv, ModuleChecked, checkVars
  <2>3. SoundInv'
    BY <1>4, SoundRun
  <2>4. QED
    BY <1>1, <2>2, <2>3 DEF TypesInv
<1>5. CASE UNCHANGED allVars
  <2>1. UNCHANGED checkVars /\ UNCHANGED bodies /\ UNCHANGED <<env, stack, outcome>>
    BY <1>5 DEF allVars, vars
  <2>2. ModuleChecked'
    BY <2>1 DEF TypesInv, ModuleChecked, checkVars
  <2>3. Ordinary' = Ordinary /\ Untested' = Untested /\ EntriesHere' = EntriesHere
    BY <2>1, SameProgram
  <2>4. Ended(outcome)' <=> Ended(outcome)
    BY <2>1, <2>3 DEF Ended
  <2>5. RunFits' <=> RunFits
    BY <2>1, <2>3 DEF RunFits, checkVars
  <2>6. SoundInv'
    BY <2>1, <2>3, <2>4, <2>5 DEF TypesInv, SoundInv
  <2>7. QED
    BY <1>1, <2>2, <2>6 DEF TypesInv
<1>6. QED
  BY <1>2, <1>3, <1>4, <1>5 DEF Next, run_checked

\* A frame between its statements is before one of its body, where each name
\* that the checker knows has the checker's type.
LEMMA BetweenBound ==
    ASSUME TypesInv, stack # << >>, Ordinary, NEW i \in DOMAIN stack, Between(stack[i])
    PROVE  Bound(NamesOf(i), typed[stack[i].fn][Position(stack[i])])
<1> DEFINE frame == stack[i]  fn == frame.fn  body == bodies[fn]  typing == typed[fn]
           k == Position(frame)  names == NamesOf(i)
<1>1. ShapeInv /\ Running /\ FramesFit(stack, env, bodies, typed)
  BY DEF TypesInv, SoundInv, RunFits, Running
<1>2. i \in 1..Len(stack)
  BY <1>1, SequenceFacts DEF ShapeInv, FramesInv
<1>3. /\ IsFrame(frame) /\ names = NamesIn(stack, env, i)
      /\ Fitting(fn, body, typing, frame.todo, names)
  BY <1>1, <1>2 DEF ShapeInv, FramesInv, FramesFit, NamesOf, NamesIn
<1>4. fn \in DOMAIN Functions /\ IsSequence(frame.todo)
  BY <1>3 DEF IsFrame
<1>5. /\ IsSequence(body) /\ Len(body) \in Nat
      /\ \A j \in 1..Len(body) : IsSimple(body[j]) \/ IsMatch(body[j])
  BY <1>1, <1>4, CheckedAssumption, SequenceFacts DEF ShapeInv, ModuleInv
<1> DEFINE todo == frame.todo  n == Len(todo)
<1>6. k = Len(body) - n + 1 /\ k >= 1 /\ todo = SubSeq(body, k, Len(body))
  BY DEF Between, Position
<1>7. n \in Nat /\ IsSequence(todo)
  BY <1>4, SequenceFacts
<1> HIDE DEF frame, fn, body, typing, k, names, todo, n
<1>8. k \in 1..Len(body) + 1
  BY <1>5, <1>6, <1>7
<1>9. \A j \in 1..n : todo[j].s # "restore" /\ todo[j].s # "raise"
  <2> SUFFICES ASSUME NEW j \in 1..n PROVE todo[j].s # "restore" /\ todo[j].s # "raise"
    OBVIOUS
  <2>1. todo[j] = body[k + j - 1] /\ k + j - 1 \in 1..Len(body)
    <3>1. j \in 1..Len(body) - k + 1 /\ k + j - 1 \in 1..Len(body)
      BY <1>5, <1>6, <1>7, <1>8
    <3>2. QED
      BY <1>5, <1>6, <1>8, <3>1, Suffix, SMTT(30)
  <2>2. QED
    BY <1>5, <2>1 DEF IsSimple, IsMatch
<1>10. AtBody(body, typing, todo, names)
  <2>1. ASSUME todo # << >> PROVE Head(todo).s # "restore" /\ Head(todo).s # "raise"
    <3>1. 1 \in 1..n /\ Head(todo) = todo[1]
      BY <1>7, <2>1, SequenceFacts DEF n
    <3>2. QED
      BY <1>9, <3>1
  <2>2. ASSUME todo # << >>, Tail(todo) # << >> PROVE Head(Tail(todo)).s # "restore"
    <3>1. /\ IsSequence(Tail(todo)) /\ Len(Tail(todo)) = n - 1
          /\ \A j \in 1..n - 1 : Tail(todo)[j] = todo[j + 1]
      BY <1>7, <2>2, Tailed DEF n
    <3>2. 2 \in 1..n /\ Head(Tail(todo)) = todo[2]
      BY <1>7, <2>2, <3>1, SequenceFacts
    <3>3. QED
      BY <1>9, <3>2
  <2>3. QED
    BY <1>3, <2>1, <2>2 DEF Fitting, AfterArm, InArm, Raising, todo
<1>11. PICK l \in 1..Len(body) + 1 : todo = SubSeq(body, l, Len(body)) /\ Bound(names, typing[l])
  BY <1>10 DEF AtBody
<1>12. n = Len(body) - l + 1
  BY <1>5, <1>11, Suffix DEF n
<1>13. l = k
  BY <1>5, <1>6, <1>8, <1>12
<1>14. QED
  BY <1>11, <1>13 DEF frame, fn, typing, k, names

\* The invariant says more than the property of the names.
LEMMA TypesHold == TypesInv => NamesHoldTheirTypes
<1> SUFFICES ASSUME TypesInv, stack # << >>, Ordinary, NEW i \in DOMAIN stack, Between(stack[i]),
                    NEW name \in DOMAIN typed[stack[i].fn][Position(stack[i])]
             PROVE  /\ name \in DOMAIN NamesOf(i)
                    /\ Holds(NamesOf(i)[name], typed[stack[i].fn][Position(stack[i])][name])
  BY DEF NamesHoldTheirTypes
<1>1. Bound(NamesOf(i), typed[stack[i].fn][Position(stack[i])])
  BY BetweenBound
<1>2. QED
  BY <1>1 DEF Bound

\* The invariant says what the outcomes are.
LEMMA OutcomesHold ==
    TypesInv => /\ AcceptedBodiesFailInKnownWays /\ RaisesWhatItDeclares /\ ReturnsWhatItDeclares
BY DEF TypesInv, SoundInv, Ended, AcceptedBodiesFailInKnownWays, RaisesWhatItDeclares,
       ReturnsWhatItDeclares

\* So it holds of every behaviour of the specification.
LEMMA TypesAlways == Spec => []TypesInv
<1>1. Init => TypesInv
  BY TypesInit
<1>2. TypesInv /\ [Next]_allVars => TypesInv'
  BY TypesNext
<1>3. QED
  BY <1>1, <1>2, PTL DEF Spec

\* Before every statement of every activation, each name the checker knows is
\* bound to a value of the checker's type: through arms that bind over it and
\* give it back, through calls and their return, for any program.
THEOREM TypesAreSound == Spec => []NamesHoldTheirTypes
BY TypesAlways, TypesHold, PTL

\* A body the checker accepted fails in the seven known ways and no other.
THEOREM FailsInKnownWays == Spec => []AcceptedBodiesFailInKnownWays
BY TypesAlways, OutcomesHold, PTL

\* What leaves an accepted function as an error is of the enum it declares,
\* through every caller under `?`, or an error of the host.
THEOREM RaisesDeclared == Spec => []RaisesWhatItDeclares
BY TypesAlways, OutcomesHold, PTL

\* What an accepted function returns is of the type it declares.
THEOREM ReturnsDeclared == Spec => []ReturnsWhatItDeclares
BY TypesAlways, OutcomesHold, PTL

=============================================================================
