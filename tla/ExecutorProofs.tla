--------------------------- MODULE ExecutorProofs ---------------------------
(* Proofs about Executor for every dependency graph and every bound.       *)
EXTENDS Executor, SequenceTheorems, TLAPS

-----------------------------------------------------------------------------
(* The calls that ExecNode makes.                                          *)

Call == [node : Node, order : BOOLEAN]

\* A function on 1 .. n is a sequence of length n.
LEMMA FunctionIsSeq ==
    ASSUME NEW S, NEW n \in Nat, NEW f \in [1 .. n -> S]
    PROVE  f \in Seq(S) /\ Len(f) = n
  <1>1. f \in Seq(S)
    BY SeqDef
  <1>2. Len(f) \in Nat /\ 1 .. Len(f) = 1 .. n
    BY <1>1, LenProperties
  <1> QED BY <1>1, <1>2

\* Visits lists the order-only dependencies, then the others, in order.
LEMMA VisitsAre ==
    ASSUME NEW n \in Node
    PROVE  /\ Visits(n) \in Seq(Call)
           /\ Len(Visits(n)) = Len(OrderOnlys[n]) + Len(Deps[n])
           /\ \A i \in 1 .. Len(OrderOnlys[n]) : Visits(n)[i] = Visit(OrderOnlys[n][i], TRUE)
           /\ \A i \in 1 .. Len(Deps[n]) :
                 Visits(n)[Len(OrderOnlys[n]) + i] = Visit(Deps[n][i], FALSE)
  <1> DEFINE o == [i \in DOMAIN OrderOnlys[n] |-> Visit(OrderOnlys[n][i], TRUE)]
             d == [i \in DOMAIN Deps[n] |-> Visit(Deps[n][i], FALSE)]
  <1>1. /\ OrderOnlys[n] \in Seq(Node) /\ Len(OrderOnlys[n]) \in Nat
        /\ Deps[n] \in Seq(Node) /\ Len(Deps[n]) \in Nat
        /\ DOMAIN OrderOnlys[n] = 1 .. Len(OrderOnlys[n]) /\ DOMAIN Deps[n] = 1 .. Len(Deps[n])
    BY GraphAssumption, LenProperties DEF GraphAssumption
  <1>2. \A m \in Node, b \in BOOLEAN : Visit(m, b) \in Call
    BY DEF Call, Visit
  <1>3. o \in [1 .. Len(OrderOnlys[n]) -> Call] /\ d \in [1 .. Len(Deps[n]) -> Call]
    BY <1>1, <1>2, ElementOfSeq
  <1>4. /\ o \in Seq(Call) /\ Len(o) = Len(OrderOnlys[n])
        /\ d \in Seq(Call) /\ Len(d) = Len(Deps[n])
    <2> HIDE DEF o, d
    <2> QED BY <1>1, <1>3, FunctionIsSeq
  <1>5. /\ \A i \in 1 .. Len(OrderOnlys[n]) : o[i] = Visit(OrderOnlys[n][i], TRUE)
        /\ \A i \in 1 .. Len(Deps[n]) : d[i] = Visit(Deps[n][i], FALSE)
    BY <1>1
  <1>6. Visits(n) = o \o d
    BY DEF Visits
  <1> HIDE DEF o, d
  <1>7. /\ o \o d \in Seq(Call) /\ Len(o \o d) = Len(o) + Len(d)
        /\ \A i \in 1 .. Len(o) + Len(d) :
              (o \o d)[i] = IF i <= Len(o) THEN o[i] ELSE d[i - Len(o)]
    BY <1>4, ConcatProperties
  <1>8. \A i \in 1 .. Len(d) : (o \o d)[Len(o) + i] = d[i]
    BY <1>1, <1>4, <1>7
  <1>9. \A i \in 1 .. Len(o) : (o \o d)[i] = o[i]
    BY <1>1, <1>4, <1>7
  <1> QED BY <1>4, <1>5, <1>6, <1>7, <1>8, <1>9

\* What going on with the result t does to the frame g of the caller.
Resumed(g, t) == [g EXCEPT !.rest = Tail(@), !.latest = IF @ < t THEN t ELSE @]

\* The caller has one call less to make, and knows a time that is not earlier.
LEMMA ResumedIs ==
    ASSUME NEW g \in Frame, NEW t \in Nat \cup {Processing}, g.rest # << >>
    PROVE  LET f == Resumed(g, t) IN
           /\ f \in Frame
           /\ f.node = g.node /\ f.ts = g.ts /\ f.cmds = g.cmds /\ f.rest = Tail(g.rest)
           /\ f.latest \in {g.latest, t} /\ f.latest >= g.latest /\ f.latest >= t
  <1> DEFINE r == Tail(g.rest)
             l == IF g.latest < t THEN t ELSE g.latest
  <1>1. r \in Seq(Call)
    BY HeadTailProperties DEF Frame, Call
  <1>2. l \in Nat \cup {Processing} /\ l \in {g.latest, t} /\ l >= g.latest /\ l >= t
    BY DEF Frame, Processing
  <1>3. Resumed(g, t) = [g EXCEPT !.rest = r, !.latest = l]
    BY DEF Resumed
  <1> HIDE DEF r, l
  <1>4. LET f == Resumed(g, t) IN
        /\ f \in Frame
        /\ f.node = g.node /\ f.ts = g.ts /\ f.cmds = g.cmds /\ f.rest = r /\ f.latest = l
    BY <1>1, <1>2, <1>3 DEF Frame, Call
  <1> QED BY <1>2, <1>4 DEF r

\* Going on with a result changes the caller only.
LEMMA ResumeIs ==
    ASSUME NEW stk \in Seq(Frame), NEW t \in Nat \cup {Processing},
           stk # << >> => stk[Len(stk)].rest # << >>
    PROVE  LET r == Resume(stk, t) IN
           /\ r \in Seq(Frame) /\ Len(r) = Len(stk)
           /\ \A i \in 1 .. Len(stk) :
                 /\ i # Len(stk) => r[i] = stk[i]
                 /\ i = Len(stk) => r[i] = Resumed(stk[i], t)
  <1>1. CASE stk = << >>
    BY <1>1 DEF Resume
  <1>2. CASE stk # << >>
    <2> DEFINE k == Len(stk)
    <2>1. k \in 1 .. Len(stk) /\ stk[k] \in Frame
      BY <1>2, EmptySeq, ElementOfSeq
    <2>2. Resumed(stk[k], t) \in Frame
      BY <1>2, <2>1, ResumedIs
    <2>3. Resume(stk, t) = [stk EXCEPT ![k] = Resumed(stk[k], t)]
      BY <1>2 DEF Resume, Resumed
    <2> QED BY <2>1, <2>2, <2>3, ExceptSeq
  <1> QED BY <1>1, <1>2

-----------------------------------------------------------------------------
(* The inductive invariant.                                                *)

\* Between runs no call is active.
IdleIsEmpty == phase = "idle" => stack = << >>

\* Every active call was made by the call below it, or by Exec for a root.
Matched(stk, roots) ==
    /\ stk # << >> => roots # << >> /\ stk[1].node = Head(roots)
    /\ \A i \in 1 .. Len(stk) : i > 1 =>
          stk[i - 1].rest # << >> /\ stk[i].node = Head(stk[i - 1].rest).node
CallsMatch == Matched(stack, todo)

\* The calls that a frame has still to make are the last of its Visits, and
\* it looks at its commands only when there are none.
Passed(f) == Len(Visits(f.node)) - Len(f.rest)
RestIs(f) ==
    /\ Passed(f) >= 0
    /\ \A k \in 1 .. Len(f.rest) : f.rest[k] = Visits(f.node)[Passed(f) + k]
    /\ f.rest # << >> => f.cmds = -1
RestIsLast == \A i \in 1 .. Len(stack) : RestIs(stack[i])

\* A call depends on all the calls above it: each set that holds its target
\* and everything its members depend on holds theirs.
CallsReach ==
    \A i, j \in 1 .. Len(stack) : i <= j => B!Circular(stack[j].node, stack[i].node)

\* What a frame has visited is made, or need not be.
Settled(n, v, dn, mt) ==
    \/ dn[v.node] \in Nat
    \/ v.order /\ mt[v.node] # NotExist
    \/ B!Circular(n, v.node)
Visited(f, dn, mt) == \A k \in 1 .. Passed(f) : Settled(f.node, Visits(f.node)[k], dn, mt)
VisitedIsSettled == \A i \in 1 .. Len(stack) : Visited(stack[i], done, mtime)

Shape == TypeOK /\ IdleIsEmpty /\ CallsMatch
Depended == RestIsLast /\ CallsReach /\ VisitedIsSettled

-----------------------------------------------------------------------------
(* What the steps do to the calls.                                         *)

\* The calls of stk go on in new after their last one has seen a result.
GoOn(stk, new) ==
    /\ new \in Seq(Frame) /\ Len(new) = Len(stk)
    /\ \A i \in 1 .. Len(stk) : i # Len(stk) => new[i] = stk[i]
    /\ stk # << >> =>
          LET f == stk[Len(stk)] g == new[Len(stk)] IN
          /\ g.node = f.node /\ g.ts = f.ts /\ g.cmds = f.cmds /\ g.rest = Tail(f.rest)
          /\ g.latest >= f.latest

\* Resume lets the calls go on.
LEMMA ResumeGoesOn ==
    ASSUME NEW stk \in Seq(Frame), NEW t \in Nat \cup {Processing},
           stk # << >> => stk[Len(stk)].rest # << >>
    PROVE  GoOn(stk, Resume(stk, t))
  <1>1. stk # << >> => Len(stk) \in 1 .. Len(stk) /\ stk[Len(stk)] \in Frame
    BY EmptySeq, ElementOfSeq
  <1> QED BY <1>1, ResumeIs, ResumedIs DEF GoOn

\* Calls that go on still match.
LEMMA GoOnMatched ==
    ASSUME NEW stk \in Seq(Frame), NEW new, NEW roots, GoOn(stk, new), Matched(stk, roots)
    PROVE  stk # << >> => Matched(new, roots)
  <1> SUFFICES ASSUME stk # << >> PROVE Matched(new, roots)
    OBVIOUS
  <1>1. Len(stk) \in Nat \ {0}
    BY EmptySeq
  <1>2. new # << >> /\ Len(new) = Len(stk)
    BY <1>1, EmptySeq DEF GoOn
  <1>3. \A i \in 1 .. Len(stk) : new[i].node = stk[i].node
    BY DEF GoOn
  <1>4. \A i \in 1 .. Len(stk) : i > 1 => new[i - 1] = stk[i - 1]
    BY <1>1 DEF GoOn
  <1> QED BY <1>1, <1>2, <1>3, <1>4 DEF Matched

\* Who calls whom, when ExecNode is called.
LEMMA CalledIs ==
    ASSUME Shape, Calling
    PROVE  /\ Called \in Call /\ done[Called.node] \in Nat \cup {Processing, Absent}
           /\ mtime[Called.node] \in Nat \cup {NotExist}
           /\ stack = << >> => todo # << >> /\ Called = Visit(Head(todo), FALSE)
                               /\ Tail(todo) \in Seq(Node)
           /\ stack # << >> => /\ Depth \in 1 .. Depth /\ Top \in Frame
                               /\ Top.rest # << >> /\ Called = Head(Top.rest)
                               /\ Top = stack[Depth]
  <1>1. CASE stack = << >>
    <2>1. todo \in Seq(Node) /\ todo # << >>
      BY <1>1 DEF Calling, Shape, TypeOK
    <2>2. Head(todo) \in Node /\ Tail(todo) \in Seq(Node)
      BY <2>1, HeadTailProperties
    <2>3. Called = Visit(Head(todo), FALSE)
      BY <1>1 DEF Called
    <2>4. Called \in Call /\ Called.node \in Node
      BY <2>2, <2>3 DEF Visit, Call
    <2> QED BY <1>1, <2>1, <2>2, <2>3, <2>4 DEF Shape, TypeOK
  <1>2. CASE stack # << >>
    <2>1. Depth \in 1 .. Depth /\ Top \in Frame
      BY <1>2, EmptySeq, ElementOfSeq DEF Shape, TypeOK, Depth, Top
    <2>2. Top.rest \in Seq(Call) /\ Top.rest # << >>
      BY <1>2, <2>1 DEF Calling, Frame, Call
    <2>3. Called = Head(Top.rest) /\ Called \in Call
      BY <1>2, <2>2, HeadTailProperties DEF Called
    <2>4. Called.node \in Node
      BY <2>3 DEF Call
    <2> QED BY <1>2, <2>1, <2>2, <2>3, <2>4 DEF Shape, TypeOK, Top
  <1> QED BY <1>1, <1>2

\* A dependency is passed over, or was visited before.
LEMMA SkipGoesOn ==
    ASSUME Shape, SkipOrderOnly
    PROVE  stack # << >> /\ GoOn(stack, stack')
  <1>1. stack # << >>
    BY CalledIs DEF SkipOrderOnly, Visit
  <1>2. Calling
    BY DEF SkipOrderOnly
  <1>3. Depth \in 1 .. Depth /\ Top \in Frame /\ Top.rest # << >> /\ Top = stack[Depth]
    BY <1>1, <1>2, CalledIs
  <1> DEFINE f == [Top EXCEPT !.rest = Tail(@)]
  <1>4. Tail(Top.rest) \in Seq(Call)
    BY <1>3, HeadTailProperties DEF Frame, Call
  <1>5. f \in Frame /\ f.node = Top.node /\ f.ts = Top.ts /\ f.cmds = Top.cmds
        /\ f.rest = Tail(Top.rest) /\ f.latest = Top.latest
    BY <1>3, <1>4 DEF Frame, Call
  <1>9. Top.latest >= Top.latest
    BY <1>3 DEF Frame, Processing
  <1>6. stack' = [stack EXCEPT ![Depth] = f]
    BY <1>3 DEF SkipOrderOnly
  <1> HIDE DEF f
  <1>7. stack \in Seq(Frame) /\ Depth = Len(stack)
    BY DEF Shape, TypeOK, Depth
  <1>8. /\ stack' \in Seq(Frame) /\ Len(stack') = Len(stack)
        /\ \A j \in 1 .. Len(stack) : stack'[j] = IF j = Depth THEN f ELSE stack[j]
    BY <1>3, <1>5, <1>6, <1>7, ExceptSeq
  <1> QED BY <1>1, <1>3, <1>5, <1>7, <1>8, <1>9 DEF GoOn

\* The same of a target that is in done_.
LEMMA RevisitGoesOn ==
    ASSUME Shape, Revisit
    PROVE  GoOn(stack, stack') /\ done[Called.node] \in Nat \cup {Processing}
  <1>1. Calling /\ done[Called.node] # Absent /\ stack' = Resume(stack, done[Called.node])
    BY DEF Revisit, Entering
  <1>2. done[Called.node] \in Nat \cup {Processing}
    BY <1>1, CalledIs
  <1>3. stack # << >> => stack[Len(stack)].rest # << >>
    BY <1>1, CalledIs DEF Depth
  <1>4. stack \in Seq(Frame)
    BY DEF Shape, TypeOK
  <1> QED BY <1>1, <1>2, <1>3, <1>4, ResumeGoesOn

\* The calls below the top, which wait for its result.
Below == SubSeq(stack, 1, Depth - 1)

\* They match, and the one that waits has the top's target as its next call.
LEMMA MadeIs ==
    ASSUME Shape, Made
    PROVE  /\ stack \in Seq(Frame) /\ Depth = Len(stack) /\ Depth \in 1 .. Depth
           /\ Depth \in Nat /\ Top \in Frame /\ Top = stack[Depth] /\ Top.node \in Node
           /\ Top.rest = << >>
           /\ Below \in Seq(Frame) /\ Len(Below) = Depth - 1
           /\ \A i \in 1 .. Depth - 1 : Below[i] = stack[i]
           /\ Matched(Below, todo)
           /\ Below = << >> => /\ todo # << >> /\ Tail(todo) \in Seq(Node)
           /\ Below # << >> => /\ Len(Below) \in 1 .. Len(Below)
                               /\ Below[Len(Below)].rest # << >>
                               /\ Head(Below[Len(Below)].rest).node = Top.node
  <1>1. stack \in Seq(Frame) /\ Depth = Len(stack) /\ todo \in Seq(Node)
    BY DEF Shape, TypeOK, Depth
  <1>2. stack # << >> /\ Top.rest = << >>
    BY DEF Made
  <1>3. Depth \in Nat /\ Depth \in 1 .. Depth /\ Top = stack[Depth] /\ Top \in Frame
    BY <1>1, <1>2, EmptySeq, ElementOfSeq DEF Top
  <1>4. Top.node \in Node
    BY <1>3 DEF Frame
  <1>5. \A i \in 1 .. Depth - 1 : stack[i] \in Frame
    BY <1>1, <1>3, ElementOfSeq
  <1>6. /\ Below \in Seq(Frame) /\ Len(Below) = Depth - 1
        /\ \A i \in 1 .. Depth - 1 : Below[i] = stack[i]
    <2>1. 1 \in Int /\ Depth - 1 \in Int
      BY <1>3
    <2>2. /\ Below \in Seq(Frame)
          /\ Len(Below) = IF 1 <= Depth - 1 THEN Depth - 1 - 1 + 1 ELSE 0
          /\ \A i \in 1 .. Depth - 1 - 1 + 1 : Below[i] = stack[1 + i - 1]
      BY <1>5, <2>1, SubSeqProperties DEF Below
    <2> QED BY <1>3, <2>2
  <1>7. Below # << >> <=> Depth > 1
    BY <1>3, <1>6, EmptySeq
  <1>8. todo # << >> /\ stack[1].node = Head(todo)
    BY <1>2 DEF Shape, CallsMatch, Matched
  <1>9. \A i \in 1 .. Depth : i > 1 =>
            stack[i - 1].rest # << >> /\ stack[i].node = Head(stack[i - 1].rest).node
    BY <1>1 DEF Shape, CallsMatch, Matched
  <1>10. Matched(Below, todo)
    <2>1. Below # << >> => Below[1] = stack[1]
      BY <1>3, <1>6, <1>7
    <2>2. \A i \in 1 .. Depth - 1 : i > 1 => /\ Below[i - 1] = stack[i - 1]
                                            /\ Below[i] = stack[i] /\ i \in 1 .. Depth
      BY <1>3, <1>6
    <2> QED BY <1>6, <1>8, <1>9, <2>1, <2>2 DEF Matched
  <1>11. Tail(todo) \in Seq(Node)
    BY <1>1, <1>8, HeadTailProperties
  <1>12. Depth > 1 => /\ Below[Depth - 1].rest # << >>
                      /\ Head(Below[Depth - 1].rest).node = Top.node
    BY <1>3, <1>6, <1>9
  <1> QED BY <1>1, <1>2, <1>3, <1>4, <1>6, <1>7, <1>8, <1>10, <1>11, <1>12

\* The caller goes on when a call returns.
LEMMA ReturnGoesOn ==
    ASSUME Shape, Made, NEW t \in Nat, Return(t)
    PROVE  GoOn(Below, stack')
  BY MadeIs, ResumeGoesOn DEF Return, Below

\* Looking at commands changes nothing else.
LEMMA CmdsChange ==
    ASSUME Shape, Made, NEW c \in Nat, stack' = [stack EXCEPT ![Depth].cmds = c]
    PROVE  /\ stack' \in Seq(Frame) /\ Len(stack') = Depth
           /\ \A i \in 1 .. Depth :
                 /\ i # Depth => stack'[i] = stack[i]
                 /\ stack'[i].node = stack[i].node /\ stack'[i].rest = stack[i].rest
                 /\ stack'[i].ts = stack[i].ts /\ stack'[i].latest = stack[i].latest
                 /\ i = Depth => stack'[i].cmds = c
  <1> DEFINE f == [Top EXCEPT !.cmds = c]
  <1>1. f \in Frame /\ f.node = Top.node /\ f.ts = Top.ts /\ f.latest = Top.latest
        /\ f.rest = Top.rest /\ f.cmds = c
    BY MadeIs DEF Frame
  <1>2. stack' = [stack EXCEPT ![Depth] = f]
    BY MadeIs
  <1> HIDE DEF f
  <1>3. /\ stack' \in Seq(Frame) /\ Len(stack') = Len(stack)
        /\ \A j \in 1 .. Len(stack) : stack'[j] = IF j = Depth THEN f ELSE stack[j]
    BY <1>1, <1>2, MadeIs, ExceptSeq
  <1> QED BY <1>1, <1>3, MadeIs

-----------------------------------------------------------------------------
(* Types and the shape of the stack.                                       *)

\* Shape when a step leaves the stack empty.
LEMMA EmptyShape ==
    ASSUME TypeOK', stack' = << >>
    PROVE  Shape'
  <1>1. Len(stack') = 0
    BY EmptySeq
  <1> QED BY <1>1 DEF Shape, IdleIsEmpty, CallsMatch, Matched

\* What stays the same keeps its type.
LEMMA FilesType ==
    ASSUME TypeOK, NEW n \in Node, clock' = clock + 1,
           mtime' \in {mtime, [mtime EXCEPT ![n] = clock + 1]}
    PROVE  /\ clock' \in Nat /\ mtime' \in [Node -> Nat \cup {NotExist}]
           /\ There \subseteq There' /\ \A m \in Node : Exists(m) => Exists(m)'
  <1>1. clock' \in Nat /\ clock + 1 \in Nat /\ clock + 1 # NotExist
    BY DEF TypeOK, NotExist
  <1>2. mtime' \in [Node -> Nat \cup {NotExist}]
    BY <1>1 DEF TypeOK
  <1>3. \A m \in Node : mtime'[m] = mtime[m] \/ mtime'[m] = clock + 1
    BY DEF TypeOK
  <1>4. \A m \in Node : Exists(m) => Exists(m)'
    BY <1>1, <1>3 DEF Exists
  <1> QED BY <1>1, <1>2, <1>4 DEF There

\* Going on after one call, of a frame or of Exec.
LEMMA GoOnShape ==
    ASSUME Shape, NEW stk \in Seq(Frame), GoOn(stk, stack'), Matched(stk, todo),
           phase # "idle", phase' = phase,
           todo \in Seq(Node), todo # << >> \/ stk # << >>,
           todo' = ResumeRoots(stk)
    PROVE  stack' \in Seq(Frame) /\ todo' \in Seq(Node) /\ CallsMatch' /\ IdleIsEmpty'
  <1>1. stack' \in Seq(Frame) /\ IdleIsEmpty'
    BY DEF GoOn, IdleIsEmpty
  <1>2. CASE stk = << >>
    <2>1. todo' = Tail(todo) /\ todo' \in Seq(Node)
      BY <1>2, HeadTailProperties DEF ResumeRoots
    <2>2. Len(stack') = 0 /\ stack' = << >>
      BY <1>1, <1>2, EmptySeq DEF GoOn
    <2> QED BY <1>1, <2>1, <2>2 DEF CallsMatch, Matched
  <1>3. CASE stk # << >>
    <2>1. todo' = todo
      BY <1>3 DEF ResumeRoots
    <2>2. Matched(stack', todo)
      BY <1>3, GoOnMatched
    <2> QED BY <1>1, <2>1, <2>2 DEF CallsMatch
  <1> QED BY <1>2, <1>3

\* A call that is skipped or answered from done_.
LEMMA PassShape ==
    ASSUME Shape, SkipOrderOnly \/ Revisit
    PROVE  Shape'
  <1>1. /\ Calling /\ phase' = phase /\ UNCHANGED <<proc, done, count, files, ghosts>>
    BY DEF SkipOrderOnly, Revisit, Entering
  <1>2. GoOn(stack, stack') /\ todo' = ResumeRoots(stack)
    <2>1. CASE SkipOrderOnly
      BY <2>1, SkipGoesOn DEF SkipOrderOnly, ResumeRoots
    <2>2. CASE Revisit
      BY <2>2, RevisitGoesOn DEF Revisit
    <2> QED BY <2>1, <2>2
  <1>3. phase # "idle" /\ (todo # << >> \/ stack # << >>)
    BY <1>1 DEF Calling
  <1>4. stack \in Seq(Frame) /\ todo \in Seq(Node) /\ Matched(stack, todo)
    BY DEF Shape, TypeOK, CallsMatch
  <1>5. stack' \in Seq(Frame) /\ todo' \in Seq(Node) /\ CallsMatch' /\ IdleIsEmpty'
    BY <1>1, <1>2, <1>3, <1>4, GoOnShape
  <1> QED BY <1>1, <1>5 DEF Shape, TypeOK, proc, files, ghosts

\* The frame of a new call.
NewFrame(n) ==
    [node |-> n, ts |-> mtime[n], latest |-> Processing, rest |-> Visits(n), cmds |-> -1]

\* Enter puts it on the stack and marks its target.
LEMMA EnterIs ==
    ASSUME Shape, Enter
    PROVE  /\ Called.node \in Node /\ done[Called.node] = Absent
           /\ done' = [done EXCEPT ![Called.node] = Processing]
           /\ NewFrame(Called.node) \in Frame
           /\ stack' \in Seq(Frame) /\ Len(stack) \in Nat /\ Len(stack') = Len(stack) + 1
           /\ \A i \in 1 .. Len(stack) : stack'[i] = stack[i]
           /\ \A i \in 1 .. Len(stack) + 1 : i > Len(stack) => stack'[i] = NewFrame(Called.node)
           /\ UNCHANGED <<phase, proc, todo, count, files, ghosts>>
  <1>1. Calling /\ done[Called.node] = Absent /\ stack \in Seq(Frame)
    BY DEF Enter, Entering, Shape, TypeOK
  <1>2. Called.node \in Node /\ mtime[Called.node] \in Nat \cup {NotExist}
    BY <1>1, CalledIs DEF Call
  <1>3. NewFrame(Called.node) \in Frame
    BY <1>2, VisitsAre DEF NewFrame, Frame, Call
  <1>4. stack' = Append(stack, NewFrame(Called.node))
        /\ done' = [done EXCEPT ![Called.node] = Processing]
        /\ UNCHANGED <<phase, proc, todo, count, files, ghosts>>
    BY DEF Enter, NewFrame
  <1> HIDE DEF NewFrame
  <1>5. /\ stack' \in Seq(Frame) /\ Len(stack) \in Nat /\ Len(stack') = Len(stack) + 1
        /\ \A i \in 1 .. Len(stack) : stack'[i] = stack[i]
        /\ \A i \in 1 .. Len(stack) + 1 : i > Len(stack) => stack'[i] = NewFrame(Called.node)
    BY <1>1, <1>3, <1>4
  <1> QED BY <1>1, <1>2, <1>3, <1>4, <1>5

\* Enter calls the target that the top frame, or Exec, has next.
LEMMA EnterShape ==
    ASSUME Shape, Enter
    PROVE  Shape'
  <1>1. Calling
    BY DEF Enter, Entering
  <1>2. IdleIsEmpty'
    BY <1>1, EnterIs DEF Calling, IdleIsEmpty
  <1>3. TypeOK'
    <2>1. done' \in [Node -> Nat \cup {Processing, Absent}]
      BY EnterIs DEF Shape, TypeOK
    <2> QED BY <2>1, EnterIs DEF Shape, TypeOK, proc, files, ghosts
  <1>4. CallsMatch'
    <2>1. PICK n : n = Called.node
      OBVIOUS
    <2>2. PICK k \in Nat : k = Len(stack)
      BY EnterIs
    <2>3. /\ stack \in Seq(Frame) /\ Len(stack') = k + 1 /\ todo' = todo
          /\ \A i \in 1 .. k : stack'[i] = stack[i]
      BY <2>2, EnterIs DEF Shape, TypeOK
    <2>4. \A i \in 1 .. k + 1 : i > k => stack'[i].node = n
      BY <2>1, <2>2, EnterIs DEF NewFrame
    <2>5. CASE stack = << >>
      <3>1. k = 0
        BY <2>2, <2>5, EmptySeq
      <3>2. todo # << >> /\ n = Head(todo)
        BY <1>1, <2>1, <2>5, CalledIs DEF Visit
      <3>3. Len(stack') = 1 /\ stack'[1].node = n
        BY <2>3, <2>4, <3>1
      <3>4. todo' # << >> /\ stack'[1].node = Head(todo')
        BY <2>3, <3>2, <3>3
      <3>5. \A i \in 1 .. Len(stack') : ~(i > 1)
        BY <3>3
      <3> QED BY <3>4, <3>5 DEF CallsMatch, Matched
    <2>6. CASE stack # << >>
      <3>1. k >= 1
        BY <2>2, <2>3, <2>6, EmptySeq
      <3>2. stack[k].rest # << >> /\ n = Head(stack[k].rest).node
        BY <1>1, <2>1, <2>2, <2>6, CalledIs DEF Depth
      <3>3. stack'[1].node = Head(todo) /\ todo # << >>
        BY <2>3, <2>6, <3>1 DEF Shape, CallsMatch, Matched
      <3>4. ASSUME NEW i \in 1 .. k + 1, i > 1
            PROVE  /\ stack'[i - 1].rest # << >>
                   /\ stack'[i].node = Head(stack'[i - 1].rest).node
        <4>1. stack'[i - 1] = stack[i - 1]
          BY <2>3, <3>4
        <4>2. CASE i = k + 1
          <5>1. i - 1 = k /\ stack'[i].node = n
            BY <2>4, <4>2
          <5> QED BY <3>2, <4>1, <5>1
        <4>3. CASE i # k + 1
          <5>1. i \in 1 .. k /\ stack'[i] = stack[i]
            BY <2>3, <4>3
          <5> QED BY <2>2, <3>4, <4>1, <5>1 DEF Shape, CallsMatch, Matched
        <4> QED BY <4>2, <4>3
      <3> QED BY <2>3, <3>3, <3>4 DEF CallsMatch, Matched
    <2> QED BY <2>5, <2>6
  <1> QED BY <1>2, <1>3, <1>4 DEF Shape

\* A target that is up to date has a file.
LEMMA ReturnIs ==
    ASSUME Shape, UpToDate \/ Finish
    PROVE  /\ Made /\ UNCHANGED <<phase, proc, count, files, ghosts>>
           /\ \E t \in Nat : Return(t)
  <1>1. CASE UpToDate
    <2>1. Top \in Frame /\ Top.ts >= Top.latest
      BY <1>1, MadeIs DEF UpToDate, IsUpToDate
    <2>2. Top.ts \in Nat
      BY <2>1 DEF Frame, Processing, NotExist
    <2> QED BY <1>1, <2>2 DEF UpToDate
  <1>2. CASE Finish
    <2>1. clock + 1 \in Nat
      BY DEF Shape, TypeOK
    <2> QED BY <1>2, <2>1 DEF Finish
  <1> QED BY <1>1, <1>2

\* A call returns.
LEMMA ReturnShape ==
    ASSUME Shape, UpToDate \/ Finish
    PROVE  Shape'
  <1>1. PICK t \in Nat : Return(t)
    BY ReturnIs
  <1>2. Made /\ UNCHANGED <<phase, proc, count, files, ghosts>>
    BY ReturnIs
  <1>3. GoOn(Below, stack') /\ todo' = ResumeRoots(Below)
        /\ done' = [done EXCEPT ![Top.node] = t]
    BY <1>1, <1>2, ReturnGoesOn DEF Return, Below
  <1>4. Below \in Seq(Frame) /\ Matched(Below, todo) /\ todo \in Seq(Node)
        /\ (todo # << >> \/ Below # << >>) /\ phase # "idle" /\ phase' = phase
    BY <1>2, MadeIs DEF Made, Shape, TypeOK
  <1>5. stack' \in Seq(Frame) /\ todo' \in Seq(Node) /\ CallsMatch' /\ IdleIsEmpty'
    BY <1>3, <1>4, GoOnShape
  <1>6. done' \in [Node -> Nat \cup {Processing, Absent}]
    BY <1>2, <1>3, MadeIs DEF Shape, TypeOK
  <1> QED BY <1>2, <1>5, <1>6 DEF Shape, TypeOK, proc, files, ghosts

\* The commands of the top frame.
LEMMA CmdsIs ==
    ASSUME Shape, EvalCommands \/ RunCommand
    PROVE  /\ Made /\ UNCHANGED <<phase, proc, todo, done, ghosts>>
           /\ \E c \in Nat : stack' = [stack EXCEPT ![Depth].cmds = c]
  <1>1. CASE EvalCommands
    <2>1. NumCmds[Top.node] \in Nat
      BY <1>1, GraphAssumption, MadeIs DEF EvalCommands, GraphAssumption
    <2> QED BY <1>1, <2>1 DEF EvalCommands
  <1>2. CASE RunCommand
    <2>1. Top \in Frame /\ Top.cmds > 0 /\ Top = stack[Depth]
      BY <1>2, MadeIs DEF RunCommand
    <2>2. Top.cmds - 1 \in Nat
      BY <2>1 DEF Frame
    <2>3. stack' = [stack EXCEPT ![Depth].cmds = Top.cmds - 1]
      BY <1>2, <2>1 DEF RunCommand
    <2> QED BY <1>2, <2>2, <2>3 DEF RunCommand
  <1> QED BY <1>1, <1>2

\* Files that a command may write.
LEMMA CmdsFiles ==
    ASSUME Shape, EvalCommands \/ RunCommand
    PROVE  /\ clock' \in Nat /\ mtime' \in [Node -> Nat \cup {NotExist}] /\ count' \in Nat
           /\ There \subseteq There' /\ \A m \in Node : Exists(m) => Exists(m)'
  <1>1. CASE UNCHANGED files
    BY <1>1 DEF EvalCommands, RunCommand, files, Shape, TypeOK, There, Exists
  <1>2. CASE ~UNCHANGED files
    <2>1. RunCommand /\ Wrote(Top.node) /\ Made
      BY <1>2 DEF EvalCommands, RunCommand
    <2>2. Top.node \in Node /\ clock' = clock + 1
          /\ mtime' \in {mtime, [mtime EXCEPT ![Top.node] = clock + 1]}
      BY <2>1, MadeIs DEF Wrote
    <2>3. count' \in Nat
      BY <2>1 DEF RunCommand, Shape, TypeOK
    <2> QED BY <2>2, <2>3, FilesType DEF Shape
  <1> QED BY <1>1, <1>2

\* A command runs.
LEMMA CmdsShape ==
    ASSUME Shape, EvalCommands \/ RunCommand
    PROVE  Shape'
  <1>1. Made /\ UNCHANGED <<phase, proc, todo, done, ghosts>>
    BY CmdsIs
  <1>2. PICK c \in Nat : stack' = [stack EXCEPT ![Depth].cmds = c]
    BY CmdsIs
  <1>3. TypeOK'
    BY <1>1, <1>2, CmdsFiles, CmdsChange DEF Shape, TypeOK, proc, ghosts
  <1>4. /\ Len(stack') = Len(stack) /\ stack # << >> /\ Len(stack) \in Nat /\ Len(stack) > 0
        /\ \A i \in 1 .. Len(stack) : /\ stack'[i].node = stack[i].node
                                       /\ stack'[i].rest = stack[i].rest
    BY <1>1, <1>2, MadeIs, CmdsChange DEF Made
  <1>5. CallsMatch'
    <2>1. todo # << >> /\ stack'[1].node = Head(todo) /\ todo' = todo
      BY <1>1, <1>4 DEF Shape, CallsMatch, Matched
    <2>2. \A i \in 1 .. Len(stack) : i > 1 =>
             stack'[i - 1].rest # << >> /\ stack'[i].node = Head(stack'[i - 1].rest).node
      BY <1>4 DEF Shape, CallsMatch, Matched
    <2> QED BY <1>4, <2>1, <2>2 DEF CallsMatch, Matched
  <1> QED BY <1>1, <1>3, <1>5 DEF Shape, IdleIsEmpty, Made

\* The process stops, or the next Exec starts: nothing is left of the calls.
Ends == NoRuleError \/ RunCommandError \/ Kill
        \/ MakefilesMade \/ StartOver \/ MakeGoals \/ Start

\* done_ is a new one, and files are kept.
LEMMA EndsIs ==
    ASSUME Shape, Ends
    PROVE  /\ stack' = << >> /\ done' = [n \in Node |-> Absent] /\ TypeOK'
           /\ There \subseteq There' /\ \A m \in Node : Exists(m) => Exists(m)'
  <1>1. stack' = << >> /\ stack' \in Seq(Frame) /\ done' = [n \in Node |-> Absent] /\ count' = 0
    BY EmptySeq DEF Ends, NoRuleError, RunCommandError, Kill, Stop,
                    MakefilesMade, StartOver, MakeGoals, Start, NextExec
  <1>2. done' \in [Node -> Nat \cup {Processing, Absent}]
    BY <1>1
  <1>3. /\ clock' \in Nat /\ mtime' \in [Node -> Nat \cup {NotExist}]
        /\ There \subseteq There' /\ \A m \in Node : Exists(m) => Exists(m)'
    <2>1. CASE RunCommandError
      BY <2>1, MadeIs, FilesType DEF RunCommandError, Shape
    <2>2. CASE ~RunCommandError
      <3>1. clock' = clock /\ mtime' = mtime
        BY <2>2 DEF Ends, NoRuleError, Kill, MakefilesMade, StartOver, MakeGoals, Start, files
      <3> QED BY <3>1 DEF Shape, TypeOK, There, Exists
    <2> QED BY <2>1, <2>2
  <1>4. todo' \in Seq(Node) /\ goals' \in Seq(Node) /\ settled' \in Seq(Node)
        /\ phase' \in {"idle", "makefiles", "optional", "goals"}
    BY GraphAssumption, EmptySeq
       DEF Ends, NoRuleError, RunCommandError, Kill, Stop, MakefilesMade, StartOver,
           MakeGoals, Start, NextExec, GraphAssumption, Shape, TypeOK, proc, ghosts
  <1>5. outcome' \in {"none", "ok", "error", "killed"} /\ runs' \in Nat /\ edits' \in Nat
    BY DEF Ends, NoRuleError, RunCommandError, Kill, Stop, MakefilesMade, StartOver,
           MakeGoals, Start, NextExec, Shape, TypeOK, proc, ghosts
  <1>6. dry' \in BOOLEAN /\ updated' \in BOOLEAN
    BY DEF Ends, NoRuleError, RunCommandError, Kill, Stop, MakefilesMade, StartOver,
           MakeGoals, Start, NextExec, Shape, TypeOK, proc, ghosts
  <1> QED BY <1>1, <1>2, <1>3, <1>4, <1>5, <1>6 DEF TypeOK

\* A run ends well, or the user edits a file: the calls are unchanged.
LEMMA IdleIs ==
    ASSUME Shape, Exit \/ Edit
    PROVE  /\ stack = << >> /\ UNCHANGED <<stack, done, todo>> /\ TypeOK'
           /\ There \subseteq There' /\ \A m \in Node : Exists(m) => Exists(m)'
  <1>1. stack = << >> /\ UNCHANGED <<stack, done, todo, proc, count, runs>>
    BY DEF Exit, Edit, ExecEnds, Shape, IdleIsEmpty
  <1>2. /\ clock' \in Nat /\ mtime' \in [Node -> Nat \cup {NotExist}]
        /\ There \subseteq There' /\ \A m \in Node : Exists(m) => Exists(m)'
    <2>1. CASE Exit
      BY <2>1 DEF Exit, files, Shape, TypeOK, There, Exists
    <2>2. CASE Edit
      <3>1. PICK n \in Source : mtime' = [mtime EXCEPT ![n] = clock + 1]
        BY <2>2 DEF Edit
      <3>2. n \in Node /\ clock' = clock + 1
        BY <2>2, GraphAssumption DEF Edit, GraphAssumption
      <3> QED BY <3>1, <3>2, FilesType DEF Shape
    <2> QED BY <2>1, <2>2
  <1>3. /\ settled' \in Seq(Node) /\ outcome' \in {"none", "ok", "error", "killed"}
        /\ edits' \in Nat /\ phase' \in {"idle", "makefiles", "optional", "goals"}
    <2>1. CASE Exit
      <3>1. settled' = << >> \/ settled' = goals
        BY <2>1 DEF Exit
      <3> QED BY <2>1, <3>1, EmptySeq DEF Exit, Shape, TypeOK
    <2>2. CASE Edit
      BY <2>2, EmptySeq DEF Edit, Shape, TypeOK
    <2> QED BY <2>1, <2>2
  <1> QED BY <1>1, <1>2, <1>3 DEF Shape, TypeOK, proc

\* Every step keeps the types and the shape of the stack.
LEMMA ShapeStep ==
    ASSUME Shape, [Next]_vars
    PROVE  Shape'
  <1>1. CASE SkipOrderOnly \/ Revisit
    BY <1>1, PassShape
  <1>2. CASE Enter
    BY <1>2, EnterShape
  <1>3. CASE UpToDate \/ Finish
    BY <1>3, ReturnShape
  <1>4. CASE EvalCommands \/ RunCommand
    BY <1>4, CmdsShape
  <1>5. CASE Ends
    BY <1>5, EndsIs, EmptyShape
  <1>6. CASE Exit \/ Edit
    BY <1>6, IdleIs, EmptyShape
  <1>7. CASE UNCHANGED vars
    BY <1>7 DEF vars, proc, files, ghosts, Shape, TypeOK, IdleIsEmpty, CallsMatch
  <1> QED BY <1>1, <1>2, <1>3, <1>4, <1>5, <1>6, <1>7 DEF Next, ExecNode, Run, Ends

\* The initial states have the shape.
LEMMA ShapeInit == Init => Shape
  <1> SUFFICES ASSUME Init PROVE Shape
    OBVIOUS
  <1>1. stack = << >> /\ Len(stack) = 0 /\ stack \in Seq(Frame)
    BY EmptySeq DEF Init
  <1>2. goals \in Seq(Node) /\ settled \in Seq(Node) /\ todo \in Seq(Node)
    BY EmptySeq DEF Init
  <1>3. mtime \in [Node -> Nat \cup {NotExist}]
    BY DEF Init
  <1>4. done \in [Node -> Nat \cup {Processing, Absent}]
    BY DEF Init
  <1>5. dry \in BOOLEAN /\ updated \in BOOLEAN
    BY Zenon DEF Init
  <1>6. /\ count \in Nat /\ clock \in Nat /\ runs \in Nat /\ edits \in Nat
        /\ phase \in {"idle", "makefiles", "optional", "goals"}
        /\ outcome \in {"none", "ok", "error", "killed"}
    BY DEF Init
  <1>7. TypeOK
    BY <1>1, <1>2, <1>3, <1>4, <1>5, <1>6 DEF TypeOK
  <1> QED BY <1>1, <1>7 DEF Shape, IdleIsEmpty, CallsMatch, Matched

\* TypeOK is an invariant: in particular a call that returns always finds the
\* caller that waits for it, so that ExecNode never pops what is not there.
THEOREM TypeCorrect == Spec => []TypeOK
  <1>1. Init => Shape
    BY ShapeInit
  <1>2. Shape /\ [Next]_vars => Shape'
    BY ShapeStep
  <1>3. Shape => TypeOK
    BY DEF Shape
  <1> QED BY <1>1, <1>2, <1>3, PTL DEF Spec

-----------------------------------------------------------------------------
(* A target is made within one call.                                       *)

\* ProcessingIsOnStack, with positions counted.
OnStack(stk, dn) ==
    /\ \A n \in Node : dn[n] = Processing <=> \E i \in 1 .. Len(stk) : stk[i].node = n
    /\ \A i, j \in 1 .. Len(stk) : stk[i].node = stk[j].node => i = j

\* It is the invariant.
LEMMA OnStackIs ==
    ASSUME TypeOK
    PROVE  ProcessingIsOnStack <=> OnStack(stack, done)
  <1>1. DOMAIN stack = 1 .. Len(stack)
    BY LenProperties DEF TypeOK
  <1> QED BY <1>1 DEF ProcessingIsOnStack, OnStack

\* A step that keeps the targets of the calls.
LEMMA SameNodes ==
    ASSUME OnStack(stack, done), done' = done, Len(stack') = Len(stack),
           \A i \in 1 .. Len(stack) : stack'[i].node = stack[i].node
    PROVE  OnStack(stack', done')
  BY DEF OnStack

\* A call that goes on keeps its target.
LEMMA GoOnNodes ==
    ASSUME NEW stk \in Seq(Frame), NEW new, GoOn(stk, new)
    PROVE  /\ Len(new) = Len(stk)
           /\ \A i \in 1 .. Len(stk) : new[i].node = stk[i].node /\ new[i].cmds = stk[i].cmds
  <1>1. stk # << >> => Len(stk) \in 1 .. Len(stk)
    BY EmptySeq
  <1>2. stk = << >> => Len(stk) = 0
    BY EmptySeq
  <1> QED BY <1>1, <1>2 DEF GoOn

\* A new call is for a target that no other call is making.
LEMMA EnterOnStack ==
    ASSUME Shape, OnStack(stack, done), Enter
    PROVE  OnStack(stack', done')
  <1>1. PICK n \in Node : n = Called.node
    BY EnterIs
  <1>2. PICK k \in Nat : k = Len(stack)
    BY EnterIs
  <1>3. /\ done \in [Node -> Nat \cup {Processing, Absent}] /\ done[n] = Absent
        /\ done' = [done EXCEPT ![n] = Processing]
    BY <1>1, EnterIs DEF Shape, TypeOK
  <1>4. done[n] # Processing /\ done'[n] = Processing
        /\ \A m \in Node : m # n => done'[m] = done[m]
    BY <1>3 DEF Processing, Absent
  <1>5. Len(stack') = k + 1 /\ \A i \in 1 .. k : stack'[i].node = stack[i].node
    BY <1>2, EnterIs
  <1>6. \A i \in 1 .. k + 1 : i > k => stack'[i].node = n
    BY <1>1, <1>2, EnterIs DEF NewFrame
  <1>7. \A i \in 1 .. k : stack[i].node # n
    BY <1>2, <1>4 DEF OnStack
  <1>8. ASSUME NEW m \in Node
        PROVE  done'[m] = Processing <=> \E i \in 1 .. k + 1 : stack'[i].node = m
    <2>1. CASE m = n
      <3>1. k + 1 \in 1 .. k + 1 /\ k + 1 > k
        OBVIOUS
      <3> QED BY <1>4, <1>6, <2>1, <3>1
    <2>2. CASE m # n
      <3>1. done'[m] = Processing <=> \E i \in 1 .. k : stack[i].node = m
        BY <1>2, <1>4, <2>2 DEF OnStack
      <3>2. \A i \in 1 .. k : i \in 1 .. k + 1
        OBVIOUS
      <3>3. \A i \in 1 .. k + 1 : i \in 1 .. k \/ i > k
        OBVIOUS
      <3> QED BY <1>5, <1>6, <2>2, <3>1, <3>2, <3>3
    <2> QED BY <2>1, <2>2
  <1>9. ASSUME NEW i \in 1 .. k + 1, NEW j \in 1 .. k + 1, stack'[i].node = stack'[j].node
        PROVE  i = j
    <2>1. CASE i \in 1 .. k /\ j \in 1 .. k
      BY <1>2, <1>5, <1>9, <2>1 DEF OnStack
    <2>2. CASE i > k /\ j \in 1 .. k
      BY <1>5, <1>6, <1>7, <1>9, <2>2
    <2>3. CASE j > k /\ i \in 1 .. k
      BY <1>5, <1>6, <1>7, <1>9, <2>3
    <2> QED BY <2>1, <2>2, <2>3
  <1> QED BY <1>5, <1>8, <1>9 DEF OnStack

\* A call that returns was the only one that made its target.
LEMMA ReturnOnStack ==
    ASSUME Shape, OnStack(stack, done), Made, NEW t \in Nat, Return(t)
    PROVE  /\ OnStack(stack', done')
           /\ Len(stack') = Depth - 1 /\ done[Top.node] = Processing
           /\ \A i \in 1 .. Depth - 1 : /\ stack'[i].node = stack[i].node
                                        /\ stack'[i].cmds = stack[i].cmds
                                        /\ stack'[i].node # Top.node
           /\ \A m \in Node : m # Top.node => done'[m] = done[m]
           /\ done'[Top.node] = t /\ t # Processing
  <1>1. PICK n \in Node : n = Top.node
    BY MadeIs
  <1>2. PICK k \in Nat : k = Depth
    BY MadeIs
  <1>3. /\ done \in [Node -> Nat \cup {Processing, Absent}]
        /\ done' = [done EXCEPT ![n] = t]
    BY <1>1 DEF Shape, TypeOK, Return
  <1>4. done'[n] = t /\ t # Processing /\ \A m \in Node : m # n => done'[m] = done[m]
    BY <1>3 DEF Processing
  <1>5. Len(stack') = k - 1 /\ Len(stack) = k /\ k \in 1 .. k
        /\ \A i \in 1 .. k - 1 : stack'[i].node = stack[i].node /\ stack'[i].cmds = stack[i].cmds
    BY <1>2, MadeIs, ReturnGoesOn, GoOnNodes
  <1>6. stack[k].node = n
    BY <1>1, <1>2, MadeIs
  <1>7. \A i \in 1 .. k - 1 : stack[i].node # n
    <2>1. \A i \in 1 .. k - 1 : i \in 1 .. k /\ i # k
      OBVIOUS
    <2> QED BY <1>5, <1>6, <2>1 DEF OnStack
  <1>8. ASSUME NEW m \in Node
        PROVE  done'[m] = Processing <=> \E i \in 1 .. k - 1 : stack'[i].node = m
    <2>1. CASE m = n
      BY <1>4, <1>5, <1>7, <2>1
    <2>2. CASE m # n
      <3>1. done'[m] = Processing <=> \E i \in 1 .. k : stack[i].node = m
        BY <1>4, <1>5, <2>2 DEF OnStack
      <3>2. \A i \in 1 .. k : i \in 1 .. k - 1 \/ i = k
        OBVIOUS
      <3>3. \A i \in 1 .. k - 1 : i \in 1 .. k
        OBVIOUS
      <3> QED BY <1>5, <1>6, <2>2, <3>1, <3>2, <3>3
    <2> QED BY <2>1, <2>2
  <1>9. \A i, j \in 1 .. k - 1 : stack'[i].node = stack'[j].node => i = j
    <2>1. \A i \in 1 .. k - 1 : i \in 1 .. k
      OBVIOUS
    <2> QED BY <1>5, <2>1 DEF OnStack
  <1>10. done[n] = Processing
    BY <1>5, <1>6 DEF OnStack
  <1>11. OnStack(stack', done')
    BY <1>5, <1>8, <1>9 DEF OnStack
  <1> QED BY <1>1, <1>2, <1>4, <1>5, <1>7, <1>10, <1>11

\* No call is active and no target is being made.
LEMMA EmptyOnStack ==
    ASSUME NEW dn, \A n \in Node : dn[n] # Processing
    PROVE  OnStack(<< >>, dn)
  <1>1. Len(<< >>) = 0
    BY EmptySeq
  <1> QED BY <1>1 DEF OnStack

\* Every step keeps the recursion sound.
LEMMA OnStackStep ==
    ASSUME Shape, OnStack(stack, done), [Next]_vars
    PROVE  OnStack(stack', done')
  <1>0. stack \in Seq(Frame)
    BY DEF Shape, TypeOK
  <1>1. CASE SkipOrderOnly \/ Revisit
    <2>1. GoOn(stack, stack') /\ done' = done
      BY <1>1, SkipGoesOn, RevisitGoesOn DEF SkipOrderOnly, Revisit
    <2> QED BY <1>0, <2>1, GoOnNodes, SameNodes
  <1>2. CASE Enter
    BY <1>2, EnterOnStack
  <1>3. CASE UpToDate \/ Finish
    BY <1>3, ReturnIs, ReturnOnStack
  <1>4. CASE EvalCommands \/ RunCommand
    <2>1. PICK c \in Nat : stack' = [stack EXCEPT ![Depth].cmds = c]
      BY <1>4, CmdsIs
    <2>2. Made /\ done' = done
      BY <1>4, CmdsIs
    <2>3. Len(stack') = Len(stack) /\ \A i \in 1 .. Len(stack) : stack'[i].node = stack[i].node
      BY <2>1, <2>2, MadeIs, CmdsChange
    <2> QED BY <2>2, <2>3, SameNodes
  <1>5. CASE Ends
    <2>1. stack' = << >> /\ \A n \in Node : done'[n] # Processing
      BY <1>5, EndsIs DEF Processing, Absent
    <2> QED BY <2>1, EmptyOnStack
  <1>6. CASE Exit \/ Edit
    BY <1>6, IdleIs
  <1>7. CASE UNCHANGED vars
    BY <1>7 DEF vars
  <1> QED BY <1>1, <1>2, <1>3, <1>4, <1>5, <1>6, <1>7 DEF Next, ExecNode, Run, Ends

\* ProcessingIsOnStack is an invariant: kProcessing in done_ stands for the
\* one call of ExecNode that is making the target.
THEOREM RecursionSound == Spec => []ProcessingIsOnStack
  <1>1. Init => Shape /\ OnStack(stack, done)
    <2>1. Init => stack = << >> /\ \A n \in Node : done[n] # Processing
      BY DEF Init, Processing, Absent
    <2> QED BY <2>1, ShapeInit, EmptyOnStack
  <1>2. Shape /\ OnStack(stack, done) /\ [Next]_vars => Shape' /\ OnStack(stack, done)'
    BY ShapeStep, OnStackStep
  <1>3. Shape /\ OnStack(stack, done) => ProcessingIsOnStack
    BY OnStackIs DEF Shape
  <1> QED BY <1>1, <1>2, <1>3, PTL DEF Spec

-----------------------------------------------------------------------------
(* Circular dependencies.                                                  *)

\* A target that n depends on depends on whatever n is circular with.
LEMMA CircularSucc ==
    ASSUME NEW n \in Node, NEW d, NEW m \in B!Succ(n), B!Circular(n, d)
    PROVE  B!Circular(m, d)
  BY DEF B!Circular

\* Every target depends on itself in this sense.
LEMMA CircularSelf ==
    ASSUME NEW n
    PROVE  B!Circular(n, n)
  BY DEF B!Circular

\* VisitsAre, with a name for every sequence and length.
VisitsList(n, v, o, d, a, b) ==
    /\ v = Visits(n) /\ o = OrderOnlys[n] /\ d = Deps[n]
    /\ DOMAIN o = 1 .. a /\ DOMAIN d = 1 .. b /\ Len(v) = a + b
    /\ \A i \in 1 .. a : v[i].node = o[i]
    /\ \A i \in 1 .. b : v[a + i].node = d[i] /\ ~v[a + i].order

\* Every target has such a list.
LEMMA VisitsNamed ==
    ASSUME NEW n \in Node
    PROVE  \E v \in Seq(Call), o, d \in Seq(Node), a, b \in Nat : VisitsList(n, v, o, d, a, b)
  <1>1. /\ OrderOnlys[n] \in Seq(Node) /\ DOMAIN OrderOnlys[n] = 1 .. Len(OrderOnlys[n])
        /\ Deps[n] \in Seq(Node) /\ DOMAIN Deps[n] = 1 .. Len(Deps[n])
        /\ Len(OrderOnlys[n]) \in Nat /\ Len(Deps[n]) \in Nat
    BY GraphAssumption, LenProperties DEF GraphAssumption
  <1>2. \A m : Visit(m, TRUE).node = m /\ Visit(m, FALSE).node = m /\ ~Visit(m, FALSE).order
    BY DEF Visit
  <1>3. /\ \A i \in 1 .. Len(OrderOnlys[n]) : Visits(n)[i].node = OrderOnlys[n][i]
        /\ \A i \in 1 .. Len(Deps[n]) : /\ Visits(n)[Len(OrderOnlys[n]) + i].node = Deps[n][i]
                                         /\ ~Visits(n)[Len(OrderOnlys[n]) + i].order
    BY <1>2, VisitsAre
  <1>4. VisitsList(n, Visits(n), OrderOnlys[n], Deps[n], Len(OrderOnlys[n]), Len(Deps[n]))
    BY <1>1, <1>3, VisitsAre DEF VisitsList
  <1>5. Visits(n) \in Seq(Call)
    BY VisitsAre
  <1> QED BY <1>1, <1>4, <1>5

\* What ExecNode visits is what the target depends on.
LEMMA VisitIsSucc ==
    ASSUME NEW n \in Node, NEW k \in 1 .. Len(Visits(n))
    PROVE  Visits(n)[k] \in Call /\ Visits(n)[k].node \in B!Succ(n)
  <1>1. PICK v \in Seq(Call), o, d \in Seq(Node), a, b \in Nat : VisitsList(n, v, o, d, a, b)
    BY VisitsNamed
  <1>2. k \in 1 .. a + b /\ v[k] \in Call
    BY <1>1, ElementOfSeq DEF VisitsList
  <1>3. CASE k <= a
    <2>1. k \in DOMAIN o /\ v[k].node = o[k]
      BY <1>1, <1>2, <1>3 DEF VisitsList
    <2> QED BY <1>1, <1>2, <2>1 DEF VisitsList, B!Succ, B!Elems
  <1>4. CASE k > a
    <2>1. k - a \in 1 .. b /\ k = a + (k - a)
      BY <1>2, <1>4
    <2>2. k - a \in DOMAIN d /\ v[k].node = d[k - a]
      BY <1>1, <2>1 DEF VisitsList
    <2> QED BY <1>1, <1>2, <2>2 DEF VisitsList, B!Succ, B!Elems
  <1> QED BY <1>2, <1>3, <1>4

\* Everything a target depends on is visited.
LEMMA SuccIsVisited ==
    ASSUME NEW n \in Node
    PROVE  /\ \A d \in B!Elems(Deps[n]) : \E k \in 1 .. Len(Visits(n)) :
                 Visits(n)[k].node = d /\ ~Visits(n)[k].order
           /\ \A d \in B!Elems(OrderOnlys[n]) : \E k \in 1 .. Len(Visits(n)) :
                 Visits(n)[k].node = d
  <1>1. PICK v \in Seq(Call), o, d \in Seq(Node), a, b \in Nat : VisitsList(n, v, o, d, a, b)
    BY VisitsNamed
  <1>2. ASSUME NEW m \in B!Elems(d)
        PROVE  \E k \in 1 .. Len(v) : v[k].node = m /\ ~v[k].order
    <2>1. PICK i \in 1 .. b : m = d[i]
      BY <1>1, <1>2 DEF B!Elems, VisitsList
    <2>2. a + i \in 1 .. Len(v)
      BY <1>1 DEF VisitsList
    <2>3. v[a + i].node = m /\ ~v[a + i].order
      BY <1>1, <2>1 DEF VisitsList
    <2> QED BY <2>2, <2>3
  <1>3. ASSUME NEW m \in B!Elems(o)
        PROVE  \E k \in 1 .. Len(v) : v[k].node = m
    <2>1. PICK i \in 1 .. a : m = o[i]
      BY <1>1, <1>3 DEF B!Elems, VisitsList
    <2>2. i \in 1 .. Len(v) /\ v[i].node = m
      BY <1>1, <2>1 DEF VisitsList
    <2> QED BY <2>2
  <1> QED BY <1>1, <1>2, <1>3 DEF VisitsList

-----------------------------------------------------------------------------
(* What has been visited.                                                  *)

\* A frame that goes on has passed one more of its Visits.
LEMMA FrameGoesOn ==
    ASSUME NEW f \in Frame, NEW g \in Frame, f.rest # << >>, RestIs(f),
           g.node = f.node, g.cmds = f.cmds, g.rest = Tail(f.rest)
    PROVE  /\ RestIs(g) /\ Passed(f) \in Nat /\ Passed(g) = Passed(f) + 1
           /\ Passed(g) \in 1 .. Len(Visits(f.node))
           /\ Visits(f.node)[Passed(g)] = Head(f.rest)
  <1>1. f.rest \in Seq(Call) /\ f.node \in Node
    BY DEF Frame, Call
  <1>2. PICK v \in Seq(Call) : v = Visits(f.node)
    BY <1>1, VisitsAre
  <1>3. PICK r \in Seq(Call) : r = f.rest
    BY <1>1
  <1>4. Len(v) \in Nat /\ Len(r) \in Nat /\ Len(r) > 0 /\ Head(r) = r[1]
    BY <1>3, EmptySeq
  <1>5. Len(Tail(r)) = Len(r) - 1 /\ \A i \in 1 .. Len(r) - 1 : Tail(r)[i] = r[i + 1]
    BY <1>3, HeadTailProperties
  <1>6. Passed(f) = Len(v) - Len(r) /\ Passed(g) = Len(v) - Len(r) + 1
    <2>1. Passed(f) = Len(v) - Len(r) /\ Passed(g) = Len(v) - Len(Tail(r))
      BY <1>2, <1>3 DEF Passed
    <2>2. Len(v) - Len(Tail(r)) = Len(v) - Len(r) + 1
      <3>1. PICK x, y \in Nat : x = Len(v) /\ y = Len(r)
        BY <1>4
      <3>2. x - (y - 1) = x - y + 1
        OBVIOUS
      <3> QED BY <1>5, <3>1, <3>2
    <2> QED BY <2>1, <2>2
  <1>7. Len(v) - Len(r) >= 0 /\ \A k \in 1 .. Len(r) : r[k] = v[Len(v) - Len(r) + k]
    BY <1>2, <1>3, <1>6 DEF RestIs
  <1>8. \A k \in 1 .. Len(r) - 1 : Tail(r)[k] = v[Len(v) - Len(r) + 1 + k]
    <2> SUFFICES ASSUME NEW k \in 1 .. Len(r) - 1
                 PROVE  Tail(r)[k] = v[Len(v) - Len(r) + 1 + k]
      OBVIOUS
    <2>1. k + 1 \in 1 .. Len(r)
      BY <1>4
    <2>2. r[k + 1] = v[Len(v) - Len(r) + (k + 1)]
      BY <1>7, <2>1
    <2>3. Len(v) - Len(r) + (k + 1) = Len(v) - Len(r) + 1 + k
      BY <1>4
    <2>4. Tail(r)[k] = r[k + 1]
      BY <1>5
    <2> QED BY <2>2, <2>3, <2>4
  <1>9. RestIs(g)
    <2>1. f.cmds = -1
      BY DEF RestIs
    <2>2. g.rest = Tail(r) /\ Visits(g.node) = v
      BY <1>2, <1>3
    <2>3. Passed(g) >= 0
      BY <1>4, <1>6, <1>7
    <2>4. \A k \in 1 .. Len(g.rest) : g.rest[k] = Visits(g.node)[Passed(g) + k]
      BY <1>5, <1>6, <1>8, <2>2
    <2> QED BY <2>1, <2>3, <2>4 DEF RestIs
  <1>10. r[1] = v[Len(v) - Len(r) + 1]
    BY <1>4, <1>7
  <1>11. Len(v) - Len(r) \in Nat /\ Len(v) - Len(r) + 1 \in 1 .. Len(v)
    BY <1>4, <1>7
  <1> QED BY <1>2, <1>3, <1>4, <1>6, <1>9, <1>10, <1>11

\* What is made stays made, and files stay, until the Executor is gone.
Grows ==
    /\ \A m \in Node : done[m] \in Nat => done'[m] \in Nat
    /\ \A m \in Node : mtime[m] # NotExist => mtime'[m] # NotExist

\* What a frame has visited stays settled.
LEMMA VisitedStays ==
    ASSUME Grows, NEW f \in Frame, RestIs(f), Visited(f, done, mtime)
    PROVE  Visited(f, done', mtime')
  <1>1. f.node \in Node /\ f.rest \in Seq(Call)
    BY DEF Frame, Call
  <1>2. Visits(f.node) \in Seq(Call) /\ Len(Visits(f.node)) \in Nat /\ Len(f.rest) \in Nat
    BY <1>1, VisitsAre, LenProperties
  <1>3. ASSUME NEW k \in 1 .. Passed(f)
        PROVE  Visits(f.node)[k] \in Call
    <2>1. k \in 1 .. Len(Visits(f.node))
      BY <1>2 DEF Passed
    <2> QED BY <1>2, <2>1, ElementOfSeq
  <1>4. ASSUME NEW v \in Call, Settled(f.node, v, done, mtime)
        PROVE  Settled(f.node, v, done', mtime')
    <2>1. v.node \in Node
      BY DEF Call
    <2> QED BY <1>4, <2>1 DEF Settled, Grows
  <1> QED BY <1>3, <1>4 DEF Visited

\* One visit more: the calls of stk go on, and their last visit is settled.
LEMMA GoOnDepended ==
    ASSUME Grows, NEW stk \in Seq(Frame), GoOn(stk, stack'),
           \A i \in 1 .. Len(stk) : RestIs(stk[i]) /\ Visited(stk[i], done, mtime),
           \A i, j \in 1 .. Len(stk) : i <= j => B!Circular(stk[j].node, stk[i].node),
           stk # << >> =>
               LET f == stk[Len(stk)] IN
               f.rest # << >> /\ Settled(f.node, Head(f.rest), done', mtime')
    PROVE  Depended'
  <1>1. PICK k \in Nat : k = Len(stk)
    BY LenProperties
  <1>2. Len(stack') = k /\ \A i \in 1 .. k : stack'[i].node = stk[i].node
    BY <1>1, GoOnNodes
  <1>3. CallsReach'
    BY <1>1, <1>2 DEF CallsReach
  <1>4. ASSUME NEW i \in 1 .. k
        PROVE  RestIs(stack'[i]) /\ Visited(stack'[i], done', mtime')
    <2>1. PICK f \in Frame : f = stk[i]
      BY <1>1, ElementOfSeq
    <2>2. PICK g \in Frame : g = stack'[i]
      BY <1>1, <1>2, ElementOfSeq DEF GoOn
    <2>3. RestIs(f) /\ Visited(f, done, mtime) /\ Visited(f, done', mtime')
      BY <1>1, <2>1, VisitedStays
    <2>4. CASE i # k
      BY <1>1, <2>1, <2>3, <2>4 DEF GoOn
    <2>5. CASE i = k
      <3>1. stk # << >>
        BY <1>1, EmptySeq
      <3>2. /\ g.node = f.node /\ g.cmds = f.cmds /\ g.rest = Tail(f.rest)
            /\ f.rest # << >> /\ Settled(f.node, Head(f.rest), done', mtime')
        BY <1>1, <2>1, <2>2, <2>5, <3>1 DEF GoOn
      <3>3. /\ RestIs(g) /\ Passed(f) \in Nat /\ Passed(g) = Passed(f) + 1
            /\ Visits(f.node)[Passed(g)] = Head(f.rest)
        BY <2>3, <3>2, FrameGoesOn
      <3>4. \A j \in 1 .. Passed(g) : j \in 1 .. Passed(f) \/ j = Passed(g)
        BY <3>3
      <3>5. Visited(g, done', mtime')
        BY <2>3, <3>2, <3>3, <3>4 DEF Visited
      <3> QED BY <2>2, <3>3, <3>5
    <2> QED BY <2>4, <2>5
  <1>5. RestIsLast' /\ VisitedIsSettled'
    BY <1>2, <1>4 DEF RestIsLast, VisitedIsSettled
  <1> QED BY <1>3, <1>5 DEF Depended

\* A step that keeps the frames, but for their commands.
LEMMA SameDepended ==
    ASSUME Shape, Depended, Grows, Len(stack') = Len(stack),
           \A i \in 1 .. Len(stack) :
               /\ stack'[i].node = stack[i].node /\ stack'[i].rest = stack[i].rest
               /\ stack'[i].cmds = stack[i].cmds \/ stack[i].rest = << >>
    PROVE  Depended'
  <1>1. CallsReach'
    BY DEF Depended, CallsReach
  <1>2. ASSUME NEW i \in 1 .. Len(stack)
        PROVE  RestIs(stack'[i]) /\ Visited(stack'[i], done', mtime')
    <2>1. PICK f \in Frame : f = stack[i]
      BY ElementOfSeq DEF Shape, TypeOK
    <2>2. PICK g : g = stack'[i]
      OBVIOUS
    <2>3. RestIs(f) /\ Visited(f, done', mtime')
      BY <2>1, VisitedStays DEF Depended, RestIsLast, VisitedIsSettled
    <2>4. g.node = f.node /\ g.rest = f.rest /\ (g.cmds = f.cmds \/ f.rest = << >>)
      BY <2>1, <2>2
    <2>5. Passed(g) = Passed(f)
      BY <2>4 DEF Passed
    <2> QED BY <2>2, <2>3, <2>4, <2>5 DEF RestIs, Visited
  <1> QED BY <1>1, <1>2 DEF Depended, RestIsLast, VisitedIsSettled

\* A visit that is skipped exists, and one that is in the middle of being
\* made is a call below: the dependency is circular.
LEMMA PassDepended ==
    ASSUME Shape, OnStack(stack, done), Depended, SkipOrderOnly \/ Revisit
    PROVE  Depended'
  <1>1. stack \in Seq(Frame) /\ Calling /\ done' = done /\ mtime' = mtime
    BY DEF Shape, TypeOK, SkipOrderOnly, Revisit, Entering, files
  <1>2. GoOn(stack, stack')
    BY SkipGoesOn, RevisitGoesOn
  <1>3. Grows
    BY <1>1 DEF Grows
  <1>4. ASSUME stack # << >>
        PROVE  /\ stack[Len(stack)].rest # << >>
               /\ Settled(stack[Len(stack)].node, Head(stack[Len(stack)].rest), done', mtime')
    <2>1. PICK f \in Frame : f = stack[Len(stack)] /\ f.rest # << >> /\ Called = Head(f.rest)
      BY <1>1, <1>4, CalledIs DEF Depth
    <2>2. PICK k \in Nat : k = Len(stack) /\ k \in 1 .. k
      BY <1>1, <1>4, EmptySeq
    <2>3. PICK v \in Call : v = Called /\ v.node \in Node
      BY <1>1, CalledIs DEF Call
    <2>4. Settled(f.node, v, done, mtime)
      <3>1. CASE SkipOrderOnly
        BY <2>3, <3>1 DEF SkipOrderOnly, Settled, Exists
      <3>2. CASE Revisit
        <4>1. CASE done[v.node] \in Nat
          BY <4>1 DEF Settled
        <4>2. CASE done[v.node] = Processing
          <5>1. PICK i \in 1 .. k : stack[i].node = v.node
            BY <2>2, <2>3, <4>2 DEF OnStack
          <5>2. B!Circular(f.node, v.node)
            BY <2>1, <2>2, <5>1 DEF Depended, CallsReach
          <5> QED BY <5>2 DEF Settled
        <4> QED BY <2>3, <3>2, <4>1, <4>2, RevisitGoesOn
      <3> QED BY <3>1, <3>2
    <2> QED BY <1>1, <2>1, <2>3, <2>4
  <1> QED BY <1>1, <1>2, <1>3, <1>4, GoOnDepended DEF Depended, RestIsLast, CallsReach, VisitedIsSettled

\* A new call is for a dependency of the call that makes it.
LEMMA EnterDepended ==
    ASSUME Shape, Depended, Enter
    PROVE  Depended'
  <1>1. PICK n \in Node : n = Called.node
    BY EnterIs
  <1>2. PICK k \in Nat : k = Len(stack)
    BY EnterIs
  <1>3. PICK g \in Frame : g = NewFrame(n)
    BY <1>1, EnterIs
  <1>4. /\ stack \in Seq(Frame) /\ Len(stack') = k + 1
        /\ \A i \in 1 .. k : stack'[i] = stack[i]
        /\ \A i \in 1 .. k + 1 : i > k => stack'[i] = g
    BY <1>1, <1>2, <1>3, EnterIs DEF Shape, TypeOK
  <1>5. Grows
    <2>1. done \in [Node -> Nat \cup {Processing, Absent}] /\ mtime' = mtime
          /\ done[n] = Absent /\ done' = [done EXCEPT ![n] = Processing]
      BY <1>1, EnterIs DEF Shape, TypeOK, files
    <2> QED BY <2>1 DEF Grows, Absent
  <1>6. g.node = n /\ RestIs(g) /\ Visited(g, done', mtime')
    <2>1. g.node = n /\ g.rest = Visits(n) /\ g.cmds = -1
      BY <1>3 DEF NewFrame
    <2>2. Len(Visits(n)) \in Nat /\ Visits(n) \in Seq(Call)
      BY VisitsAre, LenProperties
    <2>3. Passed(g) = 0
      BY <2>1, <2>2 DEF Passed
    <2>4. \A j \in 1 .. Len(Visits(n)) : 0 + j = j
      BY <2>2
    <2> QED BY <2>1, <2>2, <2>3, <2>4 DEF RestIs, Visited
  <1>7. ASSUME NEW i \in 1 .. k + 1
        PROVE  RestIs(stack'[i]) /\ Visited(stack'[i], done', mtime')
    <2>1. CASE i > k
      BY <1>4, <1>6, <2>1
    <2>2. CASE i \in 1 .. k
      <3>1. PICK f \in Frame : f = stack[i] /\ stack'[i] = f
        BY <1>2, <1>4, <2>2, ElementOfSeq
      <3>2. RestIs(f) /\ Visited(f, done, mtime)
        BY <1>2, <2>2, <3>1 DEF Depended, RestIsLast, VisitedIsSettled
      <3> QED BY <1>5, <3>1, <3>2, VisitedStays
    <2> QED BY <2>1, <2>2
  <1>8. k > 0 => n \in B!Succ(stack[k].node) /\ stack[k].node \in Node
    <2> SUFFICES ASSUME k > 0
                 PROVE  n \in B!Succ(stack[k].node) /\ stack[k].node \in Node
      OBVIOUS
    <2>1. stack # << >> /\ k \in 1 .. k
      BY <1>2, <1>4, EmptySeq
    <2>2. Calling
      BY DEF Enter, Entering
    <2>3. PICK f \in Frame : f = stack[k] /\ f.rest # << >> /\ n = Head(f.rest).node
      BY <1>1, <1>2, <2>1, <2>2, CalledIs DEF Depth
    <2>4. RestIs(f) /\ f.node \in Node
      BY <1>2, <2>1, <2>3 DEF Depended, RestIsLast, Frame
    <2>5. PICK h \in Frame : h.node = f.node /\ h.cmds = f.cmds /\ h.rest = Tail(f.rest)
      BY <2>3, ResumedIs
    <2>6. Passed(h) \in 1 .. Len(Visits(f.node)) /\ Visits(f.node)[Passed(h)] = Head(f.rest)
      BY <2>3, <2>4, <2>5, FrameGoesOn
    <2> QED BY <2>3, <2>4, <2>6, VisitIsSucc
  <1>9. ASSUME NEW i \in 1 .. k + 1, NEW j \in 1 .. k + 1, i <= j
        PROVE  B!Circular(stack'[j].node, stack'[i].node)
    <2>1. CASE j \in 1 .. k
      <3>1. i \in 1 .. k
        BY <1>9, <2>1
      <3> QED BY <1>2, <1>4, <1>9, <2>1, <3>1 DEF Depended, CallsReach
    <2>2. CASE j > k /\ i > k
      BY <1>4, <2>2, CircularSelf
    <2>3. CASE j > k /\ i \in 1 .. k
      <3>1. k \in 1 .. k /\ i <= k /\ k > 0
        BY <2>3
      <3>2. B!Circular(stack[k].node, stack[i].node)
        BY <1>2, <2>3, <3>1 DEF Depended, CallsReach
      <3>3. B!Circular(n, stack[i].node)
        BY <1>8, <3>1, <3>2, CircularSucc
      <3> QED BY <1>4, <1>6, <2>3, <3>3
    <2> QED BY <2>1, <2>2, <2>3
  <1> QED BY <1>4, <1>7, <1>9 DEF Depended, RestIsLast, CallsReach, VisitedIsSettled

\* The target of a call that returns is made.
LEMMA ReturnDepended ==
    ASSUME Shape, OnStack(stack, done), Depended, Made, NEW t \in Nat, Return(t),
           mtime' = mtime
    PROVE  Depended' /\ Grows
  <1>1. PICK k \in Nat : k = Depth /\ k \in 1 .. k /\ k = Len(stack)
    BY MadeIs
  <1>2. Below \in Seq(Frame) /\ Len(Below) = k - 1 /\ \A i \in 1 .. k - 1 : Below[i] = stack[i]
    BY <1>1, MadeIs
  <1>3. GoOn(Below, stack')
    BY ReturnGoesOn
  <1>4. Grows
    BY ReturnOnStack DEF Grows
  <1>5. \A i \in 1 .. k - 1 : i \in 1 .. k
    OBVIOUS
  <1>6. /\ \A i \in 1 .. Len(Below) : RestIs(Below[i]) /\ Visited(Below[i], done, mtime)
        /\ \A i, j \in 1 .. Len(Below) : i <= j => B!Circular(Below[j].node, Below[i].node)
    <2>1. \A i \in 1 .. k : RestIs(stack[i]) /\ Visited(stack[i], done, mtime)
      BY <1>1 DEF Depended, RestIsLast, VisitedIsSettled
    <2>2. \A i, j \in 1 .. k : i <= j => B!Circular(stack[j].node, stack[i].node)
      BY <1>1 DEF Depended, CallsReach
    <2> QED BY <1>2, <1>5, <2>1, <2>2
  <1>7. Below # << >> =>
            LET f == Below[Len(Below)] IN
            f.rest # << >> /\ Settled(f.node, Head(f.rest), done', mtime')
    BY MadeIs, ReturnOnStack DEF Settled
  <1> QED BY <1>2, <1>3, <1>4, <1>6, <1>7, GoOnDepended

\* Nothing is left of the calls.
LEMMA EmptyDepended ==
    ASSUME stack' = << >>
    PROVE  Depended'
  <1>1. Len(stack') = 0
    BY EmptySeq
  <1> QED BY <1>1 DEF Depended, RestIsLast, CallsReach, VisitedIsSettled

\* Every step keeps what the calls have visited settled.
LEMMA DependedStep ==
    ASSUME Shape, OnStack(stack, done), Depended, [Next]_vars
    PROVE  Depended'
  <1>1. CASE SkipOrderOnly \/ Revisit
    BY <1>1, PassDepended
  <1>2. CASE Enter
    BY <1>2, EnterDepended
  <1>3. CASE UpToDate \/ Finish
    BY <1>3, ReturnIs, ReturnDepended DEF files
  <1>4. CASE EvalCommands \/ RunCommand
    <2>1. PICK c \in Nat : stack' = [stack EXCEPT ![Depth].cmds = c]
      BY <1>4, CmdsIs
    <2>2. Made /\ done' = done
      BY <1>4, CmdsIs
    <2>3. Grows
      BY <1>4, <2>2, CmdsFiles DEF Grows, Exists
    <2>4. Len(stack') = Len(stack)
          /\ \A i \in 1 .. Len(stack) :
               /\ stack'[i].node = stack[i].node /\ stack'[i].rest = stack[i].rest
               /\ stack'[i].cmds = stack[i].cmds \/ stack[i].rest = << >>
      BY <2>1, <2>2, MadeIs, CmdsChange
    <2> QED BY <2>3, <2>4, SameDepended
  <1>5. CASE Ends
    BY <1>5, EndsIs, EmptyDepended
  <1>6. CASE Exit \/ Edit
    BY <1>6, IdleIs, EmptyDepended
  <1>7. CASE UNCHANGED vars
    BY <1>7 DEF vars, files, Depended, RestIsLast, CallsReach, VisitedIsSettled
  <1> QED BY <1>1, <1>2, <1>3, <1>4, <1>5, <1>6, <1>7 DEF Next, ExecNode, Run, Ends

-----------------------------------------------------------------------------
(* Executor implements Build.                                              *)

\* BuildState as a function of the calls and of done_.
MakingIn(stk, n) == \E i \in 1 .. Len(stk) : stk[i].node = n /\ stk[i].cmds >= 0
StateIn(stk, dn) ==
    [n \in Node |-> CASE dn[n] = Absent -> "idle"
                      [] dn[n] = Processing -> IF MakingIn(stk, n) THEN "working" ELSE "begun"
                      [] OTHER -> "made"]

\* StateIn is BuildState.
LEMMA BuildStateIs ==
    ASSUME TypeOK
    PROVE  BuildState = StateIn(stack, done)
  <1>1. DOMAIN stack = 1 .. Len(stack)
    BY LenProperties DEF TypeOK
  <1>2. \A n : Making(n) <=> MakingIn(stack, n)
    BY <1>1 DEF Making, MakingIn
  <1> QED BY <1>2 DEF BuildState, StateIn

\* The same after a step.
LEMMA BuildStateNext ==
    ASSUME TypeOK'
    PROVE  BuildState' = StateIn(stack', done')
  <1>1. (DOMAIN stack)' = 1 .. Len(stack')
    BY LenProperties DEF TypeOK
  <1>2. \A n : Making(n)' <=> MakingIn(stack', n)
    BY <1>1 DEF Making, MakingIn
  <1> QED BY <1>2 DEF BuildState, StateIn

\* The state of a target depends on its own entry and call only.
LEMMA StateAt ==
    ASSUME NEW s, NEW d, NEW n \in Node
    PROVE  /\ d[n] = Absent => StateIn(s, d)[n] = "idle"
           /\ d[n] = Processing /\ MakingIn(s, n) => StateIn(s, d)[n] = "working"
           /\ d[n] = Processing /\ ~MakingIn(s, n) => StateIn(s, d)[n] = "begun"
           /\ d[n] \in Nat => StateIn(s, d)[n] = "made"
           /\ StateIn(s, d) \in [Node -> {"idle", "begun", "working", "made"}]
  BY DEF StateIn, Absent, Processing

\* Where neither changes, the state does not.
LEMMA SameStateAt ==
    ASSUME NEW s, NEW d, NEW s1, NEW d1, NEW n \in Node,
           d1[n] = d[n], MakingIn(s1, n) <=> MakingIn(s, n)
    PROVE  StateIn(s1, d1)[n] = StateIn(s, d)[n]
  BY DEF StateIn

\* One target changes its state.
LEMMA OneChanges ==
    ASSUME NEW n \in Node, NEW x, StateIn(stack', done')[n] = x,
           \A m \in Node : m # n =>
               done'[m] = done[m] /\ (MakingIn(stack', m) <=> MakingIn(stack, m))
    PROVE  StateIn(stack', done') = [StateIn(stack, done) EXCEPT ![n] = x]
  <1> DEFINE f == StateIn(stack, done) f1 == StateIn(stack', done')
  <1>1. \A m \in Node : m # n => f1[m] = f[m]
    BY SameStateAt
  <1>2. f1 = [m \in Node |-> f1[m]] /\ f = [m \in Node |-> f[m]] /\ f1[n] = x
    BY DEF StateIn
  <1> HIDE DEF f, f1
  <1>3. f1 = [f EXCEPT ![n] = x]
    BY <1>1, <1>2
  <1> QED BY <1>3 DEF f, f1

\* No target changes its state.
LEMMA NoneChanges ==
    ASSUME NEW s, NEW d, NEW s1, NEW d1,
           \A m \in Node : d1[m] = d[m] /\ (MakingIn(s1, m) <=> MakingIn(s, m))
    PROVE  StateIn(s1, d1) = StateIn(s, d)
  BY DEF StateIn

\* Nothing has begun.
LEMMA AllIdle ==
    ASSUME NEW s, NEW d, \A n \in Node : d[n] = Absent
    PROVE  StateIn(s, d) = [n \in Node |-> "idle"]
  BY DEF StateIn, Absent, Processing

\* When a target has no visit left, all it depends on is made.
LEMMA MadeIsReady ==
    ASSUME Shape, Depended, Made
    PROVE  B!Ready(Top.node)
  <1>1. PICK f \in Frame : f = Top /\ f.node \in Node /\ f.rest = << >>
    BY MadeIs
  <1>2. PICK n \in Node : n = f.node
    BY <1>1
  <1>3. Visited(f, done, mtime)
    BY <1>1, MadeIs DEF Depended, VisitedIsSettled
  <1>4. Passed(f) = Len(Visits(n))
    <2>1. Len(f.rest) = 0 /\ Len(Visits(n)) \in Nat
      BY <1>1, VisitsAre, LenProperties, EmptySeq
    <2> QED BY <1>2, <2>1 DEF Passed
  <1>5. \A k \in 1 .. Len(Visits(n)) : Settled(n, Visits(n)[k], done, mtime)
    BY <1>2, <1>3, <1>4 DEF Visited
  <1>6. \A k \in 1 .. Len(Visits(n)) : Visits(n)[k].node \in Node
    BY VisitIsSucc DEF Call
  <1>7. \A m \in Node : done[m] \in Nat => BuildState[m] = "made"
    BY BuildStateIs, StateAt DEF Shape
  <1>8. ASSUME NEW d \in B!Elems(Deps[n])
        PROVE  BuildState[d] = "made" \/ B!Circular(n, d)
    <2>1. PICK k \in 1 .. Len(Visits(n)) : Visits(n)[k].node = d /\ ~Visits(n)[k].order
      BY SuccIsVisited
    <2> QED BY <1>5, <1>6, <1>7, <2>1 DEF Settled
  <1>9. ASSUME NEW d \in B!Elems(OrderOnlys[n])
        PROVE  BuildState[d] = "made" \/ d \in There \/ B!Circular(n, d)
    <2>1. PICK k \in 1 .. Len(Visits(n)) : Visits(n)[k].node = d
      BY SuccIsVisited
    <2> QED BY <1>5, <1>6, <1>7, <2>1 DEF Settled, There, Exists
  <1> QED BY <1>1, <1>2, <1>8, <1>9 DEF B!Ready

\* A dependency that is skipped or answered from done_ is a stutter.
LEMMA PassSimulates ==
    ASSUME Shape, SkipOrderOnly \/ Revisit
    PROVE  StateIn(stack', done') = StateIn(stack, done) /\ There' = There
  <1>1. stack \in Seq(Frame) /\ GoOn(stack, stack') /\ done' = done /\ mtime' = mtime
    BY SkipGoesOn, RevisitGoesOn DEF Shape, TypeOK, SkipOrderOnly, Revisit, files
  <1>2. \A n : MakingIn(stack', n) <=> MakingIn(stack, n)
    BY <1>1, GoOnNodes DEF MakingIn
  <1> QED BY <1>1, <1>2, NoneChanges DEF There, Exists

\* Enter begins a target.
LEMMA EnterSimulates ==
    ASSUME Shape, Shape', OnStack(stack, done), Enter
    PROVE  B!Next
  <1>1. PICK n \in Node : n = Called.node
    BY EnterIs
  <1>2. PICK k \in Nat : k = Len(stack)
    BY EnterIs
  <1>3. /\ done \in [Node -> Nat \cup {Processing, Absent}] /\ done[n] = Absent
        /\ done' = [done EXCEPT ![n] = Processing] /\ mtime' = mtime
    BY <1>1, EnterIs DEF Shape, TypeOK, files
  <1>4. done[n] # Processing /\ done'[n] = Processing
        /\ \A m \in Node : m # n => done'[m] = done[m]
    BY <1>3 DEF Processing, Absent
  <1>5. Len(stack') = k + 1 /\ \A i \in 1 .. k : stack'[i] = stack[i]
    BY <1>2, EnterIs
  <1>6. \A i \in 1 .. k + 1 : i > k => stack'[i].node = n /\ stack'[i].cmds = -1
    BY <1>1, <1>2, EnterIs DEF NewFrame
  <1>7. \A i \in 1 .. k : stack[i].node # n
    BY <1>2, <1>4 DEF OnStack
  <1>8. \A i \in 1 .. k + 1 : i \in 1 .. k \/ i > k
    OBVIOUS
  <1>9. ~MakingIn(stack', n)
    BY <1>5, <1>6, <1>7, <1>8 DEF MakingIn
  <1>10. ASSUME NEW m \in Node, m # n
         PROVE  MakingIn(stack', m) <=> MakingIn(stack, m)
    <2>1. \A i \in 1 .. k : i \in 1 .. k + 1
      OBVIOUS
    <2> QED BY <1>2, <1>5, <1>6, <1>8, <1>10, <2>1 DEF MakingIn
  <1>11. StateIn(stack, done)[n] = "idle" /\ StateIn(stack', done')[n] = "begun"
    <2>1. StateIn(stack, done)[n] = "idle"
      BY <1>3, StateAt
    <2>2. StateIn(stack', done')[n] = "begun"
      BY <1>4, <1>9, StateAt
    <2> QED BY <2>1, <2>2
  <1>12. StateIn(stack', done') = [StateIn(stack, done) EXCEPT ![n] = "begun"]
    BY <1>4, <1>10, <1>11, OneChanges
  <1>13. B!Begin(n)
    BY <1>11, <1>12, BuildStateIs, BuildStateNext DEF Shape, B!Begin, B!Become
  <1>14. There' = There /\ There \subseteq Node
    BY <1>3 DEF There, Exists
  <1> QED BY <1>13, <1>14 DEF B!Next

\* A call that returns makes its target.
LEMMA ReturnSimulates ==
    ASSUME Shape, Shape', OnStack(stack, done), Depended, UpToDate \/ Finish
    PROVE  B!Next
  <1>1. PICK t \in Nat : Return(t)
    BY ReturnIs
  <1>2. Made /\ mtime' = mtime
    BY ReturnIs DEF files
  <1>3. PICK n \in Node : n = Top.node
    BY <1>2, MadeIs
  <1>4. PICK k \in Nat : k = Depth /\ k = Len(stack) /\ k \in 1 .. k /\ stack[k].node = n
    BY <1>2, <1>3, MadeIs
  <1>5. /\ Len(stack') = k - 1 /\ done[n] = Processing /\ done'[n] \in Nat
        /\ \A i \in 1 .. k - 1 : stack'[i].node = stack[i].node /\ stack'[i].cmds = stack[i].cmds
        /\ \A m \in Node : m # n => done'[m] = done[m]
    BY <1>1, <1>2, <1>3, <1>4, ReturnOnStack
  <1>6. ASSUME NEW m \in Node, m # n
        PROVE  MakingIn(stack', m) <=> MakingIn(stack, m)
    <2>1. \A i \in 1 .. k : i \in 1 .. k - 1 \/ i = k
      OBVIOUS
    <2>2. \A i \in 1 .. k - 1 : i \in 1 .. k
      OBVIOUS
    <2> QED BY <1>4, <1>5, <1>6, <2>1, <2>2 DEF MakingIn
  <1>7. StateIn(stack, done)[n] \in {"begun", "working"} /\ StateIn(stack', done')[n] = "made"
    BY <1>5, StateAt
  <1>8. StateIn(stack', done') = [StateIn(stack, done) EXCEPT ![n] = "made"]
    BY <1>5, <1>6, <1>7, OneChanges
  <1>9. B!Ready(n)
    BY <1>2, <1>3, MadeIsReady
  <1>10. B!Make(n)
    BY <1>7, <1>8, <1>9, BuildStateIs, BuildStateNext DEF Shape, B!Make, B!Become
  <1>11. There' = There /\ There \subseteq Node
    BY <1>2 DEF There, Exists
  <1> QED BY <1>10, <1>11 DEF B!Next

\* Evaluating the commands starts the work; running them is a stutter that
\* may write the target.
LEMMA CmdsSimulates ==
    ASSUME Shape, Shape', OnStack(stack, done), Depended, EvalCommands \/ RunCommand
    PROVE  B!Next
  <1>1. PICK c \in Nat : stack' = [stack EXCEPT ![Depth].cmds = c]
    BY CmdsIs
  <1>2. Made /\ done' = done
    BY CmdsIs
  <1>3. PICK n \in Node : n = Top.node
    BY <1>2, MadeIs
  <1>4. PICK k \in Nat : /\ k = Depth /\ k = Len(stack) /\ k \in 1 .. k
                         /\ stack[k] = Top /\ stack[k].node = n
    BY <1>2, <1>3, MadeIs
  <1>5. /\ Len(stack') = k /\ stack'[k].node = n /\ stack'[k].cmds = c
        /\ \A i \in 1 .. k : i # k => stack'[i] = stack[i]
    BY <1>1, <1>2, <1>4, CmdsChange
  <1>6. done[n] = Processing /\ \A i \in 1 .. k : stack[i].node = n => i = k
    BY <1>4 DEF OnStack
  <1>7. ASSUME NEW m \in Node, m # n
        PROVE  MakingIn(stack', m) <=> MakingIn(stack, m)
    BY <1>4, <1>5, <1>7 DEF MakingIn
  <1>8. MakingIn(stack', n)
    BY <1>4, <1>5 DEF MakingIn
  <1>9. There \subseteq There' /\ There' \subseteq Node
    BY CmdsFiles DEF There
  <1>10. CASE EvalCommands
    <2>1. stack[k].cmds = -1
      BY <1>4, <1>10 DEF EvalCommands
    <2>2. ~MakingIn(stack, n)
      BY <1>4, <1>6, <2>1 DEF MakingIn
    <2>3. StateIn(stack, done)[n] = "begun" /\ StateIn(stack', done')[n] = "working"
      BY <1>2, <1>6, <1>8, <2>2, StateAt
    <2>4. StateIn(stack', done') = [StateIn(stack, done) EXCEPT ![n] = "working"]
      BY <1>2, <1>7, <2>3, OneChanges
    <2>5. B!Work(n)
      BY <1>2, <1>3, <2>3, <2>4, MadeIsReady, BuildStateIs, BuildStateNext
      DEF Shape, B!Work, B!Become
    <2> QED BY <1>9, <2>5 DEF B!Next
  <1>11. CASE RunCommand
    <2>1. stack[k].cmds > 0 /\ stack[k] \in Frame
      BY <1>2, <1>4, <1>11, MadeIs DEF RunCommand
    <2>2. MakingIn(stack, n)
      BY <1>4, <2>1 DEF MakingIn, Frame
    <2>3. StateIn(stack', done') = StateIn(stack, done)
      BY <1>2, <1>7, <1>8, <2>2, NoneChanges
    <2>4. BuildState' = BuildState
      BY <2>3, BuildStateIs, BuildStateNext DEF Shape
    <2> QED BY <1>9, <2>4 DEF B!Next
  <1> QED BY <1>10, <1>11

\* A step of Executor is a step of Build or leaves it alone.
LEMMA StepSimulates ==
    ASSUME Shape, Shape', OnStack(stack, done), Depended, [Next]_vars
    PROVE  [B!Next]_<<BuildState, There>>
  <1>1. CASE SkipOrderOnly \/ Revisit
    BY <1>1, PassSimulates, BuildStateIs, BuildStateNext DEF Shape
  <1>2. CASE Enter
    BY <1>2, EnterSimulates
  <1>3. CASE UpToDate \/ Finish
    BY <1>3, ReturnSimulates
  <1>4. CASE EvalCommands \/ RunCommand
    BY <1>4, CmdsSimulates
  <1>5. CASE Ends
    <2>1. done' = [n \in Node |-> Absent] /\ There \subseteq There' /\ There' \subseteq Node
      BY <1>5, EndsIs DEF There
    <2>2. StateIn(stack', done') = [n \in Node |-> "idle"]
      BY <2>1, AllIdle
    <2>3. B!Over
      BY <2>2, BuildStateNext DEF Shape, B!Over
    <2> QED BY <2>1, <2>3 DEF B!Next
  <1>6. CASE Exit \/ Edit
    <2>1. stack' = stack /\ done' = done /\ There \subseteq There' /\ There' \subseteq Node
      BY <1>6, IdleIs DEF There
    <2>2. BuildState' = BuildState
      BY <2>1, BuildStateIs, BuildStateNext DEF Shape
    <2> QED BY <2>1, <2>2 DEF B!Next
  <1>7. CASE UNCHANGED vars
    <2>1. stack' = stack /\ done' = done /\ mtime' = mtime
      BY <1>7 DEF vars, files
    <2>2. BuildState' = BuildState
      BY <2>1, BuildStateIs, BuildStateNext DEF Shape
    <2>3. There' = There
      BY <2>1 DEF There, Exists
    <2> QED BY <2>2, <2>3
  <1> QED BY <1>1, <1>2, <1>3, <1>4, <1>5, <1>6, <1>7 DEF Next, ExecNode, Run, Ends

\* ExecNode implements Build: a target is begun once by an Executor, its
\* commands start and it counts as made only after everything it depends on
\* was made, and only a circular dependency, or an order-only one that
\* exists, is not waited for.
THEOREM ExecutorImplementsBuild == Spec => Implements
  <1> DEFINE Inv == Shape /\ OnStack(stack, done) /\ Depended
  <1>1. Init => Inv
    <2>1. Init => stack = << >> /\ \A n \in Node : done[n] # Processing
      BY DEF Init, Processing, Absent
    <2>2. Len(<< >>) = 0
      BY EmptySeq
    <2>3. stack = << >> => Depended
      BY <2>2 DEF Depended, RestIsLast, CallsReach, VisitedIsSettled
    <2> QED BY <2>1, <2>3, ShapeInit, EmptyOnStack
  <1>2. Inv /\ [Next]_vars => Inv'
    BY ShapeStep, OnStackStep, DependedStep
  <1>3. Init => B!Init
    <2> SUFFICES ASSUME Init PROVE B!Init
      OBVIOUS
    <2>1. TypeOK /\ \A n \in Node : done[n] = Absent
      BY ShapeInit DEF Init, Shape
    <2>2. BuildState = [n \in Node |-> "idle"]
      BY <2>1, BuildStateIs, AllIdle
    <2> QED BY <2>2 DEF B!Init, There
  <1>4. Inv /\ Inv' /\ [Next]_vars => [B!Next]_<<BuildState, There>>
    BY StepSimulates
  <1> HIDE DEF Inv
  <1> QED BY <1>1, <1>2, <1>3, <1>4, PTL DEF Spec, Implements, B!Spec

-----------------------------------------------------------------------------
(* What is up to date.                                                     *)

\* A target that was made: done_ holds the time of its file or a later one,
\* what it depends on was made before, and is not newer if done_ holds the
\* time of its file.
MadeFresh(n, dn, mt) ==
    /\ mt[n] <= dn[n]
    /\ \A d \in B!Elems(Deps[n]) :
          B!Circular(n, d) \/ (dn[d] \in Nat /\ (dn[n] = mt[n] => mt[d] <= mt[n]))

\* This holds during a run and, if it ends well, until the next edit.
Active == phase # "idle" \/ outcome = "ok"
AllFresh == Active => \A n \in Node : done[n] \in Nat => MadeFresh(n, done, mtime)

\* A frame has the time of its file until it runs commands, and in latest a
\* time that is not before the result of any dependency it has visited.
Seen(f, v, dn) ==
    v.order \/ B!Circular(f.node, v.node) \/ (dn[v.node] \in Nat /\ dn[v.node] <= f.latest)
FrameFresh(f, dn, mt) ==
    /\ f.cmds = -1 => mt[f.node] = f.ts
    /\ \A k \in 1 .. Passed(f) : Seen(f, Visits(f.node)[k], dn)
FramesFresh == \A i \in 1 .. Len(stack) : FrameFresh(stack[i], done, mtime)

Times == (\A n \in Node : mtime[n] <= clock) /\ AllFresh /\ FramesFresh

\* A target that was made is as fresh as before when only targets that are
\* not made change.
LEMMA MadeFreshStays ==
    ASSUME NEW n \in Node, MadeFresh(n, done, mtime), done[n] \in Nat,
           \A m \in Node : done[m] \in Nat => done'[m] = done[m] /\ mtime'[m] = mtime[m]
    PROVE  MadeFresh(n, done', mtime')
  <1>1. B!Elems(Deps[n]) \subseteq Node
    BY GraphAssumption, LenProperties DEF GraphAssumption, B!Elems
  <1> QED BY <1>1 DEF MadeFresh

\* So are the frames of the calls.
LEMMA FrameFreshStays ==
    ASSUME NEW f \in Frame, RestIs(f), FrameFresh(f, done, mtime),
           mtime'[f.node] = mtime[f.node],
           \A m \in Node : done[m] \in Nat => done'[m] = done[m]
    PROVE  FrameFresh(f, done', mtime')
  <1>1. f.node \in Node /\ f.rest \in Seq(Call)
    BY DEF Frame, Call
  <1>2. Len(Visits(f.node)) \in Nat /\ Len(f.rest) \in Nat
    BY <1>1, VisitsAre, LenProperties
  <1>3. ASSUME NEW k \in 1 .. Passed(f)
        PROVE  Visits(f.node)[k].node \in Node
    <2>1. k \in 1 .. Len(Visits(f.node))
      BY <1>2 DEF Passed
    <2> QED BY <1>1, <2>1, VisitIsSucc DEF Call
  <1> QED BY <1>3 DEF FrameFresh, Seen

\* The calls of stk go on, and the last of them has seen the result.
LEMMA GoOnFresh ==
    ASSUME NEW stk \in Seq(Frame), GoOn(stk, stack'),
           \A i \in 1 .. Len(stk) : RestIs(stk[i]) /\ FrameFresh(stk[i], done, mtime),
           mtime' = mtime, \A m \in Node : done[m] \in Nat => done'[m] = done[m],
           stk # << >> =>
               LET f == stk[Len(stk)] IN
               f.rest # << >> /\ Seen(stack'[Len(stk)], Head(f.rest), done')
    PROVE  FramesFresh'
  <1>1. PICK k \in Nat : k = Len(stk)
    BY LenProperties
  <1>2. Len(stack') = k
    BY <1>1, GoOnNodes
  <1>3. ASSUME NEW i \in 1 .. k
        PROVE  FrameFresh(stack'[i], done', mtime')
    <2>1. PICK f \in Frame : f = stk[i]
      BY <1>1, ElementOfSeq
    <2>2. PICK g \in Frame : g = stack'[i]
      BY <1>1, <1>2, ElementOfSeq DEF GoOn
    <2>3. RestIs(f) /\ FrameFresh(f, done', mtime')
      BY <1>1, <2>1, FrameFreshStays
    <2>4. CASE i # k
      BY <1>1, <2>1, <2>3, <2>4 DEF GoOn
    <2>5. CASE i = k
      <3>1. stk # << >>
        BY <1>1, EmptySeq
      <3>2. /\ g.node = f.node /\ g.cmds = f.cmds /\ g.rest = Tail(f.rest) /\ g.ts = f.ts
            /\ g.latest >= f.latest /\ f.rest # << >> /\ Seen(g, Head(f.rest), done')
        BY <1>1, <2>1, <2>2, <2>5, <3>1 DEF GoOn
      <3>3. /\ Passed(f) \in Nat /\ Passed(g) = Passed(f) + 1
            /\ Visits(f.node)[Passed(g)] = Head(f.rest)
        BY <2>3, <3>2, FrameGoesOn
      <3>4. \A j \in 1 .. Passed(g) : j \in 1 .. Passed(f) \/ j = Passed(g)
        BY <3>3
      <3>5. \A v : Seen(f, v, done') => Seen(g, v, done')
        BY <3>2 DEF Seen, Frame, Processing
      <3>6. \A j \in 1 .. Passed(g) : Seen(g, Visits(g.node)[j], done')
        BY <2>3, <3>2, <3>3, <3>4, <3>5 DEF FrameFresh
      <3> QED BY <2>2, <2>3, <3>2, <3>6 DEF FrameFresh
    <2> QED BY <2>4, <2>5
  <1> QED BY <1>2, <1>3 DEF FramesFresh

\* A visit.
LEMMA PassTimes ==
    ASSUME Shape, OnStack(stack, done), Depended, Times, SkipOrderOnly \/ Revisit
    PROVE  Times'
  <1>1. /\ stack \in Seq(Frame) /\ Calling /\ done' = done /\ mtime' = mtime /\ clock' = clock
        /\ phase' = phase /\ outcome' = outcome
    BY DEF Shape, TypeOK, SkipOrderOnly, Revisit, Entering, files, ghosts
  <1>2. GoOn(stack, stack')
    BY SkipGoesOn, RevisitGoesOn
  <1>3. ASSUME stack # << >>
        PROVE  /\ stack[Len(stack)].rest # << >>
               /\ Seen(stack'[Len(stack)], Head(stack[Len(stack)].rest), done')
    <2>1. PICK f \in Frame : f = stack[Len(stack)] /\ f.rest # << >> /\ Called = Head(f.rest)
      BY <1>1, <1>3, CalledIs DEF Depth
    <2>2. PICK k \in Nat : k = Len(stack) /\ k \in 1 .. k
      BY <1>1, <1>3, EmptySeq
    <2>3. PICK v \in Call : v = Called /\ v.node \in Node
      BY <1>1, CalledIs DEF Call
    <2>4. PICK g : g = stack'[k] /\ g.node = f.node
      BY <1>2, <1>3, <2>1, <2>2 DEF GoOn
    <2>5. Seen(g, v, done)
      <3>1. CASE SkipOrderOnly
        BY <2>3, <3>1 DEF SkipOrderOnly, Seen
      <3>2. CASE Revisit
        <4>1. CASE done[v.node] \in Nat
          <5>1. stack' = Resume(stack, done[v.node])
            BY <2>3, <3>2 DEF Revisit
          <5>2. g = Resumed(f, done[v.node])
            BY <1>1, <2>1, <2>2, <2>4, <4>1, <5>1, ResumeIs
          <5>3. g.latest >= done[v.node] /\ g.latest \in {f.latest, done[v.node]}
            BY <2>1, <4>1, <5>2, ResumedIs
          <5>4. done[v.node] <= g.latest
            BY <4>1, <5>3 DEF Frame, Processing
          <5> QED BY <4>1, <5>4 DEF Seen
        <4>2. CASE done[v.node] = Processing
          <5>1. PICK i \in 1 .. k : stack[i].node = v.node
            BY <2>2, <2>3, <4>2 DEF OnStack
          <5>2. B!Circular(f.node, v.node)
            BY <2>1, <2>2, <5>1 DEF Depended, CallsReach
          <5> QED BY <2>4, <5>2 DEF Seen
        <4> QED BY <2>3, <3>2, <4>1, <4>2, RevisitGoesOn
      <3> QED BY <3>1, <3>2
    <2> QED BY <1>1, <2>1, <2>2, <2>3, <2>4, <2>5
  <1>4. FramesFresh'
    BY <1>1, <1>2, <1>3, GoOnFresh DEF Depended, RestIsLast, Times, FramesFresh
  <1> QED BY <1>1, <1>4 DEF Times, AllFresh, Active

\* A new call.
LEMMA EnterTimes ==
    ASSUME Shape, Depended, Times, Enter
    PROVE  Times'
  <1>1. PICK n \in Node : n = Called.node
    BY EnterIs
  <1>2. PICK k \in Nat : k = Len(stack)
    BY EnterIs
  <1>3. PICK g \in Frame : g = NewFrame(n)
    BY <1>1, EnterIs
  <1>4. /\ stack \in Seq(Frame) /\ Len(stack') = k + 1
        /\ \A i \in 1 .. k : stack'[i] = stack[i]
        /\ \A i \in 1 .. k + 1 : i > k => stack'[i] = g
    BY <1>1, <1>2, <1>3, EnterIs DEF Shape, TypeOK
  <1>5. /\ mtime' = mtime /\ clock' = clock /\ phase' = phase /\ outcome' = outcome
        /\ done'[n] = Processing /\ done[n] = Absent
        /\ \A m \in Node : m # n => done'[m] = done[m]
    BY <1>1, EnterIs DEF Shape, TypeOK, files, ghosts
  <1>6. \A m \in Node : /\ done[m] \in Nat => done'[m] = done[m]
                        /\ done'[m] \in Nat => done[m] \in Nat
    BY <1>5 DEF Processing, Absent
  <1>7. FrameFresh(g, done', mtime')
    <2>1. g.node = n /\ g.rest = Visits(n) /\ g.ts = mtime[n]
      BY <1>3 DEF NewFrame
    <2>2. Len(Visits(n)) \in Nat
      BY VisitsAre, LenProperties
    <2>3. Passed(g) = 0
      BY <2>1, <2>2 DEF Passed
    <2> QED BY <1>5, <2>1, <2>3 DEF FrameFresh
  <1>8. ASSUME NEW i \in 1 .. k + 1
        PROVE  FrameFresh(stack'[i], done', mtime')
    <2>1. CASE i > k
      BY <1>4, <1>7, <2>1
    <2>2. CASE i \in 1 .. k
      <3>1. PICK f \in Frame : f = stack[i] /\ stack'[i] = f
        BY <1>2, <1>4, <2>2, ElementOfSeq
      <3>2. RestIs(f) /\ FrameFresh(f, done, mtime)
        BY <1>2, <2>2, <3>1 DEF Depended, RestIsLast, Times, FramesFresh
      <3> QED BY <1>5, <1>6, <3>1, <3>2, FrameFreshStays
    <2> QED BY <2>1, <2>2
  <1>9. AllFresh'
    <2>1. ASSUME Active, NEW m \in Node, done'[m] \in Nat
          PROVE  MadeFresh(m, done', mtime')
      BY <1>5, <1>6, <2>1, MadeFreshStays DEF Times, AllFresh
    <2> QED BY <1>5, <2>1 DEF AllFresh, Active
  <1> QED BY <1>4, <1>5, <1>8, <1>9 DEF Times, FramesFresh

\* A call returns: if its target is up to date, it has seen no later time.
LEMMA ReturnTimes ==
    ASSUME Shape, OnStack(stack, done), Depended, Times, UpToDate \/ Finish
    PROVE  Times'
  <1>1. PICK t \in Nat : Return(t) /\ ((t = Top.ts /\ Top.cmds = -1 /\ Top.ts >= Top.latest)
                                      \/ t = clock + 1)
    <2>1. CASE UpToDate
      <3>1. Top \in Frame /\ Top.ts >= Top.latest
        BY <2>1, MadeIs DEF UpToDate, IsUpToDate
      <3>2. Top.ts \in Nat
        BY <3>1 DEF Frame, Processing, NotExist
      <3> QED BY <2>1, <3>1, <3>2 DEF UpToDate
    <2>2. CASE Finish
      BY <2>2 DEF Finish, Shape, TypeOK
    <2> QED BY <2>1, <2>2
  <1>2. /\ Made /\ mtime' = mtime /\ clock' = clock /\ phase' = phase /\ outcome' = outcome
    BY ReturnIs DEF files, ghosts
  <1>3. PICK f \in Frame : f = Top /\ f.rest = << >>
    BY <1>2, MadeIs
  <1>4. PICK n \in Node : n = f.node
    BY <1>3 DEF Frame
  <1>5. PICK k \in Nat : k = Depth /\ k \in 1 .. k /\ k = Len(stack)
    BY <1>2, MadeIs
  <1>6. /\ done[n] = Processing /\ done'[n] = t
        /\ \A m \in Node : m # n => done'[m] = done[m]
    BY <1>1, <1>2, <1>3, <1>4, ReturnOnStack
  <1>7. \A m \in Node : /\ done[m] \in Nat => done'[m] = done[m]
                        /\ done'[m] \in Nat => m = n \/ done[m] \in Nat
    BY <1>6 DEF Processing
  <1>8. FramesFresh'
    <2>1. Below \in Seq(Frame) /\ Len(Below) = k - 1 /\ \A i \in 1 .. k - 1 : Below[i] = stack[i]
      BY <1>2, <1>5, MadeIs
    <2>2. GoOn(Below, stack') /\ stack' = Resume(Below, t)
      BY <1>1, <1>2, ReturnGoesOn DEF Return, Below
    <2>3. \A i \in 1 .. k - 1 : i \in 1 .. k
      OBVIOUS
    <2>4. \A i \in 1 .. k : RestIs(stack[i]) /\ FrameFresh(stack[i], done, mtime)
      BY <1>5 DEF Depended, RestIsLast, Times, FramesFresh
    <2>5. \A i \in 1 .. Len(Below) : RestIs(Below[i]) /\ FrameFresh(Below[i], done, mtime)
      BY <2>1, <2>3, <2>4
    <2>6. ASSUME Below # << >>
          PROVE  /\ Below[Len(Below)].rest # << >>
                 /\ Seen(stack'[Len(Below)], Head(Below[Len(Below)].rest), done')
      <3>1. PICK l \in Nat : l = Len(Below) /\ l \in 1 .. l
        BY <1>2, <2>6, MadeIs
      <3>2. PICK e \in Frame : e = Below[l] /\ e.rest # << >> /\ Head(e.rest).node = n
        BY <1>2, <1>3, <1>4, <2>1, <2>6, <3>1, MadeIs, ElementOfSeq
      <3>3. PICK g : g = stack'[l] /\ g = Resumed(e, t)
        BY <2>1, <2>2, <3>1, <3>2, ResumeIs
      <3>4. g.latest >= t /\ g.latest \in {e.latest, t}
        BY <3>2, <3>3, ResumedIs
      <3>5. t <= g.latest
        BY <3>4 DEF Frame, Processing
      <3>6. Seen(g, Head(e.rest), done')
        BY <1>6, <3>2, <3>5 DEF Seen
      <3> QED BY <3>1, <3>2, <3>3, <3>6
    <2> QED BY <1>2, <1>7, <2>1, <2>2, <2>5, <2>6, GoOnFresh
  <1>9. Active /\ phase # "idle"
    BY <1>2 DEF Active, Made
  <1>10. MadeFresh(n, done', mtime')
    <2>1. FrameFresh(f, done, mtime) /\ mtime[n] <= clock
      BY <1>2, <1>3, <1>5, MadeIs DEF Times, FramesFresh
    <2>2. (t = mtime[n] /\ f.latest <= t) \/ t > mtime[n]
      <3>1. mtime[n] \in Nat \cup {NotExist} /\ clock \in Nat
        BY DEF Shape, TypeOK
      <3>2. CASE t = clock + 1
        BY <2>1, <3>1, <3>2 DEF NotExist
      <3>3. CASE t = f.ts /\ f.cmds = -1 /\ f.ts >= f.latest
        BY <1>4, <2>1, <3>3 DEF FrameFresh, Frame, Processing
      <3> QED BY <1>1, <1>3, <3>2, <3>3
    <2>3. mtime[n] <= t
      BY <2>2 DEF Shape, TypeOK, NotExist
    <2>4. ASSUME NEW d \in B!Elems(Deps[n]), ~B!Circular(n, d)
          PROVE  d \in Node /\ done[d] \in Nat /\ done[d] <= f.latest
      <3>1. PICK j \in 1 .. Len(Visits(n)) : Visits(n)[j].node = d /\ ~Visits(n)[j].order
        BY SuccIsVisited
      <3>2. d \in Node
        BY <3>1, VisitIsSucc DEF Call
      <3>3. Passed(f) = Len(Visits(n))
        <4>1. Len(f.rest) = 0 /\ Len(Visits(n)) \in Nat
          BY <1>3, VisitsAre, LenProperties, EmptySeq
        <4> QED BY <1>4, <4>1 DEF Passed
      <3>4. Seen(f, Visits(n)[j], done)
        BY <1>4, <2>1, <3>1, <3>3 DEF FrameFresh
      <3> QED BY <1>4, <2>4, <3>1, <3>2, <3>4 DEF Seen
    <2>5. ASSUME NEW d \in B!Elems(Deps[n]), ~B!Circular(n, d)
          PROVE  done'[d] \in Nat /\ (t = mtime[n] => mtime[d] <= mtime[n])
      <3>1. d \in Node /\ done[d] \in Nat /\ done[d] <= f.latest
        BY <2>4, <2>5
      <3>2. done'[d] = done[d]
        BY <1>7, <3>1
      <3>3. mtime[d] <= done[d]
        BY <1>9, <3>1 DEF Times, AllFresh, MadeFresh
      <3>4. t = mtime[n] => mtime[d] <= mtime[n]
        <4>1. mtime[d] \in Int /\ f.latest \in Int /\ mtime[n] \in Int
          BY <3>1 DEF Shape, TypeOK, NotExist, Frame, Processing
        <4> QED BY <2>2, <3>1, <3>3, <4>1
      <3> QED BY <3>1, <3>2, <3>4
    <2> QED BY <1>2, <1>6, <2>3, <2>5 DEF MadeFresh
  <1>11. AllFresh'
    <2>1. ASSUME NEW m \in Node, done'[m] \in Nat, m # n
          PROVE  MadeFresh(m, done', mtime')
      BY <1>2, <1>7, <1>9, <2>1, MadeFreshStays DEF Times, AllFresh
    <2> QED BY <1>10, <2>1 DEF AllFresh
  <1> QED BY <1>2, <1>8, <1>11 DEF Times

\* The clock and the files: only the file of the top frame may change, and
\* then to the time of the clock.
LEMMA CmdsTime ==
    ASSUME Shape, EvalCommands \/ RunCommand, \A n \in Node : mtime[n] <= clock
    PROVE  /\ \A n \in Node : n # Top.node => mtime'[n] = mtime[n]
           /\ \A n \in Node : mtime'[n] <= clock'
  <1>1. CASE UNCHANGED files
    BY <1>1 DEF files
  <1>2. CASE ~UNCHANGED files
    <2>1. Made /\ Wrote(Top.node)
      BY <1>2 DEF EvalCommands, RunCommand
    <2>2. PICK n \in Node : n = Top.node
      BY <2>1, MadeIs
    <2>3. /\ clock \in Nat /\ clock' = clock + 1 /\ mtime \in [Node -> Nat \cup {NotExist}]
          /\ mtime' \in {mtime, [mtime EXCEPT ![n] = clock + 1]}
      BY <2>1, <2>2 DEF Wrote, Shape, TypeOK
    <2>4. \A m \in Node : mtime[m] <= clock + 1
      BY <2>3 DEF NotExist
    <2> QED BY <2>2, <2>3, <2>4
  <1> QED BY <1>1, <1>2

\* A command runs.
LEMMA CmdsTimes ==
    ASSUME Shape, OnStack(stack, done), Depended, Times, EvalCommands \/ RunCommand
    PROVE  Times'
  <1>1. PICK c \in Nat : stack' = [stack EXCEPT ![Depth].cmds = c]
    BY CmdsIs
  <1>2. Made /\ done' = done /\ phase' = phase /\ outcome' = outcome
    BY CmdsIs DEF ghosts
  <1>3. PICK n \in Node : n = Top.node
    BY <1>2, MadeIs
  <1>4. PICK k \in Nat : /\ k = Depth /\ k = Len(stack) /\ k \in 1 .. k
                         /\ stack[k] = Top /\ stack[k].node = n
    BY <1>2, <1>3, MadeIs
  <1>5. stack \in Seq(Frame) /\ stack' \in Seq(Frame) /\ Len(stack') = k
    BY <1>1, <1>2, <1>4, CmdsChange DEF Shape, TypeOK
  <1>6. /\ \A m \in Node : m # n => mtime'[m] = mtime[m]
        /\ \A m \in Node : mtime'[m] <= clock'
    BY <1>3, CmdsTime DEF Times
  <1>7. /\ done[n] = Processing /\ \A i \in 1 .. k : stack[i].node = n => i = k
    BY <1>4 DEF OnStack
  <1>8. ASSUME NEW i \in 1 .. k
        PROVE  FrameFresh(stack'[i], done', mtime')
    <2>1. PICK f \in Frame : f = stack[i]
      BY <1>4, <1>5, ElementOfSeq
    <2>2. PICK g \in Frame : g = stack'[i]
      BY <1>5, ElementOfSeq
    <2>3. RestIs(f) /\ FrameFresh(f, done, mtime)
      BY <1>4, <2>1 DEF Depended, RestIsLast, Times, FramesFresh
    <2>4. CASE i # k
      <3>1. g = f /\ f.node # n /\ f.node \in Node
        BY <1>1, <1>2, <1>4, <1>7, <2>1, <2>2, <2>4, CmdsChange DEF Frame
      <3>2. mtime'[f.node] = mtime[f.node]
        BY <1>6, <3>1
      <3> QED BY <1>2, <2>2, <2>3, <3>1, <3>2, FrameFreshStays
    <2>5. CASE i = k
      <3>1. g.node = f.node /\ g.rest = f.rest /\ g.latest = f.latest /\ g.cmds = c
        <4>1. /\ stack'[k].node = stack[k].node /\ stack'[k].rest = stack[k].rest
              /\ stack'[k].latest = stack[k].latest /\ stack'[k].cmds = c
          BY <1>1, <1>2, <1>4, CmdsChange
        <4> QED BY <2>1, <2>2, <2>5, <4>1
      <3>2. Passed(g) = Passed(f) /\ g.cmds # -1
        BY <3>1 DEF Passed
      <3> QED BY <1>2, <2>2, <2>3, <3>1, <3>2 DEF FrameFresh, Seen
    <2> QED BY <2>4, <2>5
  <1>9. AllFresh'
    <2>1. \A m \in Node : done[m] \in Nat => done'[m] = done[m] /\ mtime'[m] = mtime[m]
      BY <1>2, <1>6, <1>7 DEF Processing
    <2>2. ASSUME Active, NEW m \in Node, done'[m] \in Nat
          PROVE  MadeFresh(m, done', mtime')
      BY <1>2, <2>1, <2>2, MadeFreshStays DEF Times, AllFresh
    <2> QED BY <1>2, <2>2 DEF AllFresh, Active
  <1> QED BY <1>5, <1>6, <1>8, <1>9 DEF Times, FramesFresh

\* Nothing is made, and the files are not later than the clock.
LEMMA EmptyTimes ==
    ASSUME Shape, Times, Ends
    PROVE  Times'
  <1>1. stack' = << >> /\ done' = [n \in Node |-> Absent]
    BY EndsIs
  <1>2. FramesFresh' /\ AllFresh'
    <2>1. Len(stack') = 0 /\ \A n \in Node : done'[n] \notin Nat
      BY <1>1, EmptySeq DEF Absent
    <2> QED BY <2>1 DEF FramesFresh, AllFresh
  <1>3. \A n \in Node : mtime'[n] <= clock'
    <2>1. CASE RunCommandError
      <3>1. PICK n \in Node : n = Top.node
        BY <2>1, MadeIs DEF RunCommandError
      <3>2. /\ clock \in Nat /\ clock' = clock + 1 /\ mtime \in [Node -> Nat \cup {NotExist}]
            /\ mtime' \in {mtime, [mtime EXCEPT ![n] = clock + 1]}
        BY <2>1, <3>1 DEF RunCommandError, Shape, TypeOK
      <3>3. \A m \in Node : mtime[m] <= clock + 1
        BY <3>2 DEF NotExist, Times
      <3> QED BY <3>2, <3>3
    <2>2. CASE ~RunCommandError
      <3>1. clock' = clock /\ mtime' = mtime
        BY <2>2 DEF Ends, NoRuleError, Kill, MakefilesMade, StartOver, MakeGoals, Start, files
      <3> QED BY <3>1 DEF Times
    <2> QED BY <2>1, <2>2
  <1> QED BY <1>2, <1>3 DEF Times

\* A run ends well with what was made, and an edit is of no run.
LEMMA IdleTimes ==
    ASSUME Shape, Times, Exit \/ Edit
    PROVE  Times'
  <1>1. stack = << >> /\ stack' = stack /\ done' = done
    BY IdleIs
  <1>2. FramesFresh'
    BY <1>1, EmptySeq DEF FramesFresh
  <1>3. CASE Exit
    <2>1. Active /\ mtime' = mtime /\ clock' = clock
      BY <1>3 DEF Exit, ExecEnds, Active, files
    <2> QED BY <1>1, <1>2, <2>1 DEF Times, AllFresh
  <1>4. CASE Edit
    <2>1. PICK n \in Source : mtime' = [mtime EXCEPT ![n] = clock + 1]
      BY <1>4 DEF Edit
    <2>2. clock \in Nat /\ clock' = clock + 1 /\ mtime \in [Node -> Nat \cup {NotExist}]
      BY <1>4 DEF Edit, Shape, TypeOK
    <2>3. \A m \in Node : mtime[m] <= clock + 1
      BY <2>2 DEF NotExist, Times
    <2>4. \A m \in Node : mtime'[m] <= clock'
      BY <2>1, <2>2, <2>3
    <2>5. ~Active'
      BY <1>4 DEF Edit, Active
    <2> QED BY <1>2, <2>4, <2>5 DEF Times, AllFresh
  <1> QED BY <1>3, <1>4

\* Every step keeps Times.
LEMMA TimesStep ==
    ASSUME Shape, OnStack(stack, done), Depended, Times, [Next]_vars
    PROVE  Times'
  <1>1. CASE SkipOrderOnly \/ Revisit
    BY <1>1, PassTimes
  <1>2. CASE Enter
    BY <1>2, EnterTimes
  <1>3. CASE UpToDate \/ Finish
    BY <1>3, ReturnTimes
  <1>4. CASE EvalCommands \/ RunCommand
    BY <1>4, CmdsTimes
  <1>5. CASE Ends
    BY <1>5, EmptyTimes
  <1>6. CASE Exit \/ Edit
    BY <1>6, IdleTimes
  <1>7. CASE UNCHANGED vars
    BY <1>7 DEF vars, files, ghosts, Times, AllFresh, FramesFresh, Active
  <1> QED BY <1>1, <1>2, <1>3, <1>4, <1>5, <1>6, <1>7 DEF Next, ExecNode, Run, Ends

\* When a run ends well, what was found up to date is not older than what it
\* depends on, circular dependencies apart: for every graph, with commands
\* that fail, that write nothing or that write a phony target, after any
\* edits, kills and dry runs.
THEOREM FreshAtExit == Spec => []Fresh
  <1> DEFINE Inv == Shape /\ OnStack(stack, done) /\ Depended /\ Times
  <1>1. Init => Inv
    <2> SUFFICES ASSUME Init PROVE Inv
      OBVIOUS
    <2>1. stack = << >> /\ Len(stack) = 0 /\ \A n \in Node : done[n] = Absent
      BY EmptySeq DEF Init
    <2>2. OnStack(stack, done)
      BY <2>1, EmptyOnStack DEF Processing, Absent
    <2>3. Depended
      BY <2>1 DEF Depended, RestIsLast, CallsReach, VisitedIsSettled
    <2>4. \A n \in Node : mtime[n] <= clock
      <3>1. PICK f \in InitFiles : mtime = [n \in Node |-> IF n \in f THEN 0 ELSE NotExist]
        BY DEF Init
      <3>2. clock = 0 /\ \A n \in Node : mtime[n] = 0 \/ mtime[n] = NotExist
        BY <3>1 DEF Init
      <3>3. 0 <= 0 /\ NotExist <= 0
        BY DEF NotExist
      <3> QED BY <3>2, <3>3
    <2>5. AllFresh /\ FramesFresh
      BY <2>1 DEF AllFresh, FramesFresh, Absent
    <2> QED BY <2>2, <2>3, <2>4, <2>5, ShapeInit DEF Times
  <1>2. Inv /\ [Next]_vars => Inv'
    BY ShapeStep, OnStackStep, DependedStep, TimesStep
  <1>3. Inv => Fresh
    <2> SUFFICES ASSUME Inv, phase = "idle", outcome = "ok",
                        NEW n \in Node, done[n] = mtime[n], NEW i \in DOMAIN Deps[n]
                 PROVE  mtime[Deps[n][i]] <= mtime[n] \/ B!Circular(n, Deps[n][i])
      BY DEF Fresh
    <2>1. done[n] \in Nat
      BY DEF Shape, TypeOK, Processing, Absent, NotExist
    <2>2. MadeFresh(n, done, mtime)
      BY <2>1 DEF Times, AllFresh, Active
    <2>3. Deps[n][i] \in B!Elems(Deps[n])
      BY DEF B!Elems
    <2> QED BY <2>2, <2>3 DEF MadeFresh
  <1> HIDE DEF Inv
  <1> QED BY <1>1, <1>2, <1>3, PTL DEF Spec
=============================================================================
