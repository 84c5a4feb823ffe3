--------------------------- MODULE ClkbufHierProofs ---------------------------
(***************************************************************************)
(* Proofs that module_queue orders modules bottom-up, that the module     *)
(* loop never adds an entry a processed module has read, and that the     *)
(* pass is well typed, for every design, cyclic or not.                    *)
(***************************************************************************)
EXTENDS ClkbufHier, SequenceTheorems, TLAPS

(***************************************************************************)
(* BottomUp is not inductive: QueueDone appends the top frame's module,   *)
(* and nothing in BottomUp says its cells' types are already in order.   *)
(* The invariant describes the recursion stack: each frame below the top  *)
(* has passed the cell whose call is the frame above it, and every cell   *)
(* a frame has passed whose type is a module is already queued, except    *)
(* the cell whose call is still active.  modules_processed holds exactly *)
(* the modules of modules_sorted.                                          *)
(***************************************************************************)
Frame == [mod : Modules, next : Nat]

StackInv ==
    /\ cells \in [Modules -> Seq(Types)]
    /\ stack \in Seq(Frame)
    /\ sorted \in Seq(Modules)
    /\ queued = Range(sorted)
    /\ \A p \in 1 .. Len(stack) : stack[p].next <= Len(cells[stack[p].mod]) + 1
    /\ \A p \in 1 .. Len(stack) - 1 :
           /\ stack[p].next >= 2
           /\ stack[p + 1].mod = cells[stack[p].mod][stack[p].next - 1]
    /\ \A p \in 1 .. Len(stack) : \A k \in 1 .. stack[p].next - 1 :
           cells[stack[p].mod][k] \in Modules =>
               cells[stack[p].mod][k] \in queued \/ (p < Len(stack) /\ k = stack[p].next - 1)
    /\ BottomUp

LEMMA InitStackInv == HierInit => StackInv
<1> SUFFICES ASSUME HierInit PROVE StackInv
  OBVIOUS
<1>1. PICK d \in Designs : cells = d.cells
  BY DEF HierInit
<1>2. cells \in [Modules -> Seq(Types)]
  BY <1>1, DesignsAssumption
<1>3. stack = << >> /\ sorted = << >> /\ queued = {}
  BY DEF HierInit
<1>4. Range(<< >>) = {}
  BY DEF Range
<1>. QED  BY <1>2, <1>3, <1>4 DEF StackInv, BottomUp

\* Steps that leave the order, the stack and the design alone.
LEMMA OrderUnchanged ==
    ASSUME StackInv, UNCHANGED <<cells, stack, sorted, queued>> PROVE StackInv'
BY DEF StackInv, BottomUp, ChildModules

LEMMA RootStep ==
    ASSUME StackInv, NEW m \in Modules, QueueRoot(m) PROVE StackInv'
<1>1. stack' = << [mod |-> m, next |-> 0] >> /\ UNCHANGED <<cells, sorted, queued>>
  BY DEF QueueRoot
<1>2. [mod |-> m, next |-> 0] \in Frame
  BY DEF Frame
<1>. QED  BY <1>1, <1>2 DEF StackInv, BottomUp, ChildModules

\* The stack without its top frame.
LEMMA PopProperties ==
    ASSUME NEW S, NEW st \in Seq(S), NEW n \in Nat, Len(st) = n + 1
    PROVE  /\ SubSeq(st, 1, n) \in Seq(S)
           /\ Len(SubSeq(st, 1, n)) = n
           /\ \A p \in 1 .. n : SubSeq(st, 1, n)[p] = st[p]
<1>1. \A i \in 1 .. n : st[i] \in S
  OBVIOUS
<1>2. /\ SubSeq(st, 1, n) \in Seq(S)
      /\ Len(SubSeq(st, 1, n)) = IF 1 <= n THEN n - 1 + 1 ELSE 0
      /\ \A i \in 1 .. n - 1 + 1 : SubSeq(st, 1, n)[i] = st[1 + i - 1]
  BY <1>1, SubSeqProperties
<1>. QED  BY <1>2

\* A return (QueueSkip or QueueDone) whose module is queued afterwards.
LEMMA ReturnKeeps ==
    ASSUME StackInv, stack # << >>, stack' = Pop, UNCHANGED cells,
           queued \subseteq queued', Top.mod \in queued'
    PROVE  /\ stack' \in Seq(Frame)
           /\ \A p \in 1 .. Len(stack') : stack'[p].next <= Len(cells'[stack'[p].mod]) + 1
           /\ \A p \in 1 .. Len(stack') - 1 :
                  /\ stack'[p].next >= 2
                  /\ stack'[p + 1].mod = cells'[stack'[p].mod][stack'[p].next - 1]
           /\ \A p \in 1 .. Len(stack') : \A k \in 1 .. stack'[p].next - 1 :
                  cells'[stack'[p].mod][k] \in Modules =>
                      cells'[stack'[p].mod][k] \in queued' \/ (p < Len(stack') /\ k = stack'[p].next - 1)
<1>0. Len(stack) \in Nat \ {0}
  BY EmptySeq DEF StackInv
<1>1. /\ stack' \in Seq(Frame)
      /\ Len(stack') = Len(stack) - 1
      /\ \A p \in 1 .. Len(stack) - 1 : stack'[p] = stack[p]
  <2>1. Len(stack) - 1 \in Nat /\ Len(stack) = (Len(stack) - 1) + 1
    BY <1>0
  <2>. QED  BY <2>1, PopProperties DEF StackInv, Pop
<1>2. \A p \in 1 .. Len(stack') : \A k \in 1 .. stack'[p].next - 1 :
         cells'[stack'[p].mod][k] \in Modules =>
             cells'[stack'[p].mod][k] \in queued' \/ (p < Len(stack') /\ k = stack'[p].next - 1)
  <2> SUFFICES ASSUME NEW p \in 1 .. Len(stack'), NEW k \in 1 .. stack'[p].next - 1,
                      cells[stack[p].mod][k] \in Modules
               PROVE  cells[stack[p].mod][k] \in queued' \/ (p < Len(stack') /\ k = stack'[p].next - 1)
    BY <1>1
  <2>0. p \in 1 .. Len(stack) /\ p < Len(stack) /\ stack'[p] = stack[p]
       /\ k \in 1 .. stack[p].next - 1
    BY <1>0, <1>1
  <2>1. CASE p < Len(stack')
    <3>1. cells[stack[p].mod][k] \in queued \/ k = stack[p].next - 1
      BY <2>0 DEF StackInv
    <3>. QED  BY <2>0, <2>1, <3>1
  <2>2. CASE p = Len(stack') /\ k = stack[p].next - 1
    <3>1. p \in 1 .. Len(stack) - 1 /\ Len(stack) = p + 1
      BY <1>0, <1>1, <2>2
    <3>2. stack[p + 1].mod = cells[stack[p].mod][k]
      BY <2>2, <3>1 DEF StackInv
    <3>. QED  BY <3>1, <3>2 DEF Top
  <2>3. CASE p = Len(stack') /\ k # stack[p].next - 1
    BY <2>0, <2>3 DEF StackInv
  <2>4. p < Len(stack') \/ p = Len(stack')
    BY <1>0, <1>1
  <2>. QED  BY <2>1, <2>2, <2>3, <2>4
<1>3. \A p \in 1 .. Len(stack') : stack'[p].next <= Len(cells'[stack'[p].mod]) + 1
  <2> SUFFICES ASSUME NEW p \in 1 .. Len(stack')
               PROVE  stack'[p].next <= Len(cells'[stack'[p].mod]) + 1
    OBVIOUS
  <2>1. p \in 1 .. Len(stack) /\ stack'[p] = stack[p]
    BY <1>0, <1>1
  <2>. QED  BY <2>1 DEF StackInv
<1>4. \A p \in 1 .. Len(stack') - 1 :
         /\ stack'[p].next >= 2
         /\ stack'[p + 1].mod = cells'[stack'[p].mod][stack'[p].next - 1]
  <2> SUFFICES ASSUME NEW p \in 1 .. Len(stack') - 1
               PROVE  /\ stack'[p].next >= 2
                      /\ stack'[p + 1].mod = cells'[stack'[p].mod][stack'[p].next - 1]
    OBVIOUS
  <2>1. p \in 1 .. Len(stack) - 1 /\ p + 1 \in 1 .. Len(stack) - 1
    BY <1>0, <1>1
  <2>. QED  BY <1>1, <2>1 DEF StackInv
<1>. QED  BY <1>1, <1>2, <1>3, <1>4
\* The stack with the top frame's cell index set to v.
LEMMA SetNext ==
    ASSUME NEW st \in Seq(Frame), NEW L \in 1 .. Len(st), NEW v \in Nat
    PROVE  /\ [st EXCEPT ![L].next = v] \in Seq(Frame)
           /\ Len([st EXCEPT ![L].next = v]) = Len(st)
           /\ \A p \in 1 .. Len(st) :
                  /\ [st EXCEPT ![L].next = v][p].mod = st[p].mod
                  /\ [st EXCEPT ![L].next = v][p].next = IF p = L THEN v ELSE st[p].next
<1>0. st[L] \in Frame
  OBVIOUS
<1>1. [st[L] EXCEPT !.next = v] \in Frame
  <2>1. [st[L] EXCEPT !.next = v] = [mod |-> st[L].mod, next |-> v]
    BY <1>0 DEF Frame
  <2>. QED  BY <1>0, <2>1 DEF Frame
<1>2. [st EXCEPT ![L].next = v] = [st EXCEPT ![L] = [st[L] EXCEPT !.next = v]]
  OBVIOUS
<1>3. /\ [st EXCEPT ![L] = [st[L] EXCEPT !.next = v]] \in Seq(Frame)
      /\ Len([st EXCEPT ![L] = [st[L] EXCEPT !.next = v]]) = Len(st)
      /\ \A j \in 1 .. Len(st) : [st EXCEPT ![L] = [st[L] EXCEPT !.next = v]][j] =
             IF j = L THEN [st[L] EXCEPT !.next = v] ELSE st[j]
  BY <1>1, ExceptSeq
<1>. QED  BY <1>0, <1>2, <1>3 DEF Frame

LEMMA EnterStep ==
    ASSUME StackInv, QueueEnter PROVE StackInv'
<1>0. /\ Len(stack) \in Nat \ {0}
      /\ Top \in Frame /\ Top.next = 0
      /\ UNCHANGED <<cells, sorted, queued>>
  BY EmptySeq DEF StackInv, QueueEnter, Top
<1>1. /\ stack' \in Seq(Frame)
      /\ Len(stack') = Len(stack)
      /\ \A p \in 1 .. Len(stack) :
             /\ stack'[p].mod = stack[p].mod
             /\ stack'[p].next = IF p = Len(stack) THEN 1 ELSE stack[p].next
  <2>1. stack \in Seq(Frame) /\ Len(stack) \in 1 .. Len(stack) /\ 1 \in Nat
    BY <1>0 DEF StackInv
  <2>2. stack' = [stack EXCEPT ![Len(stack)].next = 1]
    BY DEF QueueEnter
  <2>. QED  BY <2>1, <2>2, SetNext
<1>2. \A p \in 1 .. Len(stack') : stack'[p].next <= Len(cells'[stack'[p].mod]) + 1
  <2> SUFFICES ASSUME NEW p \in 1 .. Len(stack)
               PROVE  stack'[p].next <= Len(cells[stack[p].mod]) + 1
    BY <1>0, <1>1
  <2>0. stack[p] \in Frame
    BY ElementOfSeq DEF StackInv
  <2>1. Len(cells[stack[p].mod]) \in Nat
    BY <2>0 DEF StackInv, Frame
  <2>. QED  BY <1>1, <2>1 DEF StackInv
<1>3. \A p \in 1 .. Len(stack') - 1 :
         /\ stack'[p].next >= 2
         /\ stack'[p + 1].mod = cells'[stack'[p].mod][stack'[p].next - 1]
  <2> SUFFICES ASSUME NEW p \in 1 .. Len(stack) - 1
               PROVE  /\ stack'[p].next >= 2
                      /\ stack'[p + 1].mod = cells'[stack'[p].mod][stack'[p].next - 1]
    BY <1>1
  <2>1. /\ stack'[p] .mod = stack[p].mod /\ stack'[p].next = stack[p].next
        /\ stack'[p + 1].mod = stack[p + 1].mod
    BY <1>0, <1>1
  <2>. QED  BY <1>0, <2>1 DEF StackInv
<1>4. \A p \in 1 .. Len(stack') : \A k \in 1 .. stack'[p].next - 1 :
         cells'[stack'[p].mod][k] \in Modules =>
             cells'[stack'[p].mod][k] \in queued' \/ (p < Len(stack') /\ k = stack'[p].next - 1)
  <2> SUFFICES ASSUME NEW p \in 1 .. Len(stack), NEW k \in 1 .. stack'[p].next - 1
               PROVE  cells[stack[p].mod][k] \in Modules =>
                          cells[stack[p].mod][k] \in queued \/ (p < Len(stack) /\ k = stack[p].next - 1)
    BY <1>0, <1>1
  <2>1. CASE p = Len(stack)
    BY <1>1, <2>1
  <2>2. CASE p # Len(stack)
    BY <1>1, <2>2 DEF StackInv
  <2>. QED  BY <2>1, <2>2
<1>. QED  BY <1>0, <1>1, <1>2, <1>3, <1>4 DEF StackInv, BottomUp, ChildModules

LEMMA SkipStep ==
    ASSUME StackInv, QueueSkip PROVE StackInv'
<1>1. UNCHANGED <<cells, sorted, queued>> /\ stack # << >> /\ stack' = Pop /\ Top.mod \in queued'
  BY DEF QueueSkip
<1>. QED  BY <1>1, ReturnKeeps DEF StackInv, BottomUp, ChildModules

\* A module whose frame has passed all its cells has all its child
\* modules queued.
LEMMA ChildrenQueued ==
    ASSUME StackInv, stack # << >>, Top.next = Len(cells[Top.mod]) + 1
    PROVE  ChildModules(Top.mod) \subseteq queued
<1>0. /\ Len(stack) \in Nat \ {0}
      /\ Top \in Frame
  BY EmptySeq, ElementOfSeq DEF StackInv, Top
<1> SUFFICES ASSUME NEW c \in ChildModules(Top.mod) PROVE c \in queued
  OBVIOUS
<1>1. cells[Top.mod] \in Seq(Types) /\ DOMAIN cells[Top.mod] = 1 .. Len(cells[Top.mod])
  BY <1>0 DEF StackInv, Frame
<1>2. PICK k \in 1 .. Len(cells[Top.mod]) : cells[Top.mod][k] = c /\ c \in Modules
  BY <1>1 DEF ChildModules, Range
<1>3. k \in 1 .. stack[Len(stack)].next - 1
  BY <1>1, <1>2 DEF Top
<1>4. Len(stack) \in 1 .. Len(stack)
  BY <1>0
<1>5. cells[stack[Len(stack)].mod][k] \in Modules =>
          cells[stack[Len(stack)].mod][k] \in queued
              \/ (Len(stack) < Len(stack) /\ k = stack[Len(stack)].next - 1)
  BY <1>3, <1>4 DEF StackInv
<1>. QED  BY <1>0, <1>2, <1>5 DEF Top

LEMMA DoneStep ==
    ASSUME StackInv, QueueDone PROVE StackInv'
<1>0. /\ stack # << >> /\ stack' = Pop /\ UNCHANGED cells
      /\ sorted' = Append(sorted, Top.mod) /\ queued' = queued \cup {Top.mod}
  BY DEF QueueDone
<1>6. Len(stack) \in Nat \ {0}
  BY <1>0, EmptySeq DEF StackInv
<1>7. Top \in Frame
  <2>1. Len(stack) \in 1 .. Len(stack)
    BY <1>6
  <2>. QED  BY <2>1, ElementOfSeq DEF StackInv, Top
<1>8. Top.mod \in Modules
  BY <1>7 DEF Frame
<1>1. ChildModules(Top.mod) \subseteq queued
  BY ChildrenQueued DEF QueueDone
<1>2. /\ sorted' \in Seq(Modules)
      /\ Len(sorted') = Len(sorted) + 1
      /\ \A i \in 1 .. Len(sorted) : sorted'[i] = sorted[i]
      /\ sorted'[Len(sorted) + 1] = Top.mod
  BY <1>0, <1>8, AppendProperties DEF StackInv
<1>3. queued' = Range(sorted')
  <2>1. DOMAIN sorted = 1 .. Len(sorted) /\ DOMAIN sorted' = 1 .. Len(sorted) + 1
    BY <1>2 DEF StackInv
  <2>2. queued = {sorted[i] : i \in 1 .. Len(sorted)}
    BY <2>1 DEF StackInv, Range
  <2>3. Range(sorted') = {sorted'[i] : i \in 1 .. Len(sorted) + 1}
    BY <2>1 DEF Range
  <2>4. Len(sorted) \in Nat
    BY DEF StackInv
  <2>. QED  BY <1>0, <1>2, <2>2, <2>3, <2>4
<1>4. BottomUp'
  <2> SUFFICES ASSUME NEW j \in 1 .. Len(sorted'), NEW c \in ChildModules(sorted'[j])
               PROVE  \E i \in 1 .. j - 1 : sorted'[i] = c
    BY <1>0 DEF BottomUp, ChildModules
  <2>1. CASE j <= Len(sorted)
    <3>1. sorted'[j] = sorted[j] /\ j \in 1 .. Len(sorted)
      BY <1>2, <2>1 DEF StackInv
    <3>2. \E i \in 1 .. j - 1 : sorted[i] = c
      BY <3>1 DEF StackInv, BottomUp
    <3>. QED  BY <1>2, <3>2, <3>1 DEF StackInv
  <2>2. CASE j = Len(sorted) + 1
    <3>1. c \in Range(sorted)
      BY <1>1, <1>2, <2>2 DEF StackInv
    <3>2. PICK i \in 1 .. Len(sorted) : sorted[i] = c
      BY <3>1 DEF StackInv, Range
    <3>. QED  BY <1>2, <2>2, <3>2 DEF StackInv
  <2>. QED  BY <1>2, <2>1, <2>2 DEF StackInv
<1>5. queued \subseteq queued' /\ Top.mod \in queued'
  BY <1>0
<1>. QED  BY <1>0, <1>2, <1>3, <1>4, <1>5, ReturnKeeps DEF StackInv

\* BottomUp depends only on the design and the order.
LEMMA BottomUpStable ==
    ASSUME BottomUp, cells' = cells, sorted' = sorted PROVE BottomUp'
BY DEF BottomUp, ChildModules

\* QueueCell: the top frame passes cell n of module m.
LEMMA CellStep ==
    ASSUME StackInv, QueueCell PROVE StackInv'
<1> DEFINE L == Len(stack)
           m == stack[L].mod
           n == stack[L].next
           t == cells[m][n]
<1> USE DEF L, m, n, t
<1>0. /\ stack # << >> /\ n \in 1 .. Len(cells[m])
      /\ stack' = IF t \in Modules THEN Append(Advance, [mod |-> t, next |-> 0]) ELSE Advance
      /\ UNCHANGED <<cells, sorted, queued>>
  BY DEF QueueCell, Top
<1>1. L \in Nat \ {0} /\ L \in 1 .. L
  BY <1>0, EmptySeq DEF StackInv
<1>2. stack[L] \in Frame /\ m \in Modules /\ cells[m] \in Seq(Types)
  <2>1. stack[L] \in Frame
    BY <1>1, ElementOfSeq DEF StackInv
  <2>2. m \in Modules
    BY <2>1 DEF Frame
  <2>. QED  BY <2>1, <2>2 DEF StackInv
<1>3. /\ Advance \in Seq(Frame)
      /\ Len(Advance) = L
      /\ \A p \in 1 .. L :
             /\ Advance[p].mod = stack[p].mod
             /\ Advance[p].next = IF p = L THEN n + 1 ELSE stack[p].next
  <2>1. Advance = [stack EXCEPT ![L].next = n + 1]
    BY DEF Advance
  <2>2. n + 1 \in Nat
    BY <1>0, <1>2
  <2>. QED  BY <1>1, <2>1, <2>2, SetNext DEF StackInv
\* Frames below the top are untouched.
<1>4. \A p \in 1 .. L - 1 : Advance[p] = stack[p]
  BY <1>1 DEF Advance
\* The top frame: every module cell before n is queued.
<1>5. \A k \in 1 .. n : cells[m][k] \in Modules => cells[m][k] \in queued \/ k = n
  <2> SUFFICES ASSUME NEW k \in 1 .. n, cells[m][k] \in Modules, k # n
               PROVE  cells[m][k] \in queued
    OBVIOUS
  <2>1. k \in 1 .. stack[L].next - 1
    BY <1>0, <1>2
  <2>2. cells[stack[L].mod][k] \in Modules =>
            cells[stack[L].mod][k] \in queued \/ (L < Len(stack) /\ k = stack[L].next - 1)
    BY <1>1, <2>1 DEF StackInv
  <2>. QED  BY <2>2
\* Each frame of Advance, against the same frame of the stack.
<1>6. ASSUME NEW p \in 1 .. L
      PROVE  /\ Advance[p].mod = stack[p].mod
             /\ Advance[p].next <= Len(cells[Advance[p].mod]) + 1
             /\ Advance[p].next >= 2
             /\ p < L => /\ Advance[p] = stack[p]
                         /\ p + 1 \in 1 .. L
                         /\ Advance[p + 1].mod = stack[p + 1].mod
             /\ \A k \in 1 .. Advance[p].next - 1 :
                    cells[Advance[p].mod][k] \in Modules =>
                        cells[Advance[p].mod][k] \in queued \/ (p = L /\ k = n)
                                                     \/ (p < L /\ k = Advance[p].next - 1)
  <2>1. CASE p = L
    <3>1. Advance[p].mod = m /\ Advance[p].next = n + 1
      BY <1>3, <2>1
    <3>2. Len(cells[m]) \in Nat
      BY <1>2
    <3>. QED  BY <1>0, <1>5, <2>1, <3>1, <3>2
  <2>2. CASE p # L
    <3>1. p < L /\ p + 1 \in 1 .. L
      BY <1>1, <2>2
    <3>2. Advance[p] = stack[p] /\ Advance[p + 1].mod = stack[p + 1].mod
      BY <1>3, <1>4, <3>1
    <3>3. stack[p].next <= Len(cells[stack[p].mod]) + 1
      BY DEF StackInv
    <3>4. stack[p].next >= 2 /\ stack[p + 1].mod = cells[stack[p].mod][stack[p].next - 1]
      BY <3>1 DEF StackInv
    <3>5. \A k \in 1 .. stack[p].next - 1 :
             cells[stack[p].mod][k] \in Modules =>
                 cells[stack[p].mod][k] \in queued \/ k = stack[p].next - 1
      BY DEF StackInv
    <3>. QED  BY <3>1, <3>2, <3>3, <3>4, <3>5
  <2>. QED  BY <2>1, <2>2
<1>7. \A p \in 1 .. L - 1 : Advance[p + 1].mod = cells[Advance[p].mod][Advance[p].next - 1]
  <2> SUFFICES ASSUME NEW p \in 1 .. L - 1
               PROVE  Advance[p + 1].mod = cells[Advance[p].mod][Advance[p].next - 1]
    OBVIOUS
  <2>1. p \in 1 .. L /\ p < L
    BY <1>1
  <2>2. stack[p + 1].mod = cells[stack[p].mod][stack[p].next - 1]
    BY DEF StackInv
  <2>. QED  BY <1>6, <2>1, <2>2
<1>8. CASE t \notin Modules
  <2>1. stack' = Advance
    BY <1>0, <1>8
  <2>2. \A p \in 1 .. Len(stack') : \A k \in 1 .. stack'[p].next - 1 :
           cells'[stack'[p].mod][k] \in Modules =>
               cells'[stack'[p].mod][k] \in queued' \/ (p < Len(stack') /\ k = stack'[p].next - 1)
    <3> SUFFICES ASSUME NEW p \in 1 .. L, NEW k \in 1 .. Advance[p].next - 1,
                        cells[Advance[p].mod][k] \in Modules
                 PROVE  cells[Advance[p].mod][k] \in queued \/ (p < L /\ k = Advance[p].next - 1)
      BY <1>0, <1>3, <2>1
    <3>1. ~(p = L /\ k = n)
      BY <1>3, <1>8
    <3>. QED  BY <1>6, <3>1
  <2>3. \A p \in 1 .. Len(stack') : stack'[p].next <= Len(cells'[stack'[p].mod]) + 1
    BY <1>0, <1>3, <1>6, <2>1
  <2>4. \A p \in 1 .. Len(stack') - 1 :
           /\ stack'[p].next >= 2
           /\ stack'[p + 1].mod = cells'[stack'[p].mod][stack'[p].next - 1]
    <3> SUFFICES ASSUME NEW p \in 1 .. L - 1
                 PROVE  /\ Advance[p].next >= 2
                        /\ Advance[p + 1].mod = cells[Advance[p].mod][Advance[p].next - 1]
      BY <1>0, <1>3, <2>1
    <3>1. p \in 1 .. L
      BY <1>1
    <3>. QED  BY <1>6, <1>7, <3>1
  <2>5. BottomUp'
    BY <1>0, BottomUpStable DEF StackInv
  <2>6. stack' \in Seq(Frame)
    BY <1>3, <2>1
  <2>. QED  BY <1>0, <2>2, <2>3, <2>4, <2>5, <2>6 DEF StackInv
<1>9. CASE t \in Modules
  <2> DEFINE F == [mod |-> t, next |-> 0]
  <2> USE DEF F
  <2>0. F \in Frame
    BY <1>9 DEF Frame
  <2>1. /\ stack' \in Seq(Frame)
        /\ Len(stack') = L + 1
        /\ \A p \in 1 .. L : stack'[p] = Advance[p]
        /\ stack'[L + 1] = F
    <3>1. stack' = Append(Advance, F)
      BY <1>0, <1>9
    <3>. QED  BY <1>3, <2>0, <3>1, AppendProperties
  <2>2. \A p \in 1 .. Len(stack') : \A k \in 1 .. stack'[p].next - 1 :
           cells'[stack'[p].mod][k] \in Modules =>
               cells'[stack'[p].mod][k] \in queued' \/ (p < Len(stack') /\ k = stack'[p].next - 1)
    <3> SUFFICES ASSUME NEW p \in 1 .. L + 1, NEW k \in 1 .. stack'[p].next - 1,
                        cells[stack'[p].mod][k] \in Modules
                 PROVE  cells[stack'[p].mod][k] \in queued \/ (p < L + 1 /\ k = stack'[p].next - 1)
      BY <1>0, <2>1
    <3>1. CASE p = L + 1
      BY <2>1, <3>1
    <3>2. CASE p \in 1 .. L
      <4>1. stack'[p] = Advance[p]
        BY <2>1, <3>2
      <4>2. (p = L /\ k = n) => k = Advance[p].next - 1
        BY <1>0, <1>2, <1>3, <3>2
      <4>. QED  BY <1>6, <3>2, <4>1, <4>2
    <3>. QED  BY <1>1, <3>1, <3>2
  <2>3. \A p \in 1 .. Len(stack') : stack'[p].next <= Len(cells'[stack'[p].mod]) + 1
    <3> SUFFICES ASSUME NEW p \in 1 .. L + 1
                 PROVE  stack'[p].next <= Len(cells[stack'[p].mod]) + 1
      BY <1>0, <2>1
    <3>1. CASE p = L + 1
      <4>1. cells[t] \in Seq(Types)
        BY <1>9 DEF StackInv
      <4>. QED  BY <2>1, <3>1, <4>1
    <3>2. CASE p \in 1 .. L
      BY <1>6, <2>1, <3>2
    <3>. QED  BY <1>1, <3>1, <3>2
  <2>4. \A p \in 1 .. Len(stack') - 1 :
           /\ stack'[p].next >= 2
           /\ stack'[p + 1].mod = cells'[stack'[p].mod][stack'[p].next - 1]
    <3> SUFFICES ASSUME NEW p \in 1 .. Len(stack') - 1
                 PROVE  /\ stack'[p].next >= 2
                        /\ stack'[p + 1].mod = cells[stack'[p].mod][stack'[p].next - 1]
      BY <1>0
    <3>0. p \in 1 .. L
      BY <1>1, <2>1
    <3>1. CASE p = L
      <4>1. stack'[p] = Advance[p] /\ Advance[p].mod = m /\ Advance[p].next = n + 1
        BY <1>3, <2>1, <3>1
      <4>2. stack'[p + 1].mod = t
        BY <2>1, <3>1
      <4>3. n \in Nat /\ n >= 1
        BY <1>0, <1>2
      <4>6. stack'[p].next = n + 1 /\ stack'[p].mod = m
        BY <4>1
      <4>7. stack'[p].next - 1 = n
        BY <4>3, <4>6
      <4>8. stack'[p].next >= 2
        BY <4>3, <4>6
      <4>4. stack'[p].next - 1 = n /\ stack'[p].mod = m /\ stack'[p].next >= 2
        BY <4>6, <4>7, <4>8
      <4>5. cells[stack'[p].mod][stack'[p].next - 1] = t
        BY <4>4
      <4>. QED  BY <4>2, <4>4, <4>5
    <3>2. CASE p \in 1 .. L - 1
      <4>1. p + 1 \in 1 .. L /\ p \in 1 .. L
        BY <1>1, <3>2
      <4>2. stack'[p] = Advance[p] /\ stack'[p + 1] = Advance[p + 1]
        BY <2>1, <4>1
      <4>3. Advance[p].next >= 2
        BY <1>6, <4>1
      <4>4. Advance[p + 1].mod = cells[Advance[p].mod][Advance[p].next - 1]
        BY <1>7, <3>2
      <4>. QED  BY <4>2, <4>3, <4>4
    <3>. QED  BY <1>1, <3>0, <3>1, <3>2
  <2>5. BottomUp'
    BY <1>0, BottomUpStable DEF StackInv
  <2>. QED  BY <1>0, <2>1, <2>2, <2>3, <2>4, <2>5 DEF StackInv
<1>. QED  BY <1>8, <1>9

LEMMA StackInvInductive == StackInv /\ [HierNext]_hierVars => StackInv'
<1> SUFFICES ASSUME StackInv, [HierNext]_hierVars PROVE StackInv'
  OBVIOUS
<1>1. CASE \E m \in Modules : QueueRoot(m)
  BY <1>1, RootStep
<1>2. CASE QueueSkip
  BY <1>2, SkipStep
<1>3. CASE QueueEnter
  BY <1>3, EnterStep
<1>4. CASE QueueCell
  BY <1>4, CellStep
<1>5. CASE QueueDone
  BY <1>5, DoneStep
\* StartProcess and the loop over modules_sorted read the order only.
<1>6. CASE StartProcess \/ BlackboxPort \/ BlackboxDone \/ ProcessModule \/ EndProcess
       \/ UNCHANGED hierVars
  <2>1. UNCHANGED <<cells, stack, sorted, queued>>
    BY <1>6 DEF StartProcess, BlackboxPort, BlackboxDone, ProcessModule, EndProcess, hierVars
  <2>. QED  BY <2>1, OrderUnchanged
<1>. QED  BY <1>1, <1>2, <1>3, <1>4, <1>5, <1>6 DEF HierNext

-----------------------------------------------------------------------------
(***************************************************************************)
(* modules_sorted holds no module twice.  A frame that has passed the     *)
(* modules_processed test of line 68 holds a module not yet processed, so *)
(* line 76 never appends a module already in modules_sorted.  The one     *)
(* subtle case is a cycle: a module can be entered again by a frame above *)
(* its own, but that inner call can never finish, since it would need its *)
(* child (the frame above it) to be processed first.                      *)
(***************************************************************************)
EnteredFresh == \A p \in 1 .. Len(stack) : stack[p].next >= 1 => stack[p].mod \notin queued

QInv == StackInv /\ EnteredFresh /\ IsInjective(sorted)

LEMMA InitQInv == HierInit => QInv
<1> SUFFICES ASSUME HierInit PROVE QInv
  OBVIOUS
<1>1. stack = << >> /\ sorted = << >>
  BY DEF HierInit
<1>2. IsInjective(<< >>)
  BY DEF IsInjective
<1>. QED  BY <1>1, <1>2, InitStackInv DEF QInv, EnteredFresh

\* The module of a frame that has passed all its cells is on no frame below.
LEMMA DoneFrameUnique ==
    ASSUME StackInv, EnteredFresh, stack # << >>, Top.next = Len(cells[Top.mod]) + 1,
           NEW p \in 1 .. Len(stack) - 1
    PROVE  stack[p].mod # Top.mod
<1> DEFINE L == Len(stack)
           q == p + 1
<1> USE DEF L, q
<1>0. L \in Nat \ {0} /\ p \in 1 .. L /\ q \in 1 .. L
  BY EmptySeq DEF StackInv
<1>1. stack[p] \in Frame /\ stack[q] \in Frame /\ stack[L] \in Frame
  BY <1>0, ElementOfSeq DEF StackInv
<1> SUFFICES ASSUME stack[p].mod = Top.mod PROVE FALSE
  OBVIOUS
<1>2. /\ stack[p].next >= 2
      /\ stack[q].mod = cells[stack[p].mod][stack[p].next - 1]
      /\ stack[p].next <= Len(cells[stack[p].mod]) + 1
  BY <1>0 DEF StackInv
<1>3. cells[stack[p].mod] \in Seq(Types) /\ stack[p].next \in Nat
  BY <1>1 DEF StackInv, Frame
<1>4. stack[p].next - 1 \in DOMAIN cells[stack[p].mod]
  BY <1>2, <1>3
<1>5. stack[q].mod \in ChildModules(Top.mod)
  BY <1>1, <1>2, <1>4 DEF ChildModules, Range, Frame
<1>6. stack[q].mod \in queued
  BY <1>5, ChildrenQueued
<1>7. stack[q].next >= 1
  <2>1. CASE q < L
    <3>1. q \in 1 .. L - 1
      BY <1>0, <2>1
    <3>2. stack[q].next >= 2
      BY <3>1 DEF StackInv
    <3>3. stack[q].next \in Nat
      BY <1>1 DEF Frame
    <3>. QED  BY <3>2, <3>3
  <2>2. CASE q = L
    <3>1. Len(cells[Top.mod]) \in Nat
      BY <1>1, <1>3 DEF Top, Frame, StackInv
    <3>. QED  BY <2>2, <3>1 DEF Top
  <2>. QED  BY <1>0, <2>1, <2>2
<1>. QED  BY <1>0, <1>6, <1>7 DEF EnteredFresh

\* Appending an element not yet in a sequence keeps it free of repeats.
LEMMA AppendFresh ==
    ASSUME NEW S, NEW s \in Seq(S), NEW e \in S, IsInjective(s), e \notin Range(s)
    PROVE  IsInjective(Append(s, e))
<1>1. /\ Len(Append(s, e)) = Len(s) + 1
      /\ \A i \in 1 .. Len(s) : Append(s, e)[i] = s[i]
      /\ Append(s, e)[Len(s) + 1] = e
      /\ Append(s, e) \in Seq(S)
  BY AppendProperties
<1>2. DOMAIN Append(s, e) = 1 .. Len(s) + 1 /\ DOMAIN s = 1 .. Len(s) /\ Len(s) \in Nat
  BY <1>1
<1>3. \A i \in 1 .. Len(s) : s[i] # e
  BY <1>2 DEF Range
<1>. QED  BY <1>1, <1>2, <1>3 DEF IsInjective

LEMMA FreshInductive ==
    ASSUME QInv, [HierNext]_hierVars PROVE EnteredFresh' /\ IsInjective(sorted')
<1> DEFINE L == Len(stack)
<1> USE DEF L
<1>0. stack \in Seq(Frame) /\ L \in Nat /\ sorted \in Seq(Modules) /\ queued = Range(sorted)
  BY DEF QInv, StackInv
<1>1. CASE \E m \in Modules : QueueRoot(m)
  <2>1. PICK m \in Modules : QueueRoot(m)
    BY <1>1
  <2>2. stack' = << [mod |-> m, next |-> 0] >> /\ UNCHANGED sorted
    BY <2>1 DEF QueueRoot
  <2>. QED  BY <2>2 DEF QInv, EnteredFresh
<1>2. CASE QueueSkip
  <2>1. stack # << >> /\ stack' = Pop /\ UNCHANGED <<sorted, queued>>
    BY <1>2 DEF QueueSkip
  <2>2. L - 1 \in Nat /\ L = (L - 1) + 1
    BY <1>0, <2>1, EmptySeq
  <2>3. Len(stack') = L - 1 /\ \A p \in 1 .. L - 1 : stack'[p] = stack[p]
    BY <1>0, <2>1, <2>2, PopProperties DEF Pop
  <2>. QED  BY <2>1, <2>3, <2>2 DEF QInv, EnteredFresh
<1>3. CASE QueueEnter
  <2>1. stack # << >> /\ Top.mod \notin queued /\ UNCHANGED <<sorted, queued>>
        /\ stack' = [stack EXCEPT ![L].next = 1]
    BY <1>3 DEF QueueEnter
  <2>2. L \in 1 .. L
    BY <1>0, <2>1, EmptySeq
  <2>3. /\ Len(stack') = L
        /\ \A p \in 1 .. L : stack'[p].mod = stack[p].mod
                           /\ stack'[p].next = IF p = L THEN 1 ELSE stack[p].next
    BY <1>0, <2>1, <2>2, SetNext
  <2>. QED  BY <2>1, <2>3 DEF QInv, EnteredFresh, Top
<1>4. CASE QueueCell
  <2>1. /\ stack # << >> /\ stack[L].next \in 1 .. Len(cells[stack[L].mod])
        /\ UNCHANGED <<sorted, queued>>
        /\ \/ stack' = Advance
           \/ \E f \in Frame : f.next = 0 /\ stack' = Append(Advance, f)
    <3>1. stack # << >> /\ stack[L].next \in 1 .. Len(cells[stack[L].mod])
          /\ UNCHANGED <<sorted, queued>>
      BY <1>4 DEF QueueCell, Top
    <3>2. cells[stack[L].mod][stack[L].next] \in Modules =>
              [mod |-> cells[stack[L].mod][stack[L].next], next |-> 0] \in Frame
      BY DEF Frame
    <3>. QED  BY <1>4, <3>1, <3>2 DEF QueueCell, Top
  <2>2. L \in 1 .. L /\ stack[L] \in Frame
    BY <1>0, <2>1, EmptySeq, ElementOfSeq
  <2>3. /\ Advance \in Seq(Frame)
        /\ Len(Advance) = L
        /\ \A p \in 1 .. L : Advance[p].mod = stack[p].mod
                           /\ Advance[p].next = IF p = L THEN stack[L].next + 1 ELSE stack[p].next
    <3>1. stack[L].next + 1 \in Nat
      BY <2>1, <2>2 DEF Frame
    <3>2. Advance = [stack EXCEPT ![L].next = stack[L].next + 1]
      BY DEF Advance
    <3>. QED  BY <1>0, <2>2, <3>1, <3>2, SetNext
  \* The frames of Advance are as fresh as those of the stack.
  <2>4. \A p \in 1 .. L : Advance[p].next >= 1 => Advance[p].mod \notin queued
    <3> SUFFICES ASSUME NEW p \in 1 .. L, Advance[p].next >= 1
                 PROVE  Advance[p].mod \notin queued
      OBVIOUS
    <3>1. stack[p].next >= 1
      <4>1. CASE p = L
        BY <2>1, <4>1
      <4>2. CASE p # L
        BY <2>3, <4>2
      <4>. QED  BY <4>1, <4>2
    <3>. QED  BY <2>3, <3>1 DEF QInv, EnteredFresh
  <2>5. CASE stack' = Advance
    BY <2>1, <2>3, <2>4, <2>5 DEF QInv, EnteredFresh
  <2>6. CASE \E f \in Frame : f.next = 0 /\ stack' = Append(Advance, f)
    <3>1. PICK f \in Frame : f.next = 0 /\ stack' = Append(Advance, f)
      BY <2>6
    <3>2. /\ Len(stack') = L + 1
          /\ \A p \in 1 .. L : stack'[p] = Advance[p]
          /\ stack'[L + 1] = f
      BY <2>3, <3>1, AppendProperties
    <3>3. \A p \in 1 .. L + 1 : stack'[p].next >= 1 => stack'[p].mod \notin queued'
      <4> SUFFICES ASSUME NEW p \in 1 .. L + 1, stack'[p].next >= 1
                   PROVE  stack'[p].mod \notin queued'
        OBVIOUS
      <4>1. p # L + 1
        BY <3>1, <3>2
      <4>2. p \in 1 .. L
        BY <1>0, <4>1
      <4>. QED  BY <2>1, <2>4, <3>2, <4>2
    <3>. QED  BY <2>1, <3>2, <3>3 DEF QInv, EnteredFresh
  <2>. QED  BY <2>1, <2>5, <2>6
<1>5. CASE QueueDone
  <2>1. /\ stack # << >> /\ Top.next = Len(cells[Top.mod]) + 1
        /\ stack' = Pop /\ queued' = queued \cup {Top.mod}
        /\ sorted' = Append(sorted, Top.mod)
    BY <1>5 DEF QueueDone
  <2>2. L - 1 \in Nat /\ L = (L - 1) + 1 /\ L \in 1 .. L
    BY <1>0, <2>1, EmptySeq
  <2>3. Len(stack') = L - 1 /\ \A p \in 1 .. L - 1 : stack'[p] = stack[p]
    BY <1>0, <2>1, <2>2, PopProperties DEF Pop
  <2>4. Top \in Frame /\ Top.mod \in Modules
    <3>1. stack[L] \in Frame
      BY <1>0, <2>2, ElementOfSeq
    <3>. QED  BY <3>1 DEF Top, Frame
  <2>5. Top.mod \notin queued
    <3>1. Len(cells[Top.mod]) \in Nat
      BY <2>4 DEF QInv, StackInv
    <3>. QED  BY <2>1, <2>2, <3>1 DEF QInv, EnteredFresh, Top
  <2>6. EnteredFresh'
    <3> SUFFICES ASSUME NEW p \in 1 .. L - 1, stack'[p].next >= 1
                 PROVE  stack'[p].mod \notin queued'
      BY <2>3 DEF EnteredFresh
    <3>1. stack[p].mod # Top.mod
      BY <2>1, DoneFrameUnique DEF QInv
    <3>2. stack[p].mod \notin queued
      BY <2>2, <2>3 DEF QInv, EnteredFresh
    <3>. QED  BY <2>1, <2>3, <3>1, <3>2
  <2>7. IsInjective(sorted')
    BY <1>0, <2>1, <2>4, <2>5, AppendFresh DEF QInv
  <2>. QED  BY <2>6, <2>7
<1>6. CASE StartProcess \/ BlackboxPort \/ BlackboxDone \/ ProcessModule \/ EndProcess
       \/ UNCHANGED hierVars
  <2>1. UNCHANGED <<stack, sorted, queued>>
    BY <1>6 DEF StartProcess, BlackboxPort, BlackboxDone, ProcessModule, EndProcess, hierVars
  <2>. QED  BY <2>1 DEF QInv, EnteredFresh
<1>. QED  BY <1>1, <1>2, <1>3, <1>4, <1>5, <1>6 DEF HierNext

LEMMA QInvInductive == QInv /\ [HierNext]_hierVars => QInv'
BY FreshInductive, StackInvInductive DEF QInv

(***************************************************************************)
(* module_queue puts every module after the modules it instantiates, for   *)
(* every design and every selection (clkbufmap.cc lines 66-78, 132-138);   *)
(* no acyclicity of the design is assumed.                                 *)
(***************************************************************************)
THEOREM BottomUpHolds == HierSpec => []BottomUp
<1>1. StackInv => BottomUp
  BY DEF StackInv
<1>. QED  BY <1>1, InitStackInv, StackInvInductive, PTL DEF HierSpec

-----------------------------------------------------------------------------
(***************************************************************************)
(* Hierarchy monotonicity.  Processing module c (a blackbox port or an     *)
(* ordinary module) adds, and for the inverter maps overwrites, only       *)
(* entries keyed by c; the entries about a set of types without c stay as *)
(* they were.  A module processed earlier has no cell of type c, since    *)
(* c would then come before it in modules_sorted (BottomUp) and occur     *)
(* twice (QInv).                                                           *)
(***************************************************************************)

\* The key bits of a port set of module m are keyed by m.
LEMMA PortBitsKeys ==
    ASSUME NEW m, NEW ports, NEW k \in PortBits(m, ports)
    PROVE  k[1] = m
BY DEF PortBits

\* A step that adds or overwrites only table entries keyed by c.
KeyedStep(c) ==
    /\ bufPorts \subseteq bufPorts'
    /\ \A k \in bufPorts' : k \in bufPorts \/ k[1] = c
    /\ sinkPorts \subseteq sinkPorts'
    /\ \A k \in sinkPorts' : k \in sinkPorts \/ k[1] = c
    /\ \A k \in DOMAIN invOut' : k[1] # c => k \in DOMAIN invOut /\ invOut'[k] = invOut[k]
    /\ \A k \in DOMAIN invOut : k[1] # c => k \in DOMAIN invOut'
    /\ \A k \in DOMAIN invIn' : k[1] # c => k \in DOMAIN invIn /\ invIn'[k] = invIn[k]
    /\ \A k \in DOMAIN invIn : k[1] # c => k \in DOMAIN invIn'

\* Such a step leaves the entries about types other than c alone.
LEMMA TablesKeep ==
    ASSUME NEW T, NEW c, c \notin T, KeyedStep(c)
    PROVE  TablesAbout(T)' = TablesAbout(T)
<1> USE DEF KeyedStep
<1>1. {k \in bufPorts' : k[1] \in T} = {k \in bufPorts : k[1] \in T}
  OBVIOUS
<1>2. {k \in sinkPorts' : k[1] \in T} = {k \in sinkPorts : k[1] \in T}
  OBVIOUS
<1>3. {k \in DOMAIN invOut' : k[1] \in T} = {k \in DOMAIN invOut : k[1] \in T}
  OBVIOUS
<1>4. {k \in DOMAIN invIn' : k[1] \in T} = {k \in DOMAIN invIn : k[1] \in T}
  OBVIOUS
<1>5. {<<k, invOut'[k]>> : k \in {k \in DOMAIN invOut' : k[1] \in T}}
        = {<<k, invOut[k]>> : k \in {k \in DOMAIN invOut : k[1] \in T}}
  BY <1>3
<1>6. {<<k, invIn'[k]>> : k \in {k \in DOMAIN invIn' : k[1] \in T}}
        = {<<k, invIn[k]>> : k \in {k \in DOMAIN invIn : k[1] \in T}}
  BY <1>4
<1>. QED  BY <1>1, <1>2, <1>5, <1>6 DEF TablesAbout

\* A module is no cell type of any module at or after it in modules_sorted.
LEMMA NotChildLater ==
    ASSUME QInv, NEW j \in 1 .. Len(sorted), NEW i \in 1 .. Len(sorted), j <= i
    PROVE  sorted[i] \notin Range(cells[sorted[j]])
<1> SUFFICES ASSUME sorted[i] \in Range(cells[sorted[j]]) PROVE FALSE
  OBVIOUS
<1>1. sorted[i] \in Modules
  BY ElementOfSeq DEF QInv, StackInv
<1>2. sorted[i] \in ChildModules(sorted[j])
  BY <1>1 DEF ChildModules
<1>3. PICK i2 \in 1 .. j - 1 : sorted[i2] = sorted[i]
  BY <1>2 DEF QInv, StackInv, BottomUp
<1>4. DOMAIN sorted = 1 .. Len(sorted)
  BY DEF QInv, StackInv
<1>5. i2 = i
  BY <1>3, <1>4 DEF QInv, IsInjective
<1>. QED  BY <1>3, <1>5

\* Assigning entries keyed by c over a map keeps its other entries.
LEMMA PutKeep ==
    ASSUME NEW f, NEW g, NEW c, \A k \in DOMAIN g : k[1] = c
    PROVE  /\ \A k \in DOMAIN Put(f, g) : k[1] # c => k \in DOMAIN f /\ Put(f, g)[k] = f[k]
           /\ \A k \in DOMAIN f : k[1] # c => k \in DOMAIN Put(f, g)
BY DEF Put

LEMMA PortKeyed == ASSUME BlackboxPort PROVE KeyedStep(Cur)
<1> DEFINE m == Cur
           w == PortsOf[m][portIdx]
           bits == PortBits(m, {w})
<1> USE DEF m, w, bits
<1>1. \A k \in bits : k[1] = m
  BY PortBitsKeys
<1>2. /\ bufPorts' = IF <<m, w>> \in BbDriver THEN bufPorts \cup bits ELSE bufPorts
      /\ sinkPorts' = IF <<m, w>> \in BbSink THEN sinkPorts \cup bits ELSE sinkPorts
  BY DEF BlackboxPort
<1>3. CASE <<m, w>> \in DOMAIN BbInv
  <2> DEFINE inName == BbInv[<<m, w>>]
             inBits == {<<m, inName, k[3]>> : k \in bits}
             gOut == [k \in bits |-> <<inName, k[3]>>]
             gIn == [k \in inBits |-> <<w, k[3]>>]
  <2>1. invOut' = Put(invOut, gOut) /\ invIn' = Put(invIn, gIn)
    BY <1>3 DEF BlackboxPort
  <2>2. \A k \in DOMAIN gOut : k[1] = m
    BY <1>1
  <2>5. \A k \in DOMAIN gIn : k[1] = m
    OBVIOUS
  <2>3. /\ \A k \in DOMAIN invOut' : k[1] # m => k \in DOMAIN invOut /\ invOut'[k] = invOut[k]
        /\ \A k \in DOMAIN invOut : k[1] # m => k \in DOMAIN invOut'
    <3>1. /\ \A k \in DOMAIN Put(invOut, gOut) : k[1] # m =>
                  k \in DOMAIN invOut /\ Put(invOut, gOut)[k] = invOut[k]
          /\ \A k \in DOMAIN invOut : k[1] # m => k \in DOMAIN Put(invOut, gOut)
      BY <2>2, PutKeep
    <3>. QED  BY <2>1, <3>1
  <2>4. /\ \A k \in DOMAIN invIn' : k[1] # m => k \in DOMAIN invIn /\ invIn'[k] = invIn[k]
        /\ \A k \in DOMAIN invIn : k[1] # m => k \in DOMAIN invIn'
    <3>1. /\ \A k \in DOMAIN Put(invIn, gIn) : k[1] # m =>
                  k \in DOMAIN invIn /\ Put(invIn, gIn)[k] = invIn[k]
          /\ \A k \in DOMAIN invIn : k[1] # m => k \in DOMAIN Put(invIn, gIn)
      BY <2>5, PutKeep
    <3>. QED  BY <2>1, <3>1
  <2>. QED  BY <1>1, <1>2, <2>3, <2>4 DEF KeyedStep
<1>4. CASE <<m, w>> \notin DOMAIN BbInv
  <2>1. UNCHANGED <<invOut, invIn>>
    BY <1>4 DEF BlackboxPort
  <2>. QED  BY <1>1, <1>2, <2>1 DEF KeyedStep
<1>. QED  BY <1>3, <1>4

LEMMA ModuleKeyed == ASSUME ProcessModule PROVE KeyedStep(Cur)
<1>1. UNCHANGED <<invOut, invIn>>
  BY DEF ProcessModule
<1>2. CASE Cur \in sel
  <2>1. PICK pb \in SUBSET PortBits(Cur, OutPortsOf[Cur] \ InPortsOf[Cur]),
             ps \in SUBSET PortBits(Cur, InPortsOf[Cur] \ OutPortsOf[Cur]) :
          bufPorts' = bufPorts \cup pb /\ sinkPorts' = sinkPorts \cup ps
    BY <1>2 DEF ProcessModule
  <2>2. \A k \in pb \cup ps : k[1] = Cur
    BY PortBitsKeys
  <2>. QED  BY <1>1, <2>1, <2>2 DEF KeyedStep
<1>3. CASE Cur \notin sel
  <2>1. bufPorts' = bufPorts \cup PortBits(Cur, OutPortsOf[Cur] \ InPortsOf[Cur])
        /\ UNCHANGED sinkPorts
    BY <1>3 DEF ProcessModule
  <2>2. \A k \in PortBits(Cur, OutPortsOf[Cur] \ InPortsOf[Cur]) : k[1] = Cur
    BY PortBitsKeys
  <2>. QED  BY <1>1, <2>1, <2>2 DEF KeyedStep
<1>. QED  BY <1>2, <1>3

(***************************************************************************)
(* The inductive invariant of hierarchy monotonicity: the order facts of   *)
(* QInv, the module loop runs only once module_queue is done (the stack is *)
(* empty), pidx stays within modules_sorted, and monotonicity itself.      *)
(***************************************************************************)
PInv ==
    /\ QInv
    /\ ph \in {"queue", "process", "end"}
    /\ ph # "queue" => stack = << >>
    /\ ph = "queue" => pidx = 1
    /\ pidx \in 1 .. Len(sorted) + 1
    /\ DOMAIN seen = Modules
    /\ HierarchyMonotone

LEMMA InitPInv == HierInit => PInv
<1> SUFFICES ASSUME HierInit PROVE PInv
  OBVIOUS
<1>1. QInv
  BY InitQInv
<1>2. sorted = << >> /\ ph = "queue" /\ pidx = 1 /\ DOMAIN seen = Modules
  BY DEF HierInit
<1>. QED  BY <1>1, <1>2 DEF PInv, HierarchyMonotone

\* The entries about the cell types of the j-th module survive a step keyed
\* by a type c that is not among them.
LEMMA CellsKept ==
    ASSUME NEW c, KeyedStep(c), UNCHANGED <<cells, sorted>>, NEW j,
           c \notin Range(cells[sorted[j]])
    PROVE  TablesAbout(Range(cells[sorted[j]]))' = TablesAbout(Range(cells[sorted[j]]))
<1> DEFINE T == Range(cells[sorted[j]])
<1>1. TablesAbout(T)' = TablesAbout(T)
  BY TablesKeep
<1>2. T' = T
  OBVIOUS
<1>. QED  BY <1>1, <1>2 DEF TablesAbout

\* A step of the module loop at Cur keeps what earlier modules read.
LEMMA EarlierKept ==
    ASSUME PInv, ph = "process", pidx <= Len(sorted), KeyedStep(Cur),
           UNCHANGED <<cells, sorted>>,
           NEW j \in 1 .. pidx - 1
    PROVE  TablesAbout(Range(cells[sorted[j]]))' = TablesAbout(Range(cells[sorted[j]]))
<1>1. pidx \in 1 .. Len(sorted) /\ j \in 1 .. Len(sorted) /\ j <= pidx
  BY DEF PInv
<1>2. Cur \notin Range(cells[sorted[j]])
  BY <1>1, NotChildLater DEF PInv, Cur
<1>3. TablesAbout(Range(cells[sorted[j]]))' = TablesAbout(Range(cells[sorted[j]]))
  <2> DEFINE T == Range(cells[sorted[j]])
  <2>1. TablesAbout(T)' = TablesAbout(T)
    BY <1>2, TablesKeep
  <2>2. T' = T
    OBVIOUS
  <2>. QED  BY <2>1, <2>2 DEF TablesAbout
<1>. QED  BY <1>3

LEMMA PInvInductive == PInv /\ [HierNext]_hierVars => PInv'
<1> SUFFICES ASSUME PInv, [HierNext]_hierVars PROVE PInv'
  OBVIOUS
<1>0. QInv' /\ sorted \in Seq(Modules) /\ sorted' \in Seq(Modules)
  BY QInvInductive DEF PInv, QInv, StackInv
\* module_queue runs before the loop, with pidx at 1; it touches no table.
<1>1. CASE \/ \E m \in Modules : QueueRoot(m)
           \/ QueueSkip \/ QueueEnter \/ QueueCell \/ QueueDone
  <2>1. ph = "queue" /\ UNCHANGED <<ph, pidx, seen>>
    BY <1>1 DEF PInv, QueueRoot, QueueSkip, QueueEnter, QueueCell, QueueDone
  <2>2. pidx' = 1 /\ Len(sorted') \in Nat
    BY <1>0, <2>1 DEF PInv
  <2>. QED  BY <1>0, <2>1, <2>2 DEF PInv, HierarchyMonotone
<1>2. CASE StartProcess
  <2>1. stack = << >> /\ pidx = 1 /\ ph' = "process" /\ UNCHANGED <<stack, sorted, pidx, seen>>
    BY <1>2 DEF PInv, StartProcess
  <2>. QED  BY <1>0, <2>1 DEF PInv, HierarchyMonotone
<1>3. CASE BlackboxDone
  <2>1. /\ ph = "process" /\ pidx <= Len(sorted) /\ Cur \in Blackbox
        /\ pidx' = pidx + 1
        /\ UNCHANGED <<cells, stack, sorted, ph, seen>> /\ UNCHANGED tables
    BY <1>3 DEF BlackboxDone
  <2>2. HierarchyMonotone'
    <3> SUFFICES ASSUME NEW j \in 1 .. pidx, sorted[j] \notin Blackbox
                 PROVE  seen[sorted[j]] = TablesAbout(Range(cells[sorted[j]]))'
      BY <2>1 DEF HierarchyMonotone, PInv
    <3>1. j # pidx
      BY <2>1 DEF Cur
    <3>2. TablesAbout(Range(cells[sorted[j]]))' = TablesAbout(Range(cells[sorted[j]]))
      BY <2>1 DEF TablesAbout, tables
    <3>. QED  BY <2>1, <3>1, <3>2 DEF PInv, HierarchyMonotone
  <2>. QED  BY <1>0, <2>1, <2>2 DEF PInv
<1>4. CASE BlackboxPort
  <2>1. /\ ph = "process" /\ pidx <= Len(sorted)
        /\ UNCHANGED <<cells, stack, sorted, ph, pidx, seen>>
    BY <1>4 DEF BlackboxPort
  <2>2. KeyedStep(Cur)
    BY <1>4, PortKeyed
  <2>3. HierarchyMonotone'
    <3> SUFFICES ASSUME NEW j \in 1 .. pidx - 1, sorted[j] \notin Blackbox
                 PROVE  seen[sorted[j]] = TablesAbout(Range(cells[sorted[j]]))'
      BY <2>1 DEF HierarchyMonotone
    <3>1. TablesAbout(Range(cells[sorted[j]]))' = TablesAbout(Range(cells[sorted[j]]))
      BY <2>1, <2>2, EarlierKept
    <3>. QED  BY <2>1, <3>1 DEF PInv, HierarchyMonotone
  <2>. QED  BY <1>0, <2>1, <2>3 DEF PInv
<1>5. CASE ProcessModule
  <2>1. /\ ph = "process" /\ pidx <= Len(sorted) /\ Cur \notin Blackbox
        /\ seen' = [seen EXCEPT ![Cur] = TablesAbout(Range(cells[Cur]))]
        /\ pidx' = pidx + 1
        /\ UNCHANGED <<cells, stack, sorted, ph>>
    BY <1>5 DEF ProcessModule, Cur
  <2>2. KeyedStep(Cur)
    BY <1>5, ModuleKeyed
  <2>3. pidx \in 1 .. Len(sorted) /\ Cur \in Modules
    BY <1>0, <2>1, ElementOfSeq DEF PInv, Cur
  <2>4. HierarchyMonotone'
    <3> SUFFICES ASSUME NEW j \in 1 .. pidx, sorted[j] \notin Blackbox
                 PROVE  seen'[sorted[j]] = TablesAbout(Range(cells[sorted[j]]))'
      BY <2>1, <2>3 DEF HierarchyMonotone
    <3>1. CASE j = pidx
      <4>1. j \in 1 .. Len(sorted) /\ sorted[j] = Cur
        BY <2>3, <3>1 DEF Cur
      <4>2. sorted[j] \notin Range(cells[sorted[j]])
        BY <4>1, NotChildLater DEF PInv
      <4>3. TablesAbout(Range(cells[sorted[j]]))' = TablesAbout(Range(cells[sorted[j]]))
        BY <2>1, <2>2, <4>1, <4>2, CellsKept
      <4>4. seen'[sorted[j]] = TablesAbout(Range(cells[sorted[j]]))
        BY <2>1, <2>3, <4>1 DEF PInv
      <4>. QED  BY <4>3, <4>4
    <3>2. CASE j # pidx
      <4>1. j \in 1 .. pidx - 1 /\ j \in 1 .. Len(sorted)
        BY <2>3, <3>2
      <4>2. sorted[j] # Cur
        BY <2>3, <3>2, <4>1 DEF PInv, QInv, IsInjective, StackInv, Cur
      <4>3. sorted[j] \in Modules
        BY <1>0, <4>1, ElementOfSeq
      <4>4. seen'[sorted[j]] = seen[sorted[j]]
        BY <2>1, <4>2, <4>3 DEF PInv
      <4>5. TablesAbout(Range(cells[sorted[j]]))' = TablesAbout(Range(cells[sorted[j]]))
        BY <2>1, <2>2, <4>1, EarlierKept DEF Cur
      <4>. QED  BY <2>1, <4>1, <4>4, <4>5 DEF PInv, HierarchyMonotone
    <3>. QED  BY <3>1, <3>2
  <2>5. DOMAIN seen' = Modules
    BY <2>1 DEF PInv
  <2>. QED  BY <1>0, <2>1, <2>4, <2>5 DEF PInv
<1>6. CASE EndProcess
  <2>1. /\ ph = "process" /\ ph' = "end"
        /\ UNCHANGED <<cells, stack, sorted, pidx, seen>> /\ UNCHANGED tables
    BY <1>6 DEF EndProcess
  <2>2. \A T : TablesAbout(T)' = TablesAbout(T)
    BY <2>1 DEF TablesAbout, tables
  <2>. QED  BY <1>0, <2>1, <2>2 DEF PInv, HierarchyMonotone
<1>7. CASE UNCHANGED hierVars
  <2>1. UNCHANGED <<cells, stack, sorted, ph, pidx, seen>> /\ UNCHANGED tables
    BY <1>7 DEF hierVars, tables
  <2>2. \A T : TablesAbout(T)' = TablesAbout(T)
    BY <2>1 DEF TablesAbout, tables
  <2>. QED  BY <1>0, <2>1, <2>2 DEF PInv, HierarchyMonotone
<1>. QED  BY <1>1, <1>2, <1>3, <1>4, <1>5, <1>6, <1>7 DEF HierNext

(***************************************************************************)
(* Spec 5 and 8: the tag entries an ordinary module read about its cell    *)
(* types when the loop of lines 138-414 processed it are still all the    *)
(* entries about those types, for every design and every outcome of the   *)
(* per-module processing.                                                  *)
(***************************************************************************)
THEOREM HierarchyMonotoneHolds == HierSpec => []HierarchyMonotone
<1>1. PInv => HierarchyMonotone
  BY DEF PInv
<1>. QED  BY <1>1, InitPInv, PInvInductive, PTL DEF HierSpec

-----------------------------------------------------------------------------
(***************************************************************************)
(* Type correctness.  Beyond PInv, the type needs the roots left to be    *)
(* selected modules, the port index to stay positive, and every key that *)
(* lines 144-153 and the per-module processing publish to be a bit of a  *)
(* port of a module of the design.                                         *)
(***************************************************************************)
RestType ==
    /\ rootsLeft \subseteq sel
    /\ portIdx \in Nat \ {0}
    /\ bufPorts \subseteq AllPortBits /\ sinkPorts \subseteq AllPortBits

\* The bits of ports of a module of the design are among all port bits.
LEMMA PortBitsAll ==
    ASSUME NEW m \in Modules, NEW ports \in SUBSET PortNames
    PROVE  PortBits(m, ports) \subseteq AllPortBits
BY DEF PortBits, AllPortBits

LEMMA RestTypeInductive == PInv /\ RestType /\ [HierNext]_hierVars => RestType'
<1> SUFFICES ASSUME PInv, RestType, [HierNext]_hierVars PROVE RestType'
  OBVIOUS
<1>1. CASE \E m \in Modules : QueueRoot(m)
  BY <1>1 DEF QueueRoot, RestType, tables
<1>2. CASE QueueSkip \/ QueueEnter \/ QueueCell \/ QueueDone \/ StartProcess
       \/ BlackboxDone \/ EndProcess \/ UNCHANGED hierVars
  <2>1. UNCHANGED <<rootsLeft, sel, bufPorts, sinkPorts>>
    BY <1>2 DEF QueueSkip, QueueEnter, QueueCell, QueueDone, StartProcess,
                BlackboxDone, EndProcess, hierVars, tables
  <2>2. portIdx' \in Nat \ {0}
    BY <1>2 DEF RestType, QueueSkip, QueueEnter, QueueCell, QueueDone, StartProcess,
                BlackboxDone, EndProcess, hierVars
  <2>. QED  BY <2>1, <2>2 DEF RestType
<1>3. CASE BlackboxPort
  <2>1. pidx \in 1 .. Len(sorted) /\ sorted \in Seq(Modules)
    BY <1>3 DEF BlackboxPort, PInv, QInv, StackInv
  <2>2. Cur \in Modules
    BY <2>1, ElementOfSeq DEF Cur
  <2>3. portIdx \in 1 .. Len(PortsOf[Cur])
    <3>1. portIdx <= Len(PortsOf[Cur])
      BY <1>3, Zenon DEF BlackboxPort
    <3>2. portIdx \in Nat \ {0}
      BY DEF RestType
    <3>. QED  BY <3>1, <3>2
  <2>4. PortsOf[Cur][portIdx] \in PortNames
    BY <2>2, <2>3, HierAssumption, ElementOfSeq
  <2>5. PortBits(Cur, {PortsOf[Cur][portIdx]}) \subseteq AllPortBits
    BY <2>2, <2>4, PortBitsAll
  <2>6. /\ bufPorts' \subseteq bufPorts \cup PortBits(Cur, {PortsOf[Cur][portIdx]})
        /\ sinkPorts' \subseteq sinkPorts \cup PortBits(Cur, {PortsOf[Cur][portIdx]})
        /\ portIdx' = portIdx + 1 /\ UNCHANGED <<rootsLeft, sel>>
    BY <1>3 DEF BlackboxPort
  <2>7. bufPorts' \subseteq AllPortBits /\ sinkPorts' \subseteq AllPortBits
    BY <2>5, <2>6 DEF RestType
  <2>8. portIdx' \in Nat \ {0}
    BY <2>3, <2>6
  <2>. QED  BY <2>6, <2>7, <2>8 DEF RestType
<1>4. CASE ProcessModule
  <2>1. pidx \in 1 .. Len(sorted) /\ sorted \in Seq(Modules)
    BY <1>4 DEF ProcessModule, PInv, QInv, StackInv
  <2>2. Cur \in Modules
    BY <2>1, ElementOfSeq DEF Cur
  <2>3. /\ PortBits(Cur, OutPortsOf[Cur] \ InPortsOf[Cur]) \subseteq AllPortBits
        /\ PortBits(Cur, InPortsOf[Cur] \ OutPortsOf[Cur]) \subseteq AllPortBits
    BY <2>2, HierAssumption, PortBitsAll
  <2>4. /\ bufPorts' \subseteq bufPorts \cup PortBits(Cur, OutPortsOf[Cur] \ InPortsOf[Cur])
        /\ sinkPorts' \subseteq sinkPorts \cup PortBits(Cur, InPortsOf[Cur] \ OutPortsOf[Cur])
        /\ UNCHANGED <<rootsLeft, sel, portIdx>>
    BY <1>4 DEF ProcessModule
  <2>. QED  BY <2>3, <2>4 DEF RestType
<1>. QED  BY <1>1, <1>2, <1>3, <1>4 DEF HierNext

(***************************************************************************)
(* Every state of the pass is well typed (HierTypeOK): the recursion      *)
(* stack of module_queue, modules_sorted, the loop indices of lines 138   *)
(* and 141, and the port bits put in buf_ports and sink_ports.            *)
(***************************************************************************)
THEOREM HierTypeCorrect == HierSpec => []HierTypeOK
<1>1. HierInit => RestType
  BY DEF HierInit, RestType
<1>2. PInv /\ RestType => HierTypeOK
  <2> SUFFICES ASSUME PInv, RestType PROVE HierTypeOK
    OBVIOUS
  <2>1. stack \in Seq([mod : Modules, next : Nat]) /\ sorted \in Seq(Modules)
    BY DEF PInv, QInv, StackInv, Frame
  <2>2. queued \subseteq Modules
    BY <2>1 DEF PInv, QInv, StackInv, Range
  <2>. QED  BY <2>1, <2>2 DEF PInv, RestType, HierTypeOK
<1>3. PInv /\ RestType /\ [HierNext]_hierVars => PInv' /\ RestType'
  BY PInvInductive, RestTypeInductive
<1>. QED  BY <1>1, <1>2, <1>3, InitPInv, PTL DEF HierSpec

-----------------------------------------------------------------------------
(***************************************************************************)
(* Closure of modules_sorted.  QueueClosed is not inductive: while         *)
(* module_queue runs, a module appended by line 76 is instantiated by a    *)
(* module whose call is still active, not yet in modules_sorted.  The     *)
(* invariant therefore lets a frame of the recursion stack witness a      *)
(* sorted module too, records that the bottom frame is a selected module  *)
(* (line 136), and that a selected module already passed to module_queue  *)
(* is processed or is that bottom frame.  A frame is popped only when its *)
(* module is in modules_sorted, and then after every module it            *)
(* instantiates (BottomUp, no module twice), so its witnesses pass to it. *)
(***************************************************************************)
Witnessed(j) ==
    \/ sorted[j] \in sel
    \/ \E i \in j + 1 .. Len(sorted) : sorted[j] \in ChildModules(sorted[i])
    \/ \E p \in 1 .. Len(stack) : sorted[j] \in ChildModules(stack[p].mod)

CInv ==
    /\ rootsLeft \subseteq sel
    /\ ph # "queue" => rootsLeft = {}
    /\ stack # << >> => stack[1].mod \in sel
    /\ \A m \in sel \ rootsLeft : m \in queued \/ (stack # << >> /\ m = stack[1].mod)
    /\ \A j \in 1 .. Len(sorted) : Witnessed(j)

LEMMA InitCInv == HierInit => CInv
<1> SUFFICES ASSUME HierInit PROVE CInv
  OBVIOUS
<1>1. rootsLeft = sel /\ stack = << >> /\ sorted = << >> /\ ph = "queue"
  BY DEF HierInit
<1>. QED  BY <1>1 DEF CInv

\* A step of the recursion that keeps the order and the modules of the
\* frames below, and may push frames (QueueEnter, QueueCell).
LEMMA FramesKept ==
    ASSUME CInv, stack \in Seq(Frame), stack' \in Seq(Frame), stack # << >>,
           Len(stack) <= Len(stack'),
           \A p \in 1 .. Len(stack) : stack'[p].mod = stack[p].mod,
           UNCHANGED <<cells, sel, rootsLeft, sorted, queued, ph>>
    PROVE  CInv'
<1>1. stack' # << >> /\ stack'[1].mod = stack[1].mod
  BY EmptySeq
<1>2. ASSUME NEW j \in 1 .. Len(sorted), Witnessed(j) PROVE Witnessed(j)'
  <2>1. CASE \E p \in 1 .. Len(stack) : sorted[j] \in ChildModules(stack[p].mod)
    <3>1. PICK p \in 1 .. Len(stack) : sorted[j] \in ChildModules(stack[p].mod)
      BY <2>1
    <3>2. p \in 1 .. Len(stack') /\ stack'[p].mod = stack[p].mod
      OBVIOUS
    <3>. QED  BY <3>1, <3>2 DEF Witnessed, ChildModules
  <2>. QED  BY <1>2, <2>1 DEF Witnessed, ChildModules
<1>. QED  BY <1>1, <1>2 DEF CInv

LEMMA EnterCInv ==
    ASSUME CInv, StackInv, QueueEnter PROVE CInv'
<1>1. stack # << >> /\ stack' = [stack EXCEPT ![Len(stack)].next = 1]
      /\ UNCHANGED <<cells, sel, rootsLeft, sorted, queued, ph>>
  BY DEF QueueEnter
<1>2. Len(stack) \in 1 .. Len(stack) /\ stack \in Seq(Frame)
  BY <1>1, EmptySeq DEF StackInv
<1>3. /\ stack' \in Seq(Frame) /\ Len(stack') = Len(stack)
      /\ \A p \in 1 .. Len(stack) : stack'[p].mod = stack[p].mod
  BY <1>1, <1>2, SetNext
<1>. QED  BY <1>1, <1>2, <1>3, FramesKept

LEMMA CellCInv ==
    ASSUME CInv, StackInv, QueueCell PROVE CInv'
<1> DEFINE L == Len(stack)
           t == cells[stack[L].mod][stack[L].next]
<1> USE DEF L, t
<1>1. /\ stack # << >>
      /\ stack' = IF t \in Modules THEN Append(Advance, [mod |-> t, next |-> 0]) ELSE Advance
      /\ UNCHANGED <<cells, sel, rootsLeft, sorted, queued, ph>>
  BY DEF QueueCell, Top
<1>2. L \in 1 .. L /\ stack \in Seq(Frame) /\ stack[L] \in Frame
  BY <1>1, EmptySeq, ElementOfSeq DEF StackInv
<1>3. /\ Advance \in Seq(Frame) /\ Len(Advance) = L
      /\ \A p \in 1 .. L : Advance[p].mod = stack[p].mod
  <2>1. stack[L].next + 1 \in Nat
    BY <1>2 DEF Frame
  <2>. QED  BY <1>2, <2>1, SetNext DEF Advance
<1>4. CASE t \in Modules
  <2>1. [mod |-> t, next |-> 0] \in Frame
    BY <1>4 DEF Frame
  <2>2. /\ stack' \in Seq(Frame) /\ Len(stack') = L + 1
        /\ \A p \in 1 .. L : stack'[p] = Advance[p]
    BY <1>1, <1>3, <1>4, <2>1, AppendProperties
  <2>. QED  BY <1>1, <1>2, <1>3, <2>2, FramesKept
<1>5. CASE t \notin Modules
  BY <1>1, <1>2, <1>3, <1>5, FramesKept
<1>. QED  BY <1>4, <1>5

\* The stack after a return.
LEMMA PopFacts ==
    ASSUME StackInv, stack # << >>
    PROVE  /\ Len(stack) \in Nat \ {0} /\ stack \in Seq(Frame)
           /\ Pop \in Seq(Frame) /\ Len(Pop) = Len(stack) - 1
           /\ \A p \in 1 .. Len(stack) - 1 : Pop[p] = stack[p]
<1>1. Len(stack) \in Nat \ {0} /\ stack \in Seq(Frame)
  BY EmptySeq DEF StackInv
<1>2. Len(stack) - 1 \in Nat /\ Len(stack) = (Len(stack) - 1) + 1
  BY <1>1
<1>. QED  BY <1>1, <1>2, PopProperties DEF Pop

LEMMA RootCInv ==
    ASSUME CInv, NEW m \in Modules, QueueRoot(m) PROVE CInv'
<1>1. /\ ph = "queue" /\ stack = << >> /\ m \in rootsLeft
      /\ rootsLeft' = rootsLeft \ {m} /\ stack' = << [mod |-> m, next |-> 0] >>
      /\ UNCHANGED <<cells, sel, sorted, queued, ph>>
  BY DEF QueueRoot
<1>2. m \in sel /\ stack'[1].mod = m /\ stack' # << >>
  BY <1>1 DEF CInv
<1>3. \A j \in 1 .. Len(sorted) : Witnessed(j) => Witnessed(j)'
  BY <1>1 DEF Witnessed, ChildModules
<1>. QED  BY <1>1, <1>2, <1>3 DEF CInv

\* A module a sorted module instantiates is sorted before it.
LEMMA ChildBefore ==
    ASSUME QInv, NEW j \in 1 .. Len(sorted), NEW i \in 1 .. Len(sorted),
           sorted[j] \in ChildModules(sorted[i])
    PROVE  i \in j + 1 .. Len(sorted)
<1>1. ~(i <= j)
  BY NotChildLater DEF ChildModules
<1>. QED  BY <1>1

\* The frame popped by a return witnesses, through its sorted module, what it
\* witnessed.
LEMMA PoppedWitness ==
    ASSUME QInv, NEW j \in 1 .. Len(sorted), stack # << >>,
           Top.mod \in Range(sorted), sorted[j] \in ChildModules(Top.mod)
    PROVE  \E i \in j + 1 .. Len(sorted) : sorted[j] \in ChildModules(sorted[i])
<1>0. DOMAIN sorted = 1 .. Len(sorted)
  BY DEF QInv, StackInv
<1>1. PICK i \in 1 .. Len(sorted) : sorted[i] = Top.mod
  BY <1>0 DEF Range
<1>2. sorted[j] \in ChildModules(sorted[i])
  BY <1>1
<1>3. i \in j + 1 .. Len(sorted)
  BY <1>2, ChildBefore
<1>. QED  BY <1>2, <1>3

LEMMA SkipCInv ==
    ASSUME CInv, QInv, QueueSkip PROVE CInv'
<1>1. /\ stack # << >> /\ Top.mod \in queued /\ stack' = Pop
      /\ UNCHANGED <<cells, sel, rootsLeft, sorted, queued, ph>>
  BY DEF QueueSkip
<1>2. /\ Len(stack) \in Nat \ {0} /\ stack \in Seq(Frame)
      /\ stack' \in Seq(Frame) /\ Len(stack') = Len(stack) - 1
      /\ \A p \in 1 .. Len(stack) - 1 : stack'[p] = stack[p]
  BY <1>1, PopFacts DEF QInv
<1>3. stack' # << >> => stack'[1].mod = stack[1].mod
  BY <1>2, EmptySeq
<1>4. ASSUME stack' = << >> PROVE Top = stack[1]
  <2>1. Len(stack') = 0
    BY <1>2, <1>4, EmptySeq
  <2>2. Len(stack) = 1
    BY <1>2, <2>1
  <2>. QED  BY <2>2 DEF Top
<1>5. ASSUME NEW j \in 1 .. Len(sorted), Witnessed(j) PROVE Witnessed(j)'
  <2>1. CASE \E p \in 1 .. Len(stack) : sorted[j] \in ChildModules(stack[p].mod)
    <3>1. PICK p \in 1 .. Len(stack) : sorted[j] \in ChildModules(stack[p].mod)
      BY <2>1
    <3>2. CASE p < Len(stack)
      BY <1>1, <1>2, <3>1, <3>2 DEF Witnessed, ChildModules
    <3>3. CASE p = Len(stack)
      <4>1. \E i \in j + 1 .. Len(sorted) : sorted[j] \in ChildModules(sorted[i])
        BY <1>1, <3>1, <3>3, PoppedWitness DEF Top, QInv, StackInv
      <4>. QED  BY <1>1, <4>1 DEF Witnessed, ChildModules
    <3>. QED  BY <1>2, <3>2, <3>3
  <2>. QED  BY <1>1, <1>5, <2>1 DEF Witnessed, ChildModules
<1>6. stack' # << >> => stack'[1].mod \in sel
  BY <1>1, <1>3 DEF CInv
<1>7. \A m \in sel \ rootsLeft : m \in queued \/ (stack' # << >> /\ m = stack'[1].mod)
  BY <1>1, <1>3, <1>4 DEF CInv
<1>. QED  BY <1>1, <1>5, <1>6, <1>7 DEF CInv

\* Line 76 appends the module of the top frame: the frame below it, or the
\* selection, witnesses it, and it takes over what its frame witnessed.
LEMMA DoneCInv ==
    ASSUME CInv, QInv, QueueDone PROVE CInv'
<1> DEFINE L == Len(stack)
           M == Top.mod
           N == Len(sorted)
<1> USE DEF L, M, N
<1>1. /\ stack # << >> /\ stack' = Pop
      /\ sorted' = Append(sorted, M) /\ queued' = queued \cup {M}
      /\ UNCHANGED <<cells, sel, rootsLeft, ph>>
  BY DEF QueueDone
<1>2. /\ L \in Nat \ {0} /\ stack \in Seq(Frame)
      /\ stack' \in Seq(Frame) /\ Len(stack') = L - 1
      /\ \A p \in 1 .. L - 1 : stack'[p] = stack[p]
  BY <1>1, PopFacts DEF QInv
<1>3. M \in Modules /\ sorted \in Seq(Modules) /\ N \in Nat
  <2>1. Top \in Frame
    BY <1>2, ElementOfSeq DEF Top
  <2>. QED  BY <2>1 DEF Frame, QInv, StackInv
<1>4. /\ Len(sorted') = N + 1
      /\ \A i \in 1 .. N : sorted'[i] = sorted[i]
      /\ sorted'[N + 1] = M
  BY <1>1, <1>3, AppendProperties
<1>5. stack' # << >> => stack'[1].mod = stack[1].mod
  BY <1>2, EmptySeq
<1>6. ASSUME stack' = << >> PROVE M = stack[1].mod
  <2>1. Len(stack') = 0
    BY <1>2, <1>6, EmptySeq
  <2>2. L = 1
    BY <1>2, <2>1
  <2>. QED  BY <2>2 DEF Top
<1>7. ASSUME NEW j \in 1 .. N, Witnessed(j) PROVE Witnessed(j)'
  <2>1. sorted'[j] = sorted[j] /\ j + 1 .. N \subseteq j + 1 .. N + 1
    BY <1>3, <1>4
  <2>0. CASE sorted[j] \in sel
    BY <1>1, <1>4, <2>1, <2>0 DEF Witnessed
  <2>2. CASE \E p \in 1 .. L : sorted[j] \in ChildModules(stack[p].mod)
    <3>1. PICK p \in 1 .. L : sorted[j] \in ChildModules(stack[p].mod)
      BY <2>2
    <3>2. CASE p < L
      BY <1>1, <1>2, <2>1, <3>1, <3>2 DEF Witnessed, ChildModules
    <3>3. CASE p = L
      <4>1. N + 1 \in j + 1 .. Len(sorted') /\ sorted[j] \in ChildModules(sorted'[N + 1])
        BY <1>3, <1>4, <3>1, <3>3 DEF Top
      <4>. QED  BY <1>1, <2>1, <4>1 DEF Witnessed, ChildModules
    <3>. QED  BY <1>2, <3>2, <3>3
  <2>3. CASE \E i \in j + 1 .. N : sorted[j] \in ChildModules(sorted[i])
    BY <1>1, <1>4, <2>1, <2>3 DEF Witnessed, ChildModules
  <2>. QED  BY <1>7, <2>0, <2>2, <2>3 DEF Witnessed
<1>8. ASSUME NEW j, j = N + 1 PROVE Witnessed(j)'
  <2>1. CASE L = 1
    <3>1. M \in sel
      BY <1>1, <2>1 DEF Top, CInv
    <3>. QED  BY <1>1, <1>4, <1>8, <3>1 DEF Witnessed
  <2>2. CASE L # 1
    <3> DEFINE q == L - 1
               f == stack[q]
    <3>1. /\ q \in 1 .. L - 1 /\ q \in 1 .. L /\ q \in 1 .. Len(stack')
          /\ stack'[q] = f /\ q + 1 = L
      BY <1>2, <2>2
    <3>2. /\ f.next >= 2 /\ f.next <= Len(cells[f.mod]) + 1
          /\ M = cells[f.mod][f.next - 1]
      BY <1>2, <3>1 DEF QInv, StackInv, Top
    <3>3. f \in Frame /\ cells[f.mod] \in Seq(Types)
      <4>1. f \in Frame
        BY <1>2, <3>1, ElementOfSeq
      <4>2. f.mod \in Modules
        BY <4>1 DEF Frame
      <4>. QED  BY <4>1, <4>2 DEF QInv, StackInv
    <3>4. f.next - 1 \in DOMAIN cells[f.mod]
      BY <3>2, <3>3 DEF Frame
    <3>5. M \in ChildModules(stack'[q].mod)
      BY <1>3, <3>1, <3>2, <3>4 DEF ChildModules, Range
    <3>6. j + 1 .. Len(sorted') = {} /\ sorted'[j] = M
      BY <1>3, <1>4, <1>8
    <3>. QED  BY <1>1, <3>1, <3>5, <3>6 DEF Witnessed, ChildModules
  <2>. QED  BY <2>1, <2>2
<1>9. \A j \in 1 .. Len(sorted') : Witnessed(j)'
  <2> SUFFICES ASSUME NEW j \in 1 .. N + 1 PROVE Witnessed(j)'
    BY <1>4
  <2>1. CASE j = N + 1
    BY <2>1, <1>8
  <2>2. CASE j # N + 1
    <3>1. j \in 1 .. N
      BY <1>3, <2>2
    <3>. QED  BY <3>1, <1>7 DEF CInv
  <2>. QED  BY <2>1, <2>2
<1>10. stack' # << >> => stack'[1].mod \in sel
  BY <1>1, <1>5 DEF CInv
<1>11. \A m \in sel \ rootsLeft : m \in queued' \/ (stack' # << >> /\ m = stack'[1].mod)
  BY <1>1, <1>5, <1>6 DEF CInv
<1>. QED  BY <1>1, <1>9, <1>10, <1>11 DEF CInv

LEMMA CInvInductive == PInv /\ CInv /\ [HierNext]_hierVars => CInv'
<1> SUFFICES ASSUME PInv, CInv, [HierNext]_hierVars PROVE CInv'
  OBVIOUS
<1>0. QInv /\ StackInv
  BY DEF PInv, QInv
<1>1. CASE \E m \in Modules : QueueRoot(m)
  BY <1>1, RootCInv
<1>2. CASE QueueSkip
  BY <1>0, <1>2, SkipCInv
<1>3. CASE QueueEnter
  BY <1>0, <1>3, EnterCInv
<1>4. CASE QueueCell
  BY <1>0, <1>4, CellCInv
<1>5. CASE QueueDone
  BY <1>0, <1>5, DoneCInv
\* Line 138 runs once every selected module has been passed on.
<1>6. CASE StartProcess
  <2>1. rootsLeft = {} /\ UNCHANGED <<cells, sel, rootsLeft, stack, sorted, queued>>
    BY <1>6 DEF StartProcess
  <2>. QED  BY <2>1 DEF CInv, Witnessed, ChildModules
\* The loop over modules_sorted reads the order only.
<1>7. CASE BlackboxPort \/ BlackboxDone \/ ProcessModule \/ EndProcess \/ UNCHANGED hierVars
  <2>1. UNCHANGED <<cells, sel, rootsLeft, stack, sorted, queued>>
    BY <1>7 DEF BlackboxPort, BlackboxDone, ProcessModule, EndProcess, hierVars
  <2>2. ph' # "queue" => rootsLeft' = {}
    BY <1>7, <2>1 DEF BlackboxPort, BlackboxDone, ProcessModule, EndProcess, hierVars, CInv
  <2>. QED  BY <2>1, <2>2 DEF CInv, Witnessed, ChildModules
<1>. QED  BY <1>1, <1>2, <1>3, <1>4, <1>5, <1>6, <1>7 DEF HierNext

(***************************************************************************)
(* Spec 4.1: once module_queue has run for every selected module          *)
(* (clkbufmap.cc lines 132-136), modules_sorted holds every selected      *)
(* module, and every module in it is selected or a cell type of a module  *)
(* sorted after it; with BottomUp and no module twice, modules_sorted is  *)
(* exactly the modules reachable from the selection, for every design,    *)
(* cyclic or not.                                                          *)
(***************************************************************************)
THEOREM QueueClosedHolds == HierSpec => []QueueClosed
<1>1. PInv /\ CInv => QueueClosed
  <2> SUFFICES ASSUME PInv, CInv, ph # "queue" PROVE QueueClosed
    BY DEF QueueClosed
  <2>1. stack = << >> /\ rootsLeft = {} /\ sorted \in Seq(Modules)
    BY DEF PInv, CInv, QInv, StackInv
  <2>2. sel \subseteq Range(sorted)
    BY <2>1 DEF CInv, PInv, QInv, StackInv
  <2>3. \A j \in 1 .. Len(sorted) :
            sorted[j] \in sel \/ \E i \in j + 1 .. Len(sorted) : sorted[j] \in ChildModules(sorted[i])
    BY <2>1 DEF CInv, Witnessed
  <2>. QED  BY <2>2, <2>3 DEF QueueClosed
<1>2. PInv /\ CInv /\ [HierNext]_hierVars => PInv' /\ CInv'
  BY PInvInductive, CInvInductive
<1>. QED  BY <1>1, <1>2, InitPInv, InitCInv, PTL DEF HierSpec

=============================================================================
