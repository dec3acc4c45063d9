---- MODULE ModuleWalkProofs ----
(***************************************************************************)
(* The walks of the module graph are right for every well-formed graph,    *)
(* with or without cycles, and every list of entries: what they list is a  *)
(* topological order, a cycle they report is one, and a depth they return  *)
(* is that of a longest path.  The graphs that the edits build are such.   *)
(***************************************************************************)
EXTENDS ModuleGraph, SequenceTheorems, WellFoundedInduction, TLAPS

(* Where the walk is: nothing is visited before it starts, and nothing is  *)
(* left to visit when it has its answer.                                   *)
ControlInv ==
  /\ pc = "idle" => stack = <<>> /\ order = <<>> /\ entries = <<>> /\ asked = <<>>
  /\ pc = "ordered" => stack = <<>> /\ entries = <<>>

(* A visited module is in the order once, after what it links to, and is   *)
(* deeper than all of it.                                                  *)
OrderInv ==
  /\ \A i, j \in 1..Len(order) : order[i] = order[j] => i = j
  /\ \A i \in 1..Len(order) : \A n \in Linked(imports, link, order[i]) :
       \E j \in 1..(i - 1) : order[j] = n

(* An active module is not visited and is active once.  The links its loop *)
(* has passed lead to visited modules, which its depth accounts for, but   *)
(* for the one to the module above it, whose visit has not returned.       *)
FrameInv(i) ==
  /\ stack[i].module \notin Visited
  /\ \A j \in 1..Len(stack) : stack[i].module = stack[j].module => i = j
  /\ stack[i].rest \subseteq Slots(imports, link, stack[i].module)
  /\ IsPath(imports, link, stack[i].module, stack[i].depth, stack[i].chain)
  /\ i < Len(stack) => stack[i + 1].module \in Linked(imports, link, stack[i].module)
  /\ \A k \in Slots(imports, link, stack[i].module) \ stack[i].rest :
       LET n == Target(imports, link, stack[i].module, k)
       IN  \/ n \in Visited /\ depth[n] < stack[i].depth
           \/ i < Len(stack) /\ n = stack[i + 1].module

StackInv == \A i \in 1..Len(stack) : FrameInv(i)

(* Nothing that was asked for is forgotten.                                *)
EntriesInv ==
  \A m \in Elements(asked) :
    m \in Visited \/ m \in Elements(entries) \/ (stack # <<>> /\ m = stack[1].module)

(* Nothing else is visited than what can be reached.                       *)
ReachInv ==
  \A S \in SUBSET Module :
    Elements(asked) \subseteq S /\ ClosedUnderLinks(S)
      => Visited \cup Active \cup Elements(entries) \subseteq S

Inv ==
  /\ TypeOK
  /\ ControlInv
  /\ OrderInv
  /\ StackInv
  /\ EntriesInv
  /\ ReachInv
  /\ DepthIsLongest
  /\ CycleIsReal

----------------------------------------------------------------------------
(* Sequences used as a stack.                                              *)
LEMMA BelowTop ==
  ASSUME NEW S, NEW s \in Seq(S), s # <<>>
  PROVE  /\ Len(s) \in Nat \ {0}
         /\ s[Len(s)] \in S
         /\ SubSeq(s, 1, Len(s) - 1) \in Seq(S)
         /\ Len(SubSeq(s, 1, Len(s) - 1)) = Len(s) - 1
         /\ \A i \in 1..(Len(s) - 1) : SubSeq(s, 1, Len(s) - 1)[i] = s[i]
<1>1. Len(s) \in Nat \ {0}
  BY EmptySeq
<1>2. /\ SubSeq(s, 1, Len(s) - 1) \in Seq(S)
      /\ Len(SubSeq(s, 1, Len(s) - 1)) = Len(s) - 1
  <2>1. ASSUME NEW n \in Nat, n < Len(s)
        PROVE  SubSeq(s, 1, n) \in Seq(S) /\ Len(SubSeq(s, 1, n)) = n
    <3>1. n \in Int /\ 1 \in Int /\ \A i \in 1..n : s[i] \in S
      BY <1>1, <2>1
    <3> HIDE <2>1
    <3>2. /\ SubSeq(s, 1, n) \in Seq(S)
          /\ Len(SubSeq(s, 1, n)) = IF 1 <= n THEN n - 1 + 1 ELSE 0
      BY <3>1, SubSeqProperties
    <3> QED BY <2>1, <3>2
  <2>2. Len(s) - 1 \in Nat /\ Len(s) - 1 < Len(s)
    BY <1>1
  <2> QED BY <2>1, <2>2, Zenon
<1>3. \A i \in 1..(Len(s) - 1) : SubSeq(s, 1, Len(s) - 1)[i] = s[i]
  BY <1>1
<1>4. s[Len(s)] \in S
  BY <1>1
<1> QED BY <1>1, <1>2, <1>3, <1>4

LEMMA BelowTypes ==
  ASSUME TypeOK, stack # <<>>
  PROVE  /\ Len(stack) \in Nat \ {0}
         /\ stack[Len(stack)] \in Frame
         /\ Below \in Seq(Frame)
         /\ Len(Below) = Len(stack) - 1
         /\ \A i \in 1..(Len(stack) - 1) : Below[i] = stack[i]
<1>1. stack \in Seq(Frame)
  BY DEF TypeOK
<1> QED BY <1>1, BelowTop, Zenon DEF Below

LEMMA ReplaceTop ==
  ASSUME TypeOK, stack # <<>>, NEW x \in Frame, stack' = Append(Below, x)
  PROVE  /\ stack' \in Seq(Frame)
         /\ Len(stack') = Len(stack)
         /\ stack' # <<>>
         /\ \A i \in 1..(Len(stack) - 1) : stack'[i] = stack[i]
         /\ stack'[Len(stack)] = x
BY BelowTypes

LEMMA PushTop ==
  ASSUME TypeOK, stack # <<>>, NEW x \in Frame, NEW y \in Frame, stack' = Below \o <<x, y>>
  PROVE  /\ stack' \in Seq(Frame)
         /\ Len(stack') = Len(stack) + 1
         /\ stack' # <<>>
         /\ \A i \in 1..(Len(stack) - 1) : stack'[i] = stack[i]
         /\ stack'[Len(stack)] = x
         /\ stack'[Len(stack) + 1] = y
<1> DEFINE n == Len(stack)
           v == <<x, y>>
<1>1. /\ n \in Nat \ {0} /\ Below \in Seq(Frame) /\ Len(Below) = n - 1
      /\ \A i \in 1..(n - 1) : Below[i] = stack[i]
  BY BelowTypes
<1>2. v \in Seq(Frame) /\ Len(v) = 2 /\ v[1] = x /\ v[2] = y
  OBVIOUS
<1>3. stack' = Below \o v
  OBVIOUS
<1> HIDE DEF n, v
<1>4. stack' \in Seq(Frame) /\ Len(stack') = n + 1
  BY <1>1, <1>2, <1>3
<1>5. \A i \in 1..(n + 1) : stack'[i] = IF i <= Len(Below) THEN Below[i] ELSE v[i - Len(Below)]
  BY <1>1, <1>2, <1>3, ConcatProperties
<1>6. stack' # <<>>
  BY <1>1, <1>4
<1>7. \A i \in 1..(n - 1) : stack'[i] = stack[i]
  BY <1>1, <1>5
<1>8. stack'[n] = x
  BY <1>1, <1>2, <1>5
<1>9. stack'[n + 1] = y
  <2> DEFINE e == n + 1
             k == e - Len(Below)
  <2>1. stack'[e] = IF e <= Len(Below) THEN Below[e] ELSE v[k]
    <3>1. e \in 1..(n + 1)
      BY <1>1
    <3> QED BY <1>5, <3>1, Zenon
  <2>2. ~(e <= Len(Below)) /\ k = 2
    BY <1>1
  <2> HIDE DEF e, k
  <2>3. stack'[e] = v[k]
    BY <2>1, <2>2
  <2> QED BY <1>2, <2>2, <2>3 DEF e
<1> QED BY <1>4, <1>6, <1>7, <1>8, <1>9 DEF n

LEMMA PopTop ==
  ASSUME TypeOK, stack # <<>>, Len(stack) # 1, NEW x \in Frame,
         stack' = [Below EXCEPT ![Len(stack) - 1] = x]
  PROVE  /\ stack' \in Seq(Frame)
         /\ Len(stack') = Len(stack) - 1
         /\ stack' # <<>>
         /\ \A i \in 1..(Len(stack) - 2) : stack'[i] = stack[i]
         /\ stack'[Len(stack) - 1] = x
<1> DEFINE n == Len(stack) - 1
<1>1. /\ n \in Nat \ {0} /\ Below \in Seq(Frame) /\ Len(Below) = n
      /\ \A i \in 1..n : Below[i] = stack[i]
  BY BelowTypes
<1>2. Len(stack) - 2 = n - 1
  BY BelowTypes
<1>3. stack' = [Below EXCEPT ![n] = x]
  OBVIOUS
<1> HIDE DEF n
<1>4. /\ stack' \in Seq(Frame) /\ Len(stack') = n /\ stack'[n] = x
      /\ \A i \in 1..(n - 1) : stack'[i] = Below[i]
  <2>1. n \in 1..Len(Below)
    BY <1>1
  <2> DEFINE t == [Below EXCEPT ![n] = x]
  <2>2. /\ t \in Seq(Frame) /\ Len(t) = Len(Below)
        /\ \A j \in 1..Len(Below) : t[j] = IF j = n THEN x ELSE Below[j]
    BY <1>1, <2>1, ExceptSeq
  <2>3. stack' = t
    BY <1>3
  <2> HIDE DEF t
  <2>4. /\ stack' \in Seq(Frame) /\ Len(stack') = n
        /\ \A j \in 1..n : stack'[j] = IF j = n THEN x ELSE Below[j]
    BY <1>1, <2>2, <2>3
  <2>5. stack'[n] = x
    BY <2>1, <1>1, <2>4
  <2>6. \A i \in 1..(n - 1) : stack'[i] = Below[i]
    BY <1>1, <2>4
  <2> QED BY <2>4, <2>5, <2>6
<1>5. stack' # <<>>
  BY <1>1, <1>4
<1>6. \A i \in 1..(n - 1) : stack'[i] = stack[i]
  BY <1>1, <1>4
<1> QED BY <1>2, <1>4, <1>5, <1>6 DEF n

LEMMA AppendElements ==
  ASSUME NEW S, NEW s \in Seq(S), NEW x \in S
  PROVE  Elements(Append(s, x)) = Elements(s) \cup {x}
  BY DEF Elements

LEMMA TailElements ==
  ASSUME NEW S, NEW s \in Seq(S), s # <<>>
  PROVE  Elements(s) = Elements(Tail(s)) \cup {Head(s)}
  BY SMTT(30) DEF Elements

LEMMA ElementsType ==
  ASSUME NEW S, NEW s \in Seq(S)
  PROVE  Elements(s) \subseteq S
  BY DEF Elements

(* A loop over the links of a module in a well-formed graph.               *)
LEMMA SlotTypes ==
  ASSUME NEW g, WellFormed(g), NEW l, NEW m \in Module
  PROVE  /\ Slots(g, l, m) \in SUBSET Nat
         /\ \A k \in Slots(g, l, m) :
              Target(g, l, m, k) \in Module /\ Target(g, l, m, k) \in Linked(g, l, m)
  BY WalkAssumption DEF WellFormed, Slots, Target, Linked

(* What a module keeps when a path from one of its links is accounted for. *)
LEMMA AccountedPath ==
  ASSUME NEW g, NEW l, NEW f \in Frame, IsPath(g, l, f.module, f.depth, f.chain),
         NEW n \in Linked(g, l, f.module), NEW d \in Nat, NEW c \in Seq(Module),
         IsPath(g, l, n, d, c)
  PROVE  LET a == Accounted(f, d, c)
         IN  /\ a \in Frame
             /\ a.module = f.module
             /\ a.rest = f.rest
             /\ a.depth >= f.depth
             /\ a.depth > d
             /\ IsPath(g, l, a.module, a.depth, a.chain)
<1> DEFINE p == <<f.module>> \o c
<1>1. p \in Seq(Module) /\ Len(p) = d + 2 /\ p[1] = f.module
      /\ \A i \in 1..(d + 1) : p[i + 1] = c[i]
  BY DEF Frame, IsPath
<1>2. IsPath(g, l, f.module, d + 1, p)
  <2>1. ASSUME NEW i \in 1..(d + 1) PROVE p[i + 1] \in Linked(g, l, p[i])
    <3>1. CASE i = 1
      BY <1>1, <3>1 DEF IsPath
    <3>2. CASE i # 1
      <4>1. i - 1 \in 1..d /\ p[(i - 1) + 1] = c[i - 1] /\ p[i + 1] = c[(i - 1) + 1]
        BY <1>1, <3>2
      <4> QED BY <4>1 DEF IsPath
    <3> QED BY <3>1, <3>2
  <2> QED BY <1>1, <2>1 DEF IsPath
<1> DEFINE a == Accounted(f, d, c)
<1>3. Len(c) + 1 > Len(f.chain) <=> d + 1 > f.depth
  BY DEF IsPath, Frame
<1>4. /\ a.module = f.module
      /\ a.rest = f.rest
      /\ a.depth = IF d + 1 > f.depth THEN d + 1 ELSE f.depth
      /\ a.chain = IF d + 1 > f.depth THEN p ELSE f.chain
  BY <1>3 DEF Accounted, Frame
<1>5. a \in Frame
  <2> DEFINE ad == IF d + 1 > f.depth THEN d + 1 ELSE f.depth
             ac == IF Len(c) + 1 > Len(f.chain) THEN p ELSE f.chain
  <2>1. ad \in Nat /\ ac \in Seq(Module)
    BY <1>1 DEF Frame
  <2>2. a = [f EXCEPT !.depth = ad, !.chain = ac]
    BY DEF Accounted
  <2> HIDE DEF a, ad, ac
  <2> QED BY <2>1, <2>2 DEF Frame
<1> HIDE DEF a, p
<1>6. f.depth \in Nat
  BY DEF Frame
<1>7. a.depth >= f.depth /\ a.depth > d
  BY <1>4, <1>6
<1>8. IsPath(g, l, a.module, a.depth, a.chain)
  BY <1>2, <1>4
<1> QED BY <1>4, <1>5, <1>7, <1>8 DEF a

----------------------------------------------------------------------------
(* The module on top of the stack and its loop.                            *)
LEMMA TopTypes ==
  ASSUME TypeOK, stack # <<>>
  PROVE  /\ Len(stack) \in Nat \ {0}
         /\ Len(stack) \in 1..Len(stack)
         /\ Top = stack[Len(stack)]
         /\ Top \in Frame
         /\ Top.module \in Module
         /\ Top.module \in Active
BY BelowTypes DEF Top, Frame, Active

LEMMA LoopTypes ==
  ASSUME Inv, NEW k, NextSlot(k)
  PROVE  /\ stack # <<>>
         /\ k \in Slots(imports, link, Top.module)
         /\ Target(imports, link, Top.module, k) \in Module
         /\ Target(imports, link, Top.module, k) \in Linked(imports, link, Top.module)
         /\ Taken(k) \in Frame
         /\ Taken(k).module = Top.module
         /\ Taken(k).rest = Top.rest \ {k}
         /\ Taken(k).depth = Top.depth
         /\ Taken(k).chain = Top.chain
         /\ IsPath(imports, link, Top.module, Top.depth, Top.chain)
<1>1. stack # <<>> /\ k \in Top.rest
  BY DEF NextSlot
<1>2. /\ Len(stack) \in 1..Len(stack) /\ Top = stack[Len(stack)]
      /\ Top \in Frame /\ Top.module \in Module
  BY <1>1, TopTypes DEF Inv
<1>3. /\ Top.rest \subseteq Slots(imports, link, Top.module)
      /\ IsPath(imports, link, Top.module, Top.depth, Top.chain)
  BY <1>2 DEF Inv, StackInv, FrameInv
<1>4. WellFormed(imports)
  BY DEF Inv, TypeOK
<1>5. /\ k \in Slots(imports, link, Top.module)
      /\ Target(imports, link, Top.module, k) \in Module
      /\ Target(imports, link, Top.module, k) \in Linked(imports, link, Top.module)
  BY <1>1, <1>2, <1>3, <1>4, SlotTypes
<1>6. /\ Taken(k) \in Frame /\ Taken(k).module = Top.module /\ Taken(k).rest = Top.rest \ {k}
      /\ Taken(k).depth = Top.depth /\ Taken(k).chain = Top.chain
  BY <1>2 DEF Taken, Frame
<1> QED BY <1>1, <1>3, <1>5, <1>6

(* A link to a visited module is passed.                                   *)
LEMMA PassVisitedInv ==
  ASSUME Inv, NEW k, PassVisited(k)
  PROVE  Inv'
<1> DEFINE n == Len(stack)
           t == Target(imports, link, Top.module, k)
           top == Accounted(Taken(k), depth[t], chain[t])
<1> USE DEF Inv
<1>1. /\ NextSlot(k) /\ t \in Visited /\ stack' = Append(Below, top)
      /\ UNCHANGED <<imports, pc, link, entries, order, depth, chain, cycle, asked>>
      /\ pc = "walking"
  BY DEF PassVisited, NextSlot
<1>2. /\ stack # <<>> /\ k \in Slots(imports, link, Top.module) /\ t \in Module
      /\ t \in Linked(imports, link, Top.module)
      /\ Taken(k) \in Frame /\ Taken(k).module = Top.module /\ Taken(k).rest = Top.rest \ {k}
      /\ Taken(k).depth = Top.depth /\ Taken(k).chain = Top.chain
      /\ IsPath(imports, link, Top.module, Top.depth, Top.chain)
  BY <1>1, LoopTypes
<1>3. n \in Nat \ {0} /\ n \in 1..n /\ Top = stack[n] /\ Top \in Frame
  BY <1>2, TopTypes
<1>4. depth[t] \in Nat /\ chain[t] \in Seq(Module) /\ IsPath(imports, link, t, depth[t], chain[t])
  BY <1>1, <1>2 DEF TypeOK, DepthIsLongest
<1>5. /\ top \in Frame /\ top.module = Top.module /\ top.rest = Top.rest \ {k}
      /\ top.depth >= Top.depth /\ top.depth > depth[t]
      /\ IsPath(imports, link, top.module, top.depth, top.chain)
  BY <1>2, <1>4, AccountedPath
<1> HIDE DEF top
<1>6. /\ stack' \in Seq(Frame) /\ Len(stack') = n /\ stack' # <<>>
      /\ \A i \in 1..(n - 1) : stack'[i] = stack[i]
      /\ stack'[n] = top
  BY <1>1, <1>2, <1>5, ReplaceTop
<1>7. \A i \in 1..n : stack'[i].module = stack[i].module
  BY <1>3, <1>5, <1>6
<1>8. Visited' = Visited /\ Active' = Active
  BY <1>1, <1>6, <1>7 DEF Visited, Active
<1>9. TypeOK'
  BY <1>1, <1>6 DEF TypeOK
<1>10. StackInv'
  <2> SUFFICES ASSUME NEW i \in 1..n PROVE FrameInv(i)'
    BY <1>6 DEF StackInv
  <2>1. CASE i < n
    <3>1. stack'[i] = stack[i] /\ stack'[i + 1].module = stack[i + 1].module
      BY <1>3, <1>6, <1>7, <2>1
    <3>2. FrameInv(i)
      BY DEF StackInv
    <3> QED BY <1>1, <1>6, <1>7, <1>8, <3>1, <3>2 DEF FrameInv
  <2>2. CASE i = n
    <3>1. FrameInv(n)
      BY <1>3 DEF StackInv
    <3>2. top.module \notin Visited /\ \A j \in 1..n : top.module = stack[j].module => n = j
      BY <1>3, <1>5, <3>1 DEF FrameInv
    <3>3. top.rest \subseteq Slots(imports, link, top.module)
      BY <1>3, <1>5, <3>1 DEF FrameInv
    <3>4. ASSUME NEW j \in Slots(imports, link, top.module) \ top.rest
          PROVE  LET x == Target(imports, link, top.module, j)
                 IN  x \in Visited /\ depth[x] < top.depth
      <4>1. CASE j = k
        BY <1>1, <1>5, <4>1
      <4>2. CASE j # k
        <5> DEFINE x == Target(imports, link, top.module, j)
        <5>1. x \in Visited /\ depth[x] < Top.depth
          BY <1>3, <1>5, <3>1, <4>2 DEF FrameInv
        <5>2. x \in Module
          BY <5>1, ElementsType DEF TypeOK, Visited
        <5>3. depth[x] \in Nat /\ Top.depth \in Nat /\ top.depth \in Nat
          BY <1>3, <1>5, <5>2 DEF TypeOK, Frame
        <5> QED BY <1>5, <5>1, <5>3
      <4> QED BY <4>1, <4>2
    <3> QED BY <1>1, <1>3, <1>5, <1>6, <1>7, <1>8, <2>2, <3>2, <3>3, <3>4 DEF FrameInv
  <2> QED BY <1>3, <2>1, <2>2
<1>11. EntriesInv'
  BY <1>1, <1>2, <1>3, <1>6, <1>7, <1>8 DEF EntriesInv
<1>12. ReachInv'
  BY <1>1, <1>8 DEF ReachInv, ClosedUnderLinks
<1>13. ControlInv' /\ OrderInv' /\ DepthIsLongest' /\ CycleIsReal'
  BY <1>1, <1>8 DEF ControlInv, OrderInv, DepthIsLongest, CycleIsReal
<1> QED BY <1>9, <1>10, <1>11, <1>12, <1>13

(* A link to a module that is not visited and not active is followed.      *)
LEMMA VisitLinkedInv ==
  ASSUME Inv, NEW k, VisitLinked(k)
  PROVE  Inv'
<1> DEFINE n == Len(stack)
           t == Target(imports, link, Top.module, k)
           top == Taken(k)
           new == Enter(t)
<1> USE DEF Inv
<1>1. /\ NextSlot(k) /\ t \notin Visited /\ t \notin Active /\ stack' = Below \o <<top, new>>
      /\ UNCHANGED <<imports, pc, link, entries, order, depth, chain, cycle, asked>>
      /\ pc = "walking"
  BY DEF VisitLinked, NextSlot
<1>2. /\ stack # <<>> /\ k \in Slots(imports, link, Top.module) /\ t \in Module
      /\ t \in Linked(imports, link, Top.module)
      /\ top \in Frame /\ top.module = Top.module /\ top.rest = Top.rest \ {k}
      /\ top.depth = Top.depth /\ top.chain = Top.chain
      /\ IsPath(imports, link, Top.module, Top.depth, Top.chain)
  BY <1>1, LoopTypes
<1>3. n \in Nat \ {0} /\ n \in 1..n /\ Top = stack[n] /\ Top.module \in Active
  BY <1>2, TopTypes
<1>4. /\ new \in Frame /\ new.module = t /\ new.rest = Slots(imports, link, t)
      /\ IsPath(imports, link, new.module, new.depth, new.chain)
  <2>1. Slots(imports, link, t) \in SUBSET Nat
    BY <1>2, SlotTypes DEF TypeOK
  <2> QED BY <1>2, <2>1 DEF Enter, Frame, IsPath
<1> HIDE DEF top, new
<1>5. /\ stack' \in Seq(Frame) /\ Len(stack') = n + 1 /\ stack' # <<>>
      /\ \A i \in 1..(n - 1) : stack'[i] = stack[i]
      /\ stack'[n] = top /\ stack'[n + 1] = new
  BY <1>1, <1>2, <1>4, PushTop
<1>6. \A i \in 1..n : stack'[i].module = stack[i].module
  BY <1>2, <1>3, <1>5
<1>7. Visited' = Visited /\ Active' = Active \cup {t}
  <2>1. stack'[n + 1].module = t
    BY <1>4, <1>5
  <2>2. 1..(n + 1) = 1..n \cup {n + 1}
    BY <1>3
  <2>3. Active' = {stack'[i].module : i \in 1..n \cup {n + 1}}
    BY <1>5, <2>2 DEF Active
  <2>4. Active = {stack'[i].module : i \in 1..n}
    BY <1>6 DEF Active
  <2> HIDE DEF n
  <2>5. Active' = Active \cup {t}
    BY <2>1, <2>3, <2>4
  <2> QED BY <1>1, <2>5 DEF Visited
<1>8. TypeOK'
  BY <1>1, <1>5 DEF TypeOK
<1>9. StackInv'
  <2> SUFFICES ASSUME NEW i \in 1..(n + 1) PROVE FrameInv(i)'
    BY <1>5 DEF StackInv
  <2>1. stack'[n + 1].module = t /\ \A j \in 1..n : stack[j].module # t
    BY <1>1, <1>4, <1>5 DEF Active
  <2>2. CASE i < n
    <3>1. stack'[i] = stack[i] /\ stack'[i + 1].module = stack[i + 1].module /\ i \in 1..n
      BY <1>3, <1>5, <1>6, <2>2
    <3>2. FrameInv(i)
      BY <3>1 DEF StackInv
    <3>3. \A j \in 1..(n + 1) : stack'[i].module = stack'[j].module => i = j
      <4> SUFFICES ASSUME NEW j \in 1..(n + 1), stack'[i].module = stack'[j].module PROVE i = j
        OBVIOUS
      <4>1. j \in 1..n
        BY <1>3, <2>1, <3>1
      <4> QED BY <1>6, <3>1, <3>2, <4>1 DEF FrameInv
    <3> QED BY <1>1, <1>3, <1>5, <1>7, <2>2, <3>1, <3>2, <3>3, SMTT(30) DEF FrameInv
  <2>3. CASE i = n
    <3>1. FrameInv(n)
      BY <1>3 DEF StackInv
    <3>2. top.module \notin Visited /\ \A j \in 1..n : top.module = stack[j].module => n = j
      BY <1>2, <1>3, <3>1 DEF FrameInv
    <3>3. \A j \in 1..(n + 1) : top.module = stack'[j].module => n = j
      <4> SUFFICES ASSUME NEW j \in 1..(n + 1), top.module = stack'[j].module PROVE n = j
        OBVIOUS
      <4>1. j # n + 1
        BY <1>2, <1>3, <2>1
      <4>2. j \in 1..n
        BY <1>3, <4>1
      <4> QED BY <1>6, <3>2, <4>2
    <3>4. top.rest \subseteq Slots(imports, link, top.module)
      BY <1>2, <1>3, <3>1 DEF FrameInv
    <3>5. ASSUME NEW j \in Slots(imports, link, top.module) \ top.rest
          PROVE  LET x == Target(imports, link, top.module, j)
                 IN  x = t \/ (x \in Visited /\ depth[x] < top.depth)
      <4>1. CASE j = k
        BY <1>2, <4>1
      <4>2. CASE j # k
        BY <1>2, <1>3, <3>1, <4>2 DEF FrameInv
      <4> QED BY <4>1, <4>2
    <3> QED BY <1>1, <1>2, <1>3, <1>5, <1>7, <2>1, <2>3, <3>2, <3>3, <3>4, <3>5 DEF FrameInv
  <2>4. CASE i = n + 1
    <3>1. \A j \in 1..(n + 1) : stack'[i].module = stack'[j].module => i = j
      BY <1>3, <1>6, <2>1, <2>4
    <3>2. stack'[i] = new /\ ~(i < n + 1)
      BY <1>3, <1>5, <2>4
    <3>3. /\ new.module \notin Visited
          /\ new.rest \subseteq Slots(imports, link, new.module)
          /\ Slots(imports, link, new.module) \ new.rest = {}
      BY <1>1, <1>4
    <3> QED BY <1>1, <1>4, <1>5, <1>7, <3>1, <3>2, <3>3 DEF FrameInv
  <2> QED BY <1>3, <2>2, <2>3, <2>4
<1>10. EntriesInv'
  BY <1>1, <1>2, <1>3, <1>5, <1>6, <1>7 DEF EntriesInv
<1>11. ReachInv'
  BY <1>1, <1>2, <1>3, <1>7 DEF ReachInv, ClosedUnderLinks
<1>12. ControlInv' /\ OrderInv' /\ DepthIsLongest' /\ CycleIsReal'
  BY <1>1, <1>7 DEF ControlInv, OrderInv, DepthIsLongest, CycleIsReal
<1> QED BY <1>8, <1>9, <1>10, <1>11, <1>12

(* A link to an active module closes a cycle.                              *)
LEMMA FindCycleInv ==
  ASSUME Inv, NEW k, FindCycle(k)
  PROVE  Inv'
<1> DEFINE n == Len(stack)
           t == Target(imports, link, Top.module, k)
<1> USE DEF Inv
<1>1. PICK i \in 1..n :
        /\ stack[i].module = t
        /\ cycle' = [j \in 1..(n - i + 2) |-> IF j = n - i + 2 THEN stack[i].module
                                               ELSE stack[i + j - 1].module]
  BY DEF FindCycle
<1>2. /\ NextSlot(k) /\ pc' = "cycle"
      /\ UNCHANGED <<imports, link, entries, stack, order, depth, chain, asked>>
  BY DEF FindCycle
<1>3. stack # <<>> /\ t \in Linked(imports, link, Top.module) /\ stack \in Seq(Frame)
  BY <1>2, LoopTypes DEF TypeOK
<1>4. n \in Nat \ {0} /\ n \in 1..n /\ Top = stack[n] /\ \A j \in 1..n : stack[j].module \in Module
  <2>1. n \in Nat \ {0} /\ n \in 1..n /\ Top = stack[n]
    BY <1>3, TopTypes
  <2>2. \A j \in 1..n : stack[j] \in Frame
    BY <1>3
  <2>3. \A j \in 1..n : stack[j].module \in Module
    BY <2>2 DEF Frame
  <2> QED BY <2>1, <2>3
<1> DEFINE c == cycle'
           m == n - i + 2
<1>5. m \in Nat /\ m >= 2 /\ m \in 1..m /\ 1 \in 1..m
  BY <1>4
<1>6. c \in Seq(Module) /\ Len(c) = m
  BY <1>1, <1>4, <1>5
<1>7. c[m] = t /\ \A j \in 1..(m - 1) : c[j] = stack[i + j - 1].module
  BY <1>1, <1>4, <1>5
<1>8. c[1] = t
  BY <1>1, <1>4, <1>5, <1>7
<1>9. ASSUME NEW j \in 1..(m - 1) PROVE c[j + 1] \in Linked(imports, link, c[j])
  <2> DEFINE f == i + j - 1
  <2>1. f \in 1..n /\ c[j] = stack[f].module
    BY <1>4, <1>5, <1>7
  <2>2. CASE j = m - 1
    <3>1. f = n /\ j + 1 = m
      BY <1>4, <2>2
    <3> QED BY <1>3, <1>4, <1>7, <2>1, <3>1
  <2>3. CASE j # m - 1
    <3>1. f < n /\ j + 1 \in 1..(m - 1) /\ i + (j + 1) - 1 = f + 1
      BY <1>4, <2>3
    <3>2. c[j + 1] = stack[f + 1].module
      BY <1>7, <3>1
    <3>3. FrameInv(f)
      BY <2>1 DEF StackInv
    <3> QED BY <2>1, <3>1, <3>2, <3>3 DEF FrameInv
  <2> QED BY <2>2, <2>3
<1> HIDE DEF c, m
<1>10. CycleIsReal'
  <2>1. Len(c) >= 2 /\ c[1] = c[Len(c)]
    BY <1>5, <1>6, <1>7, <1>8
  <2>2. IsPath(imports, link, c[1], Len(c) - 1, c)
    BY <1>5, <1>6, <1>9 DEF IsPath
  <2> QED BY <1>2, <2>1, <2>2 DEF CycleIsReal, c
<1>11. TypeOK'
  BY <1>2, <1>6 DEF TypeOK, c
<1>12. ControlInv'
  BY <1>2 DEF ControlInv
<1>13. Visited' = Visited /\ Active' = Active
  BY <1>2 DEF Visited, Active
<1>14. StackInv'
  BY <1>2, <1>13 DEF StackInv, FrameInv
<1>15. OrderInv' /\ EntriesInv' /\ DepthIsLongest'
  BY <1>2, <1>13 DEF OrderInv, EntriesInv, DepthIsLongest
<1>16. ReachInv'
  BY <1>2, <1>13 DEF ReachInv, ClosedUnderLinks
<1> QED BY <1>10, <1>11, <1>12, <1>14, <1>15, <1>16

(* The next entry is visited, unless it is already.                        *)
LEMMA VisitEntryInv ==
  ASSUME Inv, VisitEntry
  PROVE  Inv'
<1> DEFINE e == Head(entries)
<1> USE DEF Inv
<1>1. /\ pc = "walking" /\ stack = <<>> /\ entries # <<>> /\ entries' = Tail(entries)
      /\ stack' = IF e \in Visited THEN <<>> ELSE <<Enter(e)>>
      /\ UNCHANGED <<imports, pc, link, order, depth, chain, cycle, asked>>
  BY DEF VisitEntry
<1>2. /\ e \in Module /\ entries' \in Seq(Module)
      /\ Elements(entries) = Elements(entries') \cup {e}
  BY <1>1, TailElements, HeadTailProperties DEF TypeOK
<1>3. Visited' = Visited
  BY <1>1 DEF Visited
<1>4. ControlInv' /\ OrderInv' /\ DepthIsLongest' /\ CycleIsReal'
  BY <1>1, <1>3 DEF ControlInv, OrderInv, DepthIsLongest, CycleIsReal
<1>5. CASE e \in Visited
  <2>1. stack' = <<>> /\ Active' = {}
    BY <1>1, <1>5 DEF Active
  <2>2. TypeOK'
    BY <1>1, <1>2, <2>1 DEF TypeOK
  <2>3. StackInv'
    BY <2>1 DEF StackInv
  <2>4. EntriesInv' /\ ReachInv'
    BY <1>1, <1>2, <1>3, <1>5, <2>1 DEF EntriesInv, ReachInv, ClosedUnderLinks
  <2> QED BY <1>4, <2>2, <2>3, <2>4
<1>6. CASE e \notin Visited
  <2> DEFINE new == Enter(e)
  <2>1. stack' = <<new>> /\ Len(stack') = 1 /\ stack'[1] = new
    BY <1>1, <1>6
  <2>2. /\ new \in Frame /\ new.module = e /\ new.rest = Slots(imports, link, e)
        /\ IsPath(imports, link, e, new.depth, new.chain)
    <3>1. Slots(imports, link, e) \in SUBSET Nat
      BY <1>2, SlotTypes DEF TypeOK
    <3> QED BY <1>2, <3>1 DEF Enter, Frame, IsPath
  <2> HIDE DEF new
  <2>3. Active' = {e}
    BY <2>1, <2>2 DEF Active
  <2>4. TypeOK'
    BY <1>1, <1>2, <2>1, <2>2 DEF TypeOK
  <2>5. StackInv'
    <3>1. FrameInv(1)'
      BY <1>1, <1>3, <1>6, <2>1, <2>2 DEF FrameInv
    <3> QED BY <2>1, <3>1 DEF StackInv
  <2>6. EntriesInv'
    BY <1>1, <1>2, <1>3, <2>1, <2>2 DEF EntriesInv
  <2>7. ReachInv'
    BY <1>1, <1>2, <1>3, <2>3 DEF ReachInv, ClosedUnderLinks
  <2> QED BY <1>4, <2>4, <2>5, <2>6, <2>7
<1> QED BY <1>5, <1>6

(* The loop of the module on top is over: the module becomes visited, and  *)
(* the module below it accounts for what it returned.                      *)
LEMMA LeaveInv ==
  ASSUME Inv, Leave
  PROVE  Inv'
<1> DEFINE n == Len(stack)
           m == Top.module
           low == Accounted(Below[n - 1], Top.depth, Top.chain)
<1> USE DEF Inv
<1>1. /\ pc = "walking" /\ stack # <<>> /\ Top.rest = {} /\ order' = Append(order, m)
      /\ depth' = [depth EXCEPT ![m] = Top.depth] /\ chain' = [chain EXCEPT ![m] = Top.chain]
      /\ stack' = IF n = 1 THEN <<>> ELSE [Below EXCEPT ![n - 1] = low]
      /\ UNCHANGED <<imports, pc, link, entries, cycle, asked>>
  BY DEF Leave
<1>2. /\ n \in Nat \ {0} /\ n \in 1..n /\ Top = stack[n] /\ Top \in Frame /\ m \in Module
      /\ m \in Active
  BY <1>1, TopTypes
<1>3. FrameInv(n)
  BY <1>2 DEF StackInv
<1>4. /\ m \notin Visited /\ IsPath(imports, link, m, Top.depth, Top.chain)
      /\ \A x \in Linked(imports, link, m) : x \in Visited /\ depth[x] < Top.depth
  BY <1>1, <1>2, <1>3 DEF FrameInv, Linked
<1>5. Visited' = Visited \cup {m}
  BY <1>1, <1>2, AppendElements DEF TypeOK, Visited
<1>6. /\ depth' \in [Module -> Nat] /\ depth'[m] = Top.depth
      /\ chain' \in [Module -> Seq(Module)] /\ chain'[m] = Top.chain
      /\ \A x \in Visited : x \in Module /\ depth'[x] = depth[x] /\ chain'[x] = chain[x]
  <2>1. Visited \subseteq Module
    BY ElementsType DEF TypeOK, Visited
  <2> QED BY <1>1, <1>2, <1>4, <2>1 DEF TypeOK, Frame
<1>7. DepthIsLongest'
  <2>1. \A x \in Visited : \A y \in Linked(imports, link, x) : y \in Visited
    <3> SUFFICES ASSUME NEW i \in 1..Len(order), NEW y \in Linked(imports, link, order[i])
                 PROVE  y \in Visited
      BY DEF Visited, Elements
    <3>1. PICK j \in 1..(i - 1) : order[j] = y
      BY DEF OrderInv
    <3>2. j \in 1..Len(order)
      BY DEF TypeOK
    <3> QED BY <3>1, <3>2 DEF Visited, Elements
  <2> QED BY <1>1, <1>4, <1>5, <1>6, <2>1 DEF DepthIsLongest
<1>8. order' \in Seq(Module)
  BY <1>1, <1>2 DEF TypeOK
<1>9. OrderInv'
  <2> DEFINE l == Len(order)
  <2>1. /\ l \in Nat /\ Len(order') = l + 1 /\ order'[l + 1] = m
        /\ \A i \in 1..l : order'[i] = order[i]
    BY <1>1, <1>2 DEF TypeOK
  <2>2. \A i \in 1..l : order[i] # m
    BY <1>4 DEF Visited, Elements
  <2>3. \A x \in Linked(imports, link, m) : \E j \in 1..l : order[j] = x
    BY <1>4 DEF Visited, Elements
  <2>4. ASSUME NEW i \in 1..(l + 1), NEW j \in 1..(l + 1), order'[i] = order'[j]
        PROVE  i = j
    <3>1. (i \in 1..l \/ i = l + 1) /\ (j \in 1..l \/ j = l + 1)
      BY <2>1
    <3> QED BY <2>1, <2>2, <2>4, <3>1 DEF OrderInv
  <2>5. ASSUME NEW i \in 1..(l + 1), NEW x \in Linked(imports, link, order'[i])
        PROVE  \E j \in 1..(i - 1) : order'[j] = x
    <3>1. CASE i = l + 1
      <4>1. PICK j \in 1..l : order[j] = x
        BY <2>1, <2>3, <2>5, <3>1
      <4> QED BY <2>1, <3>1, <4>1
    <3>2. CASE i \in 1..l
      <4>1. PICK j \in 1..(i - 1) : order[j] = x
        BY <2>1, <2>5, <3>2 DEF OrderInv
      <4> QED BY <2>1, <3>2, <4>1
    <3> QED BY <2>1, <3>1, <3>2
  <2> QED BY <1>1, <2>1, <2>4, <2>5 DEF OrderInv
<1>10. ControlInv' /\ CycleIsReal'
  BY <1>1 DEF ControlInv, CycleIsReal
<1>11. CASE n = 1
  <2>1. stack' = <<>> /\ Active' = {}
    BY <1>1, <1>11 DEF Active
  <2>2. TypeOK'
    <3>1. stack' \in Seq(Frame)
      BY <2>1, EmptySeq
    <3> QED BY <1>1, <1>6, <1>8, <3>1 DEF TypeOK
  <2>3. StackInv'
    BY <2>1 DEF StackInv
  <2>4. EntriesInv'
    BY <1>1, <1>2, <1>5, <1>11, <2>1 DEF EntriesInv
  <2>5. ReachInv'
    BY <1>1, <1>2, <1>5, <2>1 DEF ReachInv, ClosedUnderLinks
  <2> QED BY <1>7, <1>9, <1>10, <2>2, <2>3, <2>4, <2>5
<1>12. CASE n # 1
  <2> DEFINE f == stack[n - 1]
  <2>1. n - 1 \in 1..n /\ n - 1 \in 1..(n - 1) /\ n - 1 < n
    <3> HIDE DEF n
    <3> QED BY <1>2, <1>12
  <2>2. FrameInv(n - 1) /\ f \in Frame
    BY <2>1 DEF StackInv, TypeOK
  <2>3. Below[n - 1] = f
    BY <1>1, <2>1, BelowTypes
  <2>4. m \in Linked(imports, link, f.module)
    BY <1>2, <2>1, <2>2 DEF FrameInv
  <2>5. /\ low \in Frame /\ low.module = f.module /\ low.rest = f.rest
        /\ low.depth >= f.depth /\ low.depth > Top.depth
        /\ IsPath(imports, link, low.module, low.depth, low.chain)
    <3>1. /\ IsPath(imports, link, f.module, f.depth, f.chain)
          /\ Top.depth \in Nat /\ Top.chain \in Seq(Module)
      BY <1>2, <2>2 DEF FrameInv, Frame
    <3> QED BY <1>4, <2>2, <2>3, <2>4, <3>1, AccountedPath
  <2> HIDE DEF low
  <2>6. /\ stack' \in Seq(Frame) /\ Len(stack') = n - 1 /\ stack' # <<>>
        /\ \A i \in 1..(n - 2) : stack'[i] = stack[i]
        /\ stack'[n - 1] = low
    BY <1>1, <1>12, <2>5, PopTop
  <2>7. \A i \in 1..(n - 1) : stack'[i].module = stack[i].module /\ i \in 1..n
    BY <1>2, <2>5, <2>6
  <2>8. Active' \subseteq Active
    BY <2>6, <2>7 DEF Active
  <2>9. TypeOK'
    BY <1>1, <1>6, <1>8, <2>6 DEF TypeOK
  <2>10. StackInv'
    <3> SUFFICES ASSUME NEW i \in 1..(n - 1) PROVE FrameInv(i)'
      BY <2>6 DEF StackInv
    <3>1. FrameInv(i) /\ stack[i].module # m
      <4>1. FrameInv(i) /\ i \in 1..n /\ i # n
        BY <1>2, <2>7 DEF StackInv
      <4> QED BY <1>2, <4>1 DEF FrameInv
    <3>2. \A j \in 1..(n - 1) : stack'[i].module = stack'[j].module => i = j
      BY <2>7, <3>1 DEF FrameInv
    <3>3. CASE i # n - 1
      <4>1. stack'[i] = stack[i] /\ i + 1 \in 1..(n - 1) /\ i < n /\ i < n - 1
        BY <1>2, <2>6, <3>3
      <4>2. stack'[i + 1].module = stack[i + 1].module
        BY <2>7, <4>1
      <4> QED BY <1>1, <1>5, <1>6, <2>6, <3>1, <3>2, <4>1, <4>2, SMTT(30) DEF FrameInv
    <3>4. CASE i = n - 1
      <4>1. stack'[i] = low /\ stack[i] = f /\ stack[i + 1].module = m /\ ~(i < n - 1)
        BY <1>2, <2>6, <3>4
      <4>2. low.module \notin Visited' /\ low.rest \subseteq Slots(imports, link, low.module)
        BY <1>5, <2>5, <3>1, <4>1 DEF FrameInv
      <4>3. ASSUME NEW k \in Slots(imports, link, low.module) \ low.rest
            PROVE  LET x == Target(imports, link, low.module, k)
                   IN  x \in Visited' /\ depth'[x] < low.depth
        <5> DEFINE x == Target(imports, link, low.module, k)
        <5>1. (x \in Visited /\ depth[x] < f.depth) \/ x = m
          BY <2>5, <3>1, <4>1 DEF FrameInv
        <5>2. CASE x = m
          BY <1>5, <1>6, <2>5, <5>2
        <5>3. CASE x \in Visited /\ depth[x] < f.depth
          <6>1. depth[x] \in Nat /\ f.depth \in Nat /\ low.depth \in Nat
            BY <1>6, <2>2, <2>5, <5>3 DEF TypeOK, Frame
          <6> QED BY <1>5, <1>6, <2>5, <5>3, <6>1
        <5> QED BY <5>1, <5>2, <5>3
      <4> QED BY <1>1, <2>5, <2>6, <3>2, <4>1, <4>2, <4>3 DEF FrameInv
    <3> QED BY <3>3, <3>4
  <2>11. EntriesInv'
    <3>1. stack'[1].module = stack[1].module
      BY <2>1, <2>7
    <3> QED BY <1>1, <1>5, <2>6, <3>1 DEF EntriesInv
  <2>12. ReachInv'
    BY <1>1, <1>2, <1>5, <2>8 DEF ReachInv, ClosedUnderLinks
  <2> QED BY <1>7, <1>9, <1>10, <2>9, <2>10, <2>11, <2>12
<1> QED BY <1>11, <1>12

(* The walk has no entry left.                                            *)
LEMMA FinishInv ==
  ASSUME Inv, Finish
  PROVE  Inv'
<1>1. /\ stack = <<>> /\ entries = <<>> /\ pc = "walking" /\ pc' = "ordered"
      /\ UNCHANGED <<imports, link, entries, stack, order, depth, chain, cycle, asked>>
  BY DEF Finish
<1>2. Visited' = Visited /\ Active' = Active
  BY <1>1 DEF Visited, Active
<1>3. TypeOK'
  BY <1>1 DEF Inv, TypeOK
<1>4. StackInv'
  BY <1>1 DEF StackInv
<1>5. ReachInv'
  BY <1>1, <1>2 DEF Inv, ReachInv, ClosedUnderLinks
<1>6. ControlInv' /\ EntriesInv' /\ CycleIsReal'
  BY <1>1, <1>2 DEF Inv, ControlInv, EntriesInv, CycleIsReal
<1>7. OrderInv' /\ DepthIsLongest'
  BY <1>1, <1>2 DEF Inv, OrderInv, DepthIsLongest
<1> QED BY <1>3, <1>4, <1>5, <1>6, <1>7 DEF Inv

----------------------------------------------------------------------------
LEMMA InitInv == Init => Inv
<1> SUFFICES ASSUME Init PROVE Inv
  OBVIOUS
<1>1. imports = [m \in {} |-> <<>>] /\ order = <<>> /\ stack = <<>> /\ entries = <<>>
      /\ asked = <<>> /\ cycle = <<>> /\ pc = "idle" /\ link = "imports"
      /\ depth = [m \in Module |-> 0] /\ chain = [m \in Module |-> <<>>]
  BY DEF Init
<1>2. WellFormed(imports)
  BY <1>1 DEF WellFormed
<1>3. Visited = {} /\ Active = {} /\ Elements(asked) = {} /\ Elements(entries) = {}
  BY <1>1 DEF Visited, Active, Elements
<1>4. TypeOK
  BY <1>1, <1>2, EmptySeq DEF TypeOK, Links
<1> QED BY <1>1, <1>3, <1>4
        DEF Inv, ControlInv, OrderInv, StackInv, EntriesInv, ReachInv, DepthIsLongest, CycleIsReal

(* While no walk is under way nothing depends on the graph.                *)
LEMMA IdleInv ==
  ASSUME TypeOK', pc' = "idle" \/ pc' = "walking",
         stack' = <<>>, order' = <<>>, entries' = asked',
         pc' = "idle" => asked' = <<>>
  PROVE  Inv'
<1>1. Visited' = {} /\ Active' = {}
  BY DEF Visited, Active, Elements
<1> QED BY <1>1
        DEF Inv, ControlInv, OrderInv, StackInv, EntriesInv, ReachInv, DepthIsLongest, CycleIsReal

LEMMA NextInv == Inv /\ [Next]_vars => Inv'
<1> SUFFICES ASSUME Inv, [Next]_vars PROVE Inv'
  OBVIOUS
<1>1. CASE Change
  <2>1. TypeOK' /\ pc' = "idle" /\ stack' = <<>> /\ order' = <<>> /\ entries' = <<>> /\ asked' = <<>>
    BY <1>1 DEF Change, Inv, TypeOK, ControlInv, walkVars
  <2> QED BY <2>1, IdleInv
<1>2. CASE Ask
  <2>1. PICK l \in Links, es \in Entries : Begin(l, es)
    BY <1>2 DEF Ask
  <2>2. /\ TypeOK' /\ pc' = "walking" /\ stack' = <<>> /\ order' = <<>> /\ entries' = asked'
    BY <2>1, WalkAssumption DEF Begin, Inv, TypeOK, ControlInv
  <2> QED BY <2>2, IdleInv
<1>3. CASE WalkStep
  BY <1>3, VisitEntryInv, PassVisitedInv, FindCycleInv, VisitLinkedInv, LeaveInv, FinishInv
     DEF WalkStep
<1>4. CASE Return
  <2>1. imports' = imports /\ pc' = "idle" /\ stack' = <<>> /\ order' = <<>> /\ entries' = <<>>
        /\ asked' = <<>> /\ cycle' = <<>> /\ link' = "imports"
        /\ depth' = [m \in Module |-> 0] /\ chain' = [m \in Module |-> <<>>]
    BY <1>4 DEF Return
  <2>2. TypeOK'
    BY <2>1, EmptySeq DEF Inv, TypeOK, Links
  <2> QED BY <2>1, <2>2, IdleInv
<1>5. CASE UNCHANGED vars
  <2>1. UNCHANGED <<imports, pc, link, entries, stack, order, depth, chain, cycle, asked>>
    BY <1>5 DEF vars, walkVars
  <2>2. Visited' = Visited /\ Active' = Active
    BY <2>1 DEF Visited, Active
  <2>3. StackInv'
    BY <2>1, <2>2 DEF Inv, StackInv, FrameInv
  <2>4. TypeOK'
    BY <2>1 DEF Inv, TypeOK
  <2>5. ReachInv'
    BY <2>1, <2>2 DEF Inv, ReachInv, ClosedUnderLinks
  <2>6. ControlInv' /\ EntriesInv' /\ CycleIsReal'
    BY <2>1, <2>2 DEF Inv, ControlInv, EntriesInv, CycleIsReal
  <2>7. OrderInv' /\ DepthIsLongest'
    BY <2>1, <2>2 DEF Inv, OrderInv, DepthIsLongest
  <2> QED BY <2>3, <2>4, <2>5, <2>6, <2>7 DEF Inv
<1> QED BY <1>1, <1>2, <1>3, <1>4, <1>5 DEF Next

LEMMA Invariance == Spec => []Inv
BY InitInv, NextInv, PTL DEF Spec

(* The graph stays one that knows all the modules it imports, and the      *)
(* walk's variables keep their types, whatever the modules and the lists   *)
(* of entries.  (visit, AddModule)                                         *)
THEOREM TypeCorrect == Spec => []TypeOK
BY Invariance, PTL DEF Inv

(* InitializationOrderFor lists each module once, after what it links to,  *)
(* and exactly what can be reached from the entries.  (visit)              *)
THEOREM OrderIsTopological == Spec => []TopologicalOrder
<1>1. Inv => TopologicalOrder
  <2> SUFFICES ASSUME Inv PROVE TopologicalOrder
    OBVIOUS
  <2>1. pc = "ordered" => Elements(asked) \subseteq Visited
    BY DEF Inv, EntriesInv, ControlInv, Elements
  <2> QED BY <2>1 DEF Inv, OrderInv, ReachInv, TopologicalOrder
<1> QED BY Invariance, <1>1, PTL

(* An ImportCycleError always names a cycle of the graph.                  *)
(* (visit, dependencyDepth)                                                *)
THEOREM CyclesAreReal == Spec => []CycleIsReal
BY Invariance, PTL DEF Inv

(* The depth of a module is the length of a longest path, and the path     *)
(* kept for it is one.  (dependencyDepth, longestDependencyPath)           *)
THEOREM DepthsAreLongest == Spec => []DepthIsLongest
BY Invariance, PTL DEF Inv

----------------------------------------------------------------------------
(* The edits of the graph.                                                 *)

(* A set of natural numbers that is not empty has a least element.         *)
LEMMA LeastExists ==
  ASSUME NEW S, S \subseteq Nat, S # {}
  PROVE  \E n \in S : \A k \in S : n <= k
<1>1. PICK n \in S : \A k \in S : ~ (<<k, n>> \in OpToRel(<, Nat))
  BY NatLessThanWellFounded, WFMin
<1>2. \A k \in S : ~(k < n)
  BY <1>1 DEF OpToRel
<1>3. QED
  BY <1>2

(* The loop keeps elements at the places it is told, and nothing else.     *)
LEMMA KeptElements ==
  ASSUME NEW S, NEW is \in Seq(S), NEW P, NEW T,
         \A i \in 1..Len(is) : i \in P => is[i] \in T
  PROVE  Kept(is, P) \in Seq(T)
<1> DEFINE Step(f, i) ==
             IF i = 0 THEN <<>>
             ELSE IF i \in P THEN Append(f[i - 1], is[i]) ELSE f[i - 1]
           Loop(f, n) == f = [i \in 0..n |-> Step(f, i)]
           kept == CHOOSE f : Loop(f, Len(is))
<1>0. Len(is) \in Nat
  OBVIOUS
<1>1. \A n \in 0..Len(is) : \E f : Loop(f, n)
  <2> DEFINE Bad == {n \in 0..Len(is) : ~ \E f : Loop(f, n)}
  <2>1. SUFFICES ASSUME Bad # {} PROVE FALSE
    OBVIOUS
  <2>2. PICK n \in Bad : \A k \in Bad : n <= k
    <3> HIDE DEF Loop
    <3>1. Bad \subseteq Nat
      BY <1>0
    <3> HIDE DEF Bad
    <3> QED
      BY <2>1, <3>1, LeastExists
  <2>3. CASE n = 0
    <3> DEFINE f == [i \in 0..0 |-> <<>>]
    <3>1. Loop(f, 0)
      OBVIOUS
    <3> QED
      BY <3>1, <2>3
  <2>4. CASE n # 0
    <3>1. n - 1 \in 0..Len(is) /\ n - 1 \notin Bad
      <4>1. n \in 0..Len(is)
        BY <2>2
      <4>2. n - 1 \in 0..Len(is) /\ ~(n <= n - 1)
        BY <4>1, <2>4, <1>0
      <4> HIDE DEF Bad
      <4> QED
        BY <4>2, <2>2
    <3>2. PICK f : Loop(f, n - 1)
      BY <3>1
    <3> DEFINE g == [i \in 0..n |-> IF i = n THEN Step(f, n) ELSE f[i]]
    <3>3. \A i \in 0..n : g[i] = Step(g, i)
      <4> TAKE i \in 0..n
      <4>1. i \in Nat /\ n \in Nat
        BY <1>0
      <4>2. CASE i = n
        <5>1. g[n - 1] = f[n - 1]
          BY <4>1, <2>4
        <5> QED
          BY <5>1, <4>1, <4>2, <2>4
      <4>3. CASE i # n
        <5>1. i \in 0..(n - 1)
          BY <4>1, <4>3
        <5>2. f[i] = Step(f, i)
          BY <5>1, <3>2
        <5>3. i # 0 => g[i - 1] = f[i - 1]
          BY <4>1, <4>3
        <5> QED
          BY <5>2, <5>3, <4>1, <4>3
      <4> QED
        BY <4>2, <4>3
    <3>4. Loop(g, n)
      BY <3>3
    <3> HIDE DEF g, Loop
    <3> QED
      BY <3>4
  <2> QED
    BY <2>3, <2>4
<1>2. Loop(kept, Len(is))
  <2> HIDE DEF Loop
  <2>1. \E f : Loop(f, Len(is))
    BY <1>0, <1>1
  <2> QED
    BY <2>1
<1>3. Kept(is, P) = kept[Len(is)]
  BY DEF Kept
<1> HIDE DEF kept
<1>4. \A n \in 0..Len(is) : kept[n] \in Seq(T)
  <2> DEFINE Bad == {n \in 0..Len(is) : kept[n] \notin Seq(T)}
  <2>1. SUFFICES ASSUME Bad # {} PROVE FALSE
    OBVIOUS
  <2>2. PICK n \in Bad : \A k \in Bad : n <= k
    <3>1. Bad \subseteq Nat
      BY <1>0
    <3> HIDE DEF Bad
    <3> QED
      BY <2>1, <3>1, LeastExists
  <2>3. kept[n] = Step(kept, n)
    BY <1>2
  <2>4. CASE n = 0
    <3>1. kept[n] = <<>>
      BY <2>3, <2>4
    <3>2. <<>> \in Seq(T)
      OBVIOUS
    <3>3. kept[n] \notin Seq(T)
      BY <2>2
    <3> QED
      BY <3>1, <3>2, <3>3, Zenon
  <2>5. CASE n # 0
    <3>1. n - 1 \in 0..Len(is) /\ n - 1 \notin Bad
      BY <2>2, <2>5, <1>0
    <3>2. kept[n - 1] \in Seq(T)
      BY <3>1
    <3>3. n \in P => is[n] \in T
      BY <2>5, <1>0
    <3> QED
      <4>1. CASE n \in P
        <5>1. kept[n] = Append(kept[n - 1], is[n])
          BY <2>3, <2>5, <4>1
        <5>2. kept[n] \in Seq(T)
          BY <5>1, <3>2, <3>3, <4>1
        <5> QED
          BY <5>2, <2>2
      <4>2. CASE n \notin P
        <5>1. kept[n] = kept[n - 1]
          BY <2>3, <2>5, <4>2
        <5> QED
          BY <5>1, <3>2, <2>2
      <4> QED
        BY <4>1, <4>2
  <2> QED
    BY <2>4, <2>5
<1> QED
  BY <1>0, <1>3, <1>4

(* RemoveFirst leaves elements of the list only.                           *)
LEMMA RemoveFirstElements ==
  ASSUME NEW S, NEW is \in Seq(S), NEW n
  PROVE  RemoveFirst(is, n) \in Seq(S)
<1> DEFINE I == {i \in 1..Len(is) : is[i] = n}
           first == CHOOSE i \in I : \A j \in I : i <= j
<1>1. CASE I = {}
  BY <1>1 DEF RemoveFirst
<1>2. CASE I # {}
  <2>1. I \subseteq Nat /\ I \subseteq 1..Len(is)
    OBVIOUS
  <2>2. RemoveFirst(is, n) = RemoveAt(is, first)
    BY <1>2 DEF RemoveFirst, SelectInSeq, Min
  <2>3. first \in I
    <3> HIDE DEF I
    <3>1. \E i \in I : \A j \in I : i <= j
      BY <1>2, <2>1, LeastExists
    <3> QED
      BY <3>1
  <2> HIDE DEF first, I
  <2>4. first \in 1..Len(is)
    BY <2>1, <2>3
  <2>5. SubSeq(is, 1, first - 1) \in Seq(S) /\ SubSeq(is, first + 1, Len(is)) \in Seq(S)
    BY <2>4
  <2> QED
    BY <2>2, <2>5 DEF RemoveAt
<1> QED
  BY <1>1, <1>2

(* A list of modules becomes the imports of one; what it names is known.   *)
LEMMA WithModuleKeeps ==
  ASSUME NEW g, WellFormed(g), NEW m \in Module, NEW is \in Seq(Module)
  PROVE  WellFormed(WithModule(g, m, is))
<1> DEFINE D == DOMAIN g \cup {m} \cup ToSet(is)
<1>1. D \subseteq Module
  BY DEF WellFormed, ToSet
<1>2. ASSUME NEW x \in D
      PROVE  (IF x = m THEN is ELSE Dependencies(g, x)) \in Seq(D)
  <2>1. is \in Seq(D)
    <3>1. \A i \in 1..Len(is) : is[i] \in D
      BY DEF ToSet
    <3> HIDE DEF D
    <3> QED
      BY <3>1
  <2>2. Dependencies(g, x) \in Seq(D)
    <3>1. DOMAIN g \subseteq D
      OBVIOUS
    <3>2. x \in DOMAIN g => g[x] \in Seq(DOMAIN g)
      BY DEF WellFormed
    <3> HIDE DEF D
    <3>3. <<>> \in Seq(D)
      OBVIOUS
    <3>4. x \in DOMAIN g => g[x] \in Seq(D)
      BY <3>1, <3>2
    <3> QED
      BY <3>3, <3>4, Zenon DEF Dependencies, HasModule
  <2> QED
    BY <2>1, <2>2
<1> DEFINE h == WithModule(g, m, is)
<1>3. h = [x \in D |-> IF x = m THEN is ELSE Dependencies(g, x)]
  BY DEF WithModule
<1> HIDE DEF D, h
<1>4. DOMAIN h = D /\ h \in [D -> Seq(D)]
  BY <1>2, <1>3
<1> QED
  BY <1>1, <1>4 DEF WellFormed, h

(* Each list can lose imports, and modules that nobody imports can go.     *)
LEMMA ThinnedKeeps ==
  ASSUME NEW g, WellFormed(g), NEW D \in SUBSET DOMAIN g,
         NEW h, h = [x \in D |-> h[x]], \A x \in D : h[x] \in Seq(D)
  PROVE  WellFormed(h)
<1>1. h \in [D -> Seq(D)] /\ DOMAIN h = D
  <2>1. [x \in D |-> h[x]] \in [D -> Seq(D)] /\ DOMAIN [x \in D |-> h[x]] = D
    OBVIOUS
  <2> QED
    BY <2>1, Zenon
<1>2. D \subseteq Module
  BY DEF WellFormed
<1> QED
  BY <1>1, <1>2 DEF WellFormed

(* What an edit leaves is a graph that knows all the modules it imports.   *)
LEMMA EditsKeep ==
  ASSUME WellFormed(imports), EditStep
  PROVE  WellFormed(imports')
<1> DEFINE g == imports
<1>0. DOMAIN g \subseteq Module /\ \A x \in DOMAIN g : g[x] \in Seq(DOMAIN g)
  BY DEF WellFormed
<1>1. PICK m \in Module :
        \/ \E is \in ImportLists : AddModule(m, is) \/ AddCompactModule(m, is)
        \/ \E n \in Module : AddImport(m, n) \/ RemoveImport(m, n) \/ RemoveAllImports(m, n)
        \/ RemoveModule(m)
        \/ ClearImports(m)
  BY DEF EditStep
<1>2. ASSUME NEW is \in ImportLists, AddModule(m, is)
      PROVE  WellFormed(imports')
  BY <1>2, GraphAssumption, WithModuleKeeps DEF AddModule, Edit
<1>3. ASSUME NEW is \in ImportLists, AddCompactModule(m, is)
      PROVE  WellFormed(imports')
  <2>1. is \in Seq(Module)
    BY GraphAssumption
  <2>2. Compact(is) \in Seq(Module)
    <3>1. \A i \in 1..Len(is) : i \in FirstPlaces(is) => is[i] \in Module
      BY <2>1
    <3> QED
      BY <2>1, <3>1, KeptElements DEF Compact
  <2> QED
    BY <1>3, <2>2, WithModuleKeeps DEF AddCompactModule, Edit
<1>4. ASSUME NEW n \in Module, AddImport(m, n)
      PROVE  WellFormed(imports')
  <2>1. Dependencies(g, m) \in Seq(Module)
    <3>1. m \in DOMAIN g => g[m] \in Seq(Module)
      BY <1>0
    <3> QED
      BY <3>1 DEF Dependencies, HasModule
  <2>2. Append(Dependencies(g, m), n) \in Seq(Module)
    BY <2>1
  <2> QED
    BY <1>4, <2>2, WithModuleKeeps DEF AddImport, Edit, WithImport
<1>5. ASSUME NEW n \in Module, RemoveImport(m, n)
      PROVE  WellFormed(imports')
  <2> DEFINE h == [g EXCEPT ![m] = RemoveFirst(g[m], n)]
  <2>1. imports' = h
    BY <1>5 DEF RemoveImport, Edit, WithoutImport
  <2>2. \A x \in DOMAIN g : h[x] \in Seq(DOMAIN g)
    <3> TAKE x \in DOMAIN g
    <3>1. RemoveFirst(g[x], n) \in Seq(DOMAIN g)
      BY <1>0, RemoveFirstElements
    <3> QED
      BY <1>0, <3>1
  <2>3. h = [x \in DOMAIN g |-> h[x]]
    OBVIOUS
  <2> HIDE DEF h
  <2> QED
    BY <2>1, <2>2, <2>3, ThinnedKeeps
<1>6. ASSUME NEW n \in Module, RemoveAllImports(m, n)
      PROVE  WellFormed(imports')
  <2> DEFINE h == [g EXCEPT ![m] = Kept(g[m], OtherPlaces(g[m], n))]
  <2>1. imports' = h
    BY <1>6 DEF RemoveAllImports, Edit, WithoutAllImports
  <2>2. \A x \in DOMAIN g : h[x] \in Seq(DOMAIN g)
    <3> TAKE x \in DOMAIN g
    <3>1. g[x] \in Seq(DOMAIN g) /\ \A i \in 1..Len(g[x]) : g[x][i] \in DOMAIN g
      BY <1>0
    <3>2. Kept(g[x], OtherPlaces(g[x], n)) \in Seq(DOMAIN g)
      BY <3>1, KeptElements
    <3> QED
      BY <3>1, <3>2
  <2>3. h = [x \in DOMAIN g |-> h[x]]
    OBVIOUS
  <2> HIDE DEF h
  <2> QED
    BY <2>1, <2>2, <2>3, ThinnedKeeps
<1>7. ASSUME RemoveModule(m)
      PROVE  WellFormed(imports')
  <2> DEFINE D == DOMAIN g \ {m}
             h == [x \in D |-> Kept(g[x], OtherPlaces(g[x], m))]
  <2>1. imports' = h
    BY <1>7 DEF RemoveModule, Edit, WithoutModule, WithoutAllImports
  <2>2. \A x \in D : h[x] \in Seq(D)
    <3> TAKE x \in D
    <3>1. g[x] \in Seq(DOMAIN g) /\ \A i \in 1..Len(g[x]) : g[x][i] \in DOMAIN g
      BY <1>0
    <3>2. \A i \in 1..Len(g[x]) : i \in OtherPlaces(g[x], m) => g[x][i] \in D
      BY <3>1 DEF OtherPlaces
    <3>3. Kept(g[x], OtherPlaces(g[x], m)) \in Seq(D)
      <4> HIDE DEF D
      <4> QED
        BY <3>1, <3>2, KeptElements
    <3> QED
      BY <3>3
  <2>3. h = [x \in D |-> h[x]] /\ D \in SUBSET DOMAIN g
    OBVIOUS
  <2> HIDE DEF h, D
  <2> QED
    BY <2>1, <2>2, <2>3, ThinnedKeeps
<1>8. ASSUME ClearImports(m)
      PROVE  WellFormed(imports')
  <2> DEFINE h == [g EXCEPT ![m] = <<>>]
  <2>1. imports' = h
    BY <1>8 DEF ClearImports, Edit, ClearedImports
  <2>2. \A x \in DOMAIN g : h[x] \in Seq(DOMAIN g)
    <3> TAKE x \in DOMAIN g
    <3>1. g[x] \in Seq(DOMAIN g)
      BY <1>0
    <3>2. h[x] = IF x = m THEN <<>> ELSE g[x]
      OBVIOUS
    <3>3. <<>> \in Seq(DOMAIN g)
      OBVIOUS
    <3> HIDE DEF h
    <3> QED
      BY <3>1, <3>2, <3>3, Zenon
  <2>3. h = [x \in DOMAIN g |-> h[x]]
    OBVIOUS
  <2> HIDE DEF h
  <2> QED
    BY <2>1, <2>2, <2>3, ThinnedKeeps
<1> QED
  BY <1>1, <1>2, <1>3, <1>4, <1>5, <1>6, <1>7, <1>8

(* The graph of the edits and its walks are the walks of ModuleWalk on a   *)
(* graph that knows all the modules it imports: an edit is a change of the *)
(* graph, and no walk meets one.  (AddModule, AddImport, RemoveImport,     *)
(* RemoveAllImports, RemoveModule, visit)                                  *)
THEOREM GraphImplementsWalk == GraphSpec => ImplementsWalk
<1>1. Init => WellFormed(imports)
  BY DEF Init, WellFormed
<1>2. WellFormed(imports) /\ [GraphNext]_vars => WellFormed(imports)' /\ [Next]_vars
  <2> SUFFICES ASSUME WellFormed(imports), [GraphNext]_vars
               PROVE  WellFormed(imports)' /\ [Next]_vars
    OBVIOUS
  <2>1. CASE EditStep
    <3>1. WellFormed(imports')
      BY <2>1, EditsKeep
    <3>2. Change
      BY <2>1, <3>1 DEF EditStep, Change, Edit, AddModule, AddCompactModule, AddImport,
            RemoveImport, RemoveAllImports, RemoveModule, ClearImports
    <3> QED
      BY <3>1, <3>2 DEF Next
  <2>2. CASE Ask \/ WalkStep \/ Return
    <3>1. UNCHANGED imports
      BY <2>2 DEF Ask, Begin, WalkStep, VisitEntry, PassVisited, FindCycle, VisitLinked, Leave,
            Finish, Return
    <3> QED
      BY <2>2, <3>1 DEF Next
  <2>3. CASE UNCHANGED vars
    BY <2>3 DEF vars
  <2> QED
    BY <2>1, <2>2, <2>3 DEF GraphNext
<1> QED
  BY <1>1, <1>2, PTL DEF GraphSpec, ImplementsWalk, Spec

(* So whatever edits built the graph, its orders are topological, the      *)
(* cycles it reports are cycles and the depths are those of longest paths. *)
(* (InitializationOrderFor, DependencyDepth, LongestDependencyPath)        *)
THEOREM WalksOfTheGraph == GraphSpec => [](TopologicalOrder /\ CycleIsReal /\ DepthIsLongest)
BY GraphImplementsWalk, OrderIsTopological, CyclesAreReal, DepthsAreLongest, PTL DEF ImplementsWalk
====
