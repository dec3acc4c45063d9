---- MODULE ModuleWalk ----
(***************************************************************************)
(* The depth-first walks of the resolver's module graph.  visit (the       *)
(* initialization order), dependencyDepth and longestDependencyPath follow *)
(* the imports of a module, dependentDepth and longestDependentPath follow *)
(* its importers; they are one walk, and differ in what they keep of a     *)
(* module they leave: its place in the order, its depth, or its longest    *)
(* path.  The walk below keeps all three.                                  *)
(*                                                                         *)
(* Between two walks the graph may become any other graph: ModuleGraph     *)
(* says which operations change it and is shown to implement this module.  *)
(***************************************************************************)
EXTENDS Integers, Sequences, FiniteSets

CONSTANTS
  Module,   (* the paths of modules, numbers so that they can be sorted      *)
  Entries   (* the lists of entries a walk may be asked to start from        *)

ASSUME WalkAssumption == Module \subseteq Nat /\ Entries \subseteq Seq(Module)

VARIABLES
  imports,  (* g.imports: the imports of each known module                  *)
  pc,       (* "idle", "walking", or how the walk ended: "ordered", "cycle" *)
  link,     (* what the walk follows: "imports" or "dependents"             *)
  entries,  (* entries not visited yet                                      *)
  stack,    (* the active modules and where each one's loop is              *)
  order,    (* the visited modules, in the order the walk left them         *)
  depth,    (* the depth of each visited module                             *)
  chain,    (* a longest path from each visited module                      *)
  cycle,    (* the cycle the walk found, <<>> for none                      *)
  asked     (* history: the entries the walk was given                      *)

walkVars == <<pc, link, entries, stack, order, depth, chain, cycle, asked>>
vars == <<imports, walkVars>>

Links == {"imports", "dependents"}

----------------------------------------------------------------------------
(* The graph.  A well-formed one knows every module it imports.            *)
WellFormed(g) == DOMAIN g \subseteq Module /\ g \in [DOMAIN g -> Seq(DOMAIN g)]

Known == DOMAIN imports

Elements(s) == {s[i] : i \in 1..Len(s)}

(* What a loop over a module's links l has to look at, smallest first: the *)
(* places of its imports, or its importers, which Dependents sorts.  An    *)
(* unknown module has none.                                                *)
Slots(g, l, m) ==
  IF l = "imports"
  THEN IF m \in DOMAIN g THEN 1..Len(g[m]) ELSE {}
  ELSE {x \in DOMAIN g : m \in Elements(g[x])}

Target(g, l, m, k) == IF l = "imports" THEN g[m][k] ELSE k

Linked(g, l, m) == {Target(g, l, m, k) : k \in Slots(g, l, m)}

(* c is a path of d links that starts at m.                                *)
IsPath(g, l, m, d, c) ==
  /\ Len(c) = d + 1
  /\ c[1] = m
  /\ \A i \in 1..d : c[i + 1] \in Linked(g, l, c[i])

----------------------------------------------------------------------------
Visited == Elements(order)

Active == {stack[i].module : i \in 1..Len(stack)}

Top == stack[Len(stack)]

Below == SubSeq(stack, 1, Len(stack) - 1)

Enter(m) == [module |-> m, rest |-> Slots(imports, link, m), depth |-> 0, chain |-> <<m>>]

(* Mutant: a module's own depth is forgotten when a later import is nearer. *)
AccountedLast(frame, d, c) ==
  [frame EXCEPT !.depth = d + 1, !.chain = <<frame.module>> \o c]

(* A module is one deeper than the deepest module it links to, and the     *)
(* first of several longest paths is kept.                                 *)
Accounted(frame, d, c) ==
  [frame EXCEPT
     !.depth = IF d + 1 > @ THEN d + 1 ELSE @,
     !.chain = IF Len(c) + 1 > Len(@) THEN <<frame.module>> \o c ELSE @]

Init ==
  /\ imports = [m \in {} |-> <<>>]
  /\ pc = "idle"
  /\ link = "imports"
  /\ entries = <<>>
  /\ stack = <<>>
  /\ order = <<>>
  /\ depth = [m \in Module |-> 0]
  /\ chain = [m \in Module |-> <<>>]
  /\ cycle = <<>>
  /\ asked = <<>>

(* The graph changes between two walks.                                    *)
Change ==
  /\ pc = "idle"
  /\ WellFormed(imports')
  /\ UNCHANGED walkVars

(* InitializationOrderFor takes any entries, known or not.  The depths and *)
(* the longest paths are asked of one known module.                        *)
Begin(l, es) ==
  /\ pc = "idle"
  /\ l = "dependents" => Len(es) = 1 /\ es[1] \in Known
  /\ pc' = "walking"
  /\ link' = l
  /\ entries' = es
  /\ asked' = es
  /\ UNCHANGED <<imports, stack, order, depth, chain, cycle>>

VisitEntry ==
  /\ pc = "walking"
  /\ stack = <<>>
  /\ entries # <<>>
  /\ entries' = Tail(entries)
  /\ stack' = IF Head(entries) \in Visited THEN <<>> ELSE <<Enter(Head(entries))>>
  /\ UNCHANGED <<imports, pc, link, order, depth, chain, cycle, asked>>

(* k is the link of the module on top whose turn it is.                    *)
NextSlot(k) ==
  /\ pc = "walking"
  /\ stack # <<>>
  /\ k \in Top.rest
  /\ \A j \in Top.rest : k <= j

Taken(k) == [Top EXCEPT !.rest = @ \ {k}]

PassVisited(k) ==
  /\ NextSlot(k)
  /\ LET n == Target(imports, link, Top.module, k)
     IN  /\ n \in Visited
         /\ stack' = Append(Below, Accounted(Taken(k), depth[n], chain[n]))
  /\ UNCHANGED <<imports, pc, link, entries, order, depth, chain, cycle, asked>>

(* Mutant: a module that is being visited counts as visited.               *)
FindCyclePassed(k) ==
  /\ NextSlot(k)
  /\ Target(imports, link, Top.module, k) \in Active
  /\ stack' = Append(Below, Taken(k))
  /\ UNCHANGED <<imports, pc, link, entries, order, depth, chain, cycle, asked>>

(* Mutant: the cycle starts at the bottom of the stack.                    *)
FindCycleFromEntry(k) ==
  /\ NextSlot(k)
  /\ Target(imports, link, Top.module, k) \in Active \ Visited
  /\ cycle' = Append([j \in 1..Len(stack) |-> stack[j].module], Target(imports, link, Top.module, k))
  /\ pc' = "cycle"
  /\ UNCHANGED <<imports, link, entries, stack, order, depth, chain, asked>>

(* Mutant: an active module is visited again; the frames of its first      *)
(* visit, which nothing returns to, are left out.                          *)
FindCycleAgain(k) ==
  /\ NextSlot(k)
  /\ \E i \in 1..Len(stack) :
       /\ stack[i].module = Target(imports, link, Top.module, k)
       /\ stack' = Append(SubSeq(stack, 1, i - 1), Enter(stack[i].module))
  /\ UNCHANGED <<imports, pc, link, entries, order, depth, chain, cycle, asked>>

FindCycle(k) ==
  /\ NextSlot(k)
  /\ \E i \in 1..Len(stack) :
       /\ stack[i].module = Target(imports, link, Top.module, k)
       /\ cycle' = [j \in 1..(Len(stack) - i + 2) |->
                      IF j = Len(stack) - i + 2 THEN stack[i].module
                      ELSE stack[i + j - 1].module]
  /\ pc' = "cycle"
  /\ UNCHANGED <<imports, link, entries, stack, order, depth, chain, asked>>

VisitLinked(k) ==
  /\ NextSlot(k)
  /\ LET n == Target(imports, link, Top.module, k)
     IN  /\ n \notin Visited \cup Active
         /\ stack' = Below \o <<Taken(k), Enter(n)>>
  /\ UNCHANGED <<imports, pc, link, entries, order, depth, chain, cycle, asked>>

(* Mutant: a module is placed in the order when the walk enters it.        *)
LeaveFirst ==
  /\ pc = "walking"
  /\ stack # <<>>
  /\ Top.rest = {}
  /\ order' = <<Top.module>> \o order
  /\ depth' = [depth EXCEPT ![Top.module] = Top.depth]
  /\ chain' = [chain EXCEPT ![Top.module] = Top.chain]
  /\ stack' =
       IF Len(stack) = 1 THEN <<>>
       ELSE [Below EXCEPT ![Len(stack) - 1] = Accounted(@, Top.depth, Top.chain)]
  /\ UNCHANGED <<imports, pc, link, entries, cycle, asked>>

(* The module's loop is over: it is visited, and the one that called it    *)
(* goes on with what it returned.                                          *)
Leave ==
  /\ pc = "walking"
  /\ stack # <<>>
  /\ Top.rest = {}
  /\ order' = Append(order, Top.module)
  /\ depth' = [depth EXCEPT ![Top.module] = Top.depth]
  /\ chain' = [chain EXCEPT ![Top.module] = Top.chain]
  /\ stack' =
       IF Len(stack) = 1 THEN <<>>
       ELSE [Below EXCEPT ![Len(stack) - 1] = Accounted(@, Top.depth, Top.chain)]
  /\ UNCHANGED <<imports, pc, link, entries, cycle, asked>>

Finish ==
  /\ pc = "walking"
  /\ stack = <<>>
  /\ entries = <<>>
  /\ pc' = "ordered"
  /\ UNCHANGED <<imports, link, entries, stack, order, depth, chain, cycle, asked>>

(* The caller has its answer; the walk's maps were its own.                *)
Return ==
  /\ pc \in {"ordered", "cycle"}
  /\ pc' = "idle"
  /\ link' = "imports"
  /\ entries' = <<>>
  /\ stack' = <<>>
  /\ order' = <<>>
  /\ depth' = [m \in Module |-> 0]
  /\ chain' = [m \in Module |-> <<>>]
  /\ cycle' = <<>>
  /\ asked' = <<>>
  /\ UNCHANGED imports

WalkStep ==
  \/ VisitEntry
  \/ /\ stack # <<>>
     /\ \E k \in Top.rest : PassVisited(k) \/ FindCycle(k) \/ VisitLinked(k)
  \/ Leave
  \/ Finish

Ask == \E l \in Links, es \in Entries : Begin(l, es)

Next == Change \/ Ask \/ WalkStep \/ Return

Spec == Init /\ [][Next]_vars

----------------------------------------------------------------------------
Frame == [module : Module, rest : SUBSET Nat, depth : Nat, chain : Seq(Module)]

TypeOK ==
  /\ WellFormed(imports)
  /\ pc \in {"idle", "walking", "ordered", "cycle"}
  /\ link \in Links
  /\ entries \in Seq(Module)
  /\ stack \in Seq(Frame)
  /\ order \in Seq(Module)
  /\ depth \in [Module -> Nat]
  /\ chain \in [Module -> Seq(Module)]
  /\ cycle \in Seq(Module)
  /\ asked \in Seq(Module)

(* What cannot be left by following links.                                 *)
ClosedUnderLinks(S) == \A m \in S : Linked(imports, link, m) \subseteq S

(* The initialization order: every module is listed once, after all the    *)
(* modules it links to, at every moment of the walk; when the walk ends    *)
(* without a cycle it lists every entry and whatever can be reached from   *)
(* the entries, and it never lists anything else.                          *)
(* (visit, InitializationOrderFor)                                         *)
TopologicalOrder ==
  /\ \A i, j \in 1..Len(order) : order[i] = order[j] => i = j
  /\ \A i \in 1..Len(order) : \A n \in Linked(imports, link, order[i]) :
       \E j \in 1..(i - 1) : order[j] = n
  /\ pc = "ordered" => Elements(asked) \subseteq Visited
  /\ \A S \in SUBSET Module :
       Elements(asked) \subseteq S /\ ClosedUnderLinks(S) => Visited \subseteq S

(* What ImportCycleError names is a cycle: it ends where it starts, and    *)
(* each module of it links to the next.  (visit, dependencyDepth)          *)
CycleIsReal ==
  pc = "cycle" =>
    /\ Len(cycle) >= 2
    /\ cycle[1] = cycle[Len(cycle)]
    /\ IsPath(imports, link, cycle[1], Len(cycle) - 1, cycle)

(* A visited module's depth is the number of links on its longest path:    *)
(* the path kept is one of that length, along links, and no module it      *)
(* links to is as deep as it is.                                           *)
(* (dependencyDepth, longestDependencyPath and their reverses)             *)
DepthIsLongest ==
  \A m \in Visited :
    /\ IsPath(imports, link, m, depth[m], chain[m])
    /\ \A n \in Linked(imports, link, m) : depth[n] < depth[m]
====
