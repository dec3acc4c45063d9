---- MODULE ModuleGraph ----
(***************************************************************************)
(* The resolver's module graph: the operations that edit it, and every     *)
(* question that can be asked of it.  Names, maps of names and sorted      *)
(* lists of names are numbers, functions and ascending sequences; a        *)
(* question that fails with an ImportCycleError answers Cyclic.            *)
(*                                                                         *)
(* The walks run as the state machine of ModuleWalk.  The questions built  *)
(* on them are operators on a graph g, which walk recursively as the code  *)
(* does.                                                                   *)
(***************************************************************************)
EXTENDS ModuleWalk, SequencesExt

CONSTANTS
  MaxEdges,     (* import edges of a graph, repeated ones counted            *)
  ImportLists   (* the lists AddModule is given                              *)

ASSUME GraphAssumption == ImportLists \subseteq Seq(Module)

----------------------------------------------------------------------------
(* Inspection.                                                             *)
HasModule(g, m) == m \in DOMAIN g

Ascending(S) == SetToSortSeq(S, <)

Modules(g) == Ascending(DOMAIN g)

Dependencies(g, m) == IF HasModule(g, m) THEN g[m] ELSE <<>>

DependsOn(g, m, n) == n \in ToSet(Dependencies(g, m))

Dependents(g, m) == Ascending({x \in DOMAIN g : DependsOn(g, x, m)})

RootModules(g) == SelectSeq(Modules(g), LAMBDA m : Dependents(g, m) = <<>>)

LeafModules(g) == SelectSeq(Modules(g), LAMBDA m : g[m] = <<>>)

IsRootModule(g, m) == HasModule(g, m) /\ Dependents(g, m) = <<>>

IsLeafModule(g, m) == HasModule(g, m) /\ g[m] = <<>>

IsIsolatedModule(g, m) == IsRootModule(g, m) /\ IsLeafModule(g, m)

IsolatedModules(g) == SelectSeq(Modules(g), LAMBDA m : IsIsolatedModule(g, m))

ModuleCount(g) == Cardinality(DOMAIN g)

DependencyCount(g, m) == Len(Dependencies(g, m))

DependentCount(g, m) == Len(Dependents(g, m))

ImportEdgeCount(g) == SumFunction([m \in DOMAIN g |-> Len(g[m])])

DependencyCountMap(g) == [m \in DOMAIN g |-> DependencyCount(g, m)]

DependentCountMap(g) == [m \in DOMAIN g |-> DependentCount(g, m)]

DependentMap(g) == [m \in DOMAIN g |-> Dependents(g, m)]

ImportMap(g) == [m \in DOMAIN g |-> g[m]]

(* Sorted by importer and then by what it imports.                         *)
ImportEdges(g) ==
  LET edges(m) == [i \in 1..Len(g[m]) |-> [from |-> m, to |-> SortSeq(g[m], <)[i]]]
  IN  FlattenSeq([i \in 1..ModuleCount(g) |-> edges(Modules(g)[i])])

----------------------------------------------------------------------------
(* The edits, on a graph g.                                                *)
NewModuleGraph == [m \in {} |-> <<>>]

(* Mutant: what is imported is not registered.                             *)
WithModuleAlone(g, m, is) == (m :> is) @@ g

WithModule(g, m, is) ==
  [x \in DOMAIN g \cup {m} \cup ToSet(is) |->
     IF x = m THEN is ELSE Dependencies(g, x)]

WithImport(g, m, n) == WithModule(g, m, Append(Dependencies(g, m), n))

(* What a loop that appends the elements at the places P keeps of a list.  *)
Kept(is, P) ==
  LET kept[i \in 0..Len(is)] ==
        IF i = 0 THEN <<>>
        ELSE IF i \in P THEN Append(kept[i - 1], is[i]) ELSE kept[i - 1]
  IN  kept[Len(is)]

OtherPlaces(is, n) == {i \in DOMAIN is : is[i] # n}
FirstPlaces(is) == {i \in DOMAIN is : \A j \in 1..(i - 1) : is[j] # is[i]}

WithoutImport(g, m, n) == [g EXCEPT ![m] = RemoveFirst(@, n)]

WithoutAllImports(g, m, n) == [g EXCEPT ![m] = Kept(@, OtherPlaces(@, n))]

(* Mutant: an importer forgets a removed module once.                      *)
WithoutModuleOnce(g, m) ==
  [x \in DOMAIN g \ {m} |-> RemoveFirst(g[x], m)]

WithoutModule(g, m) ==
  [x \in DOMAIN g \ {m} |-> WithoutAllImports(g, x, m)[x]]

ClearedImports(g, m) == [g EXCEPT ![m] = <<>>]

Compact(is) == Kept(is, FirstPlaces(is))

Clone(g) == [m \in DOMAIN g |-> g[m]]

FromEdges(edges) ==
  FoldLeft(LAMBDA g, e : WithImport(g, e.from, e.to), NewModuleGraph, edges)

FromDependents(dependents) ==
  LET keys == Ascending(DOMAIN dependents)
      importing(m) ==
        [i \in 1..Len(dependents[m]) |-> [from |-> dependents[m][i], to |-> m]]
      known == FoldLeft(LAMBDA g, m : WithModule(g, m, <<>>), NewModuleGraph, keys)
  IN  FoldLeft(LAMBDA g, e : WithImport(g, e.from, e.to), known,
               FlattenSeq([i \in 1..Len(keys) |-> importing(keys[i])]))

(* The map is ranged over in any order.                                    *)
FromImports(is, keys) ==
  FoldLeft(LAMBDA g, m : WithModule(g, m, is[m]), NewModuleGraph, keys)

(* Nothing is edited while a walk reads the graph.                         *)
Edit(g) ==
  /\ pc = "idle"
  /\ ImportEdgeCount(g) <= MaxEdges
  /\ imports' = g
  /\ UNCHANGED walkVars

AddModule(m, is) == Edit(WithModule(imports, m, is))

AddCompactModule(m, is) == Edit(WithModule(imports, m, Compact(is)))

AddImport(m, n) == Edit(WithImport(imports, m, n))

RemoveImport(m, n) == DependsOn(imports, m, n) /\ Edit(WithoutImport(imports, m, n))

RemoveAllImports(m, n) == m \in Known /\ Edit(WithoutAllImports(imports, m, n))

RemoveModule(m) == m \in Known /\ Edit(WithoutModule(imports, m))

ClearImports(m) == m \in Known /\ Edit(ClearedImports(imports, m))

EditStep ==
  \E m \in Module :
    \/ \E is \in ImportLists : AddModule(m, is) \/ AddCompactModule(m, is)
    \/ \E n \in Module : AddImport(m, n) \/ RemoveImport(m, n) \/ RemoveAllImports(m, n)
    \/ RemoveModule(m)
    \/ ClearImports(m)

GraphNext == EditStep \/ Ask \/ WalkStep \/ Return

(* A walk is a loop of one goroutine that nothing stops.                   *)
GraphSpec == Init /\ [][GraphNext]_vars /\ WF_vars(WalkStep)

(* Every edit leaves a graph that knows all the modules it imports, and    *)
(* touches nothing a walk is reading: the graph and its walks implement    *)
(* ModuleWalk, whose walks are proved right for every such graph.          *)
(* (AddModule, AddImport, RemoveModule, RemoveAllImports)                  *)
ImplementsWalk == Spec
====
