---- MODULE ModuleQueries ----
(***************************************************************************)
(* The questions about a module graph that walk it: orders, reachable      *)
(* modules, depths, batches, and their maps.  A question that meets a      *)
(* cycle fails; the others answer Ok.  The questions about dependents are  *)
(* those about dependencies asked of DependentMap(g), the graph with every *)
(* link turned round and the importers sorted.                             *)
(***************************************************************************)
EXTENDS ModuleGraph

Ok(v) == [failed |-> FALSE, value |-> v]

Failed == [failed |-> TRUE, value |-> <<>>]

Answered(answer, F(_)) == IF answer.failed THEN answer ELSE Ok(F(answer.value))

(* The same question of every module: it fails if one of them does.        *)
InitializationEntryMap(g, Resolve(_)) ==
  LET answers == [m \in DOMAIN g |-> Resolve(m)]
  IN  IF \E m \in DOMAIN g : answers[m].failed THEN Failed
      ELSE Ok([m \in DOMAIN g |-> answers[m].value])

----------------------------------------------------------------------------
(* The walk as the recursive function it is in the code: w carries the     *)
(* visited modules with their depths and longest paths, the active ones    *)
(* and the cycle.                                                          *)
NewWalk ==
  [order |-> <<>>, depth |-> <<>>, chain |-> <<>>, stack |-> <<>>, cycle |-> <<>>]

LongestLink(g, m, w) ==
  FoldLeft(LAMBDA best, n :
             IF w.depth[n] + 1 > best.depth
             THEN [depth |-> w.depth[n] + 1, chain |-> <<m>> \o w.chain[n]]
             ELSE best,
           [depth |-> 0, chain |-> <<m>>], Dependencies(g, m))

RECURSIVE Walk(_, _, _)
Walk(g, m, w) ==
  LET inner ==
        FoldLeft(LAMBDA v, n : Walk(g, n, v),
                 [w EXCEPT !.stack = Append(@, m)], Dependencies(g, m))
      longest == LongestLink(g, m, inner)
  IN  CASE w.cycle # <<>> \/ Contains(w.order, m) -> w
        [] Contains(w.stack, m) ->
             [w EXCEPT !.cycle =
                Append(SubSeq(w.stack, SelectInSeq(w.stack, LAMBDA x : x = m),
                              Len(w.stack)), m)]
        [] OTHER ->
             IF inner.cycle # <<>> THEN inner
             ELSE [inner EXCEPT !.order = Append(@, m),
                                !.depth = (m :> longest.depth) @@ @,
                                !.chain = (m :> longest.chain) @@ @,
                                !.stack = Front(@)]

WalkFrom(g, es) == FoldLeft(LAMBDA w, m : Walk(g, m, w), NewWalk, es)

Unless(w, v) == IF w.cycle # <<>> THEN Failed ELSE Ok(v)

----------------------------------------------------------------------------
(* Orders.                                                                 *)
InitializationOrderFor(g, es) == LET w == WalkFrom(g, es) IN Unless(w, w.order)

InitializationOrder(g, m) == InitializationOrderFor(g, <<m>>)

InitializationOrderAll(g) == InitializationOrderFor(g, Modules(g))

InitializationOrderMap(g) == InitializationEntryMap(g, LAMBDA m : InitializationOrder(g, m))

IsAcyclic(g) == ~InitializationOrderAll(g).failed

PositionsIn(s) == [m \in ToSet(s) |-> SelectInSeq(s, LAMBDA x : x = m) - 1]

InitializationOrderPositions(g, m) == Answered(InitializationOrder(g, m), PositionsIn)

InitializationOrderPositionsFor(g, es) == Answered(InitializationOrderFor(g, es), PositionsIn)

InitializationOrderPositionsAll(g) == InitializationOrderPositionsFor(g, Modules(g))

InitializationOrderPositionMap(g) ==
  InitializationEntryMap(g, LAMBDA m : InitializationOrderPositions(g, m))

(* The position, or the absence the code returns as FALSE.                 *)
PositionOf(positions, m) ==
  IF m \in DOMAIN positions THEN [place |-> positions[m], found |-> TRUE]
  ELSE [place |-> 0, found |-> FALSE]

InitializationOrderPosition(g, e, m) ==
  Answered(InitializationOrderPositions(g, e), LAMBDA ps : PositionOf(ps, m))

InitializationOrderPositionFor(g, es, m) ==
  Answered(InitializationOrderPositionsFor(g, es), LAMBDA ps : PositionOf(ps, m))

InitializationOrderPositionAll(g, m) ==
  Answered(InitializationOrderPositionsAll(g), LAMBDA ps : PositionOf(ps, m))

PositionsBefore(positions, before, after) ==
  /\ {before, after} \subseteq DOMAIN positions
  /\ positions[before] < positions[after]

InitializesBefore(g, e, before, after) ==
  Answered(InitializationOrderPositions(g, e), LAMBDA ps : PositionsBefore(ps, before, after))

InitializesBeforeFor(g, es, before, after) ==
  Answered(InitializationOrderPositionsFor(g, es), LAMBDA ps : PositionsBefore(ps, before, after))

InitializesBeforeAll(g, before, after) ==
  Answered(InitializationOrderPositionsAll(g), LAMBDA ps : PositionsBefore(ps, before, after))

InitializesAfter(g, e, after, before) == InitializesBefore(g, e, before, after)

InitializesAfterFor(g, es, after, before) == InitializesBeforeFor(g, es, before, after)

InitializesAfterAll(g, after, before) == InitializesBeforeAll(g, before, after)

----------------------------------------------------------------------------
(* Reachable modules.                                                      *)
(* Mutant: the subgraph keeps the imports of all known modules.            *)
SubgraphOfKnown(g, o) ==
  FoldLeft(LAMBDA h, m : WithModule(h, m, <<>>), NewModuleGraph, o)

(* The modules of an order, with the imports among them.                   *)
SubgraphOf(g, o) ==
  FoldLeft(LAMBDA h, m :
             WithModule(h, m, SelectSeq(Dependencies(g, m), LAMBDA n : Contains(o, n))),
           NewModuleGraph, o)

ReachableSubgraph(g, m) == Answered(InitializationOrder(g, m), LAMBDA o : SubgraphOf(g, o))

ReachableSubgraphFor(g, es) ==
  Answered(InitializationOrderFor(g, es), LAMBDA o : SubgraphOf(g, o))

ReachableModules(g, m) == Answered(ReachableSubgraph(g, m), Modules)

ReachableModulesFor(g, es) == Answered(ReachableSubgraphFor(g, es), Modules)

ReachableModuleOrder(g, m) == InitializationOrder(g, m)

ReachableModuleOrderFor(g, es) == InitializationOrderFor(g, es)

ReachableModuleCount(g, m) == Answered(ReachableSubgraph(g, m), ModuleCount)

ReachableModuleCountFor(g, es) == Answered(ReachableSubgraphFor(g, es), ModuleCount)

ReachableModuleSet(g, m) == Answered(ReachableModules(g, m), ToSet)

ReachableModuleSetFor(g, es) == Answered(ReachableModulesFor(g, es), ToSet)

ReachesModule(g, m, n) == Answered(ReachableModuleSet(g, m), LAMBDA s : n \in s)

ReachesModuleFor(g, es, n) == Answered(ReachableModuleSetFor(g, es), LAMBDA s : n \in s)

ReachableModuleMap(g) == InitializationEntryMap(g, LAMBDA m : ReachableModules(g, m))

ReachableModuleCountMap(g) == InitializationEntryMap(g, LAMBDA m : ReachableModuleCount(g, m))

ReachableModuleOrderMap(g) == InitializationEntryMap(g, LAMBDA m : ReachableModuleOrder(g, m))

ReachableModuleSetMap(g) == InitializationEntryMap(g, LAMBDA m : ReachableModuleSet(g, m))

(* Without the entries themselves, in the order of initialization.         *)
TransitiveDependenciesFor(g, es) ==
  Answered(InitializationOrderFor(g, es),
           LAMBDA o : SelectSeq(o, LAMBDA m : ~Contains(es, m)))

TransitiveDependencies(g, m) ==
  Answered(InitializationOrder(g, m), LAMBDA o : SelectSeq(o, LAMBDA x : x # m))

TransitiveDependencyCount(g, m) == Answered(TransitiveDependencies(g, m), Len)

TransitiveDependencyCountFor(g, es) == Answered(TransitiveDependenciesFor(g, es), Len)

TransitiveDependencySet(g, m) == Answered(TransitiveDependencies(g, m), ToSet)

TransitiveDependencySetFor(g, es) == Answered(TransitiveDependenciesFor(g, es), ToSet)

TransitivelyDependsOn(g, m, n) ==
  Answered(TransitiveDependencies(g, m), LAMBDA ds : Contains(ds, n))

TransitivelyDependsOnFor(g, es, n) ==
  Answered(TransitiveDependenciesFor(g, es), LAMBDA ds : Contains(ds, n))

TransitiveDependencyMap(g) == InitializationEntryMap(g, LAMBDA m : TransitiveDependencies(g, m))

TransitiveDependencyCountMap(g) ==
  InitializationEntryMap(g, LAMBDA m : TransitiveDependencyCount(g, m))

TransitiveDependencySetMap(g) ==
  InitializationEntryMap(g, LAMBDA m : TransitiveDependencySet(g, m))

(* Dependents are listed as they are met; a cycle is no error here.        *)
RECURSIVE Importers(_, _, _)
Importers(g, m, met) ==
  FoldLeft(LAMBDA seen, n : IF Contains(seen, n) THEN seen ELSE Importers(g, n, Append(seen, n)),
           met, Dependents(g, m))

TransitiveDependents(g, m) == Tail(Importers(g, m, <<m>>))

TransitiveDependentsFor(g, ms) ==
  Ascending(UNION {ToSet(TransitiveDependents(g, m)) : m \in ToSet(ms)})

TransitiveDependentCount(g, m) == Len(TransitiveDependents(g, m))

TransitiveDependentCountFor(g, ms) == Len(TransitiveDependentsFor(g, ms))

TransitiveDependentSet(g, m) == ToSet(TransitiveDependents(g, m))

TransitiveDependentSetFor(g, ms) == ToSet(TransitiveDependentsFor(g, ms))

TransitivelyDependedOnBy(g, m, d) == Contains(TransitiveDependents(g, m), d)

TransitivelyDependedOnByFor(g, ms, d) == Contains(TransitiveDependentsFor(g, ms), d)

TransitiveDependentMap(g) == [m \in DOMAIN g |-> TransitiveDependents(g, m)]

TransitiveDependentCountMap(g) == [m \in DOMAIN g |-> TransitiveDependentCount(g, m)]

TransitiveDependentSetMap(g) == [m \in DOMAIN g |-> TransitiveDependentSet(g, m)]
====
