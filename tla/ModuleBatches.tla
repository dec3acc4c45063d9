---- MODULE ModuleBatches ----
(***************************************************************************)
(* The questions about depth in a module graph, and the batches of modules *)
(* that can be initialized together, which are its layers of equal depth.  *)
(* Then what all the questions of ModuleQueries and of this module must    *)
(* agree on.                                                               *)
(***************************************************************************)
EXTENDS ModuleQueries, FiniteSetsExt

DependencyDepth(g, m) ==
  IF ~HasModule(g, m) THEN Ok(0)
  ELSE LET w == WalkFrom(g, <<m>>) IN Unless(w, w.depth[m])

LongestDependencyPath(g, m) ==
  IF ~HasModule(g, m) THEN Ok(<<>>)
  ELSE LET w == WalkFrom(g, <<m>>) IN Unless(w, w.chain[m])

DependencyDepthMap(g) == InitializationEntryMap(g, LAMBDA m : DependencyDepth(g, m))

LongestDependencyPathMap(g) == InitializationEntryMap(g, LAMBDA m : LongestDependencyPath(g, m))

(* The modules whose depth passes a test, in ascending order.              *)
ModulesOfDepth(g, Test(_)) ==
  Answered(DependencyDepthMap(g),
           LAMBDA depths : SelectSeq(Modules(g), LAMBDA m : Test(depths[m])))

ModulesAtDependencyDepth(g, d) == ModulesOfDepth(g, LAMBDA x : x = d)

ModulesWithinDependencyDepth(g, d) == ModulesOfDepth(g, LAMBDA x : x <= d)

ModulesBeyondDependencyDepth(g, d) == ModulesOfDepth(g, LAMBDA x : x > d)

ModulesBetweenDependencyDepth(g, least, most) ==
  IF most < least THEN Ok(<<>>)
  ELSE ModulesOfDepth(g, LAMBDA x : least <= x /\ x <= most)

DependencyDepthGroups(g) ==
  Answered(DependencyDepthMap(g), LAMBDA depths :
    [d \in Range(depths) |-> SelectSeq(Modules(g), LAMBDA m : depths[m] = d)])

DependencyDepthLevels(g) ==
  Answered(DependencyDepthGroups(g), LAMBDA groups : Ascending(DOMAIN groups))

DependencyDepthLayers(g) ==
  Answered(DependencyDepthGroups(g), LAMBDA groups :
    [i \in 1..Cardinality(DOMAIN groups) |-> groups[Ascending(DOMAIN groups)[i]]])

DependencyDepthLayerWidths(g) ==
  Answered(DependencyDepthLayers(g), LAMBDA layers : [i \in 1..Len(layers) |-> Len(layers[i])])

DependencyDepthWidthMap(g) ==
  Answered(DependencyDepthGroups(g), LAMBDA groups : [d \in DOMAIN groups |-> Len(groups[d])])

(* The modules at the largest depth, and that depth.                       *)
DeepestDependencyModules(g) ==
  Answered(DependencyDepthMap(g), LAMBDA depths :
    LET deepest == IF DOMAIN depths = {} THEN 0 ELSE Max(Range(depths))
    IN  [modules |-> SelectSeq(Modules(g), LAMBDA m : depths[m] = deepest),
         depth |-> deepest])

(* The depths of the largest groups, and their size.                       *)
WidestDependencyDepths(g) ==
  Answered(DependencyDepthWidthMap(g), LAMBDA widths :
    LET widest == IF DOMAIN widths = {} THEN 0 ELSE Max(Range(widths))
    IN  [depths |-> Ascending({d \in DOMAIN widths : widths[d] = widest}),
         width |-> widest])

----------------------------------------------------------------------------
(* The same about dependents.                                              *)
DependentDepth(g, m) == DependencyDepth(DependentMap(g), m)

LongestDependentPath(g, m) == LongestDependencyPath(DependentMap(g), m)

DependentDepthMap(g) == DependencyDepthMap(DependentMap(g))

LongestDependentPathMap(g) == LongestDependencyPathMap(DependentMap(g))

ModulesAtDependentDepth(g, d) == ModulesAtDependencyDepth(DependentMap(g), d)

ModulesWithinDependentDepth(g, d) == ModulesWithinDependencyDepth(DependentMap(g), d)

ModulesBeyondDependentDepth(g, d) == ModulesBeyondDependencyDepth(DependentMap(g), d)

ModulesBetweenDependentDepth(g, least, most) ==
  ModulesBetweenDependencyDepth(DependentMap(g), least, most)

DependentDepthGroups(g) == DependencyDepthGroups(DependentMap(g))

DependentDepthLevels(g) == DependencyDepthLevels(DependentMap(g))

DependentDepthLayers(g) == DependencyDepthLayers(DependentMap(g))

DependentDepthLayerWidths(g) == DependencyDepthLayerWidths(DependentMap(g))

DependentDepthWidthMap(g) == DependencyDepthWidthMap(DependentMap(g))

DeepestDependentModules(g) == DeepestDependencyModules(DependentMap(g))

WidestDependentDepths(g) == WidestDependencyDepths(DependentMap(g))

----------------------------------------------------------------------------
(* Batches, of the whole graph, of an entry and of several entries.        *)
InitializationBatchesAll(g) == DependencyDepthLayers(g)

InitializationBatches(g, e) ==
  LET o == InitializationOrder(g, e)
  IN  IF o.failed THEN Failed ELSE DependencyDepthLayers(SubgraphOf(g, o.value))

InitializationBatchesFor(g, es) ==
  LET o == InitializationOrderFor(g, es)
  IN  IF o.failed THEN Failed ELSE DependencyDepthLayers(SubgraphOf(g, o.value))

InitializationBatchMap(g) == InitializationEntryMap(g, LAMBDA m : InitializationBatches(g, m))

InitializationBatchCountAll(g) == Answered(InitializationBatchesAll(g), Len)

InitializationBatchCount(g, e) == Answered(InitializationBatches(g, e), Len)

InitializationBatchCountFor(g, es) == Answered(InitializationBatchesFor(g, es), Len)

InitializationBatchCountMap(g) ==
  InitializationEntryMap(g, LAMBDA m : InitializationBatchCount(g, m))

(* Batches are numbered from zero.                                         *)
BatchIndexes(batches) ==
  [m \in UNION {ToSet(batches[i]) : i \in 1..Len(batches)} |->
     Max({i \in 1..Len(batches) : Contains(batches[i], m)}) - 1]

InitializationBatchIndexesAll(g) == Answered(InitializationBatchesAll(g), BatchIndexes)

InitializationBatchIndexes(g, e) == Answered(InitializationBatches(g, e), BatchIndexes)

InitializationBatchIndexesFor(g, es) == Answered(InitializationBatchesFor(g, es), BatchIndexes)

ContainSameBatch(batches, m, n) ==
  \E i \in 1..Len(batches) : {m, n} \subseteq ToSet(batches[i])

InitializesInSameBatchAll(g, m, n) ==
  Answered(InitializationBatchesAll(g), LAMBDA bs : ContainSameBatch(bs, m, n))

InitializesInSameBatch(g, e, m, n) ==
  Answered(InitializationBatches(g, e), LAMBDA bs : ContainSameBatch(bs, m, n))

InitializesInSameBatchFor(g, es, m, n) ==
  Answered(InitializationBatchesFor(g, es), LAMBDA bs : ContainSameBatch(bs, m, n))

BatchWidths(batches) == [i \in 1..Len(batches) |-> Len(batches[i])]

InitializationBatchWidthsAll(g) == DependencyDepthLayerWidths(g)

InitializationBatchWidths(g, e) == Answered(InitializationBatches(g, e), BatchWidths)

InitializationBatchWidthsFor(g, es) == Answered(InitializationBatchesFor(g, es), BatchWidths)

InitializationBatchWidthMap(g) ==
  InitializationEntryMap(g, LAMBDA m : InitializationBatchWidths(g, m))

(* The indexes of the best widths, and that width.                         *)
ExtremaIndexes(widths, Better(_, _)) ==
  LET best == {i \in 1..Len(widths) : \A j \in 1..Len(widths) : ~Better(widths[j], widths[i])}
  IN  IF widths = <<>> THEN [indexes |-> <<>>, width |-> 0]
      ELSE [indexes |-> Ascending({i - 1 : i \in best}), width |-> widths[Max(best)]]

Widest(widths) == ExtremaIndexes(widths, >)

Narrowest(widths) == ExtremaIndexes(widths, <)

WidestInitializationBatchesAll(g) == Answered(InitializationBatchWidthsAll(g), Widest)

WidestInitializationBatches(g, e) == Answered(InitializationBatchWidths(g, e), Widest)

WidestInitializationBatchesFor(g, es) == Answered(InitializationBatchWidthsFor(g, es), Widest)

WidestInitializationBatchMap(g) ==
  InitializationEntryMap(g, LAMBDA m : WidestInitializationBatches(g, m))

NarrowestInitializationBatchesAll(g) == Answered(InitializationBatchWidthsAll(g), Narrowest)

NarrowestInitializationBatches(g, e) == Answered(InitializationBatchWidths(g, e), Narrowest)

NarrowestInitializationBatchesFor(g, es) == Answered(InitializationBatchWidthsFor(g, es), Narrowest)

NarrowestInitializationBatchMap(g) ==
  InitializationEntryMap(g, LAMBDA m : NarrowestInitializationBatches(g, m))

WidthRange(widths) ==
  IF widths = <<>> THEN [min |-> 0, max |-> 0]
  ELSE [min |-> Min(ToSet(widths)), max |-> Max(ToSet(widths))]

InitializationBatchWidthRangeAll(g) == Answered(InitializationBatchWidthsAll(g), WidthRange)

InitializationBatchWidthRange(g, e) == Answered(InitializationBatchWidths(g, e), WidthRange)

InitializationBatchWidthRangeFor(g, es) == Answered(InitializationBatchWidthsFor(g, es), WidthRange)

----------------------------------------------------------------------------
(* What the questions are about, said without a walk: what can be reached  *)
(* is in every set that holds the start and is closed under imports.       *)
ClosedSets(g) ==
  {S \in SUBSET Module : \A m \in S : ToSet(Dependencies(g, m)) \subseteq S}

ReachableFrom(g, S) == {n \in Module : \A C \in ClosedSets(g) : S \subseteq C => n \in C}

OnCycle(g, m) == m \in ReachableFrom(g, ToSet(Dependencies(g, m)))

(* The questions are put when a walk begins, about the entries it is       *)
(* given; those about the whole graph, with the smallest entry.            *)
Asked == pc = "idle" /\ pc' = "walking" /\ link' = "imports"

OfTheWholeGraph == \E m \in Module : asked' = <<m>> /\ \A n \in Module : m <= n

Answering == pc = "walking" /\ pc' \in {"ordered", "cycle"}

(* A question about the whole graph is the one about all modules as        *)
(* entries, one about an entry is the one about a list of one, and a map   *)
(* holds the answer for every module or fails with one of them.            *)
SameAnswer(a, b) == a.failed = b.failed /\ (~a.failed => a.value = b.value)

IsMapOf(g, answer, Ask1(_)) ==
  /\ answer.failed <=> \E m \in DOMAIN g : Ask1(m).failed
  /\ ~answer.failed => answer.value = [m \in DOMAIN g |-> Ask1(m).value]

OrdersOf(g, es) ==
  LET o == InitializationOrderFor(g, es)
      there == ReachableFrom(g, ToSet(es))
      dependencies == there \ ToSet(es)
  IN  /\ o.failed <=> \E m \in there : OnCycle(g, m)
      /\ o.failed = ReachableModulesFor(g, es).failed
      /\ ~o.failed =>
           /\ \A m \in there : \A n \in ToSet(Dependencies(g, m)) :
                /\ InitializesBeforeFor(g, es, n, m).value
                /\ InitializesAfterFor(g, es, m, n).value
                /\ ~InitializesBeforeFor(g, es, m, n).value
           /\ \A m \in Module :
                LET p == InitializationOrderPositionFor(g, es, m).value
                IN  IF m \in there THEN p.found /\ o.value[p.place + 1] = m ELSE ~p.found
           /\ ReachableModulesFor(g, es).value = Ascending(there)
           /\ ReachableModuleSetFor(g, es).value = there
           /\ ReachableModuleCountFor(g, es).value = Cardinality(there)
           /\ Len(ReachableModuleOrderFor(g, es).value) = Cardinality(there)
           /\ \A m \in Module :
                /\ ReachesModuleFor(g, es, m).value <=> m \in there
                /\ TransitivelyDependsOnFor(g, es, m).value <=> m \in dependencies
           /\ TransitiveDependencySetFor(g, es).value = dependencies
           /\ TransitiveDependencyCountFor(g, es).value = Cardinality(dependencies)

OrdersOfOne(g, e) ==
  /\ SameAnswer(InitializationOrder(g, e), InitializationOrderFor(g, <<e>>))
  /\ SameAnswer(InitializationOrderPositions(g, e), InitializationOrderPositionsFor(g, <<e>>))
  /\ SameAnswer(ReachableModules(g, e), ReachableModulesFor(g, <<e>>))
  /\ SameAnswer(ReachableModuleSet(g, e), ReachableModuleSetFor(g, <<e>>))
  /\ SameAnswer(ReachableModuleCount(g, e), ReachableModuleCountFor(g, <<e>>))
  /\ SameAnswer(TransitiveDependencies(g, e), TransitiveDependenciesFor(g, <<e>>))
  /\ SameAnswer(TransitiveDependencySet(g, e), TransitiveDependencySetFor(g, <<e>>))
  /\ SameAnswer(TransitiveDependencyCount(g, e), TransitiveDependencyCountFor(g, <<e>>))
  /\ \A m, n \in Module :
       /\ SameAnswer(InitializesBefore(g, e, m, n), InitializesBeforeFor(g, <<e>>, m, n))
       /\ SameAnswer(InitializesAfter(g, e, n, m), InitializesBefore(g, e, m, n))
  /\ \A m \in Module :
       /\ SameAnswer(InitializationOrderPosition(g, e, m),
                     InitializationOrderPositionFor(g, <<e>>, m))
       /\ SameAnswer(ReachesModule(g, e, m), ReachesModuleFor(g, <<e>>, m))
       /\ SameAnswer(TransitivelyDependsOn(g, e, m), TransitivelyDependsOnFor(g, <<e>>, m))

OrderMaps(g) ==
  /\ IsMapOf(g, InitializationOrderMap(g), LAMBDA m : InitializationOrder(g, m))
  /\ IsMapOf(g, InitializationOrderPositionMap(g), LAMBDA m : InitializationOrderPositions(g, m))
  /\ IsMapOf(g, ReachableModuleMap(g), LAMBDA m : ReachableModules(g, m))
  /\ IsMapOf(g, ReachableModuleSetMap(g), LAMBDA m : ReachableModuleSet(g, m))
  /\ IsMapOf(g, ReachableModuleCountMap(g), LAMBDA m : ReachableModuleCount(g, m))
  /\ IsMapOf(g, ReachableModuleOrderMap(g), LAMBDA m : ReachableModuleOrder(g, m))
  /\ IsMapOf(g, TransitiveDependencyMap(g), LAMBDA m : TransitiveDependencies(g, m))
  /\ IsMapOf(g, TransitiveDependencySetMap(g), LAMBDA m : TransitiveDependencySet(g, m))
  /\ IsMapOf(g, TransitiveDependencyCountMap(g), LAMBDA m : TransitiveDependencyCount(g, m))

OrdersOfAll(g) ==
  /\ IsAcyclic(g) <=> \A m \in DOMAIN g : ~OnCycle(g, m)
  /\ IsAcyclic(g) =>
       /\ ToSet(InitializationOrderAll(g).value) = DOMAIN g
       /\ \A m \in DOMAIN g : \A n \in ToSet(g[m]) :
            /\ InitializesBeforeAll(g, n, m).value
            /\ InitializesAfterAll(g, m, n).value
       /\ \A m \in DOMAIN g :
            InitializationOrderAll(g).value[InitializationOrderPositionAll(g, m).value.place + 1] = m

(* Layers of a graph without cycles: each module is in one, as early as    *)
(* what it links to allows, and the counts by depth are counts of layers.  *)
LayersOf(g) ==
  LET depths == DependencyDepthMap(g).value
      layers == DependencyDepthLayers(g).value
  IN  /\ \A m \in DOMAIN g :
           /\ \A n \in ToSet(g[m]) : depths[n] < depths[m]
           /\ depths[m] > 0 => \E n \in ToSet(g[m]) : depths[n] = depths[m] - 1
           /\ Len(LongestDependencyPathMap(g).value[m]) = depths[m] + 1
           /\ Contains(layers[depths[m] + 1], m)
           /\ DependencyDepthGroups(g).value[depths[m]] = layers[depths[m] + 1]
      /\ \A i \in 1..Len(layers) :
           /\ layers[i] # <<>>
           /\ DependencyDepthLevels(g).value[i] = i - 1
           /\ ModulesAtDependencyDepth(g, i - 1).value = layers[i]
           /\ ModulesBetweenDependencyDepth(g, i - 1, i - 1).value = layers[i]
           /\ DependencyDepthWidthMap(g).value[i - 1] = Len(layers[i])
      /\ \A d \in 0..Cardinality(Module) :
           Ascending(ToSet(ModulesWithinDependencyDepth(g, d).value)
                     \cup ToSet(ModulesBeyondDependencyDepth(g, d).value)) = Modules(g)
      /\ SumFunction(DependencyDepthLayerWidths(g).value) = ModuleCount(g)
      /\ DOMAIN g # {} =>
           /\ DeepestDependencyModules(g).value.modules = Last(layers)
           /\ DeepestDependencyModules(g).value.depth = Len(layers) - 1
           /\ \A d \in ToSet(WidestDependencyDepths(g).value.depths) :
                Len(layers[d + 1]) = WidestDependencyDepths(g).value.width

SameBatches(g, es, whole) ==
  LET batches == InitializationBatchesFor(g, es)
      indexes == InitializationBatchIndexesFor(g, es).value
      widths == InitializationBatchWidthsFor(g, es).value
      range == InitializationBatchWidthRangeFor(g, es).value
      widest == WidestInitializationBatchesFor(g, es).value
      narrowest == NarrowestInitializationBatchesFor(g, es).value
  IN  /\ batches.failed = InitializationOrderFor(g, es).failed
      /\ ~batches.failed =>
           /\ DOMAIN indexes = ReachableFrom(g, ToSet(es))
           /\ \A m \in DOMAIN indexes :
                /\ Contains(batches.value[indexes[m] + 1], m)
                /\ whole => indexes[m] = InitializationBatchIndexesAll(g).value[m]
                /\ \A n \in ToSet(Dependencies(g, m)) : indexes[n] < indexes[m]
                /\ indexes[m] > 0 =>
                     \E n \in ToSet(Dependencies(g, m)) : indexes[n] = indexes[m] - 1
                /\ \A n \in DOMAIN indexes :
                     InitializesInSameBatchFor(g, es, m, n).value <=> indexes[m] = indexes[n]
           /\ InitializationBatchCountFor(g, es).value = Len(widths)
           /\ SumFunction(widths) = Cardinality(DOMAIN indexes)
           /\ widest.width = range.max /\ narrowest.width = range.min
           /\ \A i \in 1..Len(widths) :
                /\ range.min <= widths[i] /\ widths[i] <= range.max
                /\ widths[i] = range.max <=> Contains(widest.indexes, i - 1)
                /\ widths[i] = range.min <=> Contains(narrowest.indexes, i - 1)

BatchesOfOne(g, e) ==
  /\ SameAnswer(InitializationBatches(g, e), InitializationBatchesFor(g, <<e>>))
  /\ SameAnswer(InitializationBatchIndexes(g, e), InitializationBatchIndexesFor(g, <<e>>))
  /\ SameAnswer(InitializationBatchCount(g, e), InitializationBatchCountFor(g, <<e>>))
  /\ SameAnswer(InitializationBatchWidthRange(g, e), InitializationBatchWidthRangeFor(g, <<e>>))
  /\ \A m, n \in Module :
       SameAnswer(InitializesInSameBatch(g, e, m, n), InitializesInSameBatchFor(g, <<e>>, m, n))

BatchMaps(g) ==
  /\ IsMapOf(g, InitializationBatchMap(g), LAMBDA m : InitializationBatchesFor(g, <<m>>))
  /\ IsMapOf(g, InitializationBatchCountMap(g), LAMBDA m : InitializationBatchCountFor(g, <<m>>))
  /\ IsMapOf(g, InitializationBatchWidthMap(g), LAMBDA m : InitializationBatchWidthsFor(g, <<m>>))
  /\ IsMapOf(g, WidestInitializationBatchMap(g),
             LAMBDA m : WidestInitializationBatchesFor(g, <<m>>))
  /\ IsMapOf(g, NarrowestInitializationBatchMap(g),
             LAMBDA m : NarrowestInitializationBatchesFor(g, <<m>>))

BatchesOfAll(g) ==
  LET es == Modules(g)
  IN  /\ SameBatches(g, es, TRUE)
      /\ SameAnswer(InitializationBatchesAll(g), InitializationBatchesFor(g, es))
      /\ SameAnswer(InitializationBatchCountAll(g), InitializationBatchCountFor(g, es))
      /\ SameAnswer(InitializationBatchWidthRangeAll(g), InitializationBatchWidthRangeFor(g, es))
      /\ SameAnswer(WidestInitializationBatchesAll(g), WidestInitializationBatchesFor(g, es))
      /\ SameAnswer(NarrowestInitializationBatchesAll(g), NarrowestInitializationBatchesFor(g, es))
      /\ \A m, n \in Module :
           SameAnswer(InitializesInSameBatchAll(g, m, n), InitializesInSameBatchFor(g, es, m, n))

DependentLayers(g) ==
  /\ LayersOf(DependentMap(g))
  /\ Len(DependentDepthLayers(g).value) = Len(DependencyDepthLayers(g).value)
  /\ DeepestDependentModules(g).value.depth = DeepestDependencyModules(g).value.depth
  /\ \A m \in DOMAIN g :
       DependentDepth(g, m).value + DependencyDepth(g, m).value
         <= DeepestDependencyModules(g).value.depth

(* "Dependency-ready batches": a module is in the batch right after the    *)
(* last batch that holds one of its imports, whichever entries were named, *)
(* so that a batch needs nothing but the batches before it.  Batches, of   *)
(* the whole graph, of an entry or of several, are the layers of equal     *)
(* depth, and every summary of them is a summary of these.  The longest    *)
(* way up from a module makes layers too, and the two sides have as many.  *)
(* (InitializationBatchesFor, DependencyDepthLayers, DependentDepth)       *)
BatchesReady ==
  [][Asked =>
       /\ SameBatches(imports, asked', FALSE)
       /\ Len(asked') = 1 => BatchesOfOne(imports, asked'[1])
       /\ OfTheWholeGraph =>
            /\ BatchMaps(imports)
            /\ BatchesOfAll(imports)
            /\ DependentDepthMap(imports).failed <=> ~IsAcyclic(imports)
            /\ IsAcyclic(imports) => LayersOf(imports) /\ DependentLayers(imports)
    ]_vars

ImportersOf(g, m) == {d \in DOMAIN g \ {m} : m \in ReachableFrom(g, {d})}

DependentsOfSeveral(g, ms) ==
  LET any == UNION {ImportersOf(g, m) : m \in ToSet(ms)}
  IN  /\ TransitiveDependentsFor(g, ms) = Ascending(any)
      /\ TransitiveDependentSetFor(g, ms) = any
      /\ TransitiveDependentCountFor(g, ms) = Cardinality(any)
      /\ \A d \in Module : TransitivelyDependedOnByFor(g, ms, d) <=> d \in any

DependentsOfOne(g, m) ==
  /\ TransitiveDependentSet(g, m) = ImportersOf(g, m)
  /\ TransitiveDependentCount(g, m) = Cardinality(ImportersOf(g, m))
  /\ \A d \in Module :
       /\ TransitivelyDependedOnBy(g, m, d) <=> d \in ImportersOf(g, m)
       /\ Contains(Dependents(g, m), d) <=> DependsOn(g, d, m)

DependentMaps(g) ==
  \A m \in DOMAIN g :
    /\ ToSet(TransitiveDependentMap(g)[m]) = ImportersOf(g, m)
    /\ TransitiveDependentSetMap(g)[m] = ImportersOf(g, m)
    /\ TransitiveDependentCountMap(g)[m] = Cardinality(ImportersOf(g, m))
    /\ Contains(RootModules(g), m) <=> DependentCountMap(g)[m] = 0
    /\ Contains(LeafModules(g), m) <=> DependencyCountMap(g)[m] = 0
    /\ Contains(IsolatedModules(g), m) <=> IsRootModule(g, m) /\ IsLeafModule(g, m)

(* A graph can be taken apart and put together again: from its map of      *)
(* imports in any order, from its sorted edges, and, but for repeated      *)
(* imports, from its map of dependents; a clone is the same graph.         *)
RoundTrips(g) ==
  LET linked == {m \in DOMAIN g : DependencyCount(g, m) + DependentCount(g, m) > 0}
      edges == FromEdges(ImportEdges(g))
      dependents == FromDependents(DependentMap(g))
  IN  /\ Clone(g) = g
      /\ \A keys \in SetToSeqs(DOMAIN g) : FromImports(ImportMap(g), keys) = g
      /\ DOMAIN edges = linked
      /\ \A m \in linked : SortSeq(edges[m], <) = SortSeq(g[m], <)
      /\ Len(ImportEdges(g)) = ImportEdgeCount(g)
      /\ DOMAIN dependents = DOMAIN g
      /\ \A m \in DOMAIN g : dependents[m] = Ascending(ToSet(g[m]))
      /\ \A m \in DOMAIN g : Compact(g[m]) = <<>> <=> g[m] = <<>>

(* Every question about orders and reachable modules fails exactly when a  *)
(* cycle can be reached from the entries it is about, and otherwise says   *)
(* what can be reached, dependencies before dependents; the dependents'    *)
(* side is the same turned round, cycles or not, and from either side the  *)
(* graph can be put together again; and the walk of the state machine      *)
(* gives the answer of the recursive function, depths, longest paths and   *)
(* cycle included.                                                         *)
(* (InitializationOrderFor, ReachableSubgraphFor, TransitiveDependencies,  *)
(* TransitiveDependents, NewModuleGraphFromImports,                        *)
(* NewModuleGraphFromEdges, NewModuleGraphFromDependents)                  *)
OrderQuestions ==
  [][/\ Asked =>
          /\ OrdersOf(imports, asked')
          /\ DependentsOfSeveral(imports, asked')
          /\ Len(asked') = 1 => OrdersOfOne(imports, asked'[1])
          /\ OfTheWholeGraph =>
               /\ OrderMaps(imports) /\ OrdersOfAll(imports)
               /\ \A m \in Module : DependentsOfOne(imports, m)
               /\ DependentMaps(imports) /\ RoundTrips(imports)
     /\ Answering =>
          LET w == WalkFrom(IF link = "imports" THEN imports ELSE DependentMap(imports), asked)
          IN  /\ w.cycle = cycle'
              /\ pc' = "ordered" =>
                   /\ w.order = order
                   /\ \A m \in Visited : w.depth[m] = depth[m] /\ w.chain[m] = chain[m]
    ]_vars

(* A walk ends, whatever the cycles of the graph.  (visit)                 *)
WalkEnds == pc = "walking" ~> pc \in {"ordered", "cycle"}
====
