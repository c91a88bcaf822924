SPECIFICATION FairSpec
CONSTANTS
  Modules <- ModuleNames
  Core = "core"
  Order <- ModuleOrder
  Dependencies <- DependencyTable
  Blockers <- BlockerTable
  InitLoads <- LowerModules
  Rank <- LayerOf
  Unordered <- UnorderedPairs
  Unload = TRUE
  MaxDepth = 9
INVARIANTS LoaderInv InitializedOnce DependenciesHeld FreedAll
PROPERTIES FreeEnds
