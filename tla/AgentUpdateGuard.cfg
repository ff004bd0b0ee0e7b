SPECIFICATION FairSpec
CONSTANTS
  Loop = Loop
  Spawned = {g1, g2, g3}
INVARIANTS TypeOK OneReplacer CountIsExact DeferredHasRun LoneUpdateExcludesRuns
PROPERTIES UpdateStartsAlone DeferredIsApplied
