SPECIFICATION Spec
CONSTANTS
  LayerArgs <- MCLayerArgs
  InputShapes <- MCInputShapes
  GradShapes <- MCGradShapes
  MaxLayers = 2
  MaxPasses = 2
INVARIANTS
  TypeOK
  CacheDescribesLayers
  UncachedLayerBlocks
  BackwardUsesOneForward
  CompletedForwardIsTrainable
  CachedLayersAreReadInside
PROPERTY
  UpdateIsWholeUnlessBackwardFailed
CHECK_DEADLOCK FALSE
