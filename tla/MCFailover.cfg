SPECIFICATION FairSpec
CONSTANTS
  Worker = {w1}
  FailThreshold = 2
  MaxLag = 2
  MaxPosts = 2
INVARIANTS TypeOK MonitorGuardsStandby
PROPERTIES PromotedKeepsTable PromotedForCause ImplementsTakeover TakesOver
