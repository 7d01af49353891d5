CONSTANTS
  Categories <- MCCategories
  SourcesOf <- MCSourcesOf
  Watched = {1}
  MaxThreads = 2
SPECIFICATION FairSpec
INVARIANTS
  OneCollector
  SelectionOnScreen
  OneModeLeftOver
  WalkMixesOneInFlight
PROPERTIES
  CollectionGoesOn
CHECK_DEADLOCK FALSE
