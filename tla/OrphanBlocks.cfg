SPECIFICATION Spec
CONSTANTS
  NumBlocks = 5
  MaxOrphanBlocks = 2
  Outcomes = {"ok", "reject", "fail"}
INVARIANTS MapsAgree OrphansAwaitParent
PROPERTIES OrphansKept RequestsReachGap
