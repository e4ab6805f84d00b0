SPECIFICATION FairSpec
CONSTANTS
  Tid <- MCTid
  Rule <- MCRule
  Goal <- MCGoal
  Any = Any
INVARIANTS
  PlanDenotesGoal
  RejectionsJustified
PROPERTIES
  BuildsCertificate
