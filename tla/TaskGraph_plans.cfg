\* Every plan of two or three nodes: the search, updates, reopening, replanning.
SPECIFICATION Spec
CONSTANTS
  a = a
  b = b
  c = c
  Id = {a, b, c}
  Proposals <- SmallLists
  Branches <- SmallBranches
INVARIANTS PlanIsAcyclic OnlyCyclesAreRefused NeverStuck FinishedAfterDependencies
PROPERTIES VerifiedWorkIsKept
