SPECIFICATION Spec
CONSTANTS
  nullptr = nullptr
  a = a
  b = b
  c = c
  producer_repetitions = 2
  FirstFinalizers <- First
  FirstProducers <- First
  Lists <- MCLists
  Kinds <- MCKinds
INVARIANTS
  PoliciesRetrievable
  NextNeverThrows
  LatestProposalKept
  ActiveWasFinalTwice
  PoliciesInOrder
  ScheduleFixedInRound
  ScheduleWasFinal
CHECK_DEADLOCK FALSE
