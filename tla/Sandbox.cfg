\* run and run_async, with children that may leave the group.
CONSTANTS
  leader = leader  c1 = c1  c2 = c2
  Leader = leader
  Child = {c1, c2}
  MaxWrites = 3
  MaxOutput = 2
SPECIFICATION FairSpec
INVARIANTS TypeOK RunKillsGroup OutputIsWhole
PROPERTIES RunReturns ReturnsOnceReleased
CHECK_DEADLOCK FALSE
