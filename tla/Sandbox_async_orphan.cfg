\* The promise of the class, for both drivers.
CONSTANTS
  leader = leader  c1 = c1  c2 = c2
  Leader = leader
  Child = {c1, c2}
  MaxWrites = 3
  MaxOutput = 2
SPECIFICATION Spec
INVARIANT DeadlineKillsGroup
CHECK_DEADLOCK FALSE
