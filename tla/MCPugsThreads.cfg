SPECIFICATION FairSpec
CONSTANTS
  a = a
  b = b
  Worker = {a, b}
  Main = Main
  SubPad = SubPad
  Nobody = Nobody
  Mixes <- MCMixes
  Rounds = 1
  MaxDetach = 1
PROPERTIES JoinReturns
INVARIANTS TypeOK CountersAddUp NeverOverdrawn RoundsMade JoinGivesResult ResultsTakenOnce ElementsKept AssignmentFailsByRace
CHECK_DEADLOCK FALSE
