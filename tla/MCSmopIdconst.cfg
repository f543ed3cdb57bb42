SPECIFICATION FairSpec
CONSTANTS
  t1 = t1
  t2 = t2
  t3 = t3
  Thread = {t1, t2}
  Name <- MCName
  Contended <- MCFewNames
  Boot <- MCBoot
INVARIANTS TypeOK SortedWhenShared NothingLost SearchFinds DuplicatesBounded AloneInterns AloneReturnsItsName
PROPERTIES CallsReturn
