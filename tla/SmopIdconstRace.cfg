SPECIFICATION Spec
CONSTANTS
  t1 = t1
  t2 = t2
  t3 = t3
  Thread = {t1, t2}
  Name <- MCFewNames
  Contended <- MCFewNames
  Boot <- MCBoot
INVARIANTS OneIdentifierPerName
