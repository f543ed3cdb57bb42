SPECIFICATION Spec
CONSTANTS
  t1 = t1
  t2 = t2
  x = x
  y = y
  z = z
  la = la
  lb = lb
  lc = lc
  Thread = {t1, t2}
  Object = {x, y, z}
  Local = {la, lb, lc}
  LocalOf <- MCLocalOf
  DirectKind = {z}
  NoObject = NoObject
  NoThread = NoThread
INVARIANTS TypeOK CountMatchesPointers NoDangling NoUseAfterFree NoRecursionWhileLocked
PROPERTIES LifecycleForward ImplementsLifetime
