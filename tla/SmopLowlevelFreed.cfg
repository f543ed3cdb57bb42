SPECIFICATION FairSpec
CONSTANTS
  t1 = t1
  t2 = t2
  x = x
  y = y
  z = z
  la = la
  lb = lb
  lc = lc
  Thread = {t1, t2}
  Object = {x, y}
  Local = {la, lb, lc}
  LocalOf <- MCLocalOf
  DirectKind = {y}
  NoObject = NoObject
  NoThread = NoThread
PROPERTIES EventuallyFreed
