SPECIFICATION Spec
CONSTANTS
  t1 = t1
  t2 = t2
  t3 = t3
  u = u
  v = v
  w = w
  Thread = {t1, t2}
  Value = {u, v, w}
  NoThread = NoThread
  NoValue = NoValue
SYMMETRY Symmetry
INVARIANTS FetchedAlive
