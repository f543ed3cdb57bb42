SPECIFICATION Spec
CONSTANTS
  a = a
  b = b
  Worker = {a, b}
  Main = Main
  SubPad = SubPad
  Nobody = Nobody
  Mixes <- MCContend
  Rounds = 2
  MaxDetach = 0
INVARIANTS AllCounted
CHECK_DEADLOCK FALSE
