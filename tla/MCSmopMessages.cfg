SPECIFICATION Spec
CONSTANTS
  o1 = o1
  o2 = o2
  o3 = o3
  o4 = o4
  o5 = o5
  x = x
  y = y
  Object = {o1, o2, o3, o4, o5}
  Interpreter = Interpreter
  IntptrCapture = IntptrCapture
  Id = {x, y}
  Address <- MCAddress
  NoObject = NoObject
  MaxElems = 2
  Clients <- MCClients
SYMMETRY ObjectSymmetry
INVARIANTS TypeOK CountsExact PointersAlive ArgumentsFound BindingsKept
CHECK_DEADLOCK FALSE
