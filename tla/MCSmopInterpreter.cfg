SPECIFICATION FairSpec
CONSTANTS
  f1 = f1
  f2 = f2
  f3 = f3
  f4 = f4
  f5 = f5
  x = x
  y = y
  z = z
  Frame = {f1, f2, f3, f4, f5}
  Object = {x, y, z}
  ByMethod = {y}
  Body = 2
  NoFrame = NoFrame
  NoObject = NoObject
INVARIANTS TypeOK DispatchesContinuation FrameCountsExact DestructionsKept CleanStop
PROPERTIES ImplementsCallStack DestructionsFinish
