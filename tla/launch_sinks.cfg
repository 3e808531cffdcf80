SPECIFICATION SeveralSinksSpec
CONSTANTS
  f = f
  g = g
  Shapes <- EndShapes
  GivenNames = {}
  MaxBlocks = 4
  MaxConnects = 2
  PortNumbers = {0}
INVARIANTS OwnThread
CHECK_DEADLOCK FALSE
