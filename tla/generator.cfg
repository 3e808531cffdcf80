SPECIFICATION ProgramSpec
CONSTANTS
  f = f
  g = g
  Shapes <- SmallShapes
  GivenNames <- F0
  MaxBlocks = 3
  MaxConnects = 2
  PortNumbers = {0, 1}
INVARIANTS SingleReader NoneInvented AsAsked OneThreadEach RightThread IndexInRange SourcesLast
CHECK_DEADLOCK FALSE
