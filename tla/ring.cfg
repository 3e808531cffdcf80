SPECIFICATION InstanceSpec
CONSTANTS
  v1 = v1
  v2 = v2
  Nothing = Nothing
  Values = {v1, v2}
  MaxSizes = {1, 3, 4}
  MaxBlockSize = 2
  Powers <- MCPowers
  BlockLimit <- MCLimits
INVARIANTS TypeOK SlotLife NextHasElement NextIsEmpty Ring
PROPERTIES FullWhenRefused Refinement
