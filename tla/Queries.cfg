SPECIFICATION Spec
CONSTANTS
  Bits = 4
  NumericMax = 8
  MaxLike = 4
  Letters = {65, 97, 233}
  MaxText = 3
  MaxNumeral = 4
  BigMax = 578
  MaxExponent = 2
  MaxGroupRows = 3
  MaxWindowRows = 3
  MaxScanRows = 2
  MaxScanDepth = 3
  SuffixLetters = {1, 2, 3}
  MaxNesting = 2
  MaxCellText = 2
  MaxElements = 2
  TicksPerSecond = 4
  MaxScale = 3
  MaxVectorRows = 2
INVARIANTS
     
  WindowsWithinPartition 
  FragmentBinds RoutesSound 
  
