SPECIFICATION IrqSpec
CONSTANTS
  Surroundings <- MCSurroundings
  MaxKeys = 2
INVARIANTS PacketsWhole
PROPERTIES RequestsServed InitEnds
