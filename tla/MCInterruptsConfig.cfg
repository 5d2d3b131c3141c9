SPECIFICATION IrqSpec
CONSTANTS
  Surroundings <- MCTyping
  MaxKeys = 2
INVARIANTS KeyboardStaysOn
