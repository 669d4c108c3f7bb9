SPECIFICATION Spec
CONSTANTS
  Group = 3
  Seconds = 5
  MaxSkew = 2
INVARIANTS TextOrderIsTimeOrder FreshWithinSkew
