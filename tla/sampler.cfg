SPECIFICATION Spec
CONSTANTS
  HalfBits = 5
  PrecisionBits = 7
  Ratios <- MCRatios
INVARIANTS FractionIsMet ExtremesAreExact FractionsNest
CHECK_DEADLOCK FALSE
