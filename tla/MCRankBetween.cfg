\* Base 4 has a lowest, a highest and two inner digits, so adjacent digits, a
\* gap of two and a gap that needs rounding all occur.
CONSTANTS
  Base = 4
  Threshold = 2
  None = None
  MaxLength = 3
  Arguments <- MCArguments
SPECIFICATION Spec
INVARIANTS
  TypeOK
  StrictlyBetween
  GrowsByOneDigit
  ComputesBetween
PROPERTIES
  Terminates
\* A call returns: the function has no further step.
CHECK_DEADLOCK FALSE
