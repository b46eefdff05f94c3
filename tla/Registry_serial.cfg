CONSTANTS
  s1 = s1
  s2 = s2
  s3 = s3
  Sessions <- ThreeSessions
SPECIFICATION RegistrySpec
INVARIANTS ListIsTrue
SYMMETRY SessionSymmetry
CHECK_DEADLOCK FALSE
