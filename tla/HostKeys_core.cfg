CONSTANTS
  h1 = h1
  h2 = h2
  k1 = k1
  k2 = k2
  a1 = a1
  a2 = a2
  a3 = a3
  i1 = i1
  i2 = i2
  i3 = i3
  NoKey = NoKey
  Hosts <- TwoHosts
  Keys <- TwoKeys
  Attempts <- ThreeAttempts
  HostOf <- Targets
  Isolates <- ThreeIsolates
  MaxChanges = 1
  Placements <- Anyhow
SPECIFICATION HostKeysSpec
INVARIANTS VerdictIsTrue KnownIsApproved
SYMMETRY HostKeySymmetry
CHECK_DEADLOCK FALSE
