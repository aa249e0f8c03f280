SPECIFICATION Spec
CONSTANTS
  Networks <- MCNetworks
  Old <- MCOld
  None = None
  MaxEvents = 2
INVARIANTS
  KeyRecovered
  AesAsStandard
PROPERTY
  ProvisioningEnds
CHECK_DEADLOCK FALSE
