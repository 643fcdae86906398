SPECIFICATION Spec
CONSTANTS
  Limit <- SmallLimits
  Spare <- SpareGas
  GatewaySpends <- WholeReserve
  CloneSpends <- CloneWork
  CodeSpends <- CodeWork
INVARIANTS DirectTargetGetsLimit AccountTargetGetsLimit
CHECK_DEADLOCK FALSE
