SPECIFICATION Spec
CONSTANTS
  Zones <- MCZones
  MaxDrift = 2
INVARIANT DowngradeBaseWipes
CHECK_DEADLOCK FALSE
