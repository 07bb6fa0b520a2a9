SPECIFICATION Spec
CONSTANTS
  Zones <- MCZones
  MaxDrift = 2
INVARIANTS
  TypeOK
  SchemaDependsOnRevisions
  ModelsServed
  FailuresExplained
  InstantsKept
  IInv
PROPERTIES
  NoWayBack
CHECK_DEADLOCK FALSE
