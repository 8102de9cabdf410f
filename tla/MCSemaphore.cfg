SPECIFICATION Spec
CONSTANTS
  Thread = {t1, t2, t3}
  NULL = NULL
  Uses <- SoundUses
SYMMETRY Symmetry
CHECK_DEADLOCK FALSE
INVARIANTS WaiterLacksUnits UnitsConserved
PROPERTY ImplementsSemaphore
