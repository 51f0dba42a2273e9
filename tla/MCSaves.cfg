CONSTANTS
  Objects = {o1, o2}
  MaxVersion = 3
  MaxUpdates = 2
  MaxCrashes = 1
  NoObject = NoObject
SPECIFICATION Spec
SYMMETRY Symmetry
CHECK_DEADLOCK FALSE
INVARIANTS TypeOK CleanIsStored ExitSavesAll
PROPERTIES NeverGoesBack
