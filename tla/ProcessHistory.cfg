SPECIFICATION Spec
CONSTANTS
  NbCell = 4
  MaxSample = 40
INVARIANTS
  HeapIsHeld
  CurrentAlive
  Chronological
  LastShown
  Spaced
