SPECIFICATION Spec
CONSTANTS
  NumStats = 3
  Width = 2
  Duration = 1
  MaxCount = 2
INVARIANTS
  TypeOK
  Conserved
  ActiveIsRecent
  OneTimer
PROPERTIES
  DrainEnds
  CountsMove
