SPECIFICATION Spec
CONSTANTS
  CommandLines <- MCCommandLines
  MaxPieces = 4
  None = None
  IntMax = 99999
CHECK_DEADLOCK FALSE
INVARIANTS
  TypeOK LastUseWins RestKept ConfiguredAsGiven WellFormedAccepted
