SPECIFICATION GateSpec
CONSTANTS
  Task = {1, 2}
  NoTask = 0
  None = None
  Configs <- PlainAndFull
  Outcomes <- AllOutcomes
  MaxAsides = 1
INVARIANT OwnOutcome
