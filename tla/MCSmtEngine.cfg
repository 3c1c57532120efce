SPECIFICATION MCSpec
CONSTANTS
  f = f
  g = g
  none = none
  Formulas = {f, g}
  NoFormula = none
  Sessions <- MCSessions
  MaxPushes = 2
  MaxLevels = 3
  CumulativeUnits = {0, 3}
  PerCallUnits = {0, 2}
  CumulativeMillis = {0}
  PerCallMillis = {0}
  Amount = {1, 2}
  satConflictStep = 1
  MaxUsed = 8
  MaxTime = 0
  HardLimits = {TRUE, FALSE}
  CpuTimes = {FALSE}
INVARIANTS
  AnswersAboutAssertions EngineInStep
  TranslationRight SharingRight
PROPERTIES
  StopsRight SearchStops
\* The bounds on time and on what is spent end the behaviours of the manager.
CHECK_DEADLOCK FALSE
