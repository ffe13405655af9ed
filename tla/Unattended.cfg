SPECIFICATION Spec
CONSTANTS
  Target <- MCTarget
  Pattern <- MCPattern
  Covers <- MCCovers
  BadPattern = {"../x"}
  Kind = {"AddUnitTest", "AddReplayAssertion", "AddLearningSummaryField", "AddMetricUpdate", "AppendComment"}
  Objective = {"tests", "metrics"}
  TaskId = {"plain", "quick", "narrow"}
  Contract <- MCContract
  PlanSets <- MCPlanSets
  Says <- MCSays
  GraphFiles = {"src/graph/mod.rs"}
  Strategy = {"MetricsReporting"}
  NoPolicy = NoPolicy
  RunsBefore = 10
  PassedBefore = 10
  ReplaysBefore = 3
  HasBenchmark = FALSE
  NoTask = NoTask
  MaxCommands = 2
  MaxCycles = 4
  MaxAsked = 2
  MaxOthers = 1
  MaxDeaths = 1
CONSTRAINT InBounds
INVARIANTS TypeOK CountsAgree ReportsMatchLog StatusIsEarned DraftsAreKept
PROPERTY NothingAfterLeak
CHECK_DEADLOCK FALSE
