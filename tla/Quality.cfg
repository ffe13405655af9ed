\* Two operators of the benchmark, three runs, one upgrade and one death; on the
\* project two reports and one edit; on
\* GitHub's repositories four commands of two workers, and one change, death or error.
CONSTANTS
  NoFile = NoFile  NoReply = NoReply  None = None  Torn = Torn  Glued = Glued
  NoReport = NoReport  NoTrial = NoTrial  NoRepo = NoRepo
  Operator = {p1, p2}
  BenchArgs <- SomeBenchArgs
  ReportArgs <- SomeReportArgs
  Fit <- SomeFit
  MaxRuns = 3
  MaxUpgrades = 1
  MaxDeaths = 1
  OldFiles <- SomeProjects
  DevEdits <- SomeEdits
  MaxReports = 2
  MaxEdits = 1
  Worker = {w1, w2}
  Repo <- SomeRepos
  Path = {"a_b_c", "x_y"}
  PathOf <- SomePaths
  License = {"MIT", "GPL"}
  Answers <- SomeAnswers
  Search <- SomeSearch
  Upstream <- SomeUpstream
  CaseLimits = {1, 2}
  MaxWork = 4
  MaxTrouble = 1
  NoSpace = NoSpace  Foreign = Foreign  NoOutput = NoOutput  Broken = Broken
SPECIFICATION Spec
INVARIANTS GateHoldsTheLine DoctorAndFixAgree ReportIsTrue ProbesAccounted
PROPERTY SuggestionsSettle
SYMMETRY Operators
CHECK_DEADLOCK FALSE
