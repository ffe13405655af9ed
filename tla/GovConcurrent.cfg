\* Two operators working on one candidate at the same time.
CONSTANTS
  c1 = c1  c2 = c2  d1 = d1   f1 = f1
  Candidate = {c1}
  Digest = {d1}
  Profile <- OneUseful
  Proc = {p1, p2}
  File = {f1}
  FileOf <- OneFile
  Appends = {d1}
  SameTest <- OneTest
  Faults = {}
  NoItem = NoItem  NoRun = NoRun
  AutonomyVaries = FALSE
  HinderedAtFirst = {TRUE, FALSE}
  ReportsAtFirst = {"missing", "not_run"}
  MaxClock = 1
  MaxCopies = 1
  MaxLog = 1
  MaxCrashes = 0
SPECIFICATION Spec
INVARIANTS PromotedUnderStandingApproval
PROPERTIES LedgerSpec
CHECK_DEADLOCK FALSE
