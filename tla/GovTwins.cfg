\* Two candidates of the same mutation and one operator: readable summaries, cycles in between,
\* one death, fairness of a started command.
CONSTANTS
  c1 = c1  c2 = c2  d1 = d1   f1 = f1
  Candidate = {c1, c2}
  Digest = {d1}
  Profile <- SameDigest
  Proc = {p1}
  File = {f1}
  FileOf <- OneFile
  Appends = {d1}
  SameTest <- OneTest
  Faults = {"log"}
  NoItem = NoItem  NoRun = NoRun
  AutonomyVaries = FALSE
  HinderedAtFirst = {FALSE}
  ReportsAtFirst = {"missing"}
  MaxClock = 0
  MaxCopies = 2
  MaxLog = 2
  MaxCrashes = 1
SPECIFICATION FairSpec
INVARIANTS GovernedPromotionIsNew
PROPERTIES GovernedPromotionIsRecorded
CHECK_DEADLOCK FALSE
