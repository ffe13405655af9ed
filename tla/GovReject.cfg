\* What the help text says of a rejection.
CONSTANTS
  c1 = c1  c2 = c2  d1 = d1   f1 = f1
  Candidate = {c1}
  Digest = {d1}
  Profile <- OneUseful
  Proc = {p1}
  File = {f1}
  FileOf <- OneFile
  Appends = {d1}
  SameTest <- OneTest
  Faults = {"replay"}
  NoItem = NoItem  NoRun = NoRun
  AutonomyVaries = TRUE
  HinderedAtFirst = {TRUE, FALSE}
  ReportsAtFirst = {"missing", "not_run"}
  MaxClock = 2
  MaxCopies = 3
  MaxLog = 2
  MaxCrashes = 1
SPECIFICATION Spec
PROPERTIES RejectionIsHonoured
CHECK_DEADLOCK FALSE
