\* One operator and one candidate, files found torn, two deaths, and autonomy's
\* blockers coming and going.
CONSTANTS
  c1 = c1  c2 = c2  d1 = d1   f1 = f1
  Candidate = {c1}
  Digest = {d1}
  Profile <- OneUseful
  Proc = {p1}
  File = {f1}
  FileOf <- OneFile
  Appends = {d1}
  SameTest <- OneTest
  Faults = {"summary", "replay", "log"}
  NoItem = NoItem  NoRun = NoRun
  AutonomyVaries = TRUE
  HinderedAtFirst = {TRUE, FALSE}
  ReportsAtFirst = {"missing", "not_run"}
  MaxClock = 0
  MaxCopies = 3
  MaxLog = 2
  MaxCrashes = 2
SPECIFICATION Spec
INVARIANTS TypeOK TreeMatchesLog LabelsAgree
CHECK_DEADLOCK FALSE
