\* One operator, one task, two proposals, one death.
CONSTANTS
  t1 = t1  x1 = x1  x2 = x2  f = f  g = g  a = a  b = b
  Path = {f, g}
  Text = {a, b}
  NoFile = NoFile  None = None
  Proc = {p1}
  Task = {t1}
  Proposal = {x1, x2}
  OpsOf <- TwoProposals
  Refusable = {}
  Verdicts = {"passed"}
  OldFiles <- OneFileExists
  MaxApprovals = 2
  MaxLength = 2
  MaxCrashes = 1
SPECIFICATION Spec
INVARIANTS TypeOK SnapshotRestores AppliedIsComplete AppliedOncePerApproval
CHECK_DEADLOCK FALSE
