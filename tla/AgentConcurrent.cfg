\* Two operators at once, one task, two proposals of which one has blockers.
CONSTANTS
  t1 = t1  x1 = x1  x2 = x2  f = f  g = g  a = a  b = b
  Path = {f, g}
  Text = {a, b}
  NoFile = NoFile  None = None
  Proc = {p1, p2}
  Task = {t1}
  Proposal = {x1, x2}
  OpsOf <- TwoProposals
  Refusable = {x2}
  Verdicts = {"passed"}
  OldFiles <- OneFileExists
  MaxApprovals = 1
  MaxLength = 1
  MaxCrashes = 0
SPECIFICATION Spec
SYMMETRY Operators
INVARIANTS WrittenUnderApproval LinksResolve
CHECK_DEADLOCK FALSE
