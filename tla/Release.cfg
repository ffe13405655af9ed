SPECIFICATION Spec
CONSTANTS
  Candidate <- MCCandidate
  Digest <- MCDigest
  Profile <- MCProfile
  Operator = {o1, o2}
  MaxWork = 4
  MaxDeaths = 1
  MaxLedger = 1
  MaxValidating = 1
CONSTRAINT InBounds
INVARIANTS ReleaseIsWhole BundledUnderApproval
PROPERTIES GreenIsEarned
SYMMETRY MCOperators
CHECK_DEADLOCK FALSE
