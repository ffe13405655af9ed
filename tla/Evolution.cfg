SPECIFICATION Spec
CONSTANTS
  p1 = p1
  p2 = p2
  note = note
  swap = swap
  plan = plan
  area = area
  Proc = {p1, p2}
  Digest = {note, swap}
  Pattern = {plan, area}
  KindOf <- SomeKinds
  PatternsOf <- SomePatterns
  MaxCommands = 3
  MaxBusy = 2
  MaxDeaths = 1
CHECK_DEADLOCK FALSE
INVARIANTS TypeOK OffersAreBacked SandboxesAccounted BadStaysRejected UpdatesMatchRefresh
SYMMETRY Symmetry
PROPERTY StagesSpec
