\* Two processes, two projects, a developer who edits once.
CONSTANTS
  NoFile = NoFile  NoReply = NoReply
  Proc = {p1, p2}
  Request <- Lines
  Reply <- Replies
  OldFiles <- SomeProjects
  OldBuilds = {"complete", "needs module"}
  Tracked = {"readme", "workflow"}
  DevEdits <- Edits
  MaxEdits = 1
  MaxLength = 2
SPECIFICATION Spec
INVARIANTS TypeOK WritesInScope RepairSettles StopsOnlyByRace
SYMMETRY Operators
CHECK_DEADLOCK FALSE
