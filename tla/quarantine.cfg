CONSTANTS
  Paths = {"a.zip", "b.zip"}
  Base <- OwnNames
  Payloads = {"p1", "p2", "p3"}
  CloseMayFail = TRUE
  MaxNow = 3
SPECIFICATION Spec
INVARIANTS TypeOK EvidenceKept
