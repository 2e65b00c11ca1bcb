CONSTANTS
  Paths = {"a.zip", "b.zip"}
  Base <- SameNames
  Payloads = {"p1", "p2", "p3"}
  CloseMayFail = FALSE
  MaxNow = 3
SPECIFICATION Spec
INVARIANTS PreservesEvidence
