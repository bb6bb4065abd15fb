SPECIFICATION Spec
CONSTANTS
  p1 = p1
  p2 = p2
  p3 = p3
  Procs <- Routers
  Bodies = {"submitting", "filled"}
  MaxCommits = 5
  MaxEdits = 2
SYMMETRY RouterSymmetry
INVARIANTS TypeOK SeqGapless VerdictIsExact ChainedAsWritten
CHECK_DEADLOCK FALSE
