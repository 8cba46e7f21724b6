SPECIFICATION DedupSpec
CONSTANTS
  Callers = {c1, c2, c3}
  MaxFaults = 1
  MaxInterruptions = 1
SYMMETRY MCSymmetry
INVARIANTS
  LateCallsPaid
  DuplicatesHaveAnOriginal
  KeysExpire
