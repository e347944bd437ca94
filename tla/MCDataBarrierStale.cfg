CONSTANTS
  None = None
  Writers = {w1}
  Readers = {r1}
  Kinds = {"tile"}
  Modes = {"cached", "forced", "uncached"}
  MaxWrites = 4
  MaxShared = 0
  MaxFailures = 2
  MaxCrashes = 0
SPECIFICATION Spec
SYMMETRY Symmetric
INVARIANTS FreshAnswer
