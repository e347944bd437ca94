CONSTANTS
  None = None
  Writers = {w1, w2}
  Readers = {r1, r2}
  Kinds = {"tile", "query"}
  Modes = {"cached", "forced", "uncached"}
  MaxWrites = 2
  MaxShared = 1
  MaxFailures = 1
  MaxCrashes = 1
SPECIFICATION Spec
SYMMETRY Symmetric
INVARIANTS FreshAnswer CrashSafe
