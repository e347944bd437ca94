CONSTANTS
  None = None
  Requests = {r1, r2}
  Tasks = {t1, t2}
  Services = {s1}
  Handles = {h1, h2, h3}
SPECIFICATION FairSpec
PROPERTIES RetiredIsClosed
CHECK_DEADLOCK FALSE
INVARIANTS UsableOpen QuiescedStaysOut
