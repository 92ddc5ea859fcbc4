\* Three first requests in three worker threads, over in-memory adapters.
CONSTANTS
  Requests = {r1, r2, r3}
  Nobody = Nobody
  Private <- DefaultPrivate
SYMMETRY Symmetry
SPECIFICATION Spec
INVARIANTS
  HandlersShareOneContainer
  LostRecordsNeedARace
CHECK_DEADLOCK FALSE
