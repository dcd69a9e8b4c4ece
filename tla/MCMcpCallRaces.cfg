SPECIFICATION Spec
CONSTANTS
  Callers = {c1, c2}
  r1 = r1
  r2 = r2
  Records = {r1, r2}
  Requests <- AllRequests
  Nobody = Nobody
  Cap = 1
  AuditMax = 1
  MaxTries = 2
SYMMETRY Symmetric
INVARIANTS TypeOK AuditIsTrue ConflictIsNoFailure ArgumentsStayHidden
PROPERTIES CallsAreAtomic
CHECK_DEADLOCK FALSE
