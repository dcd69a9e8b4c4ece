SPECIFICATION Spec
CONSTANTS
  Keys = {a, b}
  NoKey = NoKey
  Threads = {h1, h2, h3}
  Window = 2
  Cap = 2
  MaxTime = 4
SYMMETRY Names
INVARIANTS TypeOK NothingLiveIsLost OvershootIsBounded
PROPERTIES NoLingering
