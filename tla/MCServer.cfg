SPECIFICATION Spec
CONSTANTS
  Size = 3
  Workers = {w1, w2}
  Fds = {c1, c2, c3, c4, c5}
  Main = main
  NoThread = nobody
  NoSession = nosession
  Schedalgs = {"BLOCK", "DROP_TAIL", "DROP_HEAD", "DROP_RANDOM"}
  SizeMax = 15
SYMMETRY Symmetry
INVARIANTS OwnedOnce BlockedOnlyWhenFull SleepOnlyWhenCovered IInv
PROPERTY
  ImplementsAdmissionQueue
