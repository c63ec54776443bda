SPECIFICATION FairSpec
CONSTANTS
  Size = 2
  Workers = {w1, w2}
  Fds = {c1, c2, c3}
  Main = main
  NoThread = nobody
  NoSession = nosession
  Schedalgs = {"BLOCK", "DROP_HEAD"}
  SizeMax = 15
PROPERTY
  EveryConnectionClosed
