CONSTANTS
  CommandLines <- Lines
  Limits = {4, 5, 8, 10}
  MaxCommands = 2
  MaxFaults = 1
  Texts <- MCTexts
  Dirs = {"d1", "d2"}
SPECIFICATION Spec
INVARIANTS TableRestored PipedAsWritten  FareReplaces NothingLost
PROPERTY OldPathFollowsMoves
