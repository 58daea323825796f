\* Two runs of setup, the first one killed; nobody else touches a file.
SPECIFICATION Spec
CONSTANTS
  Servers = {"s", "t"}
  Uncarried = {"t"}
  MaxCommands = 2
  MaxCrashes = 1
  MaxEdits = 0
  MaxSaves = 0
  NoFile = NoFile
  Torn = Torn
INVARIANT
  DisownsNoWrapOfItsOwn
CHECK_DEADLOCK FALSE
