\* Four runs of the kit, two of them killed, and two edits between them.
SPECIFICATION Spec
CONSTANTS
  Servers = {"s", "t"}
  Uncarried = {"t"}
  MaxCommands = 4
  MaxCrashes = 2
  MaxEdits = 2
  MaxSaves = 1
  NoFile = NoFile
  Torn = Torn
INVARIANTS
  OriginalIsRecoverable
  EditsAreRealEdits
PROPERTIES
  UninstallRestoresTheOriginal
  OthersAreKept
  UnrelatedChangesAreKept
CHECK_DEADLOCK FALSE
