INIT FilesInit
NEXT FilesNext
CONSTANTS
  NoFile = NoFile
  OtherBuild = OtherBuild
  Garbled = Garbled
  Writers = {1}
  RecordIds = {1}
  Attempts = 2
  MaxUpdates = 1
  MaxRemovals = 0
  MaxLosses = 0
INVARIANT SinksRunUnlocked
CHECK_DEADLOCK FALSE
