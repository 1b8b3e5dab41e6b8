INIT DiffKindAlone
NEXT DiffKindTurns
CONSTANTS
  EndedLines = {"p"}
  Unended = "u"
  PopularFrom = 4
  PopularShare = 4
  Context = 1
  Breakers = {"lf"}
  CR = "cr"
  LF = "lf"
  OtherChar = "x"
  MaxDiffLines = 1
  MaxRawChars = 1
  FileNames = {"f", "n", "x"}
  Ignored = {"x"}
  Versions = {"1", "2", "bin"}
  BinaryData = "bin"
  NoFile = NoFile
  NoRef = NoRef
  MaxGitTurns = 2
INVARIANT PatchesRecreate
CHECK_DEADLOCK FALSE
