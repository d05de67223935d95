CONSTANTS
  None = None
  Torn = Torn
  DesignNodeMin = 101
  Edge = 2
  CaseStems <- Two
  FirstFolders <- OneFolder
  FirstFiles <- UsualFile
  Layouts <- NoChoice
  Settings <- NoChoice
  TypedDirs = {}
  Boundaries = {}
  LastDir = 1
  MaxClicks = 4
SPECIFICATION Spec
CHECK_DEADLOCK FALSE
INVARIANT CancelLeavesNoPartialSet
