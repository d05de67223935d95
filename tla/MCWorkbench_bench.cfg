CONSTANTS
  None = None
  Torn = Torn
  DesignNodeMin = 101
  Edge = 2
  CaseStems <- Two
  FirstFolders <- Folders
  FirstFiles <- Files
  Layouts <- SomeLayouts
  Settings <- SomeSettings
  TypedDirs = {0, 1}
  Boundaries = {0, 11}
  LastDir = 2
  MaxClicks = 4
SPECIFICATION Spec
CHECK_DEADLOCK FALSE
INVARIANTS
  TypeOK
  DoneStartsWhole
  SavedIsMeant
  StartsPinned
  AcceptedIsRunnable
