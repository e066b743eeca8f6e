SPECIFICATION LoaderSpec
CONSTANTS
  Wrap = 256
  Page = 4
  HdrSize = 2
  SbiosStart = 1
  KernelStart = 2
  NormalStart = 4
  LoaderStart = 16
  BootInfo = 18
  FileSize = 6
  MaxHeaders = 2
  Entries = {1, 5, 9}
  InitrdSizes = {0, 2, 8, 9}
  Headers <- MCHeaders
  ModuleChoices <- MCModules
  FileChoices <- MCFiles
  MediaSets <- MCMediaSets
  Texts <- MCTexts
  Immediates <- MCImmediates
  Images <- MCImages
  MaxBoots = 2
  MaxPasses = 2
  MaxMessages = 2
  MaxInput = 4
  Lines = 2
  MaxReports = 4
  MaxPath = 3
  MaxFiles = 2
  BootlogLines = 2
  BootlogCols = 3
  MaxText = 9
  Word = 8
  MaxCode = 5
  Chunks = 2
INVARIANTS
  LoaderUntouched
  BootWhole
  ModulesServe
  ConfigTrue
  ScreenTrue
  FilesTrue
  LogIsTail
  TableFound
CHECK_DEADLOCK FALSE
