SPECIFICATION Spec
CONSTANTS
  WordSize = 1000
  ByteSize = 8
  Nothing = Nothing
  LineWidth = 8
  TabSize = 4
  EventLines <- MCEventLines
  Strings <- MCStrings
  OwnSettings <- MCOwnSettings
  Settings <- MCSettings
  Defaults <- MCDefaults
  Memory = {0, 7}
  CommandLines <- MCCommandLines
  Networks <- MCNetworks
  Scans <- MCScans
  Stations <- MCStations
  Entries <- MCEntries
  Instances <- MCInstances
  ServiceTypes <- MCServiceTypes
  Files <- MCFiles
  Texts <- MCTexts
  Indents = {0, 2, 4}
  MaxSets = 3
  MaxPushes = 5
  RingSizes = {1, 2}
  MaxLines = 4
INVARIANTS EventSurvivesText SettingsSurvive ResponsesAreRead StructuresAgree
CHECK_DEADLOCK FALSE
