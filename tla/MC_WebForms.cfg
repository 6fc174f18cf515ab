CONSTANTS
  None = None
  Tables = {ta, tb}
  MaxEdits = 2
  MaxMoves = 2
  MaxFails = 1
  Hi <- MCHi
  Stored <- MCStored
  EveryN = 2
  AtHour = 1
  OnDay = 1
  Steps = {1, 2}
  MaxCronEdits = 2
  Ticks = 4
  MidnightHour = 0
  Zones <- MCZones
  LastDay = 4
  DaysPerMonth = 3
  RANGE_PRESETS = {1, 3}
  MaxDateActs = 5
  Districts <- MCDistricts
  Alike <- MCAlike
  Answers <- MCAnswers
  Given <- MCGiven
  MaxRegionActs = 6
  Windows <- MCWindows
  BallMenus <- MCMenus
  DragMoves <- MCMoves
  Trees <- MCTrees
  Whos = {"u1", "u2"}
  Fab = 2
  MaxHeight = 5
  Gap = 1
  Pad = 1
  Inset = 1
  Header = 2
  Threshold = 1
  MinWidth = 3
  MaxWidth = 5
  MaxNavActs = 7
  GridColumns <- MCGrids
  FILTER_ACTION_ROW_MAX_COLS = 3
  MaxFilterActs = 5
  HOME_IMAGE_CDNS = {mirror, jsdelivr}
  Images = {logo, shot1, shot2}
  Logos = {logo}
  LocalCopy = local
  MaxSceneryActs = 5
SPECIFICATION Spec
INVARIANTS
  ColumnsAgree
  AssignmentAgrees
  
  PagesAgree
  
  PrefsCatchUp
  NavAgrees
  FiltersAgree
  SceneryAgrees
PROPERTY EditorKeepsMeaning
CHECK_DEADLOCK FALSE
