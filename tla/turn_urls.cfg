SPECIFICATION Spec
CONSTANTS
  SlotNumber = {1}
  NoSlot = NoSlot
  Limits = {0}
  MaxEvents = 0
  BaseModels = {"sonnet", "opus"}
  OneMModels = {"sonnet[1m]", "opus[1m]"}
  Efforts = {"low", "high"}
  DefaultModel = "opus"
  DefaultEffort = "high"
  Absent = "absent"
  Mistyped = "mistyped"
  HistoryLimit = 2
  RepliesPage = 4
  MaxMessages = 2
  Failed = "failed"
  PadChannel = {"C", "D"}
  NoChannel = "none"
  RawKey = {"k", " k", " "}
  Trim <- MCTrim
  BlankKey = ""
  Blob = {"plan", "huge"}
  TooLarge = {"huge"}
  Missing = "missing"
  MaxCommands = 0
  MaxBlocks = 3
  ButtonsPerActionsBlock = 1
  TotalButtonsCap = 2
  Configs <- MCOneConfig
  Texts <- MCFewTexts
INVARIANT
  URLsStay
