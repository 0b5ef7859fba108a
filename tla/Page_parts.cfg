SPECIFICATION PageSpec
CONSTANTS
  None = None
  Box = {"card", "preview"}
  Timed = {"card"}
  TimedRow = {x1, x2}
  MaxWords = 2
  MaxCalls = 2
  ComposerEnvs <- ComposerSettings
  Closed = Closed
  Tab = {x1, x2}
  Issue = {"i1"}
  Slice = {"s1"}
  Pick <- Picks
  DEFAULT_FILTERS <- OnMyPlate
  MaxPicks = 2
  MaxIssueChanges = 1
  MaxOpens = 2
  MaxAsks = 2
  TrackerEnvs <- TrackerSettings
  Card = {x1, x2}
  Frame = {f1}
  Edge = {e1}
  Pos = {0, 1}
  NoMap = NoMap
  MaxGestures = 2
  MaxOps = 1
  MaxFaults = 1
  MaxFetches = 1
  MaxDragged = 1
  CanvasEnv = {"drop", "refuse"}
  Config = {"c1"}
  Scripts <- Starts
  Behaviour <- Panes
  RetryPolls = 3
  SettlePolls = 2
  TimeoutPolls = 10
  MaxCaptureFailures = 2
  MaxRequests = 2
  Send = {"s1", "s2"}
  Settings <- Injects
  Kinds = {"thread", "checklist"}
  Dwell = 2
  Overtake = FALSE
  MaxPosts = 2
  MaxLooks = 2
  MaxMarks = 1
  MaxUnderWay = 2
  Source = {"a", "x"}
  Broken = {"x"}
  Upsert = {x1, x2}
  MaxEvents = 1
  MaxDiagramFaults = 1
  DiagramEnvs = {{"drop"}}
  Session = {x1, x2}
  Account = {"a1", "a2"}
  Length = 2
  MaxUsageTime = 3
  MaxUses = 2
  MaxReports = 2
  Model = {"m1", "m2"}
  ResendTicks = 2
  MaxSwitches = 2
  MaxRebinds = 2
  MaxHooks = 2
  MaxLost = 1
  Run = {"r1"}
  Keep = 1
  Period = 2
  StaleAfter = 3
  MaxHalfDays = 6
  BackupEnvs <- BackupSettings
  Broker = {"b1", "b2"}
  User = "b1"
  Key = {x1, x2}
  PruneAge = 3
  MaxTicks = 4
  MaxEdits = 2
  WebEnvs = {{}}
SYMMETRY PageSymmetry
CHECK_DEADLOCK FALSE
INVARIANTS
   SentOnce TrackerKeeps RestoredIsThere AtRestShowsMap
      PageShowsDiagram 
  ChipCatchesUp QuietMeansBackedUp AnchorsStay ServedIsThere StaleIsTold
