SPECIFICATION CloneSpec
CONSTANTS
  Workers = {w1}
  root = root
  page = page
  img = img
  home = home
  None = None
  Broken = Broken
  Urls <- MCUrls
  StartUrl = root
  Origins = {home}
  Versions = {1, 2}
  Paths <- MCUrls
  MaxDepth = 2
  OptionSets <- Modes
  OriginOf <- MCOriginOf
  TypeOf <- MCTypeOf
  PathOf <- MCPathOf
  FinalOf <- MCFinalOf
  Links <- MCLinks
  Filtered = {}
  Disallowed = {}
  RobotsReplies <- MCRobotsReplies
  Replies <- PageMayFail
  Validated = {root, img}
  SizeOf <- MCSizeOf
  Outside = {}
  StageFaults = {}
  RewriteFaults = {}
  Leftovers = {}
  MaxRuns = 3
INVARIANTS
  MirrorIntact
  UpdateIsCurrent
  SavedFilesExist
  UpdateHeals
  ResumeMakesWhole
  CheckMeansIntact
PROPERTIES
  DryRunWritesNothing
  BrokenManifestStays
CHECK_DEADLOCK FALSE
