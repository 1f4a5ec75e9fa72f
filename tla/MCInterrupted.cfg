SPECIFICATION CloneSpec
CONSTANTS
  Workers = {w1}
  root = root
  page = page
  img = img
  home = home
  None = None
  Broken = Broken
  Urls <- MCUrls
  StartUrl = root
  Origins = {home}
  Versions = {1}
  Paths <- MCUrls
  MaxDepth = 2
  OptionSets <- Resuming
  OriginOf <- MCOriginOf
  TypeOf <- MCTypeOf
  PathOf <- MCPathOf
  FinalOf <- MCFinalOf
  Links <- MCLinks
  Filtered = {}
  Disallowed = {}
  RobotsReplies <- MCRobotsReplies
  Replies <- AllOk
  Validated = {root, img}
  SizeOf <- MCSizeOf
  Outside = {}
  StageFaults = {}
  RewriteFaults = {}
  Leftovers = {}
  MaxRuns = 2
INVARIANT FinishedFilesKnown
CHECK_DEADLOCK FALSE
