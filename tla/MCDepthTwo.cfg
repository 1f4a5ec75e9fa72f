SPECIFICATION FairSpec
CONSTANTS
  Workers = {w1, w2}
  root = root
  near = near
  far = far
  middle = middle
  target = target
  home = home
  v1 = v1
  None = None
  Urls <- MCUrls
  StartUrl = root
  Origins = {home}
  Versions = {v1}
  Paths <- MCPaths
  MaxDepth = 3
  OptionSets <- MCOptions
  OriginOf <- MCOriginOf
  TypeOf <- MCTypeOf
  PathOf <- MCPathOf
  FinalOf <- MCFinalOf
  Links <- MCLinks
  Filtered = {}
  Disallowed = {}
  RobotsReplies <- MCRobotsReplies
  Replies <- MCReplies
  Validated = {}
  SizeOf <- MCSizeOf
  Outside = {}
  StageFaults = {}
  RewriteFaults = {}
  Leftovers = {}
INVARIANT PagesWithinDepth
CHECK_DEADLOCK FALSE
