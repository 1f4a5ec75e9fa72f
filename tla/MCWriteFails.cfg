SPECIFICATION FairSpec
CONSTANTS
  Workers = {w1, w2}
  root = root
  page = page
  deep = deep
  img = img
  lib = lib
  home = home
  elsewhere = elsewhere
  v1 = v1
  None = None
  Urls <- MCUrls
  StartUrl = root
  Origins <- MCOrigins
  Versions <- MCVersions
  Paths <- MCPaths
  MaxDepth = 2
  OptionSets <- Plain
  OriginOf <- MCOriginOf
  TypeOf <- MCTypeOf
  PathOf <- MCPathOf
  FinalOf <- MCFinalOf
  Links <- MCLinks
  Filtered = {}
  Disallowed = {deep, lib}
  RobotsReplies <- MCRobotsReplies
  Replies <- AllOk
  Validated = {}
  SizeOf <- MCSizeOf
  Outside = {}
  StageFaults = {}
  RewriteFaults = {page}
  Leftovers = {}
INVARIANT FailuresAreReported
CHECK_DEADLOCK FALSE
