SPECIFICATION FairSpec
CONSTANTS
  Schemes <- SomeSchemes
  Letters <- SomeLetters
  Ports <- SomePorts
  DefaultPort <- SomeDefaults
  ShowPort <- PortWord
  None = None
  Unescaped <- SomeUnescaped
  Reserved <- SomeReserved
  HtmlExtensions = {"html"}
  ShortHash <- HashWord
  NameLimit = 180
  CutExtension = 16
  ExtensionLimit = 12
  PathLimit = 200
  PrefixLimit = 120
  Clients = {c1, c2}
  Requests <- SomeRequests
  Limit = 8
  Files <- SomeFiles
  Dirs <- SomeDirs
  MaxThreads = 1
  SendKills = TRUE
INVARIANTS
  AnsweredInFull
PROPERTIES
  NobodyWaits
  SocketsReturned
CHECK_DEADLOCK FALSE
