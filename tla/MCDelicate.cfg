SPECIFICATION Spec
CONSTANTS
  Schemes <- SomeSchemes
  Letters <- SomeLetters
  Ports <- SomePorts
  DefaultPort <- SomeDefaults
  ShowPort <- PortWord
  None = None
  Unescaped <- SomeUnescaped
  Reserved <- SomeReserved
  HtmlExtensions = {"html"}
  ShortHash <- HashWord
  NameLimit = 180
  CutExtension = 16
  ExtensionLimit = 12
  PathLimit = 200
  PrefixLimit = 120
  LowerCase <- SomeLowerCase
  Entities <- SomeEntities
  FetchedRels = {"stylesheet"}
  LinkedRels = {"next"}
  ImageKeys <- SomeImageKeys
  Elements <- Delicate
  MaxElements = 2
  DocumentUrl <- SomeDocument
  DocumentPath <- SomePath
  Mirrored <- SomeMirrored
INVARIANTS
  LeadsWhereItDid
CHECK_DEADLOCK FALSE
