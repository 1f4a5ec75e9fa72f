SPECIFICATION AddressSpec
CONSTANTS
  Schemes <- SomeSchemes
  Letters <- SomeLetters
  Ports <- SomePorts
  DefaultPort <- SomeDefaults
  ShowPort <- PortWord
  None = None
  Unescaped <- SomeUnescaped
  Reserved <- SomeReserved
  HtmlExtensions = {"html"}
  ShortHash <- HashWord
  NameLimit = 8
  CutExtension = 3
  ExtensionLimit = 2
  PathLimit = 16
  PrefixLimit = 6
  Primary <- SomePrimary
  Documents <- SomeDocuments
  Pieces <- SomePieces
  MaxPieces = 4
  Kinds <- SomeKinds
INVARIANTS
  ResolvesAsRfc
  TextIsUrl
  StoredInside
  LinkLeadsToFile
  PagesApart
CHECK_DEADLOCK FALSE
