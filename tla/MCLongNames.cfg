SPECIFICATION AddressSpec
CONSTANTS
  Schemes <- SomeSchemes
  Letters <- SomeLetters
  Ports <- SomePorts
  DefaultPort <- SomeDefaults
  ShowPort <- PortWord
  None = None
  Unescaped <- SomeUnescaped
  Reserved <- SomeReserved
  HtmlExtensions = {"html"}
  ShortHash <- HashWord
  NameLimit = 5
  CutExtension = 2
  ExtensionLimit = 2
  PathLimit = 30
  PrefixLimit = 3
  Primary <- SomePrimary
  Documents <- SomeDocuments
  Pieces <- SomePieces
  MaxPieces = 5
  Kinds <- SomeKinds
INVARIANTS
  NoDotsAtTheEnd
CHECK_DEADLOCK FALSE
