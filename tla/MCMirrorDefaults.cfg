SPECIFICATION Spec
CONSTANTS
  Processes = {p1, p2}
  CommandLines <- SomeLines
  Contents <- SomeContents
  Dashed <- SomeDashed
  Urls = {"a.b"}
  Numbers <- SomeNumbers
  Sizes <- SomeSizes
  IntSize = 4096
  PortSize = 1024
  MaxEdits = 1
  MaxRuns = 3
INVARIANTS
  FileOverridesDefaults
CHECK_DEADLOCK FALSE
