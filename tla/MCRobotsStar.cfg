SPECIFICATION Spec
CONSTANTS
  Agents = {surl, other, star}
  Star = star
  Ours = {surl}
  Patterns <- SomePatterns
  Delays <- SomeDelays
  Paths <- SomePaths
  MaxLines = 3
  None = None
INVARIANT AlwaysAsDescribed
