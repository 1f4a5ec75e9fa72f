SPECIFICATION Spec
CONSTANTS
  Agents = {surl, other, star}
  Star = star
  Ours = {surl}
  Patterns <- SomePatterns
  Delays <- SomeDelays
  Paths <- SomePaths
  MaxLines = 4
  None = None
INVARIANTS
  OwnGroupsRules
  LongestRuleDecides
  VerdictAsDescribed
