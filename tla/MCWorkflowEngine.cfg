SPECIFICATION FairSpec
CONSTANTS
  a = a
  b = b
  c = c
  ghost = ghost
  out = out
  alt = alt
  Nodes <- MCNodes
  Ports <- MCPorts
  Unknown = ghost
  Workflows <- MCWorkflows
  MaxConcurrency = 2
  MaxFaults = 2
INVARIANTS
  RunsOnlyWhenFed
  SkippedIffStarved
  OutcomeJustified
PROPERTIES
  FailFast
  AbortStopsWork
  RunStops
  ImplementsDagRun
