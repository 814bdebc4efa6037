CONSTANTS
  Comps = {1, 2}
  MaxCycle = 3
  Topological = FALSE
SPECIFICATION Spec
INVARIANTS
  OutputsFromOneSample
  LatencyBounded
PROPERTIES
  SampleReachesMul
