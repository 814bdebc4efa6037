CONSTANTS
  Comps = {1, 2}
  MaxCycle = 3
  Topological = TRUE
SPECIFICATION Spec
PROPERTIES
  Refines
