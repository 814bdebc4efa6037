CONSTANTS
  MaxPorts = 2
  DeclUnits <- MC_DeclUnits
  Types = {T1, T2}
  Values = {V1}
  Zero = Zero
  MaxTime = 1
  CallerIndices <- MC_CallerIndices
  Self = Self
  NoOwner = NoOwner
SPECIFICATION Spec
PROPERTY
  Refines
