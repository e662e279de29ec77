SPECIFICATION Spec
CONSTANTS
  Powers <- SomePowers
  MaxEnergy = 2
  MaxNegative = 1
INVARIANTS
  TypeOK
  UnconnectedInvalid
PROPERTIES
  SavedEnergyKept
  EstimatedInProportion
