CONSTANTS
  Providers <- MCProviders
  Categories <- MCCategories
  Entities <- MCEntities
  Strategies <- MCStrategies
  MinimumMaxEntities = 1
  SlotCategories <- MCSlotCategories
  SlotEntities <- MCSlotEntities
  MaxSlots = 3
SPECIFICATION MCSpec
CHECK_DEADLOCK FALSE
INVARIANTS
  QuorumsSound
  TrustRootExact
  FirstWaveMinimal
  AssignmentDecides
