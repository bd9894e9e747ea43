\* one size of each class, five devices, three settings and two contexts or one object
CONSTANTS
  Size <- Sizes
  Class <- SomeClass
  Device <- SomeDevices
  SizeValue = {0, 12, 512}
  DefaultValue = {100}
  MaxSettings = 3
  MaxContexts = 2
  Machine <- SomeMachine
  Part <- SomePart
  Platform <- SomePlatform
  Preference <- SomePreference
SPECIFICATION PySpec
INVARIANTS
  TypeOK
  GroupAndTileFit
  LessOnlyByDevice
  LockstepOfPlatform
  SameDevice
  SizesLikeC
  UnfitOnlyUnset
\* the user stops when the bounds are reached
CHECK_DEADLOCK FALSE
