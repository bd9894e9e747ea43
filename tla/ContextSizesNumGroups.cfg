\* one setting and one context of either kind
CONSTANTS
  Size <- Sizes
  Class <- SomeClass
  Device <- SomeDevices
  SizeValue = {512}
  DefaultValue = {100}
  MaxSettings = 1
  MaxContexts = 1
  Machine <- SomeMachine
  Part <- SomePart
  Platform <- SomePlatform
  Preference <- SomePreference
SPECIFICATION PySpec
INVARIANTS
  NumGroupsFit
CHECK_DEADLOCK FALSE
