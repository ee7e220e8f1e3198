SPECIFICATION PrioritySpec
CONSTANTS
  Plan <- UnevenPlan
  Dt = 3
  MaxOffset = 40
  MinGreen = 7
  MaxHold = 12
  MinRecovery = 6
  MaxExtension = 4
  MaxEarlyGreen = 4
  TransitMinGreen = 7
  MinSpacing = 12
  Etas = {3, 6, 12}
INVARIANT PriorityTypeOK
INVARIANT NoDriftAlone
INVARIANT ClearanceServed
PROPERTY HeadsChangeSafely
PROPERTY MinGreenServed
PROPERTY EveryGreenReturns
