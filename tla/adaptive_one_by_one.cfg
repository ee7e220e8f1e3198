SPECIFICATION Spec
CONSTANTS
  Plan <- OneByOnePlan
  Dt = 2
  MinGreen = 7
  MaxGreen = 9
  Extension = 3
  Threshold = 2
  MaxPresent = 2
INVARIANT TypeOK
INVARIANT ClearanceServed
INVARIANT WaitIsBounded
PROPERTY HeadsChangeSafely
