\* A grey picture, with any short as the width read too early.
CONSTANTS
  W = 4 H = 3 Short = 4
  Calls <- GreyCalls
  Stack <- AnyShort
SPECIFICATION Spec
PROPERTY ShowsGrey
