\* The same calls, their strings measured by the comment above the decoder.
CONSTANTS
  IntHalf = 2048
  W = 24
  H = 16
  psize = 5
  Figures <- FigureCalls
  Strings <- AllStrings
  Places <- AllPlaces
  Beyond <- WhatFollows
  Font <- SomeFont
  Bitmaps <- AllFiles
SPECIFICATION Spec
INVARIANT ShowsUtf32
\* A behaviour is one call.
CHECK_DEADLOCK FALSE
