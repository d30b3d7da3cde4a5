\* Every shape, strings of up to three characters and bitmaps of all kinds.
CONSTANTS
  IntHalf = 2048
  W = 24
  H = 16
  psize = 5
  Figures <- FigureCalls
  Strings <- AllStrings
  Places <- AllPlaces
  Beyond <- WhatFollows
  Font <- SomeFont
  Bitmaps <- AllFiles
SPECIFICATION Spec
INVARIANTS TypeOK Encloses ShowsText BmpShown
\* A behaviour is one call.
CHECK_DEADLOCK FALSE
