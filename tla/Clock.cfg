\* The player and the mouse do as they like, on the panel and beside it.
CONSTANTS
  Len = 1
  Bytes = 2
  Border = {0}
  Faces <- Digits
  Pictures = {0, 1}
SPECIFICATION FairSpec
INVARIANT TypeOK
PROPERTIES PanelConverges SpillsOneByte
