\* Any sequence of moves and clicks, two thumbnails.
CONSTANTS
  Thumbs = 2
  Box <- TwoBoxes
  MaxX = 3 MaxY = 1
  HomeX = 1 HomeY = 0
  Packets <- Hand
SPECIFICATION FairSpec
INVARIANTS TypeOK FreshClicks
PROPERTIES DoubleClickCloses ClickGetsThrough ScreenSettles
