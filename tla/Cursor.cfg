\* Every move within the display and every combination of buttons, while
\* another thread paints three of its cells.
CONSTANTS
  W = 4 H = 3 CW = 2 CH = 2 MaxX = 2 MaxY = 1
  Opaque <- Arrowhead
  Packets <- Mice
  Buttons = {0, 1}
  Region <- Anywhere
  Paints = 2
SPECIFICATION Spec
INVARIANTS TypeOK NoTrail KeepsPicture
PROPERTY CountsLeftOnly
