\* A read() may return any part of what is queued; ev[] as the stack left it.
CONSTANTS
  Slides = 2
  Keys = {18, 31}
  QueueCap = 6
  ReadMax = 64
  WholePackets = FALSE
  Garbage <- Anything
SPECIFICATION Spec
PROPERTY ActsOnReadEventsOnly
