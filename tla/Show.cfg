\* A read() may return any part of what is queued; every picture is painted
\* frame by frame with its own effect.
CONSTANTS
  Slides = 7
  Keys = {18, 31}
  QueueCap = 5
  ReadMax = 64
  WholePackets = FALSE
  Garbage <- Zeroed
  Effect <- PlayPicture
SPECIFICATION ShSpec
INVARIANTS ShTypeOK EndLeavesPictures
PROPERTIES ImplementsScreen ActsOnReadEventsOnly
