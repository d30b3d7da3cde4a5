\* Whole packets, two of them at most in the kernel's queue; ev[] uninitialized.
CONSTANTS
  Slides = 2
  Keys = {18, 31, 32}
  QueueCap = 6
  ReadMax = 64
  WholePackets = TRUE
  Garbage <- Anything
SPECIFICATION FairSpec
INVARIANTS TypeOK AnswerIsCurrent PauseStopsShow LeadPressDecides
PROPERTIES ImplementsPauseControl CommandCarriedOut PauseTakesHold ShowGoesOn ImplementsFairPauseControl
