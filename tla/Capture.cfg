SPECIFICATION FairSpec
CONSTANTS
  Keys = {key}
  Buttons = {button}
  PhysicalKeyboard = TRUE
  QueueLimit = 3
  PendingLimit = 2
  MaxGeneration = 2
INVARIANTS
  InputReturned
  OwnedWhileReady
  SessionIsCurrent
  MirrorsCapture
PROPERTIES
  CaptureEnds
