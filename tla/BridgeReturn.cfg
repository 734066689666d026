SPECIFICATION FairSpec
CONSTANTS
  Nodes = {a, b}
  Senders = {a}
  Codes = {key}
  MaxSession = 2
  MaxSequence = 2
  MaxInbox = 3
  Prompt = FALSE
  Environment = {"lock", "disconnect"}
INVARIANTS
  ReceiverIsDriven
PROPERTIES
  ControlReturns
  LostPeerReleases
