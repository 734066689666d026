SPECIFICATION Spec
CONSTANTS
  Nodes = {a, b}
  Senders = {a, b}
  Codes = {key}
  MaxSession = 2
  MaxSequence = 1
  MaxInbox = 3
  Prompt = TRUE
  Environment = {}
SYMMETRY NodeSymmetry
INVARIANTS
  ReceiverIsDriven
