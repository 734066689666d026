SPECIFICATION Spec
CONSTANTS
  Nodes = {a, b}
  Senders = {a, b}
  Codes = {key}
  MaxSession = 2
  MaxSequence = 2
  MaxInbox = 4
  Prompt = FALSE
  Environment = {}
SYMMETRY NodeSymmetry
INVARIANTS
  InputsInOrder
  MirrorsSource
  SenderIsHeard
  DrivenUnlessReused
  NoOverlap
