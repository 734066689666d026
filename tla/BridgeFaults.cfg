SPECIFICATION Spec
CONSTANTS
  Nodes = {a, b}
  Senders = {a, b}
  Codes = {key}
  MaxSession = 1
  MaxSequence = 1
  MaxInbox = 3
  Prompt = FALSE
  Environment = {"lock", "disconnect", "configure", "outputs"}
SYMMETRY NodeSymmetry
INVARIANTS
  TypeOK
  Coherent
PROPERTIES
  DesktopsLeased
