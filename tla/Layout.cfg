SPECIFICATION FairSpec
CONSTANTS
  Nodes = {a, b}
  MaxTransactions = 2
  MaxEdits = 2
  Faults = {"edit", "disconnect", "crash", "disk", "timeout"}
INVARIANTS
  TypeOK
  RefusedMeansNeither
  DivergenceIsKnown
  EditsSurvive
PROPERTIES
  SavedMeansBoth
  RequestAnswered
