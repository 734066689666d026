SPECIFICATION FairSpec
CONSTANTS
  Slots = 2
  Keys = {1, 29}
  ModifierGroups = {{29}}
  PendingLimit = 2
  MaxUnread = 2
INVARIANTS
  PeerHoldsWhatIsHeld
PROPERTIES
  EmergencyReturns
  ReleasesReachPeer
