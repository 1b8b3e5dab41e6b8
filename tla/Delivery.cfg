SPECIFICATION FairSpec
CONSTANTS
  User = User
  None = None
  Deliveries = {"m1", "m2", "s1", "i1"}
  Kind <- FourKinds
  Parts <- FourParts
  MaxPanes = 2
  Budget <- Disturbed
INVARIANTS
  NeverInterleave
  MessagesArriveWhole
  NothingAfterStop
PROPERTY DeliveriesEnd
CHECK_DEADLOCK FALSE
