CONSTANTS
  Capacity = 2
  Memories = {"sc", "tso"}
  MaxItems = 4
SPECIFICATION FairSpec
INVARIANT FailsOnlyEmpty
PROPERTY ImplementsChannel
PROPERTY DeliveredInOrder
PROPERTY SendReturns
