CONSTANTS
  Capacity = 2
  Memories = {"tso"}
  MaxItems = 2
SPECIFICATION FairSpec
PROPERTY Delivered
