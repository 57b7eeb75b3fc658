SPECIFICATION FairSpec
CONSTANTS
  Qty = 2
  MaxRetries = 2
PROPERTIES
  PartlyFilledNotReplaced
