CONSTANTS
  SlabCount = 3
  RatioNum = 1
  RatioDen = 3
SPECIFICATION ZebraSpec
INVARIANTS SlabQueuesAgree
PROPERTIES ImplementsSlabPool
