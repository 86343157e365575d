SPECIFICATION QueueSpec
CONSTANTS
  MaxSeq = 7
  MaxBuffer = 3
INVARIANTS
  ShownAtMostOnce
  NothingDeliverableHeld
  EveryNumberAccounted
PROPERTIES
  LossOnlyByGivingUp
  DeliverySpec
