\* Three batches of two parts, two workers, room for two records.
CONSTANTS
  NumBatch = 3
  Total = 2
  Workers = {w1, w2}
  QueCap = 3
  MaxRecord = 1
SPECIFICATION FairSpec
INVARIANTS
  TypeOK
  EveryPartOnce
  RecordsBounded
PROPERTY EveryBatchAnswered
CHECK_DEADLOCK FALSE
