SPECIFICATION FairSpec
CONSTANTS
    Op = {o1, o2}
    MaxRetained = 1
    MaxLives = 3
    MaxCancels = 1
    Absent = Absent
    First = o1
CONSTRAINT BeginsWithFirst
CHECK_DEADLOCK FALSE
INVARIANTS TypeOK RecordIsItsTask LastChangeIsAnnounced
PROPERTY JobsSettle
