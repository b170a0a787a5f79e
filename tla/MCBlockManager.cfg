CONSTANTS
    b1 = b1
    b2 = b2
    v1 = v1
    v2 = v2
    Absent = Absent
    Block <- MCBlock
    Value <- MCValue
    BlockSizes <- MCBlockSizes
    Granularity = 2
    MaxFile = 5
    MaxQueue = 2
    MaxJournal = 2
SPECIFICATION Spec
SYMMETRY MCSymmetry
INVARIANTS BlockManagerTypeOK PendingCached NoOverlap Recoverable
PROPERTY Atomic
