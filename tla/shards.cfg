SPECIFICATION MCSpec
CONSTANTS
    Devices = {d1, d2}
    Kinds = {k1}
    HashKind = h1
    Clients = {c1}
    Crc <- MCCrc
    MaxPrefix = 1
    MaxVersion = 2
    MaxCalls = 3
    Nil = Nil
    Writers = {w1, w2}
    ObjIds = {o1, o2}
    Synced = {o1, o2}
    AutoBatchSize = 2
    MaxBytes = 2
    LoadStepSize = 1
    Windows = {1}
    Levels = {3}
    MaxRev = 6
    MaxDay = 2
    MaxDumps = 2
    None = None
INVARIANTS ShardsAgree BackupsCover
SYMMETRY MCSymmetry
CHECK_DEADLOCK FALSE
