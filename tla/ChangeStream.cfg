SPECIFICATION FairSpec
CONSTANTS
    Values = {v1, v2}
    NoList = NoList
    v1 = v1
    v2 = v2
    Buffer = 2
    MaxWire = 2
INVARIANTS StaleIsTold
PROPERTY PictureCatchesUp
