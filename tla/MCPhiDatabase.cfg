CONSTANTS
    k1 = k1
    k2 = k2
    k3 = k3
    Keys = {k1, k2, k3}
    Values = {"open", "handled"}
    Capacity = 4
    Hash <- MCHash
    Absent = Absent
    MaxSize = 4
SPECIFICATION Spec
INVARIANTS
    TypeOK
    LastWriteWins
    PathsUnbroken
