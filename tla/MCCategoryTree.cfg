SPECIFICATION Spec
CONSTANTS
    Workers = {w1, w2}
    Ids = {food, travel}
    TopLevel = TopLevel
    Absent = Absent
INVARIANT TwoLevels
