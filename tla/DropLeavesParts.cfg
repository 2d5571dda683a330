SPECIFICATION Spec
CONSTANTS
    r1 = r1
    r2 = r2
    i1 = i1
    i2 = i2
    i3 = i3
    i4 = i4
    d1 = d1
    d2 = d2
    Replicas = {r1, r2}
    Inserts = {i1, i2, i3, i4}
    HomeOf <- MCHomeOf
    DataOf <- MCDataOf
    Scenarios <- MCDropScenarios
INVARIANT
    NoPartRemainsAfterDrop
