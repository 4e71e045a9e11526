SPECIFICATION Spec
CONSTANTS
    Local = {j}
    Remote = {r1, r2}
    Joins = {j}
    Adds = {}
    Workers = {w1}
    MaxDl = 1
    Entries = {"restore"}
    Snapshots = {}
    Faults = {}
INVARIANT RestoredHeadsFollowed
