SPECIFICATION FairSpec
CONSTANTS
    Local = {j}
    Remote = {r1, r2, r3}
    Joins = {j}
    Adds = {}
    Workers = {w1, w2}
    MaxDl = 1
    Entries = {"create"}
    Snapshots = {}
    Faults = {}
PROPERTY HistoryArrives
