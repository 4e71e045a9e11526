SPECIFICATION Spec
CONSTANTS
    Local = {j, l1}
    Remote = {r1}
    Joins = {j}
    Adds = {}
    Workers = {w1, w2}
    MaxDl = 1
    Entries = {"create"}
    Snapshots = {}
    Faults = {}
INVARIANT InboundHeadKept
