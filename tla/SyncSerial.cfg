SPECIFICATION Spec
CONSTANTS
    Local = {j, l1, a}
    Remote = {r1, r2}
    Joins = {j}
    Adds = {a}
    Workers = {w1}
    MaxDl = 1
    Entries = {"create", "restore"}
    Snapshots = {"restore"}
    Faults = {}
INVARIANT NothingForgotten HeadsMinimal
ACTION_CONSTRAINT Serial
SYMMETRY Symmetry
