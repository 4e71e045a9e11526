SPECIFICATION Spec
CONSTANTS
    Local = {j}
    Remote = {r1, r2}
    Joins = {j}
    Adds = {}
    Workers = {w1, w2}
    MaxDl = 2
    Entries = {"create", "invite"}
    Snapshots = {}
    Faults = {"crash", "fetch", "reject", "post", "notify", "download", "map"}
INVARIANT TypeOK NoSilentHole HeadsAccounted ReadyIsSent
SYMMETRY Symmetry
