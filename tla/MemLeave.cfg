SPECIFICATION MemSpec
CONSTANTS
    Peer = {"a", "b"}
    Creator = "a"
    Texts = {}
    Scenes <- OneLeaves
    MaxAdds = 1
INVARIANT LeaveNotified
CHECK_DEADLOCK FALSE
