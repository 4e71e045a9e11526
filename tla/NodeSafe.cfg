SPECIFICATION NodeSpec
CONSTANTS
    Focuses = {"lifecycle", "membership", "session", "files", "access", "migrations",
               "contacts", "feed", "requests", "keys"}
    Callers = {"p", "q"}
    Tails = {"w"}
    MaxStarts = 2
    MaxTicks = 1
    Troubles = {TRUE}
    Peer = {"a", "b", "c"}
    Creator = "a"
    Texts = {"t"}
    Scenes <- MCScenes
    MaxAdds = 2
    Workers = {"u", "o"}
    Objects = {"x"}
    MaxTime = 3
    MaxNonce = 1
    Visits <- MCVisits
    FilesBlock = {"b1", "b2", "b3"}
    IgnoreBlock = {"i1", "i2", "i3"}
    ThreadId = {"t1", "t2"}
    Datum = {"d1", "d2"}
    File = {"f1", "f2"}
    Layouts <- MCLayouts
    Device = {"me1", "ann1", "bob1"}
    AddressOf <- MCAddressOf
    Policies <- MCPolicies
    MaxOffers = 1
    Histories <- MCHistories
    Persons = {"p", "r"}
    MyDevices = {"m1", "m2"}
    Names = {"n", "k"}
    MaxNow = 3
    LongAgo = 100
    Habits <- MCHabits
    Logs <- MCLogs
    Limits = {1, 2}
    Late = 1
    ReqGroup = {"g1", "g2", "i1"}
    Envelope = {"i1"}
    SyncGroup = {"s1", "s2"}
    SyncOf <- MCSyncOf
    MaxSetbacks = 1
    Bits = 10
    KeySize = 2
    Trips <- MCTrips
INVARIANT NodeTypeOK
INVARIANT ShutdownSafe
INVARIANT MembersAgree
INVARIANT SessionGood
PROPERTY NonceUsedUp
INVARIANT FilesSettled
INVARIANT AuthoredAccepted ThreadKept
INVARIANT UpgradeSafe
INVARIANT CardsSettle
INVARIANT ShownRight
INVARIANT SyncGroupEnds
INVARIANT KeysSound
CHECK_DEADLOCK FALSE
