SPECIFICATION LiveSpec
CONSTANTS
    Focuses = {"mail", "outbound", "lifecycle", "broadcast", "search", "stream"}
    Client = {"c"}
    Msg = {"m1", "m2"}
    Dest <- MCDest
    MailPage = 1
    MailAttempts = 2
    MaxDeliver = 1
    MailFaults = {"fail", "retry"}
    Block = {b1}
    Cafe = {c1}
    Registered = {}
    Inboxes = {}
    PageSize = 1
    MaxAttempts = 2
    Sessions = TRUE
    Faults = {"request"}
    Callers = {"p"}
    Tails = {"w"}
    MaxStarts = 2
    MaxTicks = 1
    Troubles = {FALSE}
    Waiters = {"x", "y"}
    Loads <- MCLoads
    Sources = {"s1", "s2"}
    Ids = {"x", "y"}
    Dates = {1, 2, 3}
    Plans <- MCPlans
    Calls = {"p", "q", "r"}
    Requests = {"p", "q"}
    streamReuseTries = 0
    MaxStreams = 3
    Mishaps = 2
INVARIANT LiveTypeOK
INVARIANT DoneOnce OnlyAcked
INVARIANT StreamsSound
PROPERTY MailSettles ShutdownEnds CallsReturn SearchEnds BlockReleased
CHECK_DEADLOCK FALSE
