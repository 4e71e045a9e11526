SPECIFICATION AppSpec
CONSTANTS
    Focuses = {"index", "invites", "backups", "setup", "host", "events",
               "mail"}
    Jobs = {"j1", "j2"}
    Originals = {"a", "b"}
    Parcels <- MCParcels
    Threads = {"t1", "t2", "t3"}
    Adds = {"i1", "i2"}
    Updates = {"u1", "u2"}
    Tasks = {"k1", "k2"}
    Occasions <- MCOccasions
    MaxBreaks = 1
    Devices = {"d1", "d2"}
    Backed = {"t1", "t2"}
    Blocks = {"u1", "u2"}
    Backlogs <- MCBacklogs
    GroupSize = 2
    Attempts = 2
    Mishaps = 2
    NoThread = NoThread
    Visitors = {"v1", "v2"}
    Friends = {"c1", "c2"}
    Outlines <- MCOutlines
    Outages = 2
    Guests = {"p", "q"}
    Shelves = {"t1"}
    Parts = {"x", "y"}
    TokenIds = {"k"}
    Secrets = {"s", "x"}
    Calls = {"c1", "c2", "c3", "c4", "c5", "c6"}
    Buffers = {"b1", "b2", "b3"}
    Plots <- MCPlots
    MaxHour = 2
    Happenings = {"h1", "h2", "h3"}
    Watchers = {"w1"}
    Room = 1
    MaxLives = 2
    Ways <- MCWays
    Client = {"c"}
    Msg = {"m1", "m2"}
    Dest <- MCDest
    MailPage = 1
    MailAttempts = 2
    MaxDeliver = 2
    MailFaults = {"reply", "fail", "crash", "row", "retry"}
INVARIANT AppTypeOK
INVARIANT FilesRight
INVARIANT InvitesSound
INVARIANT BackupsSound
INVARIANT SetupSound
INVARIANT HostSound
INVARIANT EventsSound
PROPERTY ImplementsMailbox
ACTION_CONSTRAINT QuietMail
CHECK_DEADLOCK FALSE
