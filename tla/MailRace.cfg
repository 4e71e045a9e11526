SPECIFICATION MailSpec
CONSTANTS
    c1 = c1
    c2 = c2
    m1 = m1
    m2 = m2
    m3 = m3
    Client = {c1}
    Msg = {m1, m2}
    Dest <- OneClient
    MailPage = 2
    MailAttempts = 2
    MaxDeliver = 1
    MailFaults = {}
INVARIANT MailKept
