SPECIFICATION Spec
CONSTANTS
    Block = {b1}
    Cafe = {c1, c2}
    Registered = {c2}
    Inboxes = {c2}
    PageSize = 2
    MaxAttempts = 2
    Sessions = TRUE
    Faults = {"request", "append", "ack", "send", "heads", "post", "crash"}
INVARIANT StoredBeforeSent RequestsKept MessageKept
ACTION_CONSTRAINT QuietSessions
