SPECIFICATION MCSpec
CONSTANTS
    c1 = c1
    c2 = c2
    e1 = e1
    e2 = e2
    Campaign = {c1, c2}
    Email = {e1, e2}
    Process = {"p1", "p2"}
    Request = {"a1"}
    EmailMaxAttempts = 2
    BatchSize = 2
    MaxRequests = 3
    MaxFaults = 1
INVARIANTS
    MailedOnce
    BarredIsSpared
PROPERTIES
    RecipientsEnd
CHECK_DEADLOCK FALSE
