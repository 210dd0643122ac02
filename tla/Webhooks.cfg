\* One event published twice, two slots, two deletions, one fault of any kind.
SPECIFICATION FairSpec
CONSTANTS
    started = started  h1 = h1  p1 = p1  p2 = p2  w1 = w1  w2 = w2  q1 = q1  q2 = q2  None = None
    Hooks = {h1}
    Events = {started}
    TypeOf <- OneType
    Choices <- TwoTypes
    MaxCalls <- Twice
    Pubs = {p1, p2}
    Reqs = {q1, q2}
    Slots = {w1, w2}
    Attempts = 2
    MaxStalled = 1
    MaxFaults = 1
INVARIANTS
    TypeOK
    AcceptedOnce
    SentWithinAttempts
    StopsAfterInFlight
PROPERTIES
    DeliveriesEnd
    PublishedIsQueued
    ImplementsPromise
CHECK_DEADLOCK FALSE
