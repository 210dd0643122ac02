SPECIFICATION FairSpec
CONSTANTS
    None = None
    s1 = s1
    q1 = q1
    q2 = q2
    Streams = {s1}
    Polls = {q1, q2}
    MaxAttempts = 2
    MaxEvents = 1
    MaxFaults = 1
INVARIANTS TypeOK EndsOnce EndLasts
PROPERTIES ListEnds
CHECK_DEADLOCK FALSE
