SPECIFICATION FairSpec
CONSTANTS
    None = None
    s1 = s1
    q1 = q1
    q2 = q2
    Streams = {s1}
    Polls = {q1}
    MaxAttempts = 1
    MaxEvents = 0
    MaxFaults = 0
PROPERTIES DisplayEnds
CHECK_DEADLOCK FALSE
