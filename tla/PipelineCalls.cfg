\* One job, a two-slot worker process, two calls in flight, no crash or lost lock.
SPECIFICATION FairSpec
CONSTANTS
    None = None
    j1 = j1  a1 = a1  r1 = r1  r2 = r2
    p1 = p1  s1 = s1  s2 = s2
    Jobs = {j1}
    Assets = {a1}
    Keys = {}
    Profiles = {"hls"}
    Reqs = {r1, r2}
    Procs = {p1}
    Slots = {s1, s2}
    ProcOf <- SharedProcess
    MaxAttempts = 2
    MaxStalled = 1
    Stages = 2
    MaxFaults = 0
INVARIANTS
    DeleteIsSafe
    NothingStranded
PROPERTIES
    Settles
    CancelFreesWorkers
CHECK_DEADLOCK FALSE
