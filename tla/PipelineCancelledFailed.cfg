\* One job, one call in flight, one worker slot, no fault.
SPECIFICATION Spec
CONSTANTS
    None = None
    j1 = j1  a1 = a1  r1 = r1  r2 = r2
    p1 = p1  s1 = s1  s2 = s2
    Jobs = {j1}
    Assets = {a1}
    Keys = {}
    Profiles = {"hls"}
    Reqs = {r1}
    Procs = {p1}
    Slots = {s1}
    ProcOf <- OneSlot
    MaxAttempts = 1
    MaxStalled = 1
    Stages = 1
    MaxFaults = 0
PROPERTIES
    CancelledNeverFailed
CHECK_DEADLOCK FALSE
