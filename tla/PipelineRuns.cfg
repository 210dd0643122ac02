\* One job, a two-slot worker process, one call in flight, one fault.
SPECIFICATION Spec
CONSTANTS
    None = None
    j1 = j1  a1 = a1  r1 = r1  r2 = r2
    p1 = p1  s1 = s1  s2 = s2
    Jobs = {j1}
    Assets = {a1}
    Keys = {}
    Profiles = {"hls", "thumbs"}
    Reqs = {r1}
    Procs = {p1}
    Slots = {s1, s2}
    ProcOf <- SharedProcess
    MaxAttempts = 2
    MaxStalled = 1
    Stages = 1
    MaxFaults = 1
INVARIANTS
    TypeOK
    CompletedOnce
    FailedIsExhausted
    CompletedHasOutput
    PlaybackBacked
    AbandonedIsEnded
PROPERTIES
    ImplementsLifecycle
SYMMETRY SymSlots
CHECK_DEADLOCK FALSE
