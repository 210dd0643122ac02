\* The gateway and one verifying service, one call at a time, two rotations.
SPECIFICATION FairSpec
CONSTANTS
    None = None
    g1 = g1  g2 = g2  v1 = v1  v2 = v2
    c1 = c1  gateway = gateway  video = video
    Tasks = {g1, g2, v1, v2}
    Services = {gateway, video}
    Gateway = gateway
    ServiceOf <- OneVerifier
    Calls = {c1}
    MaxAge = 1
    MaxSecret = 3
INVARIANTS
    TypeOK
    OldContextsVerify
PROPERTIES
    DrainEnds
CHECK_DEADLOCK FALSE
