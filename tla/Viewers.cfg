\* Two addresses, two rows, three calls in flight, crashes and errors at any time.
SPECIFICATION Spec
CONSTANTS
    None = None
    v1 = v1  v2 = v2  e1 = e1  e2 = e2  c1 = c1  c2 = c2  c3 = c3
    Ids = {v1, v2}
    Emails = {e1, e2}
    Calls = {c1, c2, c3}
INVARIANTS
    TypeOK
    RevocationHolds
    InvitationHolds
    SessionsActivated
SYMMETRY Sym
CHECK_DEADLOCK FALSE
