\* Two people, two requests in flight and one API key.
SPECIFICATION Spec
CONSTANTS
    None = None
    a = a  b = b  c1 = c1  c2 = c2  k1 = k1
    Emails = {a, b}
    Calls = {c1, c2}
    Keys = {k1}
    Roles <- SomeRoles
    Suffixes <- TwoSuffixes
    Production = FALSE
INVARIANTS
    TypeOK
    ChosenPasswordHolds
    OwnerRemains
    NameClashSurvived
SYMMETRY Sym
CHECK_DEADLOCK FALSE
