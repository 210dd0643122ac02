\* Three rows a page apart, two requests of each kind in flight.
SPECIFICATION Spec
CONSTANTS
    None = None
    u1 = u1  u2 = u2  g1 = g1  g2 = g2  l1 = l1  l2 = l2  r1 = r1  r2 = r2
    Uploads = {u1, u2}
    Registers = {g1, g2}
    Lists = {l1, l2}
    Reports = {r1, r2}
    PageSize = 1
    Matching = {1, 3}
    MaxPos = 2
    MaxAssets <- SomeAssets
    MaxPublish <- SomePublish
INVARIANTS
    TypeOK
    OneAssetPerUpload
    ListIsGapless
    SearchIsLatest
    ResumesWhereLeft
SYMMETRY Sym
CHECK_DEADLOCK FALSE
