SPECIFICATION Spec
CONSTANTS
    Images = {1}
    SignupImages = {1}
    Users = {u1, u2}
    Posts = {p1}
    Attachers = {a1}
    Sweepers = {s1, s2}
    BatchSize = 1
    Poison = {}
    MaxFaults = 1
    NoUser = NoUser
    NoImage = NoImage
SYMMETRY Symmetry
INVARIANTS
    ObjectHasRow
    ReferencedIsLive
    IndInv
PROPERTIES
    FreshImageSurvives
    OwnershipIsStable
    ImplementsContract
