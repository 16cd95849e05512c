SPECIFICATION Spec
CONSTANTS
    Images = {1}
    SignupImages = {}
    Users = {u1}
    Posts = {p1}
    Attachers = {a1}
    Sweepers = {s1}
    BatchSize = 1
    Poison = {}
    MaxFaults = 0
    NoUser = NoUser
    NoImage = NoImage
INVARIANT
    SweepSparesAttached
