SPECIFICATION FairSpec
CONSTANTS
    Images = {1, 2}
    SignupImages = {}
    Users = {u1}
    Posts = {p1}
    Attachers = {}
    Sweepers = {s1}
    BatchSize = 1
    Poison = {1}
    MaxFaults = 1
    NoUser = NoUser
    NoImage = NoImage
PROPERTIES
    MarkedIsCollected
