CONSTANTS
    r1 = r1
    s1 = s1
    s2 = s2
    noarch = noarch
    a = a
    b = b
    short = short
    unseen = unseen
    absent = absent
    Requests = {r1}
    Readers = {s1, s2}
    Folders = {noarch}
    Names = {a, b}
    Packages = {short}
    Arch <- MCArch
    PayloadLen <- MCPayloadLen
    MaxBlocks = 2
    Nothing = Nothing
    Unseen = unseen
    Absent = absent
SPECIFICATION ReadersSpec
VIEW View
SYMMETRY Symmetry
INVARIANT ReadersTypeOK
INVARIANT UploadedIsListed
INVARIANT IndexFresh
