CONSTANTS
    r1 = r1
    r2 = r2
    r3 = r3
    noarch = noarch
    x86_64 = x86_64
    file = file
    long = long
    short = short
    other = other
    Requests = {r1, r2}
    Folders = {noarch}
    Names = {file}
    Packages = {long, short}
    Arch <- MCArch
    PayloadLen <- MCPayloadLen
    MaxBlocks = 3
    Nothing = Nothing
SPECIFICATION Spec
INVARIANT WholePackageStored
