SPECIFICATION SpecCrash
CONSTANTS
    a = a
    b = b
    short = short
    long = long
    NoValue = NoValue
    MaxCells = 5
    Keys <- MCKeys
    Values = {short, long}
    Size <- MCSize
    Hash <- MCHash
INVARIANT
    NoMarkersWithoutContents
