SPECIFICATION Spec
CONSTANTS
    a = a
    b = b
    short = short
    long = long
    NoValue = NoValue
    MaxCells = 5
    Keys <- MCKeys
    Values = {short, long}
    Size <- MCSize
    Hash <- MCHash
INVARIANTS
    TypeOK
    MarkersDelimitItems
    OneMarkerPerKey
    SpaceBound
PROPERTY
    ImplementsTxFile
SYMMETRY Symm
