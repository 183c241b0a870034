SPECIFICATION SpecSecondSave
CONSTANTS
    Default = Default
    NoFile = NoFile
    Torn = Torn
    Values = {Default, v1, v2}
INVARIANT
    FileIsWhole
