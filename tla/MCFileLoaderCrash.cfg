SPECIFICATION SpecCrash
CONSTANTS
    Default = Default
    NoFile = NoFile
    Torn = Torn
    Values = {Default, v1, v2}
PROPERTY
    CommitIsAllOrNothing
