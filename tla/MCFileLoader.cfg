SPECIFICATION Spec
CONSTANTS
    Default = Default
    NoFile = NoFile
    Torn = Torn
    Values = {Default, v1, v2}
INVARIANTS
    TypeOK
    TransactionHasCopy
PROPERTY
    ImplementsTxMap
