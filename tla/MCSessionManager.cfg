SPECIFICATION Spec
CONSTANTS
    n1 = n1
    n2 = n2
    a1 = a1
    a2 = a2
    p1 = p1
    p2 = p2
    lasting = lasting
    short = short
    None = None
    NoPeer = NoPeer
    Nodes = {n1, n2}
    Addresses = {a1, a2}
    PeerIds = {p1, p2}
    Headers <- MCHeaders
    Types = {lasting, short}
    Permanent = {lasting}
    Requests <- MCRequests
    Waits = {1, 2}
    MaxActions = 3
INVARIANTS
    TypeOK
    ActionsInOrder
    SessionsHaveActions
    ErrorsEndSessions
    PermanentOnce
    StartedOnce
    ModifyPutsBack
PROPERTIES
    SilentSessionsEnd
    ImplementsSessionPlan
