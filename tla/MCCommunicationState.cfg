SPECIFICATION Spec
CONSTANTS
    l = l
    a = a
    b = b
    p = p
    q = q
    None = None
    Addresses <- MCAddresses
    Listening = {l}
    PeerIds <- MCPeerIds
    NodeIds = {n1}
    Removals <- MCRemovals
INVARIANTS
    TypeOK
    MapsAgree
    TodoIsPassive
    DropsHaveConnection
PROPERTY
    ImplementsPeerTable
SYMMETRY Symm
