SPECIFICATION Spec
CONSTANTS
    l = l
    a1 = a1
    a2 = a2
    listener = listener
    p1 = p1
    p2 = p2
    q = q
    n1 = n1
    n2 = n2
    x = x
    y = y
    None = None
    Addresses = {l, a1, a2}
    Own = l
    Configured = {a1}
    First = a1
    PeerIds = {listener, p1, p2, q}
    Listener = listener
    NodeIds = {n1, n2}
    NodeOf <- MCNodeOf
    RemoteOf <- MCRemoteOf
    Routes = {x, y}
    RouteOf <- MCRouteOf
    Slot <- MCSlot
    K = 1
    SilentSteps = 1
    OpenSteps = 1
    DiscoveryServer = FALSE
INVARIANT
    KbucketIsCleanedUp
