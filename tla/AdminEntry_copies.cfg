SPECIFICATION EntrySpec
CONSTANTS
    a = a
    b = b
    s1 = s1
    p1 = p1
    root1 = root1
    viewer1 = viewer1
    r1 = r1
    r2 = r2
    None = None
    Network = net1
    Services = {s1}
    ValidServices = {s1}
    Peers = {p1}
    ValidPeers = {p1}
    Kids = {root1, viewer1}
    Roots = {root1}
    RequestIds = {r1, r2}
    Jtis = {}
    U64Max = 9
    DedupMax = 4
    DedupTtl = 2
    Commands <- RootCommands
    MaxLog = 3
    Sidecars = {a, b}
    Requests <- MCRequests
    Skew = 1
    MaxSeenNonces = 1
    MaxCopies = 2
    MaxNow = 2
    MaxFaults = 1
CHECK_DEADLOCK FALSE
SYMMETRY SidecarSymmetry
INVARIANTS  OkNamesItsEntry 
