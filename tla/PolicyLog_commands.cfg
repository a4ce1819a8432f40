\* Every kind of entry; the log stops at MaxLog, so a full log is not a deadlock.
SPECIFICATION LogSpec
CONSTANTS
    s1 = s1  p1 = p1  p2 = p2  badService = badService  badPeer = badPeer
    root1 = root1  root2 = root2  r1 = r1  r2 = r2  r3 = r3  r4 = r4  j1 = j1  net = net  None = None
    Services <- MCServices
    ValidServices = {s1}
    Peers <- MCPeers
    ValidPeers = {p1, p2}
    Kids = {root1, root2}
    RequestIds = {r1, r2, r3, r4}
    Jtis = {j1}
    Network = net
    Commands <- MCCommands
    MaxLog = 5
    U64Max = 20
    DedupMax = 2
    DedupTtl = 1
INVARIANTS LogTypeOK EpochIdentifiesPolicy RejectionChangesNothing RetryIsIdempotent TokenAdmitsAtMostMaxUses
CHECK_DEADLOCK FALSE
