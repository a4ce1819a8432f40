\* Two sidecars and a change of leader, the deposed one not knowing.
SPECIFICATION PublisherSpec
CONSTANTS
    s1 = s1  p1 = p1  r1 = r1  r2 = r2  root1 = root1  net = net  None = None  a = a  b = b
    Services = {s1}
    ValidServices = {s1}
    Peers = {p1}
    ValidPeers = {p1}
    Kids = {root1}
    RequestIds = {r1, r2}
    Jtis = {}
    Network = net
    Commands <- MCCommands
    Changes <- MCChanges
    MaxLog = 2
    U64Max = 20
    DedupMax = 2
    DedupTtl = 5
    Sidecars = {a, b}
    PUBLISH_ROUND_ATTEMPTS = 2
    ExpiresSecs = 1
    MaxNow = 0
    MaxElections = 1
    MaxFailures = 0
    MaxRequests = 1
INVARIANTS IndexIsCommittedPolicy 
 
CHECK_DEADLOCK FALSE
SYMMETRY SidecarSymmetry
