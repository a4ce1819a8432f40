\* One sidecar, a failed add_key, lost connection or restart; in the end all is published.
SPECIFICATION PublisherFairSpec
CONSTANTS
    s1 = s1  p1 = p1  r1 = r1  r2 = r2  root1 = root1  net = net  None = None  a = a  b = b
    Services = {s1}
    ValidServices = {s1}
    Peers = {p1}
    ValidPeers = {p1}
    Kids = {root1}
    RequestIds = {r1, r2}
    Jtis = {}
    Network = net
    Commands <- MCCommands
    Changes <- MCChanges
    MaxLog = 10
    U64Max = 20
    DedupMax = 2
    DedupTtl = 5
    Sidecars = {a}
    PUBLISH_ROUND_ATTEMPTS = 2
    ExpiresSecs = 1
    MaxNow = 1
    MaxElections = 0
    MaxFailures = 1
    MaxRequests = 2
 
PROPERTIES EventuallyServed
CHECK_DEADLOCK FALSE
