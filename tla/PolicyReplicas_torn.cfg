\* A snapshot build that commits while the snapshot is being read.
SPECIFICATION ReplicasSpec
CONSTANTS
    s1 = s1  p1 = p1  r1 = r1  root1 = root1  net = net  None = None  a = a  b = b
    Services = {s1}
    ValidServices = {s1}
    Peers = {p1}
    ValidPeers = {p1}
    Kids = {root1}
    RequestIds = {r1}
    Jtis = {}
    Network = net
    Commands <- RenewOnly
    MaxLog = 3
    U64Max = 20
    DedupMax = 2
    DedupTtl = 5
    Replicas = {a, b}
    Quorums <- LearnerQuorums
    MaxVote = 0
    MaxCrashes = 1
    SnapshotEvery = 1
    OverlappingBuild = TRUE
INVARIANTS ReplicaFollowsHistory
CHECK_DEADLOCK FALSE
