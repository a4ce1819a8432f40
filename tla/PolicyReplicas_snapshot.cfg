\* One voter, one learner that catches up by log or by snapshot.
SPECIFICATION ReplicasSpec
CONSTANTS
    s1 = s1  p1 = p1  r1 = r1  root1 = root1  net = net  None = None  a = a  b = b
    Services = {s1}
    ValidServices = {s1}
    Peers = {p1}
    ValidPeers = {p1}
    Kids = {root1}
    RequestIds = {r1}
    Jtis = {}
    Network = net
    Commands <- TwoCommands
    MaxLog = 2
    U64Max = 20
    DedupMax = 2
    DedupTtl = 5
    Replicas = {a, b}
    Quorums <- LearnerQuorums
    MaxVote = 1
    MaxCrashes = 1
    SnapshotEvery = 1
    OverlappingBuild = FALSE
INVARIANTS ReplicaFollowsHistory LogHasNoHole CommittedIsDurable
PROPERTIES NothingGoesBack ImplementsReplicatedPolicy
CHECK_DEADLOCK FALSE
