\* Two sidecars, one service, one failing save, one restart; they may fall silent.
SPECIFICATION SyncFairSpec
CONSTANTS
    a = a  b = b  s1 = s1  p1 = p1  p2 = p2  None = None
    Services = {s1}
    Peers = {p1, p2}
    members_hash <- Hashes
    initial <- Seeded
    Sidecars = {a, b}
    Changes <- MCChanges
    MaxChanges = 3
    MaxSaveFailures = 1
    MaxRestarts = 1
INVARIANTS PullsAgree
PROPERTIES FenceNeverFalls IndexVersionNeverFalls Convergence
CHECK_DEADLOCK FALSE
