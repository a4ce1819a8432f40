\* Two founders and a new node: a late or forwarded join, an expiring token, one
\* fault anywhere and one change of the voters.
SPECIFICATION FairJoinSpec
CONSTANTS
    a = a  b = b  x = x
    None = None  Auth = Auth
    Nodes = {a, b, x}
    Founders = {a, b}
    FirstLeader = b
    Configured <- MCConfigured
    Tokens <- MCTokens
    JoinToken <- MCJoinToken
    Discovered = {b}
    Skew = 0
    MaxNow = 2
    FirstNow = 1
    MaxFaults = 1
    MaxChanges = 1
INVARIANTS JoinTypeOK AdmittedOnAUse 
PROPERTIES TablesConverge KnownLeaderIsFollowed 
CHECK_DEADLOCK FALSE
