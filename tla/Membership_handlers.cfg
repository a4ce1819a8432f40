\* Two handlers, a refusal, a lost answer and an election.  It may stop when the requests are used up.
SPECIFICATION MembershipSpec
CONSTANTS
    a = a  b = b  c = c  h1 = h1  h2 = h2
    None = None
    Nodes = {a, b, c}
    Founders = {a, b}
    Keyed = {a, b, c}
    Slots = {h1, h2}
    MaxRequests = 3
    MaxRefusals = 1
    MaxKept = 1
    MaxLost = 1
    MaxElections = 2
    MaxOverlaps = 1
INVARIANTS SeedFollowsVoters 
CHECK_DEADLOCK FALSE
SYMMETRY MembershipSymmetry
