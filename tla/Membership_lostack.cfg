\* One handler, one answer that does not arrive.
SPECIFICATION MembershipSpec
CONSTANTS
    a = a  b = b  c = c  h1 = h1  h2 = h2
    None = None
    Nodes = {a, b}
    Founders = {a}
    Keyed = {a, b}
    Slots = {h1}
    MaxRequests = 2
    MaxRefusals = 0
    MaxKept = 0
    MaxLost = 1
    MaxElections = 0
    MaxOverlaps = 0
INVARIANTS LearnersHoldNoSeed
CHECK_DEADLOCK FALSE
