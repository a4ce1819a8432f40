\* Cluster and legacy mode: three connections that may overlap, one crash, two
\* sidecars to join.
SPECIFICATION StartupSpec
CONSTANTS
    c1 = c1  c2 = c2  c3 = c3  None = None
    Conns = {c1, c2, c3}
    Modes = {TRUE, FALSE}
    MaxCrashes = 1
    p1 = p1  p2 = p2  k1 = k1  k2 = k2
    Peers = {p1, p2}
    Willing = {p1, p2}
    KeyOf <- MCKeyOf
    IndexKey = k1
INVARIANTS RaftStartsOnce KeyAndStateAgree
PROPERTIES DeadClientsLeave ReadyOrExit
