\* A request that is read or forwarded, and another call, interleaving with each other, the
\* read loop, a node that stops reading and the end of the connection.
SPECIFICATION ReadSpec
CONSTANTS
    i1 = i1  i2 = i2  q = q  None = None
    Calls = {i1, i2}
    Requests = {q}
    Forward <- MCForward
    MaxIndex = 1
    MaxTerm = 2
INVARIANTS UnmatchedHasTimedOut  ReadIsFresh IndexCoversState
PROPERTIES CallsEnd RequestsAreAnswered
