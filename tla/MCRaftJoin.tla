----------------------------- MODULE MCRaftJoin -----------------------------
(* Small instances of RaftJoin. *)
EXTENDS RaftJoin, TLC

CONSTANTS a, b, x

\* One token, for any sidecar and any node, good for one use.
MCTokens == {[jti |-> "jti", audience |-> Auth, expires_at |-> 1, max_uses |-> 1,
              bind_peer_id |-> None]}
MCJoinToken == [n \in Nodes |-> IF n \in Founders THEN None ELSE CHOOSE t \in MCTokens : TRUE]
\* The founders name each other; the new node names one of them.
MCConfigured == [n \in Nodes |-> IF n \in Founders THEN Founders ELSE {a}]
=============================================================================
