-------------------------- MODULE MCPolicyReplicas --------------------------
(***************************************************************************)
(* Small instances of PolicyReplicas for TLC.                              *)
(***************************************************************************)
EXTENDS PolicyReplicas

CONSTANTS s1, p1, r1, root1, net, a, b

Renew == [op |-> "renew", expires_at |-> 1]
CreateCmd == [op |-> "create", service |-> s1, peers |-> {p1}]
Create == [op |-> "admin", id |-> r1, hash |-> request_hash(root1, CreateCmd), ts |-> 1,
           cmd |-> CreateCmd]

RenewOnly == {Renew}
TwoCommands == {Renew, Create}

\* a is the voter, b a learner.
LearnerQuorums == {{a}}

=============================================================================
