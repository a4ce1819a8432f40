---------------------------- MODULE MCPublisher ----------------------------
(***************************************************************************)
(* Small instances of Publisher for TLC.                                   *)
(***************************************************************************)
EXTENDS Publisher, TLC

CONSTANTS s1, p1, r1, r2, root1, net, a, b

Admin(id, cmd) ==
    [op |-> "admin", id |-> id, hash |-> request_hash(root1, cmd), ts |-> 1, cmd |-> cmd]
Create == Admin(r1, [op |-> "create", service |-> s1, peers |-> {}])
Add == Admin(r2, [op |-> "add", service |-> s1, peers |-> {p1}])

SidecarSymmetry == Permutations({a, b})

MCChanges == {Create, Add}
MCCommands == MCChanges \cup {RenewIndex(t) : t \in 0 .. MaxNow}

=============================================================================
