---------------------------- MODULE MCAdminEntry ----------------------------
(* Small instances of AdminEntry: one service, few requests, two sidecars. *)
EXTENDS AdminEntry, TLC

CONSTANTS a, b, s1, p1, root1, viewer1, r1, r2

Req(op, id, kid, cmd) == [op |-> op, id |-> id, kid |-> kid, cmd |-> cmd]
Create == [op |-> "create", service |-> s1, peers |-> {}]
Set == [op |-> "set", service |-> s1, peers |-> {p1}]

\* Two writes of a root, a write and a read of a viewer.
MCRequests == {Req("create_service", r1, root1, Create), Req("set_members", r2, root1, Set),
               Req("set_members", r2, viewer1, Set), Req("status", r2, viewer1, Set)}

Times == 0 .. 5
RootCommands == {[op |-> "admin", id |-> q.id, hash |-> request_hash(q.kid, q.cmd),
                  ts |-> t, cmd |-> q.cmd] : q \in Requests, t \in Times}

SidecarSymmetry == Permutations(Sidecars)
=============================================================================
