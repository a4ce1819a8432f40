---------------------------- MODULE MCPolicyLog ----------------------------
(***************************************************************************)
(* Small instances of PolicyLog for TLC.                                   *)
(***************************************************************************)
EXTENDS PolicyLog

CONSTANTS s1, p1, p2, badService, badPeer, root1, root2, r1, r2, r3, r4, j1, net

MCServices == {s1, badService}
MCPeers == {p1, p2, badPeer}

Create(s, ps) == [op |-> "create", service |-> s, peers |-> ps]
Members(op, s, ps) == [op |-> op, service |-> s, peers |-> ps]
Delete(s) == [op |-> "delete", service |-> s]
Renew(t) == [op |-> "renew", expires_at |-> t]
Consume(p, t) == [op |-> "consume", jti |-> j1, peer |-> p, used_at |-> t]
Token(jti, v, n, uses, bind, exp) ==
    [jti |-> jti, v |-> v, network |-> n, max_uses |-> uses, bind |-> bind, expires_at |-> exp]
Issue(token) == [op |-> "issue", token |-> token]
Admin(kid, id, ts, cmd) ==
    [op |-> "admin", id |-> id, hash |-> request_hash(kid, cmd), ts |-> ts, cmd |-> cmd]
Blank == [op |-> "blank"]
Membership == [op |-> "membership"]

\* One service created, changed and deleted by two administrators; requests
\* retried within the TTL, past it and pushed out of a two-entry table, or
\* repeated with another content; a join token of two uses tried by two peers
\* before and after it expires; and the entries openraft itself appends.
MCCommands ==
    {Admin(root1, r1, ts, Create(s1, {p1})) : ts \in {1, 3}}
        \cup {Admin(root1, r2, 1, Members("add", s1, {p2})), Admin(root1, r2, 1, Members("add", s1, {badPeer})),
              Admin(root1, r3, 2, Members("set", s1, {p2})), Admin(root1, r3, 2, Members("remove", s1, {p1})),
              Admin(root2, r1, 2, Delete(s1)), Admin(root2, r2, 1, Create(badService, {})),
              Admin(root1, r4, 1, Issue(Token(j1, 1, net, 2, None, 2))), Renew(5), Blank, Membership}
        \cup {Consume(p1, 1), Consume(p2, 2), Consume(p1, 3)}

=============================================================================
