----------------------------- MODULE Transport -----------------------------
(***************************************************************************)
(* The signed RPCs of the Raft sidecars and the table of member keys they  *)
(* are checked against (src/raft/transport.rs, network.rs, mod.rs; the     *)
(* watcher of src/runtime.rs).  A node serves a request only when the key  *)
(* of the sender is in its table, and takes a reply only when the key of   *)
(* the target is; the table is replaced by the newest membership the node  *)
(* has stored, in a read and a write of its own.                           *)
(*                                                                         *)
(* openraft is external.  Of its log only the membership changes are kept  *)
(* (configs); a change is stored by a quorum in one step, a leader has the *)
(* newest one, and replication is retried for ever.  Its metrics are       *)
(* reported on every tick, so the watcher of a running node always runs    *)
(* again.  Signatures are sound: the sender of an envelope signed it.      *)
(***************************************************************************)
EXTENDS Naturals, Sequences, FiniteSets

CONSTANTS
    Nodes,
    Founders,      \* the voters the cluster is bootstrapped with
    FirstLeader,   \* and the one of them that leads at first
    Configured,    \* per node: the members its [cluster] section names
    None

ASSUME TransportAssumption ==
    /\ Founders \subseteq Nodes /\ FirstLeader \in Founders
    /\ Configured \in [Nodes -> SUBSET Nodes]
    /\ None \notin Nodes

VARIABLES
    configs,   \* the committed memberships, oldest first
    stored,    \* per node: how many of them its log holds
    leader,    \* the node whose proposals commit, or None
    sees,      \* per node: the leader its Raft metrics show, or None
    up,        \* per node: down, starting (ctx.raft is not set yet) or ready
    table,     \* per node: the nodes in RpcVerifier.keys
    fresh      \* per node: what the watcher has read and not yet written, or None

transportVars == <<configs, stored, leader, sees, up, table, fresh>>

Config == [voters : SUBSET Nodes, learners : SUBSET Nodes]

TransportTypeOK ==
    /\ configs \in Seq(Config)
    /\ stored \in [Nodes -> 0 .. Len(configs)]
    /\ leader \in Nodes \cup {None} /\ sees \in [Nodes -> Nodes \cup {None}]
    /\ up \in [Nodes -> {"down", "starting", "ready"}]
    /\ table \in [Nodes -> SUBSET Nodes]
    /\ fresh \in [Nodes -> (SUBSET Nodes) \cup {None}]

members(c) == c.voters \cup c.learners

current == configs[Len(configs)]

\* The members in node n's metrics: those of the newest membership it stores.
membership_view(n) == IF stored[n] = 0 THEN {} ELSE members(configs[stored[n]])

-----------------------------------------------------------------------------
(* The verifier. *)

replace_nodes(n, nodes) == table' = [table EXCEPT ![n] = nodes]

encode_request(p, q) == [from |-> p, to |-> q]

encode_reply(q, p, ok) == [from |-> q, to |-> p, ok |-> ok]

verify_request(q, envelope) == envelope.to = q /\ envelope.from \in table[q]

verify_reply(p, expected_from, reply) ==
    /\ reply.from = expected_from /\ reply.to = p
    /\ expected_from \in table[p]
    /\ reply.ok

\* Node q hands a request of p to openraft; before ctx.raft is set it refuses.
handle_rpc(q, p) == up[q] = "ready" /\ verify_request(q, encode_request(p, q))

\* A call of p that returned without error: served by q, and the answer taken.
send(p, q) ==
    /\ up[p] = "ready"
    /\ handle_rpc(q, p)
    /\ verify_reply(p, q, encode_reply(q, p, TRUE))

-----------------------------------------------------------------------------
(* refresh_verifier_from_metrics, as the watcher runs it. *)

\* Mutant of refresh: the watcher runs only while the node leads.
refresh_leader(n) ==
    /\ up[n] = "ready" /\ fresh[n] = None
    /\ sees[n] = n
    /\ membership_view(n) \notin {{}, table[n]}
    /\ replace_nodes(n, membership_view(n))
    /\ UNCHANGED <<configs, stored, leader, sees, up, fresh>>

\* Where no handler refreshes the table, too, the watcher is alone in writing
\* it, and one step will do.  An empty membership leaves the table as it is.
refresh(n) ==
    /\ up[n] = "ready" /\ fresh[n] = None
    /\ membership_view(n) \notin {{}, table[n]}
    /\ replace_nodes(n, membership_view(n))
    /\ UNCHANGED <<configs, stored, leader, sees, up, fresh>>

\* Beside a handler the metrics are read ...
refresh_read(n) ==
    /\ up[n] = "ready" /\ fresh[n] = None
    /\ membership_view(n) # {}
    /\ fresh' = [fresh EXCEPT ![n] = membership_view(n)]
    /\ UNCHANGED <<configs, stored, leader, sees, up, table>>

\* ... and the table is replaced, by what may be an older membership by then.
refresh_write(n) ==
    /\ fresh[n] # None
    /\ replace_nodes(n, fresh[n])
    /\ fresh' = [fresh EXCEPT ![n] = None]
    /\ UNCHANGED <<configs, stored, leader, sees, up>>

-----------------------------------------------------------------------------
(* openraft over the signed transport. *)

Majority(Q, V) == Q \subseteq V /\ 2 * Cardinality(Q) > Cardinality(V)

\* The nodes p can have store an entry that follows its whole log.
Followers(p) == {m \in members(current) \ {p} : send(p, m) /\ stored[m] = Len(configs)}

\* Entries are stored by every node that can be reached, or by the voters
\* among them while the learners lag.
CommitSets(p) == {Followers(p), Followers(p) \cap current.voters}

\* Leader p can commit with the nodes of Q besides itself.
Commits(p, Q) ==
    /\ leader = p /\ up[p] = "ready"
    /\ Q \in CommitSets(p)
    /\ Majority((Q \cup {p}) \cap current.voters, current.voters)

\* Membership c is committed by p and stored by it and Q, a quorum of c, too.
ChangeMembership(p, Q, c) ==
    /\ Commits(p, Q)
    /\ Majority((Q \cup {p}) \cap c.voters, c.voters)
    /\ configs' = Append(configs, c)
    /\ stored' = [m \in Nodes |-> IF m \in Q \cup {p} THEN Len(configs) + 1 ELSE stored[m]]
    /\ UNCHANGED <<leader, sees, up, table, fresh>>

\* Mutant of append_entries: the follower counts one entry too many.
append_entries_past(p, q, k) ==
    /\ leader = p /\ up[p] = "ready" /\ q # p /\ q \in members(current)
    /\ handle_rpc(q, p)
    /\ k \in stored[q] .. Len(configs)
    /\ k = stored[q] => k = Len(configs) /\ sees[q] # p
    /\ stored' = [stored EXCEPT ![q] = k + 1]
    /\ sees' = [sees EXCEPT ![q] = p]
    /\ UNCHANGED <<configs, leader, up, table, fresh>>

\* The leader sends q the entries up to k, or a heartbeat when it has them.
append_entries(p, q, k) ==
    /\ leader = p /\ up[p] = "ready" /\ q # p /\ q \in members(current)
    /\ handle_rpc(q, p)
    /\ k \in stored[q] .. Len(configs)
    /\ k = stored[q] => k = Len(configs) /\ sees[q] # p
    /\ stored' = [stored EXCEPT ![q] = k]
    /\ sees' = [sees EXCEPT ![q] = p]
    /\ UNCHANGED <<configs, leader, up, table, fresh>>

\* Voters that grant n their vote: they serve its request and are not ahead.
Granting(n) == {m \in configs[stored[n]].voters \ {n} : send(n, m) /\ stored[m] <= stored[n]}

\* n wins an election, after a timeout or the Elect request of the leader.
vote(n) ==
    /\ up[n] = "ready" /\ stored[n] > 0 /\ leader # n
    /\ n \in configs[stored[n]].voters
    /\ Majority(Granting(n) \cup {n}, configs[stored[n]].voters)
    /\ leader' = n
    /\ sees' = [m \in Nodes |-> IF m = n THEN n ELSE IF m \in Granting(n) THEN None ELSE sees[m]]
    /\ UNCHANGED <<configs, stored, up, table, fresh>>

-----------------------------------------------------------------------------
(* Processes. *)

\* RaftRuntime::start: the configured members, the node itself and the stored
\* membership; the refresh at its end leaves only the latter when there is one.
start(n) ==
    /\ up[n] = "down"
    /\ up' = [up EXCEPT ![n] = "starting"]
    /\ replace_nodes(n, IF membership_view(n) # {} THEN membership_view(n)
                        ELSE Configured[n] \cup {n})
    /\ UNCHANGED <<configs, stored, leader, sees, fresh>>

\* The end of ensure_raft: the watcher runs and ctx.raft is set.
set_ready(n) ==
    /\ up[n] = "starting"
    /\ up' = [up EXCEPT ![n] = "ready"]
    /\ UNCHANGED <<configs, stored, leader, sees, table, fresh>>

crash(n) ==
    /\ up[n] # "down"
    /\ up' = [up EXCEPT ![n] = "down"]
    /\ table' = [table EXCEPT ![n] = {}]
    /\ fresh' = [fresh EXCEPT ![n] = None]
    /\ sees' = [sees EXCEPT ![n] = None]
    /\ leader' = IF leader = n THEN None ELSE leader
    /\ UNCHANGED <<configs, stored>>

TransportInit ==
    /\ configs = <<[voters |-> Founders, learners |-> {}]>>
    /\ stored = [n \in Nodes |-> IF n \in Founders THEN 1 ELSE 0]
    /\ leader = FirstLeader
    /\ sees = [n \in Nodes |-> IF n \in Founders THEN leader ELSE None]
    /\ up = [n \in Nodes |-> IF n \in Founders THEN "ready" ELSE "down"]
    /\ table = [n \in Nodes |-> IF n \in Founders THEN Founders ELSE {}]
    /\ fresh = [n \in Nodes |-> None]
=============================================================================
