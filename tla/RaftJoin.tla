------------------------------ MODULE RaftJoin ------------------------------
(***************************************************************************)
(* How a node joins a Raft cluster with a token (src/raft/join.rs,         *)
(* token.rs, mod.rs try_join; src/service.rs issue_join_token,             *)
(* handle_raft_join and handle_leader_join; src/runtime.rs ensure_raft).   *)
(* The new node asks one candidate after the other with a single signed    *)
(* request; a sidecar that does not lead forwards it; the leader checks    *)
(* it again, spends a use of the token through the log, adds the node as a *)
(* learner and answers with the members, whose keys the node then trusts.  *)
(* Everything in between may be lost, late or overtaken by an election, a  *)
(* crash or the clock.                                                     *)
(*                                                                         *)
(* Signatures are sound, and every node has the same cluster_id, network   *)
(* and administrator keys, and allow_join set.  Changes of the voters are  *)
(* module Membership; here they are committed without their handlers.      *)
(***************************************************************************)
EXTENDS Transport

CONSTANTS
    Tokens,         \* tokens a root signs: [jti, audience, expires_at, max_uses, bind_peer_id]
    JoinToken,      \* per node: the token at its join_token_path, or None
    Discovered,     \* what discover_providers answers
    Auth,           \* the audience "auth": any sidecar
    Skew,           \* RAFT_JOIN_MAX_TS_SKEW_SECS
    MaxNow,         \* bound on the clock
    FirstNow,       \* the clock starts here
    MaxFaults,      \* bound on crashes, late answers, lost commits, needless elections and ticks
    MaxChanges      \* bound on the changes of the voters

ASSUME JoinAssumption ==
    /\ JoinToken \in [Nodes -> Tokens \cup {None}] /\ None \notin Tokens
    /\ Discovered \subseteq Nodes /\ Auth \notin Nodes \cup {None}
    /\ \A t \in Tokens : /\ t.audience \in Nodes \cup {Auth} /\ t.bind_peer_id \in Nodes \cup {None}
                         /\ t.expires_at \in Nat /\ t.max_uses \in Nat
    /\ Skew \in Nat /\ MaxNow \in Nat /\ FirstNow \in 0 .. MaxNow
    /\ MaxFaults \in Nat /\ MaxChanges \in Nat

VARIABLES
    tokens,    \* PolicyState.join_tokens: the issued ones, [token, uses]
    now,
    join,      \* per node: try_join, [phase, left, ts]
    calls,     \* raft_join requests being handled, and their answers
    spent,     \* the uses committed: [token, node, at]
    budget     \* what is left of each bound

joinVars == <<tokens, now, join, calls, spent, budget>>
vars == <<transportVars, joinVars>>

\* The nodes that have a token.
Joiners == {n \in Nodes : JoinToken[n] # None}

NotAsked == [phase |-> "none", left |-> {}, ts |-> 0]

\* A request of node, at the sidecar that handles it; edge is edge_peer; ts is
\* when it was signed, and then when the leader checked it; live while the node
\* waits for the answer; view is what the handler has read.
Call == [node : Nodes, at : Nodes, edge : Nodes \cup {None}, ts : 0 .. MaxNow, live : BOOLEAN,
         phase : {"request", "consume", "add", "refresh", "reply", "ok", "error"},
         view : SUBSET Nodes]

JoinTypeOK ==
    /\ TransportTypeOK
    /\ tokens \subseteq [token : Tokens, uses : Nat]
    /\ now \in 0 .. MaxNow
    /\ join \in [Nodes -> [phase : {"none", "asking", "joined", "failed"}, left : SUBSET Nodes,
                           ts : 0 .. MaxNow]]
    /\ calls \subseteq Call
    /\ spent \subseteq [token : Tokens, node : Nodes, at : 0 .. MaxNow]

Bounds == [faults |-> MaxFaults, changes |-> MaxChanges]

Spend(field) == budget[field] > 0 /\ budget' = [budget EXCEPT ![field] = @ - 1]

JoinInit ==
    /\ TransportInit
    /\ tokens = {} /\ now = FirstNow /\ calls = {} /\ spent = {}
    /\ join = [n \in Nodes |-> NotAsked]
    /\ budget = Bounds

-----------------------------------------------------------------------------
(* Tokens. *)

\* The checks of a token that need no log.
verify_join_token(t, audiences) ==
    /\ t.expires_at # 0 /\ now <= t.expires_at
    /\ t.max_uses # 0
    /\ t.audience \in {Auth} \cup audiences

\* The checks of a request; its token is the one the node was configured with.
verify_request_of(call, audiences) ==
    LET t == JoinToken[call.node]
    IN  /\ now - call.ts <= Skew
        /\ t.bind_peer_id \in {None, call.node}
        /\ verify_join_token(t, audiences)

recorded(jti) == {r \in tokens : r.token.jti = jti}

\* What the state machine answers to ConsumeJoinToken.
consume_join_token(t, node, used_at) ==
    \E r \in recorded(t.jti) :
        /\ r.uses < r.token.max_uses
        /\ r.token.bind_peer_id \in {None, node}
        /\ r.token.expires_at # 0 /\ used_at <= r.token.expires_at

\* A root has token t recorded.  Its audience is not checked here.
issue_join_token(p, Q, t) ==
    /\ verify_join_token(t, {p, t.audience})
    /\ recorded(t.jti) = {}
    /\ Commits(p, Q)
    /\ tokens' = tokens \cup {[token |-> t, uses |-> 0]}
    /\ UNCHANGED <<transportVars, now, join, calls, spent, budget>>

-----------------------------------------------------------------------------
(* The joining node: ensure_raft and try_join. *)

Start(n) ==
    /\ start(n)
    /\ join' = [join EXCEPT ![n] = NotAsked]
    /\ UNCHANGED <<tokens, now, calls, spent, budget>>

\* Members of the configuration and providers found, without the node itself.
join_candidates(n, discovered) == (Configured[n] \cup discovered) \ {n}

\* An initialised node, or one without a token, does not ask; discovery may fail.
try_join(n, discovered) ==
    /\ up[n] = "starting" /\ join[n].phase = "none"
    /\ stored[n] = 0 /\ JoinToken[n] # None
    /\ LET candidates == join_candidates(n, discovered)
       IN  join' = [join EXCEPT ![n] =
                      [phase |-> IF candidates = {} THEN "failed" ELSE "asking",
                       left |-> candidates, ts |-> now]]
    /\ UNCHANGED <<transportVars, tokens, now, calls, spent, budget>>

Waiting(n) == \E call \in calls : call.node = n /\ call.live

\* Mutant of ask: the candidate is not taken off the list.
ask_again(n) ==
    /\ join[n].phase = "asking" /\ ~Waiting(n)
    /\ \E peer \in join[n].left :
          calls' = calls \cup {[node |-> n, at |-> peer, edge |-> None, ts |-> join[n].ts,
                               live |-> TRUE, phase |-> "request", view |-> {}]}
    /\ UNCHANGED <<transportVars, tokens, now, join, spent, budget>>

\* The same request to the next candidate; when none is left the join failed.
ask(n) ==
    /\ join[n].phase = "asking" /\ ~Waiting(n)
    /\ \/ /\ join[n].left = {}
          /\ join' = [join EXCEPT ![n].phase = "failed"]
          /\ UNCHANGED calls
       \/ \E peer \in join[n].left :
            /\ join' = [join EXCEPT ![n].left = @ \ {peer}]
            /\ calls' = calls \cup {[node |-> n, at |-> peer, edge |-> None, ts |-> join[n].ts,
                                     live |-> TRUE, phase |-> "request", view |-> {}]}
    /\ UNCHANGED <<transportVars, tokens, now, spent, budget>>

\* An answer: the members become the table; an error lets the next one be
\* asked; an answer nobody waits for is dropped.
take_answer(call) ==
    /\ call \in calls /\ call.phase \in {"ok", "error"}
    /\ calls' = calls \ {call}
    /\ IF call.live /\ call.phase = "ok"
       THEN /\ replace_nodes(call.node, call.view \cup {call.node})
            /\ join' = [join EXCEPT ![call.node].phase = "joined"]
       ELSE UNCHANGED <<table, join>>
    /\ UNCHANGED <<configs, stored, leader, sees, up, fresh, tokens, now, spent, budget>>

\* rpc_timeout: the request goes on without anyone waiting for it.  An answer
\* that is late for no reason in the model counts as a fault.
give_up(call) ==
    /\ call \in calls /\ call.live
    /\ IF call.phase \in {"consume", "add"} /\ leader = call.at
             /\ ~\E Q \in CommitSets(call.at) : Commits(call.at, Q)
       THEN UNCHANGED budget ELSE Spend("faults")
    /\ calls' = (calls \ {call}) \cup {[call EXCEPT !.live = FALSE]}
    /\ UNCHANGED <<transportVars, tokens, now, join, spent>>

\* Mutant of ensure_raft: a node whose join failed is not made ready.
ensure_raft_joined(n) ==
    /\ join[n].phase = "joined" \/ (join[n].phase = "none" /\ (stored[n] > 0 \/ JoinToken[n] = None))
    /\ set_ready(n)
    /\ UNCHANGED joinVars

\* Whatever try_join returned, the node then serves.
ensure_raft(n) ==
    /\ join[n].phase \in {"joined", "failed"}
          \/ (join[n].phase = "none" /\ (stored[n] > 0 \/ JoinToken[n] = None))
    /\ set_ready(n)
    /\ UNCHANGED joinVars

-----------------------------------------------------------------------------
(* The sidecars that are asked. *)

Move(call, next) == calls' = (calls \ {call}) \cup {next}

Fail(call) == Move(call, [call EXCEPT !.phase = "error"])

\* What the leader checks before it proposes: the request again, that the node
\* is no member in its view, and the recorded token.
handle_leader_join(call) ==
    /\ verify_request_of(call, {call.at, call.edge})
    /\ call.node \notin membership_view(call.at)
    /\ \E r \in recorded(JoinToken[call.node].jti) :
          r.token = JoinToken[call.node] /\ r.uses < r.token.max_uses

\* A sidecar that leads handles the request, another one forwards it to the
\* leader it sees; there the same handler runs, and may forward it again.
handle_raft_join(call) ==
    LET n == call.at
    IN  /\ call \in calls /\ call.phase = "request"
        /\ IF up[n] # "ready" \/ ~verify_request_of(call, {n}) THEN Fail(call)
           ELSE IF sees[n] = n
                THEN IF handle_leader_join(call)
                     THEN Move(call, [call EXCEPT !.phase = "consume", !.ts = now])
                     ELSE Fail(call)
           ELSE IF sees[n] \in membership_view(n)
                THEN Move(call, [call EXCEPT !.at = sees[n], !.edge = n])
           ELSE Fail(call)
        /\ UNCHANGED <<transportVars, tokens, now, join, spent, budget>>

\* Mutant of consume: a rejected use does not stop the handler.
consume_unchecked(call, Q, used_at) ==
    LET t == JoinToken[call.node]
    IN  /\ call \in calls /\ call.phase = "consume"
        /\ IF leader # call.at
           THEN Fail(call) /\ UNCHANGED <<tokens, spent, budget>>
           ELSE /\ Commits(call.at, Q)
                /\ IF ~consume_join_token(t, call.node, used_at)
                   THEN UNCHANGED <<tokens, spent>>
                   ELSE /\ tokens' = {IF r.token.jti = t.jti THEN [r EXCEPT !.uses = @ + 1] ELSE r :
                                          r \in tokens}
                        /\ spent' = spent \cup {[token |-> t, node |-> call.node, at |-> used_at]}
                /\ Move(call, [call EXCEPT !.phase = "add"]) /\ UNCHANGED budget
        /\ UNCHANGED <<transportVars, now, join>>

\* The use is committed, some time after used_at was read; a leader that lost
\* its place meanwhile, or never hears of the commit, answers with an error.
consume(call, Q, used_at) ==
    LET t == JoinToken[call.node]
    IN  /\ call \in calls /\ call.phase = "consume"
        /\ IF leader # call.at
           THEN Fail(call) /\ UNCHANGED <<tokens, spent, budget>>
           ELSE /\ Commits(call.at, Q)
                /\ IF ~consume_join_token(t, call.node, used_at)
                   THEN Fail(call) /\ UNCHANGED <<tokens, spent, budget>>
                   ELSE /\ tokens' = {IF r.token.jti = t.jti THEN [r EXCEPT !.uses = @ + 1] ELSE r :
                                          r \in tokens}
                        /\ spent' = spent \cup {[token |-> t, node |-> call.node, at |-> used_at]}
                        /\ \/ Move(call, [call EXCEPT !.phase = "add"]) /\ UNCHANGED budget
                           \/ Fail(call) /\ Spend("faults")
        /\ UNCHANGED <<transportVars, now, join>>

\* Mutant of add_learner_node: the key is added before the change is committed.
add_learner_node_first(call, Q) ==
    /\ call \in calls /\ call.phase = "add"
    /\ IF leader # call.at \/ call.node \in membership_view(call.at)
       THEN /\ table' = [table EXCEPT ![call.at] = @ \cup {call.node}]
            /\ Fail(call) /\ UNCHANGED <<configs, stored, leader, sees, up, fresh>>
       ELSE /\ ChangeMembership(call.at, Q, [current EXCEPT !.learners = @ \cup {call.node}])
            /\ Move(call, [call EXCEPT !.phase = "refresh"])
    /\ UNCHANGED <<tokens, now, join, spent, budget>>

\* The node becomes a learner, unless another request made it one meanwhile.
add_learner_node(call, Q) ==
    /\ call \in calls /\ call.phase = "add"
    /\ IF leader # call.at \/ call.node \in membership_view(call.at)
       THEN Fail(call) /\ UNCHANGED transportVars
       ELSE /\ ChangeMembership(call.at, Q, [current EXCEPT !.learners = @ \cup {call.node}])
            /\ Move(call, [call EXCEPT !.phase = "refresh"])
    /\ UNCHANGED <<tokens, now, join, spent, budget>>

\* The handler refreshes the table beside the watcher: a read ...
handler_refresh_read(call) ==
    /\ call \in calls /\ call.phase = "refresh"
    /\ Move(call, [call EXCEPT !.phase = "reply", !.view = membership_view(call.at)])
    /\ UNCHANGED <<transportVars, tokens, now, join, spent, budget>>

\* ... and a write; the answer is the view at that time, with the new node.
handler_refresh_write(call) ==
    /\ call \in calls /\ call.phase = "reply"
    /\ replace_nodes(call.at, call.view)
    /\ Move(call, [call EXCEPT !.phase = "ok",
                               !.view = membership_view(call.at) \cup {call.node}])
    /\ UNCHANGED <<configs, stored, leader, sees, up, fresh, tokens, now, join, spent, budget>>

-----------------------------------------------------------------------------
(* The rest of the cluster. *)

\* A handler dies with its process; the caller of a process that is gone gets
\* an error, and whoever it had forwarded to goes on.
Crash(n) ==
    /\ crash(n) /\ Spend("faults")
    /\ calls' = {IF call.at = n /\ call.phase \notin {"ok", "error"}
                 THEN [call EXCEPT !.phase = "error", !.live = @ /\ call.node # n]
                 ELSE [call EXCEPT !.live = @ /\ n \notin {call.node, call.edge}] : call \in calls}
    /\ UNCHANGED <<tokens, now, join, spent>>

\* An election for want of a leader, or although there is one.
Elect(n) ==
    /\ vote(n)
    /\ IF leader = None THEN UNCHANGED budget ELSE Spend("faults")
    /\ UNCHANGED <<tokens, now, join, calls, spent>>

AppendEntries(p, q, k) == append_entries(p, q, k) /\ UNCHANGED joinVars

\* A learner that has caught up becomes a voter, a voter leaves the cluster.
ChangeVoters(p, Q, n) ==
    /\ Spend("changes") /\ n # p
    /\ \/ /\ n \in current.learners /\ stored[n] = Len(configs)
          /\ ChangeMembership(p, Q, [voters |-> current.voters \cup {n},
                                     learners |-> current.learners \ {n}])
       \/ /\ n \in current.voters
          /\ ChangeMembership(p, Q, [current EXCEPT !.voters = @ \ {n}])
    /\ UNCHANGED <<tokens, now, join, calls, spent>>

\* A handler that will refresh, or is refreshing, the table of n.
Refreshing(n) == \E call \in calls : call.at = n /\ call.phase \in {"add", "refresh", "reply"}

Watcher(n) ==
    /\ \/ ~Refreshing(n) /\ refresh(n)
       \/ Refreshing(n) /\ refresh_read(n)
       \/ refresh_write(n)
    /\ UNCHANGED joinVars

Tick ==
    /\ now < MaxNow /\ Spend("faults")
    /\ now' = now + 1
    /\ UNCHANGED <<transportVars, tokens, join, calls, spent>>

Handle(call) ==
    \/ handle_raft_join(call) \/ handler_refresh_read(call) \/ handler_refresh_write(call)
    \/ call.phase \in {"consume", "add"} /\ \E Q \in CommitSets(call.at) :
          \/ \E used_at \in call.ts .. now : consume(call, Q, used_at)
          \/ add_learner_node(call, Q)

JoinNext ==
    \/ Tick
    \/ \E call \in calls : Handle(call) \/ take_answer(call) \/ give_up(call)
    \/ \E n \in Nodes :
          \/ Start(n) \/ ask(n) \/ ensure_raft(n) \/ Crash(n) \/ Elect(n)
          \/ try_join(n, Discovered) \/ try_join(n, {})
          \/ Watcher(n)
          \/ leader = n /\ \E q \in Nodes, k \in 1 .. Len(configs) : AppendEntries(n, q, k)
          \/ leader = n /\ \E Q \in CommitSets(n) :
                \/ \E t \in Tokens : issue_join_token(n, Q, t)
                \/ \E m \in Nodes : ChangeVoters(n, Q, m)

JoinSpec == JoinInit /\ [][JoinNext]_vars

\* Every step a running sidecar takes by itself: timers and retries, but not
\* being started, asked to change members, or struck by a fault.
JoinFairness ==
    /\ \A n \in Nodes :
          /\ WF_vars(ensure_raft(n)) /\ WF_vars(Watcher(n))
          /\ WF_vars(\E p \in Nodes, k \in 1 .. Len(configs) : AppendEntries(p, n, k))
    /\ \A n \in Joiners :
          /\ WF_vars(try_join(n, Discovered) \/ try_join(n, {}) \/ ask(n))
          /\ WF_vars(\E call \in calls : call.node = n /\ (Handle(call) \/ take_answer(call)))
          /\ WF_vars(\E call \in calls : call.node = n /\ give_up(call))
    /\ WF_vars(leader = None /\ \E n \in Nodes : Elect(n))

FairJoinSpec == JoinSpec /\ JoinFairness

-----------------------------------------------------------------------------
(* Properties. *)

\* Every node that entered the cluster after its bootstrap entered on a use of
\* its token that the log counted, in time and for that node, and no token is
\* used more often than it says: whatever requests run beside each other, are
\* forwarded late or answered to nobody (handle_leader_join,
\* consume_join_token).
AdmittedOnAUse ==
    /\ \A i \in DOMAIN configs : \A n \in members(configs[i]) \ Founders :
          \E s \in spent : /\ s.node = n /\ s.token = JoinToken[n]
                           /\ s.at <= s.token.expires_at /\ s.token.bind_peer_id \in {None, n}
    /\ \A r \in tokens : r.uses <= r.token.max_uses

\* A key in a verifier belongs to the node itself, to a member it was
\* configured with or to a member of a committed membership: a request that
\* is refused, or fails half way, leaves nobody trusted (add_learner_node).
TablesNameMembers ==
    \A n \in Nodes :
        table[n] \subseteq Configured[n] \cup {n} \cup UNION {members(configs[i]) : i \in DOMAIN configs}

\* In the end the keys a running node trusts are those of the membership it
\* has stored: a removed member's key goes, a new one's comes, although the
\* watcher and a handler may overwrite each other with older memberships
\* (refresh_verifier_from_metrics).
TablesConverge ==
    <>[](\A n \in Nodes : up[n] = "ready" /\ stored[n] > 0 => table[n] = membership_view(n))

\* A member that was started and trusts the leader ends up with the newest
\* membership, also when it was admitted and never got the answer
\* (ensure_raft, handle_rpc).  A member whose table does not name the leader
\* refuses its entries, and with them the membership that would name it.
KnownLeaderIsFollowed ==
    <>[](\A n \in members(current) :
           up[n] # "down" /\ leader \in table[n] => stored[n] = Len(configs))

\* try_join ends, whatever becomes of its requests: ensure_raft waits for it
\* before the node serves anything.
JoinEnds == \A n \in Nodes : join[n].phase = "asking" ~> join[n].phase # "asking"

=============================================================================
