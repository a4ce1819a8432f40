----------------------------- MODULE Membership -----------------------------
(***************************************************************************)
(* The members of the Raft cluster and who holds the authority seed        *)
(* (src/service.rs execute_member_write and handle_seed_*;                 *)
(* src/raft/mod.rs; src/raft/seed.rs).  Only voters may sign, so promoting *)
(* a learner is three steps in two places: the leader delivers the seed,   *)
(* the membership changes, and when that fails the seed is withdrawn;      *)
(* demoting and removing are alike.  Handlers run as tasks of their own    *)
(* and leave the leader at every await.  Joining with a token is module    *)
(* RaftJoin.                                                               *)
(*                                                                         *)
(* openraft is external: a membership change is committed, or refused, or  *)
(* committed without the handler being told.  A seed request that timed    *)
(* out may still arrive.  The seed is in a file and in memory; both change *)
(* in one step of the holder, so one Boolean stands for them.  Sealing and *)
(* signing are taken to be sound.                                          *)
(***************************************************************************)
EXTENDS Integers, FiniteSets

CONSTANTS
    Nodes,
    Founders,      \* the voters the cluster is bootstrapped with
    Keyed,         \* the nodes whose member entry has an X25519 key
    Slots,         \* one for each handler that may run at a time
    None,
    MaxRequests,   \* bound on the requests handled
    MaxRefusals,   \* bound on the changes of voters that openraft refuses
    MaxKept,       \* bound on the removals of a node that it refuses
    MaxLost,       \* bound on the answers that do not arrive in time
    MaxElections,  \* bound on the leader changes
    MaxOverlaps    \* bound on the handlers that start beside a running one

ASSUME MembershipAssumption ==
    /\ Founders \subseteq Nodes /\ Founders # {} /\ Keyed \subseteq Nodes
    /\ None \notin Nodes \cup Slots
    /\ MaxRequests \in Nat /\ MaxRefusals \in Nat
    /\ MaxKept \in Nat /\ MaxLost \in Nat /\ MaxElections \in Nat /\ MaxOverlaps \in Nat

VARIABLES
    config,    \* the committed membership: voters and learners
    leader,    \* the node that can commit
    metrics,   \* per node: the leader and the membership its Raft metrics show
    seed,      \* per node: it holds the authority seed
    task,      \* per slot: the handler running in it
    wire,      \* seed requests under way
    budget     \* what is left of each bound

vars == <<config, leader, metrics, seed, task, wire, budget>>

Idle == [op |-> "none", at |-> None, target |-> None, phase |-> "idle", voters |-> {}]

Task == [op : {"promote", "demote", "remove", "forget", "add"}, at : Nodes, target : Nodes,
         phase : {"deliver", "drop", "undo", "restore", "transfer", "commit", "removing",
                  "add"},
         voters : SUBSET Nodes] \cup {Idle}

Config == {c \in [voters : SUBSET Nodes, learners : SUBSET Nodes] : c.voters \cap c.learners = {}}

\* A seed delivery or a seed drop; slot is the handler that waits, or None.
SeedRequest == [kind : {"deliver", "drop"}, from : Nodes, to : Nodes, slot : Slots \cup {None}]

MembershipTypeOK ==
    /\ config \in Config
    /\ leader \in Nodes
    /\ metrics \in [Nodes -> [leader : Nodes \cup {None}, config : Config]]
    /\ seed \in [Nodes -> BOOLEAN]
    /\ task \in [Slots -> Task]
    /\ wire \subseteq SeedRequest

Bounds == [requests |-> MaxRequests, refusals |-> MaxRefusals, kept |-> MaxKept,
           lost |-> MaxLost, elections |-> MaxElections, overlaps |-> MaxOverlaps]

MembershipInit ==
    /\ config = [voters |-> Founders, learners |-> {}]
    /\ leader \in Founders
    /\ metrics = [n \in Nodes |->
                    IF n \in Founders THEN [leader |-> leader, config |-> config]
                    ELSE [leader |-> None, config |-> [voters |-> {}, learners |-> {}]]]
    /\ seed = [n \in Nodes |-> n \in Founders]
    /\ task = [s \in Slots |-> Idle]
    /\ wire = {}
    /\ budget = Bounds

Spend(field) == budget[field] > 0 /\ budget' = [budget EXCEPT ![field] = @ - 1]

members(c) == c.voters \cup c.learners

membership_view(n) == metrics[n].config

is_leader(n) == metrics[n].leader = n

-----------------------------------------------------------------------------
(* Changing the membership. *)

\* ChangeMembers::ReplaceAllVoters with retain: who is no voter any more is a learner.
ReplaceVoters(c, voters) == [voters |-> voters, learners |-> members(c) \ voters]

AddNode(c, x) == IF x \in c.voters THEN c ELSE [c EXCEPT !.learners = @ \cup {x}]

RemoveNode(c, x) == [c EXCEPT !.learners = @ \ {x}]

\* openraft commits the change and says so.  The leader's metrics show it.
Commit(n, c) ==
    /\ leader = n
    /\ config' = c
    /\ metrics' = [metrics EXCEPT ![n].config = c]
    /\ UNCHANGED budget

\* openraft answers with an error: this node cannot commit, another change is
\* in progress, or the change was committed without the node learning of it.
Fail(n, c, bound) ==
    \/ leader # n /\ UNCHANGED <<config, metrics, budget>>
    \/ leader = n /\ Spend(bound) /\ UNCHANGED <<config, metrics>>
    \/ leader = n /\ Spend("lost") /\ config' = c /\ UNCHANGED metrics

\* The voters without x; that x is the last voter is an error, None.
remaining_voters(voters, x) == IF voters = {x} THEN None ELSE voters \ {x}

-----------------------------------------------------------------------------
(* Seed requests. *)

\* The envelope only the target can open, signed by the sender; a signed drop.
seal_seed(s, t) == [kind |-> "deliver", from |-> t.at, to |-> t.target, slot |-> s]

sign_drop_request(s, t) == [kind |-> "drop", from |-> t.at, to |-> t.target, slot |-> s]

Request(kind, s, t) == IF kind = "deliver" THEN seal_seed(s, t) ELSE sign_drop_request(s, t)

\* deliver_seed and drop_remote_seed, as far as they get before the request is
\* sent: the target must be a member, and a seed to seal and a key to seal it
\* to must be there.
CanSend(kind, t) ==
    /\ t.target \in members(membership_view(t.at))
    /\ kind = "deliver" => seed[t.at] /\ t.target \in Keyed

\* Handler t goes on in slot s with a seed request, or ends where none can be
\* sent; w is what else is under way.
Sending(s, t, phase, kind, w) ==
    IF CanSend(kind, t)
    THEN /\ task' = [task EXCEPT ![s] = [t EXCEPT !.phase = phase]]
         /\ wire' = w \cup {Request(kind, s, t)}
    ELSE task' = [task EXCEPT ![s] = Idle] /\ wire' = w

Continue(s, t, w) == task' = [task EXCEPT ![s] = t] /\ wire' = w

\* Mutant of After_failure: the seed is not withdrawn.
After_failure_keep(s, t, w) ==
    IF t.op = "remove" THEN Sending(s, t, "restore", "deliver", w) ELSE Continue(s, Idle, w)

\* A failed promotion withdraws the seed; a failed removal of a voter other
\* than this node restores it; the answers to both are ignored.
After_failure(s, t, w) ==
    IF t.op = "promote" THEN Sending(s, t, "undo", "drop", w)
    ELSE IF t.op = "remove" THEN Sending(s, t, "restore", "deliver", w)
    ELSE Continue(s, Idle, w)

\* RaftRuntime::promote_voter reads the members again, before it waits for the
\* learner to catch up: the voters it will ask for are those of now.
promote_voter(s, t, w) ==
    LET view == membership_view(t.at)
    IN  IF t.target \in view.learners
        THEN Continue(s, [t EXCEPT !.phase = "commit", !.voters = view.voters \cup {t.target}], w)
        ELSE After_failure(s, t, w)

\* RaftRuntime::remove_member, likewise: a voter is made a learner first.
remove_member(s, t, w) ==
    LET view == membership_view(t.at)
        remaining == remaining_voters(view.voters, t.target)
    IN  IF t.target \in view.learners THEN Continue(s, [t EXCEPT !.phase = "removing"], w)
        ELSE IF t.target \in view.voters /\ remaining # None
        THEN Continue(s, [t EXCEPT !.phase = "commit", !.voters = remaining], w)
        ELSE After_failure(s, t, w)

\* What the handler does with the answer to its seed request.
Answered(s, ok, w) ==
    LET t == task[s]
    IN  IF ok /\ t.phase = "deliver" THEN promote_voter(s, t, w)
        ELSE IF ok /\ t.op = "remove" /\ t.phase = "drop" THEN remove_member(s, t, w)
        ELSE Continue(s, Idle, w)

\* The keys node n knows are those of the membership it has stored; before it
\* stores one, those of its configuration or of the answer to its join, which
\* name whoever serves it.
verify_node_signature(n, from) ==
    LET known == members(membership_view(n)) IN known = {} \/ from \in known

\* A request is taken from the leader, if one is known, and else from a member.
open_seed(n, r) ==
    /\ r.to = n /\ metrics[n].leader \in {None, r.from}
    /\ verify_node_signature(n, r.from)

verify_drop_request(n, r) ==
    /\ r.to = n /\ metrics[n].leader \in {None, r.from}
    /\ verify_node_signature(n, r.from)

sign_ack(n, r, ok) == [from |-> n, to |-> r.from, ok |-> ok]

verify_ack(expected_from, ack) == ack.from = expected_from /\ ack.ok

\* The file first, then the memory: with or without the seed.
accept_seed(n, r) ==
    seed' = IF open_seed(n, r) THEN [seed EXCEPT ![n] = TRUE] ELSE seed

accept_seed_drop(n, r) ==
    seed' = IF verify_drop_request(n, r) THEN [seed EXCEPT ![n] = FALSE] ELSE seed

\* A request arrives; the acknowledgement may be lost.
handle_seed(r, heard) ==
    LET ok == IF r.kind = "deliver" THEN open_seed(r.to, r) ELSE verify_drop_request(r.to, r)
        ack == sign_ack(r.to, r, ok)
    IN  /\ IF r.kind = "deliver" THEN accept_seed(r.to, r) ELSE accept_seed_drop(r.to, r)
        /\ IF r.slot = None THEN heard /\ wire' = wire \ {r} /\ UNCHANGED task
           ELSE Answered(r.slot, heard /\ verify_ack(task[r.slot].target, ack), wire \ {r})
        /\ IF heard THEN UNCHANGED budget ELSE Spend("lost")
        /\ UNCHANGED <<config, leader, metrics>>

\* The handler gives up; the request may arrive later, or never.
SeedTimeout(r) ==
    /\ r.slot # None
    /\ Spend("lost")
    /\ \E late \in {{}, {[r EXCEPT !.slot = None]}} :
          Answered(r.slot, FALSE, (wire \ {r}) \cup late)
    /\ UNCHANGED <<config, leader, metrics, seed>>

-----------------------------------------------------------------------------
(* execute_member_write: the requests and their handlers. *)

\* A request reaches a node that takes itself for the leader.
Start(s, n) ==
    LET beside == IF \E r \in Slots : task[r] # Idle THEN 1 ELSE 0
    IN  /\ task[s] = Idle /\ is_leader(n)
        /\ budget.requests > 0 /\ budget.overlaps >= beside
        /\ budget' = [budget EXCEPT !.requests = @ - 1, !.overlaps = @ - beside]
        /\ UNCHANGED <<config, leader, metrics, seed>>

New(op, n, x, phase) == [op |-> op, at |-> n, target |-> x, phase |-> phase, voters |-> {}]

StartAddLearner(s, n, x) ==
    /\ x \notin members(membership_view(n))
    /\ Start(s, n)
    /\ Continue(s, New("add", n, x, "add"), wire)

StartPromote(s, n, x) ==
    LET t == New("promote", n, x, "deliver")
    IN  /\ x \in membership_view(n).learners /\ CanSend("deliver", t)
        /\ Start(s, n)
        /\ Sending(s, t, "deliver", "deliver", wire)

\* Mutant of StartDemote: the leader does not hand over.
StartDemote_direct(s, n, x) ==
    LET remaining == remaining_voters(membership_view(n).voters, x)
    IN  /\ x \in membership_view(n).voters /\ remaining # None
        /\ Start(s, n)
        /\ Continue(s, [New("demote", n, x, "commit") EXCEPT !.voters = remaining], wire)

\* The leader itself has another voter stand for election first.
StartDemote(s, n, x) ==
    LET remaining == remaining_voters(membership_view(n).voters, x)
    IN  /\ x \in membership_view(n).voters /\ remaining # None
        /\ Start(s, n)
        /\ Continue(s, [New("demote", n, x, IF x = n THEN "transfer" ELSE "commit")
                          EXCEPT !.voters = remaining], wire)

\* A voter's seed is dropped before the voter is removed.
StartRemove(s, n, x) ==
    /\ x \in members(membership_view(n))
    /\ Start(s, n)
    /\ IF x = n THEN Continue(s, New("forget", n, x, "transfer"), wire)
       ELSE IF x \in membership_view(n).voters
       THEN Sending(s, New("remove", n, x, "drop"), "drop", "drop", wire)
       ELSE Continue(s, New("forget", n, x, "removing"), wire)

\* transfer_leader_away; then this node cannot commit the change any more, so
\* the handler ends with an error, as it does when no other voter takes over.
transfer_leader_away(s) ==
    LET n == task[s].at
    IN  /\ task[s].phase = "transfer"
        /\ Continue(s, Idle, wire)
        /\ \/ UNCHANGED <<leader, metrics, budget>>
           \/ \E m \in config.voters \ {n} :
                 /\ leader' = m
                 /\ metrics' = [metrics EXCEPT
                       ![n].leader = m, ![m] = [leader |-> m, config |-> config]]
                 /\ Spend("elections")
        /\ UNCHANGED <<config, seed>>

\* change_membership with the voters computed when the members were read.
change_membership(s) ==
    LET t == task[s]
        changed == ReplaceVoters(config, t.voters)
    IN  /\ t.phase = "commit"
        /\ IF t.voters \subseteq members(config)
           THEN \/ /\ Commit(t.at, changed)
                   /\ IF t.op = "promote" THEN Continue(s, Idle, wire)
                      ELSE IF t.op = "demote" THEN Sending(s, t, "drop", "drop", wire)
                      ELSE Continue(s, [t EXCEPT !.phase = "removing"], wire)
                \/ Fail(t.at, changed, "refusals") /\ After_failure(s, t, wire)
           ELSE After_failure(s, t, wire) /\ UNCHANGED <<config, metrics, budget>>
        /\ UNCHANGED <<leader, seed>>

\* RemoveNodes, if the node is still a member; refused while it is a voter.
remove_nodes(s) ==
    LET t == task[s]
        changed == RemoveNode(config, t.target)
    IN  /\ t.phase = "removing"
        /\ IF t.target \notin members(membership_view(t.at))
           THEN Continue(s, Idle, wire) /\ UNCHANGED <<config, metrics, budget>>
           ELSE IF t.target \in config.voters
           THEN After_failure(s, t, wire) /\ UNCHANGED <<config, metrics, budget>>
           ELSE \/ Commit(t.at, changed) /\ Continue(s, Idle, wire)
                \/ Fail(t.at, changed, "kept") /\ After_failure(s, t, wire)
        /\ UNCHANGED <<leader, seed>>

\* add_learner, unless the node has become a member meanwhile.
add_learner_node(s) ==
    LET t == task[s]
        changed == AddNode(config, t.target)
    IN  /\ t.phase = "add"
        /\ IF t.target \in members(membership_view(t.at))
           THEN UNCHANGED <<config, metrics, budget>>
           ELSE Commit(t.at, changed) \/ Fail(t.at, changed, "refusals")
        /\ Continue(s, Idle, wire)
        /\ UNCHANGED <<leader, seed>>

-----------------------------------------------------------------------------
(* Raft, as the handlers see it (external). *)

Elect(n) ==
    /\ n \in config.voters /\ n # leader
    /\ Spend("elections")
    /\ leader' = n
    /\ metrics' = [metrics EXCEPT ![n] = [leader |-> n, config |-> config]]
    /\ UNCHANGED <<config, seed, task, wire>>

\* The metrics of a member catch up.
Observe(n) ==
    /\ n \in members(config)
    /\ metrics[n] # [leader |-> leader, config |-> config]
    /\ metrics' = [metrics EXCEPT ![n] = [leader |-> leader, config |-> config]]
    /\ UNCHANGED <<config, leader, seed, task, wire, budget>>

MembershipNext ==
    \/ \E s \in Slots, n, x \in Nodes :
          StartAddLearner(s, n, x) \/ StartPromote(s, n, x) \/ StartDemote(s, n, x)
             \/ StartRemove(s, n, x)
    \/ \E s \in Slots : transfer_leader_away(s) \/ change_membership(s) \/ remove_nodes(s)
                           \/ add_learner_node(s)
    \/ \E r \in wire : handle_seed(r, TRUE) \/ handle_seed(r, FALSE) \/ SeedTimeout(r)
    \/ \E n \in Nodes : Elect(n) \/ Observe(n)

MembershipSpec == MembershipInit /\ [][MembershipNext]_vars

-----------------------------------------------------------------------------
(* Properties. *)

\* No handler is running and no seed request is under way.
Quiet == wire = {} /\ \A s \in Slots : task[s] = Idle

\* So far handlers ran one after the other, under one leader, and were
\* answered in time; openraft has refused no removal of a node.
Undisturbed == \A f \in {"kept", "lost", "elections", "overlaps"} : budget[f] = Bounds[f]

\* Exactly the voters hold the seed when the handlers have ended, also when
\* openraft refused a change of the voters after a seed was delivered or
\* dropped for it (promote_voter's undo, remove_member's restore), as long as
\* nothing else interfered.
SeedFollowsVoters == Quiet /\ Undisturbed => \A n \in Nodes : seed[n] = (n \in config.voters)

\* Only voters hold the seed when all handlers have ended, whatever happened in
\* between ("a learner must not hold the seed", AuthContext in src/context.rs).
LearnersHoldNoSeed == Quiet => \A n \in Nodes \ config.voters : ~seed[n]

\* The node that commits membership changes is a voter, whatever demotions and
\* removals run side by side with members read before the others' changes: a
\* leader hands over before it is demoted (demote_voter, transfer_leader_away).
LeaderIsVoter == leader \in config.voters
=============================================================================
