----------------------------- MODULE Publisher -----------------------------
(***************************************************************************)
(* How the committed policy reaches the DHT: src/publisher.rs in Raft      *)
(* mode, with the leadership watcher of src/runtime.rs and the handler of  *)
(* administrator writes of src/service.rs that publishes what it changed.  *)
(*                                                                         *)
(* A sidecar's policy state is states[applied + 1] of the committed        *)
(* history (PolicyLog; PolicyReplicas shows that storage provides this).   *)
(* openraft decides who may commit (leader); what a sidecar believes       *)
(* (leads, its metrics) follows later, so a deposed leader goes on until   *)
(* its next check.  The DHT is external: a node keeps the record with the  *)
(* higher version (README, rollback protection), and an add_key reported   *)
(* as failed may have taken effect.                                        *)
(***************************************************************************)
EXTENDS PolicyLog, FiniteSetsExt

CONSTANTS
    Sidecars,
    Changes,        \* the administrator commands proposed, a subset of Commands
    PUBLISH_ROUND_ATTEMPTS,
    ExpiresSecs,    \* validity of a renewed index
    MaxNow,         \* bound: clock
    MaxElections,   \* bound: leader changes
    MaxFailures,    \* bound: failed add_key calls, lost connections and restarts, none after MaxNow
    MaxRequests     \* bound: administrator requests

ASSUME PublisherAssumption ==
    /\ Changes \subseteq Commands
    /\ PUBLISH_ROUND_ATTEMPTS \in Nat \ {0}
    /\ ExpiresSecs \in Nat \ {0} /\ MaxNow \in Nat
    /\ MaxElections \in Nat /\ MaxFailures \in Nat /\ MaxRequests \in Nat

RenewIndex(t) == [op |-> "renew", expires_at |-> t + ExpiresSecs]

VARIABLES
    applied,    \* per sidecar: last applied log index
    leader,     \* the sidecar that can commit, or None
    leads,      \* per sidecar: metrics say this node is the leader
    watched,    \* per sidecar: was_leader of the metrics watcher, None before it runs
    clients,    \* per sidecar: a node connection is registered
    permits,    \* per sidecar: stored permits of the two Notify, a subset of {"publish", "renew"}
    loop,       \* per sidecar: publish_with_retry of the loop: renew flag, attempts left
    admin,      \* per sidecar: what the administrator handler is doing
    round,      \* per sidecar: the publish_once that holds publish_lock
    status,     \* per sidecar: PublishStatus
    dht,        \* the records the nodes hold
    now,        \* clock
    budget      \* elections, failures and requests left

taskVars == <<clients, permits, loop, admin, round, status>>
raftVars == <<applied, leader, leads, watched>>
publisherVars == <<raftVars, taskVars, dht, now, budget>>
vars == <<logVars, publisherVars>>

Absent == [version |-> 0]
Whitelist(s) == [version |-> s.version, members |-> s.members]

\* A phase of publish_once_raft is named for the await it has reached.
Phases == {"idle", "propose", "applying", "fence", "whitelists", "index"}
Idle == [phase |-> "idle", by |-> "loop", index |-> 0, todo |-> {}]
Quiet == [phase |-> "quiet", renew |-> FALSE, index |-> 0]

PublisherTypeOK ==
    /\ LogTypeOK
    /\ applied \in [Sidecars -> 0 .. MaxLog]
    /\ leader \in Sidecars \cup {None}
    /\ leads \in [Sidecars -> BOOLEAN] /\ watched \in [Sidecars -> BOOLEAN \cup {None}]
    /\ clients \in [Sidecars -> BOOLEAN]
    /\ permits \in [Sidecars -> SUBSET {"publish", "renew"}]
    /\ loop \in [Sidecars -> [renew : BOOLEAN, left : 0 .. PUBLISH_ROUND_ATTEMPTS]]
    /\ admin \in [Sidecars -> [phase : {"quiet", "applying", "publish", "publishing"},
                               renew : BOOLEAN, index : 0 .. MaxLog]]
    /\ round \in [Sidecars -> [phase : Phases, by : {"loop", "admin"},
                               index : 0 .. MaxLog, todo : SUBSET Services]]
    /\ status \in [Sidecars -> [epoch : 0 .. U64Max, ok : BOOLEAN]]
    /\ now \in 0 .. MaxNow

\* A cluster with its first leader and a node connection at every sidecar.
PublisherInit ==
    /\ LogInit
    /\ applied = [n \in Sidecars |-> 0]
    /\ leader \in Sidecars
    /\ leads = [n \in Sidecars |-> leader = n]
    /\ watched \in {leads, [n \in Sidecars |-> FALSE]}
    /\ clients = [n \in Sidecars |-> TRUE]
    /\ permits = [n \in Sidecars |-> {"publish"}]
    /\ loop = [n \in Sidecars |-> [renew |-> FALSE, left |-> 0]]
    /\ admin = [n \in Sidecars |-> Quiet]
    /\ round = [n \in Sidecars |-> Idle]
    /\ status = [n \in Sidecars |-> [epoch |-> 0, ok |-> FALSE]]
    /\ dht = [index |-> Absent, whitelists |-> [s \in Services |-> Absent]]
    /\ now = 0
    /\ budget = [elections |-> MaxElections, failures |-> MaxFailures,
                requests |-> MaxRequests]

policy_snapshot(n) == states[applied[n] + 1]

-----------------------------------------------------------------------------
(* Raft, as the publisher sees it (external), and the metrics watcher. *)

\* The bound is on elections that depose a leader.
Elect(n) ==
    /\ leader # n
    /\ \/ leader = None /\ UNCHANGED budget
       \/ /\ leader # None /\ budget.elections > 0
          /\ budget' = [budget EXCEPT !.elections = @ - 1]
    /\ leader' = n
    /\ UNCHANGED <<logVars, applied, leads, watched, taskVars, dht, now>>

Apply(n) ==
    /\ applied[n] < Len(log)
    /\ applied' = [applied EXCEPT ![n] = @ + 1]
    /\ UNCHANGED <<logVars, leader, leads, watched, taskVars, dht, now, budget>>

\* The metrics of n catch up with the election.
Observe(n) ==
    /\ leads[n] # (leader = n)
    /\ leads' = [leads EXCEPT ![n] = (leader = n)]
    /\ UNCHANGED <<logVars, applied, leader, watched, taskVars, dht, now, budget>>

\* The watcher of ensure_raft wakes: a new leader renews and publishes.
Watch(n) ==
    /\ watched[n] # None /\ watched[n] # leads[n]
    /\ watched' = [watched EXCEPT ![n] = leads[n]]
    /\ permits' = [permits EXCEPT ![n] = IF leads[n] THEN @ \cup {"renew"} ELSE @]
    /\ UNCHANGED <<logVars, applied, leader, leads, clients, loop, admin, round, status,
                   dht, now, budget>>

-----------------------------------------------------------------------------
(* Triggers of a publish. *)

\* A node connection is served: ensure_raft has seen to it that the watcher
\* runs, which takes the state it finds as known.
register(n) ==
    /\ ~clients[n]
    /\ watched' = [watched EXCEPT ![n] = IF @ = None THEN leads[n] ELSE @]
    /\ clients' = [clients EXCEPT ![n] = TRUE]
    /\ permits' = [permits EXCEPT ![n] = @ \cup {"publish"}]
    /\ UNCHANGED <<logVars, applied, leader, leads, loop, admin, round, status, dht, now, budget>>

\* The node connection goes away; it costs one of the failures.
unregister(n) ==
    /\ clients[n] /\ budget.failures > 0 /\ now < MaxNow
    /\ budget' = [budget EXCEPT !.failures = @ - 1]
    /\ clients' = [clients EXCEPT ![n] = FALSE]
    /\ UNCHANGED <<logVars, raftVars, permits, loop, admin, round, status, dht, now>>

\* run: a notification, or the renew interval, starts publish_with_retry.
LoopWakes(n, renew) ==
    /\ loop[n].left = 0 /\ ~(round[n].phase # "idle" /\ round[n].by = "loop")
    /\ loop' = [loop EXCEPT ![n] = [renew |-> renew, left |-> PUBLISH_ROUND_ATTEMPTS]]
    /\ UNCHANGED <<logVars, raftVars, clients, admin, round, status, dht>>

Notified(n, kind) ==
    /\ kind \in permits[n]
    /\ LoopWakes(n, kind = "renew")
    /\ permits' = [permits EXCEPT ![n] = @ \ {kind}]
    /\ UNCHANGED <<now, budget>>

\* Mutant of IntervalTick: the interval elapses and nobody is woken.
IntervalTick_lost(n) ==
    /\ now < MaxNow
    /\ now' = now + 1
    /\ UNCHANGED <<logVars, raftVars, taskVars, dht, budget>>

\* The renew interval elapses; time passes with it.
IntervalTick(n) ==
    /\ now < MaxNow
    /\ now' = now + 1
    /\ LoopWakes(n, TRUE)
    /\ UNCHANGED <<permits, budget>>

\* execute_root_write, up to the proposal: the command is committed.
execute_root_write(n, c) ==
    /\ leads[n] /\ leader = n /\ clients[n] /\ admin[n] = Quiet /\ budget.requests > 0
    /\ budget' = [budget EXCEPT !.requests = @ - 1]
    /\ Commit(c)
    /\ admin' = [admin EXCEPT ![n] = [phase |-> "applying", renew |-> FALSE,
                                      index |-> Len(log) + 1]]
    /\ UNCHANGED <<raftVars, clients, permits, loop, round, status, dht, now>>

\* Mutant of proposal_returns: the handler goes on once the entry is committed,
\* before it is applied here.
proposal_returns_early(n) ==
    /\ admin[n].phase = "applying"
    /\ admin' = [admin EXCEPT ![n] = IF answers[admin[n].index].outcome.changed
                                     THEN [@ EXCEPT !.phase = "publish"] ELSE Quiet]
    /\ UNCHANGED <<logVars, raftVars, clients, permits, loop, round, status, dht, now, budget>>

\* propose returns with the answer; only a change is published, by one attempt.
proposal_returns(n) ==
    /\ admin[n].phase = "applying" /\ applied[n] >= admin[n].index
    /\ admin' = [admin EXCEPT ![n] = IF answers[admin[n].index].outcome.changed
                                     THEN [@ EXCEPT !.phase = "publish"] ELSE Quiet]
    /\ UNCHANGED <<logVars, raftVars, clients, permits, loop, round, status, dht, now, budget>>

\* The administrator's publish_now renews first.
publish_now(n) ==
    /\ leads[n] /\ clients[n] /\ admin[n] = Quiet /\ budget.requests > 0
    /\ budget' = [budget EXCEPT !.requests = @ - 1]
    /\ admin' = [admin EXCEPT ![n] = [phase |-> "publish", renew |-> TRUE, index |-> 0]]
    /\ UNCHANGED <<logVars, raftVars, clients, permits, loop, round, status, dht, now>>

-----------------------------------------------------------------------------
(* publish_once: the steps between two awaits, holding publish_lock. *)

\* publish_once returns: Ok ends the loop's retries, Err leaves them.
Return(n, ok) ==
    /\ round' = [round EXCEPT ![n] = Idle]
    /\ IF round[n].by = "loop"
       THEN /\ loop' = [loop EXCEPT ![n].left = IF ok THEN 0 ELSE @]
            /\ UNCHANGED admin
       ELSE /\ admin' = [admin EXCEPT ![n] = Quiet]
            /\ UNCHANGED loop

record_failure(n, epoch) ==
    status' = [status EXCEPT ![n] = [epoch |-> Max({@.epoch, epoch}), ok |-> FALSE]]

record_success(n, epoch) == status' = [status EXCEPT ![n] = [epoch |-> epoch, ok |-> TRUE]]

\* What a round has read: the state machine at the index it took its snapshot.
snapshot(n) == states[round[n].index + 1]

\* The lock is free, and an attempt of the loop or of the handler takes it.
\* Without a connection or when not the leader there is nothing to do, which
\* is Ok.  Otherwise the snapshot is read; a renewal goes through the log first.
Begin(n, by, renew) ==
    /\ round[n].phase = "idle"
    /\ round' = [round EXCEPT ![n] =
          IF clients[n] /\ leads[n]
          THEN [phase |-> IF renew \/ policy_snapshot(n).expires_at <= now
                          THEN "propose" ELSE "fence",
                by |-> by, index |-> applied[n], todo |-> {}]
          ELSE Idle]
    /\ UNCHANGED <<logVars, raftVars, clients, permits, status, dht, now, budget>>

BeginLoop(n) ==
    /\ loop[n].left > 0
    /\ Begin(n, "loop", loop[n].renew)
    /\ loop' = [loop EXCEPT ![n].left = IF clients[n] /\ leads[n] THEN @ - 1 ELSE 0]
    /\ UNCHANGED admin

BeginAdmin(n) ==
    /\ admin[n].phase = "publish"
    /\ Begin(n, "admin", admin[n].renew)
    /\ admin' = [admin EXCEPT ![n] = IF clients[n] /\ leads[n]
                                     THEN [@ EXCEPT !.phase = "publishing"] ELSE Quiet]
    /\ UNCHANGED loop

\* Not the leader any more after the renewal: nothing to do.
NotLeader(n) ==
    /\ round[n].phase = "fence" /\ ~leads[n]
    /\ Return(n, TRUE)
    /\ UNCHANGED <<logVars, raftVars, clients, permits, status, dht, now, budget>>

ProposeRenew(n) ==
    /\ round[n].phase = "propose" /\ leader = n
    /\ Commit(RenewIndex(now))
    /\ round' = [round EXCEPT ![n].phase = "applying", ![n].index = Len(log) + 1]
    /\ UNCHANGED <<raftVars, clients, permits, loop, admin, status, dht, now, budget>>

\* propose answers once the entry is applied here; the snapshot is read again.
Renewed(n) ==
    /\ round[n].phase = "applying" /\ applied[n] >= round[n].index
    /\ round' = [round EXCEPT ![n].phase = "fence", ![n].index = applied[n]]
    /\ UNCHANGED <<logVars, raftVars, clients, permits, loop, admin, status, dht, now, budget>>

\* A leader that lost its leadership cannot commit, or not learn that it did.
RenewFails(n) ==
    /\ round[n].phase \in {"propose", "applying"} /\ leader # n
    /\ record_failure(n, snapshot(n).epoch)
    /\ Return(n, FALSE)
    /\ UNCHANGED <<logVars, raftVars, clients, permits, dht, now, budget>>

\* An epoch below the last one published here is refused.
Fence(n) ==
    LET s == snapshot(n)
    IN  /\ round[n].phase = "fence" /\ leads[n]
        /\ IF s.epoch < status[n].epoch \/ s.expires_at = 0
           THEN record_failure(n, s.epoch) /\ Return(n, FALSE)
           ELSE /\ round' = [round EXCEPT ![n].phase = "whitelists",
                                          ![n].todo = {x \in Services : s.services[x] # None}]
                /\ UNCHANGED <<status, loop, admin>>
        /\ UNCHANGED <<logVars, raftVars, clients, permits, dht, now, budget>>

\* A node keeps what it has when the version it is given is lower (external).
Kept(old, new) == IF new.version >= old.version THEN new ELSE old

IndexDoc(s) == [version |-> s.epoch, expires_at |-> s.expires_at,
                services |-> [x \in {y \in Services : s.services[y] # None} |->
                                 Whitelist(s.services[x])]]

PutWhitelist(n, x) ==
    dht' = [dht EXCEPT !.whitelists[x] = Kept(@, Whitelist(snapshot(n).services[x]))]

\* Mutant of PutIndex: the services are read again, the epoch is not.
PutIndex_mixed(n) ==
    dht' = [dht EXCEPT !.index =
              Kept(@, [IndexDoc(snapshot(n)) EXCEPT
                          !.services = IndexDoc(policy_snapshot(n)).services])]

PutIndex(n) == dht' = [dht EXCEPT !.index = Kept(@, IndexDoc(snapshot(n)))]

\* publish_whitelists: one record after the other, stopping at a failure.
publish_whitelist(n, x) ==
    /\ round[n].phase = "whitelists" /\ x \in round[n].todo
    /\ PutWhitelist(n, x)
    /\ round' = [round EXCEPT ![n].todo = @ \ {x}]
    /\ UNCHANGED <<logVars, raftVars, clients, permits, loop, admin, status, now, budget>>

\* Mutant of CheckLeader: the index does not wait for all whitelists.
CheckLeader_early(n) ==
    /\ round[n].phase = "whitelists"
    /\ IF leads[n]
       THEN /\ round' = [round EXCEPT ![n].phase = "index"]
            /\ UNCHANGED <<status, loop, admin>>
       ELSE record_failure(n, snapshot(n).epoch) /\ Return(n, FALSE)
    /\ UNCHANGED <<logVars, raftVars, clients, permits, dht, now, budget>>

\* All whitelists are out: the last leadership check before the index.
CheckLeader(n) ==
    /\ round[n].phase = "whitelists" /\ round[n].todo = {}
    /\ IF leads[n]
       THEN /\ round' = [round EXCEPT ![n].phase = "index"]
            /\ UNCHANGED <<status, loop, admin>>
       ELSE record_failure(n, snapshot(n).epoch) /\ Return(n, FALSE)
    /\ UNCHANGED <<logVars, raftVars, clients, permits, dht, now, budget>>

\* Mutant of publish_index: the epoch is read again after the record was put.
publish_index_latest(n) ==
    /\ round[n].phase = "index"
    /\ PutIndex(n)
    /\ record_success(n, policy_snapshot(n).epoch)
    /\ Return(n, TRUE)
    /\ UNCHANGED <<logVars, raftVars, clients, permits, now, budget>>

publish_index(n) ==
    /\ round[n].phase = "index"
    /\ PutIndex(n)
    /\ record_success(n, snapshot(n).epoch)
    /\ Return(n, TRUE)
    /\ UNCHANGED <<logVars, raftVars, clients, permits, now, budget>>

\* An add_key of this round fails after its retries, or is reported as failed
\* although the node stored the record.
AddKeyFails(n) ==
    /\ budget.failures > 0 /\ now < MaxNow
    /\ budget' = [budget EXCEPT !.failures = @ - 1]
    /\ \/ round[n].phase = "whitelists" /\ \E x \in round[n].todo : PutWhitelist(n, x)
       \/ round[n].phase = "whitelists" /\ round[n].todo # {} /\ UNCHANGED dht
       \/ round[n].phase = "index" /\ (PutIndex(n) \/ UNCHANGED dht)
    /\ record_failure(n, snapshot(n).epoch)
    /\ Return(n, FALSE)
    /\ UNCHANGED <<logVars, raftVars, clients, permits, now>>

\* A sidecar process is restarted: its policy state survives, its tasks do not.
\* The bounded clock has yet to tick, as the real one always has.
Restart(n) ==
    /\ budget.failures > 0 /\ now < MaxNow
    /\ budget' = [budget EXCEPT !.failures = @ - 1]
    /\ leader' = IF leader = n THEN None ELSE leader
    /\ leads' = [leads EXCEPT ![n] = FALSE]
    /\ watched' = [watched EXCEPT ![n] = None]
    /\ clients' = [clients EXCEPT ![n] = FALSE]
    /\ permits' = [permits EXCEPT ![n] = {}]
    /\ loop' = [loop EXCEPT ![n] = [renew |-> FALSE, left |-> 0]]
    /\ admin' = [admin EXCEPT ![n] = Quiet]
    /\ round' = [round EXCEPT ![n] = Idle]
    /\ status' = [status EXCEPT ![n] = [epoch |-> 0, ok |-> FALSE]]
    /\ UNCHANGED <<logVars, applied, dht, now>>

-----------------------------------------------------------------------------

\* What the tasks of one sidecar do on their own.
Steps(n) ==
    \/ Apply(n) \/ Observe(n) \/ Watch(n)
    \/ Notified(n, "publish") \/ Notified(n, "renew") \/ proposal_returns(n)
    \/ BeginLoop(n) \/ BeginAdmin(n)
    \/ NotLeader(n) \/ ProposeRenew(n) \/ Renewed(n) \/ RenewFails(n) \/ Fence(n)
    \/ (\E x \in Services : publish_whitelist(n, x))
    \/ CheckLeader(n) \/ publish_index(n)

PublisherNext ==
    \E n \in Sidecars :
        \/ Steps(n)
        \/ Elect(n) \/ register(n) \/ unregister(n) \/ IntervalTick(n)
        \/ (\E c \in Changes : execute_root_write(n, c)) \/ publish_now(n)
        \/ AddKeyFails(n) \/ Restart(n)

PublisherSpec == PublisherInit /\ [][PublisherNext]_vars

\* The tasks run, the node reconnects (NexusNet dials its sidecars), the renew
\* interval keeps elapsing and a cluster without a leader elects one.
PublisherFairness ==
    /\ \A n \in Sidecars : WF_vars(Steps(n)) /\ WF_vars(register(n)) /\ WF_vars(IntervalTick(n))
    /\ WF_vars(leader = None /\ \E n \in Sidecars : Elect(n))

PublisherFairSpec == PublisherSpec /\ PublisherFairness

-----------------------------------------------------------------------------
(* Properties. *)

\* What the DHT serves is one committed policy: the index is the one policy
\* state of the history with its epoch, with the services and the expiry of
\* that state together, whichever leaders, deposed or not, wrote it
\* (publish_once_raft works from one snapshot).
IndexIsCommittedPolicy ==
    dht.index # Absent =>
        \E i \in DOMAIN states : dht.index = IndexDoc(states[i])

\* The index never refers to a whitelist the DHT does not hold: each service
\* it lists has a record of that version or a newer one, and the record of
\* that version is the one whose hash the index carries (whitelists first,
\* the index only after all of them).
WhitelistsBeforeIndex ==
    dht.index # Absent =>
        \A x \in DOMAIN dht.index.services :
            LET listed == dht.index.services[x]
                held == dht.whitelists[x]
            IN  held.version >= listed.version /\ (held.version = listed.version => held = listed)

\* A sidecar that reports its last publish as ok with an epoch (PublishStatus,
\* the status command) is right: the DHT serves that epoch or a later one.
SuccessIsVisible ==
    \A n \in Sidecars : status[n].ok => dht.index.version >= status[n].epoch

\* An administrator who changed the policy and got an ok answer published it:
\* when the handler's publish round succeeds, the DHT serves at least the
\* epoch its command produced, although the round may have begun with a
\* snapshot of an earlier or a later state (execute_root_write).
OkAnswerIsPublished ==
    [][\A n \in Sidecars :
         admin[n].phase = "publishing" /\ admin[n].index > 0
            /\ round[n].by = "admin" /\ round[n].phase = "index" /\ status'[n].ok
            /\ admin'[n] = Quiet
         => dht'.index.version >= answers[admin[n].index].epoch]_vars

\* Every committed change is served by the DHT in the end, although a handler
\* publishes only once, nobody notifies the loop when that fails, and a restart
\* forgets what was under way: the renew interval makes up for it (run,
\* publish_with_retry).
EventuallyServed == <>[](dht.index.version = states[Len(states)].epoch)

=============================================================================
