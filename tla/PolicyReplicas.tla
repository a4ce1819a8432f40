--------------------------- MODULE PolicyReplicas ---------------------------
(***************************************************************************)
(* The replicas that keep the policy log: src/raft/storage.rs under        *)
(* openraft.  Each replica has one redb file (disk) and, while it runs,    *)
(* the memory of the state machine and of openraft (mem).  Every call of   *)
(* the storage traits that commits a redb transaction is one action: a     *)
(* crash before the commit is the action not happening, a crash after it   *)
(* is the action followed by Crash.                                        *)
(*                                                                         *)
(* openraft itself is external.  What is assumed of it is in the guards:   *)
(* an entry is committed once a quorum stores it after the same prefix,    *)
(* only committed entries are applied and none is truncated, a snapshot is *)
(* installed when it is ahead of the known commit index and the log is     *)
(* then purged up to it, purging otherwise stays within the newest         *)
(* snapshot openraft was told of, and snapshots are built in a task of     *)
(* their own beside the state machine worker.                              *)
(***************************************************************************)
EXTENDS PolicyLog, FiniteSetsExt

CONSTANTS
    Replicas,
    Quorums,           \* the majorities of the voters
    MaxVote,           \* bound: votes (terms)
    MaxCrashes,        \* bound: crashes in a behaviour
    SnapshotEvery,     \* openraft builds a snapshot this many entries after the last one
    OverlappingBuild   \* may a snapshot build commit while the snapshot is being read?

ASSUME ReplicasAssumption ==
    /\ Quorums \subseteq SUBSET Replicas
    /\ MaxVote \in Nat /\ MaxCrashes \in Nat /\ SnapshotEvery \in Nat \ {0}
    /\ OverlappingBuild \in BOOLEAN

VARIABLES
    disk,      \* per replica: the redb tables
    mem,       \* per replica: SmInner and openraft's view of the storage, or None when down
    build,     \* per replica: the clone a running build_snapshot holds, or None
    transfer,  \* per replica: the snapshot being sent to it, or None
    crashes    \* crashes so far

replicaVars == <<disk, mem, build, transfer, crashes>>
vars == <<log, states, answers, disk, mem, build, transfer, crashes>>

\* The tables of one redb file.  logs maps the stored indexes to commands;
\* index 0 and term 0 stand for an absent key.
Disk == [vote : 0 .. MaxVote, committed : 0 .. MaxLog, purged : 0 .. MaxLog,
         logs : UNION {[D -> Commands] : D \in SUBSET (1 .. MaxLog)},
         applied : 0 .. MaxLog, state : State,
         snap : [index : 0 .. MaxLog, state : State] \cup {None}]

Mem == [vote : 0 .. MaxVote, committed : 0 .. MaxLog, last : 0 .. MaxLog,
        applied : 0 .. MaxLog, state : State, snapIndex : 0 .. MaxLog, purgeTo : 0 .. MaxLog]

ReplicasTypeOK ==
    /\ LogTypeOK
    /\ disk \in [Replicas -> Disk]
    /\ mem \in [Replicas -> Mem \cup {None}]
    /\ build \in [Replicas -> [index : 0 .. MaxLog, state : State] \cup {None}]
    /\ transfer \in [Replicas -> [from : Replicas, index : 0 .. MaxLog,
                                  state : State \cup {None}] \cup {None}]
    /\ crashes \in 0 .. MaxCrashes

-----------------------------------------------------------------------------
(* Reading the tables. *)

\* The last log id: the largest stored index, else last_purged.
get_log_state(d) == IF DOMAIN d.logs = {} THEN d.purged ELSE Max(DOMAIN d.logs)

snapshot_index(d) == IF d.snap = None THEN 0 ELSE d.snap.index

\* The entries of d with indexes lo..hi applied in order to state s.
apply_entries(d, s, lo, hi) ==
    LET after[i \in (lo - 1) .. hi] ==
            IF i < lo THEN s
            ELSE IF i \in DOMAIN d.logs
                 THEN apply_command_at(after[i - 1], d.logs[i], i).state
                 ELSE after[i - 1]
    IN  after[hi]

\* Mutant of purged_logs: last_purged is not recorded.
purged_logs_only(d, upto) ==
    [d EXCEPT !.logs = [i \in {j \in DOMAIN d.logs : j > upto} |-> d.logs[i]]]

purged_logs(d, upto) ==
    [d EXCEPT !.logs = [i \in {j \in DOMAIN d.logs : j > upto} |-> d.logs[i]],
              !.purged = upto]

\* Mutant of truncated_logs: one entry too many.
truncated_logs_before(d, from) ==
    [d EXCEPT !.logs = [i \in {j \in DOMAIN d.logs : j < from - 1} |-> d.logs[i]]]

truncated_logs(d, from) ==
    [d EXCEPT !.logs = [i \in {j \in DOMAIN d.logs : j < from} |-> d.logs[i]]]

\* What openraft recovers from a redb file when the process starts: entries
\* known to be committed are applied again, and a log that ends before the
\* applied state (a snapshot was installed, the purge did not happen) is
\* purged up to it.
reapplied(d) ==
    IF d.applied < d.committed
    THEN [d EXCEPT !.state = apply_entries(d, d.state, d.applied + 1, d.committed),
                   !.applied = d.committed]
    ELSE d

open(d) ==
    LET r == reapplied(d)
    IN  IF get_log_state(r) < r.applied THEN purged_logs(r, r.applied) ELSE r

\* Mutant of recovered: the state machine starts from the last snapshot.
recovered_snapshot(d) ==
    [vote |-> d.vote, committed |-> Max({d.applied, d.committed}), last |-> get_log_state(d),
     applied |-> snapshot_index(d), state |-> IF d.snap = None THEN InitialState ELSE d.snap.state,
     snapIndex |-> snapshot_index(d), purgeTo |-> 0]

recovered(d) ==
    [vote |-> d.vote, committed |-> Max({d.applied, d.committed}), last |-> get_log_state(d),
     applied |-> d.applied, state |-> d.state, snapIndex |-> snapshot_index(d), purgeTo |-> 0]

-----------------------------------------------------------------------------
(* Initial states: empty files, every replica running. *)

EmptyDisk == [vote |-> 0, committed |-> 0, purged |-> 0, logs |-> <<>>,
              applied |-> 0, state |-> InitialState, snap |-> None]

ReplicasInit ==
    /\ LogInit
    /\ disk = [n \in Replicas |-> EmptyDisk]
    /\ mem = [n \in Replicas |-> recovered(EmptyDisk)]
    /\ build = [n \in Replicas |-> None]
    /\ transfer = [n \in Replicas |-> None]
    /\ crashes = 0

-----------------------------------------------------------------------------
(* Log storage. *)

\* A replica serves openraft's next storage call: it runs, and the purge that
\* follows an installed snapshot is not outstanding.
Serving(n) == mem[n] # None /\ mem[n].purgeTo = 0

save_vote(n, v) ==
    /\ Serving(n) /\ v > mem[n].vote
    /\ disk' = [disk EXCEPT ![n].vote = v]
    /\ mem' = [mem EXCEPT ![n].vote = v]
    /\ UNCHANGED <<logVars, build, transfer, crashes>>

save_committed(n, k) ==
    /\ Serving(n)
    /\ k > mem[n].committed /\ k <= Len(log) /\ k <= mem[n].last
    /\ \A i \in DOMAIN disk[n].logs : i <= k => disk[n].logs[i] = log[i]
    /\ disk' = [disk EXCEPT ![n].committed = k]
    /\ mem' = [mem EXCEPT ![n].committed = k]
    /\ UNCHANGED <<logVars, build, transfer, crashes>>

append(n, c) ==
    /\ Serving(n) /\ mem[n].last < MaxLog
    /\ disk' = [disk EXCEPT ![n].logs =
                  [i \in DOMAIN @ \cup {mem[n].last + 1} |->
                     IF i = mem[n].last + 1 THEN c ELSE @[i]]]
    /\ mem' = [mem EXCEPT ![n].last = @ + 1]
    /\ UNCHANGED <<logVars, build, transfer, crashes>>

\* A follower drops the entries a new leader did not have.
truncate(n, i) ==
    /\ Serving(n)
    /\ i \in DOMAIN disk[n].logs /\ i > mem[n].committed
    /\ i <= Len(log) => disk[n].logs[i] # log[i]
    /\ disk' = [disk EXCEPT ![n] = truncated_logs(@, i)]
    /\ mem' = [mem EXCEPT ![n].last = i - 1]
    /\ UNCHANGED <<logVars, build, transfer, crashes>>

\* Purging after a snapshot was built, or right after one was installed.
purge(n, i) ==
    /\ mem[n] # None
    /\ i > disk[n].purged
    /\ IF mem[n].purgeTo > 0 THEN i = mem[n].purgeTo ELSE i <= mem[n].snapIndex
    /\ disk' = [disk EXCEPT ![n] = purged_logs(@, i)]
    /\ mem' = [mem EXCEPT ![n].purgeTo = 0, ![n].last = Max({@, i})]
    /\ UNCHANGED <<logVars, build, transfer, crashes>>

-----------------------------------------------------------------------------
(* The state machine. *)

\* Mutant of apply: only the last entry of a batch takes effect.
apply_last(n, k) ==
    /\ Serving(n)
    /\ k > mem[n].applied /\ k <= mem[n].committed
    /\ LET s == apply_entries(disk[n], mem[n].state, k, k)
       IN  /\ disk' = [disk EXCEPT ![n].applied = k, ![n].state = s]
           /\ mem' = [mem EXCEPT ![n].applied = k, ![n].state = s]
    /\ UNCHANGED <<logVars, build, transfer, crashes>>

\* A batch of committed entries, in one transaction; memory follows the commit.
apply(n, k) ==
    /\ Serving(n)
    /\ k > mem[n].applied /\ k <= mem[n].committed
    /\ LET s == apply_entries(disk[n], mem[n].state, mem[n].applied + 1, k)
       IN  /\ disk' = [disk EXCEPT ![n].applied = k, ![n].state = s]
           /\ mem' = [mem EXCEPT ![n].applied = k, ![n].state = s]
    /\ UNCHANGED <<logVars, build, transfer, crashes>>

\* build_snapshot clones the state under the lock ...
build_snapshot_clone(n) ==
    /\ mem[n] # None /\ build[n] = None
    /\ mem[n].applied >= mem[n].snapIndex + SnapshotEvery
    /\ build' = [build EXCEPT ![n] = [index |-> mem[n].applied, state |-> mem[n].state]]
    /\ UNCHANGED <<logVars, disk, mem, transfer, crashes>>

Reading(n) == \E m \in Replicas : /\ transfer[m] # None
                                  /\ transfer[m].from = n /\ transfer[m].state = None

\* Mutant of build_snapshot_commit: the clone is written as the state, too.
build_snapshot_commit_state(n) ==
    /\ build[n] # None
    /\ Reading(n) => OverlappingBuild
    /\ disk' = [disk EXCEPT ![n].snap = build[n],
                            ![n].applied = build[n].index, ![n].state = build[n].state]
    /\ mem' = [mem EXCEPT ![n].snapIndex = Max({@, build[n].index})]
    /\ build' = [build EXCEPT ![n] = None]
    /\ UNCHANGED <<logVars, transfer, crashes>>

\* ... and writes meta and data in one transaction after releasing it.
build_snapshot_commit(n) ==
    /\ build[n] # None
    /\ Reading(n) => OverlappingBuild
    /\ disk' = [disk EXCEPT ![n].snap = build[n]]
    /\ mem' = [mem EXCEPT ![n].snapIndex = Max({@, build[n].index})]
    /\ build' = [build EXCEPT ![n] = None]
    /\ UNCHANGED <<logVars, transfer, crashes>>

\* get_current_snapshot reads the meta in one read transaction ...
get_current_snapshot_meta(n, m) ==
    /\ n # m /\ mem[n] # None /\ mem[m] # None
    /\ disk[n].snap # None /\ transfer[m] = None
    /\ transfer' = [transfer EXCEPT ![m] =
                      [from |-> n, index |-> disk[n].snap.index, state |-> None]]
    /\ UNCHANGED <<logVars, disk, mem, build, crashes>>

\* ... and the data in another.
get_current_snapshot_data(m) ==
    /\ transfer[m] # None /\ transfer[m].state = None
    /\ transfer' = [transfer EXCEPT ![m].state = disk[transfer[m].from].snap.state]
    /\ UNCHANGED <<logVars, disk, mem, build, crashes>>

\* openraft refuses a snapshot that is not ahead of the commit index; before
\* installing one it drops entries from a conflicting last one on.
install_snapshot(n) ==
    LET snap == transfer[n]
        conflict_at == snap.index \in DOMAIN disk[n].logs
                           /\ disk[n].logs[snap.index] # log[snap.index]
        d == IF conflict_at THEN truncated_logs(disk[n], snap.index) ELSE disk[n]
    IN  /\ Serving(n)
        /\ snap # None /\ snap.state # None
        /\ snap.index > mem[n].committed
        /\ disk' = [disk EXCEPT ![n] =
                      [d EXCEPT !.applied = snap.index, !.state = snap.state,
                                !.snap = [index |-> snap.index, state |-> snap.state]]]
        /\ mem' = [mem EXCEPT ![n].applied = snap.index, ![n].state = snap.state,
                              ![n].committed = snap.index, ![n].snapIndex = Max({@, snap.index}),
                              ![n].last = get_log_state(d), ![n].purgeTo = snap.index]
        /\ transfer' = [transfer EXCEPT ![n] = None]
        /\ UNCHANGED <<logVars, build, crashes>>

\* A snapshot that is lost, or refused because the receiver caught up.
DropTransfer(n) ==
    /\ transfer[n] # None
    /\ transfer' = [transfer EXCEPT ![n] = None]
    /\ UNCHANGED <<logVars, disk, mem, build, crashes>>

-----------------------------------------------------------------------------
(* Crashes, restarts and the commit decision. *)

Crash(n) ==
    /\ mem[n] # None /\ crashes < MaxCrashes
    /\ crashes' = crashes + 1
    /\ mem' = [mem EXCEPT ![n] = None]
    /\ build' = [build EXCEPT ![n] = None]
    /\ transfer' = [m \in Replicas |->
                      IF m = n \/ (transfer[m] # None /\ transfer[m].from = n
                                      /\ transfer[m].state = None)
                      THEN None ELSE transfer[m]]
    /\ UNCHANGED <<logVars, disk>>

Restart(n) ==
    /\ mem[n] = None
    /\ disk' = [disk EXCEPT ![n] = open(@)]
    /\ mem' = [mem EXCEPT ![n] = recovered(open(disk[n]))]
    /\ UNCHANGED <<logVars, build, transfer, crashes>>

\* Replica n stores, or has applied, the committed prefix up to index i.
Stores(n, i) ==
    \A j \in 1 .. i : j <= disk[n].applied \/ (j \in DOMAIN disk[n].logs
                                                  /\ disk[n].logs[j] = log[j])

CommitEntry(c) ==
    /\ \E Q \in Quorums : \A n \in Q :
          /\ Stores(n, Len(log))
          /\ Len(log) + 1 \in DOMAIN disk[n].logs /\ disk[n].logs[Len(log) + 1] = c
    /\ Commit(c)
    /\ UNCHANGED replicaVars

ReplicasNext ==
    \/ \E c \in Commands : CommitEntry(c)
    \/ \E n \in Replicas :
          \/ \E v \in 1 .. MaxVote : save_vote(n, v)
          \/ \E c \in Commands : append(n, c)
          \/ \E i \in 1 .. MaxLog : save_committed(n, i) \/ truncate(n, i)
                                       \/ purge(n, i) \/ apply(n, i)
          \/ build_snapshot_clone(n) \/ build_snapshot_commit(n)
          \/ \E m \in Replicas : get_current_snapshot_meta(n, m)
          \/ get_current_snapshot_data(n) \/ install_snapshot(n) \/ DropTransfer(n)
          \/ Crash(n) \/ Restart(n)

ReplicasSpec == ReplicasInit /\ [][ReplicasNext]_vars

-----------------------------------------------------------------------------
(* Properties. *)

\* Every replica's policy state, in memory, on disk and in its snapshot, is
\* the one state of the history at the log index it is labelled with: the
\* commit order is the only write order, across batches, crashes, re-applied
\* entries and installed snapshots (apply, install_snapshot, open).
ReplicaFollowsHistory ==
    \A n \in Replicas :
        /\ disk[n].state = states[disk[n].applied + 1]
        /\ mem[n] # None => mem[n].state = states[mem[n].applied + 1]
        /\ disk[n].snap # None => disk[n].snap.state = states[disk[n].snap.index + 1]

\* The stored log has no hole: its indexes run from the one after last_purged
\* to the last one, and join the applied state, so that every entry that is
\* not yet applied can be read back (purge, truncate, open).
LogHasNoHole ==
    \A n \in Replicas :
        LET d == disk[n]
        IN  /\ DOMAIN d.logs = (d.purged + 1) .. get_log_state(d)
            /\ d.purged <= d.applied
            /\ mem[n] # None /\ mem[n].purgeTo = 0 => d.applied <= get_log_state(d)

\* A committed entry stays with a quorum, in the log or in the applied state,
\* through truncation, purging and crashes.
CommittedIsDurable == \E Q \in Quorums : \A n \in Q : Stores(n, Len(log))

\* Nothing a replica has made durable goes back: its applied index, purge
\* point, commit index, vote and policy_epoch never decrease, in particular
\* not across a crash and restart.
NothingGoesBack ==
    [][\A n \in Replicas :
         /\ disk'[n].applied >= disk[n].applied /\ disk'[n].purged >= disk[n].purged
         /\ disk'[n].committed >= disk[n].committed /\ disk'[n].vote >= disk[n].vote
         /\ disk'[n].state.epoch >= disk[n].state.epoch]_vars

\* The replicas implement the abstract specification: through batches,
\* conflicting entries, purges, snapshots and crashes between any two
\* transactions, a caller of policy_snapshot and applied_index sees a replica
\* that shows committed states, moves forward and forgets nothing
\* (StateMachineStore).
Abstract == INSTANCE ReplicatedPolicy
    WITH States <- State, Initial <- InitialState, history <- states,
         shown <- [n \in Replicas |-> IF mem[n] = None THEN None
                                      ELSE [index |-> mem[n].applied, state |-> mem[n].state]],
         kept <- [n \in Replicas |-> disk[n].applied]

ImplementsReplicatedPolicy == Abstract!Spec

=============================================================================
