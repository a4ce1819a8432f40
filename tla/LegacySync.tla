----------------------------- MODULE LegacySync -----------------------------
(***************************************************************************)
(* Several sidecars of the multi-writer mode, each with a store in memory  *)
(* and a state file.  An administrator may change any of them; a change is *)
(* broadcast once, without retry (src/replicate.rs), and every sidecar     *)
(* now and then pulls the whole store of a random other one.               *)
(*                                                                         *)
(* A broadcast that is lost is one that is never delivered.  A broadcast   *)
(* is delivered at most once: the receiver refuses a nonce it has seen.    *)
(***************************************************************************)
EXTENDS Store

CONSTANTS
    Sidecars,
    Changes,           \* the administrator's requests
    MaxChanges,        \* bound on the requests made and the index renewals together
    MaxSaveFailures,   \* bound on the failing writes of a state file
    MaxRestarts

ASSUME SyncAssumption ==
    /\ MaxChanges \in Nat
    /\ MaxSaveFailures \in Nat /\ MaxRestarts \in Nat

VARIABLES
    store,   \* AuthContext.store: what is in memory
    file,    \* the state file
    msgs,    \* ReplicateMsg broadcasts under way
    pulls,   \* the SyncResponse under way to each sidecar, or None
    budget   \* what is left of each bound

syncVars == <<store, file, msgs, pulls, budget>>

ReplicateMsg == [to : Sidecars, service : Services, entry : EntryUpdate, index_version : Nat]

Budget == [changes : 0..MaxChanges,
           save_failures : 0..MaxSaveFailures, restarts : 0..MaxRestarts]

SyncTypeOK ==
    /\ store \in [Sidecars -> StoreSnapshot]
    /\ file \in [Sidecars -> StoreSnapshot]
    /\ msgs \subseteq ReplicateMsg
    /\ pulls \in [Sidecars -> StoreSnapshot \cup {None}]
    /\ budget \in Budget

SyncInit ==
    /\ store = [n \in Sidecars |-> load_or_create]
    /\ file = store
    /\ msgs = {}
    /\ pulls = [n \in Sidecars |-> None]
    /\ budget = [changes |-> MaxChanges,
                 save_failures |-> MaxSaveFailures, restarts |-> MaxRestarts]

----------------------------------------------------------------------------
\* The file is replaced as a whole or not at all (fsutil::atomic_write).
save(n, ok) ==
    IF ok THEN file' = [file EXCEPT ![n] = store'[n]] ELSE file' = file

\* Spend one change, and one save failure when the save fails.
Spend(ok) ==
    /\ budget.changes > 0
    /\ ~ok => budget.save_failures > 0
    /\ budget' = [budget EXCEPT !.changes = @ - 1,
                                !.save_failures = IF ok THEN @ ELSE @ - 1]

after_change(n, s, entry) ==
    msgs' = msgs \cup {[to |-> m, service |-> s, entry |-> entry,
                        index_version |-> store'[n].index_version] : m \in Sidecars \ {n}}

\* add_members, remove_members, set_members: a failing save goes unnoticed and
\* the change is answered and broadcast all the same, as is a change of nothing.
change(n, c, ok) ==
    /\ contains(store[n], c.service)
    /\ store' = [store EXCEPT ![n] = change_members(@, c.service, c.op, c.peers)]
    /\ store'[n] = store[n] => ok /\ file' = file
    /\ store'[n] # store[n] => save(n, ok)
    /\ after_change(n, c.service, Update(store'[n].services[c.service]))

\* A failing save is answered by an error, before after_change; the store in
\* memory keeps the service.
create(n, c, ok) ==
    /\ c.op = "create_service"
    /\ ~contains(store[n], c.service)
    /\ store' = [store EXCEPT ![n] = create_service(@, c.service, c.peers)]
    /\ save(n, ok)
    /\ IF ok THEN after_change(n, c.service, Update(store'[n].services[c.service]))
             ELSE msgs' = msgs

delete(n, c, ok) ==
    /\ c.op = "delete_service"
    /\ contains(store[n], c.service)
    /\ store' = [store EXCEPT ![n] = delete_service(@, c.service)]
    /\ save(n, ok)
    /\ IF ok THEN after_change(n, c.service, Deletion(store'[n].tombstones[c.service]))
             ELSE msgs' = msgs

\* handle_service_request for a management request that passed authentication.
handle_service_request(n, c, ok) ==
    /\ Spend(ok)
    /\ \/ c.op \in {"add_members", "remove_members", "set_members"} /\ change(n, c, ok)
       \/ create(n, c, ok)
       \/ delete(n, c, ok)
    /\ UNCHANGED pulls

\* A renewal of the index raises its version; a failing save goes unnoticed.
renew(n, ok) ==
    /\ Spend(ok)
    /\ store' = [store EXCEPT ![n] = bump_index_version(@)]
    /\ save(n, ok)
    /\ UNCHANGED <<msgs, pulls>>

\* The save after a merge happens only when the merge changed something.
save_merged(n, ok) ==
    IF store'[n] = store[n]
    THEN ok /\ UNCHANGED <<file, budget>>
    ELSE /\ save(n, ok)
         /\ ~ok => budget.save_failures > 0
         /\ budget' = [budget EXCEPT !.save_failures = IF ok THEN @ ELSE @ - 1]

\* apply_replicated
handle_replicate(msg, ok) ==
    /\ msg \in msgs
    /\ store' = [store EXCEPT ![msg.to] =
                    merge_entry(@, msg.service, msg.entry, msg.index_version)]
    /\ save_merged(msg.to, ok)
    /\ msgs' = msgs \ {msg}
    /\ UNCHANGED pulls

\* Sidecar n asks m, and m answers with its store of that moment.
handle_sync_request(n, m) ==
    /\ n # m
    /\ pulls[n] = None
    /\ pulls' = [pulls EXCEPT ![n] = store[m]]
    /\ UNCHANGED <<store, file, msgs, budget>>

\* The answer arrives at n, which may have changed in the meantime.
sync_with_peer(n, ok) ==
    /\ pulls[n] # None
    /\ store' = [store EXCEPT ![n] = merge_snapshot(@, pulls[n])]
    /\ save_merged(n, ok)
    /\ pulls' = [pulls EXCEPT ![n] = None]
    /\ UNCHANGED msgs

\* The process ends and starts again from its file.
Restart(n) ==
    /\ budget.restarts > 0
    /\ budget' = [budget EXCEPT !.restarts = @ - 1]
    /\ store' = [store EXCEPT ![n] = file[n]]
    /\ pulls' = [pulls EXCEPT ![n] = None]
    /\ UNCHANGED <<file, msgs>>

SyncNext ==
    \/ \E n \in Sidecars, c \in Changes, ok \in BOOLEAN : handle_service_request(n, c, ok)
    \/ \E n \in Sidecars, ok \in BOOLEAN : renew(n, ok)
    \/ \E msg \in msgs, ok \in BOOLEAN : handle_replicate(msg, ok)
    \/ \E n, m \in Sidecars : handle_sync_request(n, m)
    \/ \E n \in Sidecars, ok \in BOOLEAN : sync_with_peer(n, ok)
    \/ \E n \in Sidecars : Restart(n)

SyncSpec == SyncInit /\ [][SyncNext]_syncVars

(***************************************************************************)
(* sync_loop ticks for ever, and sync_once shuffles the peers it found: a  *)
(* sidecar that keeps asking asks each of the others again and again.      *)
(* Nothing is assumed of requests, broadcasts or restarts.                 *)
(***************************************************************************)
SyncFairness ==
    /\ \A n \in Sidecars : \A m \in Sidecars \ {n} : SF_syncVars(handle_sync_request(n, m))
    /\ \A n \in Sidecars : WF_syncVars(sync_with_peer(n, TRUE))

SyncFairSpec == SyncSpec /\ SyncFairness

----------------------------------------------------------------------------
(***************************************************************************)
(* Properties.                                                             *)
(***************************************************************************)
Fence(st, s) ==
    IF version(st, s) > st.tombstones[s] THEN version(st, s) ELSE st.tombstones[s]

\* Service s was deleted, and created again with a version its tombstone covers.
Recreated(n, s) == contains(store[n], s) /\ version(store[n], s) <= store[n].tombstones[s]

\* What a sidecar knows of a service only grows: neither a broadcast arriving
\* late, nor the answer to an old pull, nor a restart, takes a sidecar back to
\* a version it has left, so a deleted service does not come back by
\* replication (merge_service, delete_service, load_or_create).  Exceptions: a
\* re-created service, and a store whose last save failed.
FenceNeverFalls ==
    [][\A n \in Sidecars, s \in Services :
          Fence(store'[n], s) >= Fence(store[n], s) \/ Recreated(n, s) \/ file[n] # store[n]]_syncVars

\* The version of the index a sidecar signs never falls, over merges, renewals
\* and restarts (merge_entry, bump_index_version, load_or_create), unless its
\* last save failed.
IndexVersionNeverFalls ==
    [][\A n \in Sidecars :
          store'[n].index_version >= store[n].index_version \/ file[n] # store[n]]_syncVars

\* Two sidecars that pull from each other at the same moment end with the same
\* version and members of a service, whatever changes they made apart (the
\* tie-breaks of merge_service).  Exception: a re-created service.
PullsAgree ==
    \A n, m \in Sidecars, s \in Services :
        \/ Recreated(n, s) \/ Recreated(m, s)
        \/ merge_snapshot(store[n], store[m]).services[s]
              = merge_snapshot(store[m], store[n]).services[s]

\* Once the administrator is silent the sidecars come to hold the same services
\* and keep them, whatever broadcasts, saves and processes failed before
\* (sync_loop; "eventual consistency" of the multi-writer mode).
Convergence == <>[](\A n, m \in Sidecars : store[n].services = store[m].services)
=============================================================================
