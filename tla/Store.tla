------------------------------- MODULE Store -------------------------------
(***************************************************************************)
(* The member store of the multi-writer mode (src/store.rs): services      *)
(* with a version and a member set, the tombstones of deleted services and *)
(* the index version.  The module has the operations of `Store` as         *)
(* operators from a store to a store; LegacySync puts several stores side  *)
(* by side.  A request naming an invalid service or peer is refused before *)
(* it touches the store, so only valid names are modelled.                 *)
(***************************************************************************)
EXTENDS Integers

CONSTANTS
    Services,      \* valid service names
    Peers,         \* valid peer ids
    None,          \* "no such service"
    initial,       \* the members the configuration seeds, None where it has none
    members_hash   \* content_hash of the sorted members, as a number

(***************************************************************************)
(* The hash is SHA-256, ordered as bytes; distinct member sets are taken   *)
(* to have distinct hashes.                                                *)
(***************************************************************************)
ASSUME HashAssumption ==
    /\ members_hash \in [SUBSET Peers -> Nat]
    /\ \A x, y \in SUBSET Peers : members_hash[x] = members_hash[y] => x = y

ASSUME InitialAssumption == initial \in [Services -> (SUBSET Peers) \cup {None}]

ASSUME NoServiceAssumption == None \notin [version : Nat, members : SUBSET Peers]

ServiceState == [version : Nat, members : SUBSET Peers]

\* StoreSnapshot; an absent tombstone is read as 0 by every user.
StoreSnapshot == [index_version : Nat,
                  services : [Services -> ServiceState \cup {None}],
                  tombstones : [Services -> Nat]]

\* The first start: the seeded services at version 1.
load_or_create == [index_version |-> 1,
                   services |-> [s \in Services |->
                       IF initial[s] = None THEN None
                       ELSE [version |-> 1, members |-> initial[s]]],
                   tombstones |-> [s \in Services |-> 0]]

contains(st, s) == st.services[s] # None

version(st, s) == IF contains(st, s) THEN st.services[s].version ELSE 0

\* Members after add_members, remove_members or set_members.
edited(op, old, peers) ==
    CASE op = "add_members"    -> old \cup peers
      [] op = "remove_members" -> old \ peers
      [] op = "set_members"    -> peers

\* finish_change without its save.
finish_change(st, s, members) ==
    IF members = st.services[s].members
    THEN st
    ELSE [st EXCEPT !.services[s] = [version |-> @.version + 1, members |-> members],
                    !.index_version = @ + 1]

change_members(st, s, op, peers) ==
    finish_change(st, s, edited(op, st.services[s].members, peers))

\* A new service starts at version 1, whatever its tombstone says.
create_service(st, s, peers) ==
    [st EXCEPT !.services[s] = [version |-> 1, members |-> peers],
               !.index_version = @ + 1]

delete_service(st, s) ==
    [st EXCEPT !.services[s] = None,
               !.tombstones[s] = version(st, s) + 1,
               !.index_version = @ + 1]

bump_index_version(st) == [st EXCEPT !.index_version = @ + 1]

----------------------------------------------------------------------------
(***************************************************************************)
(* Merging what another sidecar says of a service.                         *)
(***************************************************************************)
Deletion(v) == [deleted |-> TRUE, version |-> v, members |-> {}]

Update(state) == [deleted |-> FALSE, version |-> state.version, members |-> state.members]

EntryUpdate == [deleted : BOOLEAN, version : Nat, members : SUBSET Peers]

\* Mutant of deletion_wins: an update of the same version wins.
deletion_wins_later(st, s, v) ==
    /\ v > version(st, s)
    /\ v >= st.tombstones[s]
    /\ contains(st, s) \/ st.tombstones[s] < v

\* Whether merge_service takes the deletion of service s at version v.
deletion_wins(st, s, v) ==
    /\ v >= version(st, s)
    /\ v >= st.tombstones[s]
    /\ contains(st, s) \/ st.tombstones[s] < v

\* Mutants of update_wins: no look at the tombstone, and no tie-break.
update_wins_over_tombstone(st, s, v, m) ==
    /\ v >= version(st, s)
    /\ (contains(st, s) /\ v = version(st, s)) =>
          members_hash[st.services[s].members] < members_hash[m]

update_wins_first(st, s, v, m) == v > st.tombstones[s] /\ v > version(st, s)

\* Whether merge_service takes the members m of service s at version v.
update_wins(st, s, v, m) ==
    /\ v > st.tombstones[s]
    /\ v >= version(st, s)
    /\ (contains(st, s) /\ v = version(st, s)) =>
          members_hash[st.services[s].members] < members_hash[m]

merge_service(st, s, e) ==
    IF e.deleted
    THEN IF deletion_wins(st, s, e.version)
         THEN [st EXCEPT !.services[s] = None, !.tombstones[s] = e.version]
         ELSE st
    ELSE IF update_wins(st, s, e.version, e.members)
         THEN [st EXCEPT !.services[s] = [version |-> e.version, members |-> e.members],
                         !.tombstones[s] = 0]
         ELSE st

\* Mutant of raise_index: the version that arrived is taken.
raise_index_to(st, index) == [st EXCEPT !.index_version = index]

raise_index(st, index) ==
    [st EXCEPT !.index_version = IF index > @ THEN index ELSE @]

merge_entry(st, s, e, index) == raise_index(merge_service(st, s, e), index)

\* The services of the snapshot first, then its tombstones.  Entries of
\* different services do not touch each other, so each service is merged on
\* its own; an empty snapshot does not even raise the index version.
merge_both(st, s, snap) ==
    LET live == IF contains(snap, s)
                THEN merge_service(st, s, Update(snap.services[s]))
                ELSE st
    IN  IF snap.tombstones[s] > 0
        THEN merge_service(live, s, Deletion(snap.tombstones[s]))
        ELSE live

merge_snapshot(st, snap) ==
    LET merged == [st EXCEPT
            !.services = [s \in Services |-> merge_both(st, s, snap).services[s]],
            !.tombstones = [s \in Services |-> merge_both(st, s, snap).tombstones[s]]]
    IN  IF \E s \in Services : contains(snap, s) \/ snap.tombstones[s] > 0
        THEN raise_index(merged, snap.index_version)
        ELSE merged
=============================================================================
