---------------------------- MODULE PolicyState ----------------------------
(***************************************************************************)
(* The deterministic policy state machine of src/raft/state_machine.rs.    *)
(* This module has no variables: a policy state is a record, a command is  *)
(* a record, and apply_command_at maps a state, a command and its Raft log *)
(* index to the next state and the answer the proposer receives.           *)
(*                                                                         *)
(* Names, PeerIds, request ids and token ids are uninterpreted values;     *)
(* ValidServices and ValidPeers are the ones is_valid_service_name and     *)
(* is_valid_peer_id accept.  A BTreeMap is a total function whose absent   *)
(* keys map to None (or to 0 for tombstones, which are never below 2).     *)
(* Member lists are sets, as BTreeSet makes them.                          *)
(***************************************************************************)
EXTENDS Integers, FiniteSets

CONSTANTS
    Services,       \* service names a command may carry
    ValidServices,  \* the ones is_valid_service_name accepts
    Peers,          \* PeerId strings a command may carry
    ValidPeers,     \* the ones is_valid_peer_id accepts
    Kids,           \* administrator key ids
    RequestIds,     \* administrator request ids
    Jtis,           \* join token ids
    Network,        \* the network of this policy state
    None,           \* an absent map entry; in a token: blank jti, other network, no bound peer
    U64Max,         \* the largest u64
    DedupMax,       \* DEDUP_MAX_ENTRIES
    DedupTtl        \* DEDUP_TTL_SECS

ASSUME NamesAssumption == ValidServices \subseteq Services /\ ValidPeers \subseteq Peers

ASSUME BoundsAssumption ==
    /\ U64Max \in Nat /\ U64Max >= 2
    /\ DedupMax \in Nat \ {0}
    /\ DedupTtl \in Nat

-----------------------------------------------------------------------------
(* Commands: src/raft/types.rs. *)

JoinToken == [jti : Jtis \cup {None}, v : Nat, network : {Network, None}, max_uses : Nat,
              bind : Peers \cup {None}, expires_at : Nat]

MemberCommand == [op : {"create", "add", "remove", "set"}, service : Services,
                  peers : SUBSET Peers]
DeleteCommand == [op : {"delete"}, service : Services]
RenewCommand == [op : {"renew"}, expires_at : Nat]
IssueCommand == [op : {"issue"}, token : JoinToken]
ConsumeCommand == [op : {"consume"}, jti : Jtis, peer : Peers, used_at : Nat]
\* A blank entry (a new leader's first) or a membership entry: no policy change.
BlankCommand == [op : {"blank", "membership"}]

InnerCommand == MemberCommand \cup DeleteCommand \cup RenewCommand
                    \cup IssueCommand \cup ConsumeCommand

\* The identity of an administrator request: everything but its nonce and ts.
request_hash(kid, cmd) == <<kid, cmd>>

AdminCommand == [op : {"admin"}, id : RequestIds, hash : Kids \X InnerCommand,
                 ts : Nat, cmd : InnerCommand]

Command == InnerCommand \cup AdminCommand \cup BlankCommand

-----------------------------------------------------------------------------
(* States. *)

ServiceState == [version : 0 .. U64Max, members : SUBSET ValidPeers]

\* What apply_inner answers: "ok" with a version (0 where the code has none)
\* and whether something changed, or the code of the rejection.
Codes == {"ok", "invalid_service", "invalid_peer", "already_exists", "not_found",
          "join_token_bad_version", "join_token_bad_jti", "join_token_bad_uses",
          "join_token_wrong_network", "join_token_exists", "join_token_unknown",
          "join_token_replayed", "join_token_wrong_peer", "join_token_expired",
          "request_id_conflict"}

Outcome == [code : Codes, version : Nat, changed : BOOLEAN]

AdminRecord == [hash : Kids \X InnerCommand, outcome : Outcome, epoch : 0 .. U64Max,
                index : Nat, ts : Nat]

StoredJoinToken == [token : JoinToken, uses : Nat]

\* The marker of absence is none of the values it stands beside.
ASSUME NoneAssumption ==
    /\ None \notin Jtis \cup Peers \cup {Network}
    /\ None \notin ServiceState \cup AdminRecord \cup StoredJoinToken

State == [epoch : 0 .. U64Max, expires_at : Nat,
          services : [Services -> ServiceState \cup {None}],
          tombstones : [Services -> 0 .. U64Max],
          dedup : [RequestIds -> AdminRecord \cup {None}],
          tokens : [Jtis -> StoredJoinToken \cup {None}]]

InitialState ==
    [epoch |-> 1, expires_at |-> 0,
     services |-> [s \in Services |-> None],
     tombstones |-> [s \in Services |-> 0],
     dedup |-> [r \in RequestIds |-> None],
     tokens |-> [j \in Jtis |-> None]]

\* What a leader signs and publishes from a policy state.
Published(s) == <<s.services, s.expires_at>>

saturating_inc(n) == IF n < U64Max THEN n + 1 ELSE n

-----------------------------------------------------------------------------
(* Operations: each returns the next state and the outcome. *)

Ok(s, version, changed) ==
    [state |-> s, outcome |-> [code |-> "ok", version |-> version, changed |-> changed]]

Err(s, code) ==
    [state |-> s, outcome |-> [code |-> code, version |-> 0, changed |-> FALSE]]

create_service(s, c) ==
    IF c.service \notin ValidServices THEN Err(s, "invalid_service")
    ELSE IF ~(c.peers \subseteq ValidPeers) THEN Err(s, "invalid_peer")
    ELSE IF s.services[c.service] # None THEN Err(s, "already_exists")
    ELSE Ok([s EXCEPT !.services[c.service] = [version |-> 1, members |-> c.peers],
                      !.epoch = saturating_inc(@)], 1, TRUE)

delete_service(s, c) ==
    IF s.services[c.service] = None THEN Err(s, "not_found")
    ELSE LET tombstone == saturating_inc(s.services[c.service].version)
         IN  Ok([s EXCEPT !.services[c.service] = None,
                          !.tombstones[c.service] = tombstone,
                          !.epoch = saturating_inc(@)], tombstone, TRUE)

edited_members(op, members, peers) ==
    CASE op = "add"    -> members \cup peers
      [] op = "remove" -> members \ peers
      [] OTHER         -> peers

\* Mutants of finish_change: a change that keeps the epoch, and one that moves
\* it although nothing changed.
finish_change_same_epoch(s, service, members) ==
    LET version == saturating_inc(s.services[service].version)
    IN  Ok([s EXCEPT !.services[service] = [version |-> version, members |-> members]],
           version, members # s.services[service].members)

finish_change_always(s, service, members) ==
    LET version == saturating_inc(s.services[service].version)
    IN  Ok([s EXCEPT !.services[service] = [version |-> version, members |-> members],
                     !.epoch = saturating_inc(@)],
           version, members # s.services[service].members)

\* A member operation that changes nothing moves neither version nor epoch.
finish_change(s, service, members) ==
    LET old == s.services[service]
        version == saturating_inc(old.version)
    IN  IF members = old.members THEN Ok(s, old.version, FALSE)
        ELSE Ok([s EXCEPT !.services[service] = [version |-> version, members |-> members],
                          !.epoch = saturating_inc(@)], version, TRUE)

\* Mutant of change_members: the peers are not validated.
change_members_unchecked(s, c) ==
    IF s.services[c.service] = None THEN Err(s, "not_found")
    ELSE finish_change(s, c.service,
                       edited_members(c.op, s.services[c.service].members, c.peers))

\* add_members, remove_members and set_members.
change_members(s, c) ==
    IF ~(c.peers \subseteq ValidPeers) THEN Err(s, "invalid_peer")
    ELSE IF s.services[c.service] = None THEN Err(s, "not_found")
    ELSE finish_change(s, c.service,
                       edited_members(c.op, s.services[c.service].members, c.peers))

renew_index(s, c) ==
    Ok([s EXCEPT !.epoch = saturating_inc(@), !.expires_at = c.expires_at], 0, TRUE)

issue_join_token(s, c) ==
    LET token == c.token
    IN  IF token.v # 1 THEN Err(s, "join_token_bad_version")
        ELSE IF token.jti = None THEN Err(s, "join_token_bad_jti")
        ELSE IF token.max_uses = 0 THEN Err(s, "join_token_bad_uses")
        ELSE IF token.network # Network THEN Err(s, "join_token_wrong_network")
        ELSE IF s.tokens[token.jti] # None THEN Err(s, "join_token_exists")
        ELSE Ok([s EXCEPT !.tokens[token.jti] = [token |-> token, uses |-> 0]],
                token.expires_at, TRUE)

\* Mutant of consume_join_token: one use too many.
consume_join_token_once_more(s, c) ==
    LET stored == s.tokens[c.jti]
    IN  IF stored = None THEN Err(s, "join_token_unknown")
        ELSE IF stored.uses > stored.token.max_uses THEN Err(s, "join_token_replayed")
        ELSE IF stored.token.bind \notin {None, c.peer} THEN Err(s, "join_token_wrong_peer")
        ELSE IF stored.token.expires_at = 0 \/ c.used_at > stored.token.expires_at
             THEN Err(s, "join_token_expired")
        ELSE Ok([s EXCEPT !.tokens[c.jti] = [stored EXCEPT !.uses = @ + 1]], 0, TRUE)

consume_join_token(s, c) ==
    LET stored == s.tokens[c.jti]
    IN  IF stored = None THEN Err(s, "join_token_unknown")
        ELSE IF stored.uses >= stored.token.max_uses THEN Err(s, "join_token_replayed")
        ELSE IF stored.token.bind \notin {None, c.peer} THEN Err(s, "join_token_wrong_peer")
        ELSE IF stored.token.expires_at = 0 \/ c.used_at > stored.token.expires_at
             THEN Err(s, "join_token_expired")
        ELSE Ok([s EXCEPT !.tokens[c.jti] = [stored EXCEPT !.uses = @ + 1]], 0, TRUE)

apply_inner(s, c) ==
    CASE c.op = "create"  -> create_service(s, c)
      [] c.op = "delete"  -> delete_service(s, c)
      [] c.op \in {"add", "remove", "set"} -> change_members(s, c)
      [] c.op = "renew"   -> renew_index(s, c)
      [] c.op = "issue"   -> issue_join_token(s, c)
      [] c.op = "consume" -> consume_join_token(s, c)

\* Mutant of prune_dedup: a record as old as the TTL goes too.
prune_dedup_early(dedup, now) ==
    [r \in RequestIds |->
        IF dedup[r] # None /\ now - dedup[r].ts < DedupTtl THEN dedup[r] ELSE None]

\* Records older than the TTL go, measured from the timestamp of the request
\* being applied; then the smallest log indexes go until DedupMax are left.
\* Log indexes are distinct, so what is left is every record with fewer than
\* DedupMax newer ones.
prune_dedup(dedup, now) ==
    LET fresh == {r \in RequestIds : dedup[r] # None /\ now - dedup[r].ts <= DedupTtl}
        newer(r) == {i \in {dedup[q].index : q \in fresh} : i > dedup[r].index}
    IN  [r \in RequestIds |->
            IF r \in fresh /\ Cardinality(newer(r)) < DedupMax THEN dedup[r] ELSE None]

\* What the proposer of a command is told (PolicyResult).
PolicyResult == [outcome : Outcome, epoch : 0 .. U64Max, index : Nat, duplicate : BOOLEAN]

FirstAnswer(outcome, epoch, index) ==
    [outcome |-> outcome, epoch |-> epoch, index |-> index, duplicate |-> FALSE]

RepeatedAnswer(outcome, epoch, index) ==
    [outcome |-> outcome, epoch |-> epoch, index |-> index, duplicate |-> TRUE]

conflict == [code |-> "request_id_conflict", version |-> 0, changed |-> FALSE]

apply_admin(s, c, index) ==
    LET record == s.dedup[c.id]
        inner == apply_inner(s, c.cmd)
        first == [hash |-> c.hash, outcome |-> inner.outcome, epoch |-> inner.state.epoch,
                  index |-> index, ts |-> c.ts]
    IN  IF record = None
        THEN [state  |-> [inner.state EXCEPT
                             !.dedup = prune_dedup([@ EXCEPT ![c.id] = first], c.ts)],
              answer |-> FirstAnswer(inner.outcome, inner.state.epoch, index)]
        ELSE [state  |-> s,
              answer |-> IF record.hash = c.hash
                         THEN RepeatedAnswer(record.outcome, record.epoch, record.index)
                         ELSE RepeatedAnswer(conflict, s.epoch, index)]

blank_outcome == [code |-> "ok", version |-> 0, changed |-> FALSE]
membership_outcome == [code |-> "ok", version |-> 0, changed |-> TRUE]

\* The answer to anything but an administrator request carries no log index.
apply_command_at(s, c, index) ==
    CASE c.op = "admin" -> apply_admin(s, c, index)
      [] c.op = "blank" -> [state |-> s, answer |-> FirstAnswer(blank_outcome, s.epoch, 0)]
      [] c.op = "membership" ->
             [state |-> s, answer |-> FirstAnswer(membership_outcome, s.epoch, 0)]
      [] OTHER -> LET inner == apply_inner(s, c)
                  IN  [state  |-> inner.state,
                       answer |-> FirstAnswer(inner.outcome, inner.state.epoch, 0)]

=============================================================================
