------------------------- MODULE PolicyStateProofs -------------------------
(***************************************************************************)
(* What one command may do to a policy state, for every state and command. *)
(***************************************************************************)
EXTENDS PolicyState, FiniteSetTheorems, TLAPS

USE NamesAssumption, BoundsAssumption

\* The effect every policy command has: it keeps the types, never lowers the
\* epoch, leaves the dedup table alone, and moves the epoch (below its
\* ceiling) whenever it changes what is published.
Effect(s, r) ==
    /\ r.state \in State
    /\ r.outcome \in Outcome
    /\ r.state.epoch >= s.epoch
    /\ r.state.dedup = s.dedup
    /\ r.state.epoch = s.epoch /\ s.epoch < U64Max => Published(r.state) = Published(s)

\* saturating_add stays in range, never decreases and moves below the ceiling.
LEMMA IncLemma ==
    ASSUME NEW n \in 0 .. U64Max
    PROVE  /\ saturating_inc(n) \in 0 .. U64Max
           /\ saturating_inc(n) >= n
           /\ n < U64Max => saturating_inc(n) > n
  BY DEF saturating_inc

\* A rejection has no effect.
LEMMA ErrEffect ==
    ASSUME NEW s \in State, NEW code \in Codes
    PROVE  Effect(s, Err(s, code))
  <1>1. Err(s, code).state = s /\ Err(s, code).outcome \in Outcome
    BY DEF Err, Outcome
  <1>2. s.epoch \in 0 .. U64Max
    BY DEF State
  <1> QED
    BY <1>1, <1>2 DEF Effect

\* A success has the effect of the state it returns.
LEMMA OkEffect ==
    ASSUME NEW s \in State, NEW t \in State, NEW v \in Nat, NEW b \in BOOLEAN,
           t.epoch >= s.epoch, t.dedup = s.dedup,
           t.epoch = s.epoch /\ s.epoch < U64Max => Published(t) = Published(s)
    PROVE  Effect(s, Ok(t, v, b))
  <1>1. Ok(t, v, b).state = t /\ Ok(t, v, b).outcome \in Outcome
    BY DEF Ok, Outcome, Codes
  <1> QED
    BY <1>1 DEF Effect

\* A success that moves the epoch may change anything but the dedup table.
LEMMA MovedEffect ==
    ASSUME NEW s \in State, NEW t \in State, NEW v \in Nat, NEW b \in BOOLEAN,
           t.epoch = saturating_inc(s.epoch), t.dedup = s.dedup
    PROVE  Effect(s, Ok(t, v, b))
  <1>1. s.epoch \in 0 .. U64Max
    BY DEF State
  <1> QED
    BY <1>1, IncLemma, OkEffect

\* create_service adds one service and moves the epoch.
LEMMA CreateEffect ==
    ASSUME NEW s \in State, NEW c \in MemberCommand
    PROVE  Effect(s, create_service(s, c))
  <1>1. CASE c.service \in ValidServices /\ c.peers \subseteq ValidPeers
                /\ s.services[c.service] = None
    <2> DEFINE t == [s EXCEPT !.services[c.service] = [version |-> 1, members |-> c.peers],
                              !.epoch = saturating_inc(@)]
    <2>1. [version |-> 1, members |-> c.peers] \in ServiceState
      BY <1>1 DEF ServiceState
    <2>2. s.epoch \in 0 .. U64Max /\ saturating_inc(s.epoch) \in 0 .. U64Max
      BY IncLemma DEF State
    <2>3. t \in State /\ t.epoch = saturating_inc(s.epoch) /\ t.dedup = s.dedup
      BY <2>1, <2>2, Zenon DEF State
    <2>4. create_service(s, c) = Ok(t, 1, TRUE)
      BY <1>1, Zenon DEF create_service
    <2> QED
      BY <2>3, <2>4, MovedEffect, Zenon
  <1>2. CASE ~(c.service \in ValidServices /\ c.peers \subseteq ValidPeers
                /\ s.services[c.service] = None)
    <2>1. \E code \in {"invalid_service", "invalid_peer", "already_exists"} :
              create_service(s, c) = Err(s, code)
      BY <1>2, Zenon DEF create_service
    <2> QED
      BY <2>1, ErrEffect DEF Codes
  <1> QED
    BY <1>1, <1>2

\* delete_service removes a service, records its tombstone, moves the epoch.
LEMMA DeleteEffect ==
    ASSUME NEW s \in State, NEW c \in DeleteCommand
    PROVE  Effect(s, delete_service(s, c))
  <1>1. CASE s.services[c.service] # None
    <2> DEFINE tomb == saturating_inc(s.services[c.service].version)
               t == [s EXCEPT !.services[c.service] = None, !.tombstones[c.service] = tomb,
                              !.epoch = saturating_inc(@)]
    <2>1. s.services[c.service] \in ServiceState
      BY <1>1 DEF State, DeleteCommand
    <2>2. tomb \in 0 .. U64Max /\ tomb \in Nat
      BY <2>1, IncLemma DEF ServiceState
    <2>3. s.epoch \in 0 .. U64Max /\ saturating_inc(s.epoch) \in 0 .. U64Max
      BY IncLemma DEF State
    <2>4. t \in State /\ t.epoch = saturating_inc(s.epoch) /\ t.dedup = s.dedup
      BY <2>2, <2>3, ZenonT(60) DEF State
    <2>5. delete_service(s, c) = Ok(t, tomb, TRUE)
      BY <1>1 DEF delete_service
    <2> QED
      BY <2>2, <2>4, <2>5, MovedEffect, Zenon
  <1>2. CASE s.services[c.service] = None
    BY <1>2, ErrEffect DEF delete_service, Codes
  <1> QED
    BY <1>1, <1>2

\* A member operation that changes the set moves the version and the epoch.
LEMMA MembersEffect ==
    ASSUME NEW s \in State, NEW c \in MemberCommand
    PROVE  Effect(s, change_members(s, c))
  <1>1. CASE c.peers \subseteq ValidPeers /\ s.services[c.service] # None
    <2> DEFINE old == s.services[c.service]
               members == edited_members(c.op, old.members, c.peers)
               version == saturating_inc(old.version)
               t == [s EXCEPT !.services[c.service] = [version |-> version, members |-> members],
                              !.epoch = saturating_inc(@)]
    <2>1. old \in ServiceState
      BY <1>1 DEF State, MemberCommand
    <2>2. members \subseteq ValidPeers
      BY <1>1, <2>1 DEF edited_members, ServiceState
    <2>3. version \in 0 .. U64Max /\ version \in Nat /\ old.version \in Nat
      BY <2>1, IncLemma DEF ServiceState
    <2>4. s.epoch \in 0 .. U64Max /\ saturating_inc(s.epoch) \in 0 .. U64Max
      BY IncLemma DEF State
    <2>5. [version |-> version, members |-> members] \in ServiceState
      BY <2>2, <2>3 DEF ServiceState
    <2>6. t \in State /\ t.epoch = saturating_inc(s.epoch) /\ t.dedup = s.dedup
      BY <2>4, <2>5, Zenon DEF State
    <2>7. change_members(s, c) = finish_change(s, c.service, members)
      BY <1>1 DEF change_members
    <2>8. CASE members = old.members
      <3>1. finish_change(s, c.service, members) = Ok(s, old.version, FALSE)
        BY <2>8 DEF finish_change
      <3>2. s.epoch >= s.epoch
        BY <2>4
      <3> HIDE DEF old, members
      <3> QED
        BY <2>3, <2>7, <3>1, <3>2, OkEffect, Zenon
    <2>9. CASE members # old.members
      <3>1. finish_change(s, c.service, members) = Ok(t, version, TRUE)
        BY <2>9 DEF finish_change
      <3> HIDE DEF t, version
      <3> QED
        BY <2>3, <2>6, <2>7, <3>1, MovedEffect, Zenon
    <2> QED
      BY <2>8, <2>9
  <1>2. CASE ~(c.peers \subseteq ValidPeers /\ s.services[c.service] # None)
    <2>1. \E code \in {"invalid_peer", "not_found"} : change_members(s, c) = Err(s, code)
      BY <1>2 DEF change_members
    <2> QED
      BY <2>1, ErrEffect DEF Codes
  <1> QED
    BY <1>1, <1>2

\* RenewIndex moves the epoch and sets the expiry.
LEMMA RenewEffect ==
    ASSUME NEW s \in State, NEW c \in RenewCommand
    PROVE  Effect(s, renew_index(s, c))
  <1> DEFINE t == [s EXCEPT !.epoch = saturating_inc(@), !.expires_at = c.expires_at]
  <1>1. s.epoch \in 0 .. U64Max /\ saturating_inc(s.epoch) \in 0 .. U64Max
    BY IncLemma DEF State
  <1>2. t \in State /\ t.epoch = saturating_inc(s.epoch) /\ t.dedup = s.dedup
    BY <1>1, Zenon DEF State, RenewCommand
  <1>3. renew_index(s, c) = Ok(t, 0, TRUE)
    BY DEF renew_index
  <1> HIDE DEF t
  <1> QED
    BY <1>2, <1>3, MovedEffect, Zenon

\* A token operation that writes one well-typed record leaves what is published alone.
LEMMA TokenWriteEffect ==
    ASSUME NEW s \in State, NEW j \in Jtis, NEW stored \in StoredJoinToken, NEW v \in Nat
    PROVE  Effect(s, Ok([s EXCEPT !.tokens[j] = stored], v, TRUE))
  <1> DEFINE t == [s EXCEPT !.tokens[j] = stored]
  <1>1. t \in State /\ t.epoch = s.epoch /\ t.dedup = s.dedup
    BY DEF State
  <1>2. t.services = s.services /\ t.expires_at = s.expires_at
    BY DEF State
  <1>3. t.epoch >= s.epoch
    BY <1>1 DEF State
  <1>4. Published(t) = Published(s)
    BY <1>2 DEF Published
  <1> HIDE DEF t
  <1>5. Effect(s, Ok(t, v, TRUE))
    BY <1>1, <1>3, <1>4, OkEffect, Zenon
  <1> QED
    BY <1>5, Zenon DEF t

\* issue_join_token records a new token.
LEMMA IssueEffect ==
    ASSUME NEW s \in State, NEW c \in IssueCommand
    PROVE  Effect(s, issue_join_token(s, c))
  <1> DEFINE token == c.token
             ok == /\ token.v = 1 /\ token.jti # None /\ token.max_uses # 0
                   /\ token.network = Network /\ s.tokens[token.jti] = None
  <1>1. token \in JoinToken
    BY DEF IssueCommand
  <1>2. CASE ok
    <2>1. token.jti \in Jtis /\ [token |-> token, uses |-> 0] \in StoredJoinToken
          /\ token.expires_at \in Nat
      BY <1>1, <1>2 DEF JoinToken, StoredJoinToken
    <2>2. issue_join_token(s, c)
             = Ok([s EXCEPT !.tokens[token.jti] = [token |-> token, uses |-> 0]],
                  token.expires_at, TRUE)
      BY <1>2 DEF issue_join_token
    <2> HIDE DEF token
    <2> QED
      BY <2>1, <2>2, TokenWriteEffect, ZenonT(60)
  <1>3. CASE ~ok
    <2>1. \E code \in {"join_token_bad_version", "join_token_bad_jti", "join_token_bad_uses",
                       "join_token_wrong_network", "join_token_exists"} :
              issue_join_token(s, c) = Err(s, code)
      BY <1>3, Zenon DEF issue_join_token
    <2> QED
      BY <2>1, ErrEffect DEF Codes
  <1> QED
    BY <1>2, <1>3

\* consume_join_token counts one use of a recorded token.
LEMMA ConsumeEffect ==
    ASSUME NEW s \in State, NEW c \in ConsumeCommand
    PROVE  Effect(s, consume_join_token(s, c))
  <1> DEFINE stored == s.tokens[c.jti]
             ok == /\ stored # None /\ ~(stored.uses >= stored.token.max_uses)
                   /\ stored.token.bind \in {None, c.peer}
                   /\ ~(stored.token.expires_at = 0 \/ c.used_at > stored.token.expires_at)
  <1>1. c.jti \in Jtis
    BY DEF ConsumeCommand
  <1>2. CASE ok
    <2>1. stored \in StoredJoinToken
      BY <1>1, <1>2 DEF State
    <2>2. [stored EXCEPT !.uses = @ + 1] \in StoredJoinToken
      BY <2>1 DEF StoredJoinToken
    <2>3. consume_join_token(s, c)
             = Ok([s EXCEPT !.tokens[c.jti] = [stored EXCEPT !.uses = @ + 1]], 0, TRUE)
      BY <1>2, Zenon DEF consume_join_token
    <2> HIDE DEF stored
    <2> QED
      BY <1>1, <2>2, <2>3, TokenWriteEffect, Zenon
  <1>3. CASE ~ok
    <2>1. \E code \in {"join_token_unknown", "join_token_replayed", "join_token_wrong_peer",
                       "join_token_expired"} : consume_join_token(s, c) = Err(s, code)
      BY <1>3, Zenon DEF consume_join_token
    <2> QED
      BY <2>1, ErrEffect DEF Codes
  <1> QED
    BY <1>2, <1>3

\* Every policy command has the effect (apply_inner).
LEMMA InnerEffect ==
    ASSUME NEW s \in State, NEW c \in InnerCommand
    PROVE  Effect(s, apply_inner(s, c))
  <1>1. CASE c \in MemberCommand
    <2>1. c.op \in {"create", "add", "remove", "set"}
      BY <1>1 DEF MemberCommand
    <2>2. apply_inner(s, c) = create_service(s, c) \/ apply_inner(s, c) = change_members(s, c)
      BY <2>1 DEF apply_inner
    <2> QED
      BY <1>1, <2>2, CreateEffect, MembersEffect
  <1>2. CASE c \in DeleteCommand
    <2>1. apply_inner(s, c) = delete_service(s, c)
      BY <1>2 DEF DeleteCommand, apply_inner
    <2> QED
      BY <1>2, <2>1, DeleteEffect
  <1>3. CASE c \in RenewCommand
    <2>1. apply_inner(s, c) = renew_index(s, c)
      BY <1>3 DEF RenewCommand, apply_inner
    <2> QED
      BY <1>3, <2>1, RenewEffect
  <1>4. CASE c \in IssueCommand
    <2>1. apply_inner(s, c) = issue_join_token(s, c)
      BY <1>4 DEF IssueCommand, apply_inner
    <2> QED
      BY <1>4, <2>1, IssueEffect
  <1>5. CASE c \in ConsumeCommand
    <2>1. apply_inner(s, c) = consume_join_token(s, c)
      BY <1>5 DEF ConsumeCommand, apply_inner
    <2> QED
      BY <1>5, <2>1, ConsumeEffect
  <1> QED
    BY <1>1, <1>2, <1>3, <1>4, <1>5 DEF InnerCommand

DedupTable == [RequestIds -> AdminRecord \cup {None}]

\* prune_dedup only removes records.
LEMMA PruneRemoves ==
    ASSUME NEW dedup \in DedupTable, NEW now
    PROVE  /\ prune_dedup(dedup, now) \in DedupTable
           /\ \A r \in RequestIds : prune_dedup(dedup, now)[r] \in {dedup[r], None}
  BY DEF prune_dedup, DedupTable

\* A record survives prune_dedup when it is within the TTL and the log indexes
\* of the newer records lie in a set of fewer than DedupMax.
LEMMA PruneKeeps ==
    ASSUME NEW dedup \in DedupTable, NEW now \in Nat, NEW r \in RequestIds,
           dedup[r] # None, now - dedup[r].ts <= DedupTtl,
           NEW S, IsFiniteSet(S), Cardinality(S) < DedupMax,
           \A q \in RequestIds : dedup[q] # None /\ dedup[q].index > dedup[r].index
                                    => dedup[q].index \in S
    PROVE  prune_dedup(dedup, now)[r] = dedup[r]
  <1> DEFINE fresh == {q \in RequestIds : dedup[q] # None /\ now - dedup[q].ts <= DedupTtl}
             newer(x) == {i \in {dedup[q].index : q \in fresh} : i > dedup[x].index}
  <1>1. r \in fresh
    OBVIOUS
  <1>2. newer(r) \subseteq S
    OBVIOUS
  <1>3. Cardinality(newer(r)) <= Cardinality(S) /\ IsFiniteSet(newer(r))
    BY <1>2, FS_Subset
  <1>4. Cardinality(newer(r)) < DedupMax
    BY <1>3, FS_CardinalityType
  <1>5. prune_dedup(dedup, now)
           = [x \in RequestIds |->
                IF x \in fresh /\ Cardinality(newer(x)) < DedupMax THEN dedup[x] ELSE None]
    BY DEF prune_dedup
  <1> HIDE DEF fresh, newer
  <1> QED
    BY <1>1, <1>4, <1>5

\* What a first request leaves in the table, and the table before it is pruned.
FirstRecord(s, c, n) == [hash |-> c.hash, outcome |-> apply_inner(s, c.cmd).outcome,
                         epoch |-> apply_inner(s, c.cmd).state.epoch, index |-> n, ts |-> c.ts]
FullTable(s, c, n) == [s.dedup EXCEPT ![c.id] = FirstRecord(s, c, n)]

\* A first administrator request records its answer and prunes the table; the
\* rest of the state is what the command made of it.
LEMMA FirstRequest ==
    ASSUME NEW s \in State, NEW c \in AdminCommand, NEW n \in Nat, s.dedup[c.id] = None
    PROVE  /\ FirstRecord(s, c, n) \in AdminRecord
           /\ FullTable(s, c, n) \in DedupTable
           /\ apply_command_at(s, c, n).state
                 = [apply_inner(s, c.cmd).state EXCEPT
                       !.dedup = prune_dedup(FullTable(s, c, n), c.ts)]
           /\ apply_command_at(s, c, n).answer
                 = FirstAnswer(apply_inner(s, c.cmd).outcome, apply_inner(s, c.cmd).state.epoch, n)
  <1> DEFINE inner == apply_inner(s, c.cmd)
  <1>1. c.op = "admin" /\ c.id \in RequestIds /\ c.hash \in Kids \X InnerCommand
        /\ c.ts \in Nat /\ c.cmd \in InnerCommand
    BY DEF AdminCommand
  <1>2. inner.state \in State /\ inner.outcome \in Outcome /\ inner.state.dedup = s.dedup
    BY <1>1, InnerEffect DEF Effect
  <1>3. inner.state.epoch \in 0 .. U64Max
    BY <1>2 DEF State
  <1>4. FirstRecord(s, c, n) \in AdminRecord
    BY <1>1, <1>2, <1>3 DEF AdminRecord, FirstRecord
  <1>5. s.dedup \in DedupTable
    BY DEF State, DedupTable
  <1>6. FullTable(s, c, n) \in DedupTable
    BY <1>4, <1>5, Zenon DEF DedupTable, FullTable
  <1>7. apply_command_at(s, c, n) = apply_admin(s, c, n)
    BY <1>1 DEF apply_command_at
  <1>8. apply_admin(s, c, n)
           = [state |-> [inner.state EXCEPT
                            !.dedup = prune_dedup([inner.state.dedup EXCEPT
                                                      ![c.id] = FirstRecord(s, c, n)], c.ts)],
              answer |-> FirstAnswer(inner.outcome, inner.state.epoch, n)]
    BY DEF apply_admin, FirstRecord
  <1> HIDE DEF inner
  <1>9. apply_admin(s, c, n)
           = [state |-> [inner.state EXCEPT !.dedup = prune_dedup(FullTable(s, c, n), c.ts)],
              answer |-> FirstAnswer(inner.outcome, inner.state.epoch, n)]
    BY <1>2, <1>8 DEF FullTable
  <1> QED
    BY <1>4, <1>6, <1>7, <1>9 DEF inner

\* A request whose id is in the table changes nothing and is answered from it.
LEMMA RepeatedRequest ==
    ASSUME NEW s \in State, NEW c \in AdminCommand, NEW n \in Nat, s.dedup[c.id] # None
    PROVE  LET record == s.dedup[c.id]
           IN  apply_command_at(s, c, n)
                  = [state |-> s,
                     answer |-> IF record.hash = c.hash
                                THEN RepeatedAnswer(record.outcome, record.epoch, record.index)
                                ELSE RepeatedAnswer(conflict, s.epoch, n)]
  <1>1. c.op = "admin"
    BY DEF AdminCommand
  <1> QED
    BY <1>1 DEF apply_command_at, apply_admin

\* An answer built from well-typed parts is well typed.
LEMMA AnswerType ==
    ASSUME NEW o \in Outcome, NEW e \in 0 .. U64Max, NEW n \in Nat
    PROVE  FirstAnswer(o, e, n) \in PolicyResult /\ RepeatedAnswer(o, e, n) \in PolicyResult
  BY DEF FirstAnswer, RepeatedAnswer, PolicyResult

\* What applying any command does: types are kept, the epoch never goes back,
\* and below its ceiling it moves whenever what is published changes.
LEMMA ApplyEffect ==
    ASSUME NEW s \in State, NEW c \in Command, NEW n \in Nat
    PROVE  LET r == apply_command_at(s, c, n)
           IN  /\ r.state \in State
               /\ r.answer \in PolicyResult
               /\ r.state.epoch >= s.epoch
               /\ r.state.epoch = s.epoch /\ s.epoch < U64Max => Published(r.state) = Published(s)
  <1> DEFINE r == apply_command_at(s, c, n)
  <1>0. s.epoch \in 0 .. U64Max
    BY DEF State
  <1>1. CASE c \in AdminCommand /\ s.dedup[c.id] = None
    <2> DEFINE inner == apply_inner(s, c.cmd)
               table == prune_dedup(FullTable(s, c, n), c.ts)
    <2>1. Effect(s, inner)
      BY <1>1, InnerEffect DEF AdminCommand
    <2>2. table \in DedupTable
      BY <1>1, FirstRequest, PruneRemoves, Zenon DEF AdminCommand
    <2>3. r.state = [inner.state EXCEPT !.dedup = table]
          /\ r.answer = FirstAnswer(inner.outcome, inner.state.epoch, n)
      BY <1>1, FirstRequest
    <2> HIDE DEF inner, table, r
    <2>4. inner.state \in State /\ inner.state.epoch \in 0 .. U64Max
      BY <2>1 DEF Effect, State
    <2>5. r.state \in State
      BY <2>2, <2>3, <2>4 DEF State, DedupTable
    <2>6. r.state.epoch = inner.state.epoch /\ r.state.services = inner.state.services
          /\ r.state.expires_at = inner.state.expires_at
      BY <2>3, <2>4 DEF State
    <2>7. Published(r.state) = Published(inner.state)
      BY <2>6 DEF Published
    <2>8. r.answer \in PolicyResult
      BY <2>1, <2>3, <2>4, AnswerType DEF Effect
    <2>9. r.state.epoch >= s.epoch
          /\ (r.state.epoch = s.epoch /\ s.epoch < U64Max => Published(r.state) = Published(s))
      BY <2>1, <2>6, <2>7 DEF Effect
    <2> QED
      BY <2>5, <2>8, <2>9 DEF r
  <1>2. CASE c \in AdminCommand /\ s.dedup[c.id] # None
    <2> DEFINE record == s.dedup[c.id]
    <2>1. record \in AdminRecord
      BY <1>2 DEF State, AdminCommand
    <2>2. record.outcome \in Outcome /\ record.epoch \in 0 .. U64Max /\ record.index \in Nat
      BY <2>1 DEF AdminRecord
    <2>3. conflict \in Outcome
      BY DEF conflict, Outcome, Codes
    <2>4. r.state = s /\ \/ r.answer = RepeatedAnswer(record.outcome, record.epoch, record.index)
                         \/ r.answer = RepeatedAnswer(conflict, s.epoch, n)
      BY <1>2, RepeatedRequest
    <2> HIDE DEF record, r
    <2>5. r.answer \in PolicyResult
      BY <1>0, <2>2, <2>3, <2>4, AnswerType
    <2>6. r.state.epoch >= s.epoch
      BY <1>0, <2>4
    <2> QED
      BY <2>4, <2>5, <2>6 DEF r
  <1>3. CASE c \in InnerCommand
    <2> DEFINE inner == apply_inner(s, c)
    <2>1. Effect(s, inner)
      BY <1>3, InnerEffect
    <2>2. c.op \notin {"admin", "blank", "membership"}
      BY <1>3 DEF InnerCommand, MemberCommand, DeleteCommand, RenewCommand, IssueCommand,
                  ConsumeCommand
    <2>3. r = [state |-> inner.state,
               answer |-> FirstAnswer(inner.outcome, inner.state.epoch, 0)]
      BY <2>2 DEF apply_command_at
    <2> HIDE DEF inner
    <2>4. inner.state.epoch \in 0 .. U64Max
      BY <2>1 DEF Effect, State
    <2>5. r.state = inner.state /\ r.answer \in PolicyResult
      BY <2>1, <2>3, <2>4, AnswerType DEF Effect
    <2> HIDE DEF r
    <2>6. r.state \in State /\ r.state.epoch >= s.epoch
          /\ (r.state.epoch = s.epoch /\ s.epoch < U64Max => Published(r.state) = Published(s))
      BY <2>1, <2>5 DEF Effect
    <2> QED
      BY <2>5, <2>6 DEF r
  <1>4. CASE c \in BlankCommand
    <2>1. c.op \in {"blank", "membership"}
      BY <1>4 DEF BlankCommand
    <2>2. \E o \in {blank_outcome, membership_outcome} :
              r = [state |-> s, answer |-> FirstAnswer(o, s.epoch, 0)]
      BY <2>1 DEF apply_command_at
    <2>3. blank_outcome \in Outcome /\ membership_outcome \in Outcome
      BY DEF blank_outcome, membership_outcome, Outcome, Codes
    <2>4. r.state = s /\ r.answer \in PolicyResult
      BY <1>0, <2>2, <2>3, AnswerType
    <2> HIDE DEF r
    <2>5. r.state.epoch >= s.epoch
      BY <1>0, <2>4
    <2> QED
      BY <2>4, <2>5 DEF r
  <1> QED
    BY <1>1, <1>2, <1>3, <1>4 DEF Command
=============================================================================
