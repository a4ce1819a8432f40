-------------------------- MODULE RaftJoinAdmission -------------------------
(***************************************************************************)
(* A node enters the group on a use of its token.                          *)
(***************************************************************************)
EXTENDS RaftJoinTrust

USE TransportAssumption, JoinAssumption

\* The log counted a use of the token of n, in time and for n.
Entitled(n) ==
    \E s \in spent : /\ s.node = n /\ s.token = JoinToken[n]
                     /\ s.at <= s.token.expires_at /\ s.token.bind_peer_id \in {None, n}

\* AdmittedOnAUse, with the stages of a request: a token is recorded once, the
\* one a leader checked stays recorded, and a use is counted before the node
\* is added.
Admitted ==
    /\ \A n \in Ever \ Founders : Entitled(n)
    /\ \A r \in tokens : r.uses <= r.token.max_uses
    /\ \A r, q \in tokens : r.token.jti = q.token.jti => r = q
    /\ \A call \in calls : call.phase = "consume" => \E r \in tokens : r.token = JoinToken[call.node]
    /\ \A call \in calls : call.phase = "add" => Entitled(call.node)

\* A step that commits nothing keeps Admitted, if each request it leaves at
\* one of those stages was there before.
LEMMA AdmittedKept ==
    ASSUME Admitted, UNCHANGED <<configs, tokens, spent>>,
           \A d \in calls' : d.phase \in {"consume", "add"} =>
              \E call \in calls : call.phase = d.phase /\ call.node = d.node
    PROVE  Admitted'
  <1>1. UNCHANGED <<Ever, tokens, spent>>
    BY DEF Ever
  <1>2. \A n : Entitled(n) => Entitled(n)'
    BY <1>1 DEF Entitled
  <1> QED
    BY <1>1, <1>2 DEF Admitted

\* A membership without new nodes keeps Admitted, and so does one with a node
\* that is entitled (ChangeMembership).
LEMMA AdmittedChange ==
    ASSUME Typed, Admitted, NEW c \in Config, configs' = Append(configs, c),
           UNCHANGED <<tokens, spent>>,
           \A n \in members(c) : n \in members(current) \/ Entitled(n),
           \A d \in calls' : d.phase \in {"consume", "add"} => d \in calls
    PROVE  Admitted'
  <1>1. Ever' = Ever \cup members(c)
    BY ChangeGrows
  <1>2. members(current) \subseteq Ever
    <2>1. Len(configs) \in DOMAIN configs
      BY DEF Typed, JoinTypeOK, TransportTypeOK
    <2> QED
      BY <2>1 DEF current, Ever
  <1>3. \A n : Entitled(n) => Entitled(n)'
    BY DEF Entitled
  <1>4. \A n \in Ever' \ Founders : Entitled(n)
    BY <1>1, <1>2 DEF Admitted
  <1> QED
    BY <1>3, <1>4 DEF Admitted

\* A use that the log counts entitles the node and stays within the token's
\* number, since the record is that of the token the leader checked
\* (ConsumeJoinToken).
LEMMA ConsumeAdmits ==
    ASSUME Typed, Admitted, NEW call \in calls, NEW Q, NEW used_at \in Nat, consume(call, Q, used_at)
    PROVE  Admitted'
  <1> DEFINE t == JoinToken[call.node]
  <1>0. call \in Call /\ t \in Tokens
    BY DEF Typed, TokenCall
  <1>1. /\ [call EXCEPT !.phase = "error"].phase = "error"
        /\ [call EXCEPT !.phase = "add"].phase = "add"
        /\ [call EXCEPT !.phase = "add"].node = call.node
    BY <1>0 DEF Call
  <1>2. call.phase = "consume" /\ UNCHANGED configs
    BY DEF consume, transportVars
  <1>3. CASE Fail(call) /\ UNCHANGED <<tokens, spent>>
    BY <1>1, <1>2, <1>3, AdmittedKept, ZenonT(60) DEF Fail, Move
  <1>4. CASE /\ consume_join_token(t, call.node, used_at)
             /\ tokens' = {IF r.token.jti = t.jti THEN [r EXCEPT !.uses = @ + 1] ELSE r : r \in tokens}
             /\ spent' = spent \cup {[token |-> t, node |-> call.node, at |-> used_at]}
             /\ Fail(call) \/ Move(call, [call EXCEPT !.phase = "add"])
    <2>1. PICK r \in tokens : r.token = t
      BY <1>2 DEF Admitted
    <2>2. \A q \in tokens : q.token.jti = t.jti => q = r
      BY <2>1 DEF Admitted
    <2>3. /\ r.uses < t.max_uses /\ used_at <= t.expires_at
          /\ t.bind_peer_id \in {None, call.node}
      BY <1>4, <2>1, <2>2 DEF consume_join_token, recorded
    <2>4. \A n : Entitled(n) => Entitled(n)'
      BY <1>4 DEF Entitled
    <2>5. Entitled(call.node)'
      <3> DEFINE s == [token |-> t, node |-> call.node, at |-> used_at]
      <3>1. s.token = t /\ s.node = call.node /\ s.at = used_at
        OBVIOUS
      <3>2. s \in spent'
        BY <1>4
      <3> HIDE DEF s
      <3> QED
        BY <2>3, <3>1, <3>2 DEF Entitled
    <2>6. \A q \in tokens : q \in [token : Tokens, uses : Nat]
      BY DEF Typed, JoinTypeOK
    <2>7. ASSUME NEW q \in tokens'
          PROVE  \/ q \in tokens /\ q.token.jti # t.jti
                 \/ q = [r EXCEPT !.uses = @ + 1]
      BY <1>4, <2>2
    <2>8. [r EXCEPT !.uses = @ + 1].token = t /\ [r EXCEPT !.uses = @ + 1].uses = r.uses + 1
      BY <2>1, <2>6
    <2>9. \A q \in tokens' : q.uses <= q.token.max_uses
      <3> SUFFICES ASSUME NEW q \in tokens' PROVE q.uses <= q.token.max_uses
        OBVIOUS
      <3>1. CASE q \in tokens
        BY <3>1, Zenon DEF Admitted
      <3>2. CASE q = [r EXCEPT !.uses = @ + 1]
        <4>1. q.token = t /\ q.uses = r.uses + 1
          BY <2>8, <3>2, Zenon
        <4>2. r.uses \in Nat /\ t.max_uses \in Nat
          BY <1>0, <2>6
        <4> HIDE DEF t
        <4> QED
          BY <2>3, <4>1, <4>2
      <3> QED
        BY <2>7, <3>1, <3>2, Zenon
    <2>10. \A q, s \in tokens' : q.token.jti = s.token.jti => q = s
      BY <2>7, <2>8, Zenon DEF Admitted
    <2>11. ASSUME NEW q \in tokens PROVE \E s \in tokens' : s.token = q.token
      <3>1. CASE q.token.jti = t.jti
        <4>1. [q EXCEPT !.uses = @ + 1] \in tokens'
          BY <1>4, <3>1, Zenon
        <4>2. [q EXCEPT !.uses = @ + 1].token = q.token
          BY <2>6
        <4> QED
          BY <4>1, <4>2, Zenon
      <3>2. CASE q.token.jti # t.jti
        BY <1>4, <3>2
      <3> QED
        BY <3>1, <3>2
    <2>12. \A n \in Ever' \ Founders : Entitled(n)'
      BY <1>2, <2>4 DEF Admitted, Ever
    <2>13. ASSUME NEW d \in calls'
           PROVE  d \in calls \/ d.phase = "error" \/ (d.phase = "add" /\ d.node = call.node)
      BY <1>1, <1>4, Zenon DEF Fail, Move
    <2>14. \A d \in calls' : d.phase = "consume" => \E s \in tokens' : s.token = JoinToken[d.node]
      BY <2>11, <2>13 DEF Admitted
    <2>15. \A d \in calls' : d.phase = "add" => Entitled(d.node)'
      BY <2>4, <2>5, <2>13 DEF Admitted
    <2> QED
      BY <2>9, <2>10, <2>12, <2>14, <2>15 DEF Admitted
  <1> QED
    BY <1>3, <1>4 DEF consume

\* A node is added at the stage where a use of its token has been counted
\* (add_learner_node).
LEMMA AddAdmits ==
    ASSUME Typed, Admitted, NEW call \in calls, NEW Q, add_learner_node(call, Q)
    PROVE  Admitted'
  <1>0. call \in Call
    BY DEF Typed, TokenCall
  <1>1. /\ [call EXCEPT !.phase = "error"].phase = "error"
        /\ [call EXCEPT !.phase = "refresh"].phase = "refresh"
    BY <1>0 DEF Call
  <1>2. call.phase = "add" /\ UNCHANGED <<tokens, spent>>
    BY DEF add_learner_node
  <1>3. CASE Fail(call) /\ UNCHANGED transportVars
    BY <1>1, <1>2, <1>3, AdmittedKept, ZenonT(60) DEF Fail, Move, transportVars
  <1> DEFINE c == [current EXCEPT !.learners = @ \cup {call.node}]
  <1>4. CASE ChangeMembership(call.at, Q, c) /\ Move(call, [call EXCEPT !.phase = "refresh"])
    <2>1. c \in Config /\ members(c) = members(current) \cup {call.node}
      BY <1>0, ViewTypes DEF Config, Call, members
    <2>2. configs' = Append(configs, c)
      BY <1>4 DEF ChangeMembership
    <2>3. Entitled(call.node)
      BY <1>2 DEF Admitted
    <2>4. \A d \in calls' : d.phase \in {"consume", "add"} => d \in calls
      BY <1>1, <1>4, Zenon DEF Move
    <2> HIDE DEF c
    <2> QED
      BY <1>2, <2>1, <2>2, <2>3, <2>4, AdmittedChange
  <1> QED
    BY <1>3, <1>4 DEF add_learner_node

\* A request comes to the stage of ConsumeJoinToken only when the leader found
\* its token recorded (handle_raft_join, handle_leader_join).
LEMMA RequestAdmits ==
    ASSUME Typed, Admitted, NEW call \in calls, handle_raft_join(call)
    PROVE  Admitted'
  <1>0. call \in Call
    BY DEF Typed, TokenCall
  <1>1. call.phase = "request" /\ UNCHANGED <<configs, tokens, spent>>
    BY DEF handle_raft_join, transportVars
  <1>2. CASE Fail(call)
    <2>1. [call EXCEPT !.phase = "error"].phase = "error"
      BY <1>0 DEF Call
    <2> QED
      BY <1>1, <1>2, <2>1, AdmittedKept, Zenon DEF Fail, Move
  <1>3. CASE Move(call, [call EXCEPT !.at = sees[call.at], !.edge = call.at])
    <2>1. [call EXCEPT !.at = sees[call.at], !.edge = call.at].phase = "request"
      BY <1>0, <1>1 DEF Call
    <2> QED
      BY <1>1, <1>3, <2>1, AdmittedKept, Zenon DEF Move
  <1>4. CASE handle_leader_join(call) /\ Move(call, [call EXCEPT !.phase = "consume", !.ts = now])
    <2>1. /\ [call EXCEPT !.phase = "consume", !.ts = now].phase = "consume"
          /\ [call EXCEPT !.phase = "consume", !.ts = now].node = call.node
      BY <1>0 DEF Call
    <2>2. \E r \in tokens : r.token = JoinToken[call.node]
      BY <1>4 DEF handle_leader_join, recorded
    <2>3. ASSUME NEW d \in calls'
          PROVE  d \in calls \/ (d.phase = "consume" /\ d.node = call.node)
      BY <1>4, <2>1, ZenonT(60) DEF Move
    <2>4. \A d \in calls' : d.phase = "consume" => \E r \in tokens : r.token = JoinToken[d.node]
      BY <2>2, <2>3 DEF Admitted
    <2>5. \A d \in calls' : d.phase = "add" => Entitled(d.node)
      BY <2>3 DEF Admitted
    <2>6. \A n : Entitled(n) => Entitled(n)'
      BY <1>1 DEF Entitled
    <2>7. Ever' = Ever
      BY <1>1 DEF Ever
    <2> QED
      BY <1>1, <2>4, <2>5, <2>6, <2>7 DEF Admitted
  <1> QED
    BY <1>2, <1>3, <1>4 DEF handle_raft_join

\* No step admits a node without a use, or counts one too many.
LEMMA NextAdmitted == Typed /\ Admitted /\ [JoinNext]_vars => Admitted'
  <1> SUFFICES ASSUME Typed, Admitted, [JoinNext]_vars PROVE Admitted'
    OBVIOUS
  <1>1. CASE UNCHANGED <<configs, tokens, spent, calls>>
    BY <1>1, AdmittedKept, ZenonT(60)
  <1>2. \A call \in calls : call \in Call
    BY DEF Typed, TokenCall
  <1>3. ASSUME NEW call \in calls, Handle(call) PROVE Admitted'
    <2>1. CASE handle_raft_join(call)
      BY <2>1, RequestAdmits
    <2>2. ASSUME NEW Q, NEW used_at \in call.ts .. now, consume(call, Q, used_at) PROVE Admitted'
      <3>1. used_at \in Nat
        BY <1>2 DEF Call, Typed, JoinTypeOK
      <3> QED
        BY <2>2, <3>1, ConsumeAdmits
    <2>3. ASSUME NEW Q, add_learner_node(call, Q) PROVE Admitted'
      BY <2>3, AddAdmits, Zenon
    <2>4. CASE handler_refresh_read(call)
      <3>1. [call EXCEPT !.phase = "reply", !.view = membership_view(call.at)].phase = "reply"
        BY <1>2 DEF Call
      <3> QED
        BY <2>4, <3>1, AdmittedKept, Zenon DEF handler_refresh_read, Move, transportVars
    <2>5. CASE handler_refresh_write(call)
      <3>1. [call EXCEPT !.phase = "ok",
                         !.view = membership_view(call.at) \cup {call.node}].phase = "ok"
        BY <1>2 DEF Call
      <3> QED
        BY <2>5, <3>1, AdmittedKept, Zenon DEF handler_refresh_write, Move
    <2> QED
      BY <1>3, <2>1, <2>2, <2>3, <2>4, <2>5 DEF Handle
  <1>4. ASSUME NEW call \in calls, take_answer(call) PROVE Admitted'
    BY <1>4, AdmittedKept DEF take_answer
  <1>5. ASSUME NEW call \in calls, give_up(call) PROVE Admitted'
    <2>1. /\ [call EXCEPT !.live = FALSE].phase = call.phase
          /\ [call EXCEPT !.live = FALSE].node = call.node
      BY <1>2 DEF Call
    <2> QED
      BY <1>5, <2>1, AdmittedKept, Zenon DEF give_up, transportVars
  <1>6. ASSUME NEW n \in Nodes, ask(n) PROVE Admitted'
    <2>1. CASE UNCHANGED calls
      BY <1>1, <1>6, <2>1 DEF ask, transportVars
    <2>2. ASSUME NEW peer,
                 calls' = calls \cup {[node |-> n, at |-> peer, edge |-> None, ts |-> join[n].ts,
                                       live |-> TRUE, phase |-> "request", view |-> {}]}
          PROVE  Admitted'
      <3> DEFINE new == [node |-> n, at |-> peer, edge |-> None, ts |-> join[n].ts,
                         live |-> TRUE, phase |-> "request", view |-> {}]
      <3>1. new.phase = "request" /\ calls' = calls \cup {new}
        BY <2>2, Zenon
      <3>2. UNCHANGED <<configs, tokens, spent>>
        BY <1>6 DEF ask, transportVars
      <3> HIDE DEF new
      <3> QED
        BY <3>1, <3>2, AdmittedKept
    <2> QED
      BY <1>6, <2>1, <2>2, ZenonT(60) DEF ask
  <1>7. ASSUME NEW n \in Nodes, Crash(n) PROVE Admitted'
    <2>1. ASSUME NEW d \in calls'
          PROVE  d.phase = "error" \/ \E call \in calls : call.phase = d.phase /\ call.node = d.node
      <3>1. PICK call \in calls :
               \/ d = [call EXCEPT !.phase = "error", !.live = @ /\ call.node # n]
               \/ d = [call EXCEPT !.live = @ /\ n \notin {call.node, call.edge}]
        BY <1>7, Zenon DEF Crash
      <3> QED
        BY <1>2, <3>1, ZenonT(60) DEF Call
    <2> QED
      BY <1>7, <2>1, AdmittedKept, Zenon DEF Crash, crash
  <1>8. ASSUME NEW p, NEW Q, NEW t \in Tokens, issue_join_token(p, Q, t) PROVE Admitted'
    <2> DEFINE new == [token |-> t, uses |-> 0]
    <2>1. new.token = t /\ new.uses = 0
      OBVIOUS
    <2>2. /\ tokens' = tokens \cup {new} /\ \A r \in tokens : r.token.jti # t.jti
          /\ UNCHANGED <<configs, calls, spent>>
      BY <1>8 DEF issue_join_token, recorded, transportVars
    <2> HIDE DEF new
    <2>3. \A n : Entitled(n) => Entitled(n)'
      BY <2>2 DEF Entitled
    <2>4. Ever' = Ever
      BY <2>2 DEF Ever
    <2>5. \A r \in tokens' : r.uses <= r.token.max_uses
      <3>1. new.uses <= new.token.max_uses
        BY <2>1
      <3>2. \A r \in tokens : r.uses <= r.token.max_uses
        BY DEF Admitted
      <3> QED
        BY <2>2, <3>1, <3>2
    <2>6. \A r, q \in tokens' : r.token.jti = q.token.jti => r = q
      BY <2>1, <2>2 DEF Admitted
    <2> QED
      BY <2>2, <2>3, <2>4, <2>5, <2>6 DEF Admitted
  <1>9. ASSUME NEW p, NEW Q, NEW m \in Nodes, ChangeVoters(p, Q, m) PROVE Admitted'
    <2> DEFINE c == [voters |-> current.voters \cup {m}, learners |-> current.learners \ {m}]
               d == [current EXCEPT !.voters = @ \ {m}]
    <2>1. c \in Config /\ (m \in current.learners => members(c) \subseteq members(current))
      BY ViewTypes DEF Config, members
    <2>2. d \in Config /\ members(d) \subseteq members(current)
      BY ViewTypes DEF Config, members
    <2>3. /\ UNCHANGED <<tokens, spent, calls>>
          /\ \/ m \in current.learners /\ configs' = Append(configs, c)
             \/ configs' = Append(configs, d)
      BY <1>9 DEF ChangeVoters, ChangeMembership
    <2> HIDE DEF c, d
    <2> QED
      BY <2>1, <2>2, <2>3, AdmittedChange
  <1>10. ASSUME NEW n \in Nodes,
                \/ Start(n) \/ ensure_raft(n) \/ Elect(n)
                \/ try_join(n, Discovered) \/ try_join(n, {}) \/ Watcher(n)
         PROVE  UNCHANGED <<configs, tokens, spent, calls>>
    BY <1>10, ZenonT(60) DEF Start, start, ensure_raft, set_ready, Elect, vote, try_join, Watcher, refresh,
                 refresh_read, refresh_write, transportVars, joinVars
  <1>11. ASSUME NEW p, NEW q, NEW k, AppendEntries(p, q, k)
         PROVE  UNCHANGED <<configs, tokens, spent, calls>>
    BY <1>11, ZenonT(60) DEF AppendEntries, append_entries, joinVars
  <1>12. CASE Tick \/ UNCHANGED vars
    BY <1>1, <1>12 DEF Tick, vars, transportVars, joinVars
  <1> QED
    BY <1>1, <1>3, <1>4, <1>5, <1>6, <1>7, <1>8, <1>9, <1>10, <1>11, <1>12, ZenonT(60) DEF JoinNext

\* Whatever the cluster, its configuration and its tokens: a node that was not
\* a founder is a member only on a use of its token that the log counted, in
\* time and for that node, and no token is used more often than it says
\* (handle_leader_join, consume_join_token).
THEOREM AdmissionTheorem == JoinSpec => []AdmittedOnAUse
  <1>1. JoinInit => Typed
    BY InitTyped
  <1>2. JoinInit => Admitted
    <2> SUFFICES ASSUME JoinInit PROVE Admitted
      OBVIOUS
    <2>1. DOMAIN configs = {1} /\ members(configs[1]) = Founders
      BY DEF JoinInit, TransportInit, members
    <2>2. Ever = Founders
      BY <2>1 DEF Ever
    <2> QED
      BY <2>2, ZenonT(60) DEF JoinInit, Admitted
  <1>3. Admitted => AdmittedOnAUse
    BY DEF Admitted, AdmittedOnAUse, Entitled, Ever
  <1> QED
    BY <1>1, <1>2, <1>3, NextTyped, NextAdmitted, PTL DEF JoinSpec
=============================================================================
