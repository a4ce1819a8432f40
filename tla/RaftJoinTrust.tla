---------------------------- MODULE RaftJoinTrust ---------------------------
(***************************************************************************)
(* The tables the nodes trust name only members of the group.              *)
(***************************************************************************)
EXTENDS RaftJoinTyping

USE TransportAssumption, JoinAssumption

\* The nodes of all memberships committed so far.
Ever == UNION {members(configs[i]) : i \in DOMAIN configs}

\* TablesNameMembers, with what is about to be written: a membership the
\* watcher or a handler has read, and the members in an answer.
Trusted ==
    /\ TablesNameMembers
    /\ \A n \in Nodes : fresh[n] = None \/ fresh[n] \subseteq Ever
    /\ \A call \in calls : call.phase = "reply" => call.view \subseteq Ever
    /\ \A call \in calls : call.phase = "ok" => call.view \subseteq Ever \cup {call.node}

\* A view is one of the memberships committed (membership_view).
LEMMA ViewInEver ==
    ASSUME Typed, NEW n \in Nodes
    PROVE  membership_view(n) \subseteq Ever
  <1>1. CASE stored[n] = 0
    BY <1>1 DEF membership_view
  <1>2. CASE stored[n] # 0
    <2>1. stored[n] \in DOMAIN configs
      BY <1>2 DEF Typed, JoinTypeOK, TransportTypeOK
    <2> QED
      BY <1>2, <2>1 DEF membership_view, Ever
  <1> QED
    BY <1>1, <1>2

\* The members committed are never forgotten: by one change ...
LEMMA ChangeGrows ==
    ASSUME Typed, NEW c \in Config, configs' = Append(configs, c)
    PROVE  Ever \subseteq Ever' /\ Ever' = Ever \cup members(c)
  <1>1. configs \in Seq(Config)
    BY DEF Typed, JoinTypeOK, TransportTypeOK
  <1>2. /\ DOMAIN configs' = DOMAIN configs \cup {Len(configs) + 1}
        /\ \A i \in DOMAIN configs : configs'[i] = configs[i]
        /\ configs'[Len(configs) + 1] = c
    BY <1>1
  <1>3. ASSUME NEW x \in Ever PROVE x \in Ever'
    <2>1. PICK i \in DOMAIN configs : x \in members(configs[i])
      BY DEF Ever
    <2>2. i \in DOMAIN configs' /\ x \in members(configs'[i])
      BY <1>2, <2>1
    <2> QED
      BY <2>2 DEF Ever
  <1>4. ASSUME NEW x \in members(c) PROVE x \in Ever'
    BY <1>2 DEF Ever
  <1>5. ASSUME NEW x \in Ever' PROVE x \in Ever \cup members(c)
    <2>1. PICK i \in DOMAIN configs' : x \in members(configs'[i])
      BY DEF Ever
    <2>2. CASE i \in DOMAIN configs
      BY <1>2, <2>1, <2>2 DEF Ever
    <2>3. CASE i = Len(configs) + 1
      BY <1>2, <2>1, <2>3
    <2> QED
      BY <1>2, <2>2, <2>3
  <1> QED
    BY <1>3, <1>4, <1>5

\* ... and so by no step, which leaves the log alone otherwise.
LEMMA EverGrows ==
    ASSUME Typed, [JoinNext]_vars
    PROVE  Ever \subseteq Ever'
  <1>1. CASE UNCHANGED configs
    BY <1>1 DEF Ever
  <1>2. ASSUME NEW p, NEW Q, NEW c \in Config, ChangeMembership(p, Q, c) PROVE Ever \subseteq Ever'
    BY <1>2, ChangeGrows DEF ChangeMembership
  <1>3. ASSUME NEW call \in calls, Handle(call) PROVE Ever \subseteq Ever'
    <2>1. [current EXCEPT !.learners = @ \cup {call.node}] \in Config
      BY ViewTypes DEF Config, Call, TokenCall, Typed
    <2>2. ASSUME NEW Q, add_learner_node(call, Q) PROVE Ever \subseteq Ever'
      BY <1>1, <1>2, <2>1, <2>2 DEF add_learner_node, transportVars
    <2>3. CASE handle_raft_join(call) \/ handler_refresh_read(call) \/ handler_refresh_write(call)
      BY <1>1, <2>3 DEF handle_raft_join, handler_refresh_read, handler_refresh_write, transportVars
    <2>4. ASSUME NEW Q, NEW used_at, consume(call, Q, used_at) PROVE Ever \subseteq Ever'
      BY <1>1, <2>4 DEF consume, transportVars
    <2> QED
      BY <1>3, <2>2, <2>3, <2>4 DEF Handle
  <1>4. ASSUME NEW p, NEW Q, NEW m \in Nodes, ChangeVoters(p, Q, m) PROVE Ever \subseteq Ever'
    <2>1. /\ [voters |-> current.voters \cup {m}, learners |-> current.learners \ {m}] \in Config
          /\ [current EXCEPT !.voters = @ \ {m}] \in Config
      BY ViewTypes DEF Config
    <2> QED
      BY <1>2, <1>4, <2>1 DEF ChangeVoters
  <1>5. ASSUME NEW call \in calls, take_answer(call) \/ give_up(call) PROVE UNCHANGED configs
    BY <1>5 DEF take_answer, give_up, transportVars
  <1>6. ASSUME NEW n \in Nodes,
               \/ Start(n) \/ ask(n) \/ ensure_raft(n) \/ Crash(n) \/ Elect(n)
               \/ try_join(n, Discovered) \/ try_join(n, {}) \/ Watcher(n)
        PROVE  UNCHANGED configs
    BY <1>6, ZenonT(60) DEF Start, start, ask, ensure_raft, set_ready, Crash, crash, Elect, vote, try_join,
                Watcher, refresh, refresh_read, refresh_write, transportVars
  <1>7. ASSUME NEW p, NEW q, NEW k, AppendEntries(p, q, k) PROVE UNCHANGED configs
    BY <1>7 DEF AppendEntries, append_entries
  <1>8. ASSUME NEW p, NEW Q, NEW t, issue_join_token(p, Q, t) PROVE UNCHANGED configs
    BY <1>8 DEF issue_join_token, transportVars
  <1>9. CASE Tick \/ UNCHANGED vars
    BY <1>1, <1>9 DEF Tick, vars, transportVars
  <1> QED
    BY <1>1, <1>3, <1>4, <1>5, <1>6, <1>7, <1>8, <1>9 DEF JoinNext

\* A table that stays names members, since none is forgotten.
LEMMA TablesKept ==
    ASSUME Ever \subseteq Ever', TablesNameMembers, UNCHANGED table
    PROVE  TablesNameMembers'
  <1> USE DEF TablesNameMembers, Ever
  <1> QED OBVIOUS
\* So does one that is replaced by such nodes (replace_nodes).
LEMMA TableReplaced ==
    ASSUME Typed, Ever \subseteq Ever', TablesNameMembers, NEW n \in Nodes, NEW S,
           replace_nodes(n, S), S \subseteq Configured[n] \cup {n} \cup Ever
    PROVE  TablesNameMembers'
  <1>1. \A m \in Nodes : table'[m] = IF m = n THEN S ELSE table[m]
    BY DEF replace_nodes, Typed, JoinTypeOK, TransportTypeOK
  <1>2. \A m \in Nodes : table[m] \subseteq Configured[m] \cup {m} \cup Ever
    BY DEF TablesNameMembers, Ever
  <1>3. \A m \in Nodes : table'[m] \subseteq Configured[m] \cup {m} \cup Ever'
    BY <1>1, <1>2
  <1> QED
    BY <1>3 DEF TablesNameMembers, Ever

\* What the watchers have read stays a set of members.
LEMMA FreshKept ==
    ASSUME Ever \subseteq Ever', UNCHANGED fresh,
           \A n \in Nodes : fresh[n] = None \/ fresh[n] \subseteq Ever
    PROVE  (\A n \in Nodes : fresh[n] = None \/ fresh[n] \subseteq Ever)'
  OBVIOUS

\* So does what the handlers have read, if what they add is one.
LEMMA CallsKept ==
    ASSUME Trusted, Ever \subseteq Ever', NEW S, calls' \subseteq calls \cup S,
           \A call \in S : /\ call.phase = "reply" => call.view \subseteq Ever
                           /\ call.phase = "ok" => call.view \subseteq Ever \cup {call.node}
    PROVE  /\ (\A call \in calls : call.phase = "reply" => call.view \subseteq Ever)'
           /\ (\A call \in calls : call.phase = "ok" => call.view \subseteq Ever \cup {call.node})'
  <1>1. \A call \in calls' : /\ call.phase = "reply" => call.view \subseteq Ever
                             /\ call.phase = "ok" => call.view \subseteq Ever \cup {call.node}
    BY DEF Trusted
  <1> QED
    BY <1>1

\* No step lets a verifier, or what is about to be written to one, name a node
\* that never was a member (refresh_verifier_from_metrics, handle_leader_join,
\* try_join).
LEMMA NextTrusted == Typed /\ Trusted /\ [JoinNext]_vars => Trusted'
  <1> SUFFICES ASSUME Typed, Trusted, [JoinNext]_vars PROVE Trusted'
    OBVIOUS
  <1>1. Ever \subseteq Ever'
    BY EverGrows
  <1>2. TablesNameMembers /\ (\A n \in Nodes : fresh[n] = None \/ fresh[n] \subseteq Ever)
    BY DEF Trusted
  <1>3. CASE UNCHANGED <<table, fresh, calls>>
    BY <1>1, <1>2, <1>3, TablesKept, FreshKept, CallsKept DEF Trusted
  <1>4. ASSUME NEW call \in calls, NEW next, Move(call, next), UNCHANGED <<table, fresh>>,
               /\ next.phase = "reply" => next.view \subseteq Ever
               /\ next.phase = "ok" => next.view \subseteq Ever \cup {next.node}
        PROVE  Trusted'
    <2>1. calls' \subseteq calls \cup {next}
      BY <1>4 DEF Move
    <2> QED
      BY <1>1, <1>2, <1>4, <2>1, TablesKept, FreshKept, CallsKept DEF Trusted
  <1>5. ASSUME NEW call \in calls, Handle(call) PROVE Trusted'
    <2>0. call \in Call
      BY DEF Typed, TokenCall
    <2>1. CASE handle_raft_join(call)
      <3>1. UNCHANGED <<table, fresh>>
        BY <2>1 DEF handle_raft_join, transportVars
      <3>2. CASE Fail(call)
        <4>1. [call EXCEPT !.phase = "error"].phase = "error"
          BY <2>0 DEF Call
        <4> QED
          BY <1>4, <3>1, <3>2, <4>1, Zenon DEF Fail
      <3>3. CASE Move(call, [call EXCEPT !.phase = "consume", !.ts = now])
        <4>1. [call EXCEPT !.phase = "consume", !.ts = now].phase = "consume"
          BY <2>0 DEF Call
        <4> QED
          BY <1>4, <3>1, <3>3, <4>1, Zenon
      <3>4. CASE /\ call.phase = "request"
                 /\ Move(call, [call EXCEPT !.at = sees[call.at], !.edge = call.at])
        <4>1. [call EXCEPT !.at = sees[call.at], !.edge = call.at].phase = "request"
          BY <2>0, <3>4 DEF Call
        <4> QED
          BY <1>4, <3>1, <3>4, <4>1, Zenon
      <3> QED
        BY <2>1, <3>2, <3>3, <3>4 DEF handle_raft_join
    <2>2. CASE handler_refresh_read(call)
      <3> DEFINE next == [call EXCEPT !.phase = "reply", !.view = membership_view(call.at)]
      <3>1. next.phase = "reply" /\ next.view = membership_view(call.at) /\ call.at \in Nodes
        BY <2>0 DEF Call
      <3>2. Move(call, next) /\ UNCHANGED <<table, fresh>>
        BY <2>2 DEF handler_refresh_read, transportVars
      <3> HIDE DEF next
      <3> QED
        BY <1>4, <3>1, <3>2, ViewInEver
    <2>3. CASE handler_refresh_write(call)
      <3> DEFINE next == [call EXCEPT !.phase = "ok",
                                      !.view = membership_view(call.at) \cup {call.node}]
      <3>1. /\ next.phase = "ok" /\ next.view = membership_view(call.at) \cup {call.node}
            /\ next.node = call.node /\ call.at \in Nodes
        BY <2>0 DEF Call
      <3>2. /\ Move(call, next) /\ UNCHANGED fresh
            /\ call.phase = "reply" /\ replace_nodes(call.at, call.view)
        BY <2>3 DEF handler_refresh_write
      <3> HIDE DEF next
      <3>3. TablesNameMembers'
        <4>1. call.view \subseteq Configured[call.at] \cup {call.at} \cup Ever
          BY <3>2 DEF Trusted
        <4> QED
          BY <1>1, <1>2, <3>1, <3>2, <4>1, TableReplaced
      <3>4. calls' \subseteq calls \cup {next}
        BY <3>2 DEF Move
      <3>5. next.view \subseteq Ever \cup {next.node}
        BY <3>1, ViewInEver
      <3> QED
        BY <1>1, <1>2, <3>1, <3>2, <3>3, <3>4, <3>5, FreshKept, CallsKept DEF Trusted
    <2>4. ASSUME NEW Q, NEW used_at, consume(call, Q, used_at) PROVE Trusted'
      <3>1. /\ [call EXCEPT !.phase = "error"].phase = "error"
            /\ [call EXCEPT !.phase = "add"].phase = "add"
        BY <2>0 DEF Call
      <3>2. UNCHANGED <<table, fresh>>
        BY <2>4 DEF consume, transportVars
      <3>3. \/ Move(call, [call EXCEPT !.phase = "error"])
            \/ Move(call, [call EXCEPT !.phase = "add"])
        BY <2>4 DEF consume, Fail
      <3> QED
        BY <1>4, <3>1, <3>2, <3>3, Zenon
    <2>5. ASSUME NEW Q, add_learner_node(call, Q) PROVE Trusted'
      <3>1. /\ [call EXCEPT !.phase = "error"].phase = "error"
            /\ [call EXCEPT !.phase = "refresh"].phase = "refresh"
        BY <2>0 DEF Call
      <3>2. UNCHANGED <<table, fresh>>
        BY <2>5 DEF add_learner_node, ChangeMembership, transportVars
      <3>3. \/ Move(call, [call EXCEPT !.phase = "error"])
            \/ Move(call, [call EXCEPT !.phase = "refresh"])
        BY <2>5 DEF add_learner_node, Fail
      <3> QED
        BY <1>4, <3>1, <3>2, <3>3, Zenon
    <2> QED
      BY <1>5, <2>1, <2>2, <2>3, <2>4, <2>5 DEF Handle
  <1>6. ASSUME NEW call \in calls, take_answer(call) PROVE Trusted'
    <2>1. call \in Call
      BY DEF Typed, TokenCall
    <2>2. UNCHANGED fresh /\ calls' \subseteq calls \cup {}
      BY <1>6 DEF take_answer
    <2>3. TablesNameMembers'
      <3>1. CASE UNCHANGED table
        BY <1>1, <1>2, <3>1, TablesKept
      <3>2. CASE call.phase = "ok" /\ replace_nodes(call.node, call.view \cup {call.node})
        <4>1. call.node \in Nodes
          BY <2>1 DEF Call
        <4>2. call.view \cup {call.node} \subseteq Configured[call.node] \cup {call.node} \cup Ever
          BY <3>2 DEF Trusted
        <4> QED
          BY <1>1, <1>2, <3>2, <4>1, <4>2, TableReplaced
      <3> QED
        BY <1>6, <3>1, <3>2, Zenon DEF take_answer
    <2> QED
      BY <1>1, <1>2, <2>2, <2>3, FreshKept, CallsKept DEF Trusted
  <1>7. ASSUME NEW call \in calls, give_up(call) PROVE Trusted'
    <2>1. call \in Call
      BY DEF Typed, TokenCall
    <2>2. /\ [call EXCEPT !.live = FALSE].phase = call.phase
          /\ [call EXCEPT !.live = FALSE].view = call.view
          /\ [call EXCEPT !.live = FALSE].node = call.node
      BY <2>1 DEF Call
    <2>3. Move(call, [call EXCEPT !.live = FALSE]) /\ UNCHANGED <<table, fresh>>
      BY <1>7 DEF give_up, Move, transportVars
    <2> QED
      BY <1>4, <2>2, <2>3, ZenonT(60) DEF Trusted
  <1>8. ASSUME NEW n \in Nodes, Start(n) PROVE Trusted'
    <2>1. UNCHANGED <<fresh, calls>>
      BY <1>8 DEF Start, start
    <2>2. TablesNameMembers'
      <3> DEFINE S == IF membership_view(n) # {} THEN membership_view(n) ELSE Configured[n] \cup {n}
      <3>1. replace_nodes(n, S)
        BY <1>8 DEF Start, start
      <3>2. S \subseteq Configured[n] \cup {n} \cup Ever
        BY ViewInEver
      <3> HIDE DEF S
      <3> QED
        BY <1>1, <1>2, <3>1, <3>2, TableReplaced
    <2> QED
      BY <1>1, <1>2, <2>1, <2>2, FreshKept, CallsKept DEF Trusted
  <1>9. ASSUME NEW n \in Nodes, ask(n) PROVE Trusted'
    <2>1. UNCHANGED <<table, fresh>>
      BY <1>9 DEF ask, transportVars
    <2>2. CASE UNCHANGED calls
      BY <1>3, <2>1, <2>2
    <2>3. ASSUME NEW peer \in join[n].left,
                 calls' = calls \cup {[node |-> n, at |-> peer, edge |-> None, ts |-> join[n].ts,
                                       live |-> TRUE, phase |-> "request", view |-> {}]}
          PROVE  Trusted'
      <3> DEFINE new == [node |-> n, at |-> peer, edge |-> None, ts |-> join[n].ts,
                         live |-> TRUE, phase |-> "request", view |-> {}]
      <3>1. new.phase = "request" /\ calls' \subseteq calls \cup {new}
        BY <2>3
      <3> HIDE DEF new
      <3> QED
        BY <1>1, <1>2, <2>1, <3>1, TablesKept, FreshKept, CallsKept DEF Trusted
    <2> QED
      BY <1>9, <2>2, <2>3, ZenonT(60) DEF ask
  <1>10. ASSUME NEW n \in Nodes, Crash(n) PROVE Trusted'
    <2>1. TablesNameMembers'
      <3>1. replace_nodes(n, {})
        BY <1>10, ZenonT(60) DEF Crash, crash, replace_nodes
      <3> QED
        BY <1>1, <1>2, <3>1, TableReplaced
    <2>2. (\A m \in Nodes : fresh[m] = None \/ fresh[m] \subseteq Ever)'
      <3>1. \A m \in Nodes : fresh'[m] = IF m = n THEN None ELSE fresh[m]
        BY <1>10, Zenon DEF Crash, crash, Typed, JoinTypeOK, TransportTypeOK
      <3> QED
        BY <1>1, <1>2, <3>1
    <2>3. ASSUME NEW d \in calls'
          PROVE  \/ d.phase = "error"
                 \/ \E call \in calls : d.phase = call.phase /\ d.view = call.view /\ d.node = call.node
      <3>1. PICK call \in calls :
               \/ d = [call EXCEPT !.phase = "error", !.live = @ /\ call.node # n]
               \/ d = [call EXCEPT !.live = @ /\ n \notin {call.node, call.edge}]
        BY <1>10, Zenon DEF Crash
      <3>2. call \in Call
        BY DEF Typed, TokenCall
      <3> QED
        BY <3>1, <3>2, ZenonT(60) DEF Call
    <2>4. \A d \in calls' : /\ d.phase = "reply" => d.view \subseteq Ever
                            /\ d.phase = "ok" => d.view \subseteq Ever \cup {d.node}
      BY <2>3 DEF Trusted
    <2> QED
      BY <1>1, <2>1, <2>2, <2>4 DEF Trusted
  <1>11. ASSUME NEW n \in Nodes, Watcher(n) PROVE Trusted'
    <2>1. UNCHANGED calls
      BY <1>11 DEF Watcher, joinVars
    <2>2. CASE refresh(n)
      BY <1>1, <1>2, <2>1, <2>2, ViewInEver, TableReplaced, FreshKept, CallsKept DEF refresh, Trusted
    <2>3. CASE refresh_read(n)
      <3>1. (\A m \in Nodes : fresh[m] = None \/ fresh[m] \subseteq Ever)'
        <4>1. \A m \in Nodes : fresh'[m] = IF m = n THEN membership_view(n) ELSE fresh[m]
          BY <2>3 DEF refresh_read, Typed, JoinTypeOK, TransportTypeOK
        <4> QED
          BY <1>1, <1>2, <4>1, ViewInEver
      <3>2. UNCHANGED table
        BY <2>3 DEF refresh_read
      <3> QED
        BY <1>1, <1>2, <2>1, <3>1, <3>2, TablesKept, CallsKept DEF Trusted
    <2>4. CASE refresh_write(n)
      <3>1. (\A m \in Nodes : fresh[m] = None \/ fresh[m] \subseteq Ever)'
        <4>1. \A m \in Nodes : fresh'[m] = IF m = n THEN None ELSE fresh[m]
          BY <2>4 DEF refresh_write, Typed, JoinTypeOK, TransportTypeOK
        <4> QED
          BY <1>1, <1>2, <4>1
      <3>2. replace_nodes(n, fresh[n]) /\ fresh[n] \subseteq Ever
        BY <1>2, <2>4 DEF refresh_write
      <3> QED
        BY <1>1, <1>2, <2>1, <3>1, <3>2, TableReplaced, CallsKept DEF Trusted
    <2> QED
      BY <1>11, <2>2, <2>3, <2>4 DEF Watcher
  <1>12. ASSUME NEW n \in Nodes,
                ensure_raft(n) \/ Elect(n) \/ try_join(n, Discovered) \/ try_join(n, {})
         PROVE  UNCHANGED <<table, fresh, calls>>
    BY <1>12, ZenonT(60) DEF ensure_raft, set_ready, Elect, vote, try_join, transportVars, joinVars
  <1>13. ASSUME NEW p, NEW q, NEW k, AppendEntries(p, q, k) PROVE UNCHANGED <<table, fresh, calls>>
    BY <1>13 DEF AppendEntries, append_entries, joinVars
  <1>14. ASSUME NEW p, NEW Q, NEW t, issue_join_token(p, Q, t) PROVE UNCHANGED <<table, fresh, calls>>
    BY <1>14 DEF issue_join_token, transportVars
  <1>15. ASSUME NEW p, NEW Q, NEW m, ChangeVoters(p, Q, m) PROVE UNCHANGED <<table, fresh, calls>>
    BY <1>15 DEF ChangeVoters, ChangeMembership
  <1>16. CASE Tick \/ UNCHANGED vars
    BY <1>3, <1>16 DEF Tick, vars, transportVars, joinVars
  <1> QED
    BY <1>3, <1>5, <1>6, <1>7, <1>8, <1>9, <1>10, <1>11, <1>12, <1>13, <1>14, <1>15, <1>16
    DEF JoinNext

\* Whatever the cluster, its configuration and its tokens, no verifier ever
\* trusts a node it was not configured with and that was never a member.
THEOREM TrustTheorem == JoinSpec => []TablesNameMembers
  <1>1. JoinInit => Typed /\ Trusted
    <2>1. JoinInit => Typed
      BY InitTyped
    <2>2. ASSUME JoinInit, NEW n \in Nodes
          PROVE  table[n] \subseteq Configured[n] \cup {n} \cup Ever
      <3>1. DOMAIN configs = {1} /\ members(configs[1]) = Founders
        BY <2>2 DEF JoinInit, TransportInit, members
      <3>2. Founders \subseteq Ever
        BY <3>1 DEF Ever
      <3> QED
        BY <2>2, <3>2 DEF JoinInit, TransportInit
    <2>3. JoinInit => Trusted
      BY <2>2, ZenonT(60) DEF JoinInit, TransportInit, Trusted, TablesNameMembers, Ever
    <2> QED
      BY <2>1, <2>3
  <1>2. Trusted => TablesNameMembers
    BY DEF Trusted
  <1> QED
    BY <1>1, <1>2, NextTyped, NextTrusted, PTL DEF JoinSpec
=============================================================================
