--------------------------- MODULE RaftJoinTyping ---------------------------
(***************************************************************************)
(* Joining and the tables the nodes trust: the types, for every set of     *)
(* nodes, every token and every bound.                                     *)
(***************************************************************************)
EXTENDS RaftJoin, TLAPS

USE TransportAssumption, JoinAssumption

\* Requests come from nodes that have a token.
TokenCall == {call \in Call : JoinToken[call.node] \in Tokens}

\* The types, with what they rest on: the log begins with the membership the
\* cluster was bootstrapped with, and only a node that has a token asks.
Typed ==
    /\ JoinTypeOK
    /\ Len(configs) > 0
    /\ calls \subseteq TokenCall
    /\ \A n \in Nodes : join[n].phase = "asking" => JoinToken[n] \in Tokens

\* The memberships in use are made of nodes (membership_view).
LEMMA ViewTypes ==
    ASSUME Typed
    PROVE  /\ current \in Config
           /\ \A n \in Nodes : membership_view(n) \subseteq Nodes
  <1>1. current \in Config
    BY DEF Typed, JoinTypeOK, TransportTypeOK, current
  <1>2. ASSUME NEW n \in Nodes PROVE membership_view(n) \subseteq Nodes
    <2>1. CASE stored[n] = 0
      BY <2>1 DEF membership_view
    <2>2. CASE stored[n] # 0
      <3>1. configs[stored[n]] \in Config
        BY <2>2 DEF Typed, JoinTypeOK, TransportTypeOK
      <3> QED
        BY <2>2, <3>1 DEF membership_view, members, Config
    <2> QED
      BY <2>1, <2>2
  <1> QED
    BY <1>1, <1>2

\* Committing a membership keeps the types (add_learner, change_membership).
LEMMA ChangeTyped ==
    ASSUME Typed, NEW p \in Nodes, NEW Q, NEW c \in Config, ChangeMembership(p, Q, c)
    PROVE  TransportTypeOK' /\ Len(configs') > 0
  <1>1. configs' = Append(configs, c) /\ configs \in Seq(Config)
    BY DEF ChangeMembership, Typed, JoinTypeOK, TransportTypeOK
  <1>2. configs' \in Seq(Config) /\ Len(configs') = Len(configs) + 1
    BY <1>1
  <1>3. stored' \in [Nodes -> 0 .. Len(configs')]
    BY <1>2 DEF ChangeMembership, Typed, JoinTypeOK, TransportTypeOK
  <1> QED
    BY <1>2, <1>3 DEF ChangeMembership, Typed, JoinTypeOK, TransportTypeOK

\* A request that moves on stays a request (handle_raft_join and its parts).
LEMMA MoveTyped ==
    ASSUME Typed, NEW call, NEW next \in TokenCall, Move(call, next)
    PROVE  calls' \subseteq Call /\ calls' \subseteq TokenCall
  BY DEF Typed, TokenCall, Move

\* What a counted use does (ConsumeJoinToken).
ConsumeEffect(call, used_at) ==
    LET t == JoinToken[call.node]
    IN  /\ consume_join_token(t, call.node, used_at)
        /\ tokens' = {IF r.token.jti = t.jti THEN [r EXCEPT !.uses = @ + 1] ELSE r : r \in tokens}
        /\ spent' = spent \cup {[token |-> t, node |-> call.node, at |-> used_at]}

\* Every step of a request at a sidecar keeps the types (service.rs).
LEMMA HandleTyped ==
    ASSUME Typed, NEW call \in calls, Handle(call)
    PROVE  Typed'
  <1>1. call \in Call /\ call \in TokenCall /\ JoinToken[call.node] \in Tokens
    BY DEF Typed, TokenCall
  <1>2. CASE handle_raft_join(call)
    <2>1. calls' \subseteq Call /\ calls' \subseteq TokenCall
      <3>1. CASE Fail(call)
        <4>1. [call EXCEPT !.phase = "error"] \in TokenCall
          BY <1>1 DEF Call, TokenCall
        <4> QED
          BY <3>1, <4>1, MoveTyped DEF Fail
      <3>2. CASE Move(call, [call EXCEPT !.phase = "consume", !.ts = now])
        <4>1. [call EXCEPT !.phase = "consume", !.ts = now] \in TokenCall
          BY <1>1, Zenon DEF Call, TokenCall, Typed, JoinTypeOK
        <4> QED
          BY <3>2, <4>1, MoveTyped
      <3>3. CASE /\ sees[call.at] \in membership_view(call.at)
                 /\ Move(call, [call EXCEPT !.at = sees[call.at], !.edge = call.at])
        <4>1. sees[call.at] \in Nodes
          BY <1>1, <3>3, ViewTypes DEF Call
        <4>2. [call EXCEPT !.at = sees[call.at], !.edge = call.at] \in TokenCall
          BY <1>1, <4>1, Zenon DEF Call, TokenCall
        <4> QED
          BY <3>3, <4>2, MoveTyped
      <3> QED
        BY <1>2, <3>1, <3>2, <3>3 DEF handle_raft_join
    <2> QED
      BY <1>2, <2>1, Zenon DEF handle_raft_join, Typed, JoinTypeOK, TransportTypeOK, transportVars
  <1>3. CASE handler_refresh_read(call)
    <2>1. [call EXCEPT !.phase = "reply", !.view = membership_view(call.at)] \in TokenCall
      BY <1>1, ViewTypes, Zenon DEF Call, TokenCall
    <2>2. calls' \subseteq Call /\ calls' \subseteq TokenCall
      BY <1>3, <2>1, MoveTyped DEF handler_refresh_read
    <2> QED
      BY <1>3, <2>2, Zenon DEF handler_refresh_read, Typed, JoinTypeOK, TransportTypeOK, transportVars
  <1>4. CASE handler_refresh_write(call)
    <2>1. [call EXCEPT !.phase = "ok", !.view = membership_view(call.at) \cup {call.node}] \in TokenCall
      BY <1>1, ViewTypes, Zenon DEF Call, TokenCall
    <2>2. calls' \subseteq Call /\ calls' \subseteq TokenCall
      BY <1>4, <2>1, MoveTyped DEF handler_refresh_write
    <2>3. table' \in [Nodes -> SUBSET Nodes]
      BY <1>1, <1>4, Zenon DEF handler_refresh_write, replace_nodes, Call, Typed, JoinTypeOK, TransportTypeOK
    <2> QED
      BY <1>4, <2>2, <2>3, Zenon DEF handler_refresh_write, Typed, JoinTypeOK, TransportTypeOK
  <1>5. ASSUME NEW Q, NEW used_at \in call.ts .. now, consume(call, Q, used_at) PROVE Typed'
    <2>1. [call EXCEPT !.phase = "error"] \in TokenCall /\ [call EXCEPT !.phase = "add"] \in TokenCall
      BY <1>1 DEF Call, TokenCall
    <2>2. calls' \subseteq Call /\ calls' \subseteq TokenCall
      BY <1>5, <2>1, MoveTyped DEF consume, Fail
    <2>3. used_at \in 0 .. MaxNow /\ call.node \in Nodes
      BY <1>1 DEF Call, Typed, JoinTypeOK
    <2>4. CASE UNCHANGED <<tokens, spent>>
      BY <1>5, <2>2, <2>4, Zenon DEF consume, Typed, JoinTypeOK, TransportTypeOK, transportVars
    <2>5. CASE ConsumeEffect(call, used_at)
      <3>2. tokens' \subseteq [token : Tokens, uses : Nat]
        <4>1. SUFFICES ASSUME NEW x \in tokens' PROVE x \in [token : Tokens, uses : Nat]
          OBVIOUS
        <4>2. PICK r \in tokens : x = IF r.token.jti = JoinToken[call.node].jti
                                      THEN [r EXCEPT !.uses = @ + 1] ELSE r
          BY <2>5 DEF ConsumeEffect
        <4>3. r \in [token : Tokens, uses : Nat]
          BY DEF Typed, JoinTypeOK
        <4> QED
          BY <4>2, <4>3
      <3>3. spent' \subseteq [token : Tokens, node : Nodes, at : 0 .. MaxNow]
        BY <1>1, <2>3, <2>5 DEF ConsumeEffect, Typed, JoinTypeOK
      <3> QED
        BY <1>5, <2>2, <3>2, <3>3, Zenon DEF consume, Typed, JoinTypeOK, TransportTypeOK, transportVars
    <2> QED
      BY <1>5, <2>4, <2>5 DEF consume, ConsumeEffect
  <1>6. ASSUME NEW Q, add_learner_node(call, Q) PROVE Typed'
    <2>1. [call EXCEPT !.phase = "error"] \in TokenCall /\ [call EXCEPT !.phase = "refresh"] \in TokenCall
      BY <1>1 DEF Call, TokenCall
    <2>2. calls' \subseteq Call /\ calls' \subseteq TokenCall
      BY <1>6, <2>1, MoveTyped DEF add_learner_node, Fail
    <2>3. [current EXCEPT !.learners = @ \cup {call.node}] \in Config
      BY <1>1, ViewTypes DEF Config, Call
    <2>4. TransportTypeOK' /\ Len(configs') > 0
      <3>1. CASE UNCHANGED transportVars
        BY <3>1 DEF Typed, JoinTypeOK, TransportTypeOK, transportVars
      <3>2. CASE ChangeMembership(call.at, Q, [current EXCEPT !.learners = @ \cup {call.node}])
        <4>1. call.at \in Nodes
          BY <1>1 DEF Call, TokenCall
        <4> QED
          BY <2>3, <3>2, <4>1, ChangeTyped
      <3> QED
        BY <1>6, <3>1, <3>2 DEF add_learner_node
    <2> QED
      BY <1>6, <2>2, <2>4 DEF add_learner_node, Typed, JoinTypeOK
  <1> QED
    BY <1>2, <1>3, <1>4, <1>5, <1>6 DEF Handle

\* What try_join keeps of a node.
JoinEntry == [phase : {"none", "asking", "joined", "failed"}, left : SUBSET Nodes, ts : 0 .. MaxNow]

\* A new entry for one node keeps the types of all of them.
LEMMA EntryTyped ==
    ASSUME Typed, NEW n \in Nodes, NEW e \in JoinEntry, join' = [join EXCEPT ![n] = e],
           e.phase = "asking" => JoinToken[n] \in Tokens
    PROVE  /\ join' \in [Nodes -> JoinEntry]
           /\ \A m \in Nodes : join'[m].phase = "asking" => JoinToken[m] \in Tokens
  <1>1. join \in [Nodes -> JoinEntry]
    BY DEF Typed, JoinTypeOK, JoinEntry
  <1>2. join' \in [Nodes -> JoinEntry]
    BY <1>1
  <1>3. \A m \in Nodes : join'[m] = IF m = n THEN e ELSE join[m]
    BY <1>1
  <1> QED
    BY <1>2, <1>3 DEF Typed

\* Only the waiting changes (rpc_timeout).
LEMMA LiveTyped ==
    ASSUME NEW call \in TokenCall, NEW b \in BOOLEAN
    PROVE  [call EXCEPT !.live = b] \in TokenCall
  BY DEF TokenCall, Call

\* Every step of the joining node and of the rest of the cluster keeps the types.
LEMMA NextTyped == Typed /\ [JoinNext]_vars => Typed'
  <1> SUFFICES ASSUME Typed, [JoinNext]_vars PROVE Typed'
    OBVIOUS
  <1>1. CASE UNCHANGED vars
    BY <1>1 DEF vars, joinVars, transportVars, Typed, JoinTypeOK, TransportTypeOK
  <1>2. CASE Tick
    BY <1>2 DEF Tick, transportVars, Typed, JoinTypeOK, TransportTypeOK
  <1>3. ASSUME NEW call \in calls, Handle(call) PROVE Typed'
    BY <1>3, HandleTyped
  <1>4. ASSUME NEW call \in calls, take_answer(call) PROVE Typed'
    <2>1. call \in Call
      BY DEF Typed, TokenCall
    <2>2. table' \in [Nodes -> SUBSET Nodes]
      <3>1. CASE UNCHANGED table
        BY <3>1 DEF Typed, JoinTypeOK, TransportTypeOK
      <3>2. CASE replace_nodes(call.node, call.view \cup {call.node})
        BY <2>1, <3>2 DEF replace_nodes, Call, Typed, JoinTypeOK, TransportTypeOK
      <3> QED
        BY <1>4, <3>1, <3>2, Zenon DEF take_answer
    <2>3. /\ join' \in [Nodes -> JoinEntry]
          /\ \A n \in Nodes : join'[n].phase = "asking" => JoinToken[n] \in Tokens
      <3>1. CASE UNCHANGED join
        BY <3>1 DEF Typed, JoinTypeOK, JoinEntry
      <3>2. CASE join' = [join EXCEPT ![call.node].phase = "joined"]
        <4>1. call.node \in Nodes
          BY <2>1 DEF Call
        <4>2. PICK e \in JoinEntry : e = join[call.node]
          BY <4>1 DEF Typed, JoinTypeOK, JoinEntry
        <4>3. [e EXCEPT !.phase = "joined"] \in JoinEntry
              /\ [e EXCEPT !.phase = "joined"].phase = "joined"
          BY DEF JoinEntry
        <4> QED
          BY <3>2, <4>1, <4>2, <4>3, EntryTyped, Zenon
      <3> QED
        BY <1>4, <3>1, <3>2, Zenon DEF take_answer
    <2> QED
      BY <1>4, <2>2, <2>3, Zenon DEF take_answer, JoinEntry, Typed, JoinTypeOK, TransportTypeOK
  <1>5. ASSUME NEW call \in calls, give_up(call) PROVE Typed'
    <2>1. [call EXCEPT !.live = FALSE] \in TokenCall
      BY LiveTyped, Zenon DEF Typed
    <2>2. calls' \subseteq Call /\ calls' \subseteq TokenCall
      BY <1>5, <2>1, Zenon DEF give_up, TokenCall, Typed
    <2> QED
      BY <1>5, <2>2 DEF give_up, transportVars, Typed, JoinTypeOK, TransportTypeOK
  <1>6. ASSUME NEW n \in Nodes, Start(n) PROVE Typed'
    <2>1. table' \in [Nodes -> SUBSET Nodes]
      BY <1>6, ViewTypes DEF Start, start, replace_nodes, Typed, JoinTypeOK, TransportTypeOK
    <2>2. up' \in [Nodes -> {"down", "starting", "ready"}]
      BY <1>6 DEF Start, start, Typed, JoinTypeOK, TransportTypeOK
    <2>3. /\ join' \in [Nodes -> JoinEntry]
          /\ \A m \in Nodes : join'[m].phase = "asking" => JoinToken[m] \in Tokens
      BY <1>6 DEF Start, NotAsked, Typed, JoinTypeOK, JoinEntry
    <2> QED
      BY <1>6, <2>1, <2>2, <2>3, Zenon DEF Start, start, JoinEntry, Typed, JoinTypeOK, TransportTypeOK
  <1>7. ASSUME NEW n \in Nodes, ask(n) PROVE Typed'
    <2>0. join[n] \in JoinEntry
      BY DEF Typed, JoinTypeOK, JoinEntry
    <2>1. CASE UNCHANGED calls /\ join' = [join EXCEPT ![n].phase = "failed"]
      <3>1. /\ join' \in [Nodes -> JoinEntry]
            /\ \A m \in Nodes : join'[m].phase = "asking" => JoinToken[m] \in Tokens
        <4>1. /\ [join[n] EXCEPT !.phase = "failed"] \in JoinEntry
              /\ [join[n] EXCEPT !.phase = "failed"].phase = "failed"
          BY <2>0 DEF JoinEntry
        <4> QED
          BY <2>1, <4>1, EntryTyped, Zenon
      <3> QED
        BY <1>7, <2>1, <3>1, Zenon DEF ask, JoinEntry, transportVars, Typed, JoinTypeOK, TransportTypeOK
    <2>2. ASSUME NEW peer \in join[n].left,
                 join' = [join EXCEPT ![n].left = @ \ {peer}],
                 calls' = calls \cup {[node |-> n, at |-> peer, edge |-> None, ts |-> join[n].ts,
                                       live |-> TRUE, phase |-> "request", view |-> {}]}
          PROVE  Typed'
      <3>1. /\ join' \in [Nodes -> JoinEntry]
            /\ \A m \in Nodes : join'[m].phase = "asking" => JoinToken[m] \in Tokens
        <4>1. /\ [join[n] EXCEPT !.left = @ \ {peer}] \in JoinEntry
              /\ [join[n] EXCEPT !.left = @ \ {peer}].phase = join[n].phase
          BY <2>0 DEF JoinEntry
        <4> QED
          BY <2>2, <4>1, EntryTyped, Zenon DEF Typed
      <3>2. peer \in Nodes /\ join[n].ts \in 0 .. MaxNow /\ JoinToken[n] \in Tokens
        BY <1>7 DEF ask, Typed, JoinTypeOK
      <3>3. [node |-> n, at |-> peer, edge |-> None, ts |-> join[n].ts, live |-> TRUE,
             phase |-> "request", view |-> {}] \in TokenCall
        BY <3>2 DEF Call, TokenCall
      <3>4. calls' \subseteq Call /\ calls' \subseteq TokenCall
        BY <2>2, <3>3, Zenon DEF TokenCall, Typed
      <3> QED
        BY <1>7, <3>1, <3>4, Zenon DEF ask, JoinEntry, transportVars, Typed, JoinTypeOK, TransportTypeOK
    <2> QED
      BY <1>7, <2>1, <2>2 DEF ask
  <1>8. ASSUME NEW n \in Nodes, ensure_raft(n) PROVE Typed'
    BY <1>8 DEF ensure_raft, set_ready, joinVars, Typed, JoinTypeOK, TransportTypeOK
  <1>9. ASSUME NEW n \in Nodes, Crash(n) PROVE Typed'
    <2>1. calls' \subseteq Call /\ calls' \subseteq TokenCall
      <3>1. SUFFICES ASSUME NEW d \in calls' PROVE d \in TokenCall
        BY DEF TokenCall
      <3>2. PICK call \in calls :
               \/ d = [call EXCEPT !.phase = "error", !.live = @ /\ call.node # n]
               \/ d = [call EXCEPT !.live = @ /\ n \notin {call.node, call.edge}]
        BY <1>9, Zenon DEF Crash
      <3>3. call \in TokenCall
        BY DEF Typed
      <3>4. ASSUME NEW l \in BOOLEAN
            PROVE  /\ [call EXCEPT !.phase = "error", !.live = l] \in TokenCall
                   /\ [call EXCEPT !.live = l] \in TokenCall
        BY <3>3, Zenon DEF Call, TokenCall
      <3>5. \A x, y : (x /\ y) \in BOOLEAN
        OBVIOUS
      <3> QED
        BY <3>2, <3>4, <3>5, Zenon
    <2>2. TransportTypeOK' /\ UNCHANGED configs
      BY <1>9, Zenon DEF Crash, crash, Typed, JoinTypeOK, TransportTypeOK
    <2> QED
      BY <1>9, <2>1, <2>2, Zenon DEF Crash, Typed, JoinTypeOK
  <1>10. ASSUME NEW n \in Nodes, Elect(n) PROVE Typed'
    <2>1. sees' \in [Nodes -> Nodes \cup {None}]
      BY <1>10 DEF Elect, vote, Typed, JoinTypeOK, TransportTypeOK
    <2> QED
      BY <1>10, <2>1, Zenon DEF Elect, vote, Typed, JoinTypeOK, TransportTypeOK
  <1>11. ASSUME NEW n \in Nodes, NEW discovered \in SUBSET Nodes, try_join(n, discovered) PROVE Typed'
    <2>1. join_candidates(n, discovered) \in SUBSET Nodes
      BY DEF join_candidates
    <2>2. JoinToken[n] \in Tokens
      BY <1>11 DEF try_join
    <2>3. /\ join' \in [Nodes -> JoinEntry]
          /\ \A m \in Nodes : join'[m].phase = "asking" => JoinToken[m] \in Tokens
      BY <1>11, <2>1, <2>2 DEF try_join, JoinEntry, Typed, JoinTypeOK
    <2> QED
      BY <1>11, <2>3, Zenon DEF try_join, JoinEntry, transportVars, Typed, JoinTypeOK, TransportTypeOK
  <1>12. ASSUME NEW n \in Nodes, Watcher(n) PROVE Typed'
    <2>1. /\ table' \in [Nodes -> SUBSET Nodes] /\ fresh' \in [Nodes -> (SUBSET Nodes) \cup {None}]
          /\ UNCHANGED <<configs, stored, leader, sees, up>>
      <3>1. CASE refresh(n)
        BY <3>1, ViewTypes DEF refresh, replace_nodes, Typed, JoinTypeOK, TransportTypeOK
      <3>2. CASE refresh_read(n)
        BY <3>2, ViewTypes DEF refresh_read, Typed, JoinTypeOK, TransportTypeOK
      <3>3. CASE refresh_write(n)
        BY <3>3 DEF refresh_write, replace_nodes, Typed, JoinTypeOK, TransportTypeOK
      <3> QED
        BY <1>12, <3>1, <3>2, <3>3 DEF Watcher
    <2> QED
      BY <1>12, <2>1, Zenon DEF Watcher, joinVars, Typed, JoinTypeOK, TransportTypeOK
  <1>13. ASSUME NEW p \in Nodes, NEW q \in Nodes, NEW k \in 1 .. Len(configs), AppendEntries(p, q, k)
         PROVE  Typed'
    <2>1. /\ stored' \in [Nodes -> 0 .. Len(configs')] /\ UNCHANGED <<configs, leader, up, table, fresh>>
          /\ sees' \in [Nodes -> Nodes \cup {None}]
      BY <1>13 DEF AppendEntries, append_entries, joinVars, Typed, JoinTypeOK, TransportTypeOK
    <2> QED
      BY <1>13, <2>1, Zenon DEF AppendEntries, joinVars, Typed, JoinTypeOK, TransportTypeOK
  <1>14. ASSUME NEW p \in Nodes, NEW Q, NEW t \in Tokens, issue_join_token(p, Q, t) PROVE Typed'
    BY <1>14 DEF issue_join_token, transportVars, Typed, JoinTypeOK, TransportTypeOK
  <1>15. ASSUME NEW p \in Nodes, NEW Q, NEW m \in Nodes, ChangeVoters(p, Q, m) PROVE Typed'
    <2>1. /\ [voters |-> current.voters \cup {m}, learners |-> current.learners \ {m}] \in Config
          /\ [current EXCEPT !.voters = @ \ {m}] \in Config
      BY ViewTypes DEF Config
    <2>2. TransportTypeOK' /\ Len(configs') > 0
      BY <1>15, <2>1, ChangeTyped DEF ChangeVoters
    <2> QED
      BY <1>15, <2>2, Zenon DEF ChangeVoters, Typed, JoinTypeOK
  <1> QED
    BY <1>1, <1>2, <1>3, <1>4, <1>5, <1>6, <1>7, <1>8, <1>9, <1>10, <1>11, <1>12, <1>13, <1>14, <1>15
    DEF JoinNext

\* The types hold at first.
LEMMA InitTyped == JoinInit => Typed
  BY DEF JoinInit, TransportInit, NotAsked, Typed, JoinTypeOK, TransportTypeOK, Config

\* The types of the joining protocol, whatever the instance.
THEOREM JoinTyping == JoinSpec => []JoinTypeOK
  <1>1. Typed => JoinTypeOK
    BY DEF Typed
  <1> QED
    BY <1>1, InitTyped, NextTyped, PTL DEF JoinSpec
=============================================================================
