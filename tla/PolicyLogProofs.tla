-------------------------- MODULE PolicyLogProofs --------------------------
(***************************************************************************)
(* The committed policy log, for every set of commands and every length.   *)
(***************************************************************************)
EXTENDS PolicyLog, PolicyStateProofs, SequenceTheorems

USE LogAssumption

\* What one commit does to the three sequences.
LEMMA CommitFacts ==
    ASSUME LogTypeOK, NEW c \in Commands, Commit(c)
    PROVE  LET n == Len(log) + 1
               r == apply_command_at(states[n], c, n)
           IN  /\ n \in Nat \ {0} /\ states[n] \in State /\ c \in Command
               /\ r.state \in State /\ r.answer \in PolicyResult
               /\ log' \in Seq(Commands) /\ Len(log') = n /\ log'[n] = c
               /\ states' \in Seq(State) /\ Len(states') = n + 1 /\ states'[n + 1] = r.state
               /\ answers' \in Seq(PolicyResult) /\ Len(answers') = n /\ answers'[n] = r.answer
               /\ \A k \in 1 .. (n - 1) : log'[k] = log[k] /\ answers'[k] = answers[k]
               /\ \A k \in 1 .. n : states'[k] = states[k]
  <1> DEFINE n == Len(log) + 1
             r == apply_command_at(states[n], c, n)
  <1>1. n \in Nat \ {0} /\ states[n] \in State /\ c \in Command
    BY DEF LogTypeOK
  <1>2. r.state \in State /\ r.answer \in PolicyResult
    BY <1>1, ApplyEffect
  <1>3. log' = Append(log, c) /\ states' = Append(states, r.state)
        /\ answers' = Append(answers, r.answer)
    BY DEF Commit
  <1> HIDE DEF r
  <1>4. log' \in Seq(Commands) /\ Len(log') = n /\ log'[n] = c
        /\ \A k \in 1 .. (n - 1) : log'[k] = log[k]
    BY <1>3 DEF LogTypeOK
  <1>5. states' \in Seq(State) /\ Len(states') = n + 1 /\ states'[n + 1] = r.state
        /\ \A k \in 1 .. n : states'[k] = states[k]
    BY <1>2, <1>3 DEF LogTypeOK
  <1>6. answers' \in Seq(PolicyResult) /\ Len(answers') = n /\ answers'[n] = r.answer
        /\ \A k \in 1 .. (n - 1) : answers'[k] = answers[k]
    BY <1>2, <1>3 DEF LogTypeOK
  <1> QED
    BY <1>1, <1>2, <1>4, <1>5, <1>6 DEF r

\* The initial policy state is well typed (PolicyState::new).
LEMMA InitialType == InitialState \in State
  BY BoundsAssumption DEF InitialState, State

\* The log, the states and the answers stay well typed and in step.
THEOREM LogTyping == LogSpec => []LogTypeOK
  <1>1. LogInit => LogTypeOK
    BY InitialType DEF LogInit, LogTypeOK
  <1>2. LogTypeOK /\ [LogNext]_logVars => LogTypeOK'
    <2>1. ASSUME LogTypeOK, NEW c \in Commands, Commit(c) PROVE LogTypeOK'
      BY <2>1, CommitFacts DEF LogTypeOK
    <2>2. ASSUME LogTypeOK, UNCHANGED logVars PROVE LogTypeOK'
      BY <2>2 DEF LogTypeOK, logVars
    <2> QED
      BY <2>1, <2>2 DEF LogNext
  <1> QED
    BY <1>1, <1>2, PTL DEF LogSpec

\* The inductive form of EpochIdentifiesPolicy: along the history the epoch
\* never goes back, and while it stands still so does what is published.
EpochOrdered ==
    \A i, j \in 1 .. Len(states) : i <= j =>
        /\ states[i].epoch <= states[j].epoch
        /\ states[i].epoch = states[j].epoch /\ states[i].epoch < U64Max
              => Published(states[i]) = Published(states[j])

\* A commit extends the ordered history (apply_command_at never lowers the epoch).
LEMMA EpochStep == LogTypeOK /\ EpochOrdered /\ [LogNext]_logVars => EpochOrdered'
  <1>1. ASSUME LogTypeOK, EpochOrdered, NEW c \in Commands, Commit(c) PROVE EpochOrdered'
    <2> DEFINE n == Len(log) + 1
               new == apply_command_at(states[n], c, n).state
    <2>1. n \in Nat \ {0} /\ states[n] \in State /\ c \in Command /\ Len(states) = n
          /\ Len(states') = n + 1 /\ states'[n + 1] = new
          /\ \A k \in 1 .. n : states'[k] = states[k]
      BY <1>1, CommitFacts DEF LogTypeOK
    <2>2. /\ new \in State /\ new.epoch >= states[n].epoch
          /\ new.epoch = states[n].epoch /\ states[n].epoch < U64Max
                => Published(new) = Published(states[n])
      BY <2>1, ApplyEffect
    <2>3. \A k \in 1 .. n : states[k].epoch \in 0 .. U64Max
      <3>1. \A k \in 1 .. n : states[k] \in State
        BY <1>1, <2>1 DEF LogTypeOK
      <3> QED
        BY <3>1 DEF State
    <2>4. new.epoch \in 0 .. U64Max
      BY <2>2 DEF State
    <2> HIDE DEF new
    <2> SUFFICES ASSUME NEW i \in 1 .. (n + 1), NEW j \in 1 .. (n + 1), i <= j
                 PROVE  /\ states'[i].epoch <= states'[j].epoch
                        /\ states'[i].epoch = states'[j].epoch /\ states'[i].epoch < U64Max
                              => Published(states'[i]) = Published(states'[j])
      BY <2>1 DEF EpochOrdered, Published
    <2>5. CASE j <= n
      BY <1>1, <2>1, <2>5 DEF EpochOrdered
    <2>6. CASE i <= n /\ j = n + 1
      <3>1. states[i].epoch <= states[n].epoch
            /\ (states[i].epoch = states[n].epoch /\ states[i].epoch < U64Max
                  => Published(states[i]) = Published(states[n]))
        BY <1>1, <2>1, <2>6 DEF EpochOrdered
      <3>2. states'[i] = states[i] /\ states'[j] = new
        BY <2>1, <2>6
      <3>3. states[i].epoch \in 0 .. U64Max /\ states[n].epoch \in 0 .. U64Max
        BY <2>1, <2>3, <2>6
      <3> QED
        BY <2>2, <2>4, <3>1, <3>2, <3>3
    <2>7. CASE i = n + 1 /\ j = n + 1
      BY <2>1, <2>4, <2>7
    <2> QED
      BY <2>1, <2>5, <2>6, <2>7
  <1>2. ASSUME EpochOrdered, UNCHANGED logVars PROVE EpochOrdered'
    BY <1>2 DEF EpochOrdered, logVars, Published
  <1> QED
    BY <1>1, <1>2 DEF LogNext

\* An epoch names one published content (EpochIdentifiesPolicy), for any log.
THEOREM EpochTheorem == LogSpec => []EpochIdentifiesPolicy
  <1>1. LogInit => EpochOrdered
    BY DEF LogInit, EpochOrdered, InitialState
  <1>2. LogTypeOK /\ EpochOrdered => EpochIdentifiesPolicy
    <2> SUFFICES ASSUME LogTypeOK, EpochOrdered,
                        NEW i \in 1 .. Len(states), NEW j \in 1 .. Len(states),
                        states[i].epoch = states[j].epoch, states[i].epoch < U64Max
                 PROVE  Published(states[i]) = Published(states[j])
      BY DEF EpochIdentifiesPolicy, LogTypeOK
    <2> QED
      BY DEF EpochOrdered, LogTypeOK
  <1> QED
    BY <1>1, <1>2, EpochStep, LogTyping, PTL DEF LogSpec

-----------------------------------------------------------------------------
(* The uses of join tokens. *)

\* What a command makes of the tokens: one use when it is answered so, else
\* nothing or a token that was not there.
TokensAfter(old, c, new, used) ==
    IF used
    THEN /\ c.op = "consume" /\ c.jti \in Jtis
         /\ old[c.jti] # None
         /\ old[c.jti].uses < old[c.jti].token.max_uses
         /\ old[c.jti].token.bind \in {None, c.peer}
         /\ c.used_at <= old[c.jti].token.expires_at
         /\ new = [old EXCEPT ![c.jti] = [old[c.jti] EXCEPT !.uses = @ + 1]]
    ELSE \/ new = old
         \/ \E j \in Jtis, token \in JoinToken :
                old[j] = None /\ new = [old EXCEPT ![j] = [token |-> token, uses |-> 0]]

\* A result that leaves the tokens of s alone.
KeepsTokens(s, r) == r.state.tokens = s.tokens

\* So do a rejection and an answer that leaves them alone.
LEMMA ResultKeepsTokens ==
    ASSUME NEW s, NEW t, t.tokens = s.tokens, NEW v, NEW code
    PROVE  KeepsTokens(s, Err(s, code)) /\ KeepsTokens(s, Ok(t, v, TRUE)) /\ KeepsTokens(s, Ok(t, v, FALSE))
  BY DEF KeepsTokens, Err, Ok

\* Commands on services and the index leave the tokens alone.
LEMMA PolicyKeepsTokens ==
    ASSUME NEW s \in State, NEW c \in MemberCommand \cup DeleteCommand \cup RenewCommand
    PROVE  KeepsTokens(s, apply_inner(s, c)) /\ c.op # "consume"
  <1>1. CASE c \in MemberCommand
    <2>1. c.op \in {"create", "add", "remove", "set"}
      BY <1>1 DEF MemberCommand
    <2>2. KeepsTokens(s, create_service(s, c))
      <3>1. [s EXCEPT !.services[c.service] = [version |-> 1, members |-> c.peers],
                      !.epoch = saturating_inc(@)].tokens = s.tokens
        BY DEF State
      <3> QED
        BY <3>1, ResultKeepsTokens, Zenon DEF create_service
    <2>3. ASSUME NEW x, NEW members PROVE KeepsTokens(s, finish_change(s, x, members))
      <3>1. \A w : [s EXCEPT !.services[x] = w, !.epoch = saturating_inc(@)].tokens = s.tokens
        BY DEF State
      <3> QED
        BY <3>1, ResultKeepsTokens, Zenon DEF finish_change
    <2>4. KeepsTokens(s, change_members(s, c))
      BY <2>3, ResultKeepsTokens, Zenon DEF change_members
    <2> QED
      BY <2>1, <2>2, <2>4, Zenon DEF apply_inner
  <1>2. CASE c \in DeleteCommand
    <2>1. c.op = "delete"
      BY <1>2 DEF DeleteCommand
    <2>2. \A w : [s EXCEPT !.services[c.service] = None, !.tombstones[c.service] = w,
                           !.epoch = saturating_inc(@)].tokens = s.tokens
      BY DEF State
    <2>3. KeepsTokens(s, delete_service(s, c))
      BY <2>2, ResultKeepsTokens, Zenon DEF delete_service
    <2> QED
      BY <2>1, <2>3, Zenon DEF apply_inner
  <1>3. CASE c \in RenewCommand
    <2>1. c.op = "renew"
      BY <1>3 DEF RenewCommand
    <2>2. [s EXCEPT !.epoch = saturating_inc(@), !.expires_at = c.expires_at].tokens = s.tokens
      BY DEF State
    <2>3. KeepsTokens(s, renew_index(s, c))
      BY <2>2, ResultKeepsTokens, Zenon DEF renew_index
    <2> QED
      BY <2>1, <2>3, Zenon DEF apply_inner
  <1> QED
    BY <1>1, <1>2, <1>3

\* Issuing adds a token, using one counts it, and a refusal does neither
\* (issue_join_token, consume_join_token).
LEMMA InnerTokens ==
    ASSUME NEW s \in State, NEW c \in InnerCommand
    PROVE  LET r == apply_inner(s, c)
           IN  TokensAfter(s.tokens, c, r.state.tokens, c.op = "consume" /\ r.outcome.code = "ok")
  <1>1. CASE c \in MemberCommand \cup DeleteCommand \cup RenewCommand
    BY <1>1, PolicyKeepsTokens DEF TokensAfter, KeepsTokens
  <1>2. CASE c \in IssueCommand
    <2> DEFINE token == c.token
    <2>1. c.op = "issue" /\ token \in JoinToken
      BY <1>2 DEF IssueCommand
    <2>2. apply_inner(s, c) = issue_join_token(s, c)
      BY <2>1 DEF apply_inner
    <2>3. CASE issue_join_token(s, c).state = s
      BY <2>1, <2>2, <2>3 DEF TokensAfter
    <2>4. CASE issue_join_token(s, c).state # s
      <3>1. /\ token.jti # None /\ s.tokens[token.jti] = None
            /\ issue_join_token(s, c).state
                  = [s EXCEPT !.tokens[token.jti] = [token |-> token, uses |-> 0]]
        BY <2>4 DEF issue_join_token, Ok, Err
      <3>2. token.jti \in Jtis
        BY <2>1, <3>1 DEF JoinToken
      <3>3. issue_join_token(s, c).state.tokens
               = [s.tokens EXCEPT ![token.jti] = [token |-> token, uses |-> 0]]
        BY <3>1 DEF State
      <3> HIDE DEF token
      <3> QED
        BY <2>1, <2>2, <3>1, <3>2, <3>3 DEF TokensAfter
    <2> QED
      BY <2>3, <2>4
  <1>3. CASE c \in ConsumeCommand
    <2> DEFINE stored == s.tokens[c.jti]
    <2>1. c.op = "consume" /\ c.jti \in Jtis /\ c.used_at \in Nat
      BY <1>3 DEF ConsumeCommand
    <2>2. apply_inner(s, c) = consume_join_token(s, c)
      BY <2>1 DEF apply_inner
    <2>3. CASE consume_join_token(s, c).outcome.code # "ok"
      <3>1. consume_join_token(s, c).state = s
        BY <2>3 DEF consume_join_token, Ok, Err
      <3> QED
        BY <2>2, <2>3, <3>1 DEF TokensAfter
    <2>4. CASE consume_join_token(s, c).outcome.code = "ok"
      <3>1. /\ stored # None /\ ~(stored.uses >= stored.token.max_uses)
            /\ stored.token.bind \in {None, c.peer}
            /\ ~(c.used_at > stored.token.expires_at)
            /\ consume_join_token(s, c).state
                  = [s EXCEPT !.tokens[c.jti] = [stored EXCEPT !.uses = @ + 1]]
        BY <2>4 DEF consume_join_token, Ok, Err
      <3>2. stored \in StoredJoinToken
        BY <2>1, <3>1 DEF State
      <3>3. stored.uses \in Nat /\ stored.token \in JoinToken
        BY <3>2 DEF StoredJoinToken
      <3>4. stored.token.max_uses \in Nat /\ stored.token.expires_at \in Nat
        BY <3>3 DEF JoinToken
      <3>5. stored.uses < stored.token.max_uses /\ c.used_at <= stored.token.expires_at
        BY <2>1, <3>1, <3>3, <3>4
      <3>6. consume_join_token(s, c).state.tokens
               = [s.tokens EXCEPT ![c.jti] = [stored EXCEPT !.uses = @ + 1]]
        BY <3>1 DEF State
      <3> QED
        BY <2>1, <2>2, <2>4, <3>1, <3>5, <3>6 DEF TokensAfter
    <2> QED
      BY <2>3, <2>4
  <1> QED
    BY <1>1, <1>2, <1>3 DEF InnerCommand

\* What a commit makes of the tokens, and whether it counts as a use.
LEMMA CommitTokens ==
    ASSUME LogTypeOK, NEW c \in Commands, Commit(c), NEW n \in Nat, n = Len(log) + 1
    PROVE  TokensAfter(states[n].tokens, Inner(n)', states'[n + 1].tokens,
                       /\ Inner(n)'.op = "consume" /\ answers'[n].outcome.code = "ok"
                       /\ ~answers'[n].duplicate)
  <1> DEFINE r == apply_command_at(states[n], c, n)
             cmd == IF c.op = "admin" THEN c.cmd ELSE c
  <1>1. /\ states[n] \in State /\ c \in Command
        /\ states'[n + 1] = r.state /\ answers'[n] = r.answer /\ Inner(n)' = cmd
    BY CommitFacts DEF Inner
  <1> HIDE DEF r
  <1> SUFFICES TokensAfter(states[n].tokens, cmd, r.state.tokens,
                           cmd.op = "consume" /\ r.answer.outcome.code = "ok" /\ ~r.answer.duplicate)
    BY <1>1, Zenon
  <1>2. CASE c \in AdminCommand /\ states[n].dedup[c.id] = None
    <2> DEFINE inner == apply_inner(states[n], c.cmd)
               table == prune_dedup(FullTable(states[n], c, n), c.ts)
    <2>1. cmd = c.cmd /\ c.cmd \in InnerCommand
      BY <1>2 DEF AdminCommand
    <2>2. /\ r.state = [inner.state EXCEPT !.dedup = table]
          /\ r.answer = FirstAnswer(inner.outcome, inner.state.epoch, n)
      <3>1. PICK s \in State : s = states[n]
        BY <1>1
      <3>2. PICK a \in AdminCommand : a = c
        BY <1>2
      <3>3. s.dedup[a.id] = None
        BY <1>2, <3>1, <3>2
      <3>4. /\ apply_command_at(s, a, n).state
                  = [apply_inner(s, a.cmd).state EXCEPT
                        !.dedup = prune_dedup(FullTable(s, a, n), a.ts)]
            /\ apply_command_at(s, a, n).answer
                  = FirstAnswer(apply_inner(s, a.cmd).outcome,
                                apply_inner(s, a.cmd).state.epoch, n)
        BY <3>3, FirstRequest
      <3> QED
        BY <3>1, <3>2, <3>4, Zenon DEF r
    <2>3. inner.state \in State
      BY <1>1, <2>1, InnerEffect DEF Effect
    <2>4. TokensAfter(states[n].tokens, c.cmd, inner.state.tokens,
                      c.cmd.op = "consume" /\ inner.outcome.code = "ok")
      BY <1>1, <2>1, InnerTokens
    <2> HIDE DEF inner, table
    <2>5. r.state.tokens = inner.state.tokens
      BY <2>2, <2>3 DEF State
    <2>6. r.answer.outcome = inner.outcome
      BY <2>2 DEF FirstAnswer
    <2>7. r.answer.duplicate = FALSE
      BY <2>2 DEF FirstAnswer
    <2>8. (cmd.op = "consume" /\ r.answer.outcome.code = "ok" /\ ~r.answer.duplicate)
             = (c.cmd.op = "consume" /\ inner.outcome.code = "ok")
      BY <2>1, <2>6, <2>7
    <2> QED
      BY <2>1, <2>4, <2>5, <2>8
  <1>3. CASE c \in AdminCommand /\ states[n].dedup[c.id] # None
    <2>1. r.state = states[n] /\ \E o, e, i : r.answer = RepeatedAnswer(o, e, i)
      BY <1>1, <1>3, RepeatedRequest DEF r
    <2>2. r.answer.duplicate = TRUE
      BY <2>1 DEF RepeatedAnswer
    <2> QED
      BY <2>1, <2>2, Zenon DEF TokensAfter
  <1>4. CASE c \in BlankCommand
    <2>1. c.op \in {"blank", "membership"}
      BY <1>4 DEF BlankCommand
    <2>2. r.state = states[n] /\ cmd.op # "consume"
      BY <2>1 DEF r, apply_command_at
    <2> QED
      BY <2>2 DEF TokensAfter
  <1>5. CASE c \in InnerCommand
    <2> DEFINE inner == apply_inner(states[n], c)
    <2>1. c.op \notin {"admin", "blank", "membership"}
      BY <1>5 DEF InnerCommand, MemberCommand, DeleteCommand, RenewCommand, IssueCommand,
                  ConsumeCommand
    <2>2. cmd = c /\ r.state = inner.state
          /\ r.answer = FirstAnswer(inner.outcome, inner.state.epoch, 0)
      BY <2>1 DEF r, apply_command_at
    <2>3. TokensAfter(states[n].tokens, c, inner.state.tokens,
                      c.op = "consume" /\ inner.outcome.code = "ok")
      BY <1>1, <1>5, InnerTokens
    <2> HIDE DEF inner
    <2>4. r.answer.outcome = inner.outcome
      BY <2>2 DEF FirstAnswer
    <2>5. r.answer.duplicate = FALSE
      BY <2>2 DEF FirstAnswer
    <2>6. (cmd.op = "consume" /\ r.answer.outcome.code = "ok" /\ ~r.answer.duplicate)
             = (c.op = "consume" /\ inner.outcome.code = "ok")
      BY <2>2, <2>4, <2>5
    <2> QED
      BY <2>2, <2>3, <2>6
  <1> QED
    BY <1>1, <1>2, <1>3, <1>4, <1>5 DEF Command

\* What the state says of a token, against the uses in the log.
Fits(stored, j) ==
    IF stored = None THEN Consumed(j) = {}
    ELSE /\ Cardinality(Consumed(j)) = stored.uses /\ stored.uses <= stored.token.max_uses
         /\ \A i \in Consumed(j) : /\ stored.token.bind \in {None, Inner(i).peer}
                                   /\ Inner(i).used_at <= stored.token.expires_at

\* The uses are counted, from the start: a token nobody issued has none.
TokensCounted ==
    \A tokens \in {states[Len(log) + 1].tokens} : \A j \in Jtis : Fits(tokens[j], j)

\* The uses of a token are entries of the log.
LEMMA ConsumedFinite ==
    ASSUME LogTypeOK, NEW j, NEW n \in Nat, n = Len(log) + 1
    PROVE  Consumed(j) \subseteq 1 .. (n - 1) /\ IsFiniteSet(Consumed(j))
  <1>1. Consumed(j) \subseteq 1 .. (n - 1)
    BY DEF Consumed, LogTypeOK
  <1>2. IsFiniteSet(1 .. (n - 1))
    BY FS_Interval
  <1> QED
    BY <1>1, <1>2, FS_Subset

\* A commit adds its own entry to the uses of one token, or none.
LEMMA CommitConsumes ==
    ASSUME LogTypeOK, NEW c \in Commands, Commit(c), NEW n \in Nat, n = Len(log) + 1, NEW j
    PROVE  /\ \A i \in 1 .. (n - 1) : Inner(i)' = Inner(i)
           /\ Consumed(j)' = IF /\ Inner(n)'.op = "consume" /\ Inner(n)'.jti = j
                                /\ answers'[n].outcome.code = "ok" /\ ~answers'[n].duplicate
                             THEN Consumed(j) \cup {n} ELSE Consumed(j)
  <1>1. /\ DOMAIN log = 1 .. (n - 1) /\ DOMAIN log' = 1 .. n
        /\ \A i \in 1 .. (n - 1) : log'[i] = log[i] /\ answers'[i] = answers[i]
    BY CommitFacts DEF LogTypeOK
  <1>2. \A i \in 1 .. (n - 1) : Inner(i)' = Inner(i)
    BY <1>1, Zenon DEF Inner
  <1>3. \A i \in 1 .. (n - 1) : i \in Consumed(j)' <=> i \in Consumed(j)
    <2> SUFFICES ASSUME NEW i \in 1 .. (n - 1) PROVE i \in Consumed(j)' <=> i \in Consumed(j)
      OBVIOUS
    <2>1. i \in 1 .. n
      OBVIOUS
    <2> QED
      BY <1>1, <1>2, <2>1, Zenon DEF Consumed
  <1>4. n \in Consumed(j)' <=> /\ Inner(n)'.op = "consume" /\ Inner(n)'.jti = j
                               /\ answers'[n].outcome.code = "ok" /\ ~answers'[n].duplicate
    <2>1. n \in 1 .. n
      BY DEF LogTypeOK
    <2> QED
      BY <1>1, <2>1, Zenon DEF Consumed
  <1>5. Consumed(j)' \subseteq 1 .. n /\ Consumed(j) \subseteq 1 .. (n - 1)
    BY <1>1, Zenon DEF Consumed
  <1>6. ASSUME NEW S, NEW T, S \subseteq 1 .. n, T \subseteq 1 .. (n - 1),
               \A i \in 1 .. (n - 1) : i \in S <=> i \in T
        PROVE  S = IF n \in S THEN T \cup {n} ELSE T
    <2>1. \A i \in 1 .. n : i \in 1 .. (n - 1) \/ i = n
      OBVIOUS
    <2>2. \A i \in S : i \in T \/ i = n
      BY <1>6, <2>1, Zenon
    <2>3. T \subseteq S
      BY <1>6, Zenon
    <2>4. CASE n \in S
      <3>1. \A i : i \in S <=> i \in T \cup {n}
        BY <2>2, <2>3, <2>4, Zenon
      <3> QED
        BY <2>4, <3>1, Zenon
    <2>5. CASE n \notin S
      <3>1. \A i : i \in S <=> i \in T
        BY <2>2, <2>3, <2>5, Zenon
      <3> QED
        BY <2>5, <3>1, Zenon
    <2> QED
      BY <2>4, <2>5
  <1>7. Consumed(j)' = IF n \in Consumed(j)' THEN Consumed(j) \cup {n} ELSE Consumed(j)
    BY <1>3, <1>5, <1>6, Zenon
  <1> QED
    BY <1>2, <1>4, <1>7, Zenon

\* Every commit keeps the count.
LEMMA TokensStep ==
    ASSUME LogTypeOK, TokensCounted, NEW c \in Commands, Commit(c)
    PROVE  TokensCounted'
  <1>1. PICK n \in Nat : n = Len(log) + 1
    BY DEF LogTypeOK
  <1>2. PICK old, new, cmd, used :
            /\ old = states[n].tokens /\ new = states'[n + 1].tokens /\ cmd = Inner(n)'
            /\ used = (cmd.op = "consume" /\ answers'[n].outcome.code = "ok" /\ ~answers'[n].duplicate)
    OBVIOUS
  <1>3. Len(log') = n /\ states[n] \in State /\ states'[n + 1] \in State
    BY <1>1, CommitFacts
  <1>4. \A j \in Jtis : Fits(old[j], j)
    BY <1>1, <1>2, Zenon DEF TokensCounted
  <1>5. TokensAfter(old, cmd, new, used)
    BY <1>1, <1>2, CommitTokens, Zenon
  <1>6. /\ old \in [Jtis -> StoredJoinToken \cup {None}]
        /\ new \in [Jtis -> StoredJoinToken \cup {None}]
    BY <1>2, <1>3 DEF State
  <1>7. ASSUME NEW j \in Jtis, ~(used /\ cmd.jti = j)
        PROVE  /\ Consumed(j)' = Consumed(j)
               /\ \A i \in Consumed(j) : Inner(i)' = Inner(i)
    <2>1. Consumed(j)' = Consumed(j)
      BY <1>1, <1>2, <1>7, CommitConsumes, Zenon
    <2>2. Consumed(j) \subseteq 1 .. (n - 1)
      BY <1>1, ConsumedFinite
    <2> QED
      BY <1>1, <2>1, <2>2, CommitConsumes, Zenon
  \* A token the commit says nothing of.
  <1>8. ASSUME NEW j \in Jtis, ~(used /\ cmd.jti = j), new[j] = old[j] PROVE Fits(new[j], j)'
    <2>1. PICK x : x = old[j]
      OBVIOUS
    <2>2. Fits(x, j) /\ Consumed(j)' = Consumed(j) /\ \A i \in Consumed(j) : Inner(i)' = Inner(i)
      BY <1>4, <1>7, <1>8, <2>1, Zenon
    <2>3. ASSUME x = None PROVE Fits(x, j)'
      BY <2>2, <2>3, Zenon DEF Fits
    <2>4. ASSUME x # None PROVE Fits(x, j)'
      <3>1. /\ Cardinality(Consumed(j)) = x.uses /\ x.uses <= x.token.max_uses
            /\ \A i \in Consumed(j) : /\ x.token.bind \in {None, Inner(i).peer}
                                      /\ Inner(i).used_at <= x.token.expires_at
        BY <2>2, <2>4, Zenon DEF Fits
      <3>2. ASSUME NEW i \in Consumed(j)'
            PROVE  /\ x.token.bind \in {None, Inner(i)'.peer}
                   /\ Inner(i)'.used_at <= x.token.expires_at
        BY <2>2, <3>1, Zenon
      <3>3. Cardinality(Consumed(j)') = x.uses
        BY <2>2, <3>1, Zenon
      <3> QED
        BY <2>4, <3>1, <3>2, <3>3, Zenon DEF Fits
    <2>5. Fits(x, j)'
      BY <2>3, <2>4, Zenon
    <2> QED
      BY <1>8, <2>1, <2>5, Zenon
  <1>9. ASSUME NEW j \in Jtis PROVE Fits(new[j], j)'
    <2>1. CASE used
      <3>1. CASE cmd.jti # j
        <4>1. new[j] = old[j]
          BY <1>5, <1>6, <2>1, <3>1 DEF TokensAfter
        <4> QED
          BY <1>8, <3>1, <4>1, Zenon
      <3>2. CASE cmd.jti = j
        <4>1. /\ old[j] # None /\ old[j].uses < old[j].token.max_uses
              /\ old[j].token.bind \in {None, cmd.peer} /\ cmd.used_at <= old[j].token.expires_at
              /\ new = [old EXCEPT ![j] = [old[j] EXCEPT !.uses = @ + 1]]
          BY <1>5, <2>1, <3>2, Zenon DEF TokensAfter
        <4>2. PICK x \in StoredJoinToken : x = old[j]
          BY <1>6, <4>1
        <4>3. PICK y : y = [x EXCEPT !.uses = @ + 1]
          BY Zenon
        <4>4. y.uses = x.uses + 1 /\ y.token = x.token /\ y # None /\ x.uses \in Nat
          BY <4>3, NoneAssumption DEF StoredJoinToken
        <4>5. new[j] = y
          BY <1>6, <4>1, <4>2, <4>3
        <4>6. /\ Consumed(j)' = Consumed(j) \cup {n}
              /\ \A i \in 1 .. (n - 1) : Inner(i)' = Inner(i)
          BY <1>1, <1>2, <2>1, <3>2, CommitConsumes, Zenon
        <4>7. Consumed(j) \subseteq 1 .. (n - 1) /\ IsFiniteSet(Consumed(j))
          BY <1>1, ConsumedFinite
        <4>8. Cardinality(Consumed(j)') = Cardinality(Consumed(j)) + 1
          <5>1. n \notin Consumed(j)
            BY <4>7
          <5> QED
            BY <4>6, <4>7, <5>1, FS_AddElement, Zenon
        <4>9. /\ x # None /\ Cardinality(Consumed(j)) = x.uses
              /\ \A i \in Consumed(j) : /\ x.token.bind \in {None, Inner(i).peer}
                                        /\ Inner(i).used_at <= x.token.expires_at
          BY <1>4, <4>1, <4>2, Zenon DEF Fits
        <4>10. ASSUME NEW i \in Consumed(j)'
               PROVE  /\ y.token.bind \in {None, Inner(i)'.peer}
                      /\ Inner(i)'.used_at <= y.token.expires_at
          <5>1. CASE i = n
            BY <1>2, <4>1, <4>2, <4>4, <5>1, Zenon
          <5>2. CASE i # n
            BY <4>4, <4>6, <4>7, <4>9, <4>10, <5>2, Zenon
          <5> QED
            BY <5>1, <5>2
        <4>11. Cardinality(Consumed(j)') = y.uses /\ y.uses <= y.token.max_uses
          <5>1. x.token.max_uses \in Nat
            BY DEF StoredJoinToken, JoinToken
          <5> QED
            BY <4>1, <4>2, <4>4, <4>8, <4>9, <5>1
        <4> QED
          BY <4>4, <4>5, <4>10, <4>11, Zenon DEF Fits
      <3> QED
        BY <3>1, <3>2
    <2>2. CASE ~used
      <3>1. CASE new[j] = old[j]
        BY <1>8, <2>2, <3>1, Zenon
      <3>2. CASE new[j] # old[j]
        <4>1. PICK token \in JoinToken : old[j] = None /\ new[j] = [token |-> token, uses |-> 0]
          BY <1>5, <1>6, <2>2, <3>2 DEF TokensAfter
        <4>2. PICK y : y = [token |-> token, uses |-> 0]
          BY Zenon
        <4>3. y.uses = 0 /\ y.token = token /\ y \in StoredJoinToken
          BY <4>2 DEF StoredJoinToken
        <4>4. y # None /\ 0 <= token.max_uses
          BY <4>3, NoneAssumption DEF JoinToken
        <4>5. Consumed(j)' = {}
          BY <1>4, <1>7, <2>2, <4>1, Zenon DEF Fits
        <4>6. Cardinality(Consumed(j)') = y.uses /\ y.uses <= y.token.max_uses
          BY <4>3, <4>4, <4>5, FS_EmptySet
        <4>7. Fits(y, j)'
          BY <4>4, <4>5, <4>6, Zenon DEF Fits
        <4> QED
          BY <4>1, <4>2, <4>7, Zenon
      <3> QED
        BY <3>1, <3>2
    <2> QED
      BY <2>1, <2>2
  <1> QED
    BY <1>2, <1>3, <1>9, Zenon DEF TokensCounted

\* A join token admits at most max_uses nodes over the whole history, each of
\* them the peer it is bound to, none after it expired
\* (TokenAdmitsAtMostMaxUses, consume_join_token), for any tokens and any log.
THEOREM TokenTheorem == LogSpec => []TokenAdmitsAtMostMaxUses
  <1>1. LogInit => TokensCounted
    <2> SUFFICES ASSUME LogInit PROVE TokensCounted
      OBVIOUS
    <2>1. log = <<>> /\ states[Len(log) + 1] = InitialState
      BY DEF LogInit
    <2>2. \A j \in Jtis : InitialState.tokens[j] = None
      BY DEF InitialState
    <2>3. \A j : Consumed(j) = {}
      BY <2>1 DEF Consumed
    <2> QED
      BY <2>1, <2>2, <2>3, Zenon DEF TokensCounted, Fits
  <1>2. LogTypeOK /\ TokensCounted /\ [LogNext]_logVars => TokensCounted'
    <2>1. ASSUME TokensCounted, UNCHANGED logVars PROVE TokensCounted'
      <3>1. log' = log /\ states' = states /\ answers' = answers
        BY <2>1, Zenon DEF logVars
      <3>2. \A i : Inner(i)' = Inner(i)
        BY <3>1, Zenon DEF Inner
      <3>3. \A j : Consumed(j)' = Consumed(j)
        BY <3>1, <3>2, Zenon DEF Consumed
      <3>4. \A stored, j : Fits(stored, j)' <=> Fits(stored, j)
        BY <3>2, <3>3, Zenon DEF Fits
      <3> QED
        BY <2>1, <3>1, <3>4, Zenon DEF TokensCounted
    <2> QED
      BY <2>1, TokensStep DEF LogNext
  <1>3. LogTypeOK /\ TokensCounted => TokenAdmitsAtMostMaxUses
    <2> SUFFICES ASSUME LogTypeOK, TokensCounted PROVE TokenAdmitsAtMostMaxUses
      OBVIOUS
    <2>1. PICK tokens : tokens = states[Len(states)].tokens
      OBVIOUS
    <2>2. Len(states) = Len(log) + 1
      BY DEF LogTypeOK
    <2>3. \A j \in Jtis : Fits(tokens[j], j)
      BY <2>1, <2>2, Zenon DEF TokensCounted
    <2> QED
      BY <2>1, <2>3, Zenon DEF TokenAdmitsAtMostMaxUses, Fits
  <1> QED
    BY <1>1, <1>2, <1>3, LogTyping, PTL DEF LogSpec
=============================================================================
