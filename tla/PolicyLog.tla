----------------------------- MODULE PolicyLog -----------------------------
(***************************************************************************)
(* What the Raft control plane promises: one committed sequence of policy  *)
(* commands, applied in order to one policy state.  openraft decides which *)
(* command is committed next; every replica that applies the log obtains   *)
(* these states and these answers (module PolicyReplicas).                 *)
(*                                                                         *)
(* states[i] is the policy state before entry i (states[1] is the initial  *)
(* one), answers[i] what the proposer of entry i is told.                  *)
(***************************************************************************)
EXTENDS PolicyState, Sequences

CONSTANTS
    Commands,   \* the commands the leader may propose
    MaxLog      \* bound: committed entries

ASSUME LogAssumption == Commands \subseteq Command /\ MaxLog \in Nat

VARIABLES log, states, answers

logVars == <<log, states, answers>>

LogTypeOK ==
    /\ log \in Seq(Commands)
    /\ states \in Seq(State) /\ Len(states) = Len(log) + 1
    /\ answers \in Seq(PolicyResult) /\ Len(answers) = Len(log)

LogInit ==
    /\ log = <<>>
    /\ states = <<InitialState>>
    /\ answers = <<>>

\* Raft commits the next command; its effect and its answer are determined.
Commit(c) ==
    /\ Len(log) < MaxLog
    /\ LET applied == apply_command_at(states[Len(log) + 1], c, Len(log) + 1)
       IN  /\ log' = Append(log, c)
           /\ states' = Append(states, applied.state)
           /\ answers' = Append(answers, applied.answer)

LogNext == \E c \in Commands : Commit(c)

LogSpec == LogInit /\ [][LogNext]_logVars

-----------------------------------------------------------------------------
(* Properties. *)

\* A version number names one content: two policy states of the history with
\* the same policy_epoch publish the same services and the same expiry.  The
\* epoch is the index version nodes use for rollback protection, so a change
\* that did not move it would never replace what is already published.
EpochIdentifiesPolicy ==
    \A i, j \in DOMAIN states :
        states[i].epoch = states[j].epoch /\ states[i].epoch < U64Max
            => Published(states[i]) = Published(states[j])

Executed(i) == log[i].op = "admin" /\ ~answers[i].duplicate

\* Between entries i and j the request of entry i left the dedup table: a
\* request more than DedupTtl younger was executed, or DedupMax others were.
Forgotten(i, j) ==
    \/ \E k \in (i + 1) .. (j - 1) : Executed(k) /\ log[k].ts - log[i].ts > DedupTtl
    \/ Cardinality({k \in (i + 1) .. (j - 1) : Executed(k)}) >= DedupMax

\* A retried administrator request is answered from the table: while it has
\* not been forgotten, committing the same request_id again changes nothing,
\* and the answer is the first answer when the content is the same, and a
\* conflict when it is not (apply_admin).
RetryIsIdempotent ==
    \A i, j \in DOMAIN log :
        /\ i < j /\ Executed(i) /\ log[j].op = "admin" /\ log[j].id = log[i].id
        /\ ~Forgotten(i, j)
        => /\ states[j + 1] = states[j]
           /\ answers[j] = IF log[j].hash = log[i].hash
                           THEN RepeatedAnswer(answers[i].outcome, answers[i].epoch, i)
                           ELSE RepeatedAnswer(conflict, states[j].epoch, j)

\* The command of entry i, whether an administrator's or the leader's own.
Inner(i) == IF log[i].op = "admin" THEN log[i].cmd ELSE log[i]

Consumed(jti) == {i \in DOMAIN log : /\ Inner(i).op = "consume" /\ Inner(i).jti = jti
                                     /\ answers[i].outcome.code = "ok" /\ ~answers[i].duplicate}

\* A join token admits at most max_uses nodes over the whole history, each of
\* them the peer it is bound to, none after it expired, whatever the order in
\* which concurrent joins are committed (consume_join_token).
TokenAdmitsAtMostMaxUses ==
    \A j \in Jtis : Consumed(j) # {} =>
        LET stored == states[Len(states)].tokens[j]
        IN  /\ stored # None
            /\ Cardinality(Consumed(j)) = stored.uses
            /\ stored.uses <= stored.token.max_uses
            /\ \A i \in Consumed(j) : /\ stored.token.bind \in {None, Inner(i).peer}
                                      /\ Inner(i).used_at <= stored.token.expires_at

\* An entry answered with a rejection, a duplicate or "nothing changed" leaves
\* the policy, its epoch and the tokens as they were; any other entry that is
\* not about a token or the Raft membership moves the epoch by one
\* (PolicyResult, finish_change).
RejectionChangesNothing ==
    \A i \in DOMAIN log :
        LET before == states[i]
            after == states[i + 1]
        IN  IF answers[i].outcome.changed /\ ~answers[i].duplicate
            THEN Inner(i).op \notin {"issue", "consume", "membership"}
                    => after.epoch = saturating_inc(before.epoch)
            ELSE after = [before EXCEPT !.dedup = after.dedup]

=============================================================================
