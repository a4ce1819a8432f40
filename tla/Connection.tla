----------------------------- MODULE Connection -----------------------------
(***************************************************************************)
(* One connection to the local node (src/connection.rs, protocol.rs): the  *)
(* handshake; calls that register a waiter in the pending table, write     *)
(* their frame and wait for the reply or the timeout; and the read loop,   *)
(* which matches replies with waiters and gives every request of the node  *)
(* to a task of its own, that answers over the same connection and may     *)
(* call over it.  Calls and answers share the writer, under its lock.      *)
(* Every lock and every await of the code ends a step.  The node is        *)
(* external: it answers a frame it has got, in any order, or never, and it *)
(* may stop reading, so that a write neither succeeds nor fails.           *)
(*                                                                         *)
(* What the tasks do with a request is left to the module that extends     *)
(* this one.                                                               *)
(***************************************************************************)
EXTENDS Integers, FiniteSets

CONSTANTS
    Calls,      \* the ids of the calls made (each is used once)
    Requests,   \* the ids of the requests the node makes
    None

ASSUME ConnectionAssumption ==
    Calls \cap Requests = {} /\ None \notin Calls \cup Requests

VARIABLES
    caller,     \* per call: how far call_with_timeout is
    handler,    \* per request: how far its task is
    pending,    \* the ids in the pending table
    channel,    \* per call: what was sent to its waiter
    writer,     \* who holds the lock of the writer, or None
    written,    \* frames written to the node and not answered
    replies,    \* replies the read loop has not read
    unmatched,  \* ids of the replies for which there was no waiter
    greeted,    \* the handshake is done
    stalled,    \* the node does not read
    open,       \* the connection is up
    ctx         \* Runtime.ctx: none, ready, or raft when admin_raft is set, too

connectionVars == <<caller, handler, pending, channel, writer, written, replies, unmatched,
                    greeted, stalled, open, ctx>>

Ended == {"ok", "error", "io_error", "timeout"}

\* The steps of call_with_timeout at which others may run.
Stages == {"idle", "registered", "writing", "waiting", "failed", "expired"} \cup Ended

Replies == [id : Calls, ok : BOOLEAN]

ConnectionTypeOK ==
    /\ caller \in [Calls -> Stages]
    /\ pending \subseteq Calls
    /\ channel \in [Calls -> {"empty", "ok", "error"}]
    /\ writer \in Calls \cup Requests \cup {None}
    /\ written \subseteq Calls /\ replies \subseteq Replies /\ unmatched \subseteq Calls
    /\ greeted \in BOOLEAN /\ stalled \in BOOLEAN /\ open \in BOOLEAN
    /\ ctx \in {"none", "ready", "raft"}

ConnectionInit ==
    /\ caller = [id \in Calls |-> "idle"] /\ handler = [r \in Requests |-> "none"]
    /\ pending = {} /\ written = {} /\ replies = {} /\ unmatched = {}
    /\ channel = [id \in Calls |-> "empty"]
    /\ writer = None /\ greeted = FALSE /\ stalled = FALSE /\ open = TRUE
    /\ ctx \in {"none", "ready", "raft"}

\* The first frame must be a hello of this version, and is answered by one.
handshake(hello) ==
    /\ ~greeted /\ open
    /\ greeted' = hello /\ open' = hello
    /\ UNCHANGED <<caller, handler, pending, channel, writer, written, replies, unmatched,
                   stalled, ctx>>

-----------------------------------------------------------------------------
(* call_with_timeout. *)

\* Mutant of insert: the waiter is not registered before the frame is written.
insert_later(id) == UNCHANGED pending

insert(id) == pending' = pending \cup {id}

call(id) ==
    /\ caller[id] = "idle" /\ greeted
    /\ insert(id)
    /\ caller' = [caller EXCEPT ![id] = "registered"]
    /\ UNCHANGED <<channel, writer, written, replies, unmatched, greeted, stalled, open, ctx>>

\* The reply is there before the timeout; timeout() looks for it first.
receive(id) ==
    /\ caller[id] = "waiting" /\ channel[id] # "empty"
    /\ caller' = [caller EXCEPT ![id] = channel[id]]
    /\ UNCHANGED <<handler, pending, channel, writer, written, replies, unmatched, greeted,
                   stalled, open, ctx>>

\* Mutant of expire: the call ends with its reply's waiter left in the table.
expire_at_once(id) ==
    /\ caller[id] = "waiting" /\ channel[id] = "empty"
    /\ caller' = [caller EXCEPT ![id] = "timeout"]
    /\ UNCHANGED <<handler, pending, channel, writer, written, replies, unmatched, greeted,
                   stalled, open, ctx>>

\* Mutant of expire: the frame is written again, for as long as it takes.
expire_retry(id) ==
    /\ caller[id] = "waiting" /\ channel[id] = "empty"
    /\ caller' = [caller EXCEPT ![id] = "registered"]
    /\ UNCHANGED <<handler, pending, channel, writer, written, replies, unmatched, greeted,
                   stalled, open, ctx>>

expire(id) ==
    /\ caller[id] = "waiting" /\ channel[id] = "empty"
    /\ caller' = [caller EXCEPT ![id] = "expired"]
    /\ UNCHANGED <<handler, pending, channel, writer, written, replies, unmatched, greeted,
                   stalled, open, ctx>>

\* The waiter is removed; the read loop may have done so in the meantime.
remove(id) ==
    /\ caller[id] \in {"failed", "expired"}
    /\ pending' = pending \ {id}
    /\ caller' = [caller EXCEPT ![id] = IF @ = "failed" THEN "io_error" ELSE "timeout"]
    /\ UNCHANGED <<handler, channel, writer, written, replies, unmatched, greeted, stalled,
                   open, ctx>>

-----------------------------------------------------------------------------
(* write_msg, of calls and of answers. *)

\* How far task t is, and its next stage.
Stage(t) == IF t \in Calls THEN caller[t] ELSE handler[t]

Enter(t, stage) ==
    IF t \in Calls THEN caller' = [caller EXCEPT ![t] = stage] /\ UNCHANGED handler
    ELSE handler' = [handler EXCEPT ![t] = stage] /\ UNCHANGED caller

lock(t) ==
    /\ writer = None /\ Stage(t) = "registered"
    /\ writer' = t
    /\ Enter(t, "writing")
    /\ UNCHANGED <<pending, channel, written, replies, unmatched, greeted, stalled, open, ctx>>

\* Mutant of unlock: a write that failed keeps the lock.
unlock_written(t, ok) == writer' = IF ok THEN None ELSE writer

unlock(t, ok) == writer' = None

\* A frame above MAX_FRAME is not written.  An error ends a call, and leaves
\* the node without an answer.
encode_frame(t) ==
    /\ writer = t
    /\ unlock(t, FALSE)
    /\ Enter(t, "failed")
    /\ UNCHANGED <<pending, channel, written, replies, unmatched, greeted, stalled, open, ctx>>

\* The frame is written, or lost when the end of the connection is not known
\* yet, or the write fails.
write_frame(t, ok) ==
    /\ writer = t
    /\ IF ok THEN ~stalled ELSE ~open
    /\ unlock(t, ok)
    /\ Enter(t, IF ok THEN "waiting" ELSE "failed")
    /\ written' = IF ok /\ open /\ t \in Calls THEN written \cup {t} ELSE written
    /\ UNCHANGED <<pending, channel, replies, unmatched, greeted, stalled, open, ctx>>

write_msg(t) == lock(t) \/ encode_frame(t) \/ \E ok \in BOOLEAN : write_frame(t, ok)

-----------------------------------------------------------------------------
(* The node (external) and read_loop. *)

NodeReplies(id, ok) ==
    /\ id \in written /\ open
    /\ written' = written \ {id}
    /\ replies' = replies \cup {[id |-> id, ok |-> ok]}
    /\ UNCHANGED <<caller, handler, pending, channel, writer, unmatched, greeted, stalled,
                   open, ctx>>

\* A reply takes its waiter out of the table and wakes it; one without a
\* waiter is dropped.
read_loop(r) ==
    /\ open
    /\ replies' = replies \ {r}
    /\ IF r.id \in pending
       THEN /\ channel' = [channel EXCEPT ![r.id] = IF r.ok THEN "ok" ELSE "error"]
            /\ pending' = pending \ {r.id}
            /\ UNCHANGED unmatched
       ELSE unmatched' = unmatched \cup {r.id} /\ UNCHANGED <<channel, pending>>
    /\ UNCHANGED <<caller, handler, writer, written, greeted, stalled, open, ctx>>

\* A request of the node gets a task, with the context of this moment: without
\* one the answer is that the sidecar is joining.
dispatch(r) ==
    /\ open /\ greeted /\ handler[r] = "none"
    /\ handler' = [handler EXCEPT ![r] = IF ctx = "none" THEN "registered" ELSE "running"]
    /\ UNCHANGED <<caller, pending, channel, writer, written, replies, unmatched, greeted,
                   stalled, open, ctx>>

\* The node stops reading.
Stall ==
    /\ open /\ greeted /\ ~stalled
    /\ stalled' = TRUE
    /\ UNCHANGED <<caller, handler, pending, channel, writer, written, replies, unmatched,
                   greeted, open, ctx>>

\* The connection ends: the read loop stops, what was under way is lost, and
\* the waiters stay in the table, which the client's clones keep alive.
Close ==
    /\ open
    /\ open' = FALSE /\ stalled' = FALSE
    /\ written' = {} /\ replies' = {}
    /\ UNCHANGED <<caller, handler, pending, channel, writer, unmatched, greeted, ctx>>

\* The context is activated, then Raft is started (module Startup).
Activate ==
    /\ ctx # "raft"
    /\ ctx' = IF ctx = "none" THEN "ready" ELSE "raft"
    /\ UNCHANGED <<caller, handler, pending, channel, writer, written, replies, unmatched,
                   greeted, stalled, open>>

-----------------------------------------------------------------------------
(* Properties. *)

\* A reply finds no waiter only when its call has given up: the waiter is in
\* the table before the frame can be answered (call_with_timeout, read_loop).
UnmatchedHasTimedOut == \A id \in unmatched : caller[id] \in {"expired", "timeout"}

\* No waiter outlives its call, on any way a call can end and whatever the
\* read loop does at the same time: the table does not grow (call_with_timeout).
NoWaiterLeft == \A id \in Calls : caller[id] \in Ended => id \notin pending

\* Every call ends, also when the node never answers, when the frame is too
\* large and when the connection ends while the call waits, which nobody tells
\* the waiter.  The exception is a node that keeps the connection and does not
\* read: the timeout covers the wait and not the write (call_with_timeout).
CallsEnd == \A id \in Calls : (caller[id] # "idle") ~> (caller[id] \in Ended \/ stalled)
=============================================================================
