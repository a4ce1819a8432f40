-------------------------- MODULE AdminReadProofs --------------------------
(***************************************************************************)
(* Calls and requests on one connection, for any number of them.           *)
(***************************************************************************)
EXTENDS AdminRead, TLAPS

USE ConnectionAssumption, ReadAssumption

-----------------------------------------------------------------------------
(* The pending table. *)

waiterVars == <<caller, pending, channel, writer, written, replies, unmatched>>

\* What the proofs need of the types of the state.
WaiterShape ==
    /\ caller \in [Calls -> Stages] /\ channel \in [Calls -> {"empty", "ok", "error"}]
    /\ pending \subseteq Calls /\ unmatched \subseteq Calls /\ written \subseteq Calls
    /\ \A r \in replies : r.id \in Calls

\* The node has got the frame of this call and its reply was not read.
Outstanding(id) == id \in written \/ \E r \in replies : r.id = id

\* The inductive form of NoWaiterLeft and UnmatchedHasTimedOut.  A waiter is in
\* the table from before its frame can be written until its reply is read or
\* the call ends; a reply is owed once; the call that holds the writer is
\* writing; a reply that is owed finds its waiter unless the call gave up.
Waiters ==
    /\ \A id \in Calls : caller[id] \in {"registered", "writing"} => id \in pending
    /\ \A id \in Calls : caller[id] \in {"idle"} \cup Ended => id \notin pending
    /\ \A id \in Calls : channel[id] # "empty" => id \notin pending /\ caller[id] # "idle"
    /\ \A id \in Calls : writer = id => caller[id] = "writing"
    /\ \A id \in Calls : Outstanding(id) =>
           \/ caller[id] \in {"expired", "timeout"}
           \/ caller[id] = "waiting" /\ id \in pending
    /\ \A r, s \in replies : r.id = s.id => r = s
    /\ \A r \in replies : r.id \notin written
    /\ \A id \in unmatched : caller[id] \in {"expired", "timeout"}

\* call_with_timeout registers the waiter of a call that was not made before.
LEMMA CallWaits ==
    ASSUME WaiterShape, Waiters, NEW id \in Calls, call(id)
    PROVE  WaiterShape' /\ Waiters'
  <1> USE DEF call, insert, WaiterShape, Stages, Ended
  <1>1. WaiterShape'
    OBVIOUS
  <1>2. Waiters'
    BY DEF Waiters, Outstanding
  <1> QED
    BY <1>1, <1>2

\* Receiving the reply, giving up and removing the waiter.
LEMMA CallEnds ==
    ASSUME WaiterShape, Waiters, NEW id \in Calls, receive(id) \/ expire(id) \/ remove(id)
    PROVE  WaiterShape' /\ Waiters'
  <1> USE DEF WaiterShape, Stages, Ended
  <1>1. CASE receive(id)
    <2>1. WaiterShape'
      BY <1>1 DEF receive
    <2> QED
      BY <1>1, <2>1 DEF Waiters, Outstanding, receive
  <1>2. CASE expire(id)
    <2>1. WaiterShape'
      BY <1>2 DEF expire
    <2> QED
      BY <1>2, <2>1 DEF Waiters, Outstanding, expire
  <1>3. CASE remove(id)
    <2>1. WaiterShape'
      BY <1>3 DEF remove
    <2> QED
      BY <1>3, <2>1 DEF Waiters, Outstanding, remove
  <1> QED
    BY <1>1, <1>2, <1>3

\* Writing the frame of a call, or failing to.
LEMMA CallWrites ==
    ASSUME WaiterShape, Waiters, NEW t \in Calls, write_msg(t)
    PROVE  WaiterShape' /\ Waiters'
  <1> USE DEF WaiterShape, Stages, Ended, Enter, Stage, unlock
  <1>0. t # None
    OBVIOUS
  <1>1. CASE lock(t)
    <2>1. WaiterShape'
      BY <1>1 DEF lock
    <2> QED
      BY <1>1, <2>1 DEF Waiters, Outstanding, lock
  <1>2. CASE encode_frame(t)
    <2>1. WaiterShape'
      BY <1>2 DEF encode_frame
    <2> QED
      BY <1>0, <1>2, <2>1 DEF Waiters, Outstanding, encode_frame
  <1>3. ASSUME NEW ok \in BOOLEAN, write_frame(t, ok) PROVE WaiterShape' /\ Waiters'
    <2>1. WaiterShape'
      BY <1>3 DEF write_frame
    <2> QED
      BY <1>0, <1>3, <2>1 DEF Waiters, Outstanding, write_frame
  <1> QED
    BY <1>1, <1>2, <1>3 DEF write_msg

\* Writing the answer to a request only takes the writer.
LEMMA AnswerWrites ==
    ASSUME WaiterShape, Waiters, NEW t \in Requests, write_msg(t)
    PROVE  WaiterShape' /\ Waiters'
  <1>1. t \notin Calls /\ None \notin Calls
    OBVIOUS
  <1>2. UNCHANGED <<caller, pending, channel, written, replies, unmatched>> /\ writer' \notin Calls
    BY <1>1 DEF write_msg, lock, encode_frame, write_frame, Enter, unlock
  <1> QED
    BY <1>2 DEF WaiterShape, Waiters, Outstanding

\* The node answers a frame, and the read loop takes a reply to its waiter.
LEMMA ReplyArrives ==
    ASSUME WaiterShape, Waiters,
           \/ \E id \in Calls, ok \in BOOLEAN : NodeReplies(id, ok)
           \/ \E r \in replies : read_loop(r)
    PROVE  WaiterShape' /\ Waiters'
  <1>1. ASSUME NEW id \in Calls, NEW ok \in BOOLEAN, NodeReplies(id, ok)
        PROVE  WaiterShape' /\ Waiters'
    <2>1. PICK r : r = [id |-> id, ok |-> ok]
      BY Zenon
    <2>2. r.id = id /\ replies' = replies \cup {r} /\ id \in written /\ written' = written \ {id}
          /\ UNCHANGED <<caller, pending, channel, writer, unmatched>>
      BY <1>1, <2>1 DEF NodeReplies
    <2>3. WaiterShape'
      BY <2>2 DEF WaiterShape
    <2> QED
      BY <2>2, <2>3 DEF WaiterShape, Waiters, Outstanding
  <1>2. ASSUME NEW r \in replies, read_loop(r) PROVE WaiterShape' /\ Waiters'
    <2> USE DEF WaiterShape
    <2>1. /\ r.id \in Calls /\ replies' = replies \ {r}
          /\ UNCHANGED <<caller, writer, written>>
      BY <1>2 DEF read_loop
    <2>2. /\ \A s \in replies' : s.id # r.id
          /\ r.id \notin written
      BY <2>1 DEF Waiters
    <2>3. CASE r.id \in pending
      <3>1. pending' = pending \ {r.id} /\ unmatched' = unmatched
            /\ caller[r.id] \notin {"registered", "writing", "idle"}
        BY <1>2, <2>1, <2>3 DEF read_loop, Waiters, Outstanding
      <3>2. channel' \in [Calls -> {"empty", "ok", "error"}]
            /\ \A id \in Calls : id # r.id => channel'[id] = channel[id]
        BY <1>2, <2>1, <2>3 DEF read_loop
      <3> QED
        BY <2>1, <2>2, <3>1, <3>2 DEF Waiters, Outstanding
    <2>4. CASE r.id \notin pending
      <3>1. pending' = pending /\ channel' = channel /\ unmatched' = unmatched \cup {r.id}
        BY <1>2, <2>4 DEF read_loop
      <3>2. caller[r.id] \in {"expired", "timeout"}
        BY <2>1, <2>4 DEF Waiters, Outstanding
      <3> QED
        BY <2>1, <2>2, <3>1, <3>2 DEF Waiters, Outstanding
    <2> QED
      BY <2>3, <2>4
  <1> QED
    BY <1>1, <1>2

\* The end of the connection loses what is under way and wakes nobody.
LEMMA CloseWaits == ASSUME WaiterShape, Waiters, Close PROVE WaiterShape' /\ Waiters'
  BY DEF Close, WaiterShape, Waiters, Outstanding

\* Everything else leaves the calls alone.
LEMMA OthersWait == ASSUME WaiterShape, Waiters, UNCHANGED waiterVars PROVE WaiterShape' /\ Waiters'
  BY DEF waiterVars, WaiterShape, Waiters, Outstanding

\* Every step keeps the table in step with the calls.
LEMMA WaitersStep == WaiterShape /\ Waiters /\ [ReadNext]_vars => WaiterShape' /\ Waiters'
  <1> SUFFICES ASSUME WaiterShape, Waiters, [ReadNext]_vars PROVE WaiterShape' /\ Waiters'
    OBVIOUS
  <1>1. ASSUME NEW hello \in BOOLEAN, Others(handshake(hello)) PROVE WaiterShape' /\ Waiters'
    BY <1>1, OthersWait DEF Others, handshake, waiterVars
  <1>2. ASSUME NEW id \in Calls, Call(id) PROVE WaiterShape' /\ Waiters'
    BY <1>2, CallWaits DEF Call
  <1>3. ASSUME NEW id \in Calls, CallSteps(id) PROVE WaiterShape' /\ Waiters'
    BY <1>3, CallWrites, CallEnds DEF CallSteps, Others
  <1>4. ASSUME NEW r \in Requests, Dispatch(r) PROVE WaiterShape' /\ Waiters'
    BY <1>4, OthersWait DEF Dispatch, dispatch, waiterVars
  <1>5. ASSUME NEW r \in Requests, TaskSteps(r) PROVE WaiterShape' /\ Waiters'
    <2>1. CASE handle_admin_read(r) \/ forwarded(r)
      <3>1. UNCHANGED waiterVars
        BY <2>1 DEF handle_admin_read, forwarded, admin_raft, policy_snapshot, applied_index,
                    leader_peer, term, stale, status_snapshot, Look, waiterVars
      <3> QED
        BY <3>1, OthersWait
    <2>2. CASE forward_admin(r)
      <3>1. Forward[r] \in Calls /\ call(Forward[r])
        BY <2>2 DEF forward_admin
      <3> QED
        BY <3>1, CallWaits
    <2>3. CASE Reply(r)
      BY <2>3, AnswerWrites DEF Reply
    <2> QED
      BY <1>5, <2>1, <2>2, <2>3 DEF TaskSteps
  <1>6. ASSUME NEW id \in Calls, NEW ok \in BOOLEAN, Others(NodeReplies(id, ok))
        PROVE  WaiterShape' /\ Waiters'
    BY <1>6, ReplyArrives DEF Others
  <1>7. ASSUME NEW r \in replies, Others(read_loop(r)) PROVE WaiterShape' /\ Waiters'
    BY <1>7, ReplyArrives DEF Others
  <1>8. CASE Others(Close)
    BY <1>8, CloseWaits DEF Others
  <1>9. CASE Others(Stall) \/ Others(Activate)
    BY <1>9, OthersWait DEF Others, Stall, Activate, waiterVars
  <1>10. ASSUME NEW next, Move(next) PROVE WaiterShape' /\ Waiters'
    BY <1>10, OthersWait DEF Move, connectionVars, waiterVars
  <1>11. CASE Report \/ Done \/ UNCHANGED vars
    BY <1>11, OthersWait DEF Report, Done, vars, connectionVars, waiterVars
  <1> QED
    BY <1>1, <1>2, <1>3, <1>4, <1>5, <1>6, <1>7, <1>8, <1>9, <1>10, <1>11 DEF ReadNext

\* No call has been made yet.
LEMMA WaitersStart == ReadInit => WaiterShape /\ Waiters
  <1> SUFFICES ASSUME ReadInit PROVE WaiterShape /\ Waiters
    OBVIOUS
  <1>1. /\ caller = [id \in Calls |-> "idle"] /\ channel = [id \in Calls |-> "empty"]
        /\ pending = {} /\ written = {} /\ replies = {} /\ unmatched = {} /\ writer = None
    BY DEF ReadInit, ConnectionInit
  <1> QED
    BY <1>1 DEF WaiterShape, Waiters, Outstanding, Stages, Ended

\* The pending table does not keep the waiter of a call that has ended, for any
\* number of calls and requests (NoWaiterLeft, call_with_timeout).
THEOREM WaiterTheorem == ReadSpec => []NoWaiterLeft
  <1>1. Waiters => NoWaiterLeft
    BY DEF Waiters, NoWaiterLeft
  <1> QED
    BY <1>1, WaitersStart, WaitersStep, PTL DEF ReadSpec

\* A reply without a waiter belongs to a call that gave up, however calls,
\* replies and time-outs interleave (UnmatchedHasTimedOut, read_loop).
THEOREM ReplyTheorem == ReadSpec => []UnmatchedHasTimedOut
  <1>1. Waiters => UnmatchedHasTimedOut
    BY DEF Waiters, UnmatchedHasTimedOut
  <1> QED
    BY <1>1, WaitersStart, WaitersStep, PTL DEF ReadSpec

-----------------------------------------------------------------------------
(* Reads. *)

readVars == <<handler, raft, metrics, answer>>

\* What the proofs need of the types of the state.
ReadShape ==
    /\ handler \in [Requests -> TaskStages] /\ answer \in [Requests -> Answers]
    /\ raft \in View /\ metrics \in View

\* What one task has read, at its stage, of a replica that has applied so much.
FreshTask(stage, a, applied) ==
    /\ a.floor <= applied
    /\ stage \in {"none", "running", "calling"} => a.op \notin {"list", "status"}
    /\ a.op \in {"list", "status"} => a.floor <= a.shown /\ a.shown <= applied
    /\ a.op = "list" /\ stage # "applied" => a.shown <= a.applied
    /\ stage = "status" => a.op = "status"

\* The inductive form of ReadIsFresh and IndexCoversState: the policy a task has
\* seen is not older than the request and not newer than the replica, whose
\* applied index is read after it.
Fresh == \A r \in Requests : FreshTask(handler[r], answer[r], raft.applied)

\* Views and the empty answer are well typed.
LEMMA ViewType ==
    ASSUME NEW v \in View
    PROVE  /\ v.applied \in 0 .. MaxIndex /\ v.last \in 0 .. MaxIndex
           /\ v.leader \in 0 .. MaxTerm /\ v.term \in 0 .. MaxTerm
  BY DEF View

\* A step of one task: the others are where they were, and so is the replica.
LEMMA TaskMoves ==
    ASSUME ReadShape, Fresh, NEW r \in Requests, NEW to \in TaskStages, NEW seen \in Answers,
           handler' = [handler EXCEPT ![r] = to], answer' = [answer EXCEPT ![r] = seen],
           UNCHANGED <<raft, metrics>>, FreshTask(to, seen, raft.applied)
    PROVE  ReadShape' /\ Fresh'
  <1>1. ReadShape'
    BY DEF ReadShape
  <1>2. handler'[r] = to /\ answer'[r] = seen
        /\ \A s \in Requests \ {r} : handler'[s] = handler[s] /\ answer'[s] = answer[s]
    BY DEF ReadShape
  <1> QED
    BY <1>1, <1>2 DEF Fresh

\* Everything that leaves the tasks and the replica alone.
LEMMA OthersRead == ASSUME ReadShape, Fresh, UNCHANGED readVars PROVE ReadShape' /\ Fresh'
  BY DEF readVars, ReadShape, Fresh

\* The looks of handle_admin_read at the replica and at the metrics.
LEMMA LooksFresh ==
    ASSUME ReadShape, Fresh, NEW r \in Requests, handle_admin_read(r) \/ forwarded(r)
    PROVE  ReadShape' /\ Fresh'
  <1> DEFINE a == answer[r]
  <1>1. /\ a \in Answers /\ FreshTask(handler[r], a, raft.applied)
        /\ raft.applied \in 0 .. MaxIndex /\ metrics.applied \in 0 .. MaxIndex
        /\ metrics.leader \in 0 .. MaxTerm /\ metrics.term \in 0 .. MaxTerm
    BY ViewType DEF ReadShape, Fresh
  <1>2. ASSUME NEW from, NEW to \in TaskStages, NEW seen \in Answers, Look(r, from, to, seen),
               handler[r] = from => FreshTask(to, seen, raft.applied)
        PROVE  ReadShape' /\ Fresh'
    BY <1>2, TaskMoves, Zenon DEF Look
  <1>3. a.floor \in Int /\ a.shown \in Int /\ a.applied \in Int
    BY <1>1 DEF Answers
  <1> HIDE DEF a
  <1> USE DEF TaskStages
  <1>4. CASE admin_raft(r)
    <2> DEFINE b == [a EXCEPT !.op = "not_ready"]
    <2>1. b \in Answers /\ b.op = "not_ready" /\ b.floor = a.floor
      BY <1>1 DEF Answers
    <2>2. FreshTask("registered", b, raft.applied)
      BY <1>1, <2>1 DEF FreshTask
    <2>3. Look(r, "running", "registered", b)
      BY <1>4 DEF admin_raft, a
    <2> QED
      BY <1>2, <2>1, <2>2, <2>3
  <1>5. CASE policy_snapshot(r)
    <2>1. PICK op \in {"list", "status"} :
              Look(r, "running", "applied", [a EXCEPT !.op = op, !.shown = raft.applied])
      BY <1>5, Zenon DEF policy_snapshot, a
    <2> DEFINE b == [a EXCEPT !.op = op, !.shown = raft.applied]
    <2>2. b \in Answers /\ b.op = op /\ b.floor = a.floor /\ b.shown = raft.applied
      BY <1>1, Zenon DEF Answers
    <2>3. FreshTask("applied", b, raft.applied)
      BY <1>1, <1>3, <2>2 DEF FreshTask
    <2> QED
      BY <1>2, <2>1, <2>2, <2>3, Zenon
  <1>6. CASE applied_index(r)
    <2> DEFINE b == [a EXCEPT !.applied = raft.applied]
    <2>1. /\ b \in Answers /\ b.op = a.op /\ b.floor = a.floor /\ b.shown = a.shown
          /\ b.applied = raft.applied
      BY <1>1 DEF Answers
    <2>2. handler[r] = "applied" => FreshTask("leader", b, raft.applied)
      BY <1>1, <1>3, <2>1 DEF FreshTask
    <2>3. Look(r, "applied", "leader", b)
      BY <1>6 DEF applied_index, a
    <2> QED
      BY <1>2, <2>1, <2>2, <2>3
  <1>7. CASE leader_peer(r)
    <2> DEFINE b == [a EXCEPT !.leader = metrics.leader]
    <2>1. /\ b \in Answers /\ b.op = a.op /\ b.floor = a.floor /\ b.shown = a.shown
          /\ b.applied = a.applied
      BY <1>1 DEF Answers
    <2>2. handler[r] = "leader" => FreshTask("term", b, raft.applied)
      BY <1>1, <2>1 DEF FreshTask
    <2>3. Look(r, "leader", "term", b)
      BY <1>7 DEF leader_peer, a
    <2> QED
      BY <1>2, <2>1, <2>2, <2>3
  <1>8. CASE term(r)
    <2> DEFINE b == [a EXCEPT !.term = metrics.term]
    <2>1. /\ b \in Answers /\ b.op = a.op /\ b.floor = a.floor /\ b.shown = a.shown
          /\ b.applied = a.applied
      BY <1>1 DEF Answers
    <2>2. handler[r] = "term" => FreshTask("stale", b, raft.applied)
      BY <1>1, <2>1 DEF FreshTask
    <2>3. Look(r, "term", "stale", b)
      BY <1>8 DEF term, a
    <2> QED
      BY <1>2, <2>1, <2>2, <2>3
  <1>9. CASE stale(r)
    <2> DEFINE b == [a EXCEPT !.stale = is_stale(metrics)]
               to == IF a.op = "status" THEN "status" ELSE "registered"
    <2>1. is_stale(metrics) \in BOOLEAN
      BY DEF is_stale
    <2>2. /\ b \in Answers /\ b.op = a.op /\ b.floor = a.floor /\ b.shown = a.shown
          /\ b.applied = a.applied
      BY <1>1, <2>1 DEF Answers
    <2>3. handler[r] = "stale" => FreshTask(to, b, raft.applied)
      BY <1>1, <2>2 DEF FreshTask
    <2>4. Look(r, "stale", to, b) /\ to \in TaskStages
      BY <1>9 DEF stale, a, to, b
    <2> HIDE DEF b
    <2>5. CASE a.op = "status"
      BY <1>2, <2>2, <2>3, <2>4, <2>5
    <2>6. CASE a.op # "status"
      BY <1>2, <2>2, <2>3, <2>4, <2>6
    <2> QED
      BY <2>5, <2>6
  <1>10. CASE status_snapshot(r)
    <2> DEFINE b == [a EXCEPT !.applied = metrics.applied, !.leader = metrics.leader,
                              !.term = metrics.term, !.stale = is_stale(metrics)]
    <2>1. is_stale(metrics) \in BOOLEAN
      BY DEF is_stale
    <2>2. b \in Answers /\ b.op = a.op /\ b.floor = a.floor /\ b.shown = a.shown
      BY <1>1, <2>1, Zenon DEF Answers
    <2>3. handler[r] = "status" => FreshTask("registered", b, raft.applied)
      BY <1>1, <2>2 DEF FreshTask
    <2>4. Look(r, "status", "registered", b)
      BY <1>10 DEF status_snapshot, a
    <2> HIDE DEF b
    <2> QED
      BY <1>2, <2>2, <2>3, <2>4
  <1>11. CASE forwarded(r)
    <2> DEFINE b == [a EXCEPT !.op = "forward"]
    <2>1. b \in Answers /\ b.op = "forward" /\ b.floor = a.floor
      BY <1>1 DEF Answers
    <2>2. FreshTask("registered", b, raft.applied)
      BY <1>1, <2>1 DEF FreshTask
    <2>3. Look(r, "calling", "registered", b)
      BY <1>11 DEF forwarded, a
    <2> QED
      BY <1>2, <2>1, <2>2, <2>3
  <1> QED
    BY <1>4, <1>5, <1>6, <1>7, <1>8, <1>9, <1>10, <1>11 DEF handle_admin_read

\* A request arrives: what the replica has applied is the least a read may show.
LEMMA DispatchFresh ==
    ASSUME ReadShape, Fresh, NEW r \in Requests, Dispatch(r)
    PROVE  ReadShape' /\ Fresh'
  <1> DEFINE a == answer[r]
             b == [a EXCEPT !.floor = raft.applied]
             to == IF ctx = "none" THEN "registered" ELSE "running"
  <1>1. /\ a \in Answers /\ handler[r] = "none" /\ FreshTask("none", a, raft.applied)
        /\ raft.applied \in 0 .. MaxIndex
    BY ViewType DEF ReadShape, Fresh, Dispatch, dispatch
  <1>2. b \in Answers /\ b.op = a.op /\ b.floor = raft.applied
    BY <1>1 DEF Answers
  <1>3. to \in TaskStages /\ to \notin {"status"}
    BY DEF TaskStages
  <1>4. FreshTask(to, b, raft.applied)
    BY <1>1, <1>2, <1>3 DEF FreshTask
  <1>5. /\ handler' = [handler EXCEPT ![r] = to] /\ answer' = [answer EXCEPT ![r] = b]
        /\ UNCHANGED <<raft, metrics>>
    BY DEF Dispatch, dispatch
  <1> HIDE DEF a, b, to
  <1> QED
    BY <1>2, <1>3, <1>4, <1>5, TaskMoves, Zenon

\* A task gives its request to the leader; no policy was read.
LEMMA ForwardFresh ==
    ASSUME ReadShape, Fresh, NEW r \in Requests, forward_admin(r)
    PROVE  ReadShape' /\ Fresh'
  <1>1. answer[r] \in Answers /\ FreshTask("running", answer[r], raft.applied)
    BY DEF ReadShape, Fresh, forward_admin
  <1>2. FreshTask("calling", answer[r], raft.applied) /\ "calling" \in TaskStages
    BY <1>1 DEF FreshTask, TaskStages
  <1>3. /\ handler' = [handler EXCEPT ![r] = "calling"] /\ answer' = [answer EXCEPT ![r] = answer[r]]
        /\ UNCHANGED <<raft, metrics>>
    BY DEF forward_admin, ReadShape
  <1> QED
    BY <1>1, <1>2, <1>3, TaskMoves, Zenon

\* An answer is written, and is then gone.
LEMMA ReplyFresh ==
    ASSUME ReadShape, Fresh, NEW r \in Requests, Reply(r)
    PROVE  ReadShape' /\ Fresh'
  <1>1. r \notin Calls
    OBVIOUS
  <1>2. PICK to \in {"writing", "waiting", "failed"} :
            /\ handler' = [handler EXCEPT ![r] = to]
            /\ to = "writing" => handler[r] = "registered"
    BY <1>1, Zenon DEF Reply, write_msg, lock, encode_frame, write_frame, Enter, Stage
  <1>3. handler'[r] = to /\ UNCHANGED <<raft, metrics>>
    BY <1>2 DEF Reply, ReadShape
  <1>4. answer[r] \in Answers /\ FreshTask(handler[r], answer[r], raft.applied)
        /\ raft.applied \in 0 .. MaxIndex
    BY ViewType DEF ReadShape, Fresh
  <1>5. to \in TaskStages
    BY DEF TaskStages
  <1>6. CASE to = "writing"
    <2>1. FreshTask(to, answer[r], raft.applied)
      BY <1>2, <1>4, <1>6 DEF FreshTask
    <2>2. answer' = [answer EXCEPT ![r] = answer[r]]
      BY <1>3, <1>6 DEF Reply, ReadShape
    <2> QED
      BY <1>2, <1>3, <1>4, <1>5, <2>1, <2>2, TaskMoves, Zenon
  <1>7. CASE to # "writing"
    <2>1. Nothing \in Answers
      BY <1>4 DEF Nothing, Answers
    <2>2. FreshTask(to, Nothing, raft.applied)
      BY <1>4 DEF FreshTask, Nothing
    <2>3. answer' = [answer EXCEPT ![r] = Nothing]
      BY <1>3, <1>7 DEF Reply
    <2> QED
      BY <1>2, <1>3, <1>5, <2>1, <2>2, <2>3, TaskMoves, Zenon
  <1> QED
    BY <1>6, <1>7

\* The replica moves on and never takes an applied entry back.
LEMMA MoveFresh ==
    ASSUME ReadShape, Fresh, NEW next, Move(next), next.applied >= raft.applied
    PROVE  ReadShape' /\ Fresh'
  <1>1. ReadShape'
    BY DEF Move, ReadShape, connectionVars
  <1>2. /\ raft.applied \in Int /\ next.applied \in Int /\ raft' = next
        /\ UNCHANGED <<handler, answer>>
    BY ViewType DEF Move, ReadShape, connectionVars
  <1>3. \A r \in Requests : answer[r].floor \in Int /\ answer[r].shown \in Int
    BY DEF ReadShape, Answers
  <1> QED
    BY <1>1, <1>2, <1>3 DEF Fresh, FreshTask

\* Every step keeps what was read between the request and the replica.
LEMMA FreshStep == ReadShape /\ Fresh /\ [ReadNext]_vars => ReadShape' /\ Fresh'
  <1> SUFFICES ASSUME ReadShape, Fresh, [ReadNext]_vars PROVE ReadShape' /\ Fresh'
    OBVIOUS
  <1>1. ASSUME NEW hello \in BOOLEAN, Others(handshake(hello)) PROVE ReadShape' /\ Fresh'
    BY <1>1, OthersRead DEF Others, handshake, readVars
  <1>2. ASSUME NEW id \in Calls, Call(id) PROVE ReadShape' /\ Fresh'
    BY <1>2, OthersRead DEF Call, readVars
  <1>3. ASSUME NEW id \in Calls, CallSteps(id) PROVE ReadShape' /\ Fresh'
    <2>1. UNCHANGED readVars
      BY <1>3, Zenon DEF CallSteps, Others, write_msg, lock, encode_frame, write_frame, Enter, receive,
                  expire, remove, readVars
    <2> QED
      BY <2>1, OthersRead
  <1>4. ASSUME NEW r \in Requests, Dispatch(r) PROVE ReadShape' /\ Fresh'
    BY <1>4, DispatchFresh
  <1>5. ASSUME NEW r \in Requests, TaskSteps(r) PROVE ReadShape' /\ Fresh'
    BY <1>5, LooksFresh, ForwardFresh, ReplyFresh DEF TaskSteps
  <1>6. ASSUME NEW id \in Calls, NEW ok \in BOOLEAN, Others(NodeReplies(id, ok))
        PROVE  ReadShape' /\ Fresh'
    BY <1>6, OthersRead DEF Others, NodeReplies, readVars
  <1>7. ASSUME NEW r \in replies, Others(read_loop(r)) PROVE ReadShape' /\ Fresh'
    BY <1>7, OthersRead DEF Others, read_loop, readVars
  <1>8. CASE Others(Stall) \/ Others(Close) \/ Others(Activate)
    BY <1>8, OthersRead DEF Others, Stall, Close, Activate, readVars
  <1>9. CASE \/ Move([raft EXCEPT !.last = @ + 1]) \/ Move([raft EXCEPT !.applied = @ + 1])
             \/ Move([raft EXCEPT !.term = @ + 1, !.leader = 0])
             \/ Move([raft EXCEPT !.leader = raft.term])
    <2>1. /\ [raft EXCEPT !.last = @ + 1].applied >= raft.applied
          /\ [raft EXCEPT !.applied = @ + 1].applied >= raft.applied
          /\ [raft EXCEPT !.term = @ + 1, !.leader = 0].applied >= raft.applied
          /\ [raft EXCEPT !.leader = raft.term].applied >= raft.applied
      BY DEF ReadShape, View
    <2> QED
      BY <1>9, <2>1, MoveFresh, Zenon
  <1>10. CASE Report
    BY <1>10 DEF Report, connectionVars, ReadShape, Fresh
  <1>11. CASE Done \/ UNCHANGED vars
    BY <1>11, OthersRead DEF Done, vars, connectionVars, readVars
  <1> QED
    BY <1>1, <1>2, <1>3, <1>4, <1>5, <1>6, <1>7, <1>8, <1>9, <1>10, <1>11 DEF ReadNext

\* No request has come yet.
LEMMA FreshStart == ReadInit => ReadShape /\ Fresh
  <1> SUFFICES ASSUME ReadInit PROVE ReadShape /\ Fresh
    OBVIOUS
  <1>1. /\ handler = [r \in Requests |-> "none"] /\ answer = [r \in Requests |-> Nothing]
        /\ raft \in View /\ metrics = [applied |-> 0, last |-> 0, term |-> 1, leader |-> 1]
    BY DEF ReadInit, ConnectionInit
  <1>2. metrics \in View
    BY <1>1 DEF View
  <1>3. Nothing \in Answers
    BY DEF Nothing, Answers
  <1>4. ReadShape
    BY <1>1, <1>2, <1>3 DEF ReadShape, TaskStages
  <1>5. FreshTask("none", Nothing, raft.applied)
    BY <1>1, ViewType DEF FreshTask, Nothing
  <1> QED
    BY <1>1, <1>4, <1>5 DEF Fresh

\* A read is not older than its request, for any number of requests and calls
\* and any length of the log (ReadIsFresh, policy_snapshot).
THEOREM FreshTheorem == ReadSpec => []ReadIsFresh
  <1>1. ReadShape /\ Fresh => ReadIsFresh
    BY DEF ReadShape, Answers, Fresh, FreshTask, ReadIsFresh
  <1> QED
    BY <1>1, FreshStart, FreshStep, PTL DEF ReadSpec

\* The index in a list covers the policy next to it (IndexCoversState,
\* handle_admin_read), for any number of requests and calls.
THEOREM CoverTheorem == ReadSpec => []IndexCoversState
  <1>1. Fresh => IndexCoversState
    BY DEF Fresh, FreshTask, IndexCoversState, Answered
  <1> QED
    BY <1>1, FreshStart, FreshStep, PTL DEF ReadSpec
=============================================================================
