----------------------------- MODULE AdminRead -----------------------------
(***************************************************************************)
(* The requests a sidecar answers over its connection (module Connection): *)
(* reads of an administrator, which every sidecar answers from its own     *)
(* replica (src/service.rs handle_admin_read, src/raft/mod.rs              *)
(* status_snapshot and stale), and requests it forwards to the leader by a *)
(* call over the same connection (src/admin_v2.rs forward_admin).  A read  *)
(* puts its answer together from several looks at the replica, which moves *)
(* on in between.                                                          *)
(*                                                                         *)
(* Who may ask is module AdminEntry.  openraft is external: the state      *)
(* machine applies entries, and the metrics report later what happened.    *)
(* A leader is named by its term.                                          *)
(***************************************************************************)
EXTENDS Connection

CONSTANTS
    Forward,    \* per request: the call that forwards it, if it is not a read
    MaxIndex,   \* bound on the log
    MaxTerm     \* bound on the terms

ASSUME ReadAssumption ==
    /\ Forward \in [Requests -> Calls]
    /\ \A r, s \in Requests : Forward[r] = Forward[s] => r = s
    /\ MaxIndex \in Nat /\ MaxTerm \in Nat \ {0}

VARIABLES
    raft,       \* the replica: applied and last log index, term, leader (0: unknown)
    metrics,    \* the same, as last reported
    answer      \* per request: what its task has read

vars == <<connectionVars, raft, metrics, answer>>

Forwards == {Forward[r] : r \in Requests}

View == {v \in [applied : 0 .. MaxIndex, last : 0 .. MaxIndex, term : 1 .. MaxTerm,
                leader : 0 .. MaxTerm] :
            v.applied <= v.last /\ v.leader \in {0, v.term}}

\* The fields of an answer; floor is what was applied when the request came,
\* shown the index of the policy state in it.
Nothing == [op |-> "none", floor |-> 0, shown |-> 0, applied |-> 0, leader |-> 0, term |-> 0,
            stale |-> FALSE]

Answers == [op : {"none", "list", "status", "forward", "not_ready"}, floor : 0 .. MaxIndex,
            shown : 0 .. MaxIndex, applied : 0 .. MaxIndex, leader : 0 .. MaxTerm,
            term : 0 .. MaxTerm, stale : BOOLEAN]

\* The steps of a request's task at which others may run.
TaskStages == {"none", "running", "calling", "applied", "leader", "term", "stale", "status",
               "registered", "writing", "waiting", "failed"}

ReadTypeOK ==
    /\ ConnectionTypeOK
    /\ handler \in [Requests -> TaskStages]
    /\ raft \in View /\ metrics \in View
    /\ answer \in [Requests -> Answers]

ReadInit ==
    /\ ConnectionInit
    /\ metrics = [applied |-> 0, last |-> 0, term |-> 1, leader |-> 1]
    /\ raft \in {v \in View : v.leader = 1 /\ v.applied = v.last}
    /\ answer = [r \in Requests |-> Nothing]

-----------------------------------------------------------------------------
(* handle_admin_read. *)

Reading == \E r \in Requests : handler[r] \in {"running", "applied", "leader", "term", "stale",
                                               "status"}

Look(r, from, to, seen) ==
    /\ handler[r] = from
    /\ handler' = [handler EXCEPT ![r] = to]
    /\ answer' = [answer EXCEPT ![r] = seen]
    /\ UNCHANGED <<caller, pending, channel, writer, written, replies, unmatched, greeted,
                   stalled, open, ctx, raft, metrics>>

\* admin_raft: nothing before Raft is there.
admin_raft(r) ==
    /\ ctx # "raft"
    /\ Look(r, "running", "registered", [answer[r] EXCEPT !.op = "not_ready"])

\* Mutant of policy_snapshot: the state as of the last report.
policy_snapshot_reported(r) ==
    /\ ctx = "raft"
    /\ \E op \in {"list", "status"} :
          Look(r, "running", "applied", [answer[r] EXCEPT !.op = op, !.shown = metrics.applied])

policy_snapshot(r) ==
    /\ ctx = "raft"
    /\ \E op \in {"list", "status"} :
          Look(r, "running", "applied", [answer[r] EXCEPT !.op = op, !.shown = raft.applied])

\* Mutant of applied_index: the index as of the last report.
applied_index_reported(r) ==
    Look(r, "applied", "leader", [answer[r] EXCEPT !.applied = metrics.applied])

applied_index(r) == Look(r, "applied", "leader", [answer[r] EXCEPT !.applied = raft.applied])

leader_peer(r) == Look(r, "leader", "term", [answer[r] EXCEPT !.leader = metrics.leader])

term(r) == Look(r, "term", "stale", [answer[r] EXCEPT !.term = metrics.term])

\* No leader, or entries that are not applied yet.
is_stale(m) == m.leader = 0 \/ m.applied < m.last

stale(r) ==
    Look(r, "stale", IF answer[r].op = "status" THEN "status" ELSE "registered",
         [answer[r] EXCEPT !.stale = is_stale(metrics)])

\* status uses one report for all of it.
status_snapshot(r) ==
    Look(r, "status", "registered",
         [answer[r] EXCEPT !.applied = metrics.applied, !.leader = metrics.leader,
                           !.term = metrics.term, !.stale = is_stale(metrics)])

-----------------------------------------------------------------------------
(* Requests, calls and the replica. *)

Dispatch(r) ==
    /\ dispatch(r)
    /\ answer' = [answer EXCEPT ![r].floor = raft.applied]
    /\ UNCHANGED <<raft, metrics>>

\* A call nobody's task waits for: a publish, a join or a Raft RPC.
Call(id) ==
    /\ id \notin Forwards
    /\ call(id)
    /\ UNCHANGED <<handler, raft, metrics, answer>>

forward_admin(r) ==
    /\ handler[r] = "running" /\ ctx = "raft"
    /\ call(Forward[r])
    /\ handler' = [handler EXCEPT ![r] = "calling"]
    /\ UNCHANGED <<raft, metrics, answer>>

\* The answer of the leader, or the error of the call, is the answer.
forwarded(r) ==
    /\ handler[r] = "calling" /\ caller[Forward[r]] \in Ended
    /\ Look(r, "calling", "registered", [answer[r] EXCEPT !.op = "forward"])

handle_admin_read(r) ==
    \/ admin_raft(r) \/ policy_snapshot(r) \/ applied_index(r) \/ leader_peer(r) \/ term(r)
    \/ stale(r) \/ status_snapshot(r)

Others(step) == step /\ UNCHANGED <<raft, metrics, answer>>

\* An entry is stored, the state machine applies one, a term begins or its
\* leader is known.  What happens while no task reads is left out: the replica
\* starts ahead of its report or not.
Move(next) ==
    /\ Reading /\ next \in View
    /\ raft' = next
    /\ UNCHANGED <<connectionVars, metrics, answer>>

Report ==
    /\ Reading /\ metrics # raft
    /\ metrics' = raft
    /\ UNCHANGED <<connectionVars, raft, answer>>

Done == ~open /\ UNCHANGED vars

CallSteps(id) == Others(write_msg(id) \/ receive(id) \/ expire(id) \/ remove(id))

\* The answer is gone once it is written.
Reply(r) ==
    /\ write_msg(r)
    /\ answer' = IF handler'[r] = "writing" THEN answer ELSE [answer EXCEPT ![r] = Nothing]
    /\ UNCHANGED <<raft, metrics>>

TaskSteps(r) == handle_admin_read(r) \/ forward_admin(r) \/ forwarded(r) \/ Reply(r)

ReadNext ==
    \/ \E hello \in BOOLEAN : Others(handshake(hello))
    \/ \E id \in Calls : Call(id) \/ CallSteps(id)
    \/ \E r \in Requests : Dispatch(r) \/ TaskSteps(r)
    \/ \E id \in Calls, ok \in BOOLEAN : Others(NodeReplies(id, ok))
    \/ \E r \in replies : Others(read_loop(r))
    \/ Others(Stall) \/ Others(Close) \/ Others(Activate)
    \/ Move([raft EXCEPT !.last = @ + 1]) \/ Move([raft EXCEPT !.applied = @ + 1])
    \/ Move([raft EXCEPT !.term = @ + 1, !.leader = 0]) \/ Move([raft EXCEPT !.leader = raft.term])
    \/ Report
    \/ Done

\* The tasks are scheduled and their timers fire.  Nothing is assumed of the
\* node, and the read loop need not get anything.
ReadSpec ==
    /\ ReadInit /\ [][ReadNext]_vars
    /\ \A id \in Calls : WF_vars(CallSteps(id))
    /\ \A r \in Requests : WF_vars(TaskSteps(r))

-----------------------------------------------------------------------------
(* Properties. *)

\* A task that has put its answer together.
Answered(r) == handler[r] \in {"registered", "writing"}

\* A read shows at least what this replica had applied when the request came,
\* so whoever asks the same sidecar again never sees less than before, although
\* the reports of openraft lag behind the state machine (policy_snapshot).
ReadIsFresh ==
    \A r \in Requests :
        Answered(r) /\ answer[r].op \in {"list", "status"} => answer[r].shown >= answer[r].floor

\* The applied_index of a list is not behind the policy next to it, although
\* the two are read one after the other while entries are applied: no command
\* shows in the policy whose index the list does not cover
\* (handle_admin_read's order).
IndexCoversState ==
    \A r \in Requests :
        Answered(r) /\ answer[r].op = "list" => answer[r].shown <= answer[r].applied

\* Every request the read loop took gets its answer written, whether it was
\* forwarded, read or refused; an answer that is too large is dropped, and the
\* connection may end or the node stop reading (read_loop, write_msg).
RequestsAreAnswered ==
    \A r \in Requests :
        (handler[r] # "none") ~> (handler[r] \in {"waiting", "failed"} \/ stalled)
=============================================================================
