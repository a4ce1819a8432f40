------------------------------- MODULE Startup -------------------------------
(***************************************************************************)
(* How a sidecar comes up (src/main.rs, src/runtime.rs, the                *)
(* lifecycle in src/connection.rs, attempt in src/join.rs): a              *)
(* process without the authority key takes key and state from another      *)
(* sidecar over the first node connection that serves, a watchdog ends it  *)
(* when that takes too long, and in cluster mode the first connection that *)
(* answers whoami starts the Raft runtime.  Each connection has a task of  *)
(* its own; the node may come and go, and the process may crash.           *)
(*                                                                         *)
(* The sidecars asked to join are external, but what they answer is        *)
(* respond's: key and state, to whoever knows the password.  Proofs and    *)
(* encryption are taken to be sound, and every request has a new nonce.    *)
(***************************************************************************)
EXTENDS Integers, FiniteSets

CONSTANTS
    Conns,            \* the connections the node makes, one after the other or not
    None,
    Modes,            \* the values of [cluster].enabled to start with
    Peers,            \* the other sidecars discover_providers finds
    Willing,          \* those of them with allow_join, the same password and an authority
    KeyOf,            \* per peer: the authority it serves
    IndexKey,         \* the authority that signed the index in the DHT, or None
    MaxCrashes        \* bound on the crashes of the process

ASSUME StartupAssumption ==
    /\ Modes \subseteq BOOLEAN /\ MaxCrashes \in Nat
    /\ None \notin Conns \cup Peers /\ Willing \subseteq Peers
    /\ Peers \cap {"none", "own"} = {}

VARIABLES
    cluster,    \* [cluster].enabled, the same for every start of the process
    stage,      \* per connection: how far handle_connection is
    up,         \* per connection: it has not ended
    clients,    \* the connections registered with the publisher
    ready,      \* the context is active
    raft,       \* the connection whose client the Raft runtime uses, or None
    starts,     \* Raft runtimes started by this process
    late,       \* join_timeout_secs have passed since the process started
    exited,     \* the watchdog has ended the process
    left,       \* the candidates that the join under way has not asked yet
    answer,     \* the peer whose answer it has opened, or None
    disk,       \* whose key and state the files hold: a peer's, or the sidecar's own state
    crashes

files == <<left, answer, disk>>
vars == <<cluster, stage, up, clients, ready, raft, starts, late, exited, files, crashes>>

Stages == {"new", "open", "joining", "asking", "saving", "failed", "ready", "starting", "started", "served",
           "unserved", "gone"}

StartupTypeOK ==
    /\ cluster \in Modes
    /\ stage \in [Conns -> Stages] /\ up \in [Conns -> BOOLEAN]
    /\ clients \subseteq {c \in Conns : stage[c] = "served"}
    /\ ready \in BOOLEAN /\ late \in BOOLEAN /\ exited \in BOOLEAN
    /\ raft \in Conns \cup {None} /\ starts \in 0 .. Cardinality(Conns)
    /\ left \subseteq Peers /\ answer \in Peers \cup {None}
    /\ disk \in [key : Peers \cup {None}, state : Peers \cup {"none", "own"}]
    /\ crashes \in 0 .. MaxCrashes

\* load_or_create: without a state file the store begins with the
\* configuration's members.
load_or_create(d) == IF d.state = "none" THEN [d EXCEPT !.state = "own"] ELSE d

\* build_initial: ready at once with a key, or in cluster mode; else a node
\* connection is needed to join (join_mode = require).
build_initial(d) ==
    /\ ready' = (d.key # None \/ cluster)
    /\ disk' = IF d.key # None \/ cluster THEN load_or_create(d) ELSE d

StartupInit ==
    /\ cluster \in Modes
    /\ stage = [c \in Conns |-> "new"] /\ up = [c \in Conns |-> FALSE]
    /\ clients = {} /\ raft = None /\ starts = 0
    /\ late = FALSE /\ exited = FALSE /\ crashes = 0
    /\ ready = cluster /\ left = {} /\ answer = None
    /\ disk = [key |-> None, state |-> IF cluster THEN "own" ELSE "none"]

Goes(c, from, to) == ~exited /\ stage[c] = from /\ stage' = [stage EXCEPT ![c] = to]

Joining == {"joining", "asking", "saving", "failed"}

join_lock == \E c \in Conns : stage[c] \in Joining

raft_start_lock == \E c \in Conns : stage[c] \in {"starting", "started"}

-----------------------------------------------------------------------------
(* The node (external). *)

accept(c) ==
    /\ Goes(c, "new", "open")
    /\ up' = [up EXCEPT ![c] = TRUE]
    /\ UNCHANGED <<cluster, clients, ready, raft, starts, late, exited, files, crashes>>

Close(c) ==
    /\ up[c]
    /\ up' = [up EXCEPT ![c] = FALSE]
    /\ UNCHANGED <<cluster, stage, clients, ready, raft, starts, late, exited, files, crashes>>

-----------------------------------------------------------------------------
(* handle_connection: ensure_ready. *)

\* Ready before, or when the lock was taken; else this connection joins.
ensure_ready(c) ==
    /\ \/ ready /\ Goes(c, "open", "ready")
       \/ ~ready /\ ~join_lock /\ Goes(c, "open", "joining")
    /\ UNCHANGED <<cluster, up, clients, ready, raft, starts, late, exited, files, crashes>>

\* join::attempt starts with the providers found, without the sidecar itself.
attempt(c) ==
    /\ \/ Goes(c, "joining", "asking") /\ left' = Peers /\ up[c]
       \/ Goes(c, "joining", "failed") /\ left' = {}
    /\ UNCHANGED <<cluster, up, clients, ready, raft, starts, late, exited, answer,
                   disk, crashes>>

\* Peer p knows the password, the request is of now and its nonce is new.
verify_request(p) == p \in Willing

\* Key and state of p, sealed for this request.
make_response(p) == [key |-> KeyOf[p], state |-> p]

respond(p) == IF verify_request(p) THEN make_response(p) ELSE None

\* An answer to this request by somebody who knows the password.
open_response(resp) == resp # None

\* The index, where the DHT has one, is signed by the authority in the answer.
verify_against_dht(resp) == IndexKey \in {None, resp.key}

\* Mutant of write_key: a key that is there already stays.
write_key_once(p) == disk' = IF disk.key = None THEN [disk EXCEPT !.key = p] ELSE disk

write_key(p) == disk' = [disk EXCEPT !.key = p]

\* Candidate p answers, and its key is written before its state; a DHT that
\* does not answer is not waited for.
take_key(c, p, queried) ==
    /\ up[c] /\ p \in left /\ open_response(respond(p))
    /\ queried => verify_against_dht(respond(p))
    /\ Goes(c, "asking", "saving")
    /\ write_key(p)
    /\ left' = {} /\ answer' = p
    /\ UNCHANGED <<cluster, up, clients, ready, raft, starts, late, exited, crashes>>

\* Candidate p does not answer, or with an error or another network's key.
skip(c, p) ==
    /\ stage[c] = "asking" /\ ~exited /\ p \in left
    /\ left' = left \ {p}
    /\ UNCHANGED <<cluster, stage, up, clients, ready, raft, starts, late, exited,
                   answer, disk, crashes>>

\* No candidate is left, or the key cannot be written.
fail(c) ==
    /\ left = {} \/ (\E p \in left : open_response(respond(p)))
    /\ Goes(c, "asking", "failed")
    /\ left' = {}
    /\ UNCHANGED <<cluster, up, clients, ready, raft, starts, late, exited, answer,
                   disk, crashes>>

\* Store::from_snapshot writes the state, and the context is activated; or the
\* write fails, and the key stays.
activate(c) ==
    /\ \/ /\ Goes(c, "saving", "ready")
          /\ disk' = [disk EXCEPT !.state = answer] /\ ready' = TRUE
       \/ Goes(c, "saving", "failed") /\ UNCHANGED <<disk, ready>>
    /\ answer' = None
    /\ UNCHANGED <<cluster, up, clients, raft, starts, late, exited, left, crashes>>

\* The attempt failed: after the deadline the connection goes without, before
\* it the loop tries again with the same one.
give_up(c) ==
    /\ Goes(c, "failed", IF late THEN "unserved" ELSE "joining")
    /\ UNCHANGED <<cluster, up, clients, ready, raft, starts, late, exited, files, crashes>>

-----------------------------------------------------------------------------
(* handle_connection: ensure_raft, and the publisher's list of clients. *)

serve(c) == clients' = clients \cup {c}

\* Mutant of ensure_raft: Raft is looked for only before the lock is taken.
ensure_raft_unlocked(c) ==
    /\ \/ (~cluster \/ raft # None) /\ Goes(c, "ready", "served") /\ serve(c)
       \/ cluster /\ raft = None /\ Goes(c, "ready", "starting") /\ UNCHANGED clients
    /\ UNCHANGED <<cluster, up, ready, raft, starts, late, exited, files, crashes>>

\* Nothing to do, before or once the lock is taken; or this connection starts
\* Raft while it holds the lock.
ensure_raft(c) ==
    /\ \/ (~cluster \/ raft # None) /\ Goes(c, "ready", "served") /\ serve(c)
       \/ /\ cluster /\ raft = None /\ ~raft_start_lock
          /\ Goes(c, "ready", "starting") /\ UNCHANGED clients
    /\ UNCHANGED <<cluster, up, ready, raft, starts, late, exited, files, crashes>>

\* RaftRuntime::start with this connection's client; whoami needs the node.
start(c) ==
    /\ up[c]
    /\ Goes(c, "starting", "started")
    /\ starts' = starts + 1
    /\ UNCHANGED <<cluster, up, clients, ready, raft, late, exited, files, crashes>>

\* start failed: only a warning; the next connection tries again.
start_failed(c) ==
    /\ Goes(c, "starting", "served") /\ serve(c)
    /\ UNCHANGED <<cluster, up, ready, raft, starts, late, exited, files, crashes>>

\* try_join has been done, with whatever result; the runtime is published.
set_raft(c) ==
    /\ Goes(c, "started", "served") /\ serve(c)
    /\ raft' = c
    /\ UNCHANGED <<cluster, up, ready, starts, late, exited, files, crashes>>

\* Mutant of unregister: the publisher keeps the connection.
unregister_keep(c) ==
    /\ ~up[c]
    /\ Goes(c, "served", "gone") \/ Goes(c, "unserved", "gone")
    /\ UNCHANGED <<cluster, up, clients, ready, raft, starts, late, exited, files, crashes>>

\* The read loop has ended.
unregister(c) ==
    /\ ~up[c]
    /\ Goes(c, "served", "gone") \/ Goes(c, "unserved", "gone")
    /\ clients' = clients \ {c}
    /\ UNCHANGED <<cluster, up, ready, raft, starts, late, exited, files, crashes>>

-----------------------------------------------------------------------------
(* The process: the join timeout, the watchdog, a crash and the next start. *)

Deadline ==
    /\ ~late /\ ~ready /\ late' = TRUE
    /\ UNCHANGED <<cluster, stage, up, clients, ready, raft, starts, exited, files, crashes>>

\* Mutant of watchdog: the process ends only when a connection has failed to join.
watchdog_after_join ==
    /\ late /\ ~ready /\ ~exited /\ \E c \in Conns : stage[c] = "unserved"
    /\ exited' = TRUE
    /\ UNCHANGED <<cluster, stage, up, clients, ready, raft, starts, late, files, crashes>>

watchdog ==
    /\ late /\ ~ready /\ ~exited
    /\ exited' = TRUE
    /\ UNCHANGED <<cluster, stage, up, clients, ready, raft, starts, late, files, crashes>>

\* The process is started again; the node has connections left to make.
Crash ==
    /\ crashes < MaxCrashes
    /\ crashes' = crashes + 1
    /\ stage' = [c \in Conns |-> IF stage[c] = "new" THEN "new" ELSE "gone"]
    /\ up' = [c \in Conns |-> FALSE]
    /\ clients' = {} /\ raft' = None /\ starts' = 0 /\ late' = FALSE /\ exited' = FALSE
    /\ left' = {} /\ answer' = None
    /\ build_initial(disk)
    /\ UNCHANGED cluster

Settled ==
    /\ \A c \in Conns : stage[c] \in {"served", "unserved", "gone"} \/ exited
    /\ UNCHANGED vars

Steps(c) ==
    \/ ensure_ready(c) \/ attempt(c) \/ (\E p \in Peers : skip(c, p)) \/ fail(c)
    \/ activate(c) \/ give_up(c)
    \/ ensure_raft(c) \/ start(c) \/ start_failed(c) \/ set_raft(c) \/ unregister(c)

StartupNext ==
    \/ \E c \in Conns : accept(c) \/ Close(c) \/ Steps(c)
    \/ \E c \in Conns, p \in Peers, queried \in BOOLEAN : take_key(c, p, queried)
    \/ Deadline \/ watchdog \/ Crash \/ Settled

\* The connections' tasks are scheduled and the timers fire.  Nothing is
\* assumed of the node and of the sidecars asked to join, so not of take_key.
StartupSpec ==
    /\ StartupInit /\ [][StartupNext]_vars
    /\ \A c \in Conns : WF_vars(Steps(c))
    /\ WF_vars(Deadline) /\ WF_vars(watchdog)

-----------------------------------------------------------------------------
(* Properties. *)

\* However many connections come up at once, a process starts one Raft runtime
\* (its database cannot be opened twice): the second look under the lock
\* (ensure_raft).
RaftStartsOnce == starts <= 1

\* A connection that has ended does not stay with the publisher, also when it
\* ended while its task was joining or starting Raft (handle_connection).
DeadClientsLeave == \A c \in Conns : (c \in clients /\ ~up[c]) ~> (c \notin clients)

\* A process that has no key gets ready or ends: it does not wait for ever,
\* whether no node connects, joining fails or a dead connection holds the lock
\* (ensure_ready, the watchdog of main).
ReadyOrExit == []<>(ready \/ exited)

\* A sidecar whose state came from another one has the key of the same one:
\* an attempt that wrote the key and failed to write the state, or a crash in
\* between, never lets a later attempt combine the two (join::attempt).
KeyAndStateAgree == disk.state \in Peers => disk.key = disk.state
=============================================================================
