----------------------------- MODULE AdminEntry -----------------------------
(***************************************************************************)
(* How an administrator's signed request reaches the Raft log              *)
(* (src/service.rs, admin_v2.rs, replay.rs, ctl.rs).  Any sidecar may      *)
(* receive it; one that is not the leader checks it and forwards it, and   *)
(* the leader checks it again.  A request is signed once per attempt, with *)
(* a fresh nonce and timestamp: a copy.  The network may lose, delay and   *)
(* repeat copies and forwards, leaders change, sidecars restart and forget *)
(* the nonces they saw.                                                    *)
(*                                                                         *)
(* Publishing after the commit is module Publisher.  Signatures are taken  *)
(* to be sound: what arrives is what an administrator signed.              *)
(***************************************************************************)
EXTENDS PolicyLog, SequencesExt

CONSTANTS
    Sidecars,
    Requests,       \* what administrators ask: [op, id, kid, cmd]
    Roots,          \* the kids of role root; the others are viewers
    Skew,           \* ADMIN_MAX_TS_SKEW_SECS
    MaxSeenNonces,  \* MAX_SEEN_NONCES
    MaxCopies,      \* bound on the copies signed
    MaxNow,         \* bound on the clock
    MaxFaults       \* bound on the leader changes and restarts of sidecars together

ASSUME EntryAssumption ==
    /\ Roots \subseteq Kids
    \* publish_now commits no administrator command: it is in module Publisher.
    /\ \A req \in Requests : req.op # "publish_now"
    /\ Skew \in Nat /\ MaxSeenNonces \in Nat /\ MaxNow \in Nat
    \* 300 s against 24 h in the code; twice the skew is what matters.
    /\ DedupTtl >= 2 * Skew

VARIABLES
    leader,   \* the sidecar whose proposals Raft commits
    view,     \* the leader each sidecar believes in (its Raft metrics), or None
    sent,     \* the copies signed so far: [req, ts]; the nonce is the position
    wire,     \* forwards under way: [nonce, to]
    seen,     \* ReplayGuard.order of each sidecar
    origin,   \* the nonce behind each log entry
    reply,    \* the last answer given: [nonce, code, index]
    now,
    faults

entryVars == <<leader, view, sent, wire, seen, origin, reply, now, faults>>
vars == <<logVars, entryVars>>

ReadOps == {"status", "export_authority_pubkey", "list_services", "list_members"}
MutatingOps == {"create_service", "delete_service", "add_members", "remove_members", "set_members"}

Nonces == 1 .. Len(sent)

EntryTypeOK ==
    /\ leader \in Sidecars
    /\ view \in [Sidecars -> Sidecars \cup {None}]
    /\ sent \in Seq([req : Requests, ts : Nat])
    /\ wire \subseteq [nonce : Nonces, to : Sidecars]
    /\ \A n \in Sidecars : seen[n] \in Seq(Nonces) /\ Len(seen[n]) <= MaxSeenNonces
    /\ origin \in Seq(Nonces) /\ Len(origin) = Len(log)
    /\ reply.nonce \in 0 .. Len(sent) /\ reply.index \in 0 .. Len(log)

EntryInit ==
    /\ LogInit
    /\ leader \in Sidecars
    /\ view = [n \in Sidecars |-> leader]
    /\ sent = <<>> /\ wire = {} /\ origin = <<>> /\ now = Skew
    /\ reply = [nonce |-> 0, code |-> "none", index |-> 0]
    /\ seen = [n \in Sidecars |-> <<>>]
    /\ faults = 0

----------------------------------------------------------------------------
classify_admin_op(op) ==
    IF op \in ReadOps THEN "read"
    ELSE IF op \in MutatingOps \cup {"publish_now"} THEN "write"
    ELSE "unknown"

\* Mutant of is_root: any known key will do.
is_known(req) == req.kid \in Kids

\* The role the verified key has.
is_root(req) == req.kid \in Roots

\* Mutant of verify: the timestamp is not looked at.
verify_any_time(n, nonce) == IF nonce \in Range(seen[n]) THEN "replay" ELSE "ok"

\* The code of AdminVerifier::verify; "ok" also registers the nonce.
verify(n, nonce) ==
    IF sent[nonce].ts - now > Skew \/ now - sent[nonce].ts > Skew THEN "expired_timestamp"
    ELSE IF nonce \in Range(seen[n]) THEN "replay"
    ELSE "ok"

\* The oldest nonce makes room for the new one.
check_and_insert(order, nonce) ==
    IF Len(order) < MaxSeenNonces THEN Append(order, nonce) ELSE Append(Tail(order), nonce)

register(n, nonce, code) ==
    seen' = IF code = "ok" THEN [seen EXCEPT ![n] = check_and_insert(@, nonce)] ELSE seen

Answer(nonce, code, index) == reply' = [nonce |-> nonce, code |-> code, index |-> index]

\* The command proposed for a copy.
policy_command_for(nonce) ==
    LET req == sent[nonce].req
    IN  [op |-> "admin", id |-> req.id, hash |-> request_hash(req.kid, req.cmd),
         ts |-> sent[nonce].ts, cmd |-> req.cmd]

Refuse(nonce, code) ==
    /\ Answer(nonce, code, 0)
    /\ UNCHANGED <<logVars, origin, wire>>

\* Mutant of effective_index: the index of the retry.
effective_index_own == Len(log')

\* A duplicate is answered with the index of its first execution.
effective_index == LET result == answers'[Len(answers')]
                   IN  IF result.duplicate THEN result.index ELSE Len(log')

\* Propose and wait for apply.  A leader that lost its place while waiting is
\* told so although the entry is in the log.
execute_root_write(n, nonce) ==
    \/ /\ leader # n
       /\ Refuse(nonce, "not_leader")
    \/ /\ leader = n
       /\ Commit(policy_command_for(nonce))
       /\ origin' = Append(origin, nonce)
       /\ \/ LET code == answers'[Len(answers')].outcome.code
             IN  Answer(nonce, code, IF code = "ok" THEN effective_index ELSE 0)
          \/ Answer(nonce, "apply_timeout", 0)
       /\ UNCHANGED wire

handle_root_write(n, nonce) ==
    \/ view[n] = n /\ execute_root_write(n, nonce)
    \/ view[n] = None /\ Refuse(nonce, "no_leader")
    \/ /\ view[n] \notin {n, None}
       /\ wire' = wire \cup {[nonce |-> nonce, to |-> view[n]]}
       /\ UNCHANGED <<logVars, origin, reply>>

\* handle_admin_v2 at sidecar n.  A read is answered from the local state.
handle_admin_v2(n, nonce) ==
    LET req == sent[nonce].req
        code == verify(n, nonce)
        class == classify_admin_op(req.op)
    IN  /\ register(n, nonce, code)
        /\ \/ code # "ok" /\ Refuse(nonce, code)
           \/ code = "ok" /\ class # "write" /\ Refuse(nonce, class)
           \/ /\ code = "ok" /\ class = "write"
              /\ IF is_root(req) THEN handle_root_write(n, nonce)
                                      ELSE Refuse(nonce, "forbidden_role")
        /\ UNCHANGED <<leader, view, sent, now, faults>>

\* handle_forwarded_admin at sidecar n: it never forwards again.
handle_forwarded_admin(n, nonce) ==
    LET req == sent[nonce].req
        code == verify(n, nonce)
    IN  /\ [nonce |-> nonce, to |-> n] \in wire
        /\ \/ view[n] # n /\ Refuse(nonce, "not_leader") /\ seen' = seen
           \/ /\ view[n] = n
              /\ register(n, nonce, code)
              /\ IF code # "ok" THEN Refuse(nonce, code)
                 ELSE IF ~is_root(req) THEN Refuse(nonce, "forbidden_role")
                 ELSE IF classify_admin_op(req.op) # "write" THEN Refuse(nonce, "bad_request")
                 ELSE execute_root_write(n, nonce)
        /\ UNCHANGED <<leader, view, sent, now, faults>>

\* nexusauthctl signs a copy, the first or a retry.  Its clock may be off by
\* up to Skew.  From then on the copy may reach any sidecar at any time.
send_request(req, ts) ==
    /\ Len(sent) < MaxCopies
    /\ sent' = Append(sent, [req |-> req, ts |-> ts])
    /\ UNCHANGED <<logVars, leader, view, wire, seen, origin, reply, now, faults>>

Elect(n) ==
    /\ faults < MaxFaults /\ n # leader
    /\ leader' = n
    /\ faults' = faults + 1
    /\ UNCHANGED <<logVars, view, sent, wire, seen, origin, reply, now>>

Observe(n) ==
    /\ view[n] # leader
    /\ view' = [view EXCEPT ![n] = leader]
    /\ UNCHANGED <<logVars, leader, sent, wire, seen, origin, reply, now, faults>>

\* The guard of nonces is in memory only.
Restart(n) ==
    /\ faults < MaxFaults
    /\ faults' = faults + 1
    /\ seen' = [seen EXCEPT ![n] = <<>>]
    /\ view' = [view EXCEPT ![n] = None]
    /\ UNCHANGED <<logVars, leader, sent, wire, origin, reply, now>>

Tick ==
    /\ now < MaxNow
    /\ now' = now + 1
    /\ UNCHANGED <<logVars, leader, view, sent, wire, seen, origin, reply, faults>>

EntryNext ==
    \/ \E req \in Requests, ts \in (now - Skew) .. (now + Skew) : send_request(req, ts)
    \/ \E n \in Sidecars, nonce \in Nonces :
           \/ handle_admin_v2(n, nonce)
           \/ handle_forwarded_admin(n, nonce)
    \/ \E n \in Sidecars : Elect(n) \/ Observe(n) \/ Restart(n)
    \/ Tick

EntrySpec == EntryInit /\ [][EntryNext]_vars

----------------------------------------------------------------------------
(***************************************************************************)
(* Properties.                                                             *)
(***************************************************************************)

\* A signed copy takes effect at most once, though it may be repeated to any
\* sidecar, the guards of nonces are bounded, forgotten at a restart and not
\* shared, and the leader changes: a copy young enough to be accepted is still
\* in the dedup table (verify, check_and_insert, prune_dedup).
CopyTakesEffectOnce ==
    \A i, j \in DOMAIN log : origin[i] = origin[j] /\ Executed(i) /\ Executed(j) => i = j

\* An answer "ok" names the log entry that executed this very request, also
\* when it answers a retry (effective_index in execute_root_write).
OkNamesItsEntry ==
    reply.code = "ok" =>
        LET req == sent[reply.nonce].req
        IN  /\ reply.index \in DOMAIN log
            /\ Executed(reply.index)
            /\ log[reply.index].id = req.id
            /\ log[reply.index].hash = request_hash(req.kid, req.cmd)

\* Whichever sidecar a request entered by and whoever led, what is in the log
\* was asked by a root, never by a viewer (handle_admin_v2, handle_root_write,
\* handle_forwarded_admin).
OnlyRootsWrite == \A i \in DOMAIN log : log[i].hash[1] \in Roots
=============================================================================
