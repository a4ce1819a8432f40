--------------------------- MODULE StartupProofs ---------------------------
(***************************************************************************)
(* Starting up, for any number of connections, peers and crashes.          *)
(***************************************************************************)
EXTENDS Startup, TLAPS

USE StartupAssumption

\* What the proofs need of the types of the state.
Shape ==
    /\ stage \in [Conns -> Stages]
    /\ raft \in Conns \cup {None} /\ answer \in Peers \cup {None}
    /\ disk \in [key : Peers \cup {None}, state : Peers \cup {"none", "own"}]

Starting == {"starting", "started"}

\* The inductive form of RaftStartsOnce: the connection that holds the lock is
\* alone, no Raft runtime is published before it is done, and a runtime that
\* was started is published or still with that connection.
OneStarts ==
    /\ \A c, d \in Conns : stage[c] \in Starting /\ stage[d] \in Starting => c = d
    /\ \A c \in Conns : stage[c] \in Starting => raft = None
    /\ \A c \in Conns : stage[c] = "starting" => starts = 0
    /\ starts \in {0, 1}
    /\ starts = 1 => raft # None \/ \E c \in Conns : stage[c] = "started"

\* The inductive form of KeyAndStateAgree: one connection joins at a time, only
\* while the context is not active, and a fetched state makes it active; the
\* answer whose state is still to be written is that of the key on disk.
OneJoins ==
    /\ \A c, d \in Conns : stage[c] \in Joining /\ stage[d] \in Joining => c = d
    /\ \A c \in Conns : stage[c] \in Joining => ~ready
    /\ \A c \in Conns : stage[c] = "saving" => answer = disk.key /\ disk.key # None
    /\ disk.state \in Peers => ready /\ disk.key = disk.state

\* Every step keeps the types: a state that is written is that of a peer.
LEMMA ShapeStep == Shape /\ OneJoins /\ [StartupNext]_vars => Shape'
  <1> SUFFICES ASSUME Shape, OneJoins, [StartupNext]_vars PROVE Shape'
    OBVIOUS
  <1> USE DEF Shape, Stages, Goes, files
  <1>1. ASSUME NEW c \in Conns, accept(c) PROVE Shape'
    BY <1>1 DEF accept
  <1>2. ASSUME NEW c \in Conns, Close(c) PROVE Shape'
    BY <1>2 DEF Close
  <1>3. ASSUME NEW c \in Conns, ensure_ready(c) PROVE Shape'
    BY <1>3 DEF ensure_ready
  <1>4. ASSUME NEW c \in Conns, attempt(c) PROVE Shape'
    BY <1>4 DEF attempt
  <1>5. ASSUME NEW c \in Conns, NEW p \in Peers, skip(c, p) PROVE Shape'
    BY <1>5 DEF skip
  <1>6. ASSUME NEW c \in Conns, fail(c) PROVE Shape'
    BY <1>6 DEF fail
  <1>7. ASSUME NEW c \in Conns, activate(c) PROVE Shape'
    BY <1>7 DEF activate, OneJoins
  <1>8. ASSUME NEW c \in Conns, give_up(c) PROVE Shape'
    BY <1>8 DEF give_up
  <1>9. ASSUME NEW c \in Conns, ensure_raft(c) PROVE Shape'
    BY <1>9 DEF ensure_raft
  <1>10. ASSUME NEW c \in Conns, start(c) PROVE Shape'
    BY <1>10 DEF start
  <1>11. ASSUME NEW c \in Conns, start_failed(c) PROVE Shape'
    BY <1>11 DEF start_failed
  <1>12. ASSUME NEW c \in Conns, set_raft(c) PROVE Shape'
    BY <1>12 DEF set_raft
  <1>13. ASSUME NEW c \in Conns, unregister(c) PROVE Shape'
    BY <1>13 DEF unregister
  <1>14. ASSUME NEW c \in Conns, NEW p \in Peers, NEW queried \in BOOLEAN, take_key(c, p, queried)
         PROVE  Shape'
    BY <1>14 DEF take_key, write_key
  <1>15. CASE Deadline
    BY <1>15 DEF Deadline
  <1>16. CASE watchdog
    BY <1>16 DEF watchdog
  <1>17. CASE Crash
    BY <1>17 DEF Crash, build_initial, load_or_create
  <1>18. CASE UNCHANGED vars
    BY <1>18 DEF vars
  <1> HIDE DEF Shape, Stages, Goes, files
  <1> QED
    BY <1>1, <1>2, <1>3, <1>4, <1>5, <1>6, <1>7, <1>8, <1>9, <1>10, <1>11, <1>12, <1>13, <1>14,
       <1>15, <1>16, <1>17, <1>18, Zenon DEF StartupNext, Steps, Settled

\* One connection at a time starts Raft, and not after it was started.
LEMMA OneStartsStep == Shape /\ OneStarts /\ [StartupNext]_vars => OneStarts'
  <1> SUFFICES ASSUME Shape, OneStarts, [StartupNext]_vars PROVE OneStarts'
    OBVIOUS
  <1> USE DEF Shape, Stages, Goes, OneStarts, Starting
  \* A connection that moves between stages outside the lock.
  <1>0. ASSUME NEW c \in Conns, NEW to \in Stages \ Starting, stage[c] \notin Starting,
               stage' = [stage EXCEPT ![c] = to], UNCHANGED <<raft, starts>>
        PROVE  OneStarts'
    BY <1>0
  <1>1. ASSUME NEW c \in Conns, accept(c) PROVE OneStarts'
    BY <1>0, <1>1 DEF accept
  <1>2. ASSUME NEW c \in Conns, Close(c) PROVE OneStarts'
    BY <1>2 DEF Close
  <1>3. ASSUME NEW c \in Conns, ensure_ready(c) PROVE OneStarts'
    BY <1>0, <1>3 DEF ensure_ready
  <1>4. ASSUME NEW c \in Conns, attempt(c) PROVE OneStarts'
    BY <1>0, <1>4 DEF attempt
  <1>5. ASSUME NEW c \in Conns, NEW p \in Peers, skip(c, p) PROVE OneStarts'
    BY <1>5 DEF skip
  <1>6. ASSUME NEW c \in Conns, fail(c) PROVE OneStarts'
    BY <1>0, <1>6 DEF fail
  <1>7. ASSUME NEW c \in Conns, activate(c) PROVE OneStarts'
    BY <1>0, <1>7 DEF activate
  <1>8. ASSUME NEW c \in Conns, give_up(c) PROVE OneStarts'
    BY <1>0, <1>8 DEF give_up
  <1>9. ASSUME NEW c \in Conns, ensure_raft(c) PROVE OneStarts'
    <2>1. CASE Goes(c, "ready", "served")
      BY <1>0, <1>9, <2>1 DEF ensure_raft
    <2>2. CASE raft = None /\ ~raft_start_lock /\ Goes(c, "ready", "starting")
      BY <1>9, <2>2 DEF ensure_raft, raft_start_lock
    <2> QED
      BY <1>9, <2>1, <2>2 DEF ensure_raft
  <1>10. ASSUME NEW c \in Conns, start(c) PROVE OneStarts'
    BY <1>10 DEF start
  <1>11. ASSUME NEW c \in Conns, start_failed(c) PROVE OneStarts'
    BY <1>11 DEF start_failed
  <1>12. ASSUME NEW c \in Conns, set_raft(c) PROVE OneStarts'
    BY <1>12 DEF set_raft
  <1>13. ASSUME NEW c \in Conns, unregister(c) PROVE OneStarts'
    BY <1>0, <1>13 DEF unregister
  <1>14. ASSUME NEW c \in Conns, NEW p \in Peers, NEW queried \in BOOLEAN, take_key(c, p, queried)
         PROVE  OneStarts'
    BY <1>0, <1>14 DEF take_key
  <1>15. CASE Deadline
    BY <1>15 DEF Deadline
  <1>16. CASE watchdog
    BY <1>16 DEF watchdog
  <1>17. CASE Crash
    BY <1>17 DEF Crash
  <1>18. CASE UNCHANGED vars
    BY <1>18 DEF vars
  <1> HIDE DEF Shape, Stages, Goes, OneStarts, Starting
  <1> QED
    BY <1>1, <1>2, <1>3, <1>4, <1>5, <1>6, <1>7, <1>8, <1>9, <1>10, <1>11, <1>12, <1>13, <1>14,
       <1>15, <1>16, <1>17, <1>18, Zenon DEF StartupNext, Steps, Settled

\* One connection at a time joins, and its key and state are of one peer.
LEMMA OneJoinsStep == Shape /\ OneJoins /\ [StartupNext]_vars => OneJoins'
  <1> SUFFICES ASSUME Shape, OneJoins, [StartupNext]_vars PROVE OneJoins'
    OBVIOUS
  <1> USE DEF Shape, Stages, Goes, files, OneJoins, Joining
  \* A connection that moves between stages outside the lock.
  <1>0. ASSUME NEW c \in Conns, NEW to \in Stages \ Joining, stage[c] \notin Joining,
               stage' = [stage EXCEPT ![c] = to], UNCHANGED <<ready, answer, disk>>
        PROVE  OneJoins'
    BY <1>0
  <1>1. ASSUME NEW c \in Conns, accept(c) PROVE OneJoins'
    BY <1>0, <1>1 DEF accept
  <1>2. ASSUME NEW c \in Conns, Close(c) PROVE OneJoins'
    BY <1>2 DEF Close
  <1>3. ASSUME NEW c \in Conns, ensure_ready(c) PROVE OneJoins'
    <2>1. CASE Goes(c, "open", "ready")
      BY <1>0, <1>3, <2>1 DEF ensure_ready
    <2>2. CASE ~ready /\ ~join_lock /\ Goes(c, "open", "joining")
      BY <1>3, <2>2 DEF ensure_ready, join_lock
    <2> QED
      BY <1>3, <2>1, <2>2 DEF ensure_ready
  <1>4. ASSUME NEW c \in Conns, attempt(c) PROVE OneJoins'
    BY <1>4 DEF attempt
  <1>5. ASSUME NEW c \in Conns, NEW p \in Peers, skip(c, p) PROVE OneJoins'
    BY <1>5 DEF skip
  <1>6. ASSUME NEW c \in Conns, fail(c) PROVE OneJoins'
    BY <1>6 DEF fail
  <1>7. ASSUME NEW c \in Conns, activate(c) PROVE OneJoins'
    <2>1. CASE Goes(c, "saving", "ready") /\ disk' = [disk EXCEPT !.state = answer] /\ ready'
      <3>1. \A d \in Conns : stage'[d] \notin Joining
        BY <2>1
      <3>2. disk'.state = disk'.key
        BY <2>1
      <3> QED
        BY <2>1, <3>1, <3>2
    <2>2. CASE Goes(c, "saving", "failed") /\ UNCHANGED <<disk, ready>>
      BY <2>2
    <2> QED
      BY <1>7, <2>1, <2>2 DEF activate
  <1>8. ASSUME NEW c \in Conns, give_up(c) PROVE OneJoins'
    BY <1>8 DEF give_up
  <1>9. ASSUME NEW c \in Conns, ensure_raft(c) PROVE OneJoins'
    BY <1>0, <1>9 DEF ensure_raft
  <1>10. ASSUME NEW c \in Conns, start(c) PROVE OneJoins'
    BY <1>0, <1>10 DEF start
  <1>11. ASSUME NEW c \in Conns, start_failed(c) PROVE OneJoins'
    BY <1>0, <1>11 DEF start_failed
  <1>12. ASSUME NEW c \in Conns, set_raft(c) PROVE OneJoins'
    BY <1>0, <1>12 DEF set_raft
  <1>13. ASSUME NEW c \in Conns, unregister(c) PROVE OneJoins'
    BY <1>0, <1>13 DEF unregister
  <1>14. ASSUME NEW c \in Conns, NEW p \in Peers, NEW queried \in BOOLEAN, take_key(c, p, queried)
         PROVE  OneJoins'
    <2>1. ~ready /\ disk.state \notin Peers
      BY <1>14 DEF take_key
    <2>2. disk'.key = p /\ disk'.state = disk.state /\ answer' = p /\ p # None
      BY <1>14 DEF take_key, write_key
    <2> QED
      BY <1>14, <2>1, <2>2 DEF take_key
  <1>15. CASE Deadline
    BY <1>15 DEF Deadline
  <1>16. CASE watchdog
    BY <1>16 DEF watchdog
  <1>17. CASE Crash
    <2>1. \A c \in Conns : stage'[c] \notin Joining
      BY <1>17 DEF Crash
    <2>2. disk'.state \in Peers => disk' = disk /\ disk.state \in Peers
      BY <1>17 DEF Crash, build_initial, load_or_create
    <2>3. disk.state \in Peers => disk.key # None
      OBVIOUS
    <2>4. disk.key # None => ready'
      BY <1>17, Zenon DEF Crash, build_initial
    <2> QED
      BY <2>1, <2>2, <2>3, <2>4
  <1>18. CASE UNCHANGED vars
    BY <1>18 DEF vars
  <1> HIDE DEF Shape, Stages, Goes, files, OneJoins, Joining
  <1> QED
    BY <1>1, <1>2, <1>3, <1>4, <1>5, <1>6, <1>7, <1>8, <1>9, <1>10, <1>11, <1>12, <1>13, <1>14,
       <1>15, <1>16, <1>17, <1>18, Zenon DEF StartupNext, Steps, Settled

\* A process that has just been started for the first time.
LEMMA StartupStart == StartupInit => Shape /\ OneStarts /\ OneJoins
  BY DEF StartupInit, Shape, Stages, OneStarts, Starting, OneJoins, Joining

\* A process starts one Raft runtime, however many connections come up at once
\* and whenever they end (RaftStartsOnce, ensure_raft).
THEOREM StartTheorem == StartupSpec => []RaftStartsOnce
  <1>1. OneStarts => RaftStartsOnce
    BY DEF OneStarts, RaftStartsOnce
  <1> QED
    BY <1>1, StartupStart, ShapeStep, OneStartsStep, OneJoinsStep, PTL DEF StartupSpec

\* Key and state that were fetched are of one peer, for any peers, answers,
\* failed writes and crashes (KeyAndStateAgree, join::attempt).
THEOREM KeyTheorem == StartupSpec => []KeyAndStateAgree
  <1>1. OneJoins => KeyAndStateAgree
    BY DEF OneJoins, KeyAndStateAgree
  <1> QED
    BY <1>1, StartupStart, ShapeStep, OneJoinsStep, PTL DEF StartupSpec
=============================================================================
