------------------------- MODULE PolicyRetryProofs -------------------------
(***************************************************************************)
(* Retried administrator requests: the dedup table and the committed log   *)
(* stay in step, whatever the commands and the bounds of the table.        *)
(***************************************************************************)
EXTENDS PolicyLogProofs

\* Entry i is the one request q has a record of in the table.
Names(table, q, i) ==
    /\ i = table[q].index /\ Executed(i) /\ log[i].id = q
    /\ log[i].hash = table[q].hash /\ log[i].ts = table[q].ts
    /\ answers[i] = FirstAnswer(table[q].outcome, table[q].epoch, i)

\* A record is the answer of one of the n entries committed.
Recorded(table, q, n) == table[q] # None => \E i \in 1 .. n : Names(table, q, i)

\* An entry that was executed and is not forgotten has its record.
Kept(table, i, n) ==
    Executed(i) /\ ~Forgotten(i, n + 1)
        => table[log[i].id] # None /\ table[log[i].id].index = i

\* What the dedup table holds, and what it still has to hold.
Remembered ==
    \A n \in {Len(log)} : \A table \in {states[n + 1].dedup} :
        /\ \A q \in RequestIds : Recorded(table, q, n)
        /\ \A i \in 1 .. n : Kept(table, i, n)

\* What Remembered says before a commit.
LEMMA RememberedNow ==
    ASSUME LogTypeOK, Remembered, NEW n \in Nat, n = Len(log) + 1,
           NEW table, table = states[n].dedup
    PROVE  /\ \A q \in RequestIds : Recorded(table, q, n - 1)
           /\ \A i \in 1 .. (n - 1) : Kept(table, i, n - 1)
  <1>1. n - 1 \in {Len(log)} /\ table \in {states[(n - 1) + 1].dedup}
    BY DEF LogTypeOK
  <1> QED
    BY <1>1, Zenon DEF Remembered

\* What is left to show after a commit.
LEMMA RememberedNext ==
    ASSUME NEW n \in Nat, Len(log') = n, NEW table, table = states'[n + 1].dedup,
           \A q \in RequestIds : Recorded(table, q, n)',
           \A i \in 1 .. n : Kept(table, i, n)'
    PROVE  Remembered'
  <1>1. ASSUME NEW m \in {Len(log')}, NEW u \in {states'[m + 1].dedup} PROVE m = n /\ u = table
    BY <1>1
  <1> QED
    BY <1>1, Zenon DEF Remembered

\* A record names the same entry when the log grows.
LEMMA NamesKept ==
    ASSUME NEW table, NEW q, NEW i, Names(table, q, i),
           log'[i] = log[i], answers'[i] = answers[i], Executed(i)' <=> Executed(i)
    PROVE  Names(table, q, i)'
  BY Zenon DEF Names

\* Commands that are administrator requests are of that type.
LEMMA AdminType == ASSUME NEW c \in Command, c.op = "admin" PROVE c \in AdminCommand
  BY DEF Command, InnerCommand, MemberCommand, DeleteCommand, RenewCommand, IssueCommand,
         ConsumeCommand, BlankCommand

\* A commit changes nothing about earlier entries; the new one is executed when
\* it is a request the table does not hold (apply_command_at).
LEMMA CommitExecutes ==
    ASSUME LogTypeOK, NEW c \in Commands, Commit(c), NEW n \in Nat, n = Len(log) + 1
    PROVE  /\ \A k \in 1 .. (n - 1) : Executed(k)' <=> Executed(k)
           /\ Executed(n)' <=> c \in AdminCommand /\ states[n].dedup[c.id] = None
  <1> DEFINE r == apply_command_at(states[n], c, n)
  <1>1. /\ n \in Nat \ {0} /\ states[n] \in State /\ c \in Command
        /\ log'[n] = c /\ answers'[n] = r.answer
        /\ \A k \in 1 .. (n - 1) : log'[k] = log[k] /\ answers'[k] = answers[k]
    BY CommitFacts
  <1> HIDE DEF r
  <1>2. \A k \in 1 .. (n - 1) : Executed(k)' <=> Executed(k)
    BY <1>1 DEF Executed
  <1>3. Executed(n)' <=> c.op = "admin" /\ ~r.answer.duplicate
    BY <1>1 DEF Executed
  <1>4. CASE c.op # "admin"
    BY <1>2, <1>3, <1>4 DEF AdminCommand
  <1>5. CASE c.op = "admin" /\ states[n].dedup[c.id] = None
    <2>1. c \in AdminCommand
      BY <1>1, <1>5, AdminType
    <2>2. r.answer = FirstAnswer(apply_inner(states[n], c.cmd).outcome,
                                 apply_inner(states[n], c.cmd).state.epoch, n)
      <3>1. r = apply_admin(states[n], c, n)
        BY <1>5 DEF r, apply_command_at
      <3> QED
        BY <1>5, <3>1 DEF apply_admin
    <2>3. r.answer.duplicate = FALSE
      BY <2>2 DEF FirstAnswer
    <2> QED
      BY <1>2, <1>3, <1>5, <2>1, <2>3
  <1>6. CASE c.op = "admin" /\ states[n].dedup[c.id] # None
    <2>1. c \in AdminCommand
      BY <1>1, <1>6, AdminType
    <2>2. \E o, e, i : r.answer = RepeatedAnswer(o, e, i)
      BY <1>1, <1>6, <2>1, RepeatedRequest DEF r
    <2>3. r.answer.duplicate = TRUE
      BY <2>2 DEF RepeatedAnswer
    <2> QED
      BY <1>2, <1>3, <1>6, <2>3
  <1> QED
    BY <1>4, <1>5, <1>6

\* The requests that can push entry i out of the table before entry j.
Later(i, j) == {k \in (i + 1) .. (j - 1) : Executed(k)}

\* A set of entries is finite, and a part of it is no larger.
LEMMA LaterFinite ==
    ASSUME NEW i \in Nat, NEW j \in Nat
    PROVE  IsFiniteSet(Later(i, j)) /\ Cardinality(Later(i, j)) \in Nat
  <1>1. IsFiniteSet((i + 1) .. (j - 1))
    BY FS_Interval
  <1>2. Later(i, j) \subseteq (i + 1) .. (j - 1)
    BY DEF Later
  <1> QED
    BY <1>1, <1>2, FS_Subset, FS_CardinalityType

\* What was forgotten stays forgotten when the log grows, and a commit does not
\* change what earlier entries had forgotten.
LEMMA CommitForgets ==
    ASSUME LogTypeOK, NEW c \in Commands, Commit(c), NEW n \in Nat, n = Len(log) + 1,
           NEW i \in 1 .. (n - 1)
    PROVE  /\ \A j \in 1 .. n : Forgotten(i, j)' <=> Forgotten(i, j)
           /\ Forgotten(i, n) => Forgotten(i, n + 1)'
  <1>1. n \in Nat \ {0} /\ \A k \in 1 .. (n - 1) : log'[k] = log[k] /\ (Executed(k)' <=> Executed(k))
    BY CommitFacts, CommitExecutes
  <1>2. ASSUME NEW j \in 1 .. n PROVE Forgotten(i, j)' <=> Forgotten(i, j)
    <2>1. Later(i, j)' = Later(i, j)
      BY <1>1, <1>2 DEF Later
    <2>2. \A k \in (i + 1) .. (j - 1) : log'[k] = log[k] /\ (Executed(k)' <=> Executed(k))
      BY <1>1, <1>2
    <2>3. log'[i] = log[i]
      BY <1>1
    <2> QED
      BY <2>1, <2>2, <2>3, ZenonT(60) DEF Forgotten, Later
  <1>3. ASSUME Forgotten(i, n) PROVE Forgotten(i, n + 1)'
    <2>1. CASE \E k \in (i + 1) .. (n - 1) : Executed(k) /\ log[k].ts - log[i].ts > DedupTtl
      <3>1. PICK k \in (i + 1) .. (n - 1) : Executed(k) /\ log[k].ts - log[i].ts > DedupTtl
        BY <2>1
      <3>2. k \in 1 .. (n - 1) /\ k \in (i + 1) .. n /\ log'[i] = log[i]
        BY <1>1
      <3>3. Executed(k)' /\ log'[k].ts - log'[i].ts > DedupTtl
        BY <1>1, <3>1, <3>2
      <3> QED
        BY <1>1, <3>2, <3>3 DEF Forgotten
    <2>2. CASE Cardinality(Later(i, n)) >= DedupMax
      <3>1. Later(i, n) \subseteq Later(i, n + 1)'
        BY <1>1 DEF Later
      <3>2. IsFiniteSet(Later(i, n + 1)')
        <4>1. IsFiniteSet((i + 1) .. n)
          BY <1>1, FS_Interval
        <4>2. Later(i, n + 1)' \subseteq (i + 1) .. n
          BY <1>1 DEF Later
        <4> QED
          BY <4>1, <4>2, FS_Subset
      <3>3. Cardinality(Later(i, n)) <= Cardinality(Later(i, n + 1)')
        BY <3>1, <3>2, FS_Subset
      <3>4. Cardinality(Later(i, n)) \in Nat /\ Cardinality(Later(i, n + 1)') \in Nat
        BY <1>1, <3>2, LaterFinite, FS_CardinalityType
      <3>5. Cardinality(Later(i, n + 1)') >= DedupMax
        BY <2>2, <3>3, <3>4, BoundsAssumption
      <3> QED
        BY <3>5 DEF Forgotten, Later
    <2> QED
      BY <1>3, <2>1, <2>2 DEF Forgotten, Later
  <1> QED
    BY <1>2, <1>3

\* A commit that executes nothing leaves the table alone: the step of the
\* induction for retries, and for entries that are no administrator requests.
LEMMA OtherRemembered ==
    ASSUME LogTypeOK, Remembered, NEW c \in Commands, Commit(c), NEW n \in Nat, n = Len(log) + 1,
           ~Executed(n)', states'[n + 1].dedup = states[n].dedup
    PROVE  Remembered'
  <1>1. PICK table : table = states[n].dedup
    OBVIOUS
  <1>2. Len(log') = n /\ states'[n + 1].dedup = table
    BY <1>1, CommitFacts
  <1>3. /\ \A q \in RequestIds : Recorded(table, q, n - 1)
        /\ \A i \in 1 .. (n - 1) : Kept(table, i, n - 1)
    BY <1>1, RememberedNow
  <1>4. \A k \in 1 .. (n - 1) : log'[k] = log[k] /\ answers'[k] = answers[k]
                                    /\ (Executed(k)' <=> Executed(k))
    BY CommitFacts, CommitExecutes
  <1>5. ASSUME NEW q \in RequestIds PROVE Recorded(table, q, n)'
    <2> SUFFICES ASSUME table[q] # None PROVE \E i \in 1 .. n : Names(table, q, i)'
      BY Zenon DEF Recorded
    <2>1. PICK i \in 1 .. (n - 1) : Names(table, q, i)
      BY <1>3, Zenon DEF Recorded
    <2>2. Names(table, q, i)'
      BY <1>4, <2>1, NamesKept, Zenon
    <2>3. i \in 1 .. n
      OBVIOUS
    <2> QED
      BY <2>2, <2>3, Zenon
  <1>6. ASSUME NEW i \in 1 .. n PROVE Kept(table, i, n)'
    <2> SUFFICES ASSUME Executed(i)', ~Forgotten(i, n + 1)'
                 PROVE  table[log'[i].id] # None /\ table[log'[i].id].index = i
      BY Zenon DEF Kept
    <2>1. i \in 1 .. (n - 1) /\ (n - 1) + 1 = n
      OBVIOUS
    <2>2. Executed(i) /\ ~Forgotten(i, n) /\ log'[i] = log[i]
      BY <1>4, <2>1, CommitForgets, Zenon
    <2>3. Kept(table, i, n - 1)
      BY <1>3, <2>1, Zenon
    <2> QED
      BY <2>1, <2>2, <2>3, Zenon DEF Kept
  <1> QED
    BY <1>2, <1>5, <1>6, RememberedNext, Zenon

\* A commit that executes a request: the new record is the last one, and prune
\* keeps the record of every request that is not forgotten.
LEMMA FirstRemembered ==
    ASSUME LogTypeOK, Remembered, NEW c \in Commands, Commit(c), NEW n \in Nat, n = Len(log) + 1,
           c \in AdminCommand, states[n].dedup[c.id] = None
    PROVE  Remembered'
  <1>1. PICK s \in State : s = states[n]
    BY CommitFacts
  <1>2. PICK first, old, full, table :
            /\ first = FirstRecord(s, c, n) /\ old = s.dedup
            /\ full = FullTable(s, c, n) /\ table = prune_dedup(full, c.ts)
    OBVIOUS
  <1>3. /\ Len(log') = n /\ log'[n] = c
        /\ states'[n + 1] = apply_command_at(s, c, n).state
        /\ answers'[n] = apply_command_at(s, c, n).answer
        /\ \A k \in 1 .. (n - 1) : log'[k] = log[k] /\ answers'[k] = answers[k]
    BY <1>1, CommitFacts
  <1>4. s.dedup[c.id] = None
    BY <1>1
  <1>5. /\ first \in AdminRecord /\ full \in DedupTable
        /\ states'[n + 1].dedup = table
        /\ answers'[n] = FirstAnswer(first.outcome, first.epoch, n)
    <2> DEFINE inner == apply_inner(s, c.cmd)
    <2>1. /\ first \in AdminRecord /\ full \in DedupTable
          /\ apply_command_at(s, c, n).state = [inner.state EXCEPT !.dedup = table]
          /\ apply_command_at(s, c, n).answer
                = FirstAnswer(inner.outcome, inner.state.epoch, n)
      BY <1>2, <1>4, FirstRequest, ZenonT(60)
    <2>2. inner.state \in State
      BY InnerEffect DEF Effect, AdminCommand
    <2>3. first.outcome = inner.outcome /\ first.epoch = inner.state.epoch
      BY <1>2 DEF FirstRecord
    <2> HIDE DEF inner
    <2>4. states'[n + 1].dedup = table
      BY <1>3, <2>1, <2>2 DEF State
    <2> QED
      BY <1>3, <2>1, <2>3, <2>4, Zenon
  <1>6. c.id \in RequestIds /\ c.ts \in Nat /\ old \in DedupTable
    BY <1>2 DEF AdminCommand, State, DedupTable
  <1>7. first.hash = c.hash /\ first.index = n /\ first.ts = c.ts
    BY <1>2 DEF FirstRecord
  <1>8. full[c.id] = first /\ \A q \in RequestIds \ {c.id} : full[q] = old[q]
    BY <1>2, <1>6 DEF DedupTable, FullTable
  <1>9. /\ \A q \in RequestIds : Recorded(old, q, n - 1)
        /\ \A i \in 1 .. (n - 1) : Kept(old, i, n - 1)
    BY <1>1, <1>2, RememberedNow
  <1>10. Executed(n)' /\ \A k \in 1 .. (n - 1) : Executed(k)' <=> Executed(k)
    BY CommitExecutes
  <1>11. ASSUME NEW q \in RequestIds, full[q] # None
         PROVE  \E i \in 1 .. n : Names(full, q, i)'
    <2>1. CASE q = c.id
      <3>1. full[q] = first /\ n \in 1 .. n
        BY <1>3, <1>8, <2>1
      <3> QED
        BY <1>3, <1>5, <1>7, <1>10, <2>1, <3>1, Zenon DEF Names
    <2>2. CASE q # c.id
      <3>1. full[q] = old[q]
        BY <1>8, <2>2
      <3>2. PICK i \in 1 .. (n - 1) : Names(old, q, i)
        BY <1>9, <1>11, <3>1, Zenon DEF Recorded
      <3>3. Names(old, q, i)'
        BY <1>3, <1>10, <3>2, NamesKept, Zenon
      <3>4. Names(full, q, i)'
        BY <3>1, <3>3, Zenon DEF Names
      <3>5. i \in 1 .. n
        OBVIOUS
      <3> QED
        BY <3>4, <3>5, Zenon
    <2> QED
      BY <2>1, <2>2, Zenon
  <1>12. \A q \in RequestIds : table[q] \in {full[q], None}
    BY <1>2, <1>5, PruneRemoves
  <1>13. ASSUME NEW i \in 1 .. n, Executed(i)', ~Forgotten(i, n + 1)'
         PROVE  table[log'[i].id] # None /\ table[log'[i].id].index = i
    <2>0. PICK q : q = log'[i].id
      OBVIOUS
    <2>1. q \in RequestIds /\ log'[i].ts \in Nat
      <3>1. log'[i] \in Commands
        BY <1>3, CommitFacts
      <3>2. log'[i].op = "admin"
        BY <1>13, Zenon DEF Executed
      <3>3. log'[i] \in AdminCommand
        BY <3>1, <3>2, AdminType, LogAssumption
      <3> QED
        BY <2>0, <3>3 DEF AdminCommand
    <2>2. full[q] # None /\ full[q].index = i
      <3>1. CASE i = n
        <4>1. q = c.id
          BY <1>3, <2>0, <3>1
        <4>2. first # None
          BY <1>5, NoneAssumption
        <4> QED
          BY <1>7, <1>8, <3>1, <4>1, <4>2
      <3>2. CASE i # n
        <4>1. i \in 1 .. (n - 1) /\ (n - 1) + 1 = n
          BY <3>2
        <4>2. Executed(i) /\ ~Forgotten(i, n) /\ log'[i] = log[i]
          BY <1>3, <1>10, <1>13, <4>1, CommitForgets, ZenonT(60)
        <4>3. old[q] # None /\ old[q].index = i
          BY <1>9, <2>0, <4>1, <4>2, Zenon DEF Kept
        <4>4. q # c.id
          BY <1>2, <1>4, <4>3
        <4> QED
          BY <1>8, <2>1, <4>3, <4>4
      <3> QED
        BY <3>1, <3>2
    <2>3. full[q].ts = log'[i].ts
      <3>1. PICK k \in 1 .. n : Names(full, q, k)'
        BY <1>11, <2>1, <2>2, Zenon
      <3> QED
        BY <2>2, <3>1, Zenon DEF Names
    <2>4. c.ts - log'[i].ts <= DedupTtl
      <3>1. CASE i = n
        BY <1>3, <1>6, <3>1, BoundsAssumption
      <3>2. CASE i # n
        <4>1. n \in (i + 1) .. ((n + 1) - 1)
          BY <3>2
        <4>2. ~(log'[n].ts - log'[i].ts > DedupTtl)
          BY <1>10, <1>13, <4>1, Zenon DEF Forgotten
        <4> QED
          BY <1>3, <1>6, <2>1, <4>2, BoundsAssumption
      <3> QED
        BY <3>1, <3>2
    <2>5. PICK S : S = Later(i, n + 1)'
      OBVIOUS
    <2>6. S \subseteq (i + 1) .. n
      BY <2>5 DEF Later
    <2>7. IsFiniteSet(S) /\ Cardinality(S) \in Nat
      <3>1. IsFiniteSet((i + 1) .. n)
        BY FS_Interval
      <3> QED
        BY <2>6, <3>1, FS_Subset, FS_CardinalityType, ZenonT(60)
    <2>8. Cardinality(S) < DedupMax
      <3>1. ~(Cardinality(S) >= DedupMax)
        BY <1>13, <2>5 DEF Forgotten, Later
      <3> QED
        BY <2>7, <3>1, BoundsAssumption
    <2>9. ASSUME NEW p \in RequestIds, full[p] # None, full[p].index > full[q].index
          PROVE  full[p].index \in S
      <3>1. PICK k \in 1 .. n : k = full[p].index /\ Executed(k)'
        BY <1>11, <2>9, Zenon DEF Names
      <3>2. k \in (i + 1) .. ((n + 1) - 1)
        BY <2>2, <2>9, <3>1
      <3> QED
        BY <2>5, <3>1, <3>2, Zenon DEF Later
    <2>10. prune_dedup(full, c.ts)[q] = full[q]
      BY <1>5, <1>6, <2>1, <2>2, <2>3, <2>4, <2>7, <2>8, <2>9, PruneKeeps,
         ZenonT(60)
    <2> QED
      BY <1>2, <2>0, <2>2, <2>10, Zenon
  <1>14. ASSUME NEW q \in RequestIds PROVE Recorded(table, q, n)'
    <2> SUFFICES ASSUME table[q] # None PROVE \E i \in 1 .. n : Names(table, q, i)'
      BY Zenon DEF Recorded
    <2>1. table[q] = full[q]
      BY <1>12
    <2>2. PICK i \in 1 .. n : Names(full, q, i)'
      BY <1>11, <2>1, Zenon
    <2> QED
      BY <2>1, <2>2, Zenon DEF Names
  <1>15. \A i \in 1 .. n : Kept(table, i, n)'
    BY <1>13, Zenon DEF Kept
  <1> QED
    BY <1>3, <1>5, <1>14, <1>15, RememberedNext, Zenon

\* Any commit keeps the table in step with the log.
LEMMA CommitRemembers ==
    ASSUME LogTypeOK, Remembered, NEW c \in Commands, Commit(c)
    PROVE  Remembered'
  <1>1. PICK n \in Nat : n = Len(log) + 1
    BY DEF LogTypeOK
  <1> DEFINE r == apply_command_at(states[n], c, n)
  <1>2. states[n] \in State /\ c \in Command /\ states'[n + 1] = r.state
    BY <1>1, CommitFacts
  <1>3. CASE c \in AdminCommand /\ states[n].dedup[c.id] = None
    BY <1>1, <1>3, FirstRemembered
  <1>4. CASE c \in AdminCommand /\ states[n].dedup[c.id] # None
    <2>1. r.state = states[n]
      BY <1>2, <1>4, RepeatedRequest
    <2>2. ~Executed(n)'
      BY <1>1, <1>4, CommitExecutes
    <2> QED
      BY <1>1, <1>2, <2>1, <2>2, OtherRemembered
  <1>5. CASE c \notin AdminCommand
    <2>1. c.op # "admin" /\ c \in InnerCommand \cup BlankCommand
      BY <1>2, <1>5, AdminType DEF Command
    <2>2. r.state.dedup = states[n].dedup
      <3>1. CASE c \in BlankCommand
        <4>1. c.op \in {"blank", "membership"}
          BY <3>1 DEF BlankCommand
        <4> QED
          BY <4>1 DEF apply_command_at
      <3>2. CASE c \in InnerCommand
        <4>1. c.op \notin {"admin", "blank", "membership"}
          BY <3>2 DEF InnerCommand, MemberCommand, DeleteCommand, RenewCommand, IssueCommand,
                      ConsumeCommand
        <4>2. r.state = apply_inner(states[n], c).state
          BY <4>1 DEF apply_command_at
        <4> QED
          BY <1>2, <3>2, <4>2, InnerEffect DEF Effect
      <3> QED
        BY <2>1, <3>1, <3>2
    <2>3. ~Executed(n)'
      BY <1>1, <1>5, CommitExecutes
    <2> QED
      BY <1>1, <1>2, <2>2, <2>3, OtherRemembered
  <1> QED
    BY <1>3, <1>4, <1>5

\* The entry that is committed answers a retry from the table.
LEMMA RetryAnswered ==
    ASSUME LogTypeOK, Remembered, NEW c \in Commands, Commit(c), NEW n \in Nat, n = Len(log) + 1,
           NEW i \in 1 .. (n - 1), Executed(i), c.op = "admin", c.id = log[i].id,
           ~Forgotten(i, n)
    PROVE  /\ states'[n + 1] = states[n]
           /\ answers'[n] = IF c.hash = log[i].hash
                            THEN RepeatedAnswer(answers[i].outcome, answers[i].epoch, i)
                            ELSE RepeatedAnswer(conflict, states[n].epoch, n)
  <1> DEFINE record == states[n].dedup[c.id]
             r == apply_command_at(states[n], c, n)
  <1>1. /\ states[n] \in State /\ c \in Command
        /\ states'[n + 1] = r.state /\ answers'[n] = r.answer
    BY CommitFacts
  <1>2. c \in AdminCommand /\ c.id \in RequestIds
    BY <1>1, AdminType DEF AdminCommand
  <1>3. record # None /\ record.index = i
    <2>1. PICK table : table = states[n].dedup
      OBVIOUS
    <2>2. Kept(table, i, n - 1) /\ (n - 1) + 1 = n
      BY <2>1, RememberedNow
    <2> QED
      BY <2>1, <2>2, Zenon DEF Kept
  <1>4. /\ log[i].hash = record.hash
        /\ answers[i] = FirstAnswer(record.outcome, record.epoch, i)
    <2>1. PICK table : table = states[n].dedup
      OBVIOUS
    <2>2. PICK k \in 1 .. (n - 1) : Names(table, c.id, k)
      <3>1. Recorded(table, c.id, n - 1) /\ table[c.id] # None
        BY <1>2, <1>3, <2>1, RememberedNow
      <3> QED
        BY <3>1, Zenon DEF Recorded
    <2> QED
      BY <1>3, <2>1, <2>2, Zenon DEF Names
  <1>5. r = [state |-> states[n],
             answer |-> IF record.hash = c.hash
                        THEN RepeatedAnswer(record.outcome, record.epoch, record.index)
                        ELSE RepeatedAnswer(conflict, states[n].epoch, n)]
    BY <1>1, <1>2, <1>3, RepeatedRequest, ZenonT(60)
  <1>6. RepeatedAnswer(answers[i].outcome, answers[i].epoch, i)
            = RepeatedAnswer(record.outcome, record.epoch, record.index)
    <2>1. ASSUME NEW o, NEW e PROVE FirstAnswer(o, e, i).outcome = o /\ FirstAnswer(o, e, i).epoch = e
      BY DEF FirstAnswer
    <2> HIDE DEF record
    <2>2. answers[i].outcome = record.outcome /\ answers[i].epoch = record.epoch
      BY <1>4, <2>1
    <2> QED
      BY <1>3, <2>2
  <1> HIDE DEF record, r
  <1> QED
    BY <1>1, <1>4, <1>5, <1>6

\* A commit keeps RetryIsIdempotent: earlier entries stay as they are, and the
\* new one is RetryAnswered.
LEMMA RetryStep ==
    ASSUME LogTypeOK, Remembered, RetryIsIdempotent, NEW c \in Commands, Commit(c)
    PROVE  RetryIsIdempotent'
  <1>1. PICK n \in Nat : n = Len(log) + 1
    BY DEF LogTypeOK
  <1>2. /\ DOMAIN log = 1 .. (n - 1) /\ DOMAIN log' = 1 .. n /\ log'[n] = c
        /\ \A k \in 1 .. (n - 1) : log'[k] = log[k] /\ answers'[k] = answers[k]
        /\ \A k \in 1 .. n : states'[k] = states[k]
    BY <1>1, CommitFacts DEF LogTypeOK
  <1>3. \A k \in 1 .. (n - 1) : Executed(k)' <=> Executed(k)
    BY <1>1, CommitExecutes
  <1> SUFFICES ASSUME NEW i \in 1 .. n, NEW j \in 1 .. n, i < j, Executed(i)',
                      log'[j].op = "admin", log'[j].id = log'[i].id, ~Forgotten(i, j)'
               PROVE  /\ states'[j + 1] = states'[j]
                      /\ answers'[j] = IF log'[j].hash = log'[i].hash
                                       THEN RepeatedAnswer(answers'[i].outcome, answers'[i].epoch, i)
                                       ELSE RepeatedAnswer(conflict, states'[j].epoch, j)
    BY <1>2 DEF RetryIsIdempotent
  <1>4. i \in 1 .. (n - 1) /\ log'[i] = log[i] /\ answers'[i] = answers[i]
    BY <1>2
  <1>5. Executed(i)
    BY <1>3, <1>4, ZenonT(60)
  <1>6. ~Forgotten(i, j)
    BY <1>1, <1>4, CommitForgets
  <1>7. CASE j = n
    <2>1. c.op = "admin" /\ c.id = log[i].id
      BY <1>2, <1>4, <1>7
    <2>2. /\ states'[n + 1] = states[n]
          /\ answers'[n] = IF c.hash = log[i].hash
                           THEN RepeatedAnswer(answers[i].outcome, answers[i].epoch, i)
                           ELSE RepeatedAnswer(conflict, states[n].epoch, n)
      BY <1>1, <1>4, <1>5, <1>6, <1>7, <2>1, RetryAnswered, ZenonT(60)
    <2>3. states'[n] = states[n]
      BY <1>2, <1>7
    <2> QED
      BY <1>2, <1>4, <1>7, <2>2, <2>3
  <1>8. CASE j # n
    <2>1. /\ j \in 1 .. (n - 1) /\ log'[j] = log[j] /\ answers'[j] = answers[j]
          /\ states'[j] = states[j] /\ states'[j + 1] = states[j + 1]
      BY <1>2, <1>8
    <2>2. log[j].op = "admin" /\ log[j].id = log[i].id
      BY <1>4, <2>1
    <2>3. /\ states[j + 1] = states[j]
          /\ answers[j] = IF log[j].hash = log[i].hash
                          THEN RepeatedAnswer(answers[i].outcome, answers[i].epoch, i)
                          ELSE RepeatedAnswer(conflict, states[j].epoch, j)
      BY <1>2, <1>4, <1>5, <1>6, <2>1, <2>2 DEF RetryIsIdempotent
    <2> QED
      BY <1>4, <2>1, <2>3
  <1> QED
    BY <1>7, <1>8

\* A retried request changes nothing and gets its first answer, or a conflict,
\* as long as the dedup table may remember it (RetryIsIdempotent, apply_admin),
\* for any log, any bound on the table and any requests.
THEOREM RetryTheorem == LogSpec => []RetryIsIdempotent
  <1>1. LogInit => Remembered /\ RetryIsIdempotent
    BY DEF LogInit, Remembered, Recorded, Kept, RetryIsIdempotent, InitialState
  <1>2. LogTypeOK /\ Remembered /\ RetryIsIdempotent /\ [LogNext]_logVars
            => Remembered' /\ RetryIsIdempotent'
    <2>1. ASSUME LogTypeOK, Remembered, RetryIsIdempotent, NEW c \in Commands, Commit(c)
          PROVE  Remembered' /\ RetryIsIdempotent'
      BY <2>1, CommitRemembers, RetryStep
    <2>2. ASSUME Remembered, RetryIsIdempotent, UNCHANGED logVars
          PROVE  Remembered' /\ RetryIsIdempotent'
      <3>1. log' = log /\ states' = states /\ answers' = answers
        BY <2>2, Zenon DEF logVars
      <3>2. /\ \A i : Executed(i)' <=> Executed(i)
            /\ \A i, j : Forgotten(i, j)' <=> Forgotten(i, j)
        BY <3>1, Zenon DEF Executed, Forgotten
      <3>3. \A table, i, n : Kept(table, i, n)' <=> Kept(table, i, n)
        BY <3>1, <3>2, Zenon DEF Kept
      <3>4. \A table, q, n : Recorded(table, q, n)' <=> Recorded(table, q, n)
        <4>1. ASSUME NEW table, NEW q, NEW i PROVE Names(table, q, i)' <=> Names(table, q, i)
          BY <3>1, <3>2, Zenon DEF Names
        <4> QED
          BY <4>1, Zenon DEF Recorded
      <3>5. Remembered'
        BY <2>2, <3>1, <3>3, <3>4, Zenon DEF Remembered
      <3>6. RetryIsIdempotent'
        BY <2>2, <3>1, <3>2 DEF RetryIsIdempotent
      <3> QED
        BY <3>5, <3>6
    <2> QED
      BY <2>1, <2>2 DEF LogNext
  <1> QED
    BY <1>1, <1>2, LogTyping, PTL DEF LogSpec
=============================================================================
