-------------------------- MODULE ReplicatedPolicy --------------------------
(***************************************************************************)
(* What the Raft control plane promises its callers, without logs,         *)
(* snapshots or files: there is one history of policy states, every        *)
(* replica that runs shows one of them together with its index, what it    *)
(* shows moves forward only, and a replica that comes back shows at least  *)
(* what it has shown before.                                               *)
(***************************************************************************)
EXTENDS Naturals, Sequences

CONSTANTS
    Replicas,
    States,         \* the policy states
    Initial,        \* the empty one
    None

VARIABLES
    history,    \* the committed states, the initial one first
    shown,      \* per replica: [index, state], or None while it is down
    kept        \* per replica: the newest index it has ever shown

vars == <<history, shown, kept>>

\* The state after k entries, as a replica shows it.
At(k) == [index |-> k, state |-> history[k + 1]]

Init ==
    /\ history = <<Initial>>
    /\ shown = [n \in Replicas |-> At(0)]
    /\ kept = [n \in Replicas |-> 0]

\* One more state is decided; the earlier ones stay.
Decide ==
    /\ history' \in Seq(States) /\ Len(history') = Len(history) + 1
    /\ SubSeq(history', 1, Len(history)) = history
    /\ UNCHANGED <<shown, kept>>

Show(n, k) ==
    /\ k \in kept[n] .. Len(history) - 1
    /\ shown' = [shown EXCEPT ![n] = At(k)]
    /\ kept' = [kept EXCEPT ![n] = k]
    /\ UNCHANGED history

\* A running replica takes over later states, any number at once.
Advance(n) == shown[n] # None /\ \E k \in kept[n] + 1 .. Len(history) - 1 : Show(n, k)

Fail(n) ==
    /\ shown[n] # None
    /\ shown' = [shown EXCEPT ![n] = None]
    /\ UNCHANGED <<history, kept>>

Recover(n) == shown[n] = None /\ \E k \in kept[n] .. Len(history) - 1 : Show(n, k)

Next == Decide \/ \E n \in Replicas : Advance(n) \/ Fail(n) \/ Recover(n)

Spec == Init /\ [][Next]_vars
=============================================================================
