---------------------------- MODULE MCMembership ----------------------------
(* Small instances of Membership: three or four nodes, one or two handlers. *)
EXTENDS Membership, TLC

CONSTANTS a, b, c, h1, h2

\* The handlers' slots, and the two founders, are interchangeable.
MembershipSymmetry == Permutations({h1, h2}) \cup Permutations({a, b})
=============================================================================
