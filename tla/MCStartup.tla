------------------------------ MODULE MCStartup ------------------------------
(* Three node connections to one sidecar, and two sidecars it may join. *)
EXTENDS Startup, TLC

CONSTANTS c1, c2, c3, p1, p2, k1, k2

\* p2 serves another authority than the one that signed the index.
MCKeyOf == (p1 :> k1) @@ (p2 :> k2)
=============================================================================
