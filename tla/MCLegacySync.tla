--------------------------- MODULE MCLegacySync ---------------------------
(* Small instances of LegacySync: one service, two peers. *)
EXTENDS LegacySync, TLC

CONSTANTS a, b, s1, p1, p2

\* An arbitrary injective order on the member sets.
Hashes == ({} :> 2) @@ ({p1} :> 0) @@ ({p2} :> 3) @@ ({p1, p2} :> 1)

Request(op, s, peers) == [op |-> op, service |-> s, peers |-> peers]

\* The service is seeded by the configuration.
Seeded == [s \in Services |-> {p1}]

MCChanges == {Request("create_service", s1, {p1}), Request("set_members", s1, {p2}),
              Request("add_members", s1, {p2}), Request("delete_service", s1, {})}
=============================================================================
