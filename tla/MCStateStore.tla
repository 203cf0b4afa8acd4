---------------------------- MODULE MCStateStore ----------------------------
(* Small instances of StateStore for TLC. *)
EXTENDS StateStore

CONSTANTS p1, p2, p3

MCProc == {p1, p2, p3}

MCPair == {p1, p2}

=============================================================================
