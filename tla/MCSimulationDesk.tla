-------------------------- MODULE MCSimulationDesk --------------------------
(* Small instances of SimulationDesk. *)
EXTENDS SimulationDesk, TLC

CONSTANTS plain, full

\* Of two payloads one has a fee.
MCFills == [t \in Terms |-> IF t = full THEN {"fees"} ELSE {}]

\* Nothing chooses among the sessions.
SessionSymmetry == Permutations(Workers)
=============================================================================
