------------------------------ MODULE MCOutbox ------------------------------
(* Small instances of Outbox. *)
EXTENDS Outbox, TLC

\* Drains are interchangeable; sound in the runs without liveness.
DrainSymmetry == Permutations(Drains)
=============================================================================
