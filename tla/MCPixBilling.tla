---------------------------- MODULE MCPixBilling ----------------------------
(***************************************************************************)
(* Small instances of PixBilling: the instalments fall due on days 0, 1... *)
(***************************************************************************)
EXTENDS PixBilling, TLC

MCFirst == CHOOSE p \in Parcelas : TRUE

MCDue == [p \in Parcelas |-> IF p = MCFirst THEN 0 ELSE 1]

\* Charge ids and sessions are interchangeable; sound in the runs without liveness.
IdSymmetry == Permutations(Charges) \cup Permutations(Workers)
=============================================================================
