--------------------------- MODULE ParcelaLedger ---------------------------
(***************************************************************************)
(* What the collection of a proposal promises about its instalments,       *)
(* whatever charges, retries and webhooks it takes: an instalment becomes  *)
(* paid only when money for it was received, it lapses only while it is    *)
(* open, and once paid nothing but the cancellation of the proposal        *)
(* changes it.                                                             *)
(***************************************************************************)
CONSTANT Parcelas

VARIABLES
    status,    \* the status of each instalment
    received   \* the instalments the PSP received money for

Init == /\ status = [p \in Parcelas |-> "open"]
        /\ received = {}

Receive(p) == /\ received' = received \cup {p}
              /\ UNCHANGED status

Settle(p) == /\ p \in received
             /\ status' = [status EXCEPT ![p] = "paid"]
             /\ UNCHANGED received

Lapse(S) == /\ \A p \in S : status[p] = "open"
            /\ status' = [p \in Parcelas |->
                            IF p \in S THEN "overdue" ELSE status[p]]
            /\ UNCHANGED received

\* The proposal is cancelled, the paid instalments with it.
Void == /\ status' = [p \in Parcelas |-> "canceled"]
        /\ UNCHANGED received

Next == \/ \E p \in Parcelas : Receive(p) \/ Settle(p)
        \/ \E S \in SUBSET Parcelas : Lapse(S)
        \/ Void

Spec == Init /\ [][Next]_<<status, received>>
=============================================================================
