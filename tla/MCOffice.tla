------------------------------ MODULE MCOffice ------------------------------
(* A small office: one tenant with staff, another with a client only. *)
EXTENDS Office, TLC

CONSTANTS t1, t2, d1, d2, e1, e2, p1, k1, v1, v2

MCClients ==
    <<[tenant |-> t1, doc |-> d1, email |-> e2, active |-> TRUE],
      [tenant |-> t2, doc |-> d2, email |-> e2, active |-> TRUE]>>

MCUsers ==
    <<[tenant |-> t1, email |-> e1, role |-> "admin", active |-> TRUE,
       revoked |-> 0, pw |-> 1, client |-> 0]>>

MCClientOf == p1 :> 1
MCAllowed == k1 :> {v1, v2}

\* Nothing chooses among the sessions.
SessionSymmetry == Permutations(Workers)
=============================================================================
