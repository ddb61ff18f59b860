--------------------------------- MODULE Pins ---------------------------------
(***************************************************************************)
(* Who is logged in to the desktop application, and the lock after wrong   *)
(* PINs: app/services/auth_service.py, app/ui/pages/login.py.  The times   *)
(* of the failures live in the process.  They are only ever compared with  *)
(* the clock and counted: here each is an age in minutes, with a place     *)
(* that tells apart the failures of one minute.                            *)
(***************************************************************************)
EXTENDS Naturals, FiniteSets

CONSTANTS
    Users,     \* all of them active: nothing deactivates one
    Attempts,  \* _LOCKOUT_ATTEMPTS
    Window,    \* _LOCKOUT_MINUTES
    NoUser

ASSUME PinsAssumption ==
    /\ Attempts \in Nat \ {0} /\ Window \in Nat \ {0}
    /\ NoUser \notin Users

VARIABLES
    failed,  \* _failed: the failures of each user
    tried,   \* history: the wrong PINs compared in the last Window minutes,
             \* since the last login of the user and the last start
    user     \* whose session the window has

pinVars == <<failed, tried, user>>

\* Ages are told apart up to Window.
Failure == [age: 0..Window, place: Nat]

PinsType ==
    /\ failed \in [Users -> SUBSET Failure]
    /\ tried \in [Users -> SUBSET Failure]
    /\ user \in Users \cup {NoUser}

PinsInit ==
    /\ failed = [u \in Users |-> {}]
    /\ tried = [u \in Users |-> {}]
    /\ user = NoUser

Recent(failures) == {f \in failures : f.age < Window}

\* Defect: one more attempt.
BlockedLate(failures) == Cardinality(Recent(failures)) > Attempts

\* _check_lockout
Blocked(failures) == Cardinality(Recent(failures)) >= Attempts

\* login of a user that is locked out: the PIN is not looked at.
LoginRefused(u) ==
    /\ user = NoUser /\ Blocked(failed[u])
    /\ failed' = [failed EXCEPT ![u] = Recent(@)]
    /\ UNCHANGED <<tried, user>>

\* _record_failure, to the failures that _check_lockout has left.
Latest(failures) == [age |-> 0, place |-> Cardinality(Recent(failures)) + 1]

LoginWrong(u) ==
    /\ user = NoUser /\ ~Blocked(failed[u])
    /\ failed' = [failed EXCEPT ![u] = Recent(@) \cup {Latest(@)}]
    /\ tried' = [tried EXCEPT ![u] = @ \cup {Latest(failed[u])}]
    /\ UNCHANGED user

LoginRight(u) ==
    /\ user = NoUser /\ ~Blocked(failed[u])
    /\ failed' = [failed EXCEPT ![u] = {}]
    /\ tried' = [tried EXCEPT ![u] = {}]
    /\ user' = u

Logout ==
    /\ user # NoUser
    /\ user' = NoUser
    /\ UNCHANGED <<failed, tried>>

Older(f) == [f EXCEPT !.age = IF @ < Window THEN @ + 1 ELSE @]

\* A minute passes.
Minute ==
    /\ failed' = [u \in Users |-> {Older(f) : f \in failed[u]}]
    /\ tried' = [u \in Users |-> Recent({Older(f) : f \in tried[u]})]
    /\ UNCHANGED user

\* The failures are forgotten with the process; the session is in the storage
\* of the window, which a restart may find again.
PinsRestart ==
    /\ failed' = [u \in Users |-> {}]
    /\ tried' = [u \in Users |-> {}]
    /\ user' \in {user, NoUser}
===============================================================================
