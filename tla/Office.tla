------------------------------- MODULE Office -------------------------------
(***************************************************************************)
(* The tenant's office: the registry and the accounts over one database,   *)
(* and what joins them, the customer users that an invitation and the      *)
(* decisions on a proposal make, renew and disable.                        *)
(***************************************************************************)
EXTENDS Accounts

vars == <<requestVars, registryVars, accountVars>>

TypeOK ==
    /\ RegistryTypeOK
    /\ AccountsTypeOK
    /\ asked \in 0..MaxRequests
    /\ \A w \in Workers : req[w].late \subseteq req[w].on

Init == RequestsInit /\ RegistryInit /\ AccountsInit

-----------------------------------------------------------------------------
(* Customer users *)

\* Defect: the customer is looked for by address.
CustomersByEmail(c, t) ==
    {u \in DOMAIN users : /\ users[u].email = clients[c].email
                          /\ ~Staff(u) /\ users[u].tenant = t}

Customers(c, t) ==
    {u \in DOMAIN users : /\ users[u].client = c
                          /\ ~Staff(u) /\ users[u].tenant = t}

\* invite_customer finds the client's user or is going to make one, with the
\* client's address of that moment; two users for one client are an error.
\* A user that was disabled is invited and stays disabled.
Invitation(c, t) ==
    LET known == Customers(c, t)
        u == IF known = {} THEN 0 ELSE CHOOSE u \in known : TRUE
    IN [u |-> u, spent |-> Unused(u),
        row |-> NewUser(t, clients[c].email, "customer", Unusable, c)]

Invitable(c, t) == Owned(c, t) /\ Cardinality(Customers(c, t)) <= 1

InvitationMarks(c, t) ==
    {<<"customer", c>>} \cup {<<"reset", u>> : u \in Customers(c, t)}

\* The new token is stored; the mail's payload has the portal's address and
\* not the token.
SendInvitation(a) ==
    LET new == a.u = 0
        u == IF new THEN Len(users) + 1 ELSE a.u
    IN
    /\ new => EmailIsNew(a.row, DOMAIN users)
    /\ users' = IF new THEN Append(users, a.row) ELSE users
    /\ resets' = Reissued(a.spent, u)
    /\ mails' = mails \cup {[to |-> u, token |-> 0]}

\* POST /clients/{id}/invite: the first invitation and every later one.
Invite(w, t, c) ==
    /\ Invitable(c, t)
    /\ Open(w, "invite", InvitationMarks(c, t), Invitation(c, t))
    /\ UNCHANGED <<registryVars, accountVars>>

EndInvite(w) ==
    /\ Holds(w, "invite")
    /\ SendInvitation(req[w].arg)
    /\ Commit(w)
    /\ UNCHANGED <<registryVars, audit, refresh, access, proposals, now, signouts>>

-----------------------------------------------------------------------------
(* Decisions on a proposal; ProposalFlow has what they do to it.  Their     *)
(* audit entry is added to the session after its commit and is never       *)
(* stored.                                                                  *)

Approve(w, t, p) ==
    /\ proposals[p] = "pronta"
    /\ Invitable(ClientOf[p], t)
    /\ Open(w, "approve", {<<"proposal", p>>} \cup InvitationMarks(ClientOf[p], t),
            [p |-> p, invitation |-> Invitation(ClientOf[p], t)])
    /\ UNCHANGED <<registryVars, accountVars>>

EndApprove(w) ==
    LET a == req[w].arg IN
    /\ Holds(w, "approve")
    /\ SendInvitation(a.invitation)
    /\ proposals' = [proposals EXCEPT ![a.p] = "aprovada"]
    /\ Commit(w)
    /\ LogAfterCommit(<<"proposal", a.p>>, "proposta_aprovada", <<>>)
    /\ UNCHANGED <<registryVars, refresh, access, now, signouts>>

\* The first of the client's customer users is disabled, if there is one.
Cancel(w, t, p) ==
    LET c == ClientOf[p] IN
    /\ proposals[p] = "aprovada"
    /\ Owned(c, t)
    /\ \E u \in IF Customers(c, t) = {} THEN {0} ELSE Customers(c, t) :
          Open(w, "cancel", {<<"proposal", p>>, <<"user", u>>},
               [p |-> p, u |-> u])
    /\ UNCHANGED <<registryVars, accountVars>>

EndCancel(w) ==
    LET a == req[w].arg IN
    /\ Holds(w, "cancel")
    /\ users' = [u \in DOMAIN users |->
                    IF u = a.u THEN [users[u] EXCEPT !.active = FALSE]
                    ELSE users[u]]
    /\ proposals' = [proposals EXCEPT ![a.p] = "cancelada"]
    /\ Commit(w)
    /\ LogAfterCommit(<<"proposal", a.p>>, "proposta_cancelada", <<>>)
    /\ UNCHANGED <<registryVars, refresh, access, resets, mails, now, signouts>>

-----------------------------------------------------------------------------
AskAnyone(w) ==
    \/ \E e \in Emails : Login(w, e) \/ RequestReset(w, e)
    \/ \E i \in DOMAIN refresh : Refresh(w, i) \/ Reuse(w, i)
    \/ \E i \in DOMAIN resets : ConfirmReset(w, i)
    \/ \E a \in access : Logout(w, a)

\* What a tenant's users, its managers and its administrators may ask for.
AskMembers(w, t) ==
    /\ Has(t, Roles)
    /\ \/ AskClients(w, t) /\ UNCHANGED accountVars
       \/ \E p \in Proposals : Approve(w, t, p) \/ Cancel(w, t, p)

AskManagers(w, t) ==
    /\ Has(t, {"manager", "admin"})
    /\ \E c \in DOMAIN clients : Invite(w, t, c)

AskAdmins(w, t) ==
    /\ Has(t, {"admin"})
    /\ \/ AskTables(w, t) /\ UNCHANGED accountVars
       \/ \E e \in Emails, role \in Roles : Register(w, t, e, role)
       \/ \E u \in DOMAIN users, role \in Roles, active \in BOOLEAN :
             PatchUser(w, t, u, role, active)

Next ==
    \/ Tick
    \/ \E w \in Workers :
          \/ AskAnyone(w)
          \/ \E t \in Tenants :
                AskMembers(w, t) \/ AskManagers(w, t) \/ AskAdmins(w, t)
          \/ RegistryGoesOn(w) /\ UNCHANGED accountVars
          \/ EndLogin(w)
          \/ EndRefresh(w)
          \/ EndLogout(w)
          \/ EndRequestReset(w)
          \/ EndConfirmReset(w)
          \/ EndRegister(w)
          \/ EndPatchUser(w)
          \/ EndInvite(w)
          \/ EndApprove(w)
          \/ EndCancel(w)
          \/ Abort(w) /\ UNCHANGED <<registryVars, accountVars>>

Spec == Init /\ [][Next]_vars

-----------------------------------------------------------------------------
\* A client has one customer user however often it is invited, and whatever
\* its address is by then, unless two invitations overlap or an
\* administrator's patch made a customer user into staff for a time.
OneCustomerPerClient ==
    \A c \in DOMAIN clients :
        LET portal == {u \in DOMAIN users : users[u].client = c} IN
        \/ Cardinality(portal) <= 1
        \/ <<"customer", c>> \in crossed
        \/ \E i \in DOMAIN audit, u \in portal :
              audit[i].on = <<"user", u>> /\ audit[i].after.role # "customer"

\* Read from its end, the audit trail gives the columns it names as the rows
\* have them, unless two requests wrote the row from overlapping loads.
\* Customer users are left out: a cancellation disables them silently.
TrailTellsRows ==
    /\ \A c \in DOMAIN clients, k \in {"doc", "active"} :
          <<"client", c>> \notin crossed =>
              TrailTells(<<"client", c>>, k,
                         IF c \in DOMAIN InitClients THEN InitClients[c][k]
                         ELSE NoValue,
                         clients[c][k])
    /\ \A t \in Tenants, k \in RuleKeys :
          <<"rule", t, k>> \notin crossed =>
              TrailTells(<<"rule", t, k>>, "valor", NoValue, rules[<<t, k>>])
    /\ \A u \in DOMAIN users, k \in {"role", "active"} :
          users[u].client = 0 /\ <<"user", u>> \notin crossed =>
              TrailTells(<<"user", u>>, k,
                         IF k = "active" THEN TRUE
                         ELSE IF u \in DOMAIN InitUsers THEN InitUsers[u].role
                         ELSE NoValue,
                         users[u][k])

\* An access token is accepted exactly when its user is active and it was
\* made in a second that began after each of the user's sign-outs and
\* password changes: it does not survive one, and one does not reach the
\* tokens of the seconds to come.
SignOutCuts ==
    \A a \in access :
        \/ <<"revoked", a.user>> \in crossed
        \/ Accepted(a) <=>
              /\ users[a.user].active
              /\ \A s \in signouts :
                    s.user = a.user => WholeSecond(a.made) > s.at

\* Two refreshes of one token of the family overlapped.
Doubled(family) ==
    \E i \in DOMAIN refresh :
        refresh[i].family = family /\ <<"token", i>> \in crossed

\* A refresh token that has a successor works no more, and a sign-in, however
\* often it is refreshed and whatever refreshes fail half way, has one token
\* that works at most: a second one takes two refreshes of a token that overlap.
\* (What becomes of the family of a token that is used again is left open.)  A
\* user has one reset token that still works, and it sets one password, unless
\* the requests for it, or its uses, overlap.
TokensAreUsedOnce ==
    /\ \A i \in DOMAIN refresh :
          LET next == {j \in DOMAIN refresh : refresh[j].from = i} IN
          /\ next # {} => refresh[i].revoked
          /\ Cardinality(next) > 1 => <<"token", i>> \in crossed
    /\ \A i, j \in DOMAIN refresh :
          /\ i # j /\ refresh[i].family = refresh[j].family
          /\ ~refresh[i].revoked /\ ~refresh[j].revoked
          => Doubled(refresh[i].family)
    /\ \A u \in DOMAIN users : Cardinality(Unused(u)) > 1 => <<"reset", u>> \in crossed
    /\ \A i \in DOMAIN resets : resets[i].uses > 1 => <<"use", i>> \in crossed
=============================================================================
