------------------------------ MODULE Accounts ------------------------------
(***************************************************************************)
(* Users and their tokens: auth/service.py behind api/auth.py,             *)
(* api/users.py, the invitation of api/clients.py, and the two decisions   *)
(* of services/proposal_service.py that make and disable customer users.   *)
(*                                                                         *)
(* All tokens are rows.  A refresh token is used once and replaced by the  *)
(* next of its family; an access token is a signed time and is good while  *)
(* its user has not signed out since.                                      *)
(***************************************************************************)
EXTENDS Registry

CONSTANTS
    Roles,          \* Roles \ {"customer"} are the staff's
    Proposals,
    ClientOf,       \* ClientOf[p]: the client of proposal p's simulation
    InitUsers,      \* the users there are at the start, one signed in
    TicksPerSecond, \* a JWT's iat has whole seconds, a column has not
    MaxNow          \* bound: the last moment

ASSUME AccountsAssumption ==
    /\ "customer" \in Roles
    /\ ClientOf \in [Proposals -> Nat \ {0}]
    /\ InitUsers \in Seq([tenant: Tenants, email: Emails, role: Roles,
                          active: {TRUE}, revoked: {0}, pw: Nat, client: {0}])
    /\ Len(InitUsers) > 0
    /\ TicksPerSecond \in Nat \ {0} /\ MaxNow \in Nat \ {0}

VARIABLES
    users, refresh, access, resets,
    mails,          \* what is put in the outbox: who is written to, and the
                    \* reset token the mail carries
    proposals,      \* proposals.status
    now,
    signouts        \* history: the committed revocations

accountVars == <<users, refresh, access, resets, mails, proposals, now, signouts>>

User == [tenant: Tenants, email: Emails, role: Roles, active: BOOLEAN,
         revoked: Nat,          \* tokens_revoked_at; 0: never
         pw: Nat,               \* which password the hash is of
         client: Nat]           \* client_id; 0: none
Unusable == 0                   \* the hash no password has
Registered == 1                 \* the one the account was made with
SetWith(i) == 1 + i             \* the one given with reset token i

RefreshToken == [user: Nat, family: Nat, from: Nat, revoked: BOOLEAN]
ResetToken == [user: Nat, used: BOOLEAN, uses: Nat]
Mail == [to: Nat, token: Nat]

AccountsTypeOK ==
    /\ users \in Seq(User)
    /\ refresh \in Seq(RefreshToken)
    /\ access \subseteq [user: DOMAIN users, role: Roles, made: 1..MaxNow]
    /\ resets \in Seq(ResetToken)
    /\ mails \subseteq Mail
    /\ proposals \in [Proposals -> {"pronta", "aprovada", "cancelada"}]
    /\ now \in 1..MaxNow
    /\ signouts \subseteq [user: DOMAIN users, at: 1..MaxNow]

AccountsInit ==
    /\ users = InitUsers
    /\ refresh = <<[user |-> 1, family |-> 1, from |-> 0, revoked |-> FALSE]>>
    /\ access = {[user |-> 1, role |-> InitUsers[1].role, made |-> 1]}
    /\ resets = <<>>
    /\ mails = {}
    /\ proposals = [p \in Proposals |-> "pronta"]
    /\ now = 1
    /\ signouts = {}

Tick ==
    /\ now < MaxNow
    /\ now' = now + 1
    /\ UNCHANGED <<requestVars, registryVars, users, refresh, access, resets,
                   mails, proposals, signouts>>

-----------------------------------------------------------------------------
(* Who may ask *)

Staff(u) == users[u].role # "customer"

WholeSecond(t) == t - (t % TicksPerSecond)

\* Defect: the two times are compared the other way round.
AcceptedUntil(a) ==
    LET u == users[a.user] IN
    /\ u.active
    /\ u.revoked = 0 \/ WholeSecond(a.made) <= u.revoked

\* get_current_ctx: what the token says is compared with the user's row.
Accepted(a) ==
    LET u == users[a.user] IN
    /\ u.active
    /\ u.revoked # 0 => WholeSecond(a.made) > u.revoked

\* require_role: the role is the token's, and so the one the user had when it
\* was made.
Has(t, roles) ==
    \E a \in access :
        Accepted(a) /\ users[a.user].tenant = t /\ a.role \in roles

\* authenticate: the staff's addresses first, then the customers'.
ByEmail(e) ==
    LET named == {u \in DOMAIN users : users[u].email = e}
        staff == {u \in named : Staff(u)}
    IN IF staff # {} THEN staff ELSE named

-----------------------------------------------------------------------------
(* Signing in, going on, signing out *)

AddToken(tokens, u, family, from) ==
    Append(tokens, [user |-> u, family |-> family, from |-> from,
                    revoked |-> FALSE])

Login(w, e) ==
    \E u \in ByEmail(e) :
        /\ users[u].pw # Unusable
        /\ users[u].active
        /\ Open(w, "login", {}, [u |-> u, role |-> users[u].role, at |-> now])
        /\ UNCHANGED <<registryVars, accountVars>>

EndLogin(w) ==
    LET a == req[w].arg IN
    /\ Holds(w, "login")
    /\ refresh' = AddToken(refresh, a.u, Len(refresh) + 1, 0)
    /\ access' = access \cup {[user |-> a.u, role |-> a.role, made |-> a.at]}
    /\ Commit(w)
    /\ Log(<<"login", a.u>>, "login", <<>>)
    /\ UNCHANGED <<registryVars, users, resets, mails, proposals, now, signouts>>

\* A token that was used before revokes its family, but in a session that the
\* error then ends: nobody commits it (Abort), and the family stays as it was.
Reuse(w, i) ==
    /\ refresh[i].revoked
    /\ Open(w, "reuse", {}, [i |-> i])
    /\ UNCHANGED <<registryVars, accountVars>>

Refresh(w, i) ==
    /\ ~refresh[i].revoked
    /\ users[refresh[i].user].active
    /\ Open(w, "refresh", {<<"token", i>>},
            [i |-> i, role |-> users[refresh[i].user].role, at |-> now])
    /\ UNCHANGED <<registryVars, accountVars>>

\* Defect: the used token is left as it was.
KeepToken(w) ==
    LET a == req[w].arg
        t == refresh[a.i]
    IN
    /\ Holds(w, "refresh")
    /\ refresh' = AddToken(refresh, t.user, t.family, a.i)
    /\ access' = access \cup {[user |-> t.user, role |-> a.role, made |-> a.at]}
    /\ Commit(w)
    /\ UNCHANGED <<registryVars, audit, users, resets, mails, proposals, now,
                   signouts>>

EndRefresh(w) ==
    LET a == req[w].arg
        t == refresh[a.i]
    IN
    /\ Holds(w, "refresh")
    /\ refresh' = AddToken([refresh EXCEPT ![a.i].revoked = TRUE],
                           t.user, t.family, a.i)
    /\ access' = access \cup {[user |-> t.user, role |-> a.role, made |-> a.at]}
    /\ Commit(w)
    /\ UNCHANGED <<registryVars, audit, users, resets, mails, proposals, now,
                   signouts>>

Logout(w, a) ==
    /\ Accepted(a)
    /\ Open(w, "logout", {<<"revoked", a.user>>}, [u |-> a.user, at |-> now])
    /\ UNCHANGED <<registryVars, accountVars>>

SignOut(u, at) == signouts' = signouts \cup {[user |-> u, at |-> at]}

EndLogout(w) ==
    LET a == req[w].arg IN
    /\ Holds(w, "logout")
    /\ users' = [users EXCEPT ![a.u].revoked = a.at]
    /\ SignOut(a.u, a.at)
    /\ Commit(w)
    /\ Log(<<"login", a.u>>, "logout", <<>>)
    /\ UNCHANGED <<registryVars, refresh, access, resets, mails, proposals, now>>

-----------------------------------------------------------------------------
(* Password resets *)

\* The tokens the UPDATE finds: the ones committed and unused.  It waits for
\* rows another session is spending, and then passes over them.
Unused(u) == {i \in DOMAIN resets : resets[i].user = u /\ ~resets[i].used}

\* The tokens in spent are used up and u has a new one.
Reissued(spent, u) ==
    Append([i \in DOMAIN resets |->
               IF i \in spent THEN [resets[i] EXCEPT !.used = TRUE]
               ELSE resets[i]],
           [user |-> u, used |-> FALSE, uses |-> 0])

\* Customers are not looked for; an unknown address is answered the same.
RequestReset(w, e) ==
    \E u \in ByEmail(e) :
        /\ Staff(u)
        /\ Open(w, "request reset", {<<"reset", u>>},
                [u |-> u, spent |-> Unused(u)])
        /\ UNCHANGED <<registryVars, accountVars>>

EndRequestReset(w) ==
    LET a == req[w].arg IN
    /\ Holds(w, "request reset")
    /\ resets' = Reissued(a.spent, a.u)
    /\ mails' = mails \cup {[to |-> a.u, token |-> Len(resets) + 1]}
    /\ Commit(w)
    /\ UNCHANGED <<registryVars, audit, users, refresh, access, proposals, now,
                   signouts>>

\* Only who has read a mail has a token to send.
ConfirmReset(w, i) ==
    /\ \E m \in mails : m.token = i
    /\ ~resets[i].used
    /\ Open(w, "confirm reset", {<<"use", i>>, <<"revoked", resets[i].user>>},
            [i |-> i, at |-> now])
    /\ UNCHANGED <<registryVars, accountVars>>

EndConfirmReset(w) ==
    LET a == req[w].arg
        u == resets[a.i].user
    IN
    /\ Holds(w, "confirm reset")
    /\ users' = [users EXCEPT ![u].pw = SetWith(a.i), ![u].revoked = a.at]
    /\ resets' = [resets EXCEPT ![a.i].used = TRUE, ![a.i].uses = @ + 1]
    /\ SignOut(u, a.at)
    /\ Commit(w)
    /\ UNCHANGED <<registryVars, audit, refresh, access, mails, proposals, now>>

-----------------------------------------------------------------------------
(* The tenant's users *)

\* The two partial unique indexes: staff addresses are unique over all
\* tenants, customer addresses within one.
EmailIsNew(row, among) ==
    \A u \in among :
        /\ row.role # "customer" /\ Staff(u) => users[u].email # row.email
        /\ row.role = "customer" /\ ~Staff(u) /\ users[u].tenant = row.tenant
               => users[u].email # row.email

NewUser(t, e, role, pw, c) ==
    [tenant |-> t, email |-> e, role |-> role, active |-> TRUE, revoked |-> 0,
     pw |-> pw, client |-> c]

Register(w, t, e, role) ==
    /\ \A u \in DOMAIN users : Staff(u) => users[u].email # e
    /\ Open(w, "register", {<<"email", e>>},
            [row |-> NewUser(t, e, role, Registered, 0)])
    /\ UNCHANGED <<registryVars, accountVars>>

EndRegister(w) ==
    LET row == req[w].arg.row
        u == Len(users) + 1
    IN
    /\ Holds(w, "register")
    /\ EmailIsNew(row, DOMAIN users)
    /\ users' = Append(users, row)
    /\ mails' = mails \cup {[to |-> u, token |-> 0]}
    /\ Commit(w)
    /\ Log(<<"user", u>>, "create", [role |-> row.role])
    /\ UNCHANGED <<registryVars, refresh, access, resets, proposals, now, signouts>>

PatchUser(w, t, u, role, active) ==
    /\ users[u].tenant = t
    /\ Open(w, "patch user", {<<"user", u>>},
            [u |-> u, saw |-> users[u],
             want |-> [role |-> role, active |-> active]])
    /\ UNCHANGED <<registryVars, accountVars>>

EndPatchUser(w) ==
    LET a == req[w].arg
        row == Written(users[a.u], a.saw, a.want)
    IN
    /\ Holds(w, "patch user")
    /\ row.role # users[a.u].role => EmailIsNew(row, DOMAIN users \ {a.u})
    /\ users' = [users EXCEPT ![a.u] = row]
    /\ Commit(w)
    /\ Log(<<"user", a.u>>, "user_patch", a.want)
    /\ UNCHANGED <<registryVars, refresh, access, resets, mails, proposals, now,
                   signouts>>
=============================================================================
