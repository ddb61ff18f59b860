---------------------------- MODULE OfficeProofs ----------------------------
(***************************************************************************)
(* The office for any number of sessions, tenants, clients, users and      *)
(* requests: what the audit trail tells, how often a token is used, what a *)
(* sign-out reaches, how many customer users a client has.                 *)
(*                                                                         *)
(* The invariant has a part for each of these.  A part says what the rows  *)
(* are to each other, and what a session that is going to write them has   *)
(* seen: as long as it is not late, that is still so.  A step that does    *)
(* not write the rows of a part frames it.                                 *)
(***************************************************************************)
EXTENDS Office, TLAPS, FiniteSetTheorems

-----------------------------------------------------------------------------
(* What the sessions hold *)

Shaped(r) ==
    /\ r = [op |-> r.op, on |-> r.on, late |-> r.late, arg |-> r.arg]
    /\ r.late \subseteq r.on

Sessions ==
    /\ req = [w \in Workers |-> req[w]]
    /\ \A w \in Workers : Shaped(req[w])

\* A session that is going to write thing and is not late has seen fact.
Knows(r, thing, fact) == thing \in r.on /\ (thing \notin r.late => fact)

Acoes == {"create", "update", "deactivate", "login", "logout", "user_patch"}

Entry ==
    [on: {"client"} \X Nat, acao: Acoes,
     after: [doc: Docs, active: BOOLEAN] \cup [active: BOOLEAN]]
    \cup [on: {"rule"} \X Tenants \X RuleKeys, acao: Acoes, after: [valor: Values]]
    \cup [on: {"user"} \X Nat, acao: Acoes,
          after: [role: Roles] \cup [role: Roles, active: BOOLEAN]]
    \cup [on: {"login"} \X Nat, acao: Acoes, after: {<<>>}]

Typed == TypeOK /\ Sessions /\ audit \in Seq(Entry)

-----------------------------------------------------------------------------
(* The registry and its trail *)

\* TrailTells of a trail that is an argument.
Named(trail, e, k) ==
    {i \in DOMAIN trail : trail[i].on = e /\ k \in DOMAIN trail[i].after}

Tells(trail, e, k, first, value) ==
    IF Named(trail, e, k) = {} THEN value = first
    ELSE \E i \in Named(trail, e, k) :
            /\ \A j \in Named(trail, e, k) : j <= i
            /\ trail[i].after[k] = value

FirstOfClient(c, k) == IF c \in DOMAIN InitClients THEN InitClients[c][k] ELSE NoValue

ClientsTell ==
    /\ Len(InitClients) <= Len(clients)
    /\ \A c \in DOMAIN clients : <<"client", c>> \notin crossed =>
          \A k \in {"doc", "active"} :
             Tells(audit, <<"client", c>>, k, FirstOfClient(c, k), clients[c][k])

RulesTell ==
    \A t \in Tenants, k \in RuleKeys :
        <<"rule", t, k>> \notin crossed =>
            Tells(audit, <<"rule", t, k>>, "valor", NoValue, rules[<<t, k>>])

KnowsClient(r) ==
    /\ r.arg.c \in DOMAIN clients
    /\ r.arg.saw \in Client
    /\ Knows(r, <<"client", r.arg.c>>, r.arg.saw = clients[r.arg.c])

RegistryRequestHolds(r) ==
    /\ r.op = "create client" => r.arg.row \in Client /\ r.arg.row.active
    /\ r.op = "update client" => KnowsClient(r) /\ r.arg.want \in [doc: Docs, email: Emails]
    /\ r.op = "deactivate client" => KnowsClient(r) /\ r.arg.want = [active |-> FALSE]
    /\ r.op = "put rule" =>
          /\ r.arg.t \in Tenants /\ r.arg.k \in RuleKeys /\ r.arg.want \in Values
          /\ Knows(r, <<"rule", r.arg.t, r.arg.k>>,
                   r.arg.saw = rules[<<r.arg.t, r.arg.k>>])
    /\ r.op = "put setting" => r.arg.k \in SettingKeys /\ r.arg.want \in Values
    /\ r.op = "put logo" => r.arg.t \in Tenants /\ r.arg.key \in objects
    /\ r.op = "update profile" =>
          /\ r.arg.t \in Tenants
          /\ r.arg.want \in [name: Names] \cup [logo: objects]

RegistryHolds ==
    /\ ClientsTell /\ RulesTell
    /\ \A w \in Workers : RegistryRequestHolds(req[w])

-----------------------------------------------------------------------------
(* Refresh tokens *)

SuccessorsHold ==
    /\ \A i \in DOMAIN refresh :
          LET t == refresh[i] IN
          /\ t.user \in DOMAIN users
          /\ t.from # 0 => t.from \in DOMAIN refresh /\ refresh[t.from].revoked
    /\ \A i, j \in DOMAIN refresh :
          refresh[i].from = refresh[j].from /\ refresh[i].from # 0
            => i = j \/ <<"token", refresh[i].from>> \in crossed

\* A sign-in has one token that works.
FamiliesHold ==
    /\ \A i \in DOMAIN refresh : refresh[i].family <= Len(refresh)
    /\ \A i, j \in DOMAIN refresh :
          /\ refresh[i].family = refresh[j].family
          /\ ~refresh[i].revoked /\ ~refresh[j].revoked
          => i = j \/ Doubled(refresh[i].family)

TokenRequestHolds(r) ==
    /\ r.op = "login" =>
          /\ r.arg.u \in DOMAIN users /\ r.arg.role \in Roles
          /\ r.arg.at \in 1..MaxNow
    /\ r.op = "refresh" =>
          /\ r.arg.i \in DOMAIN refresh /\ r.arg.role \in Roles
          /\ r.arg.at \in 1..MaxNow
          /\ Knows(r, <<"token", r.arg.i>>, ~refresh[r.arg.i].revoked)

TokensHold ==
    /\ SuccessorsHold /\ FamiliesHold
    /\ \A w \in Workers : TokenRequestHolds(req[w])

-----------------------------------------------------------------------------
(* Reset tokens *)

\* The invitation of the requests that send one.
InvitationOf(r) == IF r.op = "approve" THEN r.arg.invitation ELSE r.arg

Invites(r) == r.op \in {"invite", "approve"}

OneUnused ==
    /\ \A i \in DOMAIN resets :
          /\ resets[i].user \in DOMAIN users
          /\ resets[i].uses > 0 => resets[i].used
          /\ resets[i].uses > 1 => <<"use", i>> \in crossed
    /\ \A i, j \in DOMAIN resets :
          /\ resets[i].user = resets[j].user
          /\ ~resets[i].used /\ ~resets[j].used
          => i = j \/ <<"reset", resets[i].user>> \in crossed

KnowsUnused(r, u, spent) ==
    u \in DOMAIN users /\ Knows(r, <<"reset", u>>, Unused(u) \subseteq spent)

ResetRequestHolds(r) ==
    /\ r.op = "request reset" => KnowsUnused(r, r.arg.u, r.arg.spent)
    /\ Invites(r) /\ InvitationOf(r).u # 0 =>
          KnowsUnused(r, InvitationOf(r).u, InvitationOf(r).spent)
    /\ r.op = "confirm reset" =>
          /\ r.arg.i \in DOMAIN resets
          /\ Knows(r, <<"use", r.arg.i>>, resets[r.arg.i].uses = 0)

ResetsHold == OneUnused /\ \A w \in Workers : ResetRequestHolds(req[w])

-----------------------------------------------------------------------------
(* Sign-outs *)

RevokedHolds ==
    \A u \in DOMAIN users :
        /\ users[u].revoked <= now
        /\ <<"revoked", u>> \notin crossed =>
              /\ \A s \in signouts : s.user = u => s.at <= users[u].revoked
              /\ users[u].revoked # 0 =>
                    [user |-> u, at |-> users[u].revoked] \in signouts

KnowsRevoked(r, u) ==
    /\ u \in DOMAIN users
    /\ r.arg.at \in 1..MaxNow /\ r.arg.at <= now
    /\ Knows(r, <<"revoked", u>>, users[u].revoked <= r.arg.at)

SignOutRequestHolds(r) ==
    /\ r.op = "logout" => KnowsRevoked(r, r.arg.u)
    /\ r.op = "confirm reset" => KnowsRevoked(r, resets[r.arg.i].user)

SignOutsHold == RevokedHolds /\ \A w \in Workers : SignOutRequestHolds(req[w])

-----------------------------------------------------------------------------
(* Customers *)

Portal(c) == {u \in DOMAIN users : users[u].client = c}

\* A patch made u into staff.
Turned(u) ==
    \E i \in DOMAIN audit :
        audit[i].on = <<"user", u>> /\ audit[i].after.role # "customer"

PortalHolds ==
    /\ \A u \in DOMAIN users : users[u].client # 0 =>
          /\ users[u].client \in DOMAIN clients
          /\ users[u].tenant = clients[users[u].client].tenant
          /\ users[u].role # "customer" => Turned(u)
    /\ \A c \in DOMAIN clients : \A u, v \in Portal(c) :
          \/ u = v
          \/ <<"customer", c>> \in crossed
          \/ \E x \in Portal(c) : Turned(x)

CustomerRequestHolds(r) ==
    Invites(r) =>
        LET a == InvitationOf(r)
            c == a.row.client
        IN
        /\ a.row \in User
        /\ a.row.role = "customer" /\ a.row.revoked = 0 /\ a.row.active
        /\ c \in DOMAIN clients /\ a.row.tenant = clients[c].tenant
        /\ a.u # 0 => a.u \in DOMAIN users
        /\ <<"customer", c>> \in r.on
        /\ a.u = 0 => Knows(r, <<"customer", c>>, \A u \in Portal(c) : Turned(u))

CustomersAreHeld == PortalHolds /\ \A w \in Workers : CustomerRequestHolds(req[w])

-----------------------------------------------------------------------------
(* The users and their trail *)

FirstOfUser(u, k) ==
    IF k = "active" THEN TRUE
    ELSE IF u \in DOMAIN InitUsers THEN InitUsers[u].role ELSE NoValue

UsersTell ==
    /\ Len(InitUsers) <= Len(users)
    /\ \A u \in DOMAIN users :
          users[u].client = 0 /\ <<"user", u>> \notin crossed =>
              \A k \in {"role", "active"} :
                  Tells(audit, <<"user", u>>, k, FirstOfUser(u, k), users[u][k])

NamesUsers == \A i \in DOMAIN audit :
    audit[i].on[1] = "user" => audit[i].on[2] \in DOMAIN users

UserRequestHolds(r) ==
    /\ r.op = "register" =>
          /\ r.arg.row \in User /\ r.arg.row.active
          /\ r.arg.row.revoked = 0 /\ r.arg.row.client = 0
    /\ r.op = "patch user" =>
          /\ r.arg.u \in DOMAIN users /\ r.arg.saw \in User
          /\ r.arg.want \in [role: Roles, active: BOOLEAN]
          /\ Knows(r, <<"user", r.arg.u>>,
                   /\ r.arg.saw.role = users[r.arg.u].role
                   /\ r.arg.saw.active = users[r.arg.u].active)
    /\ r.op = "approve" => r.arg.p \in Proposals
    /\ r.op = "cancel" =>
          /\ r.arg.p \in Proposals /\ <<"user", r.arg.u>> \in r.on
          /\ r.arg.u # 0 => r.arg.u \in DOMAIN users /\ users[r.arg.u].client # 0

UsersHold == UsersTell /\ NamesUsers /\ \A w \in Workers : UserRequestHolds(req[w])

IInv ==
    /\ Typed /\ RegistryHolds /\ TokensHold /\ ResetsHold /\ SignOutsHold
    /\ CustomersAreHeld /\ UsersHold

-----------------------------------------------------------------------------
(* Sessions *)

\* No session but w changes, but that it may become late.
Beside(w) ==
    \A v \in Workers \ {w} :
        /\ req'[v].op = req[v].op /\ req'[v].on = req[v].on
        /\ req'[v].arg = req[v].arg
        /\ req[v].late \subseteq req'[v].late

\* A request that is opened in session w.
Asks(w) ==
    /\ Sessions' /\ Beside(w)
    /\ asked < MaxRequests /\ asked' = asked + 1
    /\ UNCHANGED <<crossed, audit>>

LEMMA Opened ==
    ASSUME Sessions, NEW w \in Workers, NEW op, NEW on, NEW arg, Open(w, op, on, arg)
    PROVE  /\ Asks(w)
           /\ req'[w].op = op /\ req'[w].on = on
           /\ req'[w].late = {} /\ req'[w].arg = arg
  <1> DEFINE new == [op |-> op, on |-> on, late |-> {}, arg |-> arg]
  <1>1. new.op = op /\ new.on = on /\ new.late = {} /\ new.arg = arg
    OBVIOUS
  <1>2. Shaped(new)
    BY DEF Shaped
  <1>3. /\ req' = [req EXCEPT ![w] = new] /\ req[w] = Idle
        /\ asked < MaxRequests /\ asked' = asked + 1 /\ UNCHANGED <<crossed, audit>>
    BY DEF Open
  <1> HIDE DEF new
  <1>4. DOMAIN req = Workers /\ req = [v \in Workers |-> req[v]]
    BY DEF Sessions
  <1>5. /\ req'[w] = new /\ req' = [v \in Workers |-> req'[v]]
        /\ \A v \in Workers \ {w} : req'[v] = req[v]
    BY <1>3, <1>4
  <1>6. \A v \in Workers : Shaped(req'[v])
    BY <1>2, <1>5 DEF Sessions
  <1>7. Sessions'
    BY <1>5, <1>6 DEF Sessions, Shaped
  <1> QED
    BY <1>1, <1>3, <1>5, <1>7 DEF Asks, Beside

\* Session w is over.
Ends(w) ==
    /\ Sessions' /\ Beside(w)
    /\ req'[w] = Idle /\ req'[w].op = "idle"
    /\ crossed \subseteq crossed' /\ UNCHANGED asked

LEMMA Aborted ==
    ASSUME Sessions, NEW w \in Workers, Abort(w)
    PROVE  Ends(w) /\ UNCHANGED <<crossed, audit>>
  <1>1. req' = [req EXCEPT ![w] = Idle] /\ UNCHANGED <<asked, crossed, audit>>
    BY DEF Abort
  <1>2. DOMAIN req = Workers /\ req = [v \in Workers |-> req[v]]
    BY DEF Sessions
  <1>3. /\ req'[w] = Idle /\ req' = [v \in Workers |-> req'[v]]
        /\ \A v \in Workers \ {w} : req'[v] = req[v]
    BY <1>1, <1>2
  <1>4. Shaped(Idle) /\ Idle.op = "idle"
    BY DEF Shaped, Idle
  <1>5. \A v \in Workers : Shaped(req'[v])
    BY <1>3, <1>4 DEF Sessions
  <1>6. Sessions'
    BY <1>3, <1>5 DEF Sessions, Shaped
  <1> QED
    BY <1>1, <1>3, <1>4, <1>6 DEF Ends, Beside

\* The others are late for what w has written.
Outdates(w) ==
    \A v \in Workers \ {w} : req[v].on \cap req[w].on \subseteq req'[v].late

LEMMA Committed ==
    ASSUME Sessions, NEW w \in Workers, Commit(w)
    PROVE  Ends(w) /\ Outdates(w) /\ crossed' = crossed \cup req[w].late
  <1>1. /\ req' = [v \in Workers |->
                     IF v = w THEN Idle
                     ELSE [req[v] EXCEPT !.late = @ \cup (req[v].on \cap req[w].on)]]
        /\ crossed' = crossed \cup req[w].late /\ UNCHANGED asked
    BY DEF Commit
  <1>2. req'[w] = Idle /\ req' = [v \in Workers |-> req'[v]]
    BY <1>1
  <1>3. Shaped(Idle) /\ Idle.op = "idle"
    BY DEF Shaped, Idle
  <1>4. ASSUME NEW v \in Workers \ {w}
        PROVE  /\ Shaped(req'[v])
               /\ req'[v].op = req[v].op /\ req'[v].on = req[v].on
               /\ req'[v].arg = req[v].arg
               /\ req'[v].late = req[v].late \cup (req[v].on \cap req[w].on)
    <2>1. Shaped(req[v])
      BY DEF Sessions
    <2>2. req'[v] = [req[v] EXCEPT !.late = @ \cup (req[v].on \cap req[w].on)]
      BY <1>1
    <2> QED
      BY <2>1, <2>2 DEF Shaped
  <1>5. \A v \in Workers : Shaped(req'[v])
    BY <1>2, <1>3, <1>4
  <1>6. Sessions'
    BY <1>2, <1>5 DEF Sessions, Shaped
  <1> QED
    BY <1>1, <1>2, <1>3, <1>4, <1>6 DEF Ends, Beside, Outdates

-----------------------------------------------------------------------------
(* Sequences and the trail *)

\* A sequence with one more.
LEMMA Appended ==
    ASSUME NEW S, NEW s \in Seq(S), NEW x \in S
    PROVE  /\ Append(s, x) \in Seq(S) /\ Len(Append(s, x)) = Len(s) + 1
           /\ DOMAIN s = 1..Len(s) /\ Len(s) \in Nat
           /\ DOMAIN Append(s, x) = DOMAIN s \cup {Len(s) + 1}
           /\ Len(s) + 1 \notin DOMAIN s
           /\ \A i \in DOMAIN s : Append(s, x)[i] = s[i]
           /\ Append(s, x)[Len(s) + 1] = x
  OBVIOUS

\* A sequence stays one when members of it are replaced.
LEMMA Replaced ==
    ASSUME NEW S, NEW s \in Seq(S), NEW f, DOMAIN f = DOMAIN s,
           f = [i \in DOMAIN s |-> f[i]], \A i \in DOMAIN s : f[i] \in S
    PROVE  f \in Seq(S) /\ Len(f) = Len(s)
  <1>1. DOMAIN s = 1..Len(s) /\ Len(s) \in Nat
    OBVIOUS
  <1>2. f \in [1..Len(s) -> S]
    BY <1>1
  <1> QED
    BY <1>1, <1>2

\* An entry tells of its columns what it has, and of the others nothing.
LEMMA Told ==
    ASSUME NEW trail \in Seq(Entry), NEW entry \in Entry, NEW e, NEW k, NEW first
    PROVE  /\ entry.on = e /\ k \in DOMAIN entry.after =>
                Tells(Append(trail, entry), e, k, first, entry.after[k])
           /\ ~(entry.on = e /\ k \in DOMAIN entry.after) =>
                \A value : Tells(trail, e, k, first, value)
                              => Tells(Append(trail, entry), e, k, first, value)
  <1> DEFINE longer == Append(trail, entry)
             n == Len(trail) + 1
  <1>1. /\ DOMAIN trail = 1..Len(trail) /\ Len(trail) \in Nat
        /\ DOMAIN longer = DOMAIN trail \cup {n} /\ n \notin DOMAIN trail
        /\ \A i \in DOMAIN trail : longer[i] = trail[i]
        /\ longer[n] = entry
    BY Appended
  <1>2. \A i \in DOMAIN trail : i <= n
    BY <1>1
  <1> HIDE DEF longer, n
  <1>3. ASSUME entry.on = e, k \in DOMAIN entry.after
        PROVE  Tells(longer, e, k, first, entry.after[k])
    <2>1. n \in Named(longer, e, k) /\ Named(longer, e, k) \subseteq DOMAIN trail \cup {n}
      BY <1>1, <1>3 DEF Named
    <2>2. \A j \in Named(longer, e, k) : j <= n
      BY <1>1, <1>2, <2>1 DEF n
    <2> QED
      BY <1>1, <2>1, <2>2 DEF Tells
  <1>4. ASSUME ~(entry.on = e /\ k \in DOMAIN entry.after), NEW value,
               Tells(trail, e, k, first, value)
        PROVE  Tells(longer, e, k, first, value)
    <2>1. Named(longer, e, k) = Named(trail, e, k)
      BY <1>1, <1>4 DEF Named
    <2>2. Named(trail, e, k) \subseteq DOMAIN trail
      BY DEF Named
    <2> QED
      BY <1>1, <1>4, <2>1, <2>2 DEF Tells
  <1> QED
    BY <1>3, <1>4 DEF longer

\* The trail gets no entry, or one that is about none of the kinds.
Quiet(kinds) ==
    \/ UNCHANGED audit
    \/ \E entry \in Entry : entry.on[1] \notin kinds /\ audit' = Append(audit, entry)

\* An entry that is stored.
LEMMA Logged ==
    ASSUME audit \in Seq(Entry), NEW on, NEW acao, NEW after, Log(on, acao, after),
           [on |-> on, acao |-> acao, after |-> after] \in Entry
    PROVE  /\ audit' \in Seq(Entry)
           /\ \A kinds : on[1] \notin kinds => Quiet(kinds)
           /\ \A e, k, first :
                 /\ on = e /\ k \in DOMAIN after => Tells(audit', e, k, first, after[k])
                 /\ ~(on = e /\ k \in DOMAIN after) =>
                       \A value : Tells(audit, e, k, first, value)
                                     => Tells(audit', e, k, first, value)
           /\ DOMAIN audit' = DOMAIN audit \cup {Len(audit) + 1}
           /\ \A i \in DOMAIN audit : audit'[i] = audit[i]
           /\ audit'[Len(audit) + 1].on = on
           /\ audit'[Len(audit) + 1].after = after
  <1> DEFINE entry == [on |-> on, acao |-> acao, after |-> after]
  <1>1. entry.on = on /\ entry.after = after /\ entry \in Entry
    OBVIOUS
  <1>2. audit' = Append(audit, entry)
    BY DEF Log
  <1> HIDE DEF entry
  <1>3. /\ audit' \in Seq(Entry)
        /\ DOMAIN audit' = DOMAIN audit \cup {Len(audit) + 1}
        /\ \A i \in DOMAIN audit : audit'[i] = audit[i]
        /\ audit'[Len(audit) + 1] = entry
    BY <1>1, <1>2, Appended
  <1>4. \A kinds : on[1] \notin kinds => Quiet(kinds)
    BY <1>1, <1>2 DEF Quiet
  <1>5. \A e, k, first :
          /\ on = e /\ k \in DOMAIN after => Tells(audit', e, k, first, after[k])
          /\ ~(on = e /\ k \in DOMAIN after) =>
                \A value : Tells(audit, e, k, first, value)
                              => Tells(audit', e, k, first, value)
    BY <1>1, <1>2, Told
  <1> QED
    BY <1>1, <1>3, <1>4, <1>5

\* What a trail goes on to tell of a thing it is quiet about.
LEMMA StillTold ==
    ASSUME audit \in Seq(Entry), NEW kinds, Quiet(kinds), NEW e, e[1] \in kinds,
           NEW k, NEW first, NEW value, Tells(audit, e, k, first, value)
    PROVE  Tells(audit', e, k, first, value)
  <1>1. CASE UNCHANGED audit
    BY <1>1
  <1>2. ASSUME NEW entry \in Entry, entry.on[1] \notin kinds,
               audit' = Append(audit, entry)
        PROVE  Tells(audit', e, k, first, value)
    BY <1>2, Told
  <1> QED
    BY <1>1, <1>2 DEF Quiet

-----------------------------------------------------------------------------
(* The parts under a step that is about other rows *)

RequestHolds(r) ==
    /\ RegistryRequestHolds(r) /\ TokenRequestHolds(r) /\ ResetRequestHolds(r)
    /\ SignOutRequestHolds(r) /\ CustomerRequestHolds(r) /\ UserRequestHolds(r)

LEMMA RegistryKept ==
    ASSUME Typed, RegistryHolds, NEW w \in Workers, Beside(w),
           RegistryRequestHolds(req[w])',
           UNCHANGED <<clients, rules>>, objects \subseteq objects',
           crossed \subseteq crossed', Quiet({"client", "rule"})
    PROVE  RegistryHolds'
  <1>1. audit \in Seq(Entry)
    BY DEF Typed
  <1>2. ClientsTell'
    <2> SUFFICES ASSUME NEW c \in DOMAIN clients, <<"client", c>> \notin crossed,
                        NEW k \in {"doc", "active"}
                 PROVE  Tells(audit', <<"client", c>>, k, FirstOfClient(c, k),
                              clients[c][k])
      BY DEF RegistryHolds, ClientsTell, FirstOfClient
    <2>1. Tells(audit, <<"client", c>>, k, FirstOfClient(c, k), clients[c][k])
      BY DEF RegistryHolds, ClientsTell
    <2> QED
      BY <1>1, <2>1, StillTold
  <1>3. RulesTell'
    <2> SUFFICES ASSUME NEW t \in Tenants, NEW k \in RuleKeys,
                        <<"rule", t, k>> \notin crossed
                 PROVE  Tells(audit', <<"rule", t, k>>, "valor", NoValue,
                              rules[<<t, k>>])
      BY DEF RulesTell
    <2>1. Tells(audit, <<"rule", t, k>>, "valor", NoValue, rules[<<t, k>>])
      BY DEF RegistryHolds, RulesTell
    <2> QED
      BY <1>1, <2>1, StillTold
  <1>4. ASSUME NEW v \in Workers \ {w}
        PROVE  RegistryRequestHolds(req[v])'
    <2>1. RegistryRequestHolds(req[v])
      BY DEF RegistryHolds
    <2>2. /\ req'[v].op = req[v].op /\ req'[v].on = req[v].on
          /\ req'[v].arg = req[v].arg /\ req[v].late \subseteq req'[v].late
      BY DEF Beside
    <2>3. KnowsClient(req[v]) => KnowsClient(req[v])'
      BY <2>2 DEF KnowsClient, Knows
    <2> QED
      BY <2>1, <2>2, <2>3 DEF RegistryRequestHolds, Knows
  <1> QED
    BY <1>2, <1>3, <1>4 DEF RegistryHolds

LEMMA TokensKept ==
    ASSUME TokensHold, NEW w \in Workers, Beside(w), TokenRequestHolds(req[w])',
           UNCHANGED refresh, crossed \subseteq crossed',
           DOMAIN users \subseteq DOMAIN users'
    PROVE  TokensHold'
  <1>1. SuccessorsHold' /\ FamiliesHold'
    BY DEF TokensHold, SuccessorsHold, FamiliesHold, Doubled
  <1>2. ASSUME NEW v \in Workers \ {w}
        PROVE  TokenRequestHolds(req[v])'
    <2>1. TokenRequestHolds(req[v])
      BY DEF TokensHold
    <2> QED
      BY <2>1 DEF Beside, TokenRequestHolds, Knows
  <1> QED
    BY <1>1, <1>2 DEF TokensHold

LEMMA ResetsKept ==
    ASSUME ResetsHold, NEW w \in Workers, Beside(w), ResetRequestHolds(req[w])',
           UNCHANGED resets, crossed \subseteq crossed',
           DOMAIN users \subseteq DOMAIN users'
    PROVE  ResetsHold'
  <1>1. OneUnused'
    BY DEF ResetsHold, OneUnused
  <1>2. ASSUME NEW v \in Workers \ {w}
        PROVE  ResetRequestHolds(req[v])'
    <2>1. ResetRequestHolds(req[v])
      BY DEF ResetsHold
    <2>2. /\ req'[v].op = req[v].op /\ req'[v].on = req[v].on
          /\ req'[v].arg = req[v].arg /\ req[v].late \subseteq req'[v].late
      BY DEF Beside
    <2>3. \A u, spent : KnowsUnused(req[v], u, spent) => KnowsUnused(req[v], u, spent)'
      BY <2>2 DEF KnowsUnused, Knows, Unused
    <2>4. InvitationOf(req[v])' = InvitationOf(req[v]) /\ Invites(req[v])' = Invites(req[v])
      BY <2>2 DEF InvitationOf, Invites
    <2>5. req[v].op = "confirm reset" =>
             /\ req[v].arg.i \in DOMAIN resets'
             /\ Knows(req[v], <<"use", req[v].arg.i>>, resets[req[v].arg.i].uses = 0)'
      BY <2>1, <2>2 DEF ResetRequestHolds, Knows
    <2> QED
      BY <2>1, <2>2, <2>3, <2>4, <2>5 DEF ResetRequestHolds
  <1> QED
    BY <1>1, <1>2 DEF ResetsHold

LEMMA SignOutsKept ==
    ASSUME Typed, ResetsHold, SignOutsHold, NEW w \in Workers, Beside(w),
           SignOutRequestHolds(req[w])',
           UNCHANGED <<signouts, now>>, crossed \subseteq crossed',
           \A u \in DOMAIN users : u \in DOMAIN users' /\ users'[u].revoked = users[u].revoked,
           \A u \in DOMAIN users' \ DOMAIN users : users'[u].revoked = 0,
           \A i \in DOMAIN resets : i \in DOMAIN resets' /\ resets'[i].user = resets[i].user
    PROVE  SignOutsHold'
  <1>1. RevokedHolds'
    <2> SUFFICES ASSUME NEW u \in DOMAIN users'
                 PROVE  /\ users'[u].revoked <= now
                        /\ <<"revoked", u>> \notin crossed' =>
                              /\ \A s \in signouts : s.user = u => s.at <= users'[u].revoked
                              /\ users'[u].revoked # 0 =>
                                    [user |-> u, at |-> users'[u].revoked] \in signouts
      BY DEF RevokedHolds
    <2>1. CASE u \in DOMAIN users
      BY <2>1 DEF SignOutsHold, RevokedHolds
    <2>2. CASE u \notin DOMAIN users
      <3>1. users'[u].revoked = 0 /\ now \in Nat /\ \A s \in signouts : s.user \in DOMAIN users
        BY <2>2 DEF Typed, TypeOK, AccountsTypeOK
      <3> QED
        BY <2>2, <3>1
    <2> QED
      BY <2>1, <2>2
  <1>2. ASSUME NEW v \in Workers \ {w}
        PROVE  SignOutRequestHolds(req[v])'
    <2>1. SignOutRequestHolds(req[v]) /\ ResetRequestHolds(req[v])
      BY DEF SignOutsHold, ResetsHold
    <2>2. /\ req'[v].op = req[v].op /\ req'[v].on = req[v].on
          /\ req'[v].arg = req[v].arg /\ req[v].late \subseteq req'[v].late
      BY DEF Beside
    <2>3. ASSUME req[v].op = "logout"
          PROVE  KnowsRevoked(req[v], req[v].arg.u)'
      BY <2>1, <2>2, <2>3 DEF SignOutRequestHolds, KnowsRevoked, Knows
    <2>4. ASSUME req[v].op = "confirm reset"
          PROVE  KnowsRevoked(req[v], resets[req[v].arg.i].user)'
      <3> DEFINE u == resets[req[v].arg.i].user
      <3>1. resets'[req'[v].arg.i].user = u
        BY <2>1, <2>2, <2>4 DEF ResetRequestHolds
      <3>2. /\ u \in DOMAIN users
            /\ req[v].arg.at \in 1..MaxNow /\ req[v].arg.at <= now
            /\ Knows(req[v], <<"revoked", u>>, users[u].revoked <= req[v].arg.at)
        BY <2>1, <2>4 DEF SignOutRequestHolds, KnowsRevoked
      <3> HIDE DEF u
      <3>3. users'[u].revoked = users[u].revoked /\ u \in DOMAIN users'
        BY <3>2
      <3> QED
        BY <2>2, <3>1, <3>2, <3>3 DEF KnowsRevoked, Knows
    <2> QED
      BY <2>2, <2>3, <2>4 DEF SignOutRequestHolds
  <1> QED
    BY <1>1, <1>2 DEF SignOutsHold

\* What stays said of who was made into staff.
LEMMA StillTurned ==
    ASSUME \A i \in DOMAIN audit : i \in DOMAIN audit' /\ audit'[i] = audit[i],
           NEW u, Turned(u)
    PROVE  Turned(u)'
  BY DEF Turned

LEMMA CustomersKept ==
    ASSUME CustomersAreHeld, NEW w \in Workers, Beside(w),
           CustomerRequestHolds(req[w])', crossed \subseteq crossed',
           \A i \in DOMAIN audit : i \in DOMAIN audit' /\ audit'[i] = audit[i],
           \A c \in DOMAIN clients :
              c \in DOMAIN clients' /\ clients'[c].tenant = clients[c].tenant,
           \A u \in DOMAIN users :
              /\ u \in DOMAIN users'
              /\ users'[u].client = users[u].client /\ users'[u].tenant = users[u].tenant
              /\ users'[u].role = users[u].role \/ users'[u].role = "customer" \/ Turned(u)',
           \A u \in DOMAIN users' \ DOMAIN users : users'[u].client = 0,
           \A c \in DOMAIN clients' : c # 0
    PROVE  CustomersAreHeld'
  <1>1. \A c \in DOMAIN clients' : Portal(c)' = Portal(c)
    BY DEF Portal
  <1>2. \A u \in DOMAIN users : Turned(u) => Turned(u)'
    BY StillTurned
  <1>3. ASSUME NEW u \in DOMAIN users', users'[u].client # 0
        PROVE  /\ users'[u].client \in DOMAIN clients'
               /\ users'[u].tenant = clients'[users'[u].client].tenant
               /\ users'[u].role # "customer" => Turned(u)'
    <2>1. u \in DOMAIN users
      BY <1>3
    <2>2. /\ users[u].client \in DOMAIN clients
          /\ users[u].tenant = clients[users[u].client].tenant
          /\ users[u].role # "customer" => Turned(u)
      BY <1>3, <2>1 DEF CustomersAreHeld, PortalHolds
    <2> QED
      BY <1>2, <2>1, <2>2
  <1>4. ASSUME NEW c \in DOMAIN clients', NEW u \in Portal(c)', NEW v \in Portal(c)'
        PROVE  \/ u = v
               \/ <<"customer", c>> \in crossed'
               \/ \E x \in Portal(c)' : Turned(x)'
    <2>1. u \in Portal(c) /\ v \in Portal(c)
      BY <1>1
    <2>2. u \in DOMAIN users /\ users[u].client = c
      BY <2>1 DEF Portal
    <2>3. c \in DOMAIN clients
      BY <2>2 DEF CustomersAreHeld, PortalHolds
    <2>4. \/ u = v
          \/ <<"customer", c>> \in crossed
          \/ \E x \in Portal(c) : Turned(x)
      BY <2>1, <2>3 DEF CustomersAreHeld, PortalHolds
    <2>5. \A x \in Portal(c) : Turned(x) => Turned(x)'
      BY <1>2 DEF Portal
    <2> QED
      BY <1>1, <2>4, <2>5
  <1>5. PortalHolds'
    BY <1>3, <1>4 DEF PortalHolds
  <1>6. ASSUME NEW v \in Workers \ {w}
        PROVE  CustomerRequestHolds(req[v])'
    <2>1. CustomerRequestHolds(req[v])
      BY DEF CustomersAreHeld
    <2>2. /\ req'[v].op = req[v].op /\ req'[v].on = req[v].on
          /\ req'[v].arg = req[v].arg /\ req[v].late \subseteq req'[v].late
      BY DEF Beside
    <2>3. \A c \in DOMAIN clients : (\A u \in Portal(c) : Turned(u))
                                     => (\A u \in Portal(c)' : Turned(u)')
      BY <1>1, <1>2 DEF Portal
    <2>4. InvitationOf(req[v])' = InvitationOf(req[v]) /\ Invites(req[v])' = Invites(req[v])
      BY <2>2 DEF InvitationOf, Invites
    <2>5. \A c \in DOMAIN clients : c \in DOMAIN clients' /\ clients'[c].tenant = clients[c].tenant
      OBVIOUS
    <2>6. \A u \in DOMAIN users : u \in DOMAIN users'
      OBVIOUS
    <2> QED
      BY ONLY <2>1, <2>2, <2>3, <2>4, <2>5, <2>6 DEF CustomerRequestHolds, Knows
  <1> QED
    BY <1>5, <1>6 DEF CustomersAreHeld

LEMMA UsersKept ==
    ASSUME Typed, UsersHold, NEW w \in Workers, Beside(w), UserRequestHolds(req[w])',
           crossed \subseteq crossed', Quiet({"user"}),
           Len(users) <= Len(users'), Len(users) \in Nat, Len(users') \in Nat,
           \A u \in DOMAIN users :
              /\ u \in DOMAIN users'
              /\ users'[u].client = users[u].client
              /\ users'[u].role = users[u].role
              /\ users'[u].active = users[u].active,
           \A u \in DOMAIN users' \ DOMAIN users : users'[u].client # 0
    PROVE  UsersHold'
  <1>1. audit \in Seq(Entry)
    BY DEF Typed
  <1>2. UsersTell'
    <2>1. Len(InitUsers) <= Len(users')
      <3>1. Len(InitUsers) \in Nat
        BY AccountsAssumption
      <3> QED
        BY <3>1 DEF UsersHold, UsersTell
    <2>2. ASSUME NEW u \in DOMAIN users', users'[u].client = 0,
                 <<"user", u>> \notin crossed',
                 NEW k \in {"role", "active"}
          PROVE  Tells(audit', <<"user", u>>, k, FirstOfUser(u, k), users'[u][k])
      <3>1. u \in DOMAIN users /\ users'[u][k] = users[u][k]
        BY <2>2
      <3>2. Tells(audit, <<"user", u>>, k, FirstOfUser(u, k), users[u][k])
        BY <2>2, <3>1 DEF UsersHold, UsersTell
      <3>3. Tells(audit', <<"user", u>>, k, FirstOfUser(u, k), users[u][k])
        BY <1>1, <3>2, StillTold
      <3> QED
        BY <3>1, <3>3
    <2> QED
      BY <2>1, <2>2 DEF UsersTell, FirstOfUser
  <1>3. NamesUsers'
    <2> SUFFICES ASSUME NEW i \in DOMAIN audit', audit'[i].on[1] = "user"
                 PROVE  audit'[i].on[2] \in DOMAIN users'
      BY DEF NamesUsers
    <2>1. i \in DOMAIN audit /\ audit'[i] = audit[i]
      <3>1. CASE UNCHANGED audit
        BY <3>1
      <3>2. ASSUME NEW entry \in Entry, entry.on[1] \notin {"user"},
                   audit' = Append(audit, entry)
            PROVE  i \in DOMAIN audit /\ audit'[i] = audit[i]
        BY <1>1, <3>2, Appended
      <3> QED
        BY <3>1, <3>2 DEF Quiet
    <2> QED
      BY <2>1 DEF UsersHold, NamesUsers
  <1>4. ASSUME NEW v \in Workers \ {w}
        PROVE  UserRequestHolds(req[v])'
    <2>1. UserRequestHolds(req[v])
      BY DEF UsersHold
    <2>2. /\ req'[v].op = req[v].op /\ req'[v].on = req[v].on
          /\ req'[v].arg = req[v].arg /\ req[v].late \subseteq req'[v].late
      BY DEF Beside
    <2>3. ASSUME req[v].op = "patch user"
          PROVE  /\ req[v].arg.u \in DOMAIN users'
                 /\ Knows(req[v], <<"user", req[v].arg.u>>,
                          /\ req[v].arg.saw.role = users[req[v].arg.u].role
                          /\ req[v].arg.saw.active = users[req[v].arg.u].active)'
      <3> DEFINE x == req[v].arg.u
      <3>1. /\ x \in DOMAIN users /\ req'[v].arg.u = x
            /\ Knows(req[v], <<"user", x>>,
                     /\ req[v].arg.saw.role = users[x].role
                     /\ req[v].arg.saw.active = users[x].active)
        BY <2>1, <2>2, <2>3 DEF UserRequestHolds
      <3> HIDE DEF x
      <3>2. /\ users'[x].role = users[x].role /\ users'[x].active = users[x].active
            /\ x \in DOMAIN users'
        BY <3>1
      <3> QED
        BY ONLY <2>2, <3>1, <3>2 DEF Knows, x
    <2>4. req[v].op = "cancel" /\ req[v].arg.u # 0 =>
             req[v].arg.u \in DOMAIN users' /\ users'[req[v].arg.u].client # 0
      BY <2>1 DEF UserRequestHolds
    <2> QED
      BY <2>1, <2>2, <2>3, <2>4 DEF UserRequestHolds
  <1> QED
    BY <1>2, <1>3, <1>4 DEF UsersHold

\* Which parts expect something of a request.
LEMMA ExpectedOf ==
    ASSUME NEW w
    PROVE  /\ req'[w].op \in {"idle", "reuse"} => RequestHolds(req[w])'
           /\ /\ req'[w].op \in {"create client", "update client", "deactivate client",
                                "put rule", "put setting", "put logo", "update profile"}
              /\ RegistryRequestHolds(req[w])'
              => RequestHolds(req[w])'
           /\ req'[w].op \in {"login", "refresh"} /\ TokenRequestHolds(req[w])'
              => RequestHolds(req[w])'
           /\ req'[w].op = "request reset" /\ ResetRequestHolds(req[w])'
              => RequestHolds(req[w])'
           /\ /\ req'[w].op \in {"logout", "confirm reset"}
              /\ ResetRequestHolds(req[w])' /\ SignOutRequestHolds(req[w])'
              => RequestHolds(req[w])'
           /\ /\ req'[w].op \in {"invite", "approve"}
              /\ ResetRequestHolds(req[w])' /\ CustomerRequestHolds(req[w])'
              /\ UserRequestHolds(req[w])'
              => RequestHolds(req[w])'
           /\ req'[w].op \in {"register", "patch user", "cancel"} /\ UserRequestHolds(req[w])'
              => RequestHolds(req[w])'
  <1>1. req'[w].op \notin {"create client", "update client", "deactivate client",
                          "put rule", "put setting", "put logo", "update profile"}
          => RegistryRequestHolds(req[w])'
    BY DEF RegistryRequestHolds
  <1>2. req'[w].op \notin {"login", "refresh"} => TokenRequestHolds(req[w])'
    BY DEF TokenRequestHolds
  <1>3. req'[w].op \notin {"request reset", "confirm reset", "invite", "approve"}
          => ResetRequestHolds(req[w])'
    BY DEF ResetRequestHolds, Invites
  <1>4. req'[w].op \notin {"logout", "confirm reset"} => SignOutRequestHolds(req[w])'
    BY DEF SignOutRequestHolds
  <1>5. req'[w].op \notin {"invite", "approve"} => CustomerRequestHolds(req[w])'
    BY DEF CustomerRequestHolds, Invites
  <1>6. req'[w].op \notin {"register", "patch user", "cancel", "approve"}
          => UserRequestHolds(req[w])'
    BY DEF UserRequestHolds
  <1> QED
    BY <1>1, <1>2, <1>3, <1>4, <1>5, <1>6 DEF RequestHolds

-----------------------------------------------------------------------------
(* Requests that are opened *)

\* A new request changes no row; a logo is stored first.
LEMMA Requested ==
    ASSUME IInv, NEW w \in Workers, Asks(w),
           UNCHANGED <<clients, rules, settings, profile>>, UNCHANGED accountVars,
           objects \subseteq objects', objects' \subseteq Nat,
           RequestHolds(req[w])'
    PROVE  IInv'
  <1>1. /\ Typed /\ RegistryHolds /\ TokensHold /\ ResetsHold /\ SignOutsHold
        /\ CustomersAreHeld /\ UsersHold
    BY DEF IInv
  <1>2. /\ RegistryRequestHolds(req[w])' /\ TokenRequestHolds(req[w])'
        /\ ResetRequestHolds(req[w])' /\ SignOutRequestHolds(req[w])'
        /\ CustomerRequestHolds(req[w])' /\ UserRequestHolds(req[w])'
    BY DEF RequestHolds
  <1>3. /\ UNCHANGED <<users, refresh, access, resets, mails, proposals, now, signouts>>
        /\ UNCHANGED <<crossed, audit>> /\ Beside(w) /\ Sessions'
        /\ asked < MaxRequests /\ asked' = asked + 1
    BY DEF Asks, accountVars
  <1>4. \A kinds : Quiet(kinds)
    BY <1>3 DEF Quiet
  <1>5. Typed'
    <2>1. RegistryTypeOK' /\ AccountsTypeOK'
      BY <1>1, <1>3 DEF Typed, TypeOK, RegistryTypeOK, AccountsTypeOK
    <2>2. asked' \in 0..MaxRequests
      BY <1>1, <1>3, RequestsAssumption DEF Typed, TypeOK
    <2>3. \A v \in Workers : req'[v].late \subseteq req'[v].on
      BY <1>3 DEF Sessions, Shaped
    <2> QED
      BY <1>1, <1>3, <2>1, <2>2, <2>3 DEF Typed, TypeOK
  <1>6. RegistryHolds'
    BY <1>1, <1>2, <1>3, <1>4, RegistryKept
  <1>7. TokensHold'
    BY <1>1, <1>2, <1>3, TokensKept
  <1>8. ResetsHold'
    BY <1>1, <1>2, <1>3, ResetsKept
  <1>9. SignOutsHold'
    BY <1>1, <1>2, <1>3, SignOutsKept
  <1>10. CustomersAreHeld'
    <2>1. \A c \in DOMAIN clients' : c # 0
      BY <1>1 DEF Typed, TypeOK, RegistryTypeOK
    <2> QED
      BY <1>1, <1>2, <1>3, <2>1, CustomersKept
  <1>11. UsersHold'
    <2>1. Len(users) \in Nat
      BY <1>1 DEF Typed, TypeOK, AccountsTypeOK
    <2> QED
      BY <1>1, <1>2, <1>3, <1>4, <2>1, UsersKept
  <1> QED
    BY <1>5, <1>6, <1>7, <1>8, <1>9, <1>10, <1>11 DEF IInv

LEMMA CreateClientStep ==
    ASSUME IInv, NEW w \in Workers, NEW t, NEW row \in Client, row.active,
           CreateClient(w, t, row),
           UNCHANGED accountVars
    PROVE  IInv'
  <1> DEFINE op == "create client"
             on == {<<"doc", row.doc>>}
             arg == [row |-> row]
  <1>1. Open(w, op, on, arg) /\ UNCHANGED registryVars /\ UNCHANGED accountVars
    BY DEF CreateClient
  <1>2. op = "create client" /\ arg.row \in Client /\ arg.row.active
    OBVIOUS
  <1> HIDE DEF op, on, arg
  <1>3. Sessions
    BY DEF IInv, Typed
  <1>4. /\ Asks(w) /\ req'[w].op = op /\ req'[w].on = on
        /\ req'[w].late = {} /\ req'[w].arg = arg
    BY <1>1, <1>3, Opened
  <1>5. /\ UNCHANGED <<clients, rules, settings, profile, objects>>
        /\ UNCHANGED <<users, resets, refresh, now>> /\ objects \subseteq Nat
    BY <1>1 DEF registryVars, accountVars, IInv, Typed, TypeOK, RegistryTypeOK
  <1>6. RegistryRequestHolds(req[w])'
    BY <1>2, <1>4, <1>5 DEF RegistryRequestHolds
  <1>7. RequestHolds(req[w])'
    BY <1>2, <1>4, <1>6, ExpectedOf DEF op
  <1> QED
    BY <1>1, <1>4, <1>5, <1>7, Requested

LEMMA UpdateClientStep ==
    ASSUME IInv, NEW w \in Workers, NEW t, NEW c, NEW d \in Docs, NEW e \in Emails,
           UpdateClient(w, t, c, d, e),
           UNCHANGED accountVars
    PROVE  IInv'
  <1> DEFINE op == "update client"
             on == {<<"client", c>>}
             arg == [c |-> c, saw |-> clients[c], want |-> [doc |-> d, email |-> e]]
  <1>1. Open(w, op, on, arg) /\ UNCHANGED registryVars /\ UNCHANGED accountVars
    BY DEF UpdateClient
  <1>2. /\ op = "update client" /\ on = {<<"client", arg.c>>}
        /\ arg.c \in DOMAIN clients /\ arg.saw = clients[arg.c] /\ arg.saw \in Client
        /\ arg.want \in [doc: Docs, email: Emails]
    <2>1. Owned(c, t)
      BY Zenon DEF UpdateClient
    <2>2. clients \in Seq(Client)
      BY DEF IInv, Typed, TypeOK, RegistryTypeOK
    <2> QED
      BY <2>1, <2>2 DEF Owned
  <1> HIDE DEF op, on, arg
  <1>3. Sessions
    BY DEF IInv, Typed
  <1>4. /\ Asks(w) /\ req'[w].op = op /\ req'[w].on = on
        /\ req'[w].late = {} /\ req'[w].arg = arg
    BY <1>1, <1>3, Opened
  <1>5. /\ UNCHANGED <<clients, rules, settings, profile, objects>>
        /\ UNCHANGED <<users, resets, refresh, now>> /\ objects \subseteq Nat
    BY <1>1 DEF registryVars, accountVars, IInv, Typed, TypeOK, RegistryTypeOK
  <1>6. RegistryRequestHolds(req[w])'
    BY <1>2, <1>4, <1>5 DEF RegistryRequestHolds, KnowsClient, Knows
  <1>7. RequestHolds(req[w])'
    BY <1>2, <1>4, <1>6, ExpectedOf DEF op
  <1> QED
    BY <1>1, <1>4, <1>5, <1>7, Requested

LEMMA DeactivateClientStep ==
    ASSUME IInv, NEW w \in Workers, NEW t, NEW c, DeactivateClient(w, t, c),
           UNCHANGED accountVars
    PROVE  IInv'
  <1> DEFINE op == "deactivate client"
             on == {<<"client", c>>}
             arg == [c |-> c, saw |-> clients[c], want |-> [active |-> FALSE]]
  <1>1. Open(w, op, on, arg) /\ UNCHANGED registryVars /\ UNCHANGED accountVars
    BY DEF DeactivateClient
  <1>2. /\ op = "deactivate client" /\ on = {<<"client", arg.c>>}
        /\ arg.c \in DOMAIN clients /\ arg.saw = clients[arg.c] /\ arg.saw \in Client
        /\ arg.want = [active |-> FALSE]
    <2>1. Owned(c, t)
      BY Zenon DEF DeactivateClient
    <2>2. clients \in Seq(Client)
      BY DEF IInv, Typed, TypeOK, RegistryTypeOK
    <2> QED
      BY <2>1, <2>2 DEF Owned
  <1> HIDE DEF op, on, arg
  <1>3. Sessions
    BY DEF IInv, Typed
  <1>4. /\ Asks(w) /\ req'[w].op = op /\ req'[w].on = on
        /\ req'[w].late = {} /\ req'[w].arg = arg
    BY <1>1, <1>3, Opened
  <1>5. /\ UNCHANGED <<clients, rules, settings, profile, objects>>
        /\ UNCHANGED <<users, resets, refresh, now>> /\ objects \subseteq Nat
    BY <1>1 DEF registryVars, accountVars, IInv, Typed, TypeOK, RegistryTypeOK
  <1>6. RegistryRequestHolds(req[w])'
    BY <1>2, <1>4, <1>5 DEF RegistryRequestHolds, KnowsClient, Knows
  <1>7. RequestHolds(req[w])'
    BY <1>2, <1>4, <1>6, ExpectedOf DEF op
  <1> QED
    BY <1>1, <1>4, <1>5, <1>7, Requested

LEMMA PutRuleStep ==
    ASSUME IInv, NEW w \in Workers, NEW t \in Tenants, NEW k \in RuleKeys, NEW v \in Values,
           PutRule(w, t, k, v),
           UNCHANGED accountVars
    PROVE  IInv'
  <1> DEFINE op == "put rule"
             on == {<<"rule", t, k>>}
             arg == [t |-> t, k |-> k, saw |-> rules[<<t, k>>], want |-> v]
  <1>1. Open(w, op, on, arg) /\ UNCHANGED registryVars /\ UNCHANGED accountVars
    BY DEF PutRule
  <1>2. /\ op = "put rule" /\ on = {<<"rule", arg.t, arg.k>>}
        /\ arg.t \in Tenants /\ arg.k \in RuleKeys /\ arg.want \in Values
        /\ arg.saw = rules[<<arg.t, arg.k>>]
    OBVIOUS
  <1> HIDE DEF op, on, arg
  <1>3. Sessions
    BY DEF IInv, Typed
  <1>4. /\ Asks(w) /\ req'[w].op = op /\ req'[w].on = on
        /\ req'[w].late = {} /\ req'[w].arg = arg
    BY <1>1, <1>3, Opened
  <1>5. /\ UNCHANGED <<clients, rules, settings, profile, objects>>
        /\ UNCHANGED <<users, resets, refresh, now>> /\ objects \subseteq Nat
    BY <1>1 DEF registryVars, accountVars, IInv, Typed, TypeOK, RegistryTypeOK
  <1>6. RegistryRequestHolds(req[w])'
    BY <1>2, <1>4, <1>5 DEF RegistryRequestHolds, Knows
  <1>7. RequestHolds(req[w])'
    BY <1>2, <1>4, <1>6, ExpectedOf DEF op
  <1> QED
    BY <1>1, <1>4, <1>5, <1>7, Requested

LEMMA PutSettingStep ==
    ASSUME IInv, NEW w \in Workers, NEW k \in SettingKeys, NEW v \in Values,
           PutSetting(w, k, v),
           UNCHANGED accountVars
    PROVE  IInv'
  <1> DEFINE op == "put setting"
             on == {<<"setting", k>>}
             arg == [k |-> k, saw |-> settings[k], want |-> v]
  <1>1. Open(w, op, on, arg) /\ UNCHANGED registryVars /\ UNCHANGED accountVars
    BY DEF PutSetting
  <1>2. op = "put setting" /\ arg.k \in SettingKeys /\ arg.want \in Values
    OBVIOUS
  <1> HIDE DEF op, on, arg
  <1>3. Sessions
    BY DEF IInv, Typed
  <1>4. /\ Asks(w) /\ req'[w].op = op /\ req'[w].on = on
        /\ req'[w].late = {} /\ req'[w].arg = arg
    BY <1>1, <1>3, Opened
  <1>5. /\ UNCHANGED <<clients, rules, settings, profile, objects>>
        /\ UNCHANGED <<users, resets, refresh, now>> /\ objects \subseteq Nat
    BY <1>1 DEF registryVars, accountVars, IInv, Typed, TypeOK, RegistryTypeOK
  <1>6. RegistryRequestHolds(req[w])'
    BY <1>2, <1>4, <1>5 DEF RegistryRequestHolds
  <1>7. RequestHolds(req[w])'
    BY <1>2, <1>4, <1>6, ExpectedOf DEF op
  <1> QED
    BY <1>1, <1>4, <1>5, <1>7, Requested

LEMMA UpdateProfileStep ==
    ASSUME IInv, NEW w \in Workers, NEW t \in Tenants, NEW n \in Names,
           UpdateProfile(w, t, n),
           UNCHANGED accountVars
    PROVE  IInv'
  <1> DEFINE op == "update profile"
             on == {<<"profile", t>>}
             arg == [t |-> t, saw |-> profile[t], want |-> [name |-> n]]
  <1>1. Open(w, op, on, arg) /\ UNCHANGED registryVars /\ UNCHANGED accountVars
    BY DEF UpdateProfile
  <1>2. op = "update profile" /\ arg.t \in Tenants /\ arg.want \in [name: Names]
    OBVIOUS
  <1> HIDE DEF op, on, arg
  <1>3. Sessions
    BY DEF IInv, Typed
  <1>4. /\ Asks(w) /\ req'[w].op = op /\ req'[w].on = on
        /\ req'[w].late = {} /\ req'[w].arg = arg
    BY <1>1, <1>3, Opened
  <1>5. /\ UNCHANGED <<clients, rules, settings, profile, objects>>
        /\ UNCHANGED <<users, resets, refresh, now>> /\ objects \subseteq Nat
    BY <1>1 DEF registryVars, accountVars, IInv, Typed, TypeOK, RegistryTypeOK
  <1>6. RegistryRequestHolds(req[w])'
    BY <1>2, <1>4, <1>5 DEF RegistryRequestHolds
  <1>7. RequestHolds(req[w])'
    BY <1>2, <1>4, <1>6, ExpectedOf DEF op
  <1> QED
    BY <1>1, <1>4, <1>5, <1>7, Requested

LEMMA PutLogoStep ==
    ASSUME IInv, NEW w \in Workers, NEW t \in Tenants, PutLogo(w, t),
           UNCHANGED accountVars
    PROVE  IInv'
  <1> DEFINE op == "put logo"
             on == {<<"logo", t>>}
             arg == [t |-> t, key |-> asked + 1]
  <1>1. /\ Open(w, op, on, arg)
        /\ UNCHANGED <<clients, rules, settings, profile>>
        /\ objects' = objects \cup {asked + 1}
    BY DEF PutLogo
  <1>2. /\ op = "put logo" /\ arg.t \in Tenants /\ arg.key \in objects'
        /\ asked + 1 \in Nat
    <2>1. asked + 1 \in Nat
      BY RequestsAssumption DEF IInv, Typed, TypeOK
    <2> QED
      BY <1>1, <2>1
  <1> HIDE DEF op, on, arg
  <1>3. Sessions
    BY DEF IInv, Typed
  <1>4. /\ Asks(w) /\ req'[w].op = op /\ req'[w].on = on
        /\ req'[w].late = {} /\ req'[w].arg = arg
    BY <1>1, <1>3, Opened
  <1>5. /\ UNCHANGED <<clients, rules, settings, profile>>
        /\ objects \subseteq objects' /\ objects' \subseteq Nat
    BY <1>1 DEF IInv, Typed, TypeOK, RegistryTypeOK
  <1>6. RegistryRequestHolds(req[w])'
    BY <1>2, <1>4, <1>5 DEF RegistryRequestHolds
  <1>7. RequestHolds(req[w])'
    BY <1>2, <1>4, <1>6, ExpectedOf DEF op
  <1> QED
    BY <1>1, <1>4, <1>5, <1>7, Requested

\* What a session that invites has found.
LEMMA InvitationIs ==
    ASSUME IInv, NEW t \in Tenants, NEW c, Invitable(c, t), NEW a, a = Invitation(c, t)
    PROVE  /\ a.row \in User /\ a.row.role = "customer"
           /\ a.row.revoked = 0 /\ a.row.active /\ a.row.client = c
           /\ c \in DOMAIN clients /\ a.row.tenant = clients[c].tenant
           /\ a.u # 0 => /\ a.u \in DOMAIN users /\ a.spent = Unused(a.u)
                        /\ <<"reset", a.u>> \in InvitationMarks(c, t)
           /\ <<"customer", c>> \in InvitationMarks(c, t)
           /\ a.u = 0 => \A u \in Portal(c) : Turned(u)
  <1> DEFINE u == IF Customers(c, t) = {} THEN 0 ELSE CHOOSE u \in Customers(c, t) : TRUE
             row == NewUser(t, clients[c].email, "customer", Unusable, c)
  <1>1. /\ clients \in Seq(Client) /\ users \in Seq(User)
        /\ CustomersAreHeld
    BY DEF IInv, Typed, TypeOK, RegistryTypeOK, AccountsTypeOK
  <1>2. c \in DOMAIN clients /\ clients[c].tenant = t /\ clients[c] \in Client
    BY <1>1 DEF Invitable, Owned
  <1>3. a.u = u /\ a.spent = Unused(u) /\ a.row = row
    BY DEF Invitation
  <1>4. /\ row \in User /\ row.role = "customer" /\ row.revoked = 0 /\ row.active
        /\ row.client = c /\ row.tenant = t
    <2>1. c \in Nat /\ clients[c].email \in Emails /\ "customer" \in Roles
      BY <1>1, <1>2, AccountsAssumption DEF Client
    <2> QED
      BY <2>1 DEF NewUser, User, Unusable
  <1>5. u # 0 => u \in Customers(c, t)
    OBVIOUS
  <1>6. 0 \notin DOMAIN users /\ Customers(c, t) \subseteq DOMAIN users
    BY <1>1 DEF Customers
  <1>7. u = 0 => Customers(c, t) = {}
    BY <1>6
  <1> HIDE DEF u, row
  <1>8. ASSUME u = 0, NEW v \in Portal(c)
        PROVE  Turned(v)
    <2>1. v \in DOMAIN users /\ users[v].client = c /\ c # 0
      BY <1>1, <1>2 DEF Portal
    <2>2. users[v].tenant = t /\ (users[v].role # "customer" => Turned(v))
      BY <1>1, <1>2, <2>1 DEF CustomersAreHeld, PortalHolds
    <2>3. users[v].role # "customer"
      BY <1>7, <1>8, <2>1, <2>2 DEF Customers, Staff
    <2> QED
      BY <2>2, <2>3
  <1>9. u # 0 => u \in DOMAIN users /\ <<"reset", u>> \in InvitationMarks(c, t)
    BY <1>5, <1>6 DEF InvitationMarks
  <1>10. <<"customer", c>> \in InvitationMarks(c, t)
    BY DEF InvitationMarks
  <1> QED
    BY <1>2, <1>3, <1>4, <1>8, <1>9, <1>10

LEMMA LoginStep ==
    ASSUME IInv, NEW w \in Workers, NEW e, Login(w, e)
    PROVE  IInv'
  <1>0. PICK u \in ByEmail(e) :
           /\ Open(w, "login", {}, [u |-> u, role |-> users[u].role, at |-> now])
           /\ UNCHANGED registryVars /\ UNCHANGED accountVars
    BY Zenon DEF Login
  <1> DEFINE op == "login"
             on == {}
             arg == [u |-> u, role |-> users[u].role, at |-> now]
  <1>1. Open(w, op, on, arg) /\ UNCHANGED registryVars /\ UNCHANGED accountVars
    BY <1>0
  <1>2. u \in DOMAIN users /\ users[u].role \in Roles /\ now \in 1..MaxNow
    <2>1. users \in Seq(User) /\ now \in 1..MaxNow
      BY DEF IInv, Typed, TypeOK, AccountsTypeOK
    <2>2. u \in DOMAIN users
      BY DEF ByEmail
    <2>3. users[u] \in User
      BY <2>1, <2>2
    <2> QED
      BY <2>1, <2>2, <2>3 DEF User
  <1>3. /\ op = "login" /\ arg.u \in DOMAIN users /\ arg.role \in Roles
        /\ arg.at \in 1..MaxNow
    BY <1>2
  <1> HIDE DEF op, on, arg
  <1>4. Sessions
    BY DEF IInv, Typed
  <1>5. /\ Asks(w) /\ req'[w].op = op /\ req'[w].on = on
        /\ req'[w].late = {} /\ req'[w].arg = arg
    BY <1>1, <1>4, Opened
  <1>6. /\ UNCHANGED <<clients, rules, settings, profile, objects>>
        /\ UNCHANGED <<users, resets, refresh, now, audit>> /\ objects \subseteq Nat
    BY <1>1, <1>5 DEF registryVars, accountVars, Asks, IInv, Typed, TypeOK, RegistryTypeOK
  <1>7. TokenRequestHolds(req[w])'
    BY <1>3, <1>5, <1>6 DEF TokenRequestHolds
  <1>8. RequestHolds(req[w])'
    BY <1>3, <1>5, <1>7, ExpectedOf
  <1> QED
    BY <1>1, <1>5, <1>6, <1>8, Requested

LEMMA RefreshStep ==
    ASSUME IInv, NEW w \in Workers, NEW i \in DOMAIN refresh, Refresh(w, i)
    PROVE  IInv'
  <1> DEFINE op == "refresh"
             on == {<<"token", i>>}
             arg == [i |-> i, role |-> users[refresh[i].user].role, at |-> now]
  <1>1. Open(w, op, on, arg) /\ UNCHANGED registryVars /\ UNCHANGED accountVars
    BY Zenon DEF Refresh
  <1>2. /\ users[refresh[i].user].role \in Roles /\ now \in 1..MaxNow
        /\ ~refresh[i].revoked
    <2>1. users \in Seq(User) /\ now \in 1..MaxNow
      BY DEF IInv, Typed, TypeOK, AccountsTypeOK
    <2>2. refresh[i].user \in DOMAIN users
      BY DEF IInv, TokensHold, SuccessorsHold
    <2>3. ~refresh[i].revoked
      BY Zenon DEF Refresh
    <2>4. users[refresh[i].user] \in User
      BY <2>1, <2>2
    <2> QED
      BY <2>1, <2>2, <2>3, <2>4 DEF User
  <1>3. /\ op = "refresh" /\ on = {<<"token", arg.i>>}
        /\ arg.i \in DOMAIN refresh /\ ~refresh[arg.i].revoked
        /\ arg.role \in Roles /\ arg.at \in 1..MaxNow
    BY <1>2
  <1> HIDE DEF op, on, arg
  <1>4. Sessions
    BY DEF IInv, Typed
  <1>5. /\ Asks(w) /\ req'[w].op = op /\ req'[w].on = on
        /\ req'[w].late = {} /\ req'[w].arg = arg
    BY <1>1, <1>4, Opened
  <1>6. /\ UNCHANGED <<clients, rules, settings, profile, objects>>
        /\ UNCHANGED <<users, resets, refresh, now, audit>> /\ objects \subseteq Nat
    BY <1>1, <1>5 DEF registryVars, accountVars, Asks, IInv, Typed, TypeOK, RegistryTypeOK
  <1>7. TokenRequestHolds(req[w])'
    BY <1>3, <1>5, <1>6 DEF TokenRequestHolds, Knows
  <1>8. RequestHolds(req[w])'
    BY <1>3, <1>5, <1>7, ExpectedOf
  <1> QED
    BY <1>1, <1>5, <1>6, <1>8, Requested

\* A token that is used again is refused, and leaves nothing behind.
LEMMA ReuseStep ==
    ASSUME IInv, NEW w \in Workers, NEW i \in DOMAIN refresh, Reuse(w, i)
    PROVE  IInv'
  <1>1. Open(w, "reuse", {}, [i |-> i]) /\ UNCHANGED registryVars /\ UNCHANGED accountVars
    BY Zenon DEF Reuse
  <1>2. Sessions
    BY DEF IInv, Typed
  <1>3. Asks(w) /\ req'[w].op = "reuse"
    BY <1>1, <1>2, Opened
  <1>4. UNCHANGED <<clients, rules, settings, profile, objects>> /\ objects \subseteq Nat
    BY <1>1 DEF registryVars, IInv, Typed, TypeOK, RegistryTypeOK
  <1>5. RequestHolds(req[w])'
    BY <1>3, ExpectedOf
  <1> QED
    BY <1>1, <1>3, <1>4, <1>5, Requested

LEMMA LogoutStep ==
    ASSUME IInv, NEW w \in Workers, NEW a \in access, Logout(w, a)
    PROVE  IInv'
  <1> DEFINE op == "logout"
             on == {<<"revoked", a.user>>}
             arg == [u |-> a.user, at |-> now]
  <1>1. Open(w, op, on, arg) /\ UNCHANGED registryVars /\ UNCHANGED accountVars
    BY Zenon DEF Logout
  <1>2. /\ a.user \in DOMAIN users /\ now \in 1..MaxNow /\ now \in Nat
        /\ users[a.user].revoked <= now
    <2>1. a.user \in DOMAIN users /\ now \in 1..MaxNow
      BY DEF IInv, Typed, TypeOK, AccountsTypeOK
    <2>2. users[a.user].revoked <= now
      BY <2>1 DEF IInv, SignOutsHold, RevokedHolds
    <2> QED
      BY <2>1, <2>2
  <1>3. /\ op = "logout" /\ on = {<<"revoked", arg.u>>}
        /\ arg.u \in DOMAIN users /\ arg.at \in 1..MaxNow /\ arg.at <= now
        /\ users[arg.u].revoked <= arg.at
    BY <1>2
  <1> HIDE DEF op, on, arg
  <1>4. Sessions
    BY DEF IInv, Typed
  <1>5. /\ Asks(w) /\ req'[w].op = op /\ req'[w].on = on
        /\ req'[w].late = {} /\ req'[w].arg = arg
    BY <1>1, <1>4, Opened
  <1>6. /\ UNCHANGED <<clients, rules, settings, profile, objects>>
        /\ UNCHANGED <<users, resets, refresh, now, audit>> /\ objects \subseteq Nat
    BY <1>1, <1>5 DEF registryVars, accountVars, Asks, IInv, Typed, TypeOK, RegistryTypeOK
  <1>7. ResetRequestHolds(req[w])'
    BY <1>3, <1>5, <1>6 DEF ResetRequestHolds, Invites
  <1>8. SignOutRequestHolds(req[w])'
    BY <1>3, <1>5, <1>6 DEF SignOutRequestHolds, KnowsRevoked, Knows
  <1>9. RequestHolds(req[w])'
    BY <1>3, <1>5, <1>7, <1>8, ExpectedOf
  <1> QED
    BY <1>1, <1>5, <1>6, <1>9, Requested

LEMMA RequestResetStep ==
    ASSUME IInv, NEW w \in Workers, NEW e, RequestReset(w, e)
    PROVE  IInv'
  <1>0. PICK u \in ByEmail(e) :
           /\ Open(w, "request reset", {<<"reset", u>>}, [u |-> u, spent |-> Unused(u)])
           /\ UNCHANGED registryVars /\ UNCHANGED accountVars
    BY Zenon DEF RequestReset
  <1> DEFINE op == "request reset"
             on == {<<"reset", u>>}
             arg == [u |-> u, spent |-> Unused(u)]
  <1>1. Open(w, op, on, arg) /\ UNCHANGED registryVars /\ UNCHANGED accountVars
    BY <1>0
  <1>2. u \in DOMAIN users
    BY DEF ByEmail
  <1>3. /\ op = "request reset" /\ on = {<<"reset", arg.u>>}
        /\ arg.u \in DOMAIN users /\ arg.spent = Unused(arg.u)
    BY <1>2
  <1> HIDE DEF op, on, arg
  <1>4. Sessions
    BY DEF IInv, Typed
  <1>5. /\ Asks(w) /\ req'[w].op = op /\ req'[w].on = on
        /\ req'[w].late = {} /\ req'[w].arg = arg
    BY <1>1, <1>4, Opened
  <1>6. /\ UNCHANGED <<clients, rules, settings, profile, objects>>
        /\ UNCHANGED <<users, resets, refresh, now, audit>> /\ objects \subseteq Nat
    BY <1>1, <1>5 DEF registryVars, accountVars, Asks, IInv, Typed, TypeOK, RegistryTypeOK
  <1>7. ResetRequestHolds(req[w])'
    BY <1>3, <1>5, <1>6 DEF ResetRequestHolds, KnowsUnused, Knows, Unused, Invites
  <1>8. RequestHolds(req[w])'
    BY <1>3, <1>5, <1>7, ExpectedOf
  <1> QED
    BY <1>1, <1>5, <1>6, <1>8, Requested

LEMMA ConfirmResetStep ==
    ASSUME IInv, NEW w \in Workers, NEW i \in DOMAIN resets, ConfirmReset(w, i)
    PROVE  IInv'
  <1> DEFINE op == "confirm reset"
             on == {<<"use", i>>, <<"revoked", resets[i].user>>}
             arg == [i |-> i, at |-> now]
  <1>1. Open(w, op, on, arg) /\ UNCHANGED registryVars /\ UNCHANGED accountVars
    BY Zenon DEF ConfirmReset
  <1>2. /\ resets[i].uses = 0 /\ resets[i].user \in DOMAIN users
        /\ now \in 1..MaxNow /\ now \in Nat /\ users[resets[i].user].revoked <= now
    <2>1. resets \in Seq(ResetToken) /\ now \in 1..MaxNow
      BY DEF IInv, Typed, TypeOK, AccountsTypeOK
    <2>2. ~resets[i].used
      BY Zenon DEF ConfirmReset
    <2>3. resets[i] \in ResetToken
      BY <2>1
    <2>4. resets[i].uses = 0 /\ resets[i].user \in DOMAIN users
      <3>1. resets[i].uses \in Nat
        BY <2>3 DEF ResetToken
      <3>2. /\ resets[i].uses > 0 => resets[i].used
            /\ resets[i].user \in DOMAIN users
        BY DEF IInv, ResetsHold, OneUnused
      <3> QED
        BY <2>2, <3>1, <3>2
    <2>5. users[resets[i].user].revoked <= now
      BY <2>4 DEF IInv, SignOutsHold, RevokedHolds
    <2> QED
      BY <2>1, <2>4, <2>5
  <1>3. /\ op = "confirm reset" /\ arg.i \in DOMAIN resets
        /\ on = {<<"use", arg.i>>, <<"revoked", resets[arg.i].user>>}
        /\ resets[arg.i].uses = 0 /\ resets[arg.i].user \in DOMAIN users
        /\ arg.at \in 1..MaxNow /\ arg.at <= now
        /\ users[resets[arg.i].user].revoked <= arg.at
    BY <1>2
  <1> HIDE DEF op, on, arg
  <1>4. Sessions
    BY DEF IInv, Typed
  <1>5. /\ Asks(w) /\ req'[w].op = op /\ req'[w].on = on
        /\ req'[w].late = {} /\ req'[w].arg = arg
    BY <1>1, <1>4, Opened
  <1>6. /\ UNCHANGED <<clients, rules, settings, profile, objects>>
        /\ UNCHANGED <<users, resets, refresh, now, audit>> /\ objects \subseteq Nat
    BY <1>1, <1>5 DEF registryVars, accountVars, Asks, IInv, Typed, TypeOK, RegistryTypeOK
  <1>7. ResetRequestHolds(req[w])'
    BY <1>3, <1>5, <1>6 DEF ResetRequestHolds, Knows, Invites
  <1>8. SignOutRequestHolds(req[w])'
    BY <1>3, <1>5, <1>6 DEF SignOutRequestHolds, KnowsRevoked, Knows
  <1>9. RequestHolds(req[w])'
    BY <1>3, <1>5, <1>7, <1>8, ExpectedOf
  <1> QED
    BY <1>1, <1>5, <1>6, <1>9, Requested

LEMMA RegisterStep ==
    ASSUME IInv, NEW w \in Workers, NEW t \in Tenants, NEW e \in Emails, NEW role \in Roles,
           Register(w, t, e, role)
    PROVE  IInv'
  <1> DEFINE op == "register"
             on == {<<"email", e>>}
             arg == [row |-> NewUser(t, e, role, Registered, 0)]
  <1>1. Open(w, op, on, arg) /\ UNCHANGED registryVars /\ UNCHANGED accountVars
    BY Zenon DEF Register
  <1>2. LET row == NewUser(t, e, role, Registered, 0) IN
        row \in User /\ row.active /\ row.revoked = 0 /\ row.client = 0
    BY DEF NewUser, User, Registered
  <1>3. /\ op = "register" /\ arg.row \in User /\ arg.row.active
        /\ arg.row.revoked = 0 /\ arg.row.client = 0
    BY <1>2
  <1> HIDE DEF op, on, arg
  <1>4. Sessions
    BY DEF IInv, Typed
  <1>5. /\ Asks(w) /\ req'[w].op = op /\ req'[w].on = on
        /\ req'[w].late = {} /\ req'[w].arg = arg
    BY <1>1, <1>4, Opened
  <1>6. /\ UNCHANGED <<clients, rules, settings, profile, objects>>
        /\ UNCHANGED <<users, resets, refresh, now, audit>> /\ objects \subseteq Nat
    BY <1>1, <1>5 DEF registryVars, accountVars, Asks, IInv, Typed, TypeOK, RegistryTypeOK
  <1>7. UserRequestHolds(req[w])'
    BY <1>3, <1>5, <1>6 DEF UserRequestHolds
  <1>8. RequestHolds(req[w])'
    BY <1>3, <1>5, <1>7, ExpectedOf
  <1> QED
    BY <1>1, <1>5, <1>6, <1>8, Requested

LEMMA PatchUserStep ==
    ASSUME IInv, NEW w \in Workers, NEW t, NEW u \in DOMAIN users, NEW role \in Roles,
           NEW active \in BOOLEAN, PatchUser(w, t, u, role, active)
    PROVE  IInv'
  <1> DEFINE op == "patch user"
             on == {<<"user", u>>}
             arg == [u |-> u, saw |-> users[u], want |-> [role |-> role, active |-> active]]
  <1>1. Open(w, op, on, arg) /\ UNCHANGED registryVars /\ UNCHANGED accountVars
    BY Zenon DEF PatchUser
  <1>2. users[u] \in User
    BY DEF IInv, Typed, TypeOK, AccountsTypeOK
  <1>3. /\ op = "patch user" /\ on = {<<"user", arg.u>>}
        /\ arg.u \in DOMAIN users /\ arg.saw = users[arg.u] /\ arg.saw \in User
        /\ arg.want \in [role: Roles, active: BOOLEAN]
    BY <1>2
  <1> HIDE DEF op, on, arg
  <1>4. Sessions
    BY DEF IInv, Typed
  <1>5. /\ Asks(w) /\ req'[w].op = op /\ req'[w].on = on
        /\ req'[w].late = {} /\ req'[w].arg = arg
    BY <1>1, <1>4, Opened
  <1>6. /\ UNCHANGED <<clients, rules, settings, profile, objects>>
        /\ UNCHANGED <<users, resets, refresh, now, audit>> /\ objects \subseteq Nat
    BY <1>1, <1>5 DEF registryVars, accountVars, Asks, IInv, Typed, TypeOK, RegistryTypeOK
  <1>7. UserRequestHolds(req[w])'
    BY <1>3, <1>5, <1>6 DEF UserRequestHolds, Knows
  <1>8. RequestHolds(req[w])'
    BY <1>3, <1>5, <1>7, ExpectedOf
  <1> QED
    BY <1>1, <1>5, <1>6, <1>8, Requested

LEMMA InviteStep ==
    ASSUME IInv, NEW w \in Workers, NEW t \in Tenants, NEW c, Invite(w, t, c)
    PROVE  IInv'
  <1> DEFINE op == "invite"
             on == InvitationMarks(c, t)
             arg == Invitation(c, t)
  <1>1. Open(w, op, on, arg) /\ UNCHANGED registryVars /\ UNCHANGED accountVars
    BY Zenon DEF Invite
  <1>2. LET a == arg IN
        /\ a.row \in User /\ a.row.role = "customer" /\ a.row.revoked = 0 /\ a.row.active
        /\ a.row.client \in DOMAIN clients /\ a.row.tenant = clients[a.row.client].tenant
        /\ a.u # 0 => /\ a.u \in DOMAIN users /\ a.spent = Unused(a.u)
                     /\ <<"reset", a.u>> \in on
        /\ <<"customer", a.row.client>> \in on
        /\ a.u = 0 => \A u \in Portal(a.row.client) : Turned(u)
    <2>1. Invitable(c, t)
      BY Zenon DEF Invite
    <2>2. LET a == Invitation(c, t) IN
          /\ a.row \in User /\ a.row.role = "customer"
          /\ a.row.revoked = 0 /\ a.row.active /\ a.row.client = c
          /\ c \in DOMAIN clients /\ a.row.tenant = clients[c].tenant
          /\ a.u # 0 => /\ a.u \in DOMAIN users /\ a.spent = Unused(a.u)
                       /\ <<"reset", a.u>> \in InvitationMarks(c, t)
          /\ <<"customer", c>> \in InvitationMarks(c, t)
          /\ a.u = 0 => \A u \in Portal(c) : Turned(u)
      BY <2>1, InvitationIs
    <2> QED
      BY <2>2
  <1>3. LET a == arg IN
        /\ op = "invite"
        /\ a.row \in User /\ a.row.role = "customer" /\ a.row.revoked = 0 /\ a.row.active
        /\ a.row.client \in DOMAIN clients /\ a.row.tenant = clients[a.row.client].tenant
        /\ a.u # 0 => /\ a.u \in DOMAIN users /\ a.spent = Unused(a.u)
                     /\ <<"reset", a.u>> \in on
        /\ <<"customer", a.row.client>> \in on
        /\ a.u = 0 => \A u \in Portal(a.row.client) : Turned(u)
    BY <1>2
  <1> HIDE DEF op, on, arg
  <1>4. Sessions
    BY DEF IInv, Typed
  <1>5. /\ Asks(w) /\ req'[w].op = op /\ req'[w].on = on
        /\ req'[w].late = {} /\ req'[w].arg = arg
    BY <1>1, <1>4, Opened
  <1>6. /\ UNCHANGED <<clients, rules, settings, profile, objects>>
        /\ UNCHANGED <<users, resets, refresh, now, audit>> /\ objects \subseteq Nat
    BY <1>1, <1>5 DEF registryVars, accountVars, Asks, IInv, Typed, TypeOK, RegistryTypeOK
  <1>7. ResetRequestHolds(req[w])'
    BY <1>3, <1>5, <1>6 DEF ResetRequestHolds, KnowsUnused, Knows, Unused, Invites, InvitationOf
  <1>8. CustomerRequestHolds(req[w])'
    <2>1. \A x : Portal(x)' = Portal(x) /\ Turned(x)' = Turned(x)
      BY <1>6 DEF Portal, Turned
    <2>2. (req'[w].op = "invite" => InvitationOf(req[w])' = req'[w].arg)
          /\ (req'[w].op = "approve" => InvitationOf(req[w])' = req'[w].arg.invitation)
      BY DEF InvitationOf
    <2> QED
      BY <1>3, <1>5, <1>6, <2>1, <2>2 DEF CustomerRequestHolds, Knows
  <1>9. UserRequestHolds(req[w])'
    BY <1>3, <1>5, <1>6 DEF UserRequestHolds
  <1>10. RequestHolds(req[w])'
    BY <1>3, <1>5, <1>7, <1>8, <1>9, ExpectedOf
  <1> QED
    BY <1>1, <1>5, <1>6, <1>10, Requested

LEMMA ApproveStep ==
    ASSUME IInv, NEW w \in Workers, NEW t \in Tenants, NEW p \in Proposals,
           Approve(w, t, p)
    PROVE  IInv'
  <1> DEFINE op == "approve"
             on == {<<"proposal", p>>} \cup InvitationMarks(ClientOf[p], t)
             arg == [p |-> p, invitation |-> Invitation(ClientOf[p], t)]
  <1>1. Open(w, op, on, arg) /\ UNCHANGED registryVars /\ UNCHANGED accountVars
    BY Zenon DEF Approve
  <1>2. LET a == arg.invitation IN
        /\ a.row \in User /\ a.row.role = "customer" /\ a.row.revoked = 0 /\ a.row.active
        /\ a.row.client \in DOMAIN clients /\ a.row.tenant = clients[a.row.client].tenant
        /\ a.u # 0 => /\ a.u \in DOMAIN users /\ a.spent = Unused(a.u)
                     /\ <<"reset", a.u>> \in on
        /\ <<"customer", a.row.client>> \in on
        /\ a.u = 0 => \A u \in Portal(a.row.client) : Turned(u)
    <2>1. Invitable(ClientOf[p], t)
      BY Zenon DEF Approve
    <2>2. /\ arg.invitation = Invitation(ClientOf[p], t)
          /\ InvitationMarks(ClientOf[p], t) \subseteq on
      OBVIOUS
    <2> HIDE DEF arg, on
    <2>3. LET a == Invitation(ClientOf[p], t) IN
          /\ a.row \in User /\ a.row.role = "customer"
          /\ a.row.revoked = 0 /\ a.row.active /\ a.row.client = ClientOf[p]
          /\ ClientOf[p] \in DOMAIN clients /\ a.row.tenant = clients[ClientOf[p]].tenant
          /\ a.u # 0 => /\ a.u \in DOMAIN users /\ a.spent = Unused(a.u)
                       /\ <<"reset", a.u>> \in InvitationMarks(ClientOf[p], t)
          /\ <<"customer", ClientOf[p]>> \in InvitationMarks(ClientOf[p], t)
          /\ a.u = 0 => \A u \in Portal(ClientOf[p]) : Turned(u)
      BY <2>1, InvitationIs
    <2> QED
      BY <2>2, <2>3
  <1>3. LET a == arg.invitation IN
        /\ op = "approve" /\ arg.p \in Proposals
        /\ a.row \in User /\ a.row.role = "customer" /\ a.row.revoked = 0 /\ a.row.active
        /\ a.row.client \in DOMAIN clients /\ a.row.tenant = clients[a.row.client].tenant
        /\ a.u # 0 => /\ a.u \in DOMAIN users /\ a.spent = Unused(a.u)
                     /\ <<"reset", a.u>> \in on
        /\ <<"customer", a.row.client>> \in on
        /\ a.u = 0 => \A u \in Portal(a.row.client) : Turned(u)
    BY <1>2
  <1> HIDE DEF op, on, arg
  <1>4. Sessions
    BY DEF IInv, Typed
  <1>5. /\ Asks(w) /\ req'[w].op = op /\ req'[w].on = on
        /\ req'[w].late = {} /\ req'[w].arg = arg
    BY <1>1, <1>4, Opened
  <1>6. /\ UNCHANGED <<clients, rules, settings, profile, objects>>
        /\ UNCHANGED <<users, resets, refresh, now, audit>> /\ objects \subseteq Nat
    BY <1>1, <1>5 DEF registryVars, accountVars, Asks, IInv, Typed, TypeOK, RegistryTypeOK
  <1>7. ResetRequestHolds(req[w])'
    BY <1>3, <1>5, <1>6 DEF ResetRequestHolds, KnowsUnused, Knows, Unused, Invites, InvitationOf
  <1>8. CustomerRequestHolds(req[w])'
    <2>1. \A x : Portal(x)' = Portal(x) /\ Turned(x)' = Turned(x)
      BY <1>6 DEF Portal, Turned
    <2>2. (req'[w].op = "invite" => InvitationOf(req[w])' = req'[w].arg)
          /\ (req'[w].op = "approve" => InvitationOf(req[w])' = req'[w].arg.invitation)
      BY DEF InvitationOf
    <2> QED
      BY <1>3, <1>5, <1>6, <2>1, <2>2 DEF CustomerRequestHolds, Knows
  <1>9. UserRequestHolds(req[w])'
    BY <1>3, <1>5, <1>6 DEF UserRequestHolds
  <1>10. RequestHolds(req[w])'
    BY <1>3, <1>5, <1>7, <1>8, <1>9, ExpectedOf
  <1> QED
    BY <1>1, <1>5, <1>6, <1>10, Requested

LEMMA CancelStep ==
    ASSUME IInv, NEW w \in Workers, NEW t \in Tenants, NEW p \in Proposals,
           Cancel(w, t, p)
    PROVE  IInv'
  <1>0. PICK u \in IF Customers(ClientOf[p], t) = {} THEN {0} ELSE Customers(ClientOf[p], t) :
           /\ Open(w, "cancel", {<<"proposal", p>>, <<"user", u>>}, [p |-> p, u |-> u])
           /\ UNCHANGED registryVars /\ UNCHANGED accountVars
    BY Zenon DEF Cancel
  <1> DEFINE op == "cancel"
             on == {<<"proposal", p>>, <<"user", u>>}
             arg == [p |-> p, u |-> u]
  <1>1. Open(w, op, on, arg) /\ UNCHANGED registryVars /\ UNCHANGED accountVars
    BY <1>0
  <1>2. u # 0 => u \in DOMAIN users /\ users[u].client # 0
    BY AccountsAssumption DEF Customers
  <1>3. /\ op = "cancel" /\ arg.p \in Proposals /\ <<"user", arg.u>> \in on
        /\ arg.u # 0 => arg.u \in DOMAIN users /\ users[arg.u].client # 0
    BY <1>2
  <1> HIDE DEF op, on, arg
  <1>4. Sessions
    BY DEF IInv, Typed
  <1>5. /\ Asks(w) /\ req'[w].op = op /\ req'[w].on = on
        /\ req'[w].late = {} /\ req'[w].arg = arg
    BY <1>1, <1>4, Opened
  <1>6. /\ UNCHANGED <<clients, rules, settings, profile, objects>>
        /\ UNCHANGED <<users, resets, refresh, now, audit>> /\ objects \subseteq Nat
    BY <1>1, <1>5 DEF registryVars, accountVars, Asks, IInv, Typed, TypeOK, RegistryTypeOK
  <1>7. UserRequestHolds(req[w])'
    BY <1>3, <1>5, <1>6 DEF UserRequestHolds
  <1>8. RequestHolds(req[w])'
    BY <1>3, <1>5, <1>7, ExpectedOf
  <1> QED
    BY <1>1, <1>5, <1>6, <1>8, Requested

-----------------------------------------------------------------------------
(* What the registry's sessions write *)

\* A trail only grows.
LEMMA QuietGrows ==
    ASSUME audit \in Seq(Entry), NEW kinds, Quiet(kinds)
    PROVE  \A i \in DOMAIN audit : i \in DOMAIN audit' /\ audit'[i] = audit[i]
  <1>1. CASE UNCHANGED audit
    BY <1>1
  <1>2. ASSUME NEW entry \in Entry, audit' = Append(audit, entry)
        PROVE  \A i \in DOMAIN audit : i \in DOMAIN audit' /\ audit'[i] = audit[i]
    BY <1>2, Appended
  <1> QED
    BY <1>1, <1>2 DEF Quiet

LEMMA TypedAfter ==
    ASSUME Typed, NEW w \in Workers, Ends(w), RegistryTypeOK', AccountsTypeOK',
           audit' \in Seq(Entry)
    PROVE  Typed'
  <1>1. \A v \in Workers : req'[v].late \subseteq req'[v].on
    BY DEF Ends, Sessions, Shaped
  <1>2. asked' \in 0..MaxRequests
    BY DEF Ends, Typed, TypeOK
  <1> QED
    BY <1>1, <1>2 DEF Ends, Typed, TypeOK

\* The accounts under a step of the registry.
LEMMA RegistryWritten ==
    ASSUME IInv, NEW w \in Workers, Beside(w), RequestHolds(req[w])',
           UNCHANGED accountVars, crossed \subseteq crossed', Quiet({"user"}),
           Typed', RegistryHolds',
           \A c \in DOMAIN clients :
              c \in DOMAIN clients' /\ clients'[c].tenant = clients[c].tenant
    PROVE  IInv'
  <1>1. /\ Typed /\ RegistryHolds /\ TokensHold /\ ResetsHold /\ SignOutsHold
        /\ CustomersAreHeld /\ UsersHold
    BY DEF IInv
  <1>2. /\ TokenRequestHolds(req[w])' /\ ResetRequestHolds(req[w])'
        /\ SignOutRequestHolds(req[w])' /\ CustomerRequestHolds(req[w])'
        /\ UserRequestHolds(req[w])'
    BY DEF RequestHolds
  <1>3. UNCHANGED <<users, refresh, access, resets, mails, proposals, now, signouts>>
    BY DEF accountVars
  <1>4. audit \in Seq(Entry)
    BY <1>1 DEF Typed
  <1>5. TokensHold'
    BY <1>1, <1>2, <1>3, TokensKept
  <1>6. ResetsHold'
    BY <1>1, <1>2, <1>3, ResetsKept
  <1>7. SignOutsHold'
    BY <1>1, <1>2, <1>3, SignOutsKept
  <1>8. CustomersAreHeld'
    <2>1. \A c \in DOMAIN clients' : c # 0
      BY DEF Typed, TypeOK, RegistryTypeOK
    <2>2. \A i \in DOMAIN audit : i \in DOMAIN audit' /\ audit'[i] = audit[i]
      BY <1>4, QuietGrows
    <2> QED
      BY <1>1, <1>2, <1>3, <2>1, <2>2, CustomersKept
  <1>9. UsersHold'
    <2>1. Len(users) \in Nat
      BY <1>1 DEF Typed, TypeOK, AccountsTypeOK
    <2> QED
      BY <1>1, <1>2, <1>3, <2>1, UsersKept
  <1> QED
    BY <1>5, <1>6, <1>7, <1>8, <1>9 DEF IInv

\* A session that ends has written to the registry.
LEMMA RegistryEnded ==
    ASSUME IInv, NEW w \in Workers, Ends(w), UNCHANGED accountVars,
           audit' \in Seq(Entry), Quiet({"user"}), RegistryTypeOK', RegistryHolds',
           \A c \in DOMAIN clients :
              c \in DOMAIN clients' /\ clients'[c].tenant = clients[c].tenant
    PROVE  IInv'
  <1>1. Typed
    BY DEF IInv
  <1>2. AccountsTypeOK'
    BY <1>1 DEF Typed, TypeOK, AccountsTypeOK, accountVars
  <1>3. Typed'
    BY <1>1, <1>2, TypedAfter
  <1>4. Beside(w) /\ req'[w].op = "idle" /\ crossed \subseteq crossed'
    BY DEF Ends
  <1>5. RequestHolds(req[w])'
    BY ONLY <1>4, ExpectedOf
  <1> QED
    BY <1>3, <1>4, <1>5, RegistryWritten

LEMMA FlushedClient ==
    ASSUME NEW row \in Client, NEW saw \in Client,
           NEW want \in [doc: Docs, email: Emails] \cup [active: BOOLEAN]
    PROVE  LET new == Written(row, saw, want) IN
           /\ new \in Client
           /\ new.tenant = row.tenant
           /\ saw = row => \A k \in {"doc", "active"} :
                 new[k] = IF k \in DOMAIN want THEN want[k] ELSE row[k]
  <1>1. CASE want \in [doc: Docs, email: Emails]
    BY <1>1 DEF Written, Client
  <1>2. CASE want \in [active: BOOLEAN]
    BY <1>2 DEF Written, Client
  <1> QED
    BY <1>1, <1>2

\* The row and the entry about it.
LEMMA ClientWritten ==
    ASSUME Typed, RegistryHolds, NEW w \in Workers, Ends(w), Outdates(w),
           crossed' = crossed \cup req[w].late,
           NEW c \in DOMAIN clients, <<"client", c>> \in req[w].on,
           NEW row \in Client, row.tenant = clients[c].tenant,
           clients' = [clients EXCEPT ![c] = row],
           UNCHANGED <<rules, settings, profile, objects>>,
           NEW acao \in Acoes,
           NEW after \in [doc: Docs, active: BOOLEAN] \cup [active: BOOLEAN],
           Log(<<"client", c>>, acao, after),
           <<"client", c>> \notin req[w].late => \A k \in {"doc", "active"} :
              row[k] = IF k \in DOMAIN after THEN after[k] ELSE clients[c][k]
    PROVE  /\ RegistryHolds' /\ RegistryTypeOK'
           /\ audit' \in Seq(Entry) /\ Quiet({"user"})
           /\ \A d \in DOMAIN clients :
                d \in DOMAIN clients' /\ clients'[d].tenant = clients[d].tenant
  <1>1. audit \in Seq(Entry) /\ clients \in Seq(Client) /\ c \in Nat
    BY DEF Typed, TypeOK, RegistryTypeOK
  <1>2. /\ clients' \in Seq(Client) /\ Len(clients') = Len(clients)
        /\ DOMAIN clients' = DOMAIN clients /\ clients'[c] = row
        /\ \A d \in DOMAIN clients \ {c} : clients'[d] = clients[d]
    BY <1>1
  <1> DEFINE on == <<"client", c>>
  <1>3. /\ [on |-> on, acao |-> acao, after |-> after] \in Entry
        /\ on[1] = "client" /\ Log(on, acao, after)
    BY <1>1 DEF Entry
  <1> HIDE DEF on
  <1>4. /\ audit' \in Seq(Entry)
        /\ \A kinds : "client" \notin kinds => Quiet(kinds)
        /\ \A e, k, first :
              /\ on = e /\ k \in DOMAIN after => Tells(audit', e, k, first, after[k])
              /\ ~(on = e /\ k \in DOMAIN after) =>
                    \A value : Tells(audit, e, k, first, value)
                                  => Tells(audit', e, k, first, value)
    BY ONLY <1>1, <1>3, Logged
  <1> USE DEF on
  <1>5. ClientsTell'
    <2>1. ASSUME NEW d \in DOMAIN clients, <<"client", d>> \notin crossed',
                 NEW k \in {"doc", "active"}
          PROVE  Tells(audit', <<"client", d>>, k, FirstOfClient(d, k), clients'[d][k])
      <3>1. Tells(audit, <<"client", d>>, k, FirstOfClient(d, k), clients[d][k])
        BY <2>1 DEF RegistryHolds, ClientsTell
      <3>2. CASE d = c /\ k \in DOMAIN after
        <4>1. Tells(audit', <<"client", d>>, k, FirstOfClient(d, k), after[k])
          BY <1>4, <3>2
        <4>2. clients'[d][k] = after[k]
          BY <1>2, <2>1, <3>2
        <4> QED
          BY <4>1, <4>2
      <3>3. CASE ~(d = c /\ k \in DOMAIN after)
        <4>1. ~(<<"client", c>> = <<"client", d>> /\ k \in DOMAIN after)
          BY <3>3
        <4>2. Tells(audit', <<"client", d>>, k, FirstOfClient(d, k), clients[d][k])
          BY <1>4, <3>1, <4>1
        <4>3. clients'[d][k] = clients[d][k]
          BY <1>2, <2>1, <3>3
        <4> QED
          BY <4>2, <4>3
      <3> QED
        BY <3>2, <3>3
    <2> QED
      BY <1>2, <2>1 DEF RegistryHolds, ClientsTell, FirstOfClient
  <1>6. RulesTell'
    <2>1. ASSUME NEW t \in Tenants, NEW k \in RuleKeys, <<"rule", t, k>> \notin crossed'
          PROVE  Tells(audit', <<"rule", t, k>>, "valor", NoValue, rules[<<t, k>>])
      <3>1. Tells(audit, <<"rule", t, k>>, "valor", NoValue, rules[<<t, k>>])
        BY <2>1 DEF RegistryHolds, RulesTell
      <3>2. <<"client", c>> # <<"rule", t, k>>
        OBVIOUS
      <3> QED
        BY <1>4, <3>1, <3>2
    <2> QED
      BY <2>1 DEF RulesTell
  <1>7. ASSUME NEW v \in Workers
        PROVE  RegistryRequestHolds(req[v])'
    <2>1. CASE v = w
      BY <2>1 DEF Ends, RegistryRequestHolds
    <2>2. CASE v # w
      <3>1. RegistryRequestHolds(req[v])
        BY DEF RegistryHolds
      <3>2. /\ req'[v].op = req[v].op /\ req'[v].on = req[v].on
            /\ req'[v].arg = req[v].arg /\ req[v].late \subseteq req'[v].late
            /\ req[v].on \cap req[w].on \subseteq req'[v].late
        BY <2>2 DEF Ends, Beside, Outdates
      <3>3. KnowsClient(req[v]) => KnowsClient(req[v])'
        BY <1>2, <3>2 DEF KnowsClient, Knows
      <3> QED
        BY <3>1, <3>2, <3>3 DEF RegistryRequestHolds, Knows
    <2> QED
      BY <2>1, <2>2
  <1>8. RegistryTypeOK'
    BY <1>2 DEF Typed, TypeOK, RegistryTypeOK
  <1>9. \A d \in DOMAIN clients :
          d \in DOMAIN clients' /\ clients'[d].tenant = clients[d].tenant
    BY <1>2
  <1> QED
    BY <1>4, <1>5, <1>6, <1>7, <1>8, <1>9 DEF RegistryHolds

LEMMA WriteClientStep ==
    ASSUME IInv, NEW w \in Workers, WriteClient(w), UNCHANGED accountVars
    PROVE  IInv'
  <1> DEFINE a == req[w].arg
             c == req[w].arg.c
             row == Written(clients[c], a.saw, a.want)
             op == "update"
             after == [doc |-> a.want.doc, active |-> a.saw.active]
  <1>1. /\ req[w].op = "update client"
        /\ clients' = [clients EXCEPT ![c] = row]
        /\ Commit(w) /\ Log(<<"client", c>>, op, after)
        /\ UNCHANGED <<rules, settings, profile, objects>>
    BY Zenon DEF WriteClient, Holds
  <1>2. op \in Acoes
    BY DEF Acoes
  <1>3. Typed /\ RegistryHolds /\ Sessions
    BY DEF IInv, Typed
  <1>4. KnowsClient(req[w]) /\ a.want \in [doc: Docs, email: Emails]
    BY <1>1, <1>3 DEF RegistryHolds, RegistryRequestHolds
  <1>5. /\ c \in DOMAIN clients /\ a.saw \in Client /\ <<"client", c>> \in req[w].on
        /\ <<"client", c>> \notin req[w].late => a.saw = clients[c]
    BY <1>4 DEF KnowsClient, Knows
  <1>6. clients[c] \in Client
    BY <1>3, <1>5 DEF Typed, TypeOK, RegistryTypeOK
  <1>7. after \in [doc: Docs, active: BOOLEAN] \cup [active: BOOLEAN]
    BY <1>4, <1>5 DEF Client
  <1>8. /\ after.doc = a.want.doc /\ after.active = a.saw.active
        /\ DOMAIN after = {"doc", "active"} /\ DOMAIN a.want = {"doc", "email"}
    BY <1>4
  <1>9. /\ row \in Client /\ row.tenant = clients[c].tenant
        /\ a.saw = clients[c] => \A k \in {"doc", "active"} :
              row[k] = IF k \in DOMAIN a.want THEN a.want[k] ELSE clients[c][k]
    BY <1>4, <1>5, <1>6, FlushedClient
  <1> HIDE DEF a, c, row, after, op
  <1>10. <<"client", c>> \notin req[w].late => \A k \in {"doc", "active"} :
           row[k] = IF k \in DOMAIN after THEN after[k] ELSE clients[c][k]
    BY <1>5, <1>8, <1>9
  <1>11. Ends(w) /\ Outdates(w) /\ crossed' = crossed \cup req[w].late
    BY ONLY <1>1, <1>3, Committed
  <1>12. /\ RegistryHolds' /\ RegistryTypeOK'
         /\ audit' \in Seq(Entry) /\ Quiet({"user"})
         /\ \A d \in DOMAIN clients :
              d \in DOMAIN clients' /\ clients'[d].tenant = clients[d].tenant
    BY <1>2, <1>1, <1>3, <1>5, <1>7, <1>9, <1>10, <1>11, ClientWritten
  <1> QED
    BY <1>11, <1>12, RegistryEnded

LEMMA WriteDeactivationStep ==
    ASSUME IInv, NEW w \in Workers, WriteDeactivation(w), UNCHANGED accountVars
    PROVE  IInv'
  <1> DEFINE a == req[w].arg
             c == req[w].arg.c
             row == Written(clients[c], a.saw, a.want)
             op == "deactivate"
             after == [active |-> FALSE]
  <1>1. /\ req[w].op = "deactivate client"
        /\ clients' = [clients EXCEPT ![c] = row]
        /\ Commit(w) /\ Log(<<"client", c>>, op, after)
        /\ UNCHANGED <<rules, settings, profile, objects>>
    BY Zenon DEF WriteDeactivation, Holds
  <1>2. op \in Acoes
    BY DEF Acoes
  <1>3. Typed /\ RegistryHolds /\ Sessions
    BY DEF IInv, Typed
  <1>4. KnowsClient(req[w]) /\ a.want = after
    BY <1>1, <1>3 DEF RegistryHolds, RegistryRequestHolds
  <1>5. /\ c \in DOMAIN clients /\ a.saw \in Client /\ <<"client", c>> \in req[w].on
        /\ <<"client", c>> \notin req[w].late => a.saw = clients[c]
    BY <1>4 DEF KnowsClient, Knows
  <1>6. clients[c] \in Client
    BY <1>3, <1>5 DEF Typed, TypeOK, RegistryTypeOK
  <1>7. after \in [doc: Docs, active: BOOLEAN] \cup [active: BOOLEAN]
    OBVIOUS
  <1>8. after \in [active: BOOLEAN]
    OBVIOUS
  <1> HIDE DEF a, c, row, after, op
  <1>9. /\ row \in Client /\ row.tenant = clients[c].tenant
        /\ a.saw = clients[c] => \A k \in {"doc", "active"} :
              row[k] = IF k \in DOMAIN a.want THEN a.want[k] ELSE clients[c][k]
    BY <1>4, <1>5, <1>6, <1>8, FlushedClient DEF row
  <1>10. <<"client", c>> \notin req[w].late => \A k \in {"doc", "active"} :
           row[k] = IF k \in DOMAIN after THEN after[k] ELSE clients[c][k]
    BY <1>4, <1>5, <1>9
  <1>11. Ends(w) /\ Outdates(w) /\ crossed' = crossed \cup req[w].late
    BY ONLY <1>1, <1>3, Committed
  <1>12. /\ RegistryHolds' /\ RegistryTypeOK'
         /\ audit' \in Seq(Entry) /\ Quiet({"user"})
         /\ \A d \in DOMAIN clients :
              d \in DOMAIN clients' /\ clients'[d].tenant = clients[d].tenant
    BY <1>2, <1>1, <1>3, <1>5, <1>7, <1>9, <1>10, <1>11, ClientWritten
  <1> QED
    BY <1>11, <1>12, RegistryEnded

\* What is expected of the sessions when no row they may know was written.
LEMMA RegistryOthers ==
    ASSUME RegistryHolds, NEW w \in Workers, Ends(w),
           \A c \in DOMAIN clients : c \in DOMAIN clients' /\ clients'[c] = clients[c],
           UNCHANGED rules, objects \subseteq objects'
    PROVE  \A v \in Workers : RegistryRequestHolds(req[v])'
  <1> SUFFICES ASSUME NEW v \in Workers
               PROVE  RegistryRequestHolds(req[v])'
    OBVIOUS
  <1>1. CASE v = w
    BY <1>1 DEF Ends, RegistryRequestHolds
  <1>2. CASE v # w
    <2>1. RegistryRequestHolds(req[v])
      BY DEF RegistryHolds
    <2>2. /\ req'[v].op = req[v].op /\ req'[v].on = req[v].on
          /\ req'[v].arg = req[v].arg /\ req[v].late \subseteq req'[v].late
      BY <1>2 DEF Ends, Beside
    <2>3. KnowsClient(req[v]) => KnowsClient(req[v])'
      BY <2>2 DEF KnowsClient, Knows
    <2> QED
      BY <2>1, <2>2, <2>3 DEF RegistryRequestHolds, Knows
  <1> QED
    BY <1>1, <1>2

LEMMA ClientInserted ==
    ASSUME Typed, RegistryHolds, NEW w \in Workers, Ends(w),
           NEW row \in Client, row.active, NEW n, n = Len(clients) + 1,
           clients' = Append(clients, row),
           UNCHANGED <<rules, settings, profile, objects>>,
           NEW acao \in Acoes,
           NEW after, after = [doc |-> row.doc, active |-> TRUE],
           Log(<<"client", n>>, acao, after)
    PROVE  /\ RegistryHolds' /\ RegistryTypeOK'
           /\ audit' \in Seq(Entry) /\ Quiet({"user"})
           /\ \A d \in DOMAIN clients :
                d \in DOMAIN clients' /\ clients'[d].tenant = clients[d].tenant
  <1>1. audit \in Seq(Entry) /\ clients \in Seq(Client)
    BY DEF Typed, TypeOK, RegistryTypeOK
  <1>2. /\ n \in Nat /\ n \notin DOMAIN clients /\ clients' \in Seq(Client)
        /\ DOMAIN clients' = DOMAIN clients \cup {n} /\ Len(clients') = n
        /\ clients'[n] = row /\ \A c \in DOMAIN clients : clients'[c] = clients[c]
    BY <1>1, Appended
  <1>3. Len(clients) \in Nat /\ Len(InitClients) \in Nat /\ Len(InitClients) <= Len(clients)
    BY <1>1, RegistryAssumption DEF RegistryHolds, ClientsTell
  <1>4. Len(clients') >= Len(InitClients)
    BY <1>2, <1>3
  <1>5. after.doc = row.doc /\ after.active = TRUE /\ DOMAIN after = {"doc", "active"}
    OBVIOUS
  <1>6. after \in [doc: Docs, active: BOOLEAN]
    BY DEF Client
  <1> DEFINE on == <<"client", n>>
  <1>7. /\ [on |-> on, acao |-> acao, after |-> after] \in Entry
        /\ on[1] = "client" /\ Log(on, acao, after)
    BY <1>2, <1>6 DEF Entry
  <1> HIDE DEF on
  <1>8. /\ audit' \in Seq(Entry)
        /\ \A kinds : "client" \notin kinds => Quiet(kinds)
        /\ \A e, k, first :
              /\ on = e /\ k \in DOMAIN after => Tells(audit', e, k, first, after[k])
              /\ ~(on = e /\ k \in DOMAIN after) =>
                    \A value : Tells(audit, e, k, first, value)
                                  => Tells(audit', e, k, first, value)
    BY ONLY <1>1, <1>7, Logged
  <1> USE DEF on
  <1>9. crossed \subseteq crossed'
    BY DEF Ends
  <1>10. ClientsTell'
    <2>1. ASSUME NEW c \in DOMAIN clients', <<"client", c>> \notin crossed,
                 NEW k \in {"doc", "active"}
          PROVE  Tells(audit', <<"client", c>>, k, FirstOfClient(c, k), clients'[c][k])
      <3>1. CASE c = n
        <4>1. Tells(audit', <<"client", c>>, k, FirstOfClient(c, k), after[k])
          BY <1>5, <1>8, <3>1
        <4>2. after[k] = row[k]
          BY <1>5 DEF Client
        <4> QED
          BY <1>2, <3>1, <4>1, <4>2
      <3>2. CASE c # n
        <4>1. c \in DOMAIN clients /\ clients'[c] = clients[c]
          BY <1>2, <3>2
        <4>2. Tells(audit, <<"client", c>>, k, FirstOfClient(c, k), clients[c][k])
          BY <2>1, <4>1 DEF RegistryHolds, ClientsTell
        <4>3. <<"client", c>> # on
          BY <3>2
        <4> QED
          BY <1>8, <4>1, <4>2, <4>3
      <3> QED
        BY <3>1, <3>2
    <2> QED
      BY <1>4, <1>9, <2>1 DEF ClientsTell, FirstOfClient
  <1>11. RulesTell'
    <2>1. ASSUME NEW t \in Tenants, NEW k \in RuleKeys, <<"rule", t, k>> \notin crossed
          PROVE  Tells(audit', <<"rule", t, k>>, "valor", NoValue, rules[<<t, k>>])
      <3>1. Tells(audit, <<"rule", t, k>>, "valor", NoValue, rules[<<t, k>>])
        BY <2>1 DEF RegistryHolds, RulesTell
      <3>2. <<"rule", t, k>> # on
        OBVIOUS
      <3> QED
        BY <1>8, <3>1, <3>2
    <2> QED
      BY <1>9, <2>1 DEF RulesTell
  <1>12. \A v \in Workers : RegistryRequestHolds(req[v])'
    BY <1>2, RegistryOthers
  <1>13. RegistryTypeOK'
    BY <1>2 DEF Typed, TypeOK, RegistryTypeOK
  <1> QED
    BY <1>2, <1>8, <1>10, <1>11, <1>12, <1>13 DEF RegistryHolds

LEMMA InsertClientStep ==
    ASSUME IInv, NEW w \in Workers, InsertClient(w), UNCHANGED accountVars
    PROVE  IInv'
  <1> DEFINE row == req[w].arg.row
             n == Len(clients) + 1
             after == [doc |-> row.doc, active |-> TRUE]
             op == "create"
  <1>1. /\ req[w].op = "create client"
        /\ clients' = Append(clients, row)
        /\ Commit(w) /\ Log(<<"client", n>>, op, after)
        /\ UNCHANGED <<rules, settings, profile, objects>>
    BY Zenon DEF InsertClient, Holds
  <1>2. Typed /\ RegistryHolds /\ Sessions
    BY DEF IInv, Typed
  <1>3. row \in Client /\ row.active
    BY <1>1, <1>2 DEF RegistryHolds, RegistryRequestHolds
  <1>4. op \in Acoes /\ n = Len(clients) + 1 /\ after = [doc |-> row.doc, active |-> TRUE]
    BY DEF Acoes
  <1> HIDE DEF row, n, after, op
  <1>5. Ends(w)
    BY ONLY <1>1, <1>2, Committed
  <1>6. /\ RegistryHolds' /\ RegistryTypeOK'
        /\ audit' \in Seq(Entry) /\ Quiet({"user"})
        /\ \A d \in DOMAIN clients :
             d \in DOMAIN clients' /\ clients'[d].tenant = clients[d].tenant
    BY <1>1, <1>2, <1>3, <1>4, <1>5, ClientInserted
  <1> QED
    BY <1>5, <1>6, RegistryEnded

LEMMA RuleWritten ==
    ASSUME Typed, RegistryHolds, NEW w \in Workers, Ends(w), Outdates(w),
           crossed' = crossed \cup req[w].late,
           NEW t \in Tenants, NEW k \in RuleKeys, <<"rule", t, k>> \in req[w].on,
           NEW new \in Values \cup {NoValue}, NEW want \in Values,
           rules' = [rules EXCEPT ![<<t, k>>] = new],
           UNCHANGED <<clients, settings, profile, objects>>,
           NEW acao \in Acoes, NEW after, after = [valor |-> want],
           Log(<<"rule", t, k>>, acao, after),
           <<"rule", t, k>> \notin req[w].late => new = want
    PROVE  /\ RegistryHolds' /\ RegistryTypeOK'
           /\ audit' \in Seq(Entry) /\ Quiet({"user"})
  <1>1. /\ audit \in Seq(Entry)
        /\ rules \in [Tenants \X RuleKeys -> Values \cup {NoValue}]
        /\ <<t, k>> \in Tenants \X RuleKeys
    BY DEF Typed, TypeOK, RegistryTypeOK
  <1>2. /\ rules' \in [Tenants \X RuleKeys -> Values \cup {NoValue}]
        /\ rules'[<<t, k>>] = new
        /\ \A x \in Tenants \X RuleKeys : x # <<t, k>> => rules'[x] = rules[x]
    BY <1>1
  <1>3. after \in [valor: Values] /\ "valor" \in DOMAIN after /\ after["valor"] = want
    OBVIOUS
  <1> DEFINE on == <<"rule", t, k>>
  <1>4. /\ on \in {"rule"} \X Tenants \X RuleKeys
        /\ on[1] = "rule" /\ Log(on, acao, after)
    OBVIOUS
  <1> HIDE DEF on
  <1>5. [on |-> on, acao |-> acao, after |-> after] \in Entry
    BY <1>3, <1>4 DEF Entry
  <1>6. /\ audit' \in Seq(Entry)
        /\ \A kinds : "rule" \notin kinds => Quiet(kinds)
        /\ \A e, f, first :
              /\ on = e /\ f \in DOMAIN after => Tells(audit', e, f, first, after[f])
              /\ ~(on = e /\ f \in DOMAIN after) =>
                    \A value : Tells(audit, e, f, first, value)
                                  => Tells(audit', e, f, first, value)
    BY ONLY <1>1, <1>4, <1>5, Logged
  <1> USE DEF on
  <1>7. crossed \subseteq crossed'
    BY DEF Ends
  <1>8. ClientsTell'
    <2>1. ASSUME NEW c \in DOMAIN clients, <<"client", c>> \notin crossed,
                 NEW f \in {"doc", "active"}
          PROVE  Tells(audit', <<"client", c>>, f, FirstOfClient(c, f), clients[c][f])
      <3>1. Tells(audit, <<"client", c>>, f, FirstOfClient(c, f), clients[c][f])
        BY <2>1 DEF RegistryHolds, ClientsTell
      <3>2. <<"client", c>> # on
        OBVIOUS
      <3> QED
        BY <1>6, <3>1, <3>2
    <2> QED
      BY <1>7, <2>1 DEF RegistryHolds, ClientsTell, FirstOfClient
  <1>9. RulesTell'
    <2>1. ASSUME NEW s \in Tenants, NEW j \in RuleKeys, <<"rule", s, j>> \notin crossed'
          PROVE  Tells(audit', <<"rule", s, j>>, "valor", NoValue, rules'[<<s, j>>])
      <3>1. CASE s = t /\ j = k
        <4>1. rules'[<<s, j>>] = want
          BY <1>2, <2>1, <3>1
        <4>2. Tells(audit', on, "valor", NoValue, after["valor"])
          BY <1>3, <1>6
        <4> QED
          BY <1>3, <3>1, <4>1, <4>2
      <3>2. CASE ~(s = t /\ j = k)
        <4>1. Tells(audit, <<"rule", s, j>>, "valor", NoValue, rules[<<s, j>>])
          BY <1>7, <2>1 DEF RegistryHolds, RulesTell
        <4>2. <<"rule", s, j>> # on /\ <<s, j>> # <<t, k>> /\ <<s, j>> \in Tenants \X RuleKeys
          BY <3>2
        <4>3. rules'[<<s, j>>] = rules[<<s, j>>]
          BY <1>2, <4>2
        <4> QED
          BY <1>6, <4>1, <4>2, <4>3
      <3> QED
        BY <3>1, <3>2
    <2> QED
      BY <2>1 DEF RulesTell
  <1>10. ASSUME NEW v \in Workers
         PROVE  RegistryRequestHolds(req[v])'
    <2>1. CASE v = w
      BY <2>1 DEF Ends, RegistryRequestHolds
    <2>2. CASE v # w
      <3>1. RegistryRequestHolds(req[v])
        BY DEF RegistryHolds
      <3>2. /\ req'[v].op = req[v].op /\ req'[v].on = req[v].on
            /\ req'[v].arg = req[v].arg /\ req[v].late \subseteq req'[v].late
            /\ req[v].on \cap req[w].on \subseteq req'[v].late
        BY <2>2 DEF Ends, Beside, Outdates
      <3>3. KnowsClient(req[v]) => KnowsClient(req[v])'
        BY <3>2 DEF KnowsClient, Knows
      <3>4. ASSUME NEW s \in Tenants, NEW j \in RuleKeys, NEW saw,
                   Knows(req[v], <<"rule", s, j>>, saw = rules[<<s, j>>])
            PROVE  Knows(req'[v], <<"rule", s, j>>, saw = rules'[<<s, j>>])
        <4>1. CASE s = t /\ j = k
          BY <3>2, <3>4, <4>1 DEF Knows
        <4>2. CASE ~(s = t /\ j = k)
          <5>1. <<s, j>> # <<t, k>> /\ <<s, j>> \in Tenants \X RuleKeys
            BY <4>2
          <5>2. rules'[<<s, j>>] = rules[<<s, j>>]
            BY <1>2, <5>1
          <5> QED
            BY <3>2, <3>4, <5>2 DEF Knows
        <4> QED
          BY <4>1, <4>2
      <3> QED
        BY <3>1, <3>2, <3>3, <3>4 DEF RegistryRequestHolds
    <2> QED
      BY <2>1, <2>2
  <1>11. RegistryTypeOK'
    BY <1>2 DEF Typed, TypeOK, RegistryTypeOK
  <1> QED
    BY <1>6, <1>8, <1>9, <1>10, <1>11 DEF RegistryHolds

LEMMA WriteRuleStep ==
    ASSUME IInv, NEW w \in Workers, WriteRule(w), UNCHANGED accountVars
    PROVE  IInv'
  <1> DEFINE a == req[w].arg
             t == req[w].arg.t
             k == req[w].arg.k
             want == req[w].arg.want
             new == Upserted(rules[<<t, k>>], a.saw, want)
             op == IF a.saw = NoValue THEN "create" ELSE "update"
             after == [valor |-> want]
  <1>1. op \in Acoes /\ after = [valor |-> want]
    BY DEF Acoes
  <1>2. /\ req[w].op = "put rule"
        /\ rules' = [rules EXCEPT ![<<t, k>>] = new]
        /\ Commit(w) /\ Log(<<"rule", t, k>>, op, after)
        /\ UNCHANGED <<clients, settings, profile, objects>>
    BY Zenon DEF WriteRule, Holds
  <1>3. Typed /\ RegistryHolds /\ Sessions
    BY DEF IInv, Typed
  <1>4. /\ t \in Tenants /\ k \in RuleKeys /\ want \in Values
        /\ Knows(req[w], <<"rule", t, k>>, a.saw = rules[<<t, k>>])
    BY <1>2, <1>3 DEF RegistryHolds, RegistryRequestHolds
  <1>5. rules[<<t, k>>] \in Values \cup {NoValue}
    BY <1>3, <1>4 DEF Typed, TypeOK, RegistryTypeOK
  <1>6. new \in Values \cup {NoValue}
    BY <1>4, <1>5 DEF Upserted
  <1>7. a.saw = rules[<<t, k>>] => new = want
    BY DEF Upserted
  <1> HIDE DEF a, t, k, want, new, op, after
  <1>8. /\ <<"rule", t, k>> \in req[w].on
        /\ <<"rule", t, k>> \notin req[w].late => new = want
    BY <1>4, <1>7 DEF Knows
  <1>9. Ends(w) /\ Outdates(w) /\ crossed' = crossed \cup req[w].late
    BY ONLY <1>2, <1>3, Committed
  <1>10. /\ RegistryHolds' /\ RegistryTypeOK'
         /\ audit' \in Seq(Entry) /\ Quiet({"user"})
    BY <1>1, <1>2, <1>3, <1>4, <1>6, <1>8, <1>9, RuleWritten
  <1> QED
    BY <1>2, <1>9, <1>10, RegistryEnded

\* A session that writes neither clients nor rules.
LEMMA PlainlyWritten ==
    ASSUME IInv, NEW w \in Workers, Ends(w), UNCHANGED accountVars,
           UNCHANGED <<audit, clients, rules, objects>>, RegistryTypeOK'
    PROVE  IInv'
  <1>1. Quiet({"user"}) /\ Quiet({"client", "rule"})
    BY DEF Quiet
  <1>2. Typed /\ RegistryHolds /\ audit \in Seq(Entry)
    BY DEF IInv, Typed
  <1>3. /\ Beside(w) /\ req'[w].op = "idle" /\ crossed \subseteq crossed'
        /\ objects \subseteq objects'
    BY DEF Ends
  <1>4. RegistryRequestHolds(req[w])'
    BY <1>3, ExpectedOf DEF RequestHolds
  <1>5. RegistryHolds'
    BY <1>1, <1>2, <1>3, <1>4, RegistryKept
  <1> QED
    BY <1>1, <1>2, <1>5, RegistryEnded

LEMMA WriteSettingStep ==
    ASSUME IInv, NEW w \in Workers, WriteSetting(w), UNCHANGED accountVars
    PROVE  IInv'
  <1> DEFINE a == req[w].arg
             new == Upserted(settings[a.k], a.saw, a.want)
  <1>1. /\ req[w].op = "put setting"
        /\ settings' = [settings EXCEPT ![a.k] = new]
        /\ Commit(w)
        /\ UNCHANGED <<audit, clients, rules, profile, objects>>
    BY Zenon DEF WriteSetting, Holds
  <1>2. Typed /\ RegistryHolds /\ Sessions
    BY DEF IInv, Typed
  <1>3. a.k \in SettingKeys /\ a.want \in Values
    BY <1>1, <1>2 DEF RegistryHolds, RegistryRequestHolds
  <1>4. settings \in [SettingKeys -> Values \cup {NoValue}]
    BY <1>2 DEF Typed, TypeOK, RegistryTypeOK
  <1>5. new \in Values \cup {NoValue}
    BY <1>3, <1>4 DEF Upserted
  <1> HIDE DEF new
  <1>6. settings' \in [SettingKeys -> Values \cup {NoValue}]
    BY <1>1, <1>4, <1>5
  <1>7. RegistryTypeOK'
    BY <1>1, <1>2, <1>6 DEF Typed, TypeOK, RegistryTypeOK
  <1>8. Ends(w)
    BY ONLY <1>1, <1>2, Committed
  <1> QED
    BY <1>1, <1>7, <1>8, PlainlyWritten

LEMMA WriteProfileStep ==
    ASSUME IInv, NEW w \in Workers, WriteProfile(w), UNCHANGED accountVars
    PROVE  IInv'
  <1> DEFINE a == req[w].arg
             Row == [name: Names, logo: objects \cup {0}]
             new == Written(profile[a.t], a.saw, a.want)
  <1>1. /\ req[w].op = "update profile"
        /\ profile' = [profile EXCEPT ![a.t] = new]
        /\ Commit(w)
        /\ UNCHANGED <<audit, clients, rules, settings, objects>>
    BY Zenon DEF WriteProfile, Holds
  <1>2. Typed /\ RegistryHolds /\ Sessions
    BY DEF IInv, Typed
  <1>3. a.t \in Tenants /\ a.want \in [name: Names] \cup [logo: objects]
    BY <1>1, <1>2 DEF RegistryHolds, RegistryRequestHolds
  <1>4. profile \in [Tenants -> Row]
    BY <1>2 DEF Typed, TypeOK, RegistryTypeOK
  <1>5. new \in Row
    <2>1. profile[a.t] \in Row
      BY <1>3, <1>4
    <2>2. CASE a.want \in [name: Names]
      BY <2>1, <2>2 DEF Written
    <2>3. CASE a.want \in [logo: objects]
      BY <2>1, <2>3 DEF Written
    <2> QED
      BY <1>3, <2>2, <2>3
  <1> HIDE DEF new
  <1>6. profile' \in [Tenants -> Row]
    BY <1>1, <1>4, <1>5
  <1>7. RegistryTypeOK'
    BY <1>1, <1>2, <1>6 DEF Typed, TypeOK, RegistryTypeOK
  <1>8. Ends(w)
    BY ONLY <1>1, <1>2, Committed
  <1> QED
    BY <1>1, <1>7, <1>8, PlainlyWritten

\* The session with a new logo loads the row and goes on as an update.
LEMMA LoadTenantStep ==
    ASSUME IInv, NEW w \in Workers, LoadTenant(w), UNCHANGED accountVars
    PROVE  IInv'
  <1> DEFINE a == req[w].arg
             op == "update profile"
             arg == [t |-> a.t, saw |-> profile[a.t], want |-> [logo |-> a.key]]
  <1>1. /\ req[w].op = "put logo"
        /\ req' = [req EXCEPT ![w].op = op, ![w].arg = arg]
        /\ UNCHANGED <<asked, crossed, audit>> /\ UNCHANGED registryVars
    BY DEF LoadTenant, Holds
  <1>2. /\ UNCHANGED <<clients, rules, settings, profile, objects>>
        /\ UNCHANGED <<asked, crossed, audit>>
    BY <1>1 DEF registryVars
  <1>3. Typed /\ RegistryHolds /\ Sessions /\ audit \in Seq(Entry)
    BY DEF IInv, Typed
  <1>4. a.t \in Tenants /\ a.key \in objects
    BY <1>1, <1>3 DEF RegistryHolds, RegistryRequestHolds
  <1>5. op = "update profile" /\ arg.t \in Tenants /\ arg.want \in [logo: objects]
    BY <1>4
  <1> HIDE DEF op, arg
  <1>6. DOMAIN req = Workers /\ req = [v \in Workers |-> req[v]] /\ Shaped(req[w])
    BY <1>3 DEF Sessions
  <1>7. /\ req'[w] = [req[w] EXCEPT !.op = op, !.arg = arg]
        /\ req' = [v \in Workers |-> req'[v]]
        /\ \A v \in Workers \ {w} : req'[v] = req[v]
    BY <1>1, <1>6
  <1>8. /\ req'[w].op = op /\ req'[w].arg = arg /\ Shaped(req'[w])
    BY <1>6, <1>7 DEF Shaped
  <1>9. \A v \in Workers : Shaped(req'[v])
    BY <1>3, <1>7, <1>8 DEF Sessions
  <1>10. Sessions' /\ Beside(w)
    BY <1>7, <1>9 DEF Sessions, Shaped, Beside
  <1>11. RegistryRequestHolds(req[w])'
    BY <1>2, <1>5, <1>8 DEF RegistryRequestHolds
  <1>12. RequestHolds(req[w])'
    BY ONLY <1>5, <1>8, <1>11, ExpectedOf
  <1>13. Quiet({"user"}) /\ Quiet({"client", "rule"})
    BY <1>2 DEF Quiet
  <1>14. RegistryHolds'
    BY <1>2, <1>3, <1>10, <1>11, <1>13, RegistryKept
  <1>15. Typed'
    <2>1. RegistryTypeOK' /\ AccountsTypeOK'
      BY <1>2, <1>3 DEF Typed, TypeOK, RegistryTypeOK, AccountsTypeOK, accountVars
    <2>2. \A v \in Workers : req'[v].late \subseteq req'[v].on
      BY <1>9 DEF Shaped
    <2> QED
      BY <1>2, <1>3, <1>10, <2>1, <2>2 DEF Typed, TypeOK
  <1> QED
    BY <1>2, <1>10, <1>12, <1>13, <1>14, <1>15, RegistryWritten

\* Whatever a session of the registry does next.
LEMMA RegistryGoesOnStep ==
    ASSUME IInv, NEW w \in Workers, RegistryGoesOn(w), UNCHANGED accountVars
    PROVE  IInv'
  BY InsertClientStep, WriteClientStep, WriteDeactivationStep, WriteRuleStep,
     WriteSettingStep, LoadTenantStep, WriteProfileStep DEF RegistryGoesOn

-----------------------------------------------------------------------------
(* What the sessions about tokens write *)

\* The registry under a step of the accounts.
LEMMA AccountsEnded ==
    ASSUME IInv, NEW w \in Workers, Ends(w), UNCHANGED registryVars,
           audit' \in Seq(Entry), Quiet({"client", "rule"}),
           AccountsTypeOK', TokensHold', ResetsHold', SignOutsHold',
           CustomersAreHeld', UsersHold'
    PROVE  IInv'
  <1>1. Typed /\ RegistryHolds
    BY DEF IInv
  <1>2. /\ UNCHANGED <<clients, rules, settings, profile, objects>>
        /\ objects \subseteq objects'
    BY DEF registryVars
  <1>3. RegistryTypeOK'
    BY <1>1, <1>2 DEF Typed, TypeOK, RegistryTypeOK
  <1>4. Typed'
    BY <1>1, <1>3, TypedAfter
  <1>5. Beside(w) /\ req'[w].op = "idle" /\ crossed \subseteq crossed'
    BY DEF Ends
  <1>6. RegistryRequestHolds(req[w])'
    BY <1>5, ExpectedOf DEF RequestHolds
  <1>7. RegistryHolds'
    BY <1>1, <1>2, <1>5, <1>6, RegistryKept
  <1> QED
    BY <1>4, <1>7 DEF IInv

\* What ends with a session that is over: everything expected of it.
LEMMA NothingHeld ==
    ASSUME NEW w, Ends(w)
    PROVE  /\ TokenRequestHolds(req[w])' /\ ResetRequestHolds(req[w])'
           /\ SignOutRequestHolds(req[w])' /\ CustomerRequestHolds(req[w])'
           /\ UserRequestHolds(req[w])'
           /\ Beside(w) /\ crossed \subseteq crossed'
  BY ExpectedOf DEF RequestHolds, Ends

\* The other parts when only tokens, times and mails are written.
LEMMA UsersAlone ==
    ASSUME IInv, NEW w \in Workers, Ends(w), UNCHANGED registryVars, UNCHANGED users,
           audit' \in Seq(Entry), Quiet({"client", "rule", "user"})
    PROVE  CustomersAreHeld' /\ UsersHold' /\ Quiet({"client", "rule"})
  <1>1. /\ Typed /\ CustomersAreHeld /\ UsersHold /\ audit \in Seq(Entry)
        /\ clients \in Seq(Client) /\ users \in Seq(User)
    BY DEF IInv, Typed, TypeOK, RegistryTypeOK, AccountsTypeOK
  <1>2. UNCHANGED clients
    BY DEF registryVars
  <1>3. /\ CustomerRequestHolds(req[w])' /\ UserRequestHolds(req[w])'
        /\ Beside(w) /\ crossed \subseteq crossed'
    BY NothingHeld
  <1>4. Quiet({"user"}) /\ Quiet({"client", "rule"})
    BY DEF Quiet
  <1>5. \A i \in DOMAIN audit : i \in DOMAIN audit' /\ audit'[i] = audit[i]
    BY <1>1, <1>4, QuietGrows
  <1>6. \A c \in DOMAIN clients' : c # 0
    BY <1>1, <1>2
  <1>7. CustomersAreHeld'
    BY <1>1, <1>2, <1>3, <1>5, <1>6, CustomersKept
  <1>8. UsersHold'
    <2>1. Len(users) \in Nat
      BY <1>1
    <2> QED
      BY <1>1, <1>3, <1>4, <2>1, UsersKept
  <1> QED
    BY <1>4, <1>7, <1>8

LEMMA LoginStored ==
    ASSUME Typed, TokensHold, NEW w \in Workers, Ends(w), UNCHANGED users,
           NEW u \in DOMAIN users, NEW new,
           new = [user |-> u, family |-> Len(refresh) + 1, from |-> 0, revoked |-> FALSE],
           refresh' = Append(refresh, new)
    PROVE  TokensHold' /\ refresh' \in Seq(RefreshToken)
  <1> DEFINE n == Len(refresh) + 1
  <1>1. refresh \in Seq(RefreshToken) /\ users \in Seq(User)
    BY DEF Typed, TypeOK, AccountsTypeOK
  <1>2. /\ new.user = u /\ new.from = 0 /\ new.revoked = FALSE
        /\ u \in Nat /\ Len(refresh) + 1 \in Nat
    BY <1>1
  <1>3. new \in RefreshToken
    BY <1>2 DEF RefreshToken
  <1>4. /\ refresh' \in Seq(RefreshToken)
        /\ DOMAIN refresh' = DOMAIN refresh \cup {n} /\ n \notin DOMAIN refresh
        /\ \A i \in DOMAIN refresh : refresh'[i] = refresh[i]
        /\ refresh'[n] = new
    BY <1>1, <1>3, Appended
  <1> HIDE DEF n
  <1>5. crossed \subseteq crossed' /\ Beside(w) /\ TokenRequestHolds(req[w])'
    BY NothingHeld
  <1>6. SuccessorsHold'
    <2>1. ASSUME NEW i \in DOMAIN refresh'
          PROVE  /\ refresh'[i].user \in DOMAIN users
                 /\ refresh'[i].from # 0 =>
                       /\ refresh'[i].from \in DOMAIN refresh'
                       /\ refresh'[refresh'[i].from].revoked
      <3>1. CASE i = n
        BY <1>2, <1>4, <3>1
      <3>2. CASE i # n
        <4>1. i \in DOMAIN refresh /\ refresh'[i] = refresh[i]
          BY <1>4, <3>2
        <4>2. /\ refresh[i].user \in DOMAIN users
              /\ refresh[i].from # 0 => /\ refresh[i].from \in DOMAIN refresh
                                        /\ refresh[refresh[i].from].revoked
          BY <4>1 DEF TokensHold, SuccessorsHold
        <4> QED
          BY <1>4, <4>1, <4>2
      <3> QED
        BY <3>1, <3>2
    <2>2. ASSUME NEW i \in DOMAIN refresh', NEW j \in DOMAIN refresh',
                 refresh'[i].from = refresh'[j].from, refresh'[i].from # 0
          PROVE  i = j \/ <<"token", refresh'[i].from>> \in crossed'
      <3>1. i # n /\ j # n
        BY <1>2, <1>4, <2>2
      <3>2. /\ i \in DOMAIN refresh /\ refresh'[i] = refresh[i]
            /\ j \in DOMAIN refresh /\ refresh'[j] = refresh[j]
        BY <1>4, <3>1
      <3> QED
        BY <1>5, <2>2, <3>2 DEF TokensHold, SuccessorsHold
    <2> QED
      BY <2>1, <2>2 DEF SuccessorsHold
  <1>8. FamiliesHold'
    <2>1. Len(refresh) \in Nat /\ Len(refresh') = n
      BY <1>1, <1>3 DEF n
    <2>2. new.family = n
      BY DEF n
    <2>3. \A i \in DOMAIN refresh : refresh[i].family \in Nat
      <3>1. \A i \in DOMAIN refresh : refresh[i] \in RefreshToken
        BY <1>1
      <3> QED
        BY <3>1 DEF RefreshToken
    <2>4. \A i \in DOMAIN refresh : refresh[i].family <= Len(refresh)
      BY DEF TokensHold, FamiliesHold
    <2>5. \A i \in DOMAIN refresh : refresh[i].family <= n /\ refresh[i].family # n
      BY <2>1, <2>3, <2>4 DEF n
    <2>6. \A i \in DOMAIN refresh' : refresh'[i].family <= Len(refresh')
      BY <1>4, <2>1, <2>2, <2>5
    <2>7. ASSUME NEW i \in DOMAIN refresh', NEW j \in DOMAIN refresh',
                 refresh'[i].family = refresh'[j].family,
                 ~refresh'[i].revoked, ~refresh'[j].revoked, i # j
          PROVE  \E k \in DOMAIN refresh' :
                   /\ refresh'[k].family = refresh'[i].family
                   /\ <<"token", k>> \in crossed'
      <3>1. i \in DOMAIN refresh /\ j \in DOMAIN refresh
        BY <1>4, <2>2, <2>5, <2>7
      <3>2. Doubled(refresh[i].family)
        BY <1>4, <2>7, <3>1 DEF TokensHold, FamiliesHold, Doubled
      <3> QED
        BY <1>4, <1>5, <3>1, <3>2 DEF Doubled
    <2> QED
      BY <2>6, <2>7 DEF FamiliesHold, Doubled
  <1>7. ASSUME NEW v \in Workers \ {w}
        PROVE  TokenRequestHolds(req[v])'
    <2>1. TokenRequestHolds(req[v])
      BY DEF TokensHold
    <2>2. /\ req'[v].op = req[v].op /\ req'[v].on = req[v].on
          /\ req'[v].arg = req[v].arg /\ req[v].late \subseteq req'[v].late
      BY <1>5 DEF Beside
    <2>3. \A i \in DOMAIN refresh : i \in DOMAIN refresh' /\ refresh'[i] = refresh[i]
      BY <1>4
    <2>4. UNCHANGED users
      OBVIOUS
    <2> QED
      BY ONLY <2>1, <2>2, <2>3, <2>4 DEF TokenRequestHolds, Knows
  <1> QED
    BY <1>4, <1>5, <1>6, <1>7, <1>8 DEF TokensHold

LEMMA EndLoginStep ==
    ASSUME IInv, NEW w \in Workers, EndLogin(w)
    PROVE  IInv'
  <1> DEFINE a == req[w].arg
             u == req[w].arg.u
             new == [user |-> u, family |-> Len(refresh) + 1, from |-> 0, revoked |-> FALSE]
             pass == [user |-> u, role |-> a.role, made |-> a.at]
             on == <<"login", u>>
             op == "login"
             after == <<>>
  <1>1. /\ req[w].op = "login"
        /\ refresh' = Append(refresh, new)
        /\ access' = access \cup {pass}
        /\ Commit(w) /\ Log(on, op, after)
        /\ UNCHANGED registryVars
        /\ UNCHANGED <<users, resets, mails, proposals, now, signouts>>
    <2>1. AddToken(refresh, u, Len(refresh) + 1, 0) = Append(refresh, new)
      BY DEF AddToken
    <2>2. /\ UNCHANGED registryVars
          /\ UNCHANGED <<users, resets, mails, proposals, now, signouts>>
      BY DEF EndLogin
    <2>3. /\ req[w].op = "login" /\ access' = access \cup {pass}
          /\ refresh' = AddToken(refresh, u, Len(refresh) + 1, 0)
          /\ Commit(w) /\ Log(on, op, after)
      BY Zenon DEF EndLogin, Holds
    <2> QED
      BY <2>1, <2>2, <2>3
  <1>2. /\ Typed /\ TokensHold /\ Sessions /\ audit \in Seq(Entry)
        /\ ResetsHold /\ SignOutsHold /\ users \in Seq(User) /\ AccountsTypeOK
    BY DEF IInv, Typed, TypeOK, AccountsTypeOK
  <1>3. u \in DOMAIN users /\ a.role \in Roles /\ a.at \in 1..MaxNow
    BY <1>1, <1>2 DEF TokensHold, TokenRequestHolds
  <1>4. new = [user |-> u, family |-> Len(refresh) + 1, from |-> 0, revoked |-> FALSE]
    OBVIOUS
  <1>5. pass \in [user: DOMAIN users, role: Roles, made: 1..MaxNow]
    BY <1>3
  <1>6. /\ op \in Acoes /\ on \in {"login"} \X Nat /\ on[1] = "login" /\ after = <<>>
    BY <1>2, <1>3 DEF Acoes
  <1> HIDE DEF a, u, new, pass, on, op, after
  <1>7. Ends(w)
    BY ONLY <1>1, <1>2, Committed
  <1>8. [on |-> on, acao |-> op, after |-> after] \in Entry
    BY <1>6 DEF Entry
  <1>9. audit' \in Seq(Entry) /\ \A kinds : on[1] \notin kinds => Quiet(kinds)
    BY ONLY <1>1, <1>2, <1>8, Logged
  <1>10. Quiet({"client", "rule", "user"})
    <2>1. "login" \notin {"client", "rule", "user"}
      OBVIOUS
    <2> QED
      BY <1>6, <1>9, <2>1
  <1>11. TokensHold' /\ refresh' \in Seq(RefreshToken)
    BY <1>1, <1>2, <1>3, <1>4, <1>7, LoginStored
  <1>12. AccountsTypeOK'
    BY <1>1, <1>2, <1>5, <1>11 DEF AccountsTypeOK
  <1>13. /\ TokenRequestHolds(req[w])' /\ ResetRequestHolds(req[w])'
         /\ SignOutRequestHolds(req[w])' /\ Beside(w) /\ crossed \subseteq crossed'
    BY ONLY <1>7, NothingHeld
  <1>14. ResetsHold'
    BY <1>1, <1>2, <1>13, ResetsKept
  <1>15. SignOutsHold'
    BY <1>1, <1>2, <1>13, SignOutsKept
  <1>16. CustomersAreHeld' /\ UsersHold' /\ Quiet({"client", "rule"})
    BY <1>1, <1>7, <1>9, <1>10, UsersAlone
  <1> QED
    BY <1>1, <1>7, <1>9, <1>11, <1>12, <1>14, <1>15, <1>16, AccountsEnded

\* A token that is used has a successor; it has two only if two refreshes
\* overlapped.
LEMMA TokenUsed ==
    ASSUME Typed, TokensHold, NEW w \in Workers, Ends(w), Outdates(w),
           crossed' = crossed \cup req[w].late, UNCHANGED users,
           NEW i \in DOMAIN refresh,
           Knows(req[w], <<"token", i>>, ~refresh[i].revoked),
           NEW new,
           new = [user |-> refresh[i].user, family |-> refresh[i].family,
                  from |-> i, revoked |-> FALSE],
           refresh' = Append([refresh EXCEPT ![i].revoked = TRUE], new)
    PROVE  TokensHold' /\ refresh' \in Seq(RefreshToken)
  <1> DEFINE n == Len(refresh) + 1
             old == [refresh[i] EXCEPT !.revoked = TRUE]
             used == [refresh EXCEPT ![i].revoked = TRUE]
  <1>1. /\ refresh \in Seq(RefreshToken) /\ users \in Seq(User)
        /\ refresh[i] \in RefreshToken /\ i \in Nat /\ i # 0
    BY DEF Typed, TypeOK, AccountsTypeOK
  <1>2. /\ new.user = refresh[i].user /\ new.from = i /\ new.revoked = FALSE
        /\ new \in RefreshToken
    BY <1>1 DEF RefreshToken
  <1>3. /\ old \in RefreshToken /\ old.user = refresh[i].user
        /\ old.from = refresh[i].from /\ old.revoked
    BY <1>1 DEF RefreshToken
  <1>4. used = [refresh EXCEPT ![i] = old]
    OBVIOUS
  <1> HIDE DEF old, used
  <1>5. /\ used \in Seq(RefreshToken) /\ Len(used) = Len(refresh)
        /\ DOMAIN used = DOMAIN refresh /\ used[i] = old
        /\ \A j \in DOMAIN refresh \ {i} : used[j] = refresh[j]
    BY <1>1, <1>3, <1>4
  <1>6. /\ refresh' \in Seq(RefreshToken)
        /\ DOMAIN refresh' = DOMAIN refresh \cup {n} /\ n \notin DOMAIN refresh
        /\ \A j \in DOMAIN refresh : refresh'[j] = used[j]
        /\ refresh'[n] = new
    <2>1. refresh' = Append(used, new)
      BY DEF used
    <2>2. used \in Seq(RefreshToken) /\ new \in RefreshToken
      BY <1>2, <1>5
    <2>3. /\ refresh' \in Seq(RefreshToken)
          /\ DOMAIN refresh' = DOMAIN used \cup {Len(used) + 1}
          /\ Len(used) + 1 \notin DOMAIN used
          /\ \A j \in DOMAIN used : refresh'[j] = used[j]
          /\ refresh'[Len(used) + 1] = new
      BY ONLY <2>1, <2>2, Appended
    <2> QED
      BY <1>5, <2>3
  <1> HIDE DEF n
  <1>7. /\ n # i /\ refresh'[i] = old
        /\ \A j \in DOMAIN refresh : /\ j \in DOMAIN refresh'
                                     /\ refresh'[j].user = refresh[j].user
                                     /\ refresh'[j].from = refresh[j].from
                                     /\ refresh[j].revoked => refresh'[j].revoked
                                     /\ j # i => refresh'[j] = refresh[j]
    BY <1>3, <1>5, <1>6
  <1>8. crossed \subseteq crossed' /\ Beside(w) /\ TokenRequestHolds(req[w])'
    BY NothingHeld
  <1>9. \A j \in DOMAIN refresh' : j \in DOMAIN refresh \/ j = n
    BY <1>6
  <1>10. refresh[i].revoked => <<"token", i>> \in crossed'
    BY DEF Knows
  <1>11. SuccessorsHold'
    <2>1. ASSUME NEW j \in DOMAIN refresh'
          PROVE  /\ refresh'[j].user \in DOMAIN users
                 /\ refresh'[j].from # 0 =>
                       /\ refresh'[j].from \in DOMAIN refresh'
                       /\ refresh'[refresh'[j].from].revoked
      <3>1. CASE j = n
        <4>1. refresh[i].user \in DOMAIN users
          BY DEF TokensHold, SuccessorsHold
        <4>2. n \in DOMAIN refresh' /\ i \in DOMAIN refresh' /\ refresh'[i].revoked
          BY <1>3, <1>6, <1>7
        <4> QED
          BY <1>2, <1>6, <3>1, <4>1, <4>2
      <3>2. CASE j = i
        <4>1. /\ refresh[j].user \in DOMAIN users
              /\ refresh[j].from # 0 => /\ refresh[j].from \in DOMAIN refresh
                                        /\ refresh[refresh[j].from].revoked
          BY <3>2 DEF TokensHold, SuccessorsHold
        <4> QED
          BY <1>7, <3>2, <4>1
      <3>3. CASE j # n /\ j # i
        <4>1. j \in DOMAIN refresh /\ refresh'[j] = refresh[j]
          BY <1>7, <1>9, <3>3
        <4>2. /\ refresh[j].user \in DOMAIN users
              /\ refresh[j].from # 0 => /\ refresh[j].from \in DOMAIN refresh
                                        /\ refresh[refresh[j].from].revoked
          BY <4>1 DEF TokensHold, SuccessorsHold
        <4> QED
          BY <1>7, <4>1, <4>2
      <3> QED
        BY <3>1, <3>2, <3>3
    <2>2. ASSUME NEW j \in DOMAIN refresh', NEW k \in DOMAIN refresh',
                 refresh'[j].from = refresh'[k].from, refresh'[j].from # 0
          PROVE  j = k \/ <<"token", refresh'[j].from>> \in crossed'
      <3>1. CASE j \in DOMAIN refresh /\ k \in DOMAIN refresh
        <4>1. refresh[j].from = refresh[k].from /\ refresh[j].from # 0
          BY <1>7, <2>2, <3>1
        <4>2. j = k \/ <<"token", refresh[j].from>> \in crossed
          BY <3>1, <4>1 DEF TokensHold, SuccessorsHold
        <4> QED
          BY <1>7, <1>8, <3>1, <4>2
      <3>2. ASSUME NEW x \in DOMAIN refresh, refresh'[x].from = i
            PROVE  <<"token", i>> \in crossed'
        <4>1. refresh[x].from = i
          BY <1>7, <3>2
        <4>2. refresh[i].revoked
          BY <1>1, <3>2, <4>1 DEF TokensHold, SuccessorsHold
        <4> QED
          BY <1>10, <4>2
      <3>3. CASE j = n /\ k \in DOMAIN refresh
        BY <1>2, <1>6, <2>2, <3>2, <3>3
      <3>4. CASE k = n /\ j \in DOMAIN refresh
        BY <1>2, <1>6, <2>2, <3>2, <3>4
      <3> QED
        BY <1>9, <3>1, <3>3, <3>4
    <2> QED
      BY <2>1, <2>2 DEF SuccessorsHold
  <1>13. FamiliesHold'
    <2>1. Len(refresh) \in Nat /\ Len(refresh') = Len(refresh) + 1
      BY <1>1, <1>2, <1>5 DEF used
    <2>2. \A j \in DOMAIN refresh : /\ refresh[j].family \in Nat
                                     /\ refresh[j].family <= Len(refresh)
      <3>1. \A j \in DOMAIN refresh : refresh[j] \in RefreshToken
        BY <1>1
      <3> QED
        BY <3>1 DEF TokensHold, FamiliesHold, RefreshToken
    <2>3. /\ old.family = refresh[i].family /\ new.family = refresh[i].family
      BY <1>1 DEF old, RefreshToken
    <2>4. \A j \in DOMAIN refresh : refresh'[j].family = refresh[j].family
      BY <1>7, <2>3
    <2>5. \A j \in DOMAIN refresh' : refresh'[j].family <= Len(refresh')
      BY <1>6, <1>9, <2>1, <2>2, <2>3, <2>4
    <2>6. \A f : Doubled(f) => Doubled(f)'
      BY <1>7, <1>8, <2>4 DEF Doubled
    <2>7. ASSUME NEW j \in DOMAIN refresh, NEW k \in DOMAIN refresh, j # k,
                 refresh[j].family = refresh[k].family,
                 ~refresh'[j].revoked, ~refresh'[k].revoked
          PROVE  Doubled(refresh[j].family)
      BY <1>7, <2>7 DEF TokensHold, FamiliesHold, Doubled
    <2>8. ASSUME NEW k \in DOMAIN refresh,
                 refresh[k].family = refresh[i].family, ~refresh'[k].revoked
          PROVE  Doubled(refresh[i].family)'
      <3>1. k # i /\ ~refresh[k].revoked
        BY <1>3, <1>7, <2>8
      <3>2. CASE refresh[i].revoked
        BY <1>7, <1>10, <2>4, <3>2 DEF Doubled
      <3>3. CASE ~refresh[i].revoked
        <4>1. Doubled(refresh[i].family)
          BY <2>8, <3>1, <3>3 DEF TokensHold, FamiliesHold, Doubled
        <4> QED
          BY <2>6, <4>1
      <3> QED
        BY <3>2, <3>3
    <2>9. ASSUME NEW j \in DOMAIN refresh', NEW k \in DOMAIN refresh',
                 refresh'[j].family = refresh'[k].family,
                 ~refresh'[j].revoked, ~refresh'[k].revoked, j # k
          PROVE  \E x \in DOMAIN refresh' :
                   /\ refresh'[x].family = refresh'[j].family
                   /\ <<"token", x>> \in crossed'
      <3>1. CASE j \in DOMAIN refresh /\ k \in DOMAIN refresh
        <4>1. Doubled(refresh[j].family)
          BY <2>4, <2>7, <2>9, <3>1
        <4> QED
          BY <1>7, <1>8, <2>4, <3>1, <4>1 DEF Doubled
      <3>2. CASE j = n /\ k \in DOMAIN refresh
        BY <1>6, <2>3, <2>4, <2>8, <2>9, <3>2 DEF Doubled
      <3>3. CASE k = n /\ j \in DOMAIN refresh
        <4>1. /\ refresh'[j].family = refresh[i].family
              /\ refresh[j].family = refresh[i].family
          BY <1>6, <2>3, <2>4, <2>9, <3>3
        <4>2. Doubled(refresh[i].family)'
          BY <2>8, <2>9, <3>3, <4>1
        <4>3. refresh'[i].family = refresh[i].family
          BY <2>4
        <4> QED
          BY <4>1, <4>2, <4>3 DEF Doubled
      <3> QED
        BY <1>9, <2>9, <3>1, <3>2, <3>3
    <2> QED
      BY <2>5, <2>9 DEF FamiliesHold, Doubled
  <1>12. ASSUME NEW v \in Workers \ {w}
         PROVE  TokenRequestHolds(req[v])'
    <2>1. TokenRequestHolds(req[v])
      BY DEF TokensHold
    <2>2. /\ req'[v].op = req[v].op /\ req'[v].on = req[v].on
          /\ req'[v].arg = req[v].arg /\ req[v].late \subseteq req'[v].late
          /\ req[v].on \cap req[w].on \subseteq req'[v].late
      BY DEF Ends, Beside, Outdates
    <2>3. ASSUME NEW j \in DOMAIN refresh,
                 Knows(req[v], <<"token", j>>, ~refresh[j].revoked)
          PROVE  Knows(req'[v], <<"token", j>>, ~refresh'[j].revoked)
      <3>1. CASE j = i
        BY <2>2, <2>3, <3>1 DEF Knows
      <3>2. CASE j # i
        <4>1. refresh'[j] = refresh[j]
          BY <1>7, <3>2
        <4> QED
          BY <2>2, <2>3, <4>1 DEF Knows
      <3> QED
        BY <3>1, <3>2
    <2> QED
      BY <1>7, <2>1, <2>2, <2>3 DEF TokenRequestHolds
  <1> QED
    BY <1>6, <1>8, <1>11, <1>12, <1>13 DEF TokensHold

LEMMA EndRefreshStep ==
    ASSUME IInv, NEW w \in Workers, EndRefresh(w)
    PROVE  IInv'
  <1> DEFINE a == req[w].arg
             i == req[w].arg.i
             t == refresh[i]
             new == [user |-> t.user, family |-> t.family, from |-> i, revoked |-> FALSE]
             pass == [user |-> t.user, role |-> a.role, made |-> a.at]
  <1>1. /\ req[w].op = "refresh"
        /\ refresh' = Append([refresh EXCEPT ![i].revoked = TRUE], new)
        /\ access' = access \cup {pass}
        /\ Commit(w)
        /\ UNCHANGED registryVars
        /\ UNCHANGED <<audit, users, resets, mails, proposals, now, signouts>>
    <2>1. AddToken([refresh EXCEPT ![i].revoked = TRUE], t.user, t.family, i)
            = Append([refresh EXCEPT ![i].revoked = TRUE], new)
      BY DEF AddToken
    <2>2. /\ UNCHANGED registryVars
          /\ UNCHANGED <<audit, users, resets, mails, proposals, now, signouts>>
      BY DEF EndRefresh
    <2>3. /\ req[w].op = "refresh" /\ access' = access \cup {pass} /\ Commit(w)
          /\ refresh' = AddToken([refresh EXCEPT ![i].revoked = TRUE],
                                 t.user, t.family, i)
      BY Zenon DEF EndRefresh, Holds
    <2> QED
      BY <2>1, <2>2, <2>3
  <1>2. /\ Typed /\ TokensHold /\ Sessions /\ audit \in Seq(Entry)
        /\ ResetsHold /\ SignOutsHold /\ users \in Seq(User) /\ AccountsTypeOK
    BY DEF IInv, Typed, TypeOK, AccountsTypeOK
  <1>3. /\ i \in DOMAIN refresh /\ a.role \in Roles /\ a.at \in 1..MaxNow
        /\ Knows(req[w], <<"token", i>>, ~refresh[i].revoked)
    BY <1>1, <1>2 DEF TokensHold, TokenRequestHolds
  <1>4. t.user \in DOMAIN users
    BY <1>2, <1>3 DEF TokensHold, SuccessorsHold
  <1>5. pass \in [user: DOMAIN users, role: Roles, made: 1..MaxNow]
    BY <1>3, <1>4
  <1>6. new = [user |-> refresh[i].user, family |-> refresh[i].family,
               from |-> i, revoked |-> FALSE]
    OBVIOUS
  <1> HIDE DEF a, i, t, new, pass
  <1>7. Ends(w) /\ Outdates(w) /\ crossed' = crossed \cup req[w].late
    BY ONLY <1>1, <1>2, Committed
  <1>8. audit' \in Seq(Entry) /\ \A kinds : Quiet(kinds)
    BY <1>1, <1>2 DEF Quiet
  <1>9. TokensHold' /\ refresh' \in Seq(RefreshToken)
    BY <1>1, <1>2, <1>3, <1>6, <1>7, TokenUsed
  <1>10. AccountsTypeOK'
    BY <1>1, <1>2, <1>5, <1>9 DEF AccountsTypeOK
  <1>11. /\ ResetRequestHolds(req[w])' /\ SignOutRequestHolds(req[w])'
         /\ Beside(w) /\ crossed \subseteq crossed'
    BY ONLY <1>7, NothingHeld
  <1>12. ResetsHold'
    BY <1>1, <1>2, <1>11, ResetsKept
  <1>13. SignOutsHold'
    BY <1>1, <1>2, <1>11, SignOutsKept
  <1>14. CustomersAreHeld' /\ UsersHold' /\ Quiet({"client", "rule"})
    BY <1>1, <1>7, <1>8, UsersAlone
  <1> QED
    BY <1>1, <1>7, <1>8, <1>9, <1>10, <1>12, <1>13, <1>14, AccountsEnded

\* The tokens in spent are used up, and u has a new one.
LEMMA Reissue ==
    ASSUME resets \in Seq(ResetToken), NEW u \in Nat, NEW spent,
           resets' = Reissued(spent, u)
    PROVE  /\ resets' \in Seq(ResetToken)
           /\ DOMAIN resets' = DOMAIN resets \cup {Len(resets) + 1}
           /\ Len(resets) + 1 \notin DOMAIN resets
           /\ \A i \in DOMAIN resets :
                /\ i \in DOMAIN resets'
                /\ resets'[i].user = resets[i].user /\ resets'[i].uses = resets[i].uses
                /\ resets'[i].used = (resets[i].used \/ i \in spent)
           /\ LET n == Len(resets) + 1 IN
              resets'[n].user = u /\ ~resets'[n].used /\ resets'[n].uses = 0
  <1> DEFINE n == Len(resets) + 1
             new == [user |-> u, used |-> FALSE, uses |-> 0]
             row(i) == IF i \in spent THEN [resets[i] EXCEPT !.used = TRUE] ELSE resets[i]
             f == [i \in DOMAIN resets |-> row(i)]
  <1>1. /\ new \in ResetToken /\ new.user = u /\ ~new.used /\ new.uses = 0
    BY DEF ResetToken
  <1>2. resets' = Append(f, new)
    BY DEF Reissued
  <1>3. ASSUME NEW i \in DOMAIN resets
        PROVE  /\ row(i) \in ResetToken
               /\ row(i).user = resets[i].user /\ row(i).uses = resets[i].uses
               /\ row(i).used = (resets[i].used \/ i \in spent)
    <2>1. resets[i] \in ResetToken
      OBVIOUS
    <2>2. CASE i \in spent
      BY <2>1, <2>2 DEF ResetToken
    <2>3. CASE i \notin spent
      BY <2>1, <2>3 DEF ResetToken
    <2> QED
      BY <2>2, <2>3
  <1> HIDE DEF new, row
  <1>4. DOMAIN f = DOMAIN resets /\ \A i \in DOMAIN resets : f[i] = row(i)
    OBVIOUS
  <1>5. f = [i \in DOMAIN resets |-> f[i]]
    OBVIOUS
  <1> HIDE DEF f
  <1>6. \A i \in DOMAIN resets : f[i] \in ResetToken
    BY <1>3, <1>4
  <1>7. f \in Seq(ResetToken) /\ Len(f) = Len(resets)
    BY <1>4, <1>5, <1>6, Replaced
  <1>8. /\ resets' \in Seq(ResetToken)
        /\ DOMAIN resets' = DOMAIN f \cup {n} /\ n \notin DOMAIN f
        /\ \A i \in DOMAIN f : resets'[i] = f[i]
        /\ resets'[n] = new
    BY <1>1, <1>2, <1>7, Appended
  <1>9. \A i \in DOMAIN resets :
          /\ i \in DOMAIN resets'
          /\ resets'[i].user = resets[i].user /\ resets'[i].uses = resets[i].uses
          /\ resets'[i].used = (resets[i].used \/ i \in spent)
    BY <1>3, <1>4, <1>8
  <1> QED
    BY <1>1, <1>4, <1>8, <1>9

\* A session that reissues has seen every token of u that works, or is late,
\* or made u itself.
LEMMA ResetsReissued ==
    ASSUME Typed, ResetsHold, NEW w \in Workers, Ends(w), Outdates(w),
           crossed' = crossed \cup req[w].late,
           NEW u \in Nat, NEW spent, resets' = Reissued(spent, u),
           DOMAIN users \subseteq DOMAIN users', u \in DOMAIN users',
           u \in DOMAIN users => KnowsUnused(req[w], u, spent)
    PROVE  ResetsHold' /\ resets' \in Seq(ResetToken)
  <1> DEFINE n == Len(resets) + 1
  <1>1. resets \in Seq(ResetToken) /\ n = Len(resets) + 1
        /\ u \in Nat /\ resets' = Reissued(spent, u)
    BY DEF Typed, TypeOK, AccountsTypeOK
  <1> HIDE DEF n
  <1>2. /\ resets' \in Seq(ResetToken)
        /\ DOMAIN resets' = DOMAIN resets \cup {n} /\ n \notin DOMAIN resets
        /\ \A i \in DOMAIN resets :
             /\ i \in DOMAIN resets'
             /\ resets'[i].user = resets[i].user /\ resets'[i].uses = resets[i].uses
             /\ resets'[i].used = (resets[i].used \/ i \in spent)
        /\ resets'[n].user = u /\ ~resets'[n].used /\ resets'[n].uses = 0
    BY ONLY <1>1, Reissue
  <1>3. crossed \subseteq crossed' /\ Beside(w) /\ ResetRequestHolds(req[w])'
    BY NothingHeld
  <1>4. \A i \in DOMAIN resets' : i \in DOMAIN resets \/ i = n
    BY <1>2
  <1>5. ASSUME NEW i \in DOMAIN resets, resets[i].user = u, ~resets'[i].used
        PROVE  <<"reset", u>> \in crossed'
    <2>1. resets[i].user \in DOMAIN users
      BY DEF ResetsHold, OneUnused
    <2>2. KnowsUnused(req[w], u, spent)
      BY <1>5, <2>1
    <2>3. ~resets[i].used /\ i \notin spent
      BY <1>2, <1>5
    <2>4. i \in Unused(u)
      BY <1>5, <2>3 DEF Unused
    <2> QED
      BY <2>2, <2>3, <2>4 DEF KnowsUnused, Knows
  <1>6. OneUnused'
    <2>1. ASSUME NEW i \in DOMAIN resets'
          PROVE  /\ resets'[i].user \in DOMAIN users'
                 /\ resets'[i].uses > 0 => resets'[i].used
                 /\ resets'[i].uses > 1 => <<"use", i>> \in crossed'
      <3>1. CASE i = n
        BY <1>2, <3>1
      <3>2. CASE i \in DOMAIN resets
        <4>1. /\ resets[i].user \in DOMAIN users
              /\ resets[i].uses > 0 => resets[i].used
              /\ resets[i].uses > 1 => <<"use", i>> \in crossed
          BY <3>2 DEF ResetsHold, OneUnused
        <4> QED
          BY <1>2, <1>3, <3>2, <4>1
      <3> QED
        BY <1>4, <3>1, <3>2
    <2>2. ASSUME NEW i \in DOMAIN resets', NEW j \in DOMAIN resets',
                 resets'[i].user = resets'[j].user, ~resets'[i].used, ~resets'[j].used
          PROVE  i = j \/ <<"reset", resets'[i].user>> \in crossed'
      <3>1. CASE i \in DOMAIN resets /\ j \in DOMAIN resets
        <4>1. /\ resets[i].user = resets[j].user
              /\ ~resets[i].used /\ ~resets[j].used
          BY <1>2, <2>2, <3>1
        <4>2. i = j \/ <<"reset", resets[i].user>> \in crossed
          BY <3>1, <4>1 DEF ResetsHold, OneUnused
        <4> QED
          BY <1>2, <1>3, <3>1, <4>2
      <3>2. CASE i = n /\ j \in DOMAIN resets
        BY <1>2, <1>5, <2>2, <3>2
      <3>3. CASE j = n /\ i \in DOMAIN resets
        BY <1>2, <1>5, <2>2, <3>3
      <3> QED
        BY <1>4, <3>1, <3>2, <3>3
    <2> QED
      BY <2>1, <2>2 DEF OneUnused
  <1>7. ASSUME NEW v \in Workers \ {w}
        PROVE  ResetRequestHolds(req[v])'
    <2>1. ResetRequestHolds(req[v])
      BY DEF ResetsHold
    <2>2. /\ req'[v].op = req[v].op /\ req'[v].on = req[v].on
          /\ req'[v].arg = req[v].arg /\ req[v].late \subseteq req'[v].late
          /\ req[v].on \cap req[w].on \subseteq req'[v].late
      BY DEF Ends, Beside, Outdates
    <2>3. ASSUME NEW x, NEW known, KnowsUnused(req[v], x, known)
          PROVE  KnowsUnused(req[v], x, known)'
      <3>1. x \in DOMAIN users /\ <<"reset", x>> \in req[v].on
        BY <2>3 DEF KnowsUnused, Knows
      <3>2. CASE x = u
        <4>1. <<"reset", x>> \in req[w].on
          BY <3>1, <3>2 DEF KnowsUnused, Knows
        <4>2. <<"reset", x>> \in req'[v].late
          BY <2>2, <3>1, <4>1
        <4> QED
          BY <2>2, <3>1, <4>2 DEF KnowsUnused, Knows
      <3>3. CASE x # u
        <4>1. Unused(x)' \subseteq Unused(x)
          BY <1>2, <1>4, <3>3 DEF Unused
        <4> QED
          BY <2>2, <2>3, <3>1, <4>1 DEF KnowsUnused, Knows
      <3> QED
        BY <3>2, <3>3
    <2>4. InvitationOf(req[v])' = InvitationOf(req[v]) /\ Invites(req[v])' = Invites(req[v])
      BY <2>2 DEF InvitationOf, Invites
    <2>5. req[v].op = "confirm reset" =>
             /\ req[v].arg.i \in DOMAIN resets'
             /\ Knows(req[v], <<"use", req[v].arg.i>>, resets[req[v].arg.i].uses = 0)'
      BY <1>2, <2>1, <2>2 DEF ResetRequestHolds, Knows
    <2> QED
      BY <2>1, <2>2, <2>3, <2>4, <2>5 DEF ResetRequestHolds
  <1> QED
    BY <1>2, <1>3, <1>6, <1>7 DEF ResetsHold

LEMMA EndRequestResetStep ==
    ASSUME IInv, NEW w \in Workers, EndRequestReset(w)
    PROVE  IInv'
  <1> DEFINE u == req[w].arg.u
             spent == req[w].arg.spent
             mail == [to |-> u, token |-> Len(resets) + 1]
  <1>1. /\ req[w].op = "request reset"
        /\ resets' = Reissued(spent, u)
        /\ mails' = mails \cup {mail}
        /\ Commit(w)
        /\ UNCHANGED registryVars
        /\ UNCHANGED <<audit, users, refresh, access, proposals, now, signouts>>
    BY DEF EndRequestReset, Holds
  <1>2. /\ Typed /\ TokensHold /\ Sessions /\ audit \in Seq(Entry)
        /\ ResetsHold /\ SignOutsHold /\ users \in Seq(User) /\ AccountsTypeOK
        /\ resets \in Seq(ResetToken)
    BY DEF IInv, Typed, TypeOK, AccountsTypeOK
  <1>3. KnowsUnused(req[w], u, spent)
    BY <1>1, <1>2 DEF ResetsHold, ResetRequestHolds
  <1>4. u \in DOMAIN users /\ u \in Nat
    BY <1>2, <1>3 DEF KnowsUnused
  <1>5. mail \in Mail
    BY <1>2, <1>4 DEF Mail
  <1> HIDE DEF u, spent, mail
  <1>6. Ends(w) /\ Outdates(w) /\ crossed' = crossed \cup req[w].late
    BY ONLY <1>1, <1>2, Committed
  <1>7. audit' \in Seq(Entry) /\ \A kinds : Quiet(kinds)
    BY <1>1, <1>2 DEF Quiet
  <1>8. ResetsHold' /\ resets' \in Seq(ResetToken)
    BY <1>1, <1>2, <1>3, <1>4, <1>6, ResetsReissued
  <1>9. AccountsTypeOK'
    BY <1>1, <1>2, <1>5, <1>8 DEF AccountsTypeOK
  <1>10. /\ TokenRequestHolds(req[w])' /\ SignOutRequestHolds(req[w])'
         /\ Beside(w) /\ crossed \subseteq crossed'
    BY ONLY <1>6, NothingHeld
  <1>11. TokensHold'
    BY <1>1, <1>2, <1>10, TokensKept
  <1>12. SignOutsHold'
    <2>1. \A i \in DOMAIN resets : i \in DOMAIN resets' /\ resets'[i].user = resets[i].user
      BY <1>1, <1>2, <1>4, Reissue
    <2> QED
      BY <1>1, <1>2, <1>10, <2>1, SignOutsKept
  <1>13. CustomersAreHeld' /\ UsersHold' /\ Quiet({"client", "rule"})
    BY <1>1, <1>6, <1>7, UsersAlone
  <1> QED
    BY <1>1, <1>6, <1>7, <1>8, <1>9, <1>11, <1>12, <1>13, AccountsEnded

-----------------------------------------------------------------------------
(* What the sessions about sign-outs write *)

\* One user's row is written.
LEMMA UserWritten ==
    ASSUME users \in Seq(User), NEW u \in DOMAIN users, NEW row \in User,
           users' = [users EXCEPT ![u] = row]
    PROVE  /\ users' \in Seq(User) /\ Len(users') = Len(users) /\ Len(users) \in Nat
           /\ DOMAIN users' = DOMAIN users /\ users'[u] = row
           /\ \A v \in DOMAIN users \ {u} : users'[v] = users[v]
  OBVIOUS

LEMMA SignedOut ==
    ASSUME Typed, ResetsHold, SignOutsHold, NEW w \in Workers, Ends(w), Outdates(w),
           crossed' = crossed \cup req[w].late, UNCHANGED now,
           NEW u, KnowsRevoked(req[w], u), NEW at, at = req[w].arg.at,
           DOMAIN users' = DOMAIN users, users'[u].revoked = at,
           \A v \in DOMAIN users \ {u} : users'[v].revoked = users[v].revoked,
           SignOut(u, at),
           \A i \in DOMAIN resets : i \in DOMAIN resets' /\ resets'[i].user = resets[i].user
    PROVE  SignOutsHold' /\ signouts' \subseteq [user: DOMAIN users, at: 1..MaxNow]
  <1> DEFINE out == [user |-> u, at |-> at]
  <1>1. /\ signouts \subseteq [user: DOMAIN users, at: 1..MaxNow]
        /\ users \in Seq(User)
    BY DEF Typed, TypeOK, AccountsTypeOK
  <1>2. /\ u \in DOMAIN users /\ at \in 1..MaxNow /\ at <= now /\ at # 0
        /\ Knows(req[w], <<"revoked", u>>, users[u].revoked <= at)
    BY DEF KnowsRevoked
  <1>3. signouts' = signouts \cup {out} /\ out.user = u /\ out.at = at
    BY DEF SignOut
  <1>4. out \in [user: DOMAIN users, at: 1..MaxNow]
    BY <1>2
  <1> HIDE DEF out
  <1>5. crossed \subseteq crossed' /\ Beside(w) /\ SignOutRequestHolds(req[w])'
    BY NothingHeld
  <1>6. RevokedHolds'
    <2> SUFFICES ASSUME NEW v \in DOMAIN users
                 PROVE  /\ users'[v].revoked <= now
                        /\ <<"revoked", v>> \notin crossed' =>
                              /\ \A s \in signouts' : s.user = v => s.at <= users'[v].revoked
                              /\ users'[v].revoked # 0 =>
                                    [user |-> v, at |-> users'[v].revoked] \in signouts'
      BY DEF RevokedHolds
    <2>1. CASE v = u
      <3>1. users'[v].revoked = at
        BY <2>1
      <3>2. ASSUME <<"revoked", v>> \notin crossed', NEW s \in signouts', s.user = v
            PROVE  s.at <= at
        <4>1. CASE s = out
          BY <1>2, <1>3, <4>1
        <4>2. CASE s \in signouts
          <5>1. <<"revoked", v>> \notin crossed /\ <<"revoked", u>> \notin req[w].late
            BY <2>1, <3>2
          <5>2. users[u].revoked <= at
            BY <1>2, <5>1 DEF Knows
          <5>3. s.at <= users[u].revoked
            BY <2>1, <3>2, <4>2, <5>1 DEF SignOutsHold, RevokedHolds
          <5>4. users[u] \in User
            BY <1>1, <1>2
          <5>5. users[u].revoked \in Nat
            BY ONLY <5>4 DEF User
          <5>6. s \in [user: DOMAIN users, at: 1..MaxNow]
            BY ONLY <1>1, <4>2
          <5>7. s.at \in 1..MaxNow
            BY ONLY <5>6
          <5>8. s.at \in Nat /\ at \in Nat
            BY ONLY <1>2, <5>7, AccountsAssumption
          <5> QED
            BY ONLY <5>2, <5>3, <5>5, <5>8
        <4> QED
          BY <1>3, <3>2, <4>1, <4>2
      <3>3. [user |-> v, at |-> at] \in signouts'
        BY <1>3, <2>1 DEF out
      <3> QED
        BY <1>2, <3>1, <3>2, <3>3
    <2>2. CASE v # u
      <3>1. users'[v].revoked = users[v].revoked
        BY <2>2
      <3>2. \A s \in signouts' : s.user = v => s \in signouts
        BY <1>3, <2>2
      <3> QED
        BY <1>3, <1>5, <3>1, <3>2 DEF SignOutsHold, RevokedHolds
    <2> QED
      BY <2>1, <2>2
  <1>7. ASSUME NEW v \in Workers \ {w}
        PROVE  SignOutRequestHolds(req[v])'
    <2>1. SignOutRequestHolds(req[v]) /\ ResetRequestHolds(req[v])
      BY DEF SignOutsHold, ResetsHold
    <2>2. /\ req'[v].op = req[v].op /\ req'[v].on = req[v].on
          /\ req'[v].arg = req[v].arg /\ req[v].late \subseteq req'[v].late
          /\ req[v].on \cap req[w].on \subseteq req'[v].late
      BY DEF Ends, Beside, Outdates
    <2>3. ASSUME NEW x, KnowsRevoked(req[v], x)
          PROVE  KnowsRevoked(req[v], x)'
      <3>1. CASE x = u
        <4>1. <<"revoked", x>> \in req'[v].late
          BY <1>2, <2>2, <2>3, <3>1 DEF KnowsRevoked, Knows
        <4> QED
          BY <2>2, <2>3, <4>1 DEF KnowsRevoked, Knows
      <3>2. CASE x # u
        <4>1. x \in DOMAIN users
          BY <2>3 DEF KnowsRevoked
        <4>2. users'[x].revoked = users[x].revoked
          BY <3>2, <4>1
        <4> QED
          BY <2>2, <2>3, <4>2 DEF KnowsRevoked, Knows
      <3> QED
        BY <3>1, <3>2
    <2>4. req[v].op = "confirm reset" =>
             resets'[req[v].arg.i].user = resets[req[v].arg.i].user
      BY <2>1 DEF ResetRequestHolds
    <2> QED
      BY <2>1, <2>2, <2>3, <2>4 DEF SignOutRequestHolds
  <1> QED
    BY <1>1, <1>3, <1>4, <1>5, <1>6, <1>7 DEF SignOutsHold

\* The other parts when a user's password or revocation is written.
LEMMA LoginsWritten ==
    ASSUME IInv, NEW w \in Workers, Ends(w), UNCHANGED registryVars,
           audit' \in Seq(Entry), Quiet({"client", "rule", "user"}),
           Len(users') = Len(users), DOMAIN users' = DOMAIN users,
           \A u \in DOMAIN users :
              /\ users'[u].client = users[u].client /\ users'[u].tenant = users[u].tenant
              /\ users'[u].role = users[u].role /\ users'[u].active = users[u].active
    PROVE  CustomersAreHeld' /\ UsersHold' /\ Quiet({"client", "rule"})
  <1>1. /\ Typed /\ CustomersAreHeld /\ UsersHold /\ audit \in Seq(Entry)
        /\ clients \in Seq(Client) /\ users \in Seq(User) /\ Len(users) \in Nat
    BY DEF IInv, Typed, TypeOK, RegistryTypeOK, AccountsTypeOK
  <1>2. UNCHANGED clients
    BY DEF registryVars
  <1>3. /\ CustomerRequestHolds(req[w])' /\ UserRequestHolds(req[w])'
        /\ Beside(w) /\ crossed \subseteq crossed'
    BY NothingHeld
  <1>4. Quiet({"user"}) /\ Quiet({"client", "rule"})
    BY DEF Quiet
  <1>5. \A i \in DOMAIN audit : i \in DOMAIN audit' /\ audit'[i] = audit[i]
    BY <1>1, <1>4, QuietGrows
  <1>6. \A c \in DOMAIN clients' : c # 0
    BY <1>1, <1>2
  <1>7. CustomersAreHeld'
    BY <1>1, <1>2, <1>3, <1>5, <1>6, CustomersKept
  <1>8. UsersHold'
    BY <1>1, <1>3, <1>4, UsersKept
  <1> QED
    BY <1>4, <1>7, <1>8

LEMMA EndLogoutStep ==
    ASSUME IInv, NEW w \in Workers, EndLogout(w)
    PROVE  IInv'
  <1> DEFINE u == req[w].arg.u
             at == req[w].arg.at
             row == [users[u] EXCEPT !.revoked = at]
             on == <<"login", u>>
             op == "logout"
             after == <<>>
  <1>1. /\ req[w].op = "logout"
        /\ users' = [users EXCEPT ![u] = row]
        /\ SignOut(u, at)
        /\ Commit(w) /\ Log(on, op, after)
        /\ UNCHANGED registryVars
        /\ UNCHANGED <<refresh, access, resets, mails, proposals, now>>
    BY DEF EndLogout, Holds
  <1>2. /\ Typed /\ TokensHold /\ Sessions /\ audit \in Seq(Entry)
        /\ ResetsHold /\ SignOutsHold /\ users \in Seq(User) /\ AccountsTypeOK
    BY DEF IInv, Typed, TypeOK, AccountsTypeOK
  <1>3. KnowsRevoked(req[w], u)
    BY <1>1, <1>2 DEF SignOutsHold, SignOutRequestHolds
  <1>4. u \in DOMAIN users /\ at \in 1..MaxNow /\ u \in Nat
    BY <1>2, <1>3 DEF KnowsRevoked
  <1>5. users[u] \in User
    BY <1>2, <1>4
  <1>6. /\ row \in User /\ row.revoked = at
        /\ row.client = users[u].client /\ row.tenant = users[u].tenant
        /\ row.role = users[u].role /\ row.active = users[u].active
    BY <1>4, <1>5 DEF User
  <1>7. op \in Acoes /\ on \in {"login"} \X Nat /\ on[1] = "login" /\ after = <<>>
    BY <1>4 DEF Acoes
  <1>8. at = req[w].arg.at
    OBVIOUS
  <1> HIDE DEF u, at, row, on, op, after
  <1>9. Ends(w) /\ Outdates(w) /\ crossed' = crossed \cup req[w].late
    BY ONLY <1>1, <1>2, Committed
  <1>10. [on |-> on, acao |-> op, after |-> after] \in Entry
    BY <1>7 DEF Entry
  <1>11. audit' \in Seq(Entry) /\ \A kinds : on[1] \notin kinds => Quiet(kinds)
    BY ONLY <1>1, <1>2, <1>10, Logged
  <1>12. Quiet({"client", "rule", "user"})
    <2>1. "login" \notin {"client", "rule", "user"}
      OBVIOUS
    <2> QED
      BY <1>7, <1>11, <2>1
  <1>13. /\ users' \in Seq(User) /\ Len(users') = Len(users)
         /\ DOMAIN users' = DOMAIN users /\ users'[u] = row
         /\ \A v \in DOMAIN users \ {u} : users'[v] = users[v]
    BY <1>1, <1>2, <1>4, <1>6, UserWritten
  <1>14. SignOutsHold' /\ signouts' \subseteq [user: DOMAIN users, at: 1..MaxNow]
    BY <1>1, <1>2, <1>3, <1>6, <1>8, <1>9, <1>13, SignedOut
  <1>15. AccountsTypeOK'
    BY <1>1, <1>2, <1>13, <1>14 DEF AccountsTypeOK
  <1>16. /\ TokenRequestHolds(req[w])' /\ ResetRequestHolds(req[w])'
         /\ Beside(w) /\ crossed \subseteq crossed'
    BY ONLY <1>9, NothingHeld
  <1>17. TokensHold' /\ ResetsHold'
    BY <1>1, <1>2, <1>13, <1>16, TokensKept, ResetsKept
  <1>18. \A v \in DOMAIN users :
           /\ users'[v].client = users[v].client /\ users'[v].tenant = users[v].tenant
           /\ users'[v].role = users[v].role /\ users'[v].active = users[v].active
    BY <1>6, <1>13
  <1>19. CustomersAreHeld' /\ UsersHold' /\ Quiet({"client", "rule"})
    BY <1>1, <1>9, <1>11, <1>12, <1>13, <1>18, LoginsWritten
  <1> QED
    BY <1>1, <1>9, <1>11, <1>14, <1>15, <1>17, <1>19, AccountsEnded

\* A reset token sets a password; it has set one before only if two sessions
\* with it overlapped.
LEMMA ResetUsed ==
    ASSUME Typed, ResetsHold, NEW w \in Workers, Ends(w), Outdates(w),
           crossed' = crossed \cup req[w].late, DOMAIN users \subseteq DOMAIN users',
           NEW i \in DOMAIN resets, Knows(req[w], <<"use", i>>, resets[i].uses = 0),
           resets' = [resets EXCEPT ![i].used = TRUE, ![i].uses = @ + 1]
    PROVE  /\ ResetsHold' /\ resets' \in Seq(ResetToken)
           /\ \A j \in DOMAIN resets : j \in DOMAIN resets' /\ resets'[j].user = resets[j].user
  <1> DEFINE new == [resets[i] EXCEPT !.used = TRUE, !.uses = @ + 1]
  <1>1. resets \in Seq(ResetToken) /\ resets[i] \in ResetToken
    BY DEF Typed, TypeOK, AccountsTypeOK
  <1>2. /\ new \in ResetToken /\ new.user = resets[i].user /\ new.used
        /\ new.uses = resets[i].uses + 1 /\ resets[i].uses \in Nat
    <2> DEFINE old == resets[i]
               more == old.uses + 1
    <2>1. old \in [user: Nat, used: BOOLEAN, uses: Nat] /\ old.uses \in Nat
      BY ONLY <1>1 DEF ResetToken
    <2>2. new = [old EXCEPT !.used = TRUE, !.uses = more] /\ more \in Nat
      BY ONLY <2>1
    <2> HIDE DEF old, new, more
    <2>3. /\ new \in [user: Nat, used: BOOLEAN, uses: Nat] /\ new.user = old.user
          /\ new.used /\ new.uses = more
      BY ONLY <2>1, <2>2
    <2> QED
      BY ONLY <2>1, <2>3 DEF ResetToken, old, more
  <1>3. resets' = [resets EXCEPT ![i] = new] /\ new \in ResetToken /\ i \in DOMAIN resets
    BY <1>1, <1>2
  <1> HIDE DEF new
  <1>4. /\ resets' \in Seq(ResetToken) /\ DOMAIN resets' = DOMAIN resets
        /\ resets'[i] = new
        /\ \A j \in DOMAIN resets \ {i} : resets'[j] = resets[j]
    BY ONLY <1>1, <1>3
  <1>5. \A j \in DOMAIN resets : resets'[j].user = resets[j].user
    BY <1>2, <1>4
  <1>6. crossed \subseteq crossed' /\ Beside(w) /\ ResetRequestHolds(req[w])'
    BY NothingHeld
  <1>7. OneUnused'
    <2>1. ASSUME NEW j \in DOMAIN resets
          PROVE  /\ resets'[j].user \in DOMAIN users'
                 /\ resets'[j].uses > 0 => resets'[j].used
                 /\ resets'[j].uses > 1 => <<"use", j>> \in crossed'
      <3>1. CASE j = i
        <4>1. resets[i].user \in DOMAIN users
          BY DEF ResetsHold, OneUnused
        <4>2. resets[i].uses + 1 > 1 => <<"use", i>> \in crossed'
          BY <1>2 DEF Knows
        <4> QED
          BY <1>2, <1>4, <3>1, <4>1, <4>2
      <3>2. CASE j # i
        BY <1>4, <1>6, <3>2 DEF ResetsHold, OneUnused
      <3> QED
        BY <3>1, <3>2
    <2>2. ASSUME NEW j \in DOMAIN resets, NEW k \in DOMAIN resets,
                 resets'[j].user = resets'[k].user, ~resets'[j].used, ~resets'[k].used
          PROVE  j = k \/ <<"reset", resets'[j].user>> \in crossed'
      <3>1. j # i /\ k # i
        BY <1>2, <1>4, <2>2
      <3>2. resets'[j] = resets[j] /\ resets'[k] = resets[k]
        BY <1>4, <3>1
      <3> QED
        BY <1>6, <2>2, <3>2 DEF ResetsHold, OneUnused
    <2> QED
      BY <1>4, <2>1, <2>2 DEF OneUnused
  <1>8. ASSUME NEW v \in Workers \ {w}
        PROVE  ResetRequestHolds(req[v])'
    <2>1. ResetRequestHolds(req[v])
      BY DEF ResetsHold
    <2>2. /\ req'[v].op = req[v].op /\ req'[v].on = req[v].on
          /\ req'[v].arg = req[v].arg /\ req[v].late \subseteq req'[v].late
          /\ req[v].on \cap req[w].on \subseteq req'[v].late
      BY DEF Ends, Beside, Outdates
    <2>3. \A x, known : KnowsUnused(req[v], x, known) => KnowsUnused(req[v], x, known)'
      <3>1. \A x : Unused(x)' \subseteq Unused(x)
        BY <1>2, <1>4 DEF Unused
      <3> QED
        BY <2>2, <3>1 DEF KnowsUnused, Knows
    <2>4. InvitationOf(req[v])' = InvitationOf(req[v]) /\ Invites(req[v])' = Invites(req[v])
      BY <2>2 DEF InvitationOf, Invites
    <2>5. ASSUME req[v].op = "confirm reset"
          PROVE  /\ req[v].arg.i \in DOMAIN resets'
                 /\ Knows(req[v], <<"use", req[v].arg.i>>, resets[req[v].arg.i].uses = 0)'
      <3> DEFINE j == req[v].arg.i
      <3>1. /\ j \in DOMAIN resets /\ req'[v].arg.i = j
            /\ Knows(req[v], <<"use", j>>, resets[j].uses = 0)
        BY <2>1, <2>2, <2>5 DEF ResetRequestHolds
      <3> HIDE DEF j
      <3>2. CASE j = i
        <4>1. <<"use", j>> \in req'[v].late /\ <<"use", j>> \in req'[v].on
          BY <2>2, <3>1, <3>2 DEF Knows
        <4> QED
          BY <1>4, <3>1, <4>1 DEF Knows, j
      <3>3. CASE j # i
        <4>1. resets'[j] = resets[j]
          BY <1>4, <3>1, <3>3
        <4> QED
          BY <1>4, <2>2, <3>1, <4>1 DEF Knows, j
      <3> QED
        BY <3>2, <3>3
    <2> QED
      BY <2>1, <2>2, <2>3, <2>4, <2>5 DEF ResetRequestHolds
  <1> QED
    BY <1>4, <1>5, <1>6, <1>7, <1>8 DEF ResetsHold

LEMMA EndConfirmResetStep ==
    ASSUME IInv, NEW w \in Workers, EndConfirmReset(w)
    PROVE  IInv'
  <1> DEFINE i == req[w].arg.i
             at == req[w].arg.at
             u == resets[i].user
             row == [users[u] EXCEPT !.pw = SetWith(i), !.revoked = at]
  <1>1. /\ Typed /\ TokensHold /\ Sessions /\ audit \in Seq(Entry)
        /\ ResetsHold /\ SignOutsHold /\ users \in Seq(User) /\ AccountsTypeOK
        /\ resets \in Seq(ResetToken)
    BY DEF IInv, Typed, TypeOK, AccountsTypeOK
  <1>2. /\ req[w].op = "confirm reset"
        /\ users' = [users EXCEPT ![u].pw = SetWith(i), ![u].revoked = at]
        /\ resets' = [resets EXCEPT ![i].used = TRUE, ![i].uses = @ + 1]
        /\ SignOut(u, at)
        /\ Commit(w)
        /\ UNCHANGED registryVars
        /\ UNCHANGED <<audit, refresh, access, mails, proposals, now>>
    BY DEF EndConfirmReset, Holds
  <1>3. KnowsRevoked(req[w], u)
    BY <1>1, <1>2 DEF SignOutsHold, SignOutRequestHolds
  <1>4. i \in DOMAIN resets /\ Knows(req[w], <<"use", i>>, resets[i].uses = 0)
    BY <1>1, <1>2 DEF ResetsHold, ResetRequestHolds
  <1>5. u \in DOMAIN users /\ at \in 1..MaxNow /\ u \in Nat /\ i \in Nat
    BY <1>1, <1>3, <1>4 DEF KnowsRevoked
  <1>6. users[u] \in User
    BY <1>1, <1>5
  <1>7. /\ row \in User /\ row.revoked = at
        /\ row.client = users[u].client /\ row.tenant = users[u].tenant
        /\ row.role = users[u].role /\ row.active = users[u].active
    <2> DEFINE old == users[u]
               pw == SetWith(i)
    <2>1. pw \in Nat /\ at \in Nat
      BY <1>5 DEF SetWith
    <2>2. row = [old EXCEPT !.pw = pw, !.revoked = at] /\ old \in User
      BY <1>6
    <2> HIDE DEF old, pw, row
    <2>3. row \in User
      BY ONLY <2>1, <2>2 DEF User
    <2>4. /\ row.revoked = at /\ row.client = old.client /\ row.tenant = old.tenant
          /\ row.role = old.role /\ row.active = old.active
      BY ONLY <2>2 DEF User
    <2> QED
      BY <2>3, <2>4 DEF old
  <1>8. users' = [users EXCEPT ![u] = row]
    BY <1>1, <1>2, <1>5
  <1>9. at = req[w].arg.at
    OBVIOUS
  <1> HIDE DEF i, at, u, row
  <1>10. Ends(w) /\ Outdates(w) /\ crossed' = crossed \cup req[w].late
    BY ONLY <1>1, <1>2, Committed
  <1>11. audit' \in Seq(Entry) /\ \A kinds : Quiet(kinds)
    BY <1>1, <1>2 DEF Quiet
  <1>12. /\ users' \in Seq(User) /\ Len(users') = Len(users)
         /\ DOMAIN users' = DOMAIN users /\ users'[u] = row
         /\ \A v \in DOMAIN users \ {u} : users'[v] = users[v]
    BY <1>1, <1>5, <1>7, <1>8, UserWritten
  <1>13. /\ ResetsHold' /\ resets' \in Seq(ResetToken)
         /\ \A j \in DOMAIN resets : j \in DOMAIN resets' /\ resets'[j].user = resets[j].user
    BY <1>1, <1>2, <1>4, <1>10, <1>12, ResetUsed
  <1>14. SignOutsHold' /\ signouts' \subseteq [user: DOMAIN users, at: 1..MaxNow]
    BY <1>1, <1>2, <1>3, <1>7, <1>9, <1>10, <1>12, <1>13, SignedOut
  <1>15. AccountsTypeOK'
    BY <1>1, <1>2, <1>12, <1>13, <1>14 DEF AccountsTypeOK
  <1>16. /\ TokenRequestHolds(req[w])' /\ Beside(w) /\ crossed \subseteq crossed'
    BY ONLY <1>10, NothingHeld
  <1>17. TokensHold'
    BY <1>1, <1>2, <1>12, <1>16, TokensKept
  <1>18. \A v \in DOMAIN users :
           /\ users'[v].client = users[v].client /\ users'[v].tenant = users[v].tenant
           /\ users'[v].role = users[v].role /\ users'[v].active = users[v].active
    BY <1>7, <1>12
  <1>19. CustomersAreHeld' /\ UsersHold' /\ Quiet({"client", "rule"})
    BY <1>2, <1>10, <1>11, <1>12, <1>18, LoginsWritten
  <1> QED
    BY <1>2, <1>10, <1>11, <1>13, <1>14, <1>15, <1>17, <1>19, AccountsEnded

-----------------------------------------------------------------------------
(* What the sessions about users write *)

LEMMA AccountsTyped ==
    ASSUME AccountsTypeOK, users' \in Seq(User), DOMAIN users \subseteq DOMAIN users',
           resets' \in Seq(ResetToken), mails' \subseteq Mail,
           proposals' \in [Proposals -> {"pronta", "aprovada", "cancelada"}],
           UNCHANGED <<refresh, access, now, signouts>>
    PROVE  AccountsTypeOK'
  <1> DEFINE passes == [user: DOMAIN users, role: Roles, made: 1..MaxNow]
             more == [user: DOMAIN users', role: Roles, made: 1..MaxNow]
             outs == [user: DOMAIN users, at: 1..MaxNow]
             others == [user: DOMAIN users', at: 1..MaxNow]
  <1>1. passes \subseteq more /\ outs \subseteq others
    OBVIOUS
  <1>2. /\ access \subseteq passes /\ signouts \subseteq outs
        /\ refresh \in Seq(RefreshToken) /\ now \in 1..MaxNow
    BY DEF AccountsTypeOK
  <1> HIDE DEF passes, outs
  <1>3. access' \subseteq more /\ signouts' \subseteq others
    BY <1>1, <1>2
  <1> QED
    BY <1>2, <1>3 DEF AccountsTypeOK

LEMMA FlushedUser ==
    ASSUME NEW row \in User, NEW saw \in User, NEW want \in [role: Roles, active: BOOLEAN]
    PROVE  LET new == Written(row, saw, want) IN
           /\ new \in User
           /\ new.tenant = row.tenant /\ new.client = row.client
           /\ new.revoked = row.revoked
           /\ new.role = row.role \/ new.role = want.role
           /\ saw.role = row.role /\ saw.active = row.active =>
                 new.role = want.role /\ new.active = want.active
  BY DEF Written, User

\* No entry is about a user that is not there.
LEMMA NothingNamed ==
    ASSUME UsersHold, NEW u, u \notin DOMAIN users, NEW k, NEW first
    PROVE  Tells(audit, <<"user", u>>, k, first, first)
  <1>1. Named(audit, <<"user", u>>, k) = {}
    BY DEF UsersHold, NamesUsers, Named
  <1> QED
    BY <1>1 DEF Tells

\* The row of u, which may be a new user's, and the entry about it.
LEMMA UserTold ==
    ASSUME Typed, UsersHold, NEW w \in Workers, Ends(w), Outdates(w),
           crossed' = crossed \cup req[w].late,
           Len(users) <= Len(users'), Len(users) \in Nat, Len(users') \in Nat,
           DOMAIN users \subseteq DOMAIN users', NEW u \in DOMAIN users', u \in Nat,
           \A v \in DOMAIN users' \ {u} : v \in DOMAIN users /\ users'[v] = users[v],
           u \in DOMAIN users => /\ <<"user", u>> \in req[w].on
                                 /\ users'[u].client = users[u].client,
           NEW acao \in Acoes,
           NEW after \in [role: Roles] \cup [role: Roles, active: BOOLEAN],
           Log(<<"user", u>>, acao, after),
           <<"user", u>> \notin req[w].late => \A k \in {"role", "active"} :
              users'[u][k] = IF k \in DOMAIN after THEN after[k]
                             ELSE IF u \in DOMAIN users THEN users[u][k]
                             ELSE FirstOfUser(u, k)
    PROVE  /\ UsersHold' /\ audit' \in Seq(Entry) /\ Quiet({"client", "rule"})
           /\ \A i \in DOMAIN audit : i \in DOMAIN audit' /\ audit'[i] = audit[i]
           /\ after.role # "customer" => Turned(u)'
  <1> DEFINE on == <<"user", u>>
             n == Len(audit) + 1
  <1>1. audit \in Seq(Entry)
    BY DEF Typed
  <1>2. /\ [on |-> on, acao |-> acao, after |-> after] \in Entry
        /\ on[1] = "user" /\ on[2] = u /\ Log(on, acao, after)
    BY DEF Entry
  <1>3. \A v : on = <<"user", v>> <=> u = v
    OBVIOUS
  <1> HIDE DEF on, n
  <1>4. /\ audit' \in Seq(Entry)
        /\ \A kinds : on[1] \notin kinds => Quiet(kinds)
        /\ \A e, k, first :
              /\ on = e /\ k \in DOMAIN after => Tells(audit', e, k, first, after[k])
              /\ ~(on = e /\ k \in DOMAIN after) =>
                    \A value : Tells(audit, e, k, first, value)
                                  => Tells(audit', e, k, first, value)
        /\ DOMAIN audit' = DOMAIN audit \cup {n}
        /\ \A i \in DOMAIN audit : audit'[i] = audit[i]
        /\ audit'[n].on = on /\ audit'[n].after = after
    BY ONLY <1>1, <1>2, Logged DEF n
  <1>5. crossed \subseteq crossed' /\ Beside(w) /\ UserRequestHolds(req[w])'
    BY NothingHeld
  <1>6. UsersTell'
    <2>1. ASSUME NEW v \in DOMAIN users', users'[v].client = 0,
                 <<"user", v>> \notin crossed',
                 NEW k \in {"role", "active"}
          PROVE  Tells(audit', <<"user", v>>, k, FirstOfUser(v, k), users'[v][k])
      <3> DEFINE old == IF v \in DOMAIN users THEN users[v][k] ELSE FirstOfUser(v, k)
      <3>1. Tells(audit, <<"user", v>>, k, FirstOfUser(v, k), old)
        <4>1. CASE v \in DOMAIN users
          <5>1. users[v].client = 0 /\ <<"user", v>> \notin crossed
            BY <1>5, <2>1, <4>1
          <5> QED
            BY <4>1, <5>1 DEF UsersHold, UsersTell
        <4>2. CASE v \notin DOMAIN users
          BY <4>2, NothingNamed
        <4> QED
          BY <4>1, <4>2
      <3>2. CASE v = u /\ k \in DOMAIN after
        <4>1. <<"user", u>> \notin req[w].late
          BY <2>1, <3>2
        <4>2. users'[v][k] = after[k]
          BY <3>2, <4>1
        <4>3. Tells(audit', <<"user", v>>, k, FirstOfUser(v, k), after[k])
          BY <1>3, <1>4, <3>2
        <4> QED
          BY <4>2, <4>3
      <3>3. CASE v = u /\ k \notin DOMAIN after
        <4>1. <<"user", u>> \notin req[w].late
          BY <2>1, <3>3
        <4>2. users'[v][k] = old
          BY <3>3, <4>1
        <4> HIDE DEF old
        <4>3. Tells(audit', <<"user", v>>, k, FirstOfUser(v, k), old)
          BY <1>4, <3>1, <3>3
        <4> QED
          BY <4>2, <4>3
      <3>4. CASE v # u
        <4>1. users'[v][k] = old
          BY <3>4
        <4> HIDE DEF old
        <4>2. on # <<"user", v>>
          BY <1>3, <3>4
        <4>3. Tells(audit', <<"user", v>>, k, FirstOfUser(v, k), old)
          BY <1>4, <3>1, <4>2
        <4> QED
          BY <4>1, <4>3
      <3> QED
        BY <3>2, <3>3, <3>4
    <2>2. Len(InitUsers) <= Len(users')
      <3>1. Len(InitUsers) \in Nat
        BY AccountsAssumption
      <3> QED
        BY <3>1 DEF UsersHold, UsersTell
    <2> QED
      BY <2>1, <2>2 DEF UsersTell, FirstOfUser
  <1>7. NamesUsers'
    <2> SUFFICES ASSUME NEW i \in DOMAIN audit', audit'[i].on[1] = "user"
                 PROVE  audit'[i].on[2] \in DOMAIN users'
      BY DEF NamesUsers
    <2>1. CASE i = n
      BY <1>2, <1>4, <2>1
    <2>2. CASE i \in DOMAIN audit
      BY <1>4, <2>2 DEF UsersHold, NamesUsers
    <2> QED
      BY <1>4, <2>1, <2>2
  <1>8. ASSUME NEW v \in Workers \ {w}
        PROVE  UserRequestHolds(req[v])'
    <2>1. UserRequestHolds(req[v])
      BY DEF UsersHold
    <2>2. /\ req'[v].op = req[v].op /\ req'[v].on = req[v].on
          /\ req'[v].arg = req[v].arg /\ req[v].late \subseteq req'[v].late
          /\ req[v].on \cap req[w].on \subseteq req'[v].late
      BY DEF Ends, Beside, Outdates
    <2>3. ASSUME req[v].op = "patch user"
          PROVE  /\ req[v].arg.u \in DOMAIN users'
                 /\ Knows(req[v], <<"user", req[v].arg.u>>,
                          /\ req[v].arg.saw.role = users[req[v].arg.u].role
                          /\ req[v].arg.saw.active = users[req[v].arg.u].active)'
      <3> DEFINE x == req[v].arg.u
      <3>1. /\ x \in DOMAIN users /\ req'[v].arg.u = x
            /\ Knows(req[v], <<"user", x>>,
                     /\ req[v].arg.saw.role = users[x].role
                     /\ req[v].arg.saw.active = users[x].active)
        BY <2>1, <2>2, <2>3 DEF UserRequestHolds
      <3> HIDE DEF x
      <3>2. CASE x = u
        <4>1. <<"user", x>> \in req'[v].late /\ <<"user", x>> \in req'[v].on
          BY <2>2, <3>1, <3>2 DEF Knows
        <4> QED
          BY <3>1, <4>1 DEF Knows, x
      <3>3. CASE x # u
        <4>1. users'[x] = users[x]
          BY <3>1, <3>3
        <4> QED
          BY <2>2, <3>1, <4>1 DEF Knows, x
      <3> QED
        BY <3>2, <3>3
    <2>4. req[v].op = "cancel" /\ req[v].arg.u # 0 =>
             req[v].arg.u \in DOMAIN users' /\ users'[req[v].arg.u].client # 0
      BY <2>1 DEF UserRequestHolds
    <2> QED
      BY <2>1, <2>2, <2>3, <2>4 DEF UserRequestHolds
  <1>9. Quiet({"client", "rule"})
    BY <1>2, <1>4
  <1>10. ASSUME after.role # "customer" PROVE Turned(u)'
    BY <1>4, <1>10 DEF Turned, on
  <1> QED
    BY <1>4, <1>5, <1>6, <1>7, <1>8, <1>9, <1>10 DEF UsersHold

LEMMA EndRegisterStep ==
    ASSUME IInv, NEW w \in Workers, EndRegister(w)
    PROVE  IInv'
  <1> DEFINE row == req[w].arg.row
             u == Len(users) + 1
             mail == [to |-> u, token |-> 0]
             op == "create"
             after == [role |-> row.role]
  <1>1. /\ req[w].op = "register"
        /\ users' = Append(users, row)
        /\ mails' = mails \cup {mail}
        /\ Commit(w) /\ Log(<<"user", u>>, op, after)
        /\ UNCHANGED registryVars
        /\ UNCHANGED <<refresh, access, resets, proposals, now, signouts>>
    BY DEF EndRegister, Holds
  <1>2. /\ Typed /\ TokensHold /\ Sessions /\ ResetsHold /\ SignOutsHold
        /\ CustomersAreHeld /\ UsersHold /\ users \in Seq(User) /\ AccountsTypeOK
        /\ clients \in Seq(Client) /\ resets \in Seq(ResetToken) /\ mails \subseteq Mail
        /\ proposals \in [Proposals -> {"pronta", "aprovada", "cancelada"}]
    BY DEF IInv, Typed, TypeOK, AccountsTypeOK, RegistryTypeOK
  <1>3. row \in User /\ row.active = TRUE /\ row.revoked = 0 /\ row.client = 0
    <2>1. row \in User /\ row.active /\ row.revoked = 0 /\ row.client = 0
      BY <1>1, <1>2 DEF UsersHold, UserRequestHolds
    <2> QED
      BY <2>1 DEF User
  <1>4. /\ op \in Acoes /\ u \in Nat /\ u # 0
        /\ after \in [role: Roles] \cup [role: Roles, active: BOOLEAN]
        /\ DOMAIN after = {"role"} /\ after.role = row.role
        /\ mail \in Mail
    BY <1>2, <1>3 DEF Acoes, User, Mail
  <1>5. /\ users' \in Seq(User) /\ Len(users') = Len(users) + 1
        /\ DOMAIN users' = DOMAIN users \cup {u}
        /\ u \notin DOMAIN users /\ Len(users) \in Nat
        /\ \A v \in DOMAIN users : users'[v] = users[v]
        /\ users'[u] = row
    BY <1>1, <1>2, <1>3, Appended
  <1>6. \A k \in {"role", "active"} :
           users'[u][k] = IF k \in DOMAIN after THEN after[k]
                          ELSE IF u \in DOMAIN users THEN users[u][k]
                          ELSE FirstOfUser(u, k)
    BY <1>3, <1>4, <1>5 DEF FirstOfUser
  <1> HIDE DEF row, u, mail, op, after
  <1>7. Ends(w) /\ Outdates(w) /\ crossed' = crossed \cup req[w].late
    BY ONLY <1>1, <1>2, Committed
  <1>8. /\ UsersHold' /\ audit' \in Seq(Entry) /\ Quiet({"client", "rule"})
        /\ \A i \in DOMAIN audit : i \in DOMAIN audit' /\ audit'[i] = audit[i]
    <2>1. /\ Len(users) <= Len(users') /\ Len(users') \in Nat
          /\ u \in DOMAIN users' /\ DOMAIN users \subseteq DOMAIN users'
          /\ \A v \in DOMAIN users' \ {u} : v \in DOMAIN users /\ users'[v] = users[v]
      BY <1>5
    <2> QED
      BY <1>1, <1>2, <1>4, <1>5, <1>6, <1>7, <2>1, UserTold
  <1>9. AccountsTypeOK'
    BY <1>1, <1>2, <1>4, <1>5, AccountsTyped
  <1>10. /\ TokenRequestHolds(req[w])' /\ ResetRequestHolds(req[w])'
         /\ SignOutRequestHolds(req[w])' /\ CustomerRequestHolds(req[w])'
         /\ Beside(w) /\ crossed \subseteq crossed'
    BY ONLY <1>7, NothingHeld
  <1>11. TokensHold' /\ ResetsHold'
    BY <1>1, <1>2, <1>5, <1>10, TokensKept, ResetsKept
  <1>12. SignOutsHold'
    BY <1>1, <1>2, <1>3, <1>5, <1>10, SignOutsKept
  <1>13. CustomersAreHeld'
    <2>1. UNCHANGED clients /\ \A c \in DOMAIN clients' : c # 0
      <3>1. UNCHANGED clients
        BY <1>1 DEF registryVars
      <3> QED
        BY ONLY <1>2, <3>1
    <2> QED
      BY <1>2, <1>3, <1>5, <1>8, <1>10, <2>1, CustomersKept
  <1> QED
    BY <1>1, <1>7, <1>8, <1>9, <1>11, <1>12, <1>13, AccountsEnded

LEMMA EndPatchUserStep ==
    ASSUME IInv, NEW w \in Workers, EndPatchUser(w)
    PROVE  IInv'
  <1>0. PICK u : u = req[w].arg.u
    OBVIOUS
  <1> DEFINE a == req[w].arg
             row == Written(users[u], a.saw, a.want)
             op == "user_patch"
             after == req[w].arg.want
  <1>1. /\ req[w].op = "patch user"
        /\ users' = [users EXCEPT ![u] = row]
        /\ Commit(w) /\ Log(<<"user", u>>, op, after)
        /\ UNCHANGED registryVars
        /\ UNCHANGED <<refresh, access, resets, mails, proposals, now, signouts>>
    BY <1>0 DEF EndPatchUser, Holds
  <1>2. /\ Typed /\ TokensHold /\ Sessions /\ ResetsHold /\ SignOutsHold
        /\ CustomersAreHeld /\ UsersHold /\ users \in Seq(User) /\ AccountsTypeOK
        /\ clients \in Seq(Client) /\ resets \in Seq(ResetToken) /\ mails \subseteq Mail
        /\ proposals \in [Proposals -> {"pronta", "aprovada", "cancelada"}]
    BY DEF IInv, Typed, TypeOK, AccountsTypeOK, RegistryTypeOK
  <1>3. /\ u \in DOMAIN users /\ a.saw \in User
        /\ after \in [role: Roles, active: BOOLEAN]
        /\ Knows(req[w], <<"user", u>>, /\ a.saw.role = users[u].role
                                        /\ a.saw.active = users[u].active)
    BY <1>0, <1>1, <1>2 DEF UsersHold, UserRequestHolds
  <1>4. /\ row \in User
        /\ row.tenant = users[u].tenant /\ row.client = users[u].client
        /\ row.revoked = users[u].revoked
        /\ row.role = users[u].role \/ row.role = after.role
        /\ <<"user", u>> \notin req[w].late =>
              row.role = after.role /\ row.active = after.active
    <2>1. users[u] \in User
      BY <1>2, <1>3
    <2> QED
      BY <1>3, <2>1, FlushedUser DEF Knows
  <1>5. /\ op \in Acoes /\ u \in Nat
        /\ after \in [role: Roles] \cup [role: Roles, active: BOOLEAN]
        /\ DOMAIN after = {"role", "active"}
    BY <1>2, <1>3 DEF Acoes
  <1> HIDE DEF a, row, op, after
  <1>6. /\ users' \in Seq(User) /\ Len(users') = Len(users) /\ Len(users) \in Nat
        /\ DOMAIN users' = DOMAIN users /\ users'[u] = row
        /\ \A v \in DOMAIN users \ {u} : users'[v] = users[v]
    BY <1>1, <1>2, <1>3, <1>4, UserWritten
  <1>7. Ends(w) /\ Outdates(w) /\ crossed' = crossed \cup req[w].late
    BY ONLY <1>1, <1>2, Committed
  <1>8. <<"user", u>> \in req[w].on
    BY <1>3 DEF Knows
  <1>9. <<"user", u>> \notin req[w].late => \A k \in {"role", "active"} :
           users'[u][k] = IF k \in DOMAIN after THEN after[k]
                          ELSE IF u \in DOMAIN users THEN users[u][k]
                          ELSE FirstOfUser(u, k)
    BY <1>4, <1>5, <1>6
  <1>10. /\ UsersHold' /\ audit' \in Seq(Entry) /\ Quiet({"client", "rule"})
         /\ \A i \in DOMAIN audit : i \in DOMAIN audit' /\ audit'[i] = audit[i]
         /\ after.role # "customer" => Turned(u)'
    <2>1. /\ Len(users) <= Len(users') /\ Len(users') \in Nat
          /\ u \in DOMAIN users' /\ DOMAIN users \subseteq DOMAIN users'
          /\ \A v \in DOMAIN users' \ {u} : v \in DOMAIN users /\ users'[v] = users[v]
          /\ users'[u].client = users[u].client /\ Len(users) \in Nat
      BY <1>3, <1>4, <1>6
    <2>2. Log(<<"user", u>>, op, after) /\ Typed /\ UsersHold
      BY ONLY <1>1, <1>2
    <2>3. /\ op \in Acoes /\ u \in Nat
          /\ after \in [role: Roles] \cup [role: Roles, active: BOOLEAN]
      BY ONLY <1>5
    <2> QED
      BY ONLY <1>7, <1>8, <1>9, <2>1, <2>2, <2>3, UserTold
  <1>11. AccountsTypeOK'
    BY <1>1, <1>2, <1>6, AccountsTyped
  <1>12. /\ TokenRequestHolds(req[w])' /\ ResetRequestHolds(req[w])'
         /\ SignOutRequestHolds(req[w])' /\ CustomerRequestHolds(req[w])'
         /\ Beside(w) /\ crossed \subseteq crossed'
    BY ONLY <1>7, NothingHeld
  <1>13. TokensHold' /\ ResetsHold'
    BY <1>1, <1>2, <1>6, <1>12, TokensKept, ResetsKept
  <1>14. SignOutsHold'
    BY <1>1, <1>2, <1>4, <1>6, <1>12, SignOutsKept
  <1>15. CustomersAreHeld'
    <2>1. UNCHANGED clients /\ \A c \in DOMAIN clients' : c # 0
      <3>1. UNCHANGED clients
        BY <1>1 DEF registryVars
      <3> QED
        BY ONLY <1>2, <3>1
    <2>2. ASSUME NEW v \in DOMAIN users
          PROVE  /\ v \in DOMAIN users'
                 /\ users'[v].client = users[v].client /\ users'[v].tenant = users[v].tenant
                 /\ \/ users'[v].role = users[v].role
                    \/ users'[v].role = "customer"
                    \/ Turned(v)'
      <3>1. CASE v = u
        <4>1. \/ users'[u].role = users[u].role
              \/ users'[u].role = "customer"
              \/ Turned(u)'
          BY <1>4, <1>6, <1>10
        <4> QED
          BY ONLY <1>3, <1>4, <1>6, <3>1, <4>1 DEF Turned
      <3>2. CASE v # u
        BY <1>6, <3>2
      <3> QED
        BY <3>1, <3>2
    <2> QED
      BY <1>2, <1>6, <1>10, <1>12, <2>1, <2>2, CustomersKept
  <1> QED
    BY <1>1, <1>7, <1>10, <1>11, <1>13, <1>14, <1>15, AccountsEnded

\* A client's user: the one there is, or one that is made, when every user it
\* had is staff by now or another session made one since.
LEMMA CustomersInvited ==
    ASSUME CustomersAreHeld, NEW w \in Workers, Ends(w), Outdates(w),
           crossed' = crossed \cup req[w].late, UNCHANGED <<clients, audit>>,
           Invites(req[w]), NEW row \in User, NEW n, n \notin DOMAIN users,
           row = InvitationOf(req[w]).row, InvitationOf(req[w]).u = 0,
           DOMAIN users' = DOMAIN users \cup {n}, users'[n] = row,
           \A v \in DOMAIN users : users'[v] = users[v]
    PROVE  CustomersAreHeld'
  <1>0. PICK c : c = row.client
    OBVIOUS
  <1>1. /\ row.role = "customer" /\ c \in DOMAIN clients
        /\ row.tenant = clients[c].tenant
        /\ <<"customer", c>> \in req[w].on
        /\ Knows(req[w], <<"customer", c>>, \A u \in Portal(c) : Turned(u))
    BY <1>0 DEF CustomersAreHeld, CustomerRequestHolds
  <1>2. crossed \subseteq crossed' /\ Beside(w) /\ CustomerRequestHolds(req[w])'
    BY NothingHeld
  <1>3. \A u : Turned(u)' = Turned(u)
    BY DEF Turned
  <1>4. Portal(c)' = Portal(c) \cup {n} /\ \A d : d # c => Portal(d)' = Portal(d)
    BY <1>0 DEF Portal
  <1>5. ASSUME NEW u \in DOMAIN users', users'[u].client # 0
        PROVE  /\ users'[u].client \in DOMAIN clients'
               /\ users'[u].tenant = clients'[users'[u].client].tenant
               /\ users'[u].role # "customer" => Turned(u)'
    <2>1. CASE u = n
      BY <1>0, <1>1, <2>1
    <2>2. CASE u \in DOMAIN users
      <3>1. /\ users[u].client \in DOMAIN clients
            /\ users[u].tenant = clients[users[u].client].tenant
            /\ users[u].role # "customer" => Turned(u)
        BY <1>5, <2>2 DEF CustomersAreHeld, PortalHolds
      <3> QED
        BY <1>3, <2>2, <3>1
    <2> QED
      BY <2>1, <2>2
  <1>6. ASSUME NEW d \in DOMAIN clients, NEW u \in Portal(d)', NEW v \in Portal(d)'
        PROVE  \/ u = v
               \/ <<"customer", d>> \in crossed'
               \/ \E x \in Portal(d)' : Turned(x)'
    <2>1. CASE u \in Portal(d) /\ v \in Portal(d)
      <3>1. \/ u = v
            \/ <<"customer", d>> \in crossed
            \/ \E x \in Portal(d) : Turned(x)
        BY <2>1 DEF CustomersAreHeld, PortalHolds
      <3> QED
        BY <1>2, <1>3, <1>4, <3>1
    <2>2. ASSUME NEW x \in Portal(d), d = c
          PROVE  \/ <<"customer", d>> \in crossed'
                 \/ \E y \in Portal(d)' : Turned(y)'
      <3>1. CASE <<"customer", c>> \in req[w].late
        BY <2>2, <3>1
      <3>2. CASE <<"customer", c>> \notin req[w].late
        <4>1. Turned(x)
          BY <1>1, <2>2, <3>2 DEF Knows
        <4> QED
          BY <1>3, <1>4, <2>2, <4>1
      <3> QED
        BY <3>1, <3>2
    <2> QED
      BY <1>4, <2>1, <2>2
  <1>7. PortalHolds'
    BY <1>5, <1>6 DEF PortalHolds
  <1>8. ASSUME NEW v \in Workers \ {w}
        PROVE  CustomerRequestHolds(req[v])'
    <2>1. CustomerRequestHolds(req[v])
      BY DEF CustomersAreHeld
    <2>2. /\ req'[v].op = req[v].op /\ req'[v].on = req[v].on
          /\ req'[v].arg = req[v].arg /\ req[v].late \subseteq req'[v].late
          /\ req[v].on \cap req[w].on \subseteq req'[v].late
      BY DEF Ends, Beside, Outdates
    <2>3. InvitationOf(req[v])' = InvitationOf(req[v]) /\ Invites(req[v])' = Invites(req[v])
      BY <2>2 DEF InvitationOf, Invites
    <2>4. ASSUME NEW d, Knows(req[v], <<"customer", d>>, \A u \in Portal(d) : Turned(u))
          PROVE  Knows(req[v], <<"customer", d>>, \A u \in Portal(d) : Turned(u))'
      <3>1. CASE d = c
        <4>1. <<"customer", d>> \in req'[v].late /\ <<"customer", d>> \in req'[v].on
          BY <1>1, <2>2, <2>4, <3>1 DEF Knows
        <4> QED
          BY <4>1 DEF Knows
      <3>2. CASE d # c
        <4>1. Portal(d)' = Portal(d)
          BY <1>4, <3>2
        <4> QED
          BY <1>3, <2>2, <2>4, <4>1 DEF Knows
      <3> QED
        BY <3>1, <3>2
    <2> QED
      BY <2>1, <2>2, <2>3, <2>4 DEF CustomerRequestHolds
  <1> QED
    BY <1>2, <1>7, <1>8 DEF CustomersAreHeld

LEMMA InvitationSent ==
    ASSUME IInv, NEW w \in Workers, Ends(w), Outdates(w),
           crossed' = crossed \cup req[w].late, UNCHANGED registryVars,
           UNCHANGED <<audit, refresh, access, now, signouts>>,
           proposals' \in [Proposals -> {"pronta", "aprovada", "cancelada"}],
           Invites(req[w]), NEW a, a = InvitationOf(req[w]), SendInvitation(a)
    PROVE  IInv'
  <1>0. PICK u : u = IF a.u = 0 THEN Len(users) + 1 ELSE a.u
    OBVIOUS
  <1> DEFINE mail == [to |-> u, token |-> 0]
  <1>1. /\ Typed /\ TokensHold /\ Sessions /\ ResetsHold /\ SignOutsHold
        /\ CustomersAreHeld /\ UsersHold /\ users \in Seq(User) /\ AccountsTypeOK
        /\ clients \in Seq(Client) /\ resets \in Seq(ResetToken) /\ mails \subseteq Mail
        /\ audit \in Seq(Entry)
    BY DEF IInv, Typed, TypeOK, AccountsTypeOK, RegistryTypeOK
  <1>2. /\ users' = IF a.u = 0 THEN Append(users, a.row) ELSE users
        /\ resets' = Reissued(a.spent, u)
        /\ mails' = mails \cup {mail}
    BY <1>0 DEF SendInvitation
  <1>3. /\ a.row \in User /\ a.row.revoked = 0 /\ a.row.client \in DOMAIN clients
        /\ a.u # 0 => a.u \in DOMAIN users /\ KnowsUnused(req[w], a.u, a.spent)
    BY <1>1 DEF CustomersAreHeld, CustomerRequestHolds, ResetsHold, ResetRequestHolds
  <1>4. /\ users' \in Seq(User) /\ Len(users) <= Len(users')
        /\ Len(users) \in Nat /\ Len(users') \in Nat
        /\ u \in Nat /\ u \in DOMAIN users' /\ DOMAIN users' = DOMAIN users \cup {u}
        /\ \A v \in DOMAIN users : users'[v] = users[v]
        /\ u \notin DOMAIN users => users'[u] = a.row
        /\ (u \in DOMAIN users) = (a.u # 0)
        /\ a.u # 0 => u = a.u /\ users' = users
    <2>1. CASE a.u = 0
      <3>1. /\ Append(users, a.row) \in Seq(User)
            /\ Len(Append(users, a.row)) = Len(users) + 1 /\ Len(users) \in Nat
            /\ DOMAIN Append(users, a.row) = DOMAIN users \cup {Len(users) + 1}
            /\ Len(users) + 1 \notin DOMAIN users
            /\ \A v \in DOMAIN users : Append(users, a.row)[v] = users[v]
            /\ Append(users, a.row)[Len(users) + 1] = a.row
        BY <1>1, <1>3, Appended
      <3>2. users' = Append(users, a.row) /\ u = Len(users) + 1
        BY <1>0, <1>2, <2>1
      <3> QED
        BY ONLY <2>1, <3>1, <3>2
    <2>2. CASE a.u # 0
      <3>1. users' = users /\ u = a.u /\ u \in DOMAIN users /\ users \in Seq(User)
        BY <1>0, <1>1, <1>2, <1>3, <2>2
      <3>2. Len(users) \in Nat /\ Len(users) <= Len(users) /\ u \in Nat
        BY ONLY <3>1
      <3>3. DOMAIN users = DOMAIN users \cup {u}
        BY ONLY <3>1
      <3> QED
        BY ONLY <2>2, <3>1, <3>2, <3>3
    <2> QED
      BY <2>1, <2>2
  <1>5. mail \in Mail
    BY <1>4 DEF Mail
  <1> HIDE DEF mail
  <1>6. ResetsHold' /\ resets' \in Seq(ResetToken)
    <2>1. u \in DOMAIN users => KnowsUnused(req[w], u, a.spent)
      BY <1>3, <1>4
    <2> QED
      BY <1>1, <1>2, <1>4, <2>1, ResetsReissued
  <1>7. AccountsTypeOK'
    BY <1>1, <1>2, <1>4, <1>5, <1>6, AccountsTyped
  <1>8. /\ TokenRequestHolds(req[w])' /\ SignOutRequestHolds(req[w])'
        /\ CustomerRequestHolds(req[w])' /\ UserRequestHolds(req[w])'
        /\ Beside(w) /\ crossed \subseteq crossed'
    BY NothingHeld
  <1>9. UNCHANGED clients /\ \A c \in DOMAIN clients' : c # 0
    <2>1. UNCHANGED clients
      BY DEF registryVars
    <2> QED
      BY ONLY <1>1, <2>1
  <1>10. TokensHold'
    BY <1>1, <1>4, <1>8, TokensKept
  <1>11. SignOutsHold'
    <2>1. \A i \in DOMAIN resets : i \in DOMAIN resets' /\ resets'[i].user = resets[i].user
      BY <1>1, <1>2, <1>4, Reissue
    <2>2. \A v \in DOMAIN users' \ DOMAIN users : users'[v].revoked = 0
      BY <1>3, <1>4
    <2> QED
      BY <1>1, <1>4, <1>8, <2>1, <2>2, SignOutsKept
  <1>12. CustomersAreHeld'
    <2>1. CASE a.u = 0
      <3>1. /\ a.row \in User /\ a.row = InvitationOf(req[w]).row
            /\ InvitationOf(req[w]).u = 0
        BY <1>3, <2>1
      <3>2. /\ u \notin DOMAIN users /\ DOMAIN users' = DOMAIN users \cup {u}
            /\ users'[u] = a.row /\ \A v \in DOMAIN users : users'[v] = users[v]
        BY <1>4, <2>1
      <3> QED
        BY <1>1, <1>9, <3>1, <3>2, CustomersInvited
    <2>2. CASE a.u # 0
      <3>1. users' = users
        BY <1>4, <2>2
      <3> QED
        BY <1>1, <1>8, <1>9, <3>1, CustomersKept
    <2> QED
      BY <2>1, <2>2
  <1>13. UsersHold' /\ Quiet({"client", "rule"})
    <2>1. Quiet({"user"}) /\ Quiet({"client", "rule"})
      BY DEF Quiet
    <2>2. \A v \in DOMAIN users' \ DOMAIN users : users'[v].client # 0
      BY <1>3, <1>4, <1>9
    <2> QED
      BY <1>1, <1>4, <1>8, <2>1, <2>2, UsersKept
  <1> QED
    BY <1>1, <1>6, <1>7, <1>10, <1>11, <1>12, <1>13, AccountsEnded

LEMMA EndInviteStep ==
    ASSUME IInv, NEW w \in Workers, EndInvite(w)
    PROVE  IInv'
  <1>0. PICK a : a = req[w].arg
    OBVIOUS
  <1>1. /\ req[w].op = "invite" /\ SendInvitation(a) /\ Commit(w)
        /\ UNCHANGED registryVars
        /\ UNCHANGED <<audit, refresh, access, proposals, now, signouts>>
    BY <1>0 DEF EndInvite, Holds
  <1>2. Invites(req[w]) /\ a = InvitationOf(req[w])
    BY <1>0, <1>1 DEF Invites, InvitationOf
  <1>3. Sessions /\ proposals \in [Proposals -> {"pronta", "aprovada", "cancelada"}]
    BY DEF IInv, Typed, TypeOK, AccountsTypeOK
  <1>4. Ends(w) /\ Outdates(w) /\ crossed' = crossed \cup req[w].late
    BY ONLY <1>1, <1>3, Committed
  <1> QED
    BY <1>1, <1>2, <1>3, <1>4, InvitationSent

LEMMA EndApproveStep ==
    ASSUME IInv, NEW w \in Workers, EndApprove(w)
    PROVE  IInv'
  <1>0. PICK a : a = req[w].arg.invitation
    OBVIOUS
  <1>1. /\ req[w].op = "approve" /\ SendInvitation(a) /\ Commit(w)
        /\ UNCHANGED registryVars
        /\ UNCHANGED <<audit, refresh, access, now, signouts>>
        /\ proposals' = [proposals EXCEPT ![req[w].arg.p] = "aprovada"]
    BY <1>0 DEF EndApprove, Holds, LogAfterCommit
  <1>2. Invites(req[w]) /\ a = InvitationOf(req[w])
    BY <1>0, <1>1 DEF Invites, InvitationOf
  <1>3. Sessions /\ proposals \in [Proposals -> {"pronta", "aprovada", "cancelada"}]
    BY DEF IInv, Typed, TypeOK, AccountsTypeOK
  <1>4. proposals' \in [Proposals -> {"pronta", "aprovada", "cancelada"}]
    BY <1>1, <1>3
  <1>5. Ends(w) /\ Outdates(w) /\ crossed' = crossed \cup req[w].late
    BY ONLY <1>1, <1>3, Committed
  <1> QED
    BY <1>1, <1>2, <1>4, <1>5, InvitationSent

LEMMA EndCancelStep ==
    ASSUME IInv, NEW w \in Workers, EndCancel(w)
    PROVE  IInv'
  <1>0. PICK u : u = req[w].arg.u
    OBVIOUS
  <1> DEFINE row(x) == IF x = u THEN [users[x] EXCEPT !.active = FALSE] ELSE users[x]
  <1>1. /\ req[w].op = "cancel"
        /\ users' = [x \in DOMAIN users |-> row(x)]
        /\ proposals' = [proposals EXCEPT ![req[w].arg.p] = "cancelada"]
        /\ Commit(w)
        /\ UNCHANGED registryVars
        /\ UNCHANGED <<audit, refresh, access, resets, mails, now, signouts>>
    BY <1>0 DEF EndCancel, Holds, LogAfterCommit
  <1>2. /\ Typed /\ TokensHold /\ Sessions /\ ResetsHold /\ SignOutsHold
        /\ CustomersAreHeld /\ UsersHold /\ users \in Seq(User) /\ AccountsTypeOK
        /\ clients \in Seq(Client) /\ resets \in Seq(ResetToken) /\ mails \subseteq Mail
        /\ proposals \in [Proposals -> {"pronta", "aprovada", "cancelada"}]
        /\ audit \in Seq(Entry)
    BY DEF IInv, Typed, TypeOK, AccountsTypeOK, RegistryTypeOK
  <1>3. /\ <<"user", u>> \in req[w].on
        /\ u # 0 => u \in DOMAIN users /\ users[u].client # 0
    BY <1>0, <1>1, <1>2 DEF UsersHold, UserRequestHolds
  <1>4. ASSUME NEW x \in DOMAIN users
        PROVE  /\ row(x) \in User
               /\ row(x).tenant = users[x].tenant /\ row(x).client = users[x].client
               /\ row(x).role = users[x].role /\ row(x).revoked = users[x].revoked
    <2>1. users[x] \in User
      BY <1>2
    <2> DEFINE old == users[x]
    <2> HIDE DEF old
    <2>2. [old EXCEPT !.active = FALSE] \in User /\ old \in User
      BY ONLY <2>1 DEF User, old
    <2> QED
      BY <2>1, <2>2 DEF User, old
  <1> HIDE DEF row
  <1>5. /\ users' \in Seq(User) /\ Len(users') = Len(users) /\ Len(users) \in Nat
        /\ DOMAIN users' = DOMAIN users
        /\ \A x \in DOMAIN users : users'[x] = row(x)
    <2>1. DOMAIN users' = DOMAIN users /\ \A x \in DOMAIN users : users'[x] = row(x)
      BY <1>1
    <2>2. users' = [x \in DOMAIN users |-> users'[x]]
      BY <1>1
    <2>3. users' \in Seq(User) /\ Len(users') = Len(users)
      <3>1. \A x \in DOMAIN users : users'[x] \in User
        BY <1>4, <2>1
      <3>2. users \in Seq(User)
        BY <1>2
      <3> QED
        BY ONLY <2>1, <2>2, <3>1, <3>2, Replaced
    <2> QED
      BY <1>2, <2>1, <2>3
  <1>6. \A x \in DOMAIN users :
          /\ users'[x].tenant = users[x].tenant /\ users'[x].client = users[x].client
          /\ users'[x].role = users[x].role /\ users'[x].revoked = users[x].revoked
    BY <1>4, <1>5
  <1>7. \A x \in DOMAIN users \ {u} : users'[x] = users[x]
    BY <1>5 DEF row
  <1>8. Ends(w) /\ Outdates(w) /\ crossed' = crossed \cup req[w].late
    BY ONLY <1>1, <1>2, Committed
  <1>9. proposals' \in [Proposals -> {"pronta", "aprovada", "cancelada"}]
    BY <1>1, <1>2
  <1>10. AccountsTypeOK'
    BY <1>1, <1>2, <1>5, <1>9, AccountsTyped
  <1>11. /\ TokenRequestHolds(req[w])' /\ ResetRequestHolds(req[w])'
         /\ SignOutRequestHolds(req[w])' /\ CustomerRequestHolds(req[w])'
         /\ UserRequestHolds(req[w])'
         /\ Beside(w) /\ crossed \subseteq crossed'
    BY ONLY <1>8, NothingHeld
  <1>12. TokensHold' /\ ResetsHold'
    BY <1>1, <1>2, <1>5, <1>11, TokensKept, ResetsKept
  <1>13. SignOutsHold'
    BY <1>1, <1>2, <1>5, <1>6, <1>11, SignOutsKept
  <1>14. CustomersAreHeld'
    <2>1. UNCHANGED clients
      BY <1>1 DEF registryVars
    <2>2. \A c \in DOMAIN clients' : c # 0
      BY ONLY <1>2, <2>1
    <2> QED
      BY <1>1, <1>2, <1>5, <1>6, <1>11, <2>1, <2>2, CustomersKept
  <1>15. UsersHold'
    <2>1. UsersTell'
      <3>1. ASSUME NEW x \in DOMAIN users, users'[x].client = 0,
                   <<"user", x>> \notin crossed', NEW k \in {"role", "active"}
            PROVE  Tells(audit, <<"user", x>>, k, FirstOfUser(x, k), users'[x][k])
        <4>1. users[x].client = 0 /\ x # 0 /\ x # u
          BY <1>2, <1>3, <1>6, <3>1
        <4>2. users'[x] = users[x] /\ <<"user", x>> \notin crossed
          BY <1>7, <1>11, <3>1, <4>1
        <4> QED
          BY <1>2, <3>1, <4>1, <4>2 DEF UsersHold, UsersTell
      <3> QED
        BY <1>1, <1>2, <1>5, <3>1 DEF UsersHold, UsersTell, FirstOfUser
    <2>2. NamesUsers'
      BY <1>1, <1>2, <1>5 DEF UsersHold, NamesUsers
    <2>3. ASSUME NEW v \in Workers \ {w}
          PROVE  UserRequestHolds(req[v])'
      <3>1. UserRequestHolds(req[v])
        BY <1>2 DEF UsersHold
      <3>2. /\ req'[v].op = req[v].op /\ req'[v].on = req[v].on
            /\ req'[v].arg = req[v].arg /\ req[v].late \subseteq req'[v].late
            /\ req[v].on \cap req[w].on \subseteq req'[v].late
        BY <1>8 DEF Ends, Beside, Outdates
      <3>3. ASSUME NEW x, x \in DOMAIN users,
                   Knows(req[v], <<"user", x>>, /\ req[v].arg.saw.role = users[x].role
                                                /\ req[v].arg.saw.active = users[x].active)
            PROVE  Knows(req[v], <<"user", x>>, /\ req[v].arg.saw.role = users[x].role
                                                /\ req[v].arg.saw.active = users[x].active)'
        <4>1. CASE x = u
          <5>1. <<"user", x>> \in req'[v].late /\ <<"user", x>> \in req'[v].on
            BY <1>3, <3>2, <3>3, <4>1 DEF Knows
          <5> QED
            BY <5>1 DEF Knows
        <4>2. CASE x # u
          <5>1. users'[x] = users[x]
            BY <1>7, <3>3, <4>2
          <5> QED
            BY <3>2, <3>3, <5>1 DEF Knows
        <4> QED
          BY <4>1, <4>2
      <3> QED
        <4>1. req[v].op = "patch user" =>
                 /\ req[v].arg.u \in DOMAIN users'
                 /\ Knows(req[v], <<"user", req[v].arg.u>>,
                          /\ req[v].arg.saw.role = users[req[v].arg.u].role
                          /\ req[v].arg.saw.active = users[req[v].arg.u].active)'
          BY <1>5, <3>1, <3>2, <3>3 DEF UserRequestHolds
        <4>2. req[v].op = "cancel" /\ req[v].arg.u # 0 =>
                 req[v].arg.u \in DOMAIN users' /\ users'[req[v].arg.u].client # 0
          BY <1>5, <1>6, <3>1 DEF UserRequestHolds
        <4> QED
          BY ONLY <3>1, <3>2, <4>1, <4>2 DEF UserRequestHolds
    <2> QED
      BY <1>11, <2>1, <2>2, <2>3 DEF UsersHold
  <1>16. Quiet({"client", "rule"})
    BY <1>1 DEF Quiet
  <1> QED
    BY <1>1, <1>2, <1>8, <1>10, <1>12, <1>13, <1>14, <1>15, <1>16, AccountsEnded

-----------------------------------------------------------------------------
(* Time, and sessions that write nothing *)

LEMMA AbortStep ==
    ASSUME IInv, NEW w \in Workers, Abort(w), UNCHANGED <<registryVars, accountVars>>
    PROVE  IInv'
  <1>1. Sessions /\ RegistryTypeOK
    BY DEF IInv, Typed, TypeOK
  <1>2. Ends(w) /\ UNCHANGED <<crossed, audit>>
    BY <1>1, Aborted
  <1>3. /\ UNCHANGED accountVars
        /\ UNCHANGED <<clients, rules, settings, profile, objects>>
    BY DEF registryVars
  <1>4. RegistryTypeOK'
    BY <1>1, <1>3 DEF RegistryTypeOK
  <1> QED
    BY <1>2, <1>3, <1>4, PlainlyWritten

\* Also a step in which nothing changes.
LEMMA ClockStep ==
    ASSUME IInv, now' \in 1..MaxNow, now <= now',
           UNCHANGED <<requestVars, registryVars, users, refresh, access, resets,
                       mails, proposals, signouts>>
    PROVE  IInv'
  <1>1. /\ UNCHANGED <<req, asked, crossed, audit>>
        /\ UNCHANGED <<clients, rules, settings, profile, objects>>
        /\ UNCHANGED <<users, refresh, access, resets, mails, proposals, signouts>>
    BY DEF requestVars, registryVars
  <1>2. /\ Typed /\ RegistryHolds /\ TokensHold /\ ResetsHold /\ SignOutsHold
        /\ CustomersAreHeld /\ UsersHold
    BY DEF IInv
  <1>3. Typed'
    BY <1>1, <1>2 DEF Typed, TypeOK, RegistryTypeOK, AccountsTypeOK, Sessions, Shaped
  <1>4. RegistryHolds'
    <2>1. ClientsTell' /\ RulesTell'
      BY <1>1, <1>2 DEF RegistryHolds, ClientsTell, RulesTell
    <2>2. ASSUME NEW w \in Workers
          PROVE  RegistryRequestHolds(req[w])'
      <3>1. RegistryRequestHolds(req[w])
        BY <1>2 DEF RegistryHolds
      <3>2. KnowsClient(req[w]) => KnowsClient(req[w])'
        BY ONLY <1>1 DEF KnowsClient, Knows
      <3> QED
        BY ONLY <1>1, <3>1, <3>2 DEF RegistryRequestHolds, Knows
    <2> QED
      BY <2>1, <2>2 DEF RegistryHolds
  <1>5. TokensHold'
    <2>1. SuccessorsHold' /\ FamiliesHold'
      BY <1>1, <1>2 DEF TokensHold, SuccessorsHold, FamiliesHold, Doubled
    <2> QED
      BY <1>1, <1>2, <2>1 DEF TokensHold, TokenRequestHolds, Knows
  <1>6. ResetsHold'
    <2>1. OneUnused'
      BY <1>1, <1>2 DEF ResetsHold, OneUnused
    <2>2. \A u : Unused(u)' = Unused(u)
      BY <1>1 DEF Unused
    <2>3. \A w \in Workers : InvitationOf(req[w])' = InvitationOf(req[w])
      BY <1>1 DEF InvitationOf
    <2>4. \A w \in Workers : ResetRequestHolds(req[w])'
      BY <1>1, <1>2, <2>2, <2>3 DEF ResetsHold, ResetRequestHolds, KnowsUnused, Invites, Knows
    <2> QED
      BY <2>1, <2>4 DEF ResetsHold
  <1>7. SignOutsHold'
    <2>1. now \in Nat /\ now' \in Nat /\ users \in Seq(User)
      BY <1>2, AccountsAssumption DEF Typed, TypeOK, AccountsTypeOK
    <2>2. RevokedHolds'
      <3>1. ASSUME NEW u \in DOMAIN users
            PROVE  users[u].revoked <= now'
        <4>1. users[u].revoked <= now
          BY <1>2 DEF SignOutsHold, RevokedHolds
        <4>2. users[u] \in User
          BY <2>1
        <4>3. users[u].revoked \in Nat
          BY ONLY <4>2 DEF User
        <4> QED
          BY <1>1, <2>1, <4>1, <4>3
      <3> QED
        BY <1>1, <1>2, <3>1 DEF SignOutsHold, RevokedHolds
    <2>3. ASSUME NEW w \in Workers
          PROVE  SignOutRequestHolds(req[w])'
      <3>1. SignOutRequestHolds(req[w])
        BY <1>2 DEF SignOutsHold
      <3>2. \A u : KnowsRevoked(req[w], u) => KnowsRevoked(req[w], u)'
        <4>1. ASSUME NEW u, KnowsRevoked(req[w], u)
              PROVE  req[w].arg.at <= now'
          BY <2>1, <4>1, AccountsAssumption DEF KnowsRevoked
        <4> QED
          BY <1>1, <4>1 DEF KnowsRevoked, Knows
      <3> QED
        BY <1>1, <3>1, <3>2 DEF SignOutRequestHolds
    <2> QED
      BY <2>2, <2>3 DEF SignOutsHold
  <1>8. CustomersAreHeld'
    <2>1. \A u : Turned(u)' = Turned(u) /\ Portal(u)' = Portal(u)
      BY <1>1 DEF Turned, Portal
    <2>2. PortalHolds'
      BY <1>1, <1>2, <2>1 DEF CustomersAreHeld, PortalHolds
    <2>3. \A w \in Workers : InvitationOf(req[w])' = InvitationOf(req[w])
      BY <1>1 DEF InvitationOf
    <2>4. \A w \in Workers : CustomerRequestHolds(req[w])'
      BY <1>1, <1>2, <2>1, <2>3 DEF CustomersAreHeld, CustomerRequestHolds, Invites, Knows
    <2> QED
      BY <2>2, <2>4 DEF CustomersAreHeld
  <1>9. UsersHold'
    BY <1>1, <1>2 DEF UsersHold, UsersTell, FirstOfUser, NamesUsers, UserRequestHolds, Knows
  <1> QED
    BY <1>3, <1>4, <1>5, <1>6, <1>7, <1>8, <1>9 DEF IInv

LEMMA TickStep ==
    ASSUME IInv, Tick
    PROVE  IInv'
  <1>1. now \in 1..MaxNow
    BY DEF IInv, Typed, TypeOK, AccountsTypeOK
  <1>2. now' \in 1..MaxNow /\ now <= now'
    BY <1>1, AccountsAssumption DEF Tick
  <1>3. UNCHANGED <<requestVars, registryVars, users, refresh, access, resets,
                    mails, proposals, signouts>>
    BY DEF Tick
  <1> QED
    BY <1>2, <1>3, ClockStep

-----------------------------------------------------------------------------
(* The invariant *)

LEMMA InitHolds ==
    ASSUME Init
    PROVE  IInv
  <1>1. /\ req = [w \in Workers |-> Idle] /\ asked = 0 /\ crossed = {} /\ audit = <<>>
        /\ clients = InitClients
        /\ rules = [r \in Tenants \X RuleKeys |-> NoValue]
        /\ settings = [k \in SettingKeys |-> NoValue]
        /\ profile = [t \in Tenants |-> [name |-> CHOOSE n \in Names : TRUE, logo |-> 0]]
        /\ objects = {}
        /\ users = InitUsers
        /\ refresh = <<[user |-> 1, family |-> 1, from |-> 0, revoked |-> FALSE]>>
        /\ access = {[user |-> 1, role |-> InitUsers[1].role, made |-> 1]}
        /\ resets = <<>> /\ mails = {} /\ signouts = {} /\ now = 1
        /\ proposals = [p \in Proposals |-> "pronta"]
    BY DEF Init, RequestsInit, RegistryInit, AccountsInit
  <1>2. \A w \in Workers : req[w] = Idle /\ req[w].op = "idle" /\ Shaped(req[w])
    BY <1>1 DEF Idle, Shaped
  <1>3. Sessions
    BY <1>1, <1>2 DEF Sessions
  <1>4. /\ InitUsers \in Seq(User) /\ 1 \in DOMAIN InitUsers /\ Len(InitUsers) \in Nat
        /\ \A u \in DOMAIN InitUsers : /\ InitUsers[u].revoked = 0
                                       /\ InitUsers[u].client = 0
                                       /\ InitUsers[u].active = TRUE
    <2> DEFINE S == [tenant: Tenants, email: Emails, role: Roles,
                     active: {TRUE}, revoked: {0}, pw: Nat, client: {0}]
    <2>1. InitUsers \in Seq(S) /\ Len(InitUsers) > 0
      BY AccountsAssumption
    <2>2. ASSUME NEW x \in S
          PROVE  x \in User /\ x.revoked = 0 /\ x.client = 0 /\ x.active = TRUE
      <3>1. /\ x.tenant \in Tenants /\ x.email \in Emails /\ x.role \in Roles
            /\ x.active \in {TRUE} /\ x.revoked \in {0} /\ x.pw \in Nat
            /\ x.client \in {0}
        OBVIOUS
      <3>2. x.active = TRUE /\ x.revoked = 0 /\ x.client = 0
        BY ONLY <3>1
      <3>3. x = [tenant |-> x.tenant, email |-> x.email, role |-> x.role,
                 active |-> x.active, revoked |-> x.revoked, pw |-> x.pw,
                 client |-> x.client]
        OBVIOUS
      <3>4. x.active \in BOOLEAN
        BY ONLY <3>2, Zenon
      <3> HIDE DEF S
      <3>5. x \in User
        BY ONLY <3>1, <3>2, <3>3, <3>4 DEF User
      <3> QED
        BY ONLY <3>2, <3>5
    <2> HIDE DEF S
    <2>3. \A u \in DOMAIN InitUsers : InitUsers[u] \in S
      BY <2>1
    <2>4. /\ Len(InitUsers) \in Nat /\ DOMAIN InitUsers = 1..Len(InitUsers)
          /\ InitUsers = [u \in DOMAIN InitUsers |-> InitUsers[u]]
      BY <2>1
    <2>5. InitUsers \in [1..Len(InitUsers) -> User]
      BY <2>2, <2>3, <2>4
    <2> QED
      <3>1. InitUsers \in Seq(User)
        BY ONLY <2>5, <2>4
      <3>2. 1 \in DOMAIN InitUsers
        BY ONLY <2>1, <2>4
      <3> QED
        BY <2>2, <2>3, <2>4, <3>1, <3>2
  <1>5. InitUsers[1] \in User /\ InitUsers[1].role \in Roles
    <2>1. InitUsers[1] \in User
      BY <1>4
    <2> QED
      BY <2>1 DEF User
  <1>6. RegistryTypeOK
    BY <1>1, RegistryAssumption DEF RegistryTypeOK, Client
  <1>7. AccountsTypeOK
    <2>1. 1 \in 1..MaxNow
      BY AccountsAssumption
    <2>2. refresh \in Seq(RefreshToken)
      BY <1>1 DEF RefreshToken
    <2> QED
      BY <1>1, <1>4, <1>5, <2>1, <2>2 DEF AccountsTypeOK
  <1>8. Typed
    BY <1>1, <1>2, <1>3, <1>6, <1>7, RequestsAssumption DEF Typed, TypeOK, Shaped
  <1>9. \A e, k, first : Tells(audit, e, k, first, first)
    BY <1>1 DEF Tells, Named
  <1>10. RegistryHolds
    <2>1. ClientsTell /\ RulesTell
      BY <1>1, <1>9, RegistryAssumption DEF ClientsTell, RulesTell, FirstOfClient
    <2> QED
      BY <1>2, <2>1 DEF RegistryHolds, RegistryRequestHolds
  <1>11. TokensHold
    <2>1. /\ DOMAIN refresh = {1} /\ refresh[1].user = 1 /\ refresh[1].from = 0
          /\ refresh[1].revoked = FALSE
      BY <1>1
    <2>2. SuccessorsHold
      BY <1>1, <1>4, <2>1 DEF SuccessorsHold
    <2>3. FamiliesHold
      <3>1. refresh[1].family <= Len(refresh)
        BY <1>1
      <3> QED
        BY <2>1, <3>1 DEF FamiliesHold
    <2> QED
      BY <1>2, <2>2, <2>3 DEF TokensHold, TokenRequestHolds
  <1>12. ResetsHold
    <2>1. DOMAIN resets = {}
      BY <1>1
    <2>2. OneUnused
      BY ONLY <2>1 DEF OneUnused
    <2>3. \A w \in Workers : ResetRequestHolds(req[w])
      BY <1>2 DEF ResetRequestHolds, Invites
    <2> QED
      BY <2>2, <2>3 DEF ResetsHold
  <1>13. SignOutsHold
    <2>1. \A u \in DOMAIN users : users[u].revoked = 0
      BY <1>1, <1>4
    <2>2. RevokedHolds
      BY ONLY <1>1, <2>1 DEF RevokedHolds
    <2>3. \A w \in Workers : SignOutRequestHolds(req[w])
      BY <1>2 DEF SignOutRequestHolds
    <2> QED
      BY <2>2, <2>3 DEF SignOutsHold
  <1>14. CustomersAreHeld
    <2>1. PortalHolds
      BY <1>1, <1>4, RegistryAssumption DEF PortalHolds, Portal
    <2> QED
      BY <1>2, <2>1 DEF CustomersAreHeld, CustomerRequestHolds, Invites
  <1>15. UsersHold
    <2>1. UsersTell
      <3>1. ASSUME NEW u \in DOMAIN users, NEW k \in {"role", "active"}
            PROVE  users[u][k] = FirstOfUser(u, k)
        BY <1>1, <1>4, <3>1 DEF FirstOfUser
      <3>2. ASSUME NEW u \in DOMAIN users, NEW k \in {"role", "active"}
            PROVE  Tells(audit, <<"user", u>>, k, FirstOfUser(u, k), users[u][k])
        BY <1>9, <3>1
      <3>3. Len(InitUsers) <= Len(users)
        BY <1>1, <1>4
      <3> QED
        BY <3>2, <3>3 DEF UsersTell
    <2>2. NamesUsers
      BY <1>1 DEF NamesUsers
    <2> QED
      BY <1>2, <2>1, <2>2 DEF UsersHold, UserRequestHolds
  <1> QED
    BY <1>8, <1>10, <1>11, <1>12, <1>13, <1>14, <1>15 DEF IInv

LEMMA Asked ==
    ASSUME IInv, NEW w \in Workers, NEW t \in Tenants,
           AskMembers(w, t) \/ AskManagers(w, t) \/ AskAdmins(w, t)
    PROVE  IInv'
  <1>1. CASE AskClients(w, t) /\ UNCHANGED accountVars
    <2>1. ASSUME NEW d \in Docs, NEW e \in Emails,
                 CreateClient(w, t, [tenant |-> t, doc |-> d, email |-> e, active |-> TRUE])
          PROVE  IInv'
      <3> DEFINE row == [tenant |-> t, doc |-> d, email |-> e, active |-> TRUE]
      <3>1. row \in Client /\ row.active /\ CreateClient(w, t, row)
        BY <2>1 DEF Client
      <3> HIDE DEF row
      <3> QED
        BY <1>1, <3>1, CreateClientStep
    <2>2. ASSUME NEW d \in Docs, NEW e \in Emails, NEW c, UpdateClient(w, t, c, d, e)
          PROVE  IInv'
      BY <1>1, <2>2, UpdateClientStep
    <2>3. ASSUME NEW c, DeactivateClient(w, t, c)
          PROVE  IInv'
      BY <1>1, <2>3, DeactivateClientStep
    <2> QED
      BY <1>1, <2>1, <2>2, <2>3 DEF AskClients
  <1>2. CASE AskTables(w, t) /\ UNCHANGED accountVars
    BY <1>2, PutRuleStep, PutSettingStep, UpdateProfileStep, PutLogoStep DEF AskTables
  <1>3. ASSUME NEW p \in Proposals, Approve(w, t, p) \/ Cancel(w, t, p)
        PROVE  IInv'
    BY <1>3, ApproveStep, CancelStep
  <1>4. ASSUME NEW c, Invite(w, t, c)
        PROVE  IInv'
    BY <1>4, InviteStep
  <1>5. ASSUME NEW e \in Emails, NEW role \in Roles, Register(w, t, e, role)
        PROVE  IInv'
    BY <1>5, RegisterStep
  <1>6. ASSUME NEW u \in DOMAIN users, NEW role \in Roles, NEW active \in BOOLEAN,
               PatchUser(w, t, u, role, active)
        PROVE  IInv'
    BY <1>6, PatchUserStep
  <1> QED
    BY <1>1, <1>2, <1>3, <1>4, <1>5, <1>6 DEF AskMembers, AskManagers, AskAdmins

LEMMA Invariance ==
    ASSUME IInv, [Next]_vars
    PROVE  IInv'
  <1>1. CASE Tick
    BY <1>1, TickStep
  <1>2. ASSUME NEW w \in Workers, AskAnyone(w)
        PROVE  IInv'
    BY <1>2, LoginStep, RequestResetStep, RefreshStep, ReuseStep, ConfirmResetStep,
       LogoutStep DEF AskAnyone
  <1>3. ASSUME NEW w \in Workers, NEW t \in Tenants,
               AskMembers(w, t) \/ AskManagers(w, t) \/ AskAdmins(w, t)
        PROVE  IInv'
    BY <1>3, Asked
  <1>4. ASSUME NEW w \in Workers, RegistryGoesOn(w) /\ UNCHANGED accountVars
        PROVE  IInv'
    BY <1>4, RegistryGoesOnStep
  <1>5. ASSUME NEW w \in Workers,
               \/ EndLogin(w) \/ EndRefresh(w) \/ EndLogout(w) \/ EndRequestReset(w)
               \/ EndConfirmReset(w)
        PROVE  IInv'
    BY <1>5, EndLoginStep, EndRefreshStep, EndLogoutStep, EndRequestResetStep,
       EndConfirmResetStep
  <1>6. ASSUME NEW w \in Workers,
               \/ EndRegister(w) \/ EndPatchUser(w) \/ EndInvite(w) \/ EndApprove(w)
               \/ EndCancel(w)
        PROVE  IInv'
    BY <1>6, EndRegisterStep, EndPatchUserStep, EndInviteStep, EndApproveStep, EndCancelStep
  <1>7. ASSUME NEW w \in Workers, Abort(w) /\ UNCHANGED <<registryVars, accountVars>>
        PROVE  IInv'
    BY <1>7, AbortStep
  <1>8. CASE UNCHANGED vars
    <2>1. now \in 1..MaxNow
      BY DEF IInv, Typed, TypeOK, AccountsTypeOK
    <2>2. /\ UNCHANGED <<requestVars, registryVars, users, refresh, access, resets,
                         mails, proposals, signouts>>
          /\ now' \in 1..MaxNow /\ now <= now'
      BY <1>8, <2>1, AccountsAssumption DEF vars, accountVars
    <2> QED
      BY <2>2, ClockStep
  <1> QED
    BY <1>1, <1>2, <1>3, <1>4, <1>5, <1>6, <1>7, <1>8 DEF Next

LEMMA InvariantHolds == Spec => []IInv
  BY InitHolds, Invariance, PTL DEF Spec

-----------------------------------------------------------------------------
(* What follows *)

\* Every table, token and session has its type after any history of requests:
\* users of one tenant, clients of one tenant, tokens of users that exist.
THEOREM TypeCorrect == Spec => []TypeOK
  <1>1. IInv => TypeOK
    BY DEF IInv, Typed
  <1> QED
    BY <1>1, InvariantHolds, PTL

\* The audit trail tells the rows: AuditService.log puts each entry into the
\* session that writes the row, so a reader of the entries about a client, a
\* rule or a staff user finds what its columns are, unless two requests wrote
\* the row from overlapping loads.
THEOREM TrailTold == Spec => []TrailTellsRows
  <1>1. ASSUME IInv
        PROVE  TrailTellsRows
    <2>1. \A e, k, first, value :
             TrailTells(e, k, first, value) <=> Tells(audit, e, k, first, value)
      BY DEF TrailTells, Entries, Tells, Named
    <2>2. ClientsTell /\ RulesTell /\ UsersTell
      BY <1>1 DEF IInv, RegistryHolds, UsersHold
    <2>3. ASSUME NEW c \in DOMAIN clients, NEW k \in {"doc", "active"},
                 <<"client", c>> \notin crossed
          PROVE  TrailTells(<<"client", c>>, k,
                            IF c \in DOMAIN InitClients THEN InitClients[c][k]
                            ELSE NoValue,
                            clients[c][k])
      BY <2>1, <2>2, <2>3 DEF ClientsTell, FirstOfClient
    <2>4. ASSUME NEW t \in Tenants, NEW k \in RuleKeys, <<"rule", t, k>> \notin crossed
          PROVE  TrailTells(<<"rule", t, k>>, "valor", NoValue, rules[<<t, k>>])
      BY <2>1, <2>2, <2>4 DEF RulesTell
    <2>5. ASSUME NEW u \in DOMAIN users, NEW k \in {"role", "active"},
                 users[u].client = 0, <<"user", u>> \notin crossed
          PROVE  TrailTells(<<"user", u>>, k,
                            IF k = "active" THEN TRUE
                            ELSE IF u \in DOMAIN InitUsers THEN InitUsers[u].role
                            ELSE NoValue,
                            users[u][k])
      BY <2>1, <2>2, <2>5 DEF UsersTell, FirstOfUser
    <2> QED
      BY <2>3, <2>4, <2>5 DEF TrailTellsRows
  <1> QED
    BY <1>1, InvariantHolds, PTL

\* A sign-out, or a password that is set, cuts off exactly the access tokens
\* of its second and before: tokens_revoked_at is the last of the user's
\* sign-outs, unless two of them overlap.
THEOREM SignOutsCut == Spec => []SignOutCuts
  <1>1. ASSUME IInv
        PROVE  SignOutCuts
    <2> SUFFICES ASSUME NEW a \in access, <<"revoked", a.user>> \notin crossed
                 PROVE  Accepted(a) <=>
                           /\ users[a.user].active
                           /\ \A s \in signouts :
                                 s.user = a.user => WholeSecond(a.made) > s.at
      BY DEF SignOutCuts
    <2> DEFINE u == a.user
               second == WholeSecond(a.made)
               revoked == users[u].revoked
    <2>1. u \in DOMAIN users /\ a.made \in 1..MaxNow /\ users \in Seq(User)
      BY <1>1 DEF IInv, Typed, TypeOK, AccountsTypeOK
    <2>2. revoked \in Nat
      <3>1. users[u] \in User
        BY <2>1
      <3> QED
        BY ONLY <3>1 DEF User
    <2>3. second \in Int
      <3>1. a.made \in Int /\ TicksPerSecond \in Nat \ {0}
        BY <2>1, AccountsAssumption
      <3>2. a.made % TicksPerSecond \in Int
        BY <3>1
      <3> QED
        BY <3>1, <3>2 DEF WholeSecond
    <2>4. \A s \in signouts : s.at \in 1..MaxNow
      BY <1>1 DEF IInv, Typed, TypeOK, AccountsTypeOK
    <2>5. \A s \in signouts : s.at \in Nat /\ s.at # 0
      BY ONLY <2>4, AccountsAssumption
    <2>6. /\ \A s \in signouts : s.user = u => s.at <= revoked
          /\ revoked # 0 => [user |-> u, at |-> revoked] \in signouts
      BY <1>1, <2>1 DEF IInv, SignOutsHold, RevokedHolds
    <2>7. Accepted(a) <=> users[u].active /\ (revoked # 0 => second > revoked)
      BY DEF Accepted
    <2>8. ASSUME revoked # 0 => second > revoked, NEW s \in signouts, s.user = u
          PROVE  second > s.at
      <3> HIDE DEF revoked, second
      <3>1. s.at <= revoked /\ s.at \in Nat /\ s.at # 0
        BY <2>5, <2>6, <2>8
      <3> QED
        BY <2>2, <2>3, <2>8, <3>1
    <2>9. ASSUME \A s \in signouts : s.user = u => second > s.at, revoked # 0
          PROVE  second > revoked
      <3> DEFINE s == [user |-> u, at |-> revoked]
      <3>1. s \in signouts /\ s.user = u /\ s.at = revoked
        BY <2>6, <2>9
      <3> QED
        BY <2>9, <3>1
    <2> QED
      BY <2>7, <2>8, <2>9
  <1> QED
    BY <1>1, InvariantHolds, PTL

LEMMA AtMostOne ==
    ASSUME NEW S, \A x, y \in S : x = y
    PROVE  Cardinality(S) <= 1 /\ ~(Cardinality(S) > 1)
  <1>1. CASE S = {}
    BY <1>1, FS_EmptySet
  <1>2. ASSUME NEW x \in S
        PROVE  Cardinality(S) <= 1 /\ ~(Cardinality(S) > 1)
    <2>1. S = {x}
      BY <1>2
    <2>2. Cardinality(S) = 1
      BY <2>1, FS_Singleton
    <2> QED
      BY ONLY <2>2
  <1> QED
    BY <1>1, <1>2

\* A refresh token with a successor works no more, a sign-in has one token that
\* works at most, and one reset token of a user works and sets one password: a
\* second successor, a second working token or a second use takes two sessions
\* that overlap.
THEOREM TokensUsedOnce == Spec => []TokensAreUsedOnce
  <1>1. ASSUME IInv
        PROVE  TokensAreUsedOnce
    <2>1. SuccessorsHold /\ FamiliesHold /\ OneUnused /\ refresh \in Seq(RefreshToken)
      BY <1>1 DEF IInv, TokensHold, ResetsHold, Typed, TypeOK, AccountsTypeOK
    <2>2. ASSUME NEW i \in DOMAIN refresh
          PROVE  LET next == {j \in DOMAIN refresh : refresh[j].from = i} IN
                 /\ next # {} => refresh[i].revoked
                 /\ Cardinality(next) > 1 => <<"token", i>> \in crossed
      <3> DEFINE next == {j \in DOMAIN refresh : refresh[j].from = i}
      <3>1. i # 0
        BY <2>1
      <3>3. ASSUME next # {} PROVE refresh[i].revoked
        <4>1. PICK j \in DOMAIN refresh : refresh[j].from = i
          BY <3>3
        <4> QED
          BY <2>1, <3>1, <4>1 DEF SuccessorsHold
      <3>4. ASSUME <<"token", i>> \notin crossed
            PROVE  ~(Cardinality(next) > 1)
        <4>1. \A j, k \in next : j = k
          BY <2>1, <3>1, <3>4 DEF SuccessorsHold
        <4> QED
          BY <4>1, AtMostOne
      <3> QED
        BY <3>3, <3>4
    <2>5. \A i, j \in DOMAIN refresh :
            /\ i # j /\ refresh[i].family = refresh[j].family
            /\ ~refresh[i].revoked /\ ~refresh[j].revoked
            => Doubled(refresh[i].family)
      BY <2>1 DEF FamiliesHold, Doubled
    <2>3. ASSUME NEW u \in DOMAIN users, <<"reset", u>> \notin crossed
          PROVE  ~(Cardinality(Unused(u)) > 1)
      <3>1. \A i, j \in Unused(u) : i = j
        BY <2>1, <2>3 DEF OneUnused, Unused
      <3> QED
        BY <3>1, AtMostOne
    <2>4. \A i \in DOMAIN resets : resets[i].uses > 1 => <<"use", i>> \in crossed
      BY <2>1 DEF OneUnused
    <2> QED
      BY <2>2, <2>3, <2>4, <2>5 DEF TokensAreUsedOnce
  <1> QED
    BY <1>1, InvariantHolds, PTL

\* However often a client is invited or its proposals are approved, it has one
\* customer user: the lookup by client_id finds the one there is, unless two
\* invitations overlap or a patch made that user into staff.
THEOREM OneCustomer == Spec => []OneCustomerPerClient
  <1>1. ASSUME IInv
        PROVE  OneCustomerPerClient
    <2> SUFFICES ASSUME NEW c \in DOMAIN clients, <<"customer", c>> \notin crossed,
                        \A x \in Portal(c) : ~Turned(x)
                 PROVE  Cardinality(Portal(c)) <= 1
      BY DEF OneCustomerPerClient, Portal, Turned
    <2>1. \A u, v \in Portal(c) : u = v
      BY <1>1 DEF IInv, CustomersAreHeld, PortalHolds
    <2> QED
      BY <2>1, AtMostOne
  <1> QED
    BY <1>1, InvariantHolds, PTL
=============================================================================
