------------------------------ MODULE Registry ------------------------------
(***************************************************************************)
(* What a tenant's staff keep: clients (services/client_service.py),       *)
(* business rules (rules_service.py), system settings                      *)
(* (settings_service.py), the tenant's profile and its logo                *)
(* (api/tenant_profile.py).                                                *)
(*                                                                         *)
(* Each create looks for the row first and inserts it later; a unique      *)
(* index decides between two of them.                                      *)
(***************************************************************************)
EXTENDS Requests

CONSTANTS
    Tenants, Docs, Emails, Names,
    RuleKeys, SettingKeys, Values,
    Allowed,       \* Allowed[k]: the values rule k may take
    NoValue,       \* no row for this key
    InitClients    \* the clients there are at the start

ASSUME RegistryAssumption ==
    /\ Allowed \in [RuleKeys -> SUBSET Values]
    /\ NoValue \notin Values
    /\ Names # {}
    /\ InitClients \in Seq([tenant: Tenants, doc: Docs, email: Emails,
                            active: BOOLEAN])

VARIABLES
    clients,       \* the clients table
    rules,         \* business_rules, by tenant and chave
    settings,      \* system_settings, by key
    profile,       \* the columns of tenants a profile shows
    objects        \* keys in the file storage

registryVars == <<clients, rules, settings, profile, objects>>

Client == [tenant: Tenants, doc: Docs, email: Emails, active: BOOLEAN]

RegistryTypeOK ==
    /\ clients \in Seq(Client)
    /\ rules \in [Tenants \X RuleKeys -> Values \cup {NoValue}]
    /\ settings \in [SettingKeys -> Values \cup {NoValue}]
    /\ profile \in [Tenants -> [name: Names, logo: objects \cup {0}]]
    /\ objects \subseteq Nat

RegistryInit ==
    /\ clients = InitClients
    /\ rules = [r \in Tenants \X RuleKeys |-> NoValue]
    /\ settings = [k \in SettingKeys |-> NoValue]
    /\ profile = [t \in Tenants |-> [name |-> CHOOSE n \in Names : TRUE, logo |-> 0]]
    /\ objects = {}

-----------------------------------------------------------------------------
(* Clients *)

\* The lookup of a document: across the tenant's clients, the inactive too.
DocIsFree(t, d) ==
    \A c \in DOMAIN clients : clients[c].tenant = t => clients[c].doc # d

\* uq_clients_tenant_cpf_cnpj, checked by the database at the flush.
DocIsNew(t, d) ==
    \A c \in DOMAIN clients : ~(clients[c].tenant = t /\ clients[c].doc = d)

CreateClient(w, t, row) ==
    /\ DocIsFree(t, row.doc)
    /\ Open(w, "create client", {<<"doc", row.doc>>}, [row |-> row])
    /\ UNCHANGED registryVars

InsertClient(w) ==
    LET row == req[w].arg.row
        c == <<"client", Len(clients) + 1>>
    IN
    /\ Holds(w, "create client")
    /\ DocIsNew(row.tenant, row.doc)
    /\ clients' = Append(clients, row)
    /\ Commit(w)
    /\ Log(c, "create", [doc |-> row.doc, active |-> TRUE])
    /\ UNCHANGED <<rules, settings, profile, objects>>

\* _get_or_404
Owned(c, t) == c \in DOMAIN clients /\ clients[c].tenant = t

\* An update sends every column it may change; is_active is not among them.
UpdateClient(w, t, c, d, e) ==
    /\ Owned(c, t)
    /\ d # clients[c].doc => DocIsFree(t, d)
    /\ Open(w, "update client", {<<"client", c>>},
            [c |-> c, saw |-> clients[c], want |-> [doc |-> d, email |-> e]])
    /\ UNCHANGED registryVars

WriteClient(w) ==
    LET a == req[w].arg IN
    /\ Holds(w, "update client")
    /\ a.want.doc # a.saw.doc => DocIsNew(a.saw.tenant, a.want.doc)
    /\ clients' = [clients EXCEPT ![a.c] = Written(@, a.saw, a.want)]
    /\ Commit(w)
    /\ Log(<<"client", a.c>>, "update",
           [doc |-> a.want.doc, active |-> a.saw.active])
    /\ UNCHANGED <<rules, settings, profile, objects>>

\* Also of a client that is inactive already; the entry says the same.
DeactivateClient(w, t, c) ==
    /\ Owned(c, t)
    /\ Open(w, "deactivate client", {<<"client", c>>},
            [c |-> c, saw |-> clients[c], want |-> [active |-> FALSE]])
    /\ UNCHANGED registryVars

WriteDeactivation(w) ==
    LET a == req[w].arg IN
    /\ Holds(w, "deactivate client")
    /\ clients' = [clients EXCEPT ![a.c] = Written(@, a.saw, a.want)]
    /\ Commit(w)
    /\ Log(<<"client", a.c>>, "deactivate", [active |-> FALSE])
    /\ UNCHANGED <<rules, settings, profile, objects>>

-----------------------------------------------------------------------------
(* Business rules and system settings: one row per key, made at the first   *)
(* change.                                                                  *)

\* A key without a default is refused, and so is a value out of its range.
PutRule(w, t, k, v) ==
    /\ v \in Allowed[k]
    /\ Open(w, "put rule", {<<"rule", t, k>>},
            [t |-> t, k |-> k, saw |-> rules[<<t, k>>], want |-> v])
    /\ UNCHANGED registryVars

\* The first of two inserts wins: uq_business_rules_tenant_chave, and the
\* primary key of system_settings.
Upserted(now, saw, want) ==
    IF saw = NoValue \/ want # saw THEN want ELSE now

InsertAllowed(now, saw) == saw = NoValue => now = NoValue

WriteRule(w) ==
    LET a == req[w].arg IN
    /\ Holds(w, "put rule")
    /\ InsertAllowed(rules[<<a.t, a.k>>], a.saw)
    /\ rules' = [rules EXCEPT ![<<a.t, a.k>>] = Upserted(@, a.saw, a.want)]
    /\ Commit(w)
    /\ Log(<<"rule", a.t, a.k>>, IF a.saw = NoValue THEN "create" ELSE "update",
           [valor |-> a.want])
    /\ UNCHANGED <<clients, settings, profile, objects>>

\* Settings belong to no tenant and are not in the audit trail.
PutSetting(w, k, v) ==
    /\ Open(w, "put setting", {<<"setting", k>>},
            [k |-> k, saw |-> settings[k], want |-> v])
    /\ UNCHANGED registryVars

WriteSetting(w) ==
    LET a == req[w].arg IN
    /\ Holds(w, "put setting")
    /\ InsertAllowed(settings[a.k], a.saw)
    /\ settings' = [settings EXCEPT ![a.k] = Upserted(@, a.saw, a.want)]
    /\ Commit(w)
    /\ UNCHANGED <<audit, clients, rules, profile, objects>>

-----------------------------------------------------------------------------
(* The tenant's profile *)

UpdateProfile(w, t, n) ==
    /\ Open(w, "update profile", {<<"profile", t>>},
            [t |-> t, saw |-> profile[t], want |-> [name |-> n]])
    /\ UNCHANGED registryVars

\* Defect: the row names the file before the file is there.
NameLogoFirst(w, t) ==
    /\ Open(w, "put logo", {<<"logo", t>>}, [t |-> t, key |-> asked + 1])
    /\ profile' = [profile EXCEPT ![t].logo = asked + 1]
    /\ UNCHANGED <<clients, rules, settings, objects>>

\* The new logo is put under a key of its own; only then is the row loaded.
PutLogo(w, t) ==
    /\ Open(w, "put logo", {<<"logo", t>>}, [t |-> t, key |-> asked + 1])
    /\ objects' = objects \cup {asked + 1}
    /\ UNCHANGED <<clients, rules, settings, profile>>

LoadTenant(w) ==
    LET a == req[w].arg IN
    /\ Holds(w, "put logo")
    /\ req' = [req EXCEPT ![w].op = "update profile",
                          ![w].arg = [t |-> a.t, saw |-> profile[a.t],
                                      want |-> [logo |-> a.key]]]
    /\ UNCHANGED <<asked, crossed, audit, registryVars>>

WriteProfile(w) ==
    LET a == req[w].arg IN
    /\ Holds(w, "update profile")
    /\ profile' = [profile EXCEPT ![a.t] = Written(@, a.saw, a.want)]
    /\ Commit(w)
    /\ UNCHANGED <<audit, clients, rules, settings, objects>>

-----------------------------------------------------------------------------
\* What tenant t's users can ask for in session w, and its administrators.
AskClients(w, t) ==
    \/ \E d \in Docs, e \in Emails :
          \/ CreateClient(w, t, [tenant |-> t, doc |-> d, email |-> e,
                                 active |-> TRUE])
          \/ \E c \in DOMAIN clients : UpdateClient(w, t, c, d, e)
    \/ \E c \in DOMAIN clients : DeactivateClient(w, t, c)

AskTables(w, t) ==
    \/ \E v \in Values : \/ \E k \in RuleKeys : PutRule(w, t, k, v)
                         \/ \E k \in SettingKeys : PutSetting(w, k, v)
    \/ \E n \in Names : UpdateProfile(w, t, n)
    \/ PutLogo(w, t)

RegistryGoesOn(w) ==
    \/ InsertClient(w)
    \/ WriteClient(w)
    \/ WriteDeactivation(w)
    \/ WriteRule(w)
    \/ WriteSetting(w)
    \/ LoadTenant(w)
    \/ WriteProfile(w)
=============================================================================
