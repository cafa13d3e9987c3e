------------------------------ MODULE MCAccess ------------------------------
(***************************************************************************)
(* Access for TLC.  A scenario says what the visits and the tasks ask for; *)
(* those of a scenario interleave in every way.  A scenario of one part    *)
(* leaves the other idle.                                                  *)
(***************************************************************************)
EXTENDS Access, TLC

Idle == [op |-> "none"]

(***************************************************************************)
(* Vaults: v1 has one credential, "k1", for host h1.                       *)
(***************************************************************************)
Secret(refresh, expires) == [grant |-> "k1", access |-> 0, refresh |-> refresh, expires |-> expires]
Row(type, secret) == [vault |-> "v1", host |-> "h1", type |-> type, secret |-> secret, archived |-> FALSE, at |-> 1]
StaticRow == Row("static_bearer", Secret(Absent, Absent))
OAuthRow == Row("mcp_oauth", Secret(0, 1))
NoRefreshRow == Row("mcp_oauth", Secret(Absent, 0))
Rows(row) == [k \in {"k1"} |-> row]

Turn == [op |-> "turn", session |-> "s1", host |-> "h1"]
Proxied1(proxyAuth, header, tunnel) ==
  [op |-> "proxy", proxyAuth |-> proxyAuth, header |-> header, host |-> "h1", own |-> TRUE, tunnel |-> tunnel]
Curl == Proxied1("s1", "", TRUE)
OneVault(op, v, named) == [op |-> op, vault |-> v, named |-> named]
OneCredential(op) == [op |-> op, credential |-> "k1"]
AuthInput(type, secret) == [type |-> type, secret |-> secret, refresh |-> TRUE, expires |-> 1]
Add(v, host, type, secret) == [op |-> "addCredential", vault |-> v, host |-> host, auth |-> AuthInput(type, secret)]
Put(host, type, secret) == [op |-> "updateCredential", credential |-> "k1", host |-> host, auth |-> AuthInput(type, secret)]
SetVaults(ids) == [op |-> "setVaults", session |-> "s1", vaults |-> ids]

Adds == {Add("v1", "h1", "static_bearer", "given"), Add("v2", "h1", "mcp_oauth", "given"),
         Add("v1", "h2", "other", "given"), Add("v1", "h2", "static_bearer", "none")}
Puts == {Put("h1", "", "none"), Put("h2", "", "none"), Put("h1", "static_bearer", "given"),
         Put("h1", "static_bearer", "none"), Put("h1", "mcp_oauth", "given")}
Changes ==
  Adds \cup Puts \cup {OneCredential(op) : op \in {"archiveCredential", "deleteCredential", "validate"}}
  \cup {OneVault(op, "v1", TRUE) : op \in {"updateVault", "archiveVault", "deleteVault"}}
  \cup {OneVault("createVault", "v2", named) : named \in BOOLEAN}
  \cup {SetVaults(ids) : ids \in {{}, {"v2"}, {"v1", "v2"}}}

\* What the three tasks ask for, and the credential of the start: lookups with a
\* change next to them, three lookups, and changes that meet.
LookupScenarios ==
  {<<Turn, Curl, x, OAuthRow>> : x \in Puts \cup {Turn, OneCredential("deleteCredential")}}
  \cup {<<Turn, x, Idle, OAuthRow>> : x \in Changes \cup {Put("h2", "mcp_oauth", "given")}}
  \cup {<<Turn, Put("h1", "", "none"), Put("h1", "mcp_oauth", "given"), OAuthRow>>}
  \cup {<<Turn, x, Add("v1", "h1", "static_bearer", "given"), StaticRow>> :
           x \in {OneCredential("archiveCredential"), SetVaults({"v1", "v2"}), Put("h2", "", "none")}}
  \cup {<<Turn, SetVaults({"v1", "v2"}), Add("v2", "h1", "mcp_oauth", "given"), NoRefreshRow>>}
ChangeScenarios ==
  {<<x, y, Idle, NoRefreshRow>> : x \in Changes, y \in Adds \cup {Put("h2", "mcp_oauth", "given")}}
  \cup {<<Add("v1", "h2", "static_bearer", "given"), Add("v1", "h2", "mcp_oauth", "given"), Put("h2", "", "none"), OAuthRow>>}
  \cup {<<OneCredential("archiveCredential"), OneCredential("deleteCredential"), OneCredential("validate"), StaticRow>>,
        <<OneCredential("archiveCredential"), OneCredential("archiveCredential"), Put("h1", "", "none"), OAuthRow>>}
  \cup {<<OneVault("archiveVault", "v1", TRUE), OneVault("updateVault", "v1", named), OneVault("deleteVault", "v1", TRUE), StaticRow>> :
           named \in BOOLEAN}
  \cup {<<OneVault("deleteVault", "v1", TRUE), OneVault(op, "v1", TRUE), OneCredential("deleteCredential"), StaticRow>> :
           op \in {"deleteVault", "archiveVault"}}
ProxyScenarios ==
  {<<Proxied1("", session, tunnel), Idle, Idle, OAuthRow>> : session \in {"", "s1"}, tunnel \in BOOLEAN}

VaultScenario(x) ==
  VaultInit([c \in Tasks |-> CASE c = "c1" -> x[1] [] c = "c2" -> x[2] [] OTHER -> x[3]],
            IF \E i \in 1..3 : x[i].op = "createVault" THEN {"v1"} ELSE {"v1", "v2"}, Rows(x[4]),
            [s \in Sessions |-> {"v1"}])

(***************************************************************************)
(* Visits: u1 has an account, the login session "l1" and the key "k1".     *)
(***************************************************************************)
Ask(op, key, cookie) == [op |-> op, key |-> key, cookie |-> cookie]
Person(op, email, password) == [email |-> email, password |-> password] @@ Ask(op, NoKey, NoCookie)
MCOwners == [x \in FirstKeys \cup FirstLogins |-> "u1"]

With(key, cookie) == {Ask("use", key, cookie), Ask("session", key, cookie)}
Revoke(key) == [revoke |-> key] @@ Ask("revokeKey", NoKey, "l1")
Entering ==
  {Person(op, e, "p1") : op \in {"signup", "login"}, e \in Emails}
  \cup {Person("login", "u1", "p2"), Person("signup", "u2", ""), Person("login", "", "p1")}

\* Accounts: two that want in, and what the cookie of the first is good for.  Logins
\* and keys: one more is made while the old ones are given up and used.
VisitScenarios ==
  {<<x, Person("signup", "u2", "p2"), z>> : x \in Entering, z \in With(NoKey, "a1")}
  \cup {<<Person("login", "u1", "p1"), Ask("logout", NoKey, cookie), z>> :
           cookie \in {"a1", "l1", Forged}, z \in With("k1", "a1") \cup With(NoKey, "l1")}
  \cup {<<Ask("createKey", "k1", "l1"), y, z>> :
           y \in {Revoke("k1"), Revoke("a1"), Ask("logout", NoKey, "l1")},
           z \in With("a1", "l1") \cup With("k1", NoCookie) \cup {Ask("listKeys", "k1", "l1"), Revoke("k1")}}

AuthScenario(m, x, y, z) ==
  AuthInit(m, [v \in Visits |-> CASE v = "a1" -> x [] v = "a2" -> y [] OTHER -> z],
           [e \in {"u1"} |-> "p1"], MCOwners)

IdleVisits == AuthScenario("required", Idle, Idle, Idle)
IdleTasks == VaultScenario(<<Idle, Idle, Idle, StaticRow>>) /\ rotates = FALSE

MCInit ==
  \/ \E x \in LookupScenarios \cup ChangeScenarios : VaultScenario(x) /\ ProxyInit(TRUE, TRUE) /\ IdleVisits
  \/ \E x \in ProxyScenarios, crt, key \in BOOLEAN :
       (key => crt) /\ VaultScenario(x) /\ ProxyInit(crt, key) /\ IdleVisits
  \/ \E m \in {"required", "optional", "bypass"}, x \in VisitScenarios :
       AuthScenario(m, x[1], x[2], x[3]) /\ IdleTasks /\ ProxyInit(TRUE, TRUE)

\* In a scenario of visits the clock and je-vault stand still.
IdleVisit == \A v \in Visits : Wants(v).op = "none"

MCNext ==
  \/ IdleVisit /\ AccessStep /\ Watch /\ UNCHANGED authVars
  \/ AuthStep /\ UNCHANGED <<vaultVars, proxyVars>>

MCSpec == MCInit /\ [][MCNext]_<<vaultVars, proxyVars, authVars>>
=============================================================================
