-------------------------------- MODULE Auth --------------------------------
(***************************************************************************)
(* Accounts, login sessions and API keys (internal/store/auth.go,          *)
(* internal/auth, internal/api/auth.go, apikey.go and the middleware       *)
(* RequireAuth).                                                           *)
(*                                                                         *)
(* A visit is a request of a client.  It carries an API key, a cookie,     *)
(* both or neither; every statement that it runs is a transaction of its   *)
(* own, and other visits come in between.  Everybody is of the default     *)
(* tenant.  A login session and a key are known by the visit they were     *)
(* made for.                                                               *)
(***************************************************************************)
EXTENDS Integers, FiniteSets

CONSTANTS
  Emails,     \* e-mail addresses
  Passwords,  \* passwords
  Visits,     \* the ids of requests
  FirstKeys,  \* the ids of the API keys there at the start
  FirstLogins,\* the ids of the login sessions there at the start
  NoOne,      \* no user: a visit that is not identified
  Everyone,   \* the default user of the modes optional and bypass
  MaxDead     \* bound: visits that die, lookups and deletions that fail

VARIABLES
  mode,      \* required, optional or bypass
  users,     \* the table app_user: users[e] is the password of the account of e
  logins,    \* the table auth_session: its user, and whether its time is over
  keys,      \* the table api_key: its user, and whether it is revoked
  visit,     \* visit[v]: what v asks for and how far it has come
  dead,      \* how many visits have died, or lookups and deletions failed
  refused    \* ghost: cookies and keys that must not be taken any more

authVars == <<mode, users, logins, keys, visit, dead, refused>>

NoAccount == "no account"
NoCookie == "no cookie"
NoKey == "no key"
Forged == "forged"    \* a value whose signature does not fit, or that was never issued
Credentials == Visits \cup FirstKeys \cup FirstLogins \cup {Forged}

\* Ids are random and differ from each other and from what is no id; a password
\* is no missing account, and neither an address nor the default user is nobody.
ASSUME AuthAssumption ==
  /\ Visits \cap FirstKeys = {} /\ Visits \cap FirstLogins = {} /\ FirstKeys \cap FirstLogins = {}
  /\ {Forged, NoCookie, NoKey} \cap (Visits \cup FirstKeys \cup FirstLogins) = {}
  /\ NoAccount \notin Passwords /\ NoOne \notin Emails \cup {Everyone}

\* "failed" is a ghost: the credentials whose lookup has failed.
NewVisit(ask) ==
  [ask |-> ask, pc |-> "new", user |-> NoOne, by |-> Forged, stale |-> {}, login |-> NoCookie, owner |-> NoOne,
   failed |-> {}]

AuthInit(m, asks, accounts, owners) ==
  /\ mode = m
  /\ users = [e \in Emails |-> IF e \in DOMAIN accounts THEN accounts[e] ELSE NoAccount]
  /\ logins = [l \in FirstLogins |-> [user |-> owners[l], over |-> FALSE]]
  /\ keys = [k \in FirstKeys |-> [user |-> owners[k], revoked |-> FALSE]]
  /\ visit = [v \in Visits |-> NewVisit(asks[v])]
  /\ dead = 0
  /\ refused = {}

Wants(v) == visit[v].ask
Stands(v, pc) == visit[v].pc = pc
Goes(v, pc) == visit' = [visit EXCEPT ![v].pc = pc]
Account(e) == users[e] # NoAccount

\* Operations behind RequireAuth.
Guarded == {"use", "createKey", "revokeKey", "listKeys"}
Public == {"signup", "login", "logout", "session"}

(***************************************************************************)
(* Signup and login.                                                       *)
(***************************************************************************)
\* A client has a cookie or a key of another visit once that visit is answered.
Has(v) ==
  LET ask == Wants(v) IN
  /\ (ask.cookie \in Visits => Stands(ask.cookie, "loggedIn"))
  /\ (ask.key \in Visits => Stands(ask.key, "done"))

\* In bypass mode these answer with the virtual user; otherwise a request needs an
\* address and a password.  What is refused from the start is remembered for the visit.
Begin(v) ==
  LET ask == Wants(v) IN
  /\ Stands(v, "new") /\ ask.op \in Guarded \cup Public /\ Has(v)
  /\ visit' = [visit EXCEPT ![v] = [@ EXCEPT !.stale = refused, !.pc =
       IF ask.op \in Guarded THEN "key"
       ELSE IF mode = "bypass" /\ ask.op # "logout" THEN "virtual"
       ELSE CASE ask.op = "signup" -> IF ask.email \in Emails /\ ask.password \in Passwords THEN "count" ELSE "badRequest"
              [] ask.op = "login" -> "lookup"
              [] OTHER -> "cookie"]]
  /\ UNCHANGED <<mode, users, logins, keys, dead, refused>>

\* CreateUser: the COUNT.
CountEmail(v) ==
  /\ Stands(v, "count")
  /\ Goes(v, IF Account(Wants(v).email) THEN "conflict" ELSE "insert")
  /\ UNCHANGED <<mode, users, logins, keys, dead, refused>>

\* Fault: the INSERT without the UNIQUE constraint on email.
ReplaceUser(v) ==
  /\ Stands(v, "insert")
  /\ users' = [users EXCEPT ![Wants(v).email] = Wants(v).password]
  /\ Goes(v, "lookup")
  /\ UNCHANGED <<mode, logins, keys, dead, refused>>

\* The INSERT: with another signup in between, the constraint refuses it (400).
InsertUser(v) ==
  LET e == Wants(v).email IN
  /\ Stands(v, "insert")
  /\ IF Account(e) THEN Goes(v, "badRequest") /\ UNCHANGED users
     ELSE users' = [users EXCEPT ![e] = Wants(v).password] /\ Goes(v, "lookup")
  /\ UNCHANGED <<mode, logins, keys, dead, refused>>

\* Login: GetUserByEmail and verifyPassword.
Lookup(v) ==
  LET ask == Wants(v) IN
  /\ Stands(v, "lookup")
  /\ Goes(v, IF ask.email \in Emails /\ Account(ask.email) /\ users[ask.email] = ask.password
             THEN "openSession" ELSE "unauthorized")
  /\ UNCHANGED <<mode, users, logins, keys, dead, refused>>

\* CreateAuthSession; the client gets the signed cookie.
OpenSession(v) ==
  /\ Stands(v, "openSession")
  /\ logins' = [l \in DOMAIN logins \cup {v} |->
                  IF l = v THEN [user |-> Wants(v).email, over |-> FALSE] ELSE logins[l]]
  /\ visit' = [visit EXCEPT ![v] = [@ EXCEPT !.pc = "loggedIn", !.login = v]]
  /\ UNCHANGED <<mode, users, keys, dead, refused>>

\* Logout: the session of a cookie that is signed is deleted.  The client is told
\* that it is logged out even if the DELETE fails.
Logout(v) ==
  LET l == Wants(v).cookie IN
  /\ Stands(v, "cookie") /\ Wants(v).op = "logout"
  /\ \/ /\ logins' = [k \in DOMAIN logins \ {l} |-> logins[k]]
        /\ refused' = refused \cup ({l} \ {NoCookie})
        /\ UNCHANGED dead
     \/ /\ l \in DOMAIN logins /\ dead < MaxDead
        /\ dead' = dead + 1
        /\ UNCHANGED <<logins, refused>>
  /\ Goes(v, "loggedOut")
  /\ UNCHANGED <<mode, users, keys>>

\* The life of a login session ends.
Expire(l) ==
  /\ l \in DOMAIN logins /\ ~logins[l].over
  /\ logins' = [logins EXCEPT ![l].over = TRUE]
  /\ refused' = refused \cup {l}
  /\ UNCHANGED <<mode, users, keys, visit, dead>>

(***************************************************************************)
(* Identification: RequireAuth, and ResolveSession for GET session.        *)
(***************************************************************************)
Known(v, user, by) ==
  visit' = [visit EXCEPT ![v] = [@ EXCEPT !.pc = IF Wants(v).op \in Guarded THEN "served" ELSE "shown",
                                          !.user = user, !.by = by]]

\* Without identity: the default user, or 401.
Unidentified(v) ==
  IF Wants(v).op \in Guarded /\ mode \in {"bypass", "optional"}
  THEN [visit[v] EXCEPT !.pc = "served", !.user = Everyone] ELSE [visit[v] EXCEPT !.pc = "unauthorized"]

\* A statement of a lookup fails: the credential is passed over, however good it is.
LookupFails == dead < MaxDead /\ dead' = dead + 1

\* ResolveAPIKey, of x-api-key alone: a key that is not known or revoked is passed
\* over, and so is one that cannot be looked up.
TakeKey(v) ==
  LET k == Wants(v).key IN
  /\ Stands(v, "key")
  /\ \/ /\ IF k \in DOMAIN keys /\ ~keys[k].revoked THEN Known(v, keys[k].user, k) ELSE Goes(v, "cookie")
        /\ UNCHANGED dead
     \/ /\ k # NoKey /\ LookupFails
        /\ visit' = [visit EXCEPT ![v] = [visit[v] EXCEPT !.pc = "cookie", !.failed = @ \cup {"key"}]]
  /\ UNCHANGED <<mode, users, logins, keys, refused>>

\* The session of the cookie, or its user, cannot be read.
CookieFails(v) ==
  /\ LookupFails
  /\ visit' = [visit EXCEPT ![v] = [Unidentified(v) EXCEPT !.failed = @ \cup {"cookie"}]]

\* ResolveSession: GetAuthSession.
TakeCookie(v) ==
  LET l == Wants(v).cookie IN
  /\ Stands(v, "cookie") /\ Wants(v).op # "logout"
  /\ \/ /\ visit' = [visit EXCEPT ![v] =
             IF l \in DOMAIN logins
             THEN [@ EXCEPT !.pc = IF logins[l].over THEN "forget" ELSE "user", !.login = l, !.owner = logins[l].user]
             ELSE Unidentified(v)]
        /\ UNCHANGED dead
     \/ l \notin {NoCookie, Forged} /\ CookieFails(v)
  /\ UNCHANGED <<mode, users, logins, keys, refused>>

\* A session whose time is over is deleted, if the DELETE works.
ForgetSession(v) ==
  /\ Stands(v, "forget")
  /\ \/ logins' = [l \in DOMAIN logins \ {visit[v].login} |-> logins[l]] /\ UNCHANGED dead
     \/ dead < MaxDead /\ dead' = dead + 1 /\ UNCHANGED logins
  /\ visit' = [visit EXCEPT ![v] = Unidentified(v)]
  /\ UNCHANGED <<mode, users, keys, refused>>

\* GetUser: the user of the session as it was read; accounts are never deleted.
TakeUser(v) ==
  /\ Stands(v, "user")
  /\ \/ Known(v, visit[v].owner, visit[v].login) /\ UNCHANGED dead
     \/ CookieFails(v)
  /\ UNCHANGED <<mode, users, logins, keys, refused>>

(***************************************************************************)
(* Behind RequireAuth.                                                     *)
(***************************************************************************)
\* IssueAPIKey: a key for whoever the visit is identified as.
CreateKey(v) ==
  /\ Stands(v, "served") /\ Wants(v).op = "createKey"
  /\ keys' = [k \in DOMAIN keys \cup {v} |-> IF k = v THEN [user |-> visit[v].user, revoked |-> FALSE] ELSE keys[k]]
  /\ Goes(v, "done")
  /\ UNCHANGED <<mode, users, logins, dead, refused>>

\* RevokeAPIKey, of any key that is not revoked yet.
RevokeKey(v) ==
  LET k == Wants(v).revoke IN
  /\ Stands(v, "served") /\ Wants(v).op = "revokeKey"
  /\ IF k \in DOMAIN keys /\ ~keys[k].revoked
     THEN keys' = [keys EXCEPT ![k].revoked = TRUE] /\ refused' = refused \cup {k} /\ Goes(v, "done")
     ELSE Goes(v, "notFound") /\ UNCHANGED <<keys, refused>>
  /\ UNCHANGED <<mode, users, logins, dead>>

\* listAPIKeys, and every handler that leaves these tables alone.
ServeOther(v) ==
  /\ Stands(v, "served") /\ Wants(v).op \in {"use", "listKeys"}
  /\ Goes(v, "done")
  /\ UNCHANGED <<mode, users, logins, keys, dead, refused>>

\* jed dies between two steps, or a statement outside of RequireAuth and of
\* ResolveSession fails.
Die(v) ==
  /\ visit[v].pc \in {"count", "insert", "lookup", "openSession", "key", "cookie", "forget", "user", "served"}
  /\ dead < MaxDead
  /\ dead' = dead + 1
  /\ Goes(v, "dead")
  /\ UNCHANGED <<mode, users, logins, keys, refused>>

VisitStep(v) ==
  \/ Begin(v) \/ CountEmail(v) \/ InsertUser(v) \/ Lookup(v) \/ OpenSession(v) \/ Logout(v)
  \/ TakeKey(v) \/ TakeCookie(v) \/ ForgetSession(v) \/ TakeUser(v)
  \/ CreateKey(v) \/ RevokeKey(v) \/ ServeOther(v) \/ Die(v)

AuthStep == (\E v \in Visits : VisitStep(v)) \/ (\E l \in Visits \cup FirstLogins : Expire(l))

\* A client carries as a key what it got as a key, and as a cookie what it got as one.
Carries(ask) ==
  /\ ask.key \in Visits \cup FirstKeys \cup {NoKey, Forged}
  /\ ask.cookie \in Visits \cup FirstLogins \cup {NoCookie, Forged}

\* Any requests, to any accounts, first keys and first login sessions of people.
AuthStart ==
  \E m \in {"required", "optional", "bypass"}, asks \in [Visits -> {visit[v].ask : v \in Visits}],
     accounts \in UNION {[A -> Passwords] : A \in SUBSET Emails},
     owners \in [FirstKeys \cup FirstLogins -> Emails \cup {Everyone}] :
       /\ \A v \in Visits : asks[v].op \in Guarded \cup Public => Carries(asks[v])
       /\ \A l \in FirstLogins : owners[l] \in DOMAIN accounts
       /\ AuthInit(m, asks, accounts, owners)

AuthSpec == AuthStart /\ [][AuthStep]_authVars

(***************************************************************************)
(* Properties.                                                             *)
(***************************************************************************)
\* The types of the three tables: a login session is of an account that is there.
AuthTypeOK ==
  /\ mode \in {"required", "optional", "bypass"}
  /\ users \in [Emails -> Passwords \cup {NoAccount}]
  /\ \A l \in DOMAIN logins : l \in Credentials /\ Account(logins[l].user) /\ logins[l].over \in BOOLEAN
  /\ \A k \in DOMAIN keys : k \in Credentials /\ keys[k].user # NoOne /\ keys[k].revoked \in BOOLEAN

Identified(v) == visit[v].user # NoOne
ByCredential(v) == Identified(v) /\ visit[v].by # Forged

\* Who is identified carried a credential that had not been revoked, logged out or
\* run out when the visit began, and is its owner: who created the key, or who logged in.
OwnsCredential(v) ==
  LET by == visit[v].by IN
  ByCredential(v) =>
    /\ by \in {Wants(v).key, Wants(v).cookie} \ visit[v].stale
    /\ by \in Visits => visit[v].user = IF Wants(by).op = "createKey" THEN visit[by].user ELSE Wants(by).email

\* A cookie is given only to a client that knows the password the account still has:
\* of two signups for one address, one alone gets the account.
KnowsPassword(v) == Stands(v, "loggedIn") => users[Wants(v).email] = Wants(v).password

\* A visit is turned away, or taken for the default user, only if neither its key
\* nor its cookie is good, or the lookup of the one that is good has failed.
TurnedAwayRightly(v) ==
  (Stands(v, "unauthorized") /\ Wants(v).op # "login" /\ Wants(v).op # "signup") \/ (Identified(v) /\ ~ByCredential(v)) =>
    /\ (Wants(v).op \in Guarded /\ Wants(v).key \in DOMAIN keys /\ ~keys[Wants(v).key].revoked) => "key" \in visit[v].failed
    /\ (Wants(v).cookie \in DOMAIN logins /\ ~logins[Wants(v).cookie].over) => "cookie" \in visit[v].failed

\* Identity is earned: by a credential that was good when the visit began and by
\* nobody but its owner; a good key in x-api-key or a good cookie is passed over only
\* when a statement of its lookup fails; and without one nobody is served where
\* authentication is required (RequireAuth, ResolveSession, Login, CreateUser, with
\* other visits between their statements).
IdentityEarned ==
  \A v \in Visits :
    /\ OwnsCredential(v) /\ KnowsPassword(v) /\ TurnedAwayRightly(v)
    /\ (Identified(v) /\ ~ByCredential(v)) => mode # "required" /\ Wants(v).op \in Guarded
=============================================================================
