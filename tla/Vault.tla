------------------------------- MODULE Vault -------------------------------
(***************************************************************************)
(* Vaults and their credentials (internal/store/vault.go, internal/vault,  *)
(* internal/api/vault.go), and the lookup of the credential for an         *)
(* outgoing request, which refreshes an OAuth token that has expired       *)
(* (Service.Resolve).                                                      *)
(*                                                                         *)
(* A task is an API request, an MCP connection of a turn of jed, or a      *)
(* request that goes through je-vault.  Every statement is a transaction   *)
(* of its own, and so is the call of the provider's token endpoint: the    *)
(* tasks of both processes interleave between any two of them.             *)
(***************************************************************************)
EXTENDS Integers, FiniteSets

CONSTANTS
  Vaults,            \* the ids of vaults
  Hosts,             \* the hosts of MCP servers
  Sessions,          \* the ids of sessions
  Tasks,             \* the ids of tasks; a task names the credential it creates
  FirstCredentials,  \* the ids of the credentials there at the start
  MaxTime,           \* bound: the clock
  MaxFaults          \* bound: lost replies, abandoned tasks, crashes

ASSUME VaultAssumption ==
  /\ MaxTime \in Nat /\ MaxFaults \in Nat
  /\ Tasks \cap FirstCredentials = {}

VARIABLES
  vaults,         \* the table vault
  credentials,    \* the table vault_credential
  sessionVaults,  \* the column vault_ids of session; {} once it is deleted
  rotates,        \* the provider replaces a refresh token when it is used
  issued,         \* issued[g]: how often the provider has refreshed grant g
  now,            \* the time
  task,           \* task[c]: what c asks for and how far it has come
  faults,         \* how many faults have happened
  lost,           \* ghost: grants whose newest refresh token was lost to a known cause
  seen,           \* ghost: what a lookup could have found while it ran
  intended        \* ghost: the host and the grant that clients have put into a credential last

vaultVars == <<vaults, credentials, sessionVaults, rotates, issued, now, task, faults, lost, seen, intended>>

Absent == -1
NoRow == [vault |-> ""]
Resolvers == {"turn", "proxy"}
AuthTypes == {"static_bearer", "mcp_oauth"}

\* The rows of vault_credential, with the secret in the clear: what the provider
\* granted, the number of the access token and of the refresh token, and the expiry.
Grants == Tasks \cup FirstCredentials
Secrets == [grant : Grants, access : Nat, refresh : Nat \cup {Absent}, expires : Nat \cup {Absent}]
CredentialRows ==
  [vault : Vaults, host : Hosts, type : AuthTypes, secret : Secrets, archived : BOOLEAN, at : Nat]

NewTask(ask) ==
  [ask |-> ask, pc |-> "new", id |-> "", vaults |-> {}, row |-> NoRow, token |-> << >>, failed |-> FALSE]

\* The vaults in "open" are there; "rows" are the credentials of the start and
\* "ids" the vault_ids of the sessions.
VaultInit(asks, open, rows, ids) ==
  /\ vaults = [v \in Vaults |-> [there |-> IF v \in open THEN "live" ELSE "never", archived |-> FALSE]]
  /\ credentials = rows
  /\ sessionVaults = ids
  /\ rotates \in BOOLEAN
  /\ issued = [g \in Grants |-> 0]
  /\ now = 0
  /\ task = [c \in Tasks |-> NewTask(asks[c])]
  /\ faults = 0
  /\ lost = {}
  /\ seen = [c \in Tasks |-> [had |-> {}, tokens |-> {}, none |-> FALSE]]
  /\ intended = [k \in DOMAIN rows |-> [host |-> rows[k].host, grant |-> rows[k].secret.grant]]

Asked(c) == task[c].ask
On(c, op, pc) == Asked(c).op = op /\ task[c].pc = pc
Moves(c, pc) == task' = [task EXCEPT ![c].pc = pc]
Resolver(c) == Asked(c).op \in Resolvers

\* An API request that fails is refused; a failed lookup lets the request pass
\* as it is (inject of je-vault, VaultResolveToken of jed).
Failed(c) == [task[c] EXCEPT !.pc = IF Resolver(c) THEN "passed" ELSE "refused", !.failed = TRUE]
Fails(c) == task' = [task EXCEPT ![c] = Failed(c)]

Open(v) == vaults[v].there = "live"
Stored(k) == k \in DOMAIN credentials
Token(secret) == <<secret.grant, secret.access>>

\* ListActiveCredentialsByHost: the archived rows are left out, those of an
\* archived vault are not.
Active(table, host, ids) ==
  {k \in DOMAIN table : table[k].host = host /\ table[k].vault \in ids /\ ~table[k].archived}

\* The COUNT of the other active credentials, and the partial unique index.
HostFree(k, row) == Active(credentials, row.host, {row.vault}) \subseteq {k}

(***************************************************************************)
(* Vaults: every operation is one statement.                               *)
(***************************************************************************)
\* An operation on a vault succeeds under a condition, and leaves v in its row.
OnVault(c, op, succeeds, v) ==
  /\ On(c, op, "new")
  /\ IF succeeds THEN vaults' = [vaults EXCEPT ![Asked(c).vault] = v] /\ Moves(c, "done") ELSE Fails(c) /\ UNCHANGED vaults
  /\ UNCHANGED <<sessionVaults, rotates, issued, now, faults, lost>>

CreateVault(c) ==
  LET v == Asked(c).vault IN
  /\ OnVault(c, "createVault", Asked(c).named, [vaults[v] EXCEPT !.there = "live"])
  /\ Asked(c).named => vaults[v].there = "never"
  /\ UNCHANGED credentials

UpdateVault(c) ==
  LET v == Asked(c).vault IN
  /\ OnVault(c, "updateVault", Asked(c).named /\ Open(v) /\ ~vaults[v].archived, vaults[v])
  /\ UNCHANGED credentials

\* The credentials of an archived vault stay as they are.
ArchiveVault(c) ==
  LET v == Asked(c).vault IN
  /\ OnVault(c, "archiveVault", Open(v) /\ ~vaults[v].archived, [vaults[v] EXCEPT !.archived = TRUE])
  /\ UNCHANGED credentials

\* The foreign key takes the credentials along.
DeleteVault(c) ==
  LET v == Asked(c).vault IN
  /\ OnVault(c, "deleteVault", Open(v), [vaults[v] EXCEPT !.there = "gone"])
  /\ credentials' = [k \in {j \in DOMAIN credentials : credentials[j].vault # v} |-> credentials[k]]

\* UpdateSession and DeleteSession, as far as vault_ids goes.
SetSessionVaults(c) ==
  /\ On(c, "setVaults", "new")
  /\ sessionVaults' = [sessionVaults EXCEPT ![Asked(c).session] = Asked(c).vaults]
  /\ Moves(c, "done")
  /\ UNCHANGED <<vaults, credentials, rotates, issued, now, faults, lost>>

(***************************************************************************)
(* Credentials.                                                            *)
(***************************************************************************)
\* oauthSecretFromInput, and the token of static_bearer.
NewSecret(c, type) ==
  LET auth == Asked(c).auth
      oauth == type = "mcp_oauth"
  IN [grant |-> c, access |-> 0, refresh |-> IF oauth /\ auth.refresh THEN 0 ELSE Absent,
      expires |-> IF oauth THEN auth.expires ELSE Absent]

\* AddCredential: the request must be complete and the vault there, archived or not.
CheckAdd(c) ==
  LET ask == Asked(c) IN
  /\ On(c, "addCredential", "new")
  /\ IF ask.auth.type \in AuthTypes /\ ask.host \in Hosts /\ Open(ask.vault) /\ ask.auth.secret = "given"
     THEN task' = [task EXCEPT ![c] = [task[c] EXCEPT !.pc = "count", !.id = c,
                     !.row = [vault |-> ask.vault, host |-> ask.host, type |-> ask.auth.type,
                              secret |-> NewSecret(c, ask.auth.type), archived |-> FALSE, at |-> 0]]]
     ELSE Fails(c)
  /\ UNCHANGED <<vaults, credentials, sessionVaults, rotates, issued, now, faults, lost>>

\* UpdateCredential reads the row; without a new secret it keeps the old one.
ReadCredential(c) ==
  LET ask == Asked(c)
      row == credentials[ask.credential]
      type == IF ask.auth.type = "" THEN row.type ELSE ask.auth.type
      replaced == ask.auth.secret # "none" \/ type # row.type
  IN
  /\ On(c, "updateCredential", "new")
  /\ IF ask.auth.type \in AuthTypes \cup {""} /\ ask.host \in Hosts /\ Stored(ask.credential)
        /\ (replaced => ask.auth.secret = "given")
     THEN task' = [task EXCEPT ![c] = [task[c] EXCEPT !.pc = "count", !.id = ask.credential,
                     !.row = [row EXCEPT !.host = ask.host, !.type = type,
                                         !.secret = IF replaced THEN NewSecret(c, type) ELSE row.secret]]]
     ELSE Fails(c)
  /\ UNCHANGED <<vaults, credentials, sessionVaults, rotates, issued, now, faults, lost>>

\* A refreshed token is lost when the call that holds it gives up.
GivesUp(c) == IF Resolver(c) /\ task[c].pc \in {"count", "write"} THEN {task[c].row.secret.grant} ELSE {}

\* The COUNT of CreateCredential and UpdateCredential.
CountOthers(c) ==
  LET free == HostFree(task[c].id, task[c].row) IN
  /\ task[c].pc = "count"
  /\ IF free THEN Moves(c, "write") ELSE Fails(c)
  /\ lost' = lost \cup (IF free THEN {} ELSE GivesUp(c))
  /\ UNCHANGED <<vaults, credentials, sessionVaults, rotates, issued, now, faults>>

\* Fault: the INSERT without the unique index.
InsertUnchecked(c) ==
  /\ On(c, "addCredential", "write") /\ Open(task[c].row.vault)
  /\ credentials' = [k \in DOMAIN credentials \cup {c} |->
                        IF k = c THEN [task[c].row EXCEPT !.at = Cardinality(DOMAIN credentials) + 1] ELSE credentials[k]]
  /\ Moves(c, "done")
  /\ UNCHANGED <<vaults, sessionVaults, rotates, issued, now, faults, lost>>

\* The INSERT of CreateCredential; created_at has milliseconds, so two rows may share it.
InsertCredential(c) ==
  LET row == task[c].row
      latest == {credentials[k].at : k \in DOMAIN credentials}
  IN
  /\ On(c, "addCredential", "write")
  /\ IF Open(row.vault) /\ HostFree(c, row)
     THEN /\ \E t \in 1..(Cardinality(DOMAIN credentials) + 1) :
               /\ \A u \in latest : u <= t
               /\ credentials' = [k \in DOMAIN credentials \cup {c} |->
                                    IF k = c THEN [row EXCEPT !.at = t] ELSE credentials[k]]
          /\ Moves(c, "done")
     ELSE Fails(c) /\ UNCHANGED credentials
  /\ UNCHANGED <<vaults, sessionVaults, rotates, issued, now, faults, lost>>

\* The UPDATE of UpdateCredential: the whole row, if it is there and active.  It
\* writes what its caller made of the row it had read, however old that is: a lookup
\* (persistOAuthSecret) or an API request may bring back a secret, and a lookup a host,
\* that is no longer in the row.
UpdateRow(c) ==
  LET k == task[c].id
      row == task[c].row
      there == credentials[k].secret
      ok == Stored(k) /\ ~credentials[k].archived /\ HostFree(k, row)
      back == ok /\ ~Resolver(c) /\ row.secret.grant # c
                 /\ (row.secret.grant # there.grant \/ row.secret.refresh < there.refresh)
  IN
  /\ task[c].pc = "write" /\ Asked(c).op # "addCredential"
  /\ IF ok
     THEN /\ credentials' = [credentials EXCEPT ![k] = [row EXCEPT !.archived = FALSE]]
          /\ task' = [task EXCEPT ![c] = [@ EXCEPT !.pc = IF Resolver(c) THEN "injected" ELSE "done",
                                  !.token = IF Resolver(c) THEN Token(row.secret) ELSE task[c].token]]
          /\ lost' = lost \cup (IF back THEN {row.secret.grant} ELSE {})
     ELSE Fails(c) /\ lost' = lost \cup GivesUp(c) /\ UNCHANGED credentials
  /\ UNCHANGED <<vaults, sessionVaults, rotates, issued, now, faults>>

ArchiveCredential(c) ==
  LET k == Asked(c).credential IN
  /\ On(c, "archiveCredential", "new")
  /\ IF Stored(k) /\ ~credentials[k].archived
     THEN credentials' = [credentials EXCEPT ![k].archived = TRUE] /\ Moves(c, "done")
     ELSE Fails(c) /\ UNCHANGED credentials
  /\ UNCHANGED <<vaults, sessionVaults, rotates, issued, now, faults, lost>>

DeleteCredential(c) ==
  LET k == Asked(c).credential IN
  /\ On(c, "deleteCredential", "new")
  /\ IF Stored(k)
     THEN credentials' = [j \in DOMAIN credentials \ {k} |-> credentials[j]] /\ Moves(c, "done")
     ELSE Fails(c) /\ UNCHANGED credentials
  /\ UNCHANGED <<vaults, sessionVaults, rotates, issued, now, faults, lost>>

\* ValidateOAuthCredential looks at the row alone; the provider is not asked.
ValidateCredential(c) ==
  LET k == Asked(c).credential IN
  /\ On(c, "validate", "new")
  /\ IF Stored(k) /\ credentials[k].type = "mcp_oauth" THEN Moves(c, "done") ELSE Fails(c)
  /\ UNCHANGED <<vaults, credentials, sessionVaults, rotates, issued, now, faults, lost>>

(***************************************************************************)
(* The lookup.                                                             *)
(***************************************************************************)
\* The session of a turn; of a proxied request from Proxy-Authorization, else from
\* X-Je-Session.
SessionOf(ask) ==
  IF ask.op = "turn" THEN ask.session ELSE IF ask.proxyAuth # "" THEN ask.proxyAuth ELSE ask.header

\* A turn of jed connects to an MCP server.
TurnConnects(c) ==
  /\ On(c, "turn", "new")
  /\ Moves(c, "session")
  /\ UNCHANGED <<vaults, credentials, sessionVaults, rotates, issued, now, faults, lost>>

\* vault_ids of the session, in a statement of its own.
ReadSession(c) ==
  LET ids == sessionVaults[SessionOf(Asked(c))] IN
  /\ task[c].pc = "session"
  /\ task' = [task EXCEPT ![c] = [@ EXCEPT !.vaults = ids, !.pc = IF ids = {} THEN "passed" ELSE "list"]]
  /\ UNCHANGED <<vaults, credentials, sessionVaults, rotates, issued, now, faults, lost>>

\* oauthNeedsRefresh; the minute of margin is part of "expires".
NeedsRefresh(row) ==
  row.type = "mcp_oauth" /\ row.secret.expires # Absent /\ now >= row.secret.expires /\ row.secret.refresh # Absent

\* Fault: Resolve takes archived rows too.
ListAnywhere(c) ==
  LET found == {k \in DOMAIN credentials : credentials[k].host = Asked(c).host /\ credentials[k].vault \in task[c].vaults} IN
  /\ task[c].pc = "list"
  /\ \E k \in found :
       task' = [task EXCEPT ![c] = [task[c] EXCEPT !.pc = "injected", !.id = k, !.token = Token(credentials[k].secret)]]
  /\ UNCHANGED <<vaults, credentials, sessionVaults, rotates, issued, now, faults, lost>>

\* Resolve: the newest matching credential.
List(c) ==
  LET found == Active(credentials, Asked(c).host, task[c].vaults)
      newest == {k \in found : \A j \in found : credentials[j].at <= credentials[k].at}
  IN
  /\ task[c].pc = "list"
  /\ \/ found = {} /\ Moves(c, "passed")
     \/ \E k \in newest :
          LET row == credentials[k] IN
          task' = [task EXCEPT ![c] = IF NeedsRefresh(row)
                                      THEN [task[c] EXCEPT !.pc = "refresh", !.id = k, !.row = row]
                                      ELSE [task[c] EXCEPT !.pc = "injected", !.id = k, !.token = Token(row.secret)]]
  /\ UNCHANGED <<vaults, credentials, sessionVaults, rotates, issued, now, faults, lost>>

\* The token endpoint (external): a provider that rotates takes only the newest
\* refresh token of the grant.
Accepts(secret) == ~rotates \/ secret.refresh = issued[secret.grant]

Minted(secret, expires) ==
  [secret EXCEPT !.access = issued[secret.grant] + 1, !.expires = expires,
                 !.refresh = IF rotates THEN issued[secret.grant] + 1 ELSE secret.refresh]

\* Fault: the old refresh token is kept although the provider has sent a new one.
RefreshForgetful(c) ==
  LET secret == task[c].row.secret IN
  /\ task[c].pc = "refresh" /\ Accepts(secret)
  /\ issued' = [issued EXCEPT ![secret.grant] = @ + 1]
  /\ \E expires \in {now + 1, Absent} :
       task' = [task EXCEPT ![c] = [@ EXCEPT !.row.secret = [Minted(secret, expires) EXCEPT !.refresh = secret.refresh], !.pc = "count"]]
  /\ UNCHANGED <<vaults, credentials, sessionVaults, rotates, now, faults, lost>>

\* refreshOAuth: the new tokens replace the old ones in the hands of the call.
Refresh(c) ==
  LET secret == task[c].row.secret IN
  /\ task[c].pc = "refresh" /\ Accepts(secret)
  /\ issued' = [issued EXCEPT ![secret.grant] = @ + 1]
  /\ \E expires \in {now + 1, Absent} :
       task' = [task EXCEPT ![c] = [@ EXCEPT !.row.secret = Minted(secret, expires), !.pc = "count"]]
  /\ UNCHANGED <<vaults, credentials, sessionVaults, rotates, now, faults, lost>>

\* The provider refuses, or cannot be reached.
RefreshRefused(c) ==
  /\ task[c].pc = "refresh"
  /\ Fails(c)
  /\ UNCHANGED <<vaults, credentials, sessionVaults, rotates, issued, now, faults, lost>>

\* The provider answers too late for the client's timeout, or not in the expected form.
RefreshReplyLost(c) ==
  LET secret == task[c].row.secret IN
  /\ task[c].pc = "refresh" /\ Accepts(secret) /\ faults < MaxFaults
  /\ issued' = [issued EXCEPT ![secret.grant] = @ + 1]
  /\ lost' = lost \cup {secret.grant}
  /\ faults' = faults + 1
  /\ Fails(c)
  /\ UNCHANGED <<vaults, credentials, sessionVaults, rotates, now>>

\* The process of a task dies, or its context is cancelled, between two steps.
InProgress(c) == task[c].pc \in {"session", "list", "refresh", "count", "write"}
Abandon(c) ==
  /\ InProgress(c) /\ faults < MaxFaults
  /\ faults' = faults + 1
  /\ lost' = lost \cup GivesUp(c)
  /\ Moves(c, "dead")
  /\ UNCHANGED <<vaults, credentials, sessionVaults, rotates, issued, now>>

Tick ==
  /\ now < MaxTime
  /\ now' = now + 1
  /\ UNCHANGED <<vaults, credentials, sessionVaults, rotates, issued, task, faults, lost>>

TaskStep(c) ==
  \/ CreateVault(c) \/ UpdateVault(c) \/ ArchiveVault(c) \/ DeleteVault(c) \/ SetSessionVaults(c)
  \/ CheckAdd(c) \/ ReadCredential(c) \/ CountOthers(c) \/ InsertCredential(c) \/ UpdateRow(c)
  \/ ArchiveCredential(c) \/ DeleteCredential(c) \/ ValidateCredential(c)
  \/ TurnConnects(c) \/ ReadSession(c) \/ List(c)
  \/ Refresh(c) \/ RefreshRefused(c) \/ RefreshReplyLost(c) \/ Abandon(c)

VaultStep == Tick \/ \E c \in Tasks : TaskStep(c)

(***************************************************************************)
(* The ghosts that go along with every step.  What a lookup could have     *)
(* found: the vaults its session had while it ran, the tokens that were    *)
(* active in them, and whether there was none.  And what clients have put  *)
(* into a credential last.                                                 *)
(***************************************************************************)
Watched(c) == Resolver(c) /\ (InProgress(c) \/ InProgress(c)')

See ==
  seen' = [c \in Tasks |->
    IF ~Watched(c) THEN seen[c]
    ELSE LET host == Asked(c).host
             had == seen[c].had \cup {sessionVaults'[SessionOf(Asked(c))]}
         IN [had |-> had,
             tokens |-> seen[c].tokens
                        \cup {Token(credentials'[k].secret) : k \in Active(credentials', host, UNION had)},
             none |-> seen[c].none \/ \E ids \in had : Active(credentials', host, ids) = {}]]

\* An API request writes the host that its client asks for, and perhaps a new secret.
PutsIn(c, k) == ~Resolver(c) /\ task[c].id = k /\ task[c].pc = "write" /\ task'[c].pc = "done"
Intend ==
  intended' = [k \in DOMAIN credentials' |->
    LET clients == {c \in Tasks : PutsIn(c, k)}
        row == credentials'[k]
    IN IF clients = {} THEN intended[k]
       ELSE [host |-> row.host, grant |-> IF row.secret.grant \in clients THEN row.secret.grant ELSE intended[k].grant]]

Watch == See /\ Intend

(***************************************************************************)
(* Properties.                                                             *)
(***************************************************************************)
\* The types of the tables and of the clock, and what their constraints say: one active
\* credential for a host in a vault.
VaultTypeOK ==
  /\ vaults \in [Vaults -> [there : {"never", "live", "gone"}, archived : BOOLEAN]]
  /\ \A k \in DOMAIN credentials :
       /\ credentials[k] \in CredentialRows
       /\ Open(credentials[k].vault)
       /\ ~credentials[k].archived => HostFree(k, credentials[k])
  /\ sessionVaults \in [Sessions -> SUBSET Vaults]
  /\ now \in 0..MaxTime /\ faults \in 0..MaxFaults

\* c has written to k the secret that is there, from a row that it had read: a lookup
\* has refreshed it, an update has kept it.  A lookup writes the host back too.
WroteBack(c, k) ==
  /\ task[c].id = k /\ task[c].row # NoRow /\ task[c].row.secret = credentials[k].secret
  /\ credentials[k].secret.grant # c
  /\ IF Resolver(c) THEN task[c].token # << >> ELSE task[c].pc = "done"
WroteHostBack(c, k) == Resolver(c) /\ WroteBack(c, k) /\ task[c].row.host = credentials[k].host

\* The grant and the host that clients have put into a credential last are in its row,
\* unless a call that had read the row before has written back what it had found there:
\* a lookup after a refresh does it with both (ADR-0015 has a compare-and-swap there),
\* an update that brings no secret of its own with the grant.  And with a provider that
\* rotates refresh tokens and takes only the newest one: that one is in the row for the
\* grant there, or in the hands of exactly one lookup that is about to store it.  It
\* gets lost only when a reply of the provider is lost, a call is abandoned or refused
\* before it has stored the token, or an update writes back an older secret
\* (refreshOAuth, persistOAuthSecret and UpdateCredential, run by several calls of jed
\* and je-vault at once).
RefreshTokenKept ==
  \A k \in DOMAIN credentials :
    LET secret == credentials[k].secret
        holders == {c \in Tasks : /\ Resolver(c) /\ task[c].id = k /\ task[c].pc \in {"count", "write"}
                                  /\ task[c].row.secret.grant = secret.grant}
    IN /\ secret.grant = intended[k].grant \/ \E c \in Tasks : WroteBack(c, k)
       /\ credentials[k].host = intended[k].host \/ \E c \in Tasks : WroteHostBack(c, k)
       /\ (rotates /\ secret.refresh # Absent /\ secret.grant \notin lost) =>
            IF secret.refresh = issued[secret.grant] THEN holders = {}
            ELSE \E c \in holders : holders = {c} /\ task[c].row.secret.refresh = issued[secret.grant]
=============================================================================
