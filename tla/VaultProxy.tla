----------------------------- MODULE VaultProxy -----------------------------
(***************************************************************************)
(* je-vault (cmd/je-vault, internal/vault/proxy.go): the proxy through     *)
(* which a sandbox reaches the outside.  It opens the TLS connection with  *)
(* a certificate of its own CA, looks up the credential for the host in    *)
(* the vaults of the session, puts it in place of what the client sent,    *)
(* and forwards the request.                                               *)
(*                                                                         *)
(* A request of a client is a task of Vault; every request of a            *)
(* connection is looked up again, with the session of the CONNECT.         *)
(***************************************************************************)
EXTENDS Vault

VARIABLES
  ca,        \* the files ca.crt and ca.key
  proxy,     \* the process: down, creating (between the two files), up
  leaves,    \* hosts with a certificate in the cache
  received   \* received[c]: the Authorization headers the server got with request c

proxyVars == <<ca, proxy, leaves, received>>

Nothing == "nothing"

ProxyInit(crt, key) ==
  /\ ca = [crt |-> crt, key |-> key]
  /\ proxy = "down"
  /\ leaves = {}
  /\ received = [c \in Tasks |-> Nothing]

Proxied(c) == Asked(c).op = "proxy"
TablesKept == UNCHANGED <<vaults, credentials, sessionVaults, rotates, issued, now>>

(***************************************************************************)
(* The process.                                                            *)
(***************************************************************************)
\* LoadOrCreateCA: a certificate on disk needs its key, without one the certificate
\* is written first.  A proxy that finds a certificate and no key does not start.
StartProxy ==
  /\ proxy = "down"
  /\ \/ ca.crt /\ ca.key /\ proxy' = "up" /\ UNCHANGED ca
     \/ ~ca.crt /\ ca' = [ca EXCEPT !.crt = TRUE] /\ proxy' = "creating"
  /\ UNCHANGED <<leaves, received, faults, lost, task>> /\ TablesKept

WriteKey ==
  /\ proxy = "creating"
  /\ ca' = [ca EXCEPT !.key = TRUE]
  /\ proxy' = "up"
  /\ UNCHANGED <<leaves, received, faults, lost, task>> /\ TablesKept

\* Every request in progress dies with the process.
CrashProxy ==
  LET dying == {c \in Tasks : Proxied(c) /\ InProgress(c)} IN
  /\ proxy # "down" /\ faults < MaxFaults
  /\ faults' = faults + 1
  /\ proxy' = "down"
  /\ leaves' = {}
  /\ task' = [c \in Tasks |->
                IF Proxied(c) /\ task[c].pc \notin {"new", "sent", "badGateway", "dead"}
                THEN [task[c] EXCEPT !.pc = "dead"] ELSE task[c]]
  /\ lost' = lost \cup UNION {GivesUp(c) : c \in dying}
  /\ UNCHANGED <<ca, received>> /\ TablesKept

(***************************************************************************)
(* A request.                                                              *)
(***************************************************************************)
\* handleConnect or handlePlain, leafFor, and inject up to the lookup: without a
\* session the request passes as it is.
Connect(c) ==
  /\ proxy = "up" /\ On(c, "proxy", "new")
  /\ leaves' = IF Asked(c).tunnel THEN leaves \cup {Asked(c).host} ELSE leaves
  /\ Moves(c, IF SessionOf(Asked(c)) = "" THEN "passed" ELSE "session")
  /\ UNCHANGED <<ca, proxy, received, faults, lost>> /\ TablesKept

Own(c) == IF Asked(c).own THEN {"own"} ELSE {}

\* applyInjection: with a token, the client's credentials are taken away.
Headers(c) == IF task[c].token # << >> THEN {task[c].token} ELSE Own(c)

\* proxyOne, handlePlain: the server answers, or the client gets a 502.
Forward(c) ==
  /\ proxy = "up" /\ Proxied(c) /\ task[c].pc \in {"injected", "passed"}
  /\ \E answered \in BOOLEAN :
       /\ Moves(c, IF answered THEN "sent" ELSE "badGateway")
       /\ received' = [received EXCEPT ![c] = IF answered THEN Headers(c) ELSE @]
  /\ UNCHANGED <<ca, proxy, leaves, faults, lost>> /\ TablesKept

ProxyStep ==
  \/ StartProxy \/ WriteKey \/ CrashProxy
  \/ \E c \in Tasks : Connect(c) \/ Forward(c)

\* A step of the vaults, of jed or of je-vault.
AccessStep == (VaultStep /\ UNCHANGED proxyVars) \/ ProxyStep

\* What a task may ask for: the router and the handlers see to the rest.
WellFormed(ask) ==
  /\ ask.op \in Resolvers =>
       /\ ask.host \in Hosts /\ SessionOf(ask) \in Sessions \cup {""}
       /\ ask.op = "turn" => ask.session # ""
  /\ ask.op \in {"createVault", "updateVault", "archiveVault", "deleteVault", "addCredential"} => ask.vault \in Vaults
  /\ ask.op = "setVaults" => ask.session \in Sessions /\ ask.vaults \subseteq Vaults
  /\ ask.op \in {"addCredential", "updateCredential"} => ask.auth.expires \in Nat \cup {Absent}

\* Tables that were filled before: each credential with a grant of its own, one
\* active for a host in a vault.
AccessStart ==
  \E asks \in [Tasks -> {task[c].ask : c \in Tasks}], open \in SUBSET Vaults,
     rows \in [FirstCredentials -> {credentials[k] : k \in FirstCredentials}],
     ids \in [Sessions -> SUBSET Vaults], crt, key \in BOOLEAN :
       /\ \A c \in Tasks : WellFormed(asks[c])
       /\ \A k \in FirstCredentials :
            /\ rows[k] \in CredentialRows /\ rows[k].vault \in open
            /\ rows[k].secret.grant = k /\ rows[k].secret.refresh \in {0, Absent}
            /\ ~rows[k].archived => Active(rows, rows[k].host, {rows[k].vault}) = {k}
       /\ VaultInit(asks, open, rows, ids)
       /\ ProxyInit(crt, key) /\ (key => crt)

AccessSpec == AccessStart /\ [][AccessStep /\ Watch]_<<vaultVars, proxyVars>>

(***************************************************************************)
(* Properties.                                                             *)
(***************************************************************************)
\* The types of the files and of the process: je-vault runs only with both files.
ProxyTypeOK ==
  /\ ca \in [crt : BOOLEAN, key : BOOLEAN] /\ (ca.key => ca.crt)
  /\ proxy \in {"down", "creating", "up"} /\ (proxy = "up" => ca.key)
  /\ leaves \subseteq Hosts

\* What a request carries to the server, or a turn to its MCP server, is a token that
\* was active, while the lookup ran, in a vault the session then had and for that host,
\* and nothing of the client's own next to it.  A request passes with the client's
\* headers only if it names no session, a vault set of its session had no credential
\* for the host, or the lookup failed (Resolve, applyInjection).
InjectedRightly ==
  \A c \in Tasks :
    Resolver(c) =>
      /\ task[c].token # << >> => task[c].token \in seen[c].tokens
      /\ (task[c].pc \in {"passed", "sent"} /\ task[c].token = << >>) =>
           task[c].failed \/ seen[c].none \/ (Proxied(c) /\ SessionOf(Asked(c)) = "")
      /\ task[c].pc = "sent" =>
           received[c] = IF task[c].token # << >> THEN {task[c].token} ELSE IF Asked(c).own THEN {"own"} ELSE {}
=============================================================================
