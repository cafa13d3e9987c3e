--------------------------- MODULE AgentVersions ---------------------------
(***************************************************************************)
(* Agents and their versions (internal/store/agent.go, internal/agent,     *)
(* internal/api/agent.go), the environments, and the creation of a session *)
(* as a snapshot of the agent's current version (internal/session,         *)
(* internal/store/session.go, environment.go and resource.go).             *)
(*                                                                         *)
(* A call is a request and the goroutine that handles it; a session is     *)
(* known by the call that created it.  The transaction of UpdateAgent      *)
(* takes no lock when it reads: postgres runs it under READ COMMITTED,     *)
(* sqlite from a snapshot that any other commit makes too old to write on. *)
(***************************************************************************)
EXTENDS Integers, Sequences, FiniteSets

CONSTANTS
  Agents,        \* the ids of agents
  Environments,  \* the ids of environments, "default" among them
  Configs,       \* the configurations a request may carry
  Calls,         \* the ids of requests
  NoGuardrails,  \* a configuration without guardrails
  Reserved,      \* the metadata key that holds the guardrails
  ResourceTypes  \* the types that the CHECK of session_resource admits

\* Requests are finitely many, a configuration has these fields and no others, and
\* the default environment is an environment.
ASSUME AgentAssumption ==
  /\ IsFiniteSet(Calls) /\ "default" \in Environments
  /\ \A cf \in Configs :
       cf = [name |-> cf.name, skills |-> cf.skills, guardrails |-> cf.guardrails, metadata |-> cf.metadata]

VARIABLES
  dialect,       \* the database: sqlite or postgres
  agents,        \* the table agent
  versions,      \* the table agent_version: versions[a] is the sequence of a's rows
  environments,  \* the table environment
  sessions,      \* the tables session and session_resource, by session
  call,          \* call[c]: a request and the goroutine that handles it
  fresh          \* calls whose sqlite snapshot is still the newest one

agentVars == <<dialect, agents, versions, environments, sessions, call, fresh>>

NewCall(ask) == [ask |-> ask, pc |-> "new", read |-> << >>, committed |-> FALSE]

\* The agents in "first" are at version 1; the environments in "known" are there,
\* the default one not yet.
AgentInit(asks, first, known) ==
  /\ dialect \in {"sqlite", "postgres"}
  /\ agents = [a \in Agents |-> IF a \in DOMAIN first
                                THEN [there |-> "live", name |-> first[a].name, current |-> 1, archived |-> FALSE]
                                ELSE [there |-> "never", name |-> "", current |-> 0, archived |-> FALSE]]
  /\ versions = [a \in Agents |-> IF a \in DOMAIN first THEN <<first[a]>> ELSE << >>]
  /\ environments = [e \in Environments |-> [there |-> e \in known, archived |-> FALSE]]
  /\ sessions = [s \in {} |-> {}]
  /\ call = [c \in Calls |-> NewCall(asks[c])]
  /\ fresh = {}

AgentThere(a) == agents[a].there = "live"

\* GetAgent: name and current version, joined in one statement.
Current(a) == [name |-> agents[a].name, version |-> agents[a].current, row |-> versions[a][agents[a].current]]

Asks(c, op) == call[c].ask.op = op
AtStep(c, op, pc) == Asks(c, op) /\ call[c].pc = pc
Ends(c, pc) == call' = [call EXCEPT ![c].pc = pc]

(***************************************************************************)
(* Configurations.  A configuration has a name, skills, guardrails and     *)
(* metadata, a set of <<key, value>>; the fields left out are carried      *)
(* along like the skills.                                                  *)
(***************************************************************************)
\* createAgent and updateAgent: a name (and likewise a model) is required.
Complete(config) == config.name # ""

UserMetadata(metadata) == {p \in metadata : p[1] # Reserved}

\* encodeAgentMetadata: the guardrails travel under the reserved key, which a
\* client cannot set itself.
Encoded(config) ==
  [name |-> config.name, skills |-> config.skills,
   metadata |-> UserMetadata(config.metadata)
                \cup (IF config.guardrails = NoGuardrails THEN {} ELSE {<<Reserved, config.guardrails>>})]

\* rowToAPI: the answer to the client.
ToAPI(name, row) ==
  [name |-> name, skills |-> row.skills,
   guardrails |-> IF \E p \in row.metadata : p[1] = Reserved
                  THEN (CHOOSE p \in row.metadata : p[1] = Reserved)[2] ELSE NoGuardrails,
   metadata |-> UserMetadata(row.metadata)]

\* Fault: the reserved key stays in the metadata of the snapshot.
SnapshotWithKey(name, row) ==
  [ToAPI(name, row) EXCEPT !.metadata = row.metadata]

\* agentSnapshot: the same, for the session.
Snapshot(name, row) ==
  LET reserved == {p \in row.metadata : p[1] = Reserved} IN
  [name |-> name, skills |-> row.skills,
   guardrails |-> IF reserved = {} THEN NoGuardrails ELSE (CHOOSE p \in reserved : TRUE)[2],
   metadata |-> row.metadata \ reserved]

\* What a client that sent the configuration expects back.
Promised(config) == [config EXCEPT !.metadata = UserMetadata(@)]

(***************************************************************************)
(* Transactions.                                                           *)
(***************************************************************************)
Writing(a) == {c \in Calls : call[c].pc = "update" /\ call[c].ask.agent = a}

\* sqlite has one write lock; in postgres the new version keeps its agent from
\* being deleted (foreign key) and its primary key from being inserted again.
Locked(a) == IF dialect = "sqlite" THEN \E b \in Agents : Writing(b) # {} ELSE Writing(a) # {}
SqliteBusy == dialect = "sqlite" /\ \E a \in Agents : Writing(a) # {}

(***************************************************************************)
(* Agents.                                                                 *)
(***************************************************************************)
\* CreateAgent: agent and version 1 in one transaction.
CreateAgent(c) ==
  LET a == call[c].ask.agent IN
  /\ AtStep(c, "createAgent", "new") /\ ~SqliteBusy
  /\ IF Complete(call[c].ask.config)
     THEN /\ agents[a].there = "never"
          /\ agents' = [agents EXCEPT ![a] = [@ EXCEPT !.there = "live", !.name = call[c].ask.config.name, !.current = 1]]
          /\ versions' = [versions EXCEPT ![a] = <<Encoded(call[c].ask.config)>>]
          /\ call' = [call EXCEPT ![c] = [@ EXCEPT !.pc = "reply", !.committed = TRUE]]
          /\ fresh' = {}
     ELSE Ends(c, "refused") /\ UNCHANGED <<agents, versions, fresh>>
  /\ UNCHANGED <<dialect, environments, sessions>>

\* UpdateAgent: BeginTx and the SELECT, with no lock.
SelectVersion(c) ==
  LET a == call[c].ask.agent IN
  /\ AtStep(c, "updateAgent", "new")
  /\ IF Complete(call[c].ask.config) /\ AgentThere(a) /\ ~agents[a].archived
     THEN IF call[c].ask.version = agents[a].current
          THEN Ends(c, "insert") /\ fresh' = fresh \cup {c}
          ELSE Ends(c, "conflict") /\ UNCHANGED fresh
     ELSE Ends(c, "refused") /\ UNCHANGED fresh
  /\ UNCHANGED <<dialect, agents, versions, environments, sessions>>

\* Fault: an insert of a version that is there replaces it.
InsertOrReplace(c) ==
  /\ AtStep(c, "updateAgent", "insert")
  /\ ~Locked(call[c].ask.agent)
  /\ Ends(c, IF AgentThere(call[c].ask.agent) THEN "update" ELSE "refused")
  /\ UNCHANGED <<dialect, agents, versions, environments, sessions, fresh>>

\* The INSERT: it waits for a writer that is in the way, and fails (404 for the
\* client) if the version is there by then, the agent is gone, or the sqlite
\* snapshot is too old.
InsertVersion(c) ==
  LET a == call[c].ask.agent IN
  /\ AtStep(c, "updateAgent", "insert")
  /\ ~Locked(a)
  /\ Ends(c, IF AgentThere(a) /\ Len(versions[a]) = call[c].ask.version /\ (dialect = "sqlite" => c \in fresh)
             THEN "update" ELSE "refused")
  /\ fresh' = fresh \ {c}
  /\ UNCHANGED <<dialect, agents, versions, environments, sessions>>

\* UPDATE of name and current_version, and the commit.  The agent may have been
\* archived since the SELECT (postgres).
CommitVersion(c) ==
  LET ask == call[c].ask
      next == ask.version + 1
  IN
  /\ AtStep(c, "updateAgent", "update")
  /\ versions' = [versions EXCEPT ![ask.agent] =
                    [v \in DOMAIN @ \cup {next} |-> IF v = next THEN Encoded(ask.config) ELSE @[v]]]
  /\ agents' = [agents EXCEPT ![ask.agent] = [@ EXCEPT !.name = ask.config.name, !.current = next]]
  /\ call' = [call EXCEPT ![c] = [@ EXCEPT !.pc = "reply", !.committed = TRUE]]
  /\ fresh' = {}
  /\ UNCHANGED <<dialect, environments, sessions>>

\* GetAgent for the answer, in one statement after the commit: a newer version,
\* or 404 if the agent has been deleted.
AnswerAgent(c) ==
  LET a == call[c].ask.agent IN
  /\ call[c].pc = "reply"
  /\ call' = IF AgentThere(a)
             THEN [call EXCEPT ![c] = [@ EXCEPT !.pc = "done", !.read = <<ToAPI(Current(a).name, Current(a).row)>>]]
             ELSE [call EXCEPT ![c].pc = "refused"]
  /\ UNCHANGED <<dialect, agents, versions, environments, sessions, fresh>>

\* ArchiveAgent: one UPDATE.
ArchiveAgent(c) ==
  LET a == call[c].ask.agent
      ok == AgentThere(a) /\ ~agents[a].archived
  IN
  /\ AtStep(c, "archiveAgent", "new") /\ ~SqliteBusy
  /\ agents' = IF ok THEN [agents EXCEPT ![a].archived = TRUE] ELSE agents
  /\ fresh' = IF ok THEN {} ELSE fresh
  /\ Ends(c, IF ok THEN "reply" ELSE "refused")
  /\ UNCHANGED <<dialect, versions, environments, sessions>>

\* DeleteAgent: its versions go with it, its sessions stay.
DeleteAgent(c) ==
  LET a == call[c].ask.agent IN
  /\ AtStep(c, "deleteAgent", "new") /\ ~Locked(a)
  /\ agents' = IF AgentThere(a) THEN [agents EXCEPT ![a].there = "deleted"] ELSE agents
  /\ versions' = [versions EXCEPT ![a] = << >>]
  /\ fresh' = IF AgentThere(a) THEN {} ELSE fresh
  /\ Ends(c, IF AgentThere(a) THEN "done" ELSE "refused")
  /\ UNCHANGED <<dialect, environments, sessions>>

(***************************************************************************)
(* Environments: one statement each; "default" can be neither archived nor *)
(* deleted.                                                                *)
(***************************************************************************)
\* A name is required; the type of the config must be "cloud" (or be left out),
\* "self_hosted" is answered 501 and anything else 400.
ValidEnvironment(ask) == ask.named /\ ask.type \in {"", "cloud"}

EnvironmentThere(e) == environments[e].there /\ ~environments[e].archived

EnvironmentChange(c, op, ok, row) ==
  /\ AtStep(c, op, "new") /\ ~SqliteBusy
  /\ environments' = IF ok THEN [environments EXCEPT ![call[c].ask.environment] = row] ELSE environments
  /\ fresh' = IF ok THEN {} ELSE fresh
  /\ Ends(c, IF ok THEN "done" ELSE "refused")
  /\ UNCHANGED <<dialect, agents, versions, sessions>>

CreateEnvironment(c) ==
  /\ Asks(c, "createEnvironment") => ~environments[call[c].ask.environment].there
  /\ EnvironmentChange(c, "createEnvironment", ValidEnvironment(call[c].ask), [there |-> TRUE, archived |-> FALSE])

UpdateEnvironment(c) ==
  EnvironmentChange(c, "updateEnvironment",
    ValidEnvironment(call[c].ask) /\ EnvironmentThere(call[c].ask.environment), [there |-> TRUE, archived |-> FALSE])

ArchiveEnvironment(c) ==
  EnvironmentChange(c, "archiveEnvironment",
    call[c].ask.environment # "default" /\ EnvironmentThere(call[c].ask.environment), [there |-> TRUE, archived |-> TRUE])

DeleteEnvironment(c) ==
  LET e == call[c].ask.environment IN
  EnvironmentChange(c, "deleteEnvironment", e # "default" /\ environments[e].there, [there |-> FALSE, archived |-> FALSE])

(***************************************************************************)
(* Sessions.                                                               *)
(***************************************************************************)
\* Create: GetAgent, in one statement; an archived agent will do.
TakeSnapshot(c) ==
  LET a == call[c].ask.agent IN
  /\ AtStep(c, "createSession", "new")
  /\ call' = IF AgentThere(a)
             THEN [call EXCEPT ![c] = [@ EXCEPT !.pc = "environment",
                     !.read = <<Current(a).version, Snapshot(Current(a).name, Current(a).row)>>]]
             ELSE [call EXCEPT ![c].pc = "refused"]
  /\ UNCHANGED <<dialect, agents, versions, environments, sessions, fresh>>

\* A request that names no environment gets the default one, made if need be;
\* one that is named must be there, archived or not.
ChooseEnvironment(c) ==
  LET e == call[c].ask.environment IN
  /\ AtStep(c, "createSession", "environment") /\ ~SqliteBusy
  /\ environments' = IF e = "" THEN [environments EXCEPT !["default"].there = TRUE] ELSE environments
  /\ fresh' = IF environments' # environments THEN {} ELSE fresh
  /\ Ends(c, IF e = "" \/ (e # "" /\ environments[e].there) THEN "insert" ELSE "refused")
  /\ UNCHANGED <<dialect, agents, versions, sessions>>

\* GetSession
SessionThere(s) == s \in DOMAIN sessions /\ sessions[s].there

\* CreateSession: nothing refers to the agent or the environment any more.
InsertSession(c) ==
  LET ask == call[c].ask IN
  /\ AtStep(c, "createSession", "insert") /\ ~SqliteBusy
  /\ sessions' = [s \in DOMAIN sessions \cup {c} |->
       IF s = c
       THEN [there |-> TRUE, archived |-> FALSE, agent |-> ask.agent, version |-> call[c].read[1],
             snapshot |-> call[c].read[2], resources |-> << >>,
             environment |-> IF ask.environment = "" THEN "default" ELSE ask.environment]
       ELSE sessions[s]]
  /\ fresh' = {}
  /\ Ends(c, "resources")
  /\ UNCHANGED <<dialect, agents, versions, environments>>

NewResource(id, res) == [id |-> id, res |-> res]

\* AddSessionResource for each resource asked for; a type that the CHECK does not
\* admit ends the request with 400, and the session stays.
AddResource(c) ==
  LET left == call[c].ask.resources IN
  /\ AtStep(c, "createSession", "resources") /\ ~SqliteBusy
  /\ IF left = << >> THEN Ends(c, "done") /\ UNCHANGED <<sessions, fresh>>
     ELSE IF sessions[c].there /\ Head(left).type \in ResourceTypes
     THEN /\ sessions' = [sessions EXCEPT ![c].resources = Append(@, NewResource(<<c, Len(left)>>, Head(left)))]
          /\ call' = [call EXCEPT ![c].ask.resources = Tail(left)]
          /\ fresh' = {}
     ELSE Ends(c, "refused") /\ UNCHANGED <<sessions, fresh>>
  /\ UNCHANGED <<dialect, agents, versions, environments>>

SessionChange(c, op, archived) ==
  LET s == call[c].ask.session
      ok == SessionThere(s) /\ ~sessions[s].archived
  IN
  /\ AtStep(c, op, "new") /\ ~SqliteBusy
  /\ sessions' = IF ok THEN [sessions EXCEPT ![s].archived = archived] ELSE sessions
  /\ fresh' = IF ok THEN {} ELSE fresh
  /\ Ends(c, IF ok THEN "done" ELSE "refused")
  /\ UNCHANGED <<dialect, agents, versions, environments>>

\* UpdateSession changes title and metadata, which no snapshot depends on.
UpdateSession(c) == SessionChange(c, "updateSession", FALSE)
ArchiveSession(c) == SessionChange(c, "archiveSession", TRUE)

\* DeleteSession: its resources go with it.  The handler then removes the sandbox
\* (SessionMount).
DeleteSession(c) ==
  LET s == call[c].ask.session
      ok == SessionThere(s)
  IN
  /\ AtStep(c, "deleteSession", "new") /\ ~SqliteBusy
  /\ sessions' = IF ok THEN [sessions EXCEPT ![s] = [@ EXCEPT !.there = FALSE, !.resources = << >>]] ELSE sessions
  /\ fresh' = IF ok THEN {} ELSE fresh
  /\ Ends(c, IF ok THEN "destroy" ELSE "refused")
  /\ UNCHANGED <<dialect, agents, versions, environments>>

\* The client goes away: an open transaction is rolled back, the statements that
\* are left fail.
CallEnded == {"done", "refused", "conflict", "gone"}
CallerGone(c) ==
  /\ call[c].pc \notin CallEnded \cup {"new"}
  /\ Ends(c, "gone")
  /\ fresh' = fresh \ {c}
  /\ UNCHANGED <<dialect, agents, versions, environments, sessions>>

\* The status codes of the handlers of agents: 0 while there is no answer.
AgentStatus(c) ==
  CASE call[c].pc = "done" -> IF Asks(c, "createAgent") THEN 201 ELSE 200
    [] call[c].pc = "conflict" -> 409
    [] call[c].pc = "refused" -> IF "config" \in DOMAIN call[c].ask /\ ~Complete(call[c].ask.config) THEN 400 ELSE 404
    [] OTHER -> 0

AgentStep(c) ==
  \/ CreateAgent(c) \/ SelectVersion(c) \/ InsertVersion(c) \/ CommitVersion(c) \/ AnswerAgent(c)
  \/ ArchiveAgent(c) \/ DeleteAgent(c)
  \/ CreateEnvironment(c) \/ UpdateEnvironment(c) \/ ArchiveEnvironment(c) \/ DeleteEnvironment(c)
  \/ TakeSnapshot(c) \/ ChooseEnvironment(c) \/ InsertSession(c) \/ AddResource(c)
  \/ UpdateSession(c) \/ ArchiveSession(c) \/ DeleteSession(c) \/ CallerGone(c)

\* What a request carries when its body has been decoded; what else it may ask
\* for leaves agents and sessions alone.
WellFormed(ask) ==
  /\ ask.op \in {"createAgent", "updateAgent", "archiveAgent", "deleteAgent"} => ask.agent \in Agents
  /\ ask.op = "createAgent" => ask.config \in Configs
  /\ ask.op = "updateAgent" => ask \in [op : {"updateAgent"}, agent : Agents, version : Int, config : Configs]
  /\ ask.op = "createSession" =>
       ask \in [op : {"createSession"}, agent : Agents, environment : Environments \cup {""},
                resources : Seq({ask.resources[n] : n \in DOMAIN ask.resources})]

\* Any requests, to agents with any first versions.
AgentStart ==
  \E asks \in [Calls -> {call[c].ask : c \in Calls}],
     first \in UNION {[A -> {Encoded(cf) : cf \in Configs}] : A \in SUBSET Agents}, known \in SUBSET Environments :
       (\A c \in Calls : WellFormed(asks[c])) /\ AgentInit(asks, first, known)

AgentSpec == AgentStart /\ [][\E c \in Calls : AgentStep(c)]_agentVars

(***************************************************************************)
(* Properties.                                                             *)
(***************************************************************************)
\* The types of the tables, and what their constraints say.
AgentTypeOK ==
  /\ agents \in [Agents -> [there : {"never", "live", "deleted"}, name : {cf.name : cf \in Configs} \cup {""},
                            current : Nat, archived : BOOLEAN]]
  /\ \A a \in Agents : versions[a] \in Seq({Encoded(cf) : cf \in Configs})
  /\ environments \in [Environments -> [there : BOOLEAN, archived : BOOLEAN]]
  /\ ~environments["default"].archived
  /\ \A s \in DOMAIN sessions :
       /\ s \in Calls /\ sessions[s].agent \in Agents /\ sessions[s].version \in Nat \ {0}
       /\ \A n \in DOMAIN sessions[s].resources : sessions[s].resources[n].res.type \in ResourceTypes
  /\ \A c \in Calls : call[c].pc \in {"new", "insert", "update", "reply", "environment", "resources", "destroy"} \cup CallEnded
  /\ fresh \subseteq Calls

\* Updates of one agent take effect one after the other: its rows are the versions
\* 1 .. current with no gap, and version n is the configuration of the one update
\* that was committed on top of version n - 1: no update is lost, none is
\* overwritten, each one that was answered 200 is among them and none that was
\* answered 409 or 400 is.
UpdatesOf(a) == {c \in Calls : Asks(c, "updateAgent") /\ call[c].committed /\ call[c].ask.agent = a}
UpdatesSerialise ==
  /\ \A c \in Calls : Asks(c, "updateAgent") =>
       /\ AgentStatus(c) = 200 => call[c].committed
       /\ AgentStatus(c) \in {400, 409} => ~call[c].committed
  /\ \A a \in Agents : AgentThere(a) =>
       /\ agents[a].current = Len(versions[a])
       /\ agents[a].name = versions[a][agents[a].current].name
       /\ {call[c].ask.version : c \in UpdatesOf(a)} = 1 .. agents[a].current - 1
       /\ Cardinality(UpdatesOf(a)) = agents[a].current - 1
       /\ \A c \in UpdatesOf(a) : versions[a][call[c].ask.version + 1] = Encoded(call[c].ask.config)

\* The agent of a session is one version of it as its author sent it, whatever
\* updates ran while the session was created: name and configuration of the same
\* version, with its guardrails, and no metadata of JadeEnvoy's own.
SnapshotIsAVersion ==
  \A s \in DOMAIN sessions :
    LET a == sessions[s].agent
        n == sessions[s].version
    IN AgentThere(a) =>
         /\ n <= agents[a].current
         /\ \E cf \in Configs : Encoded(cf) = versions[a][n] /\ Promised(cf) = sessions[s].snapshot
=============================================================================
