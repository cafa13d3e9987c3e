----------------------------- MODULE MCWorkspace -----------------------------
(***************************************************************************)
(* Workspace for TLC.  A scenario says what the requests ask for; those of *)
(* a scenario interleave in every way.  Memories: any two requests, or     *)
(* three on one memory.  Agents: any three requests.  Mounts: a session    *)
(* with resources, its turns, and requests that change what is mounted.    *)
(* Conversations: two threads, messages and answers to tools of one kind.  *)
(***************************************************************************)
EXTENDS Workspace

MCRoots == {<<"workspace">>, <<"mnt", "memory">>, <<"home", "user", ".skills">>}
MCReserved == "_jadeenvoy_guardrails"
Cfg(name, guardrails, metadata, ks) ==
  [name |-> name, skills |-> ks, guardrails |-> guardrails, metadata |-> metadata]
First == Cfg("one", "none", {}, << >>)
Second == Cfg("two", "strict", {<<"team", "x">>}, <<"skl1">>)
Third == Cfg("three", "none", {<<MCReserved, "mine">>, <<"team", "y">>}, <<"skl1", "skl2">>)
NoName == Cfg("", "none", {}, << >>)
MCConfigs == {First, Second, Third, NoName}

Name1 == <<"n", " ">>
Name2 == <<"n", "_">>
MCNames == {Name1, Name2}
Outside == <<"..", "..", "..", "tmp", "x">>
Across == <<"..", "..", "..", "workspace", "x">>
MCPaths == {<<"a">>, <<"a", "b">>, <<"c">>, <<"b", "..", "a">>, Outside, Across}
MCAgentFiles == {<<<<"mnt", "memory", Name2, "c", "d">>, "mine">>}

None == [op |-> "none"]
NoAsks(ids) == [i \in ids |-> None]

(***************************************************************************)
(* Memories.                                                               *)
(***************************************************************************)
Upsert(s, path) == [op |-> "upsert", store |-> s, path |-> path, content |-> "y"]
Update(path, content) == [op |-> "update", id |-> "m0", path |-> path, content |-> content]
Delete == [op |-> "delete", id |-> "m0"]

OnOneMemory == {Upsert("s1", <<"a">>), Update(Keep, "z"), Delete}
OnMemories ==
  OnOneMemory
  \cup {Upsert("s1", <<"c">>), Upsert("s2", <<"a">>), Upsert("s1", Keep), Update(<<".">>, Keep), Update(Keep, "huge")}
  \cup {Update(Keep, Keep), Update(<<"c">>, Keep), Update(<<"c">>, "z")}
  \cup {[op |-> "redact", n |-> n, store |-> s] : n \in {1, 2}, s \in {"s1", "s2"}}
  \cup {[op |-> "deleteStore", store |-> "s1"], [op |-> "archiveStore", store |-> "s1"]}
  \cup {[op |-> "renameStore", store |-> "s1", name |-> name] : name \in {Name2, Keep}}
  \cup {[op |-> "createStore", store |-> "s2", name |-> name] : name \in {Name1, Name2, Keep}}

MemoryScenarios ==
  {[i \in Requests |-> CASE i = "r1" -> a [] i = "r2" -> b [] OTHER -> None] : a, b \in OnMemories}
  \cup [Requests -> OnOneMemory]

MemoriesOnly(asks) ==
  /\ AgentInit(NoAsks(Calls), [a \in {} |-> First], {}) /\ dialect = "sqlite"
  /\ MemoryInit(asks, [s \in Stores |-> IF s = "s1" THEN Name1 ELSE Keep],
                [store |-> "s1", path |-> <<"a">>, content |-> "x"])
  /\ MountInit(<< >>, << >>, 0)

(***************************************************************************)
(* Agents.                                                                 *)
(***************************************************************************)
EnvironmentOps == {"createEnvironment", "updateEnvironment", "archiveEnvironment", "deleteEnvironment"}
OnAgents ==
  {[op |-> "updateAgent", agent |-> "a1", version |-> n, config |-> cf] : n \in {1, 2}, cf \in {Second, Third}}
  \cup {[op |-> "updateAgent", agent |-> "a1", version |-> 1, config |-> NoName]}
  \cup {[op |-> op, agent |-> "a1"] : op \in {"archiveAgent", "deleteAgent"}}
  \cup {[op |-> "createSession", agent |-> "a1", environment |-> e, resources |-> << >>] : e \in {"", "env1"}}
OnOthers ==
  {[op |-> "createAgent", agent |-> "a2", config |-> cf] : cf \in {Third, NoName}}
  \cup {[op |-> op, environment |-> IF op = "createEnvironment" THEN "env2" ELSE "env1", named |-> TRUE, type |-> type] :
           op \in EnvironmentOps, type \in {"cloud", "self_hosted"}}
  \cup {[op |-> "deleteEnvironment", environment |-> "default"]}
  \cup {[op |-> op, session |-> "c1"] : op \in {"updateSession", "archiveSession", "deleteSession"}}

AgentScenarios ==
  {[c \in Calls |-> CASE c = "c1" -> x [] c = "c2" -> y [] OTHER -> z] : x, y \in OnAgents, z \in OnAgents \cup OnOthers}

AgentsOnly(asks) ==
  /\ AgentInit(asks, [a \in {"a1"} |-> Encoded(First)], {"env1"})
  /\ MemoryInit(NoAsks(Requests), [s \in Stores |-> IF s = "s1" THEN Name1 ELSE Keep],
                [store |-> "s1", path |-> <<"a">>, content |-> "x"])
  /\ MountInit(<< >>, << >>, 0)

(***************************************************************************)
(* Mounts.                                                                 *)
(***************************************************************************)
Store(s) == [type |-> "memory_store", store |-> s]
File(path) == [type |-> "file", file |-> "f1", path |-> path]
Resources ==
  [stores |-> <<Store("s1"), Store("s2"), File(<<"workspace", "x">>)>>, store |-> <<Store("s1")>>,
   inside |-> <<File(<<"mnt", "memory", Name2, "a">>), Store("s1")>>, outside |-> <<File(<<"etc">>), Store("s1")>>,
   other |-> <<[type |-> "github_repository"]>>, wrong |-> <<[type |-> "gist"]>>, none |-> << >>]
OnResource(op) == [op |-> op, session |-> "c1", id |-> <<"c1", 1>>]
AddSome(res) == [op |-> "addResource", session |-> "c1", res |-> res]
SkillFile(path) == <<path, "w">>
NewSkill(list) == [op |-> "createSkill", skill |-> "skl2", name |-> Name2, files |-> list]

\* The configuration of the agent, the resources of the session, a request about
\* sessions, files or skills, and two about memories.
MountScenarios ==
  {<<First, "stores", None, Upsert("s2", <<"a">>), None>>,
   <<First, "stores", OnResource("deleteResource"), Upsert("s1", <<"c">>), None>>,
   <<First, "store", [op |-> "updateResource", res |-> Store("s2")] @@ OnResource(""), Upsert("s1", <<"a", "b">>), None>>,
   <<First, "store", None, Update(<<"c">>, "z"), None>>,
   <<First, "store", None, Upsert("s1", <<"c">>), Upsert("s1", <<"b", "..", "a">>)>>,
   <<First, "store", None, Upsert("s1", Outside), None>>,
   <<First, "stores", None, Upsert("s1", Across), None>>,
   <<First, "store", None, Delete, Upsert("s1", <<"a">>)>>,
   <<First, "store", None, [op |-> "deleteStore", store |-> "s1"], None>>,
   <<First, "store", None, [op |-> "renameStore", store |-> "s2", name |-> Name1], None>>,
   <<First, "store", AddSome([type |-> "gist"]), None, None>>,
   <<First, "outside", None, None, None>>,
   <<First, "wrong", None, None, None>>,
   <<First, "inside", [op |-> "deleteFile", file |-> "f1"], None, None>>,
   <<First, "none", [op |-> "createFile", file |-> "f2", blob |-> "more"], None, None>>,
   <<Second, "stores", [op |-> "deleteSession", session |-> "c1"], None, None>>,
   <<Second, "other", [op |-> "deleteSkill", skill |-> "skl1"], None, None>>,
   <<Third, "none", NewSkill(<<SkillFile(<<"..", "z">>)>>), None, None>>,
   <<Third, "none", NewSkill(<<SkillFile(<<"SKILL.md">>)>>), None, None>>,
   <<Third, "store", NewSkill(<<SkillFile(<<"new">>), SkillFile(<<"lib">>)>>), None, None>>}

Mounts(x) ==
  /\ AgentInit([c \in Calls |->
                  CASE c = "c1" -> [op |-> "createSession", agent |-> "a1", environment |-> "env1",
                                    resources |-> Resources[x[2]]]
                    [] c = "c2" -> x[3] [] OTHER -> None],
               [a \in {"a1"} |-> Encoded(x[1])], {"env1"})
  /\ dialect = "sqlite"
  /\ MemoryInit([r \in Requests |-> CASE r = "r1" -> x[4] [] r = "r2" -> x[5] [] OTHER -> None],
                [s \in Stores |-> IF s = "s1" THEN Name1 ELSE Name2],
                [store |-> "s1", path |-> <<"a">>, content |-> "x"])
  /\ MountInit([f \in {"f1"} |-> "blob"],
               [k \in {"skl1"} |-> [name |-> Name1, files |-> <<<<<<"SKILL.md">>, "x">>, <<<<"lib", "z">>, "y">>>>]],
               MaxTurns)

(***************************************************************************)
(* Conversations: an agent with one kind of tools.                         *)
(***************************************************************************)
Conversation(kind) ==
  /\ AgentInit(NoAsks(Calls), [a \in {} |-> First], {}) /\ dialect = "sqlite"
  /\ MemoryInit(NoAsks(Requests), [s \in Stores |-> IF s = "s1" THEN Name1 ELSE Keep],
                [store |-> "s1", path |-> <<"a">>, content |-> "x"])
  /\ MountInit(<< >>, << >>, 0)
  /\ ContextInit({kind})

MCInit ==
  \/ /\ \/ \E asks \in MemoryScenarios : MemoriesOnly(asks)
        \/ \E asks \in AgentScenarios : AgentsOnly(asks)
        \/ \E x \in MountScenarios : Mounts(x)
     /\ ContextInit({})
  \/ \E kind \in Uses : Conversation(kind)

\* The agent of a conversation has tools.
MCNext ==
  \/ kinds = {} /\ MountStep /\ UNCHANGED contextVars
  \/ kinds # {} /\ ContextStep /\ UNCHANGED <<agentVars, memoryVars, mountVars>>

\* One conversation alone, with one kind of tools.
ConversationNext == ContextStep /\ UNCHANGED <<agentVars, memoryVars, mountVars>>
ServerToolsInit == Conversation("server")
ServerToolsSpec == ServerToolsInit /\ [][ConversationNext]_<<agentVars, memoryVars, mountVars, contextVars>>

MCSpec == MCInit /\ [][MCNext]_<<agentVars, memoryVars, mountVars, contextVars>>
=============================================================================
