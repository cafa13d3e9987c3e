SPECIFICATION MCSpec
CONSTANTS
  Agents = {"a1", "a2"}
  Environments = {"default", "env1", "env2"}
  Configs <- MCConfigs
  Calls = {"c1", "c2", "c3"}
  NoGuardrails = "none"
  Reserved <- MCReserved
  ResourceTypes = {"memory_store", "file", "github_repository"}
  Stores = {"s1", "s2"}
  Names <- MCNames
  Paths <- MCPaths
  Contents = {"x", "y", "z"}
  Requests = {"r1", "r2", "r3"}
  Keep = Keep
  FirstMemory = "m0"
  MaxGone = 1
  Files = {"f1", "f2"}
  Skills = {"skl1", "skl2"}
  PlainChars = {"n"}
  VirtualRoots <- MCRoots
  AgentFiles <- MCAgentFiles
  MountLimit = 2
  MaxTurns = 2
  Threads = {"t1", "t2"}
  KeepRecent = 1
  MaxEvents = 7
  MaxPosts = 3
INVARIANTS WorkspaceTypeOK HistoryTellsRows RefusedWithoutTrace UpdatesSerialise SnapshotIsAVersion MountMatchesPrompt ContextComplete
CHECK_DEADLOCK FALSE
