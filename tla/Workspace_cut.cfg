\* A conversation with server tools, checked against "cuts at the boundary of a turn".
SPECIFICATION ServerToolsSpec
CONSTANTS
  Agents = {"a1", "a2"}
  Environments = {"default", "env1", "env2"}
  Configs <- MCConfigs
  Calls = {"c1", "c2", "c3"}
  NoGuardrails = "none"
  Reserved <- MCReserved
  ResourceTypes = {"memory_store", "file", "github_repository"}
  Stores = {"s1", "s2"}
  Names <- MCNames
  Paths <- MCPaths
  Contents = {"x", "y", "z"}
  Requests = {"r1", "r2", "r3"}
  Keep = Keep
  FirstMemory = "m0"
  MaxGone = 1
  Files = {"f1", "f2"}
  Skills = {"skl1", "skl2"}
  PlainChars = {"n"}
  VirtualRoots <- MCRoots
  AgentFiles <- MCAgentFiles
  MountLimit = 2
  MaxTurns = 2
  Threads = {"t1", "t2"}
  KeepRecent = 1
  MaxEvents = 7
  MaxPosts = 3
INVARIANT CutsBetweenTurns
CHECK_DEADLOCK FALSE
