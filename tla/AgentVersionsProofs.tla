------------------------ MODULE AgentVersionsProofs ------------------------
(***************************************************************************)
(* Proofs about AgentVersions, for any agents, configurations and          *)
(* requests, under both dialects: what an agent is stored as comes back as *)
(* it was sent, updates serialise, and a session is made of one version.   *)
(***************************************************************************)
EXTENDS AgentVersions, FiniteSetTheorems, TLAPS

Rows == {Encoded(cf) : cf \in Configs}
Snapshots == {Promised(cf) : cf \in Configs}
CallSteps == {"new", "insert", "update", "reply", "environment", "resources", "destroy"} \cup CallEnded

CallsTyped ==
  \E asks, reads : call \in [Calls -> [ask : asks, pc : CallSteps, read : reads, committed : BOOLEAN]]
TablesTyped ==
  /\ agents \in [Agents -> [there : {"never", "live", "deleted"}, name : {cf.name : cf \in Configs} \cup {""},
                            current : Nat, archived : BOOLEAN]]
  /\ versions \in [Agents -> Seq(Rows)]
  /\ environments \in [Environments -> [there : BOOLEAN, archived : BOOLEAN]]
  /\ ~environments["default"].archived
  /\ fresh \subseteq Calls
SessionsTyped ==
  \E attached :
    /\ \A r \in attached : r.res.type \in ResourceTypes
    /\ \A s \in DOMAIN sessions :
         /\ s \in Calls
         /\ sessions[s] \in [there : BOOLEAN, archived : BOOLEAN, agent : Agents, version : Nat \ {0}, snapshot : Snapshots,
                             resources : Seq(attached), environment : Environments \cup {""}]

\* A snapshot is of a version of the agent, as long as the agent is there.
IsOf(snapshot, n, a) ==
  /\ a \in Agents /\ n \in Nat \ {0} /\ snapshot \in Snapshots /\ agents[a].there # "never"
  /\ AgentThere(a) => /\ n <= Len(versions[a])
                      /\ \E cf \in Configs : Encoded(cf) = versions[a][n] /\ Promised(cf) = snapshot

\* The rows of an agent: one for its creation, one for each committed update.
RowsInv(a) ==
  /\ agents[a].there = "never" => UpdatesOf(a) = {}
  /\ AgentThere(a) =>
       /\ agents[a].current = Len(versions[a]) /\ Len(versions[a]) # 0
       /\ agents[a].name = versions[a][agents[a].current].name
       /\ {call[c].ask.version : c \in UpdatesOf(a)} = 1 .. agents[a].current - 1
       /\ Cardinality(UpdatesOf(a)) = agents[a].current - 1
       /\ \A c \in UpdatesOf(a) : versions[a][call[c].ask.version + 1] = Encoded(call[c].ask.config)

\* What has become of a call.  The update that is about to commit is on top of the
\* newest version; a session in the making has read one version.
CallInv(c) ==
  LET ask == call[c].ask
      pc == call[c].pc
  IN
  /\ WellFormed(ask)
  /\ call[c].committed => /\ ask.op \in {"createAgent", "updateAgent"} /\ pc \in {"reply", "done", "refused", "gone"}
                          /\ Complete(ask.config)
  /\ pc = "reply" => ask.op \in {"createAgent", "updateAgent", "archiveAgent"}
  /\ ask.op = "updateAgent" =>
       /\ pc \in {"insert", "update"} => Complete(ask.config) /\ ask.version \in Nat \ {0} /\ agents[ask.agent].there # "never"
       /\ pc \in {"reply", "done"} => call[c].committed
       /\ call[c].committed => agents[ask.agent].there # "never"
  /\ pc = "update" => ask.op = "updateAgent" /\ AgentThere(ask.agent) /\ Len(versions[ask.agent]) = ask.version
  /\ pc \in {"environment", "resources"} => ask.op = "createSession"
  /\ ask.op = "createSession" /\ pc \in {"environment", "insert"} => IsOf(call[c].read[2], call[c].read[1], ask.agent)
  /\ pc = "resources" => c \in DOMAIN sessions

\* One transaction at a time writes an agent.
OneWriter == \A a \in Agents : \A c, d \in Writing(a) : c = d

AgentInv ==
  /\ CallsTyped /\ TablesTyped /\ SessionsTyped /\ OneWriter
  /\ \A a \in Agents : RowsInv(a)
  /\ \A c \in Calls : CallInv(c)
  /\ \A s \in DOMAIN sessions : IsOf(sessions[s].snapshot, sessions[s].version, sessions[s].agent)

(***************************************************************************)
(* Configurations.                                                         *)
(***************************************************************************)
\* What is stored of a configuration gives back, to a client and to a session,
\* what was sent: the guardrails have gone through the metadata and left it again.
LEMMA SnapshotOfRow ==
  ASSUME NEW cf \in Configs
  PROVE  Snapshot(cf.name, Encoded(cf)) = Promised(cf) /\ Encoded(cf).name = cf.name
<1> DEFINE row == Encoded(cf)
           stored == IF cf.guardrails = NoGuardrails THEN {} ELSE {<<Reserved, cf.guardrails>>}
           reserved == {p \in row.metadata : p[1] = Reserved}
<1>1. row.name = cf.name /\ row.skills = cf.skills /\ row.metadata = UserMetadata(cf.metadata) \cup stored
  BY DEF Encoded
<1>2. reserved = stored /\ row.metadata \ reserved = UserMetadata(cf.metadata)
  BY <1>1 DEF UserMetadata
<1>3. (IF reserved = {} THEN NoGuardrails ELSE (CHOOSE p \in reserved : TRUE)[2]) = cf.guardrails
  <2>1. CASE cf.guardrails = NoGuardrails
    BY <1>2, <2>1
  <2>2. CASE cf.guardrails # NoGuardrails
    <3>1. reserved = {<<Reserved, cf.guardrails>>}
      BY <1>2, <2>2
    <3>2. (CHOOSE p \in reserved : TRUE) = <<Reserved, cf.guardrails>>
      BY <3>1
    <3> QED BY <3>1, <3>2
  <2> QED BY <2>1, <2>2
<1>4. Promised(cf) = [name |-> cf.name, skills |-> cf.skills, guardrails |-> cf.guardrails,
                      metadata |-> UserMetadata(cf.metadata)]
  BY AgentAssumption DEF Promised
<1> QED BY <1>1, <1>2, <1>3, <1>4 DEF Snapshot

LEMMA AnswerOfRow ==
  ASSUME NEW cf \in Configs
  PROVE  ToAPI(cf.name, Encoded(cf)) = Promised(cf)
<1> DEFINE row == Encoded(cf)
           stored == IF cf.guardrails = NoGuardrails THEN {} ELSE {<<Reserved, cf.guardrails>>}
<1>1. row.name = cf.name /\ row.skills = cf.skills /\ row.metadata = UserMetadata(cf.metadata) \cup stored
  BY DEF Encoded
<1>2. UserMetadata(row.metadata) = UserMetadata(cf.metadata)
  BY <1>1 DEF UserMetadata
<1>3. (IF \E p \in row.metadata : p[1] = Reserved
       THEN (CHOOSE p \in row.metadata : p[1] = Reserved)[2] ELSE NoGuardrails) = cf.guardrails
  <2>1. CASE cf.guardrails = NoGuardrails
    BY <1>1, <2>1 DEF UserMetadata
  <2>2. CASE cf.guardrails # NoGuardrails
    <3>1. \A p \in row.metadata : p[1] = Reserved => p = <<Reserved, cf.guardrails>>
      BY <1>1, <2>2 DEF UserMetadata
    <3>2. <<Reserved, cf.guardrails>> \in row.metadata
      BY <1>1, <2>2
    <3>3. (CHOOSE p \in row.metadata : p[1] = Reserved) = <<Reserved, cf.guardrails>>
      BY <3>1, <3>2
    <3>4. <<Reserved, cf.guardrails>>[1] = Reserved /\ <<Reserved, cf.guardrails>>[2] = cf.guardrails
      OBVIOUS
    <3>5. \E p \in row.metadata : p[1] = Reserved
      BY <3>2, <3>4
    <3> HIDE DEF row
    <3> QED BY <3>3, <3>4, <3>5
  <2> QED BY <2>1, <2>2
<1>4. Promised(cf) = [name |-> cf.name, skills |-> cf.skills, guardrails |-> cf.guardrails,
                      metadata |-> UserMetadata(cf.metadata)]
  BY AgentAssumption DEF Promised
<1> QED BY <1>1, <1>2, <1>3, <1>4 DEF ToAPI

(***************************************************************************)
(* What a step of one call does to the others.                             *)
(***************************************************************************)
\* An agent that was created stays so, and what is deleted does not come back; a
\* live one only gains versions.
VersionsGrow ==
  \A a \in Agents :
    agents[a].there # "never" =>
      /\ agents'[a].there # "never"
      /\ agents'[a].there = "live" => /\ agents[a].there = "live" /\ Len(versions[a]) <= Len(versions'[a])
                                      /\ \A n \in 1 .. Len(versions[a]) : versions'[a][n] = versions[a][n]

LEMMA StaysOf ==
  ASSUME TablesTyped, TablesTyped', VersionsGrow, NEW a, NEW n, NEW snapshot, IsOf(snapshot, n, a)
  PROVE  IsOf(snapshot, n, a)'
<1>1. a \in Agents /\ n \in Nat \ {0} /\ Len(versions[a]) \in Nat /\ Len(versions'[a]) \in Nat
  <2>1. a \in Agents /\ n \in Nat \ {0}
    BY DEF IsOf
  <2>2. versions[a] \in Seq(Rows) /\ versions'[a] \in Seq(Rows)
    BY <2>1 DEF TablesTyped
  <2> QED BY <2>1, <2>2
<1> QED BY <1>1 DEF IsOf, VersionsGrow, AgentThere

\* The other calls: who holds the transaction on an agent keeps it as it is.
LEMMA OtherCall ==
  ASSUME AgentInv, TablesTyped', VersionsGrow, NEW d \in Calls, call'[d] = call[d], DOMAIN sessions \subseteq DOMAIN sessions',
         \A a \in Agents : d \in Writing(a) => agents'[a].there = agents[a].there /\ versions'[a] = versions[a]
  PROVE  CallInv(d)'
<1>1. CallInv(d) /\ TablesTyped
  BY DEF AgentInv
<1>2. call[d].ask.op = "createSession" /\ call[d].pc \in {"environment", "insert"} =>
        IsOf(call[d].read[2], call[d].read[1], call[d].ask.agent)'
  BY <1>1, StaysOf DEF CallInv
<1>3. call[d].ask.op \in {"updateAgent", "createAgent"} => call[d].ask.agent \in Agents
  BY <1>1 DEF CallInv, WellFormed
<1>4. call[d].pc = "update" => d \in Writing(call[d].ask.agent)
  BY DEF Writing
<1>5. WellFormed(call[d].ask)'
  BY <1>1 DEF CallInv
<1> QED BY <1>1, <1>2, <1>3, <1>4, <1>5 DEF CallInv, VersionsGrow, AgentThere

\* The tables by themselves.
AgentRows == [there : {"never", "live", "deleted"}, name : {cf.name : cf \in Configs} \cup {""},
              current : Nat, archived : BOOLEAN]

LEMMA Tables ==
  ASSUME AgentInv
  PROVE  /\ agents \in [Agents -> AgentRows] /\ versions \in [Agents -> Seq(Rows)]
         /\ \A a \in Agents : versions[a] \in Seq(Rows) /\ Len(versions[a]) \in Nat
<1>1. agents \in [Agents -> AgentRows] /\ versions \in [Agents -> Seq(Rows)]
  BY DEF AgentInv, TablesTyped, AgentRows
<1>2. ASSUME NEW a \in Agents PROVE versions[a] \in Seq(Rows) /\ Len(versions[a]) \in Nat
  <2>1. versions[a] \in Seq(Rows)
    BY <1>1
  <2> QED BY <2>1
<1> QED BY <1>1, <1>2

\* A step of c that leaves the agents alone, and what c asks of one.
SameAgents ==
  /\ versions' = versions
  /\ \A a \in Agents : /\ agents'[a].there = agents[a].there /\ agents'[a].name = agents[a].name
                       /\ agents'[a].current = agents[a].current
Passes(c) ==
  /\ SameAgents
  /\ CallsTyped' /\ \A d \in Calls \ {c} : call'[d] = call[d]
  /\ call'[c].ask = call[c].ask \/ (call[c].ask.op = "createSession" /\ call'[c].ask.op = "createSession")
  /\ call'[c].committed = call[c].committed
  /\ DOMAIN sessions \subseteq DOMAIN sessions'
  /\ \A a \in Agents : c \in Writing(a)' => Writing(a) \subseteq {c}

LEMMA PassesAgentInv ==
  ASSUME AgentInv, NEW c \in Calls, Passes(c), TablesTyped', SessionsTyped', CallInv(c)',
         \A s \in DOMAIN sessions' : IsOf(sessions[s].snapshot, sessions[s].version, sessions[s].agent)'
  PROVE  AgentInv'
<1>1. TablesTyped /\ VersionsGrow
  <2>1. ASSUME NEW a \in Agents PROVE Len(versions[a]) \in Nat
    <3>1. versions[a] \in Seq(Rows)
      BY DEF AgentInv, TablesTyped
    <3> QED BY <3>1
  <2> QED BY <2>1 DEF AgentInv, Passes, SameAgents, VersionsGrow
<1>2. ASSUME NEW d \in Calls PROVE CallInv(d)'
  BY <1>1, <1>2, OtherCall DEF Passes, SameAgents
<1>3. ASSUME NEW a \in Agents PROVE UpdatesOf(a)' = UpdatesOf(a)
  BY DEF Passes, UpdatesOf, Asks
<1>4. ASSUME NEW a \in Agents PROVE RowsInv(a)'
  <2>1. RowsInv(a)
    BY DEF AgentInv
  <2>2. \A d \in UpdatesOf(a) : call'[d].ask = call[d].ask
    BY DEF Passes, UpdatesOf, Asks
  <2>3. {call'[d].ask.version : d \in UpdatesOf(a)} = {call[d].ask.version : d \in UpdatesOf(a)}
    BY <2>2
  <2>4. /\ versions' = versions /\ (AgentThere(a)' <=> AgentThere(a)) /\ agents'[a].there = agents[a].there
        /\ agents'[a].name = agents[a].name /\ agents'[a].current = agents[a].current
    BY DEF Passes, SameAgents, AgentThere
  <2> QED BY <1>3, <2>1, <2>2, <2>3, <2>4 DEF RowsInv
<1>5. OneWriter'
  <2>1. \A a \in Agents : Writing(a)' \subseteq Writing(a) \cup {c}
    BY DEF Passes, SameAgents, Writing
  <2> QED BY <2>1 DEF AgentInv, OneWriter, Passes
<1> QED BY <1>2, <1>4, <1>5 DEF AgentInv, Passes

\* A step of c that leaves everything alone but c.
LEMMA Moves ==
  ASSUME AgentInv, NEW c \in Calls, UNCHANGED <<agents, versions, environments, sessions>>, fresh' \subseteq Calls,
         NEW row, call' = [call EXCEPT ![c] = row],
         row.ask = call[c].ask, row.committed = call[c].committed,
         row \in [ask : {row.ask}, pc : CallSteps, read : {row.read}, committed : BOOLEAN],
         row.pc = "update" => \A a \in Agents : call[c].ask.agent = a => Writing(a) = {},
         CallInv(c)'
  PROVE  AgentInv'
<1>1. PICK asks, reads : call \in [Calls -> [ask : asks, pc : CallSteps, read : reads, committed : BOOLEAN]]
  BY DEF AgentInv, CallsTyped
<1>2. CallsTyped'
  <2> DEFINE read == reads \cup {row.read}
  <2>1. \A d \in Calls : call[d] \in [ask : asks, pc : CallSteps, read : read, committed : BOOLEAN]
    BY <1>1
  <2>2. row \in [ask : asks, pc : CallSteps, read : read, committed : BOOLEAN]
    BY <1>1
  <2>3. call' \in [Calls -> [ask : asks, pc : CallSteps, read : read, committed : BOOLEAN]]
    BY <1>1, <2>1, <2>2
  <2> HIDE DEF read
  <2> QED BY <2>3 DEF CallsTyped
<1>3. call'[c] = row /\ \A d \in Calls \ {c} : call'[d] = call[d]
  BY <1>1
<1>4. Passes(c)
  BY <1>2, <1>3 DEF Passes, SameAgents, Writing
<1>5. TablesTyped' /\ SessionsTyped'
  BY DEF AgentInv, TablesTyped, SessionsTyped
<1>6. \A s \in DOMAIN sessions' : IsOf(sessions[s].snapshot, sessions[s].version, sessions[s].agent)'
  BY DEF AgentInv, IsOf, AgentThere
<1> QED BY <1>4, <1>5, <1>6, PassesAgentInv

\* The call ends, or goes to a step where nothing is claimed of it.
LEMMA EndsAgentInv ==
  ASSUME AgentInv, NEW c \in Calls, UNCHANGED <<agents, versions, environments, sessions>>, fresh' \subseteq Calls,
         NEW pc \in {"refused", "conflict", "gone", "done", "destroy"}, Ends(c, pc),
         call[c].committed => pc \in {"refused", "gone", "done"},
         pc = "done" /\ call[c].ask.op = "updateAgent" => call[c].committed
  PROVE  AgentInv'
<1> DEFINE row == [call[c] EXCEPT !.pc = pc]
<1>1. PICK asks, reads : call \in [Calls -> [ask : asks, pc : CallSteps, read : reads, committed : BOOLEAN]]
  BY DEF AgentInv, CallsTyped
<1>2. call' = [call EXCEPT ![c] = row]
  BY DEF Ends
<1>3. /\ row.ask = call[c].ask /\ row.pc = pc /\ row.committed = call[c].committed /\ row.read = call[c].read
      /\ row \in [ask : {row.ask}, pc : CallSteps, read : {row.read}, committed : BOOLEAN]
  BY <1>1 DEF CallSteps, CallEnded
<1>4. call'[c] = row
  BY <1>1, <1>2
<1> HIDE DEF row
<1>5. CallInv(c)'
  <2>1. CallInv(c)
    BY DEF AgentInv
  <2> QED BY <1>3, <1>4, <2>1 DEF CallInv
<1> QED BY <1>2, <1>3, <1>5, Moves

(***************************************************************************)
(* One lemma per action.                                                   *)
(***************************************************************************)
LEMMA SelectVersionAgentInv == ASSUME AgentInv, NEW c \in Calls, SelectVersion(c) PROVE AgentInv'
<1> DEFINE a == call[c].ask.agent
           valid == Complete(call[c].ask.config) /\ AgentThere(a) /\ ~agents[a].archived
<1>1. /\ UNCHANGED <<agents, versions, environments, sessions>> /\ fresh' \subseteq Calls
      /\ call[c].ask.op = "updateAgent" /\ call[c].pc = "new"
  BY DEF SelectVersion, AtStep, Asks, AgentInv, TablesTyped
<1>2. CallInv(c) /\ ~call[c].committed
  BY <1>1 DEF AgentInv, CallInv
<1>3. CASE ~valid
  BY <1>1, <1>2, <1>3, EndsAgentInv DEF SelectVersion
<1>4. CASE valid /\ call[c].ask.version # agents[a].current
  BY <1>1, <1>2, <1>4, EndsAgentInv DEF SelectVersion
<1>5. CASE valid /\ call[c].ask.version = agents[a].current
  <2> DEFINE row == [call[c] EXCEPT !.pc = "insert"]
  <2>1. PICK asks, reads : call \in [Calls -> [ask : asks, pc : CallSteps, read : reads, committed : BOOLEAN]]
    BY DEF AgentInv, CallsTyped
  <2>2. call' = [call EXCEPT ![c] = row] /\ call'[c] = row
    BY <1>5, <2>1 DEF SelectVersion, Ends
  <2>3. /\ row.ask = call[c].ask /\ row.pc = "insert" /\ row.committed = call[c].committed /\ row.read = call[c].read
        /\ row \in [ask : {row.ask}, pc : CallSteps, read : {row.read}, committed : BOOLEAN]
    BY <2>1 DEF CallSteps
  <2> HIDE DEF row
  <2>4. a \in Agents /\ call[c].ask.version \in Nat \ {0}
    <3>1. a \in Agents
      BY <1>1, <1>2 DEF CallInv, WellFormed
    <3>2. versions[a] \in Seq(Rows) /\ agents[a].current = Len(versions[a]) /\ Len(versions[a]) # 0
      BY <1>5, <3>1 DEF AgentInv, RowsInv, TablesTyped
    <3> QED BY <1>5, <3>1, <3>2
  <2>5. CallInv(c)'
    BY <1>1, <1>2, <1>5, <2>2, <2>3, <2>4 DEF CallInv, AgentThere
  <2> QED BY <1>1, <2>2, <2>3, <2>5, Moves
<1> QED BY <1>3, <1>4, <1>5

LEMMA InsertVersionAgentInv == ASSUME AgentInv, NEW c \in Calls, InsertVersion(c) PROVE AgentInv'
<1> DEFINE a == call[c].ask.agent
           ok == AgentThere(a) /\ Len(versions[a]) = call[c].ask.version /\ (dialect = "sqlite" => c \in fresh)
<1>1. /\ UNCHANGED <<agents, versions, environments, sessions>> /\ fresh' \subseteq Calls
      /\ call[c].ask.op = "updateAgent" /\ call[c].pc = "insert" /\ ~Locked(a)
  BY DEF InsertVersion, AtStep, Asks, AgentInv, TablesTyped
<1>2. CallInv(c) /\ ~call[c].committed /\ a \in Agents
  BY <1>1 DEF AgentInv, CallInv, WellFormed
<1>3. CASE ~ok
  BY <1>1, <1>2, <1>3, EndsAgentInv DEF InsertVersion
<1>4. CASE ok
  <2> DEFINE row == [call[c] EXCEPT !.pc = "update"]
  <2>1. PICK asks, reads : call \in [Calls -> [ask : asks, pc : CallSteps, read : reads, committed : BOOLEAN]]
    BY DEF AgentInv, CallsTyped
  <2>2. call' = [call EXCEPT ![c] = row] /\ call'[c] = row
    BY <1>4, <2>1 DEF InsertVersion, Ends
  <2>3. /\ row.ask = call[c].ask /\ row.pc = "update" /\ row.committed = call[c].committed /\ row.read = call[c].read
        /\ row \in [ask : {row.ask}, pc : CallSteps, read : {row.read}, committed : BOOLEAN]
    BY <2>1 DEF CallSteps
  <2> HIDE DEF row
  <2>4. Writing(a) = {}
    BY <1>1, <1>2 DEF Locked
  <2>5. CallInv(c)'
    BY <1>1, <1>2, <1>4, <2>2, <2>3 DEF CallInv, AgentThere
  <2> QED BY <1>1, <2>2, <2>3, <2>4, <2>5, Moves
<1> QED BY <1>3, <1>4

LEMMA AnswerAgentAgentInv == ASSUME AgentInv, NEW c \in Calls, AnswerAgent(c) PROVE AgentInv'
<1> DEFINE a == call[c].ask.agent
           answer == <<ToAPI(Current(a).name, Current(a).row)>>
<1>1. /\ UNCHANGED <<agents, versions, environments, sessions>> /\ fresh' \subseteq Calls /\ call[c].pc = "reply"
  BY DEF AnswerAgent, AgentInv, TablesTyped
<1>2. CallInv(c)
  BY DEF AgentInv
<1>3. CASE ~AgentThere(a)
  BY <1>1, <1>2, <1>3, EndsAgentInv DEF AnswerAgent, Ends
<1>4. CASE AgentThere(a)
  <2> DEFINE row == [call[c] EXCEPT !.pc = "done", !.read = answer]
  <2>1. PICK asks, reads : call \in [Calls -> [ask : asks, pc : CallSteps, read : reads, committed : BOOLEAN]]
    BY DEF AgentInv, CallsTyped
  <2> HIDE DEF answer
  <2>2. call' = [call EXCEPT ![c] = row] /\ call'[c] = row
    BY <1>4, <2>1 DEF AnswerAgent, answer
  <2>3. /\ row.ask = call[c].ask /\ row.pc = "done" /\ row.committed = call[c].committed
    BY <2>1
  <2>5. row \in [ask : {row.ask}, pc : CallSteps, read : {row.read}, committed : BOOLEAN]
    <3>1. row \in [ask : asks, pc : CallSteps, read : reads \cup {answer}, committed : BOOLEAN]
      BY <2>1 DEF CallSteps, CallEnded
    <3> HIDE DEF row
    <3> QED BY <3>1
  <2> HIDE DEF row
  <2>4. CallInv(c)'
    BY <1>1, <1>2, <2>2, <2>3 DEF CallInv
  <2> QED BY <1>1, <2>2, <2>3, <2>4, <2>5, Moves
<1> QED BY <1>3, <1>4

LEMMA TakeSnapshotAgentInv == ASSUME AgentInv, NEW c \in Calls, TakeSnapshot(c) PROVE AgentInv'
<1> DEFINE a == call[c].ask.agent
           pair == <<Current(a).version, Snapshot(Current(a).name, Current(a).row)>>
<1>1. /\ UNCHANGED <<agents, versions, environments, sessions>> /\ fresh' \subseteq Calls
      /\ call[c].ask.op = "createSession" /\ call[c].pc = "new"
  BY DEF TakeSnapshot, AtStep, Asks, AgentInv, TablesTyped
<1>2. CallInv(c) /\ ~call[c].committed /\ a \in Agents
  BY <1>1 DEF AgentInv, CallInv, WellFormed
<1>3. CASE ~AgentThere(a)
  BY <1>1, <1>2, <1>3, EndsAgentInv DEF TakeSnapshot, Ends
<1>4. CASE AgentThere(a)
  <2> DEFINE row == [call[c] EXCEPT !.pc = "environment", !.read = pair]
  <2>1. PICK asks, reads : call \in [Calls -> [ask : asks, pc : CallSteps, read : reads, committed : BOOLEAN]]
    BY DEF AgentInv, CallsTyped
  <2>2. call' = [call EXCEPT ![c] = row] /\ call'[c] = row
    <3> HIDE DEF pair
    <3> QED BY <1>4, <2>1 DEF TakeSnapshot, pair
  <2>3. /\ row.ask = call[c].ask /\ row.pc = "environment" /\ row.committed = call[c].committed /\ row.read = pair
    <3> HIDE DEF pair
    <3> QED BY <2>1
  <2>6. row \in [ask : {row.ask}, pc : CallSteps, read : {row.read}, committed : BOOLEAN]
    <3> HIDE DEF pair
    <3>1. row \in [ask : asks, pc : CallSteps, read : reads \cup {pair}, committed : BOOLEAN]
      BY <2>1 DEF CallSteps
    <3> HIDE DEF row
    <3> QED BY <3>1
  <2>4. IsOf(pair[2], pair[1], a)
    <3> DEFINE n == agents[a].current
    <3>1. versions[a] \in Seq(Rows) /\ n = Len(versions[a]) /\ n # 0 /\ agents[a].name = versions[a][n].name
      BY <1>2, <1>4 DEF AgentInv, RowsInv, TablesTyped
    <3>2. n \in Nat \ {0} /\ versions[a][n] \in Rows
      BY <3>1
    <3>3. PICK cf \in Configs : versions[a][n] = Encoded(cf)
      BY <3>2 DEF Rows
    <3>4. agents[a].name = cf.name
      BY <3>1, <3>3, SnapshotOfRow
    <3>5. pair[1] = n /\ pair[2] = Promised(cf)
      BY <3>3, <3>4, SnapshotOfRow DEF Current
    <3> HIDE DEF pair
    <3> QED BY <1>2, <1>4, <3>1, <3>2, <3>3, <3>5 DEF IsOf, Snapshots, AgentThere
  <2> HIDE DEF row, pair
  <2>7. IsOf(call[c].read[2], call[c].read[1], call[c].ask.agent)'
    BY <1>1, <2>2, <2>3, <2>4 DEF IsOf, AgentThere
  <2>5. CallInv(c)'
    BY <1>1, <1>2, <2>2, <2>3, <2>7 DEF CallInv
  <2> QED BY <1>1, <2>2, <2>3, <2>5, <2>6, Moves
<1> QED BY <1>3, <1>4

\* The environments change, and the call goes on or ends.
LEMMA ChangesEnvironments ==
  ASSUME AgentInv, NEW c \in Calls, UNCHANGED <<agents, versions, sessions>>, fresh' \subseteq Calls,
         environments' \in [Environments -> [there : BOOLEAN, archived : BOOLEAN]], ~environments'["default"].archived,
         NEW pc \in {"done", "refused", "insert"}, Ends(c, pc), ~call[c].committed,
         call[c].ask.op # "updateAgent",
         pc = "insert" => call[c].ask.op = "createSession" /\ call[c].pc = "environment"
  PROVE  AgentInv'
<1>1. PICK asks, reads : call \in [Calls -> [ask : asks, pc : CallSteps, read : reads, committed : BOOLEAN]]
  BY DEF AgentInv, CallsTyped
<1>2. call' = [call EXCEPT ![c] = [call[c] EXCEPT !.pc = pc]]
  BY DEF Ends
<1>3. /\ call' \in [Calls -> [ask : asks, pc : CallSteps, read : reads, committed : BOOLEAN]]
      /\ \A d \in Calls \ {c} : call'[d] = call[d]
      /\ call'[c].ask = call[c].ask /\ call'[c].pc = pc /\ call'[c].committed = call[c].committed
      /\ call'[c].read = call[c].read
  BY <1>1, <1>2 DEF CallSteps, CallEnded
<1>4. Passes(c)
  BY <1>3 DEF Passes, SameAgents, CallsTyped, Writing
<1>5. CallInv(c)'
  <2>1. CallInv(c)
    BY DEF AgentInv
  <2> QED BY <1>3, <2>1 DEF CallInv, IsOf, AgentThere
<1>6. TablesTyped' /\ SessionsTyped'
  BY DEF AgentInv, TablesTyped, SessionsTyped
<1>7. \A s \in DOMAIN sessions' : IsOf(sessions[s].snapshot, sessions[s].version, sessions[s].agent)'
  BY DEF AgentInv, IsOf, AgentThere
<1> QED BY <1>4, <1>5, <1>6, <1>7, PassesAgentInv

LEMMA EnvironmentChangeAgentInv ==
  ASSUME AgentInv, NEW c \in Calls, NEW op, op # "updateAgent", NEW ok \in BOOLEAN,
         NEW row \in [there : BOOLEAN, archived : BOOLEAN], EnvironmentChange(c, op, ok, row),
         ok /\ call[c].ask.environment = "default" => ~row.archived
  PROVE  AgentInv'
<1>1. /\ UNCHANGED <<agents, versions, sessions>> /\ fresh' \subseteq Calls
      /\ call[c].ask.op = op /\ call[c].pc = "new"
  BY DEF EnvironmentChange, AtStep, Asks, AgentInv, TablesTyped
<1>2. ~call[c].committed
  BY <1>1 DEF AgentInv, CallInv
<1>3. environments' \in [Environments -> [there : BOOLEAN, archived : BOOLEAN]] /\ ~environments'["default"].archived
  BY AgentAssumption DEF EnvironmentChange, AgentInv, TablesTyped
<1>4. PICK pc \in {"done", "refused"} : Ends(c, pc)
  BY DEF EnvironmentChange
<1> QED BY <1>1, <1>2, <1>3, <1>4, ChangesEnvironments

LEMMA EnvironmentsAgentInv ==
  ASSUME AgentInv, NEW c \in Calls,
         CreateEnvironment(c) \/ UpdateEnvironment(c) \/ ArchiveEnvironment(c) \/ DeleteEnvironment(c)
  PROVE  AgentInv'
<1> DEFINE e == call[c].ask.environment
           made == [there |-> TRUE, archived |-> FALSE]
           archived == [there |-> TRUE, archived |-> TRUE]
           gone == [there |-> FALSE, archived |-> FALSE]
<1>1. {made, archived, gone} \subseteq [there : BOOLEAN, archived : BOOLEAN] /\ ~made.archived /\ ~gone.archived
  OBVIOUS
<1>2. environments \in [Environments -> [there : BOOLEAN, archived : BOOLEAN]]
  BY DEF AgentInv, TablesTyped
<1>3. CASE CreateEnvironment(c)
  <2>1. PICK ok \in BOOLEAN : EnvironmentChange(c, "createEnvironment", ok, made)
    BY <1>3 DEF CreateEnvironment, ValidEnvironment
  <2> QED BY <1>1, <2>1, EnvironmentChangeAgentInv
<1>4. CASE UpdateEnvironment(c)
  <2>1. PICK ok \in BOOLEAN : EnvironmentChange(c, "updateEnvironment", ok, made)
    BY <1>4 DEF UpdateEnvironment, ValidEnvironment, EnvironmentThere
  <2> QED BY <1>1, <2>1, EnvironmentChangeAgentInv
<1>5. CASE ArchiveEnvironment(c)
  <2> DEFINE ok == e # "default" /\ EnvironmentThere(e)
  <2>1. EnvironmentChange(c, "archiveEnvironment", ok, archived)
    BY <1>5 DEF ArchiveEnvironment
  <2>2. ok \in BOOLEAN /\ (ok => e # "default")
    OBVIOUS
  <2> HIDE DEF ok
  <2> QED BY <1>1, <2>1, <2>2, EnvironmentChangeAgentInv
<1>6. CASE DeleteEnvironment(c)
  <2> DEFINE ok == e # "default" /\ environments[e].there
  <2>1. EnvironmentChange(c, "deleteEnvironment", ok, gone) /\ ok \in BOOLEAN
    BY <1>6 DEF DeleteEnvironment
  <2> HIDE DEF ok
  <2> QED BY <1>1, <2>1, EnvironmentChangeAgentInv
<1> QED BY <1>3, <1>4, <1>5, <1>6

LEMMA ChooseEnvironmentAgentInv == ASSUME AgentInv, NEW c \in Calls, ChooseEnvironment(c) PROVE AgentInv'
<1>1. /\ UNCHANGED <<agents, versions, sessions>> /\ fresh' \subseteq Calls
      /\ call[c].ask.op = "createSession" /\ call[c].pc = "environment"
  BY DEF ChooseEnvironment, AtStep, Asks, AgentInv, TablesTyped
<1>2. ~call[c].committed
  BY <1>1 DEF AgentInv, CallInv
<1>3. environments' \in [Environments -> [there : BOOLEAN, archived : BOOLEAN]] /\ ~environments'["default"].archived
  BY AgentAssumption DEF ChooseEnvironment, AgentInv, TablesTyped
<1>4. PICK pc \in {"insert", "refused"} : Ends(c, pc)
  BY DEF ChooseEnvironment
<1> QED BY <1>1, <1>2, <1>3, <1>4, ChangesEnvironments

\* The sessions change; each one is still of a version of its agent.
LEMMA ChangesSessions ==
  ASSUME AgentInv, NEW c \in Calls, UNCHANGED <<agents, versions, environments>>, fresh' \subseteq Calls, CallsTyped',
         \A d \in Calls \ {c} : call'[d] = call[d],
         call'[c].committed = call[c].committed, ~call[c].committed,
         call[c].ask.op # "updateAgent", call'[c].pc \in {"done", "refused", "resources", "destroy"},
         call'[c].ask = call[c].ask \/ (call[c].ask.op = "createSession" /\ call'[c].ask.op = "createSession"),
         WellFormed(call'[c].ask),
         call'[c].pc = "resources" => call[c].ask.op = "createSession" /\ c \in DOMAIN sessions',
         DOMAIN sessions \subseteq DOMAIN sessions', SessionsTyped',
         \A s \in DOMAIN sessions' : IsOf(sessions'[s].snapshot, sessions'[s].version, sessions'[s].agent)
  PROVE  AgentInv'
<1>1. Passes(c)
  BY DEF Passes, SameAgents, Writing
<1>2. CallInv(c)'
  <2>1. CallInv(c)
    BY DEF AgentInv
  <2>2. WellFormed(call[c].ask)'
    OBVIOUS
  <2> QED BY <2>1, <2>2 DEF CallInv
<1>3. TablesTyped'
  BY DEF AgentInv, TablesTyped
<1>4. \A s \in DOMAIN sessions' : IsOf(sessions[s].snapshot, sessions[s].version, sessions[s].agent)'
  BY DEF IsOf, AgentThere
<1> QED BY <1>1, <1>2, <1>3, <1>4, PassesAgentInv

\* A step of c that ends in Ends: only where c stands changes.
LEMMA CallEnds ==
  ASSUME AgentInv, NEW c \in Calls, NEW pc \in CallSteps, Ends(c, pc)
  PROVE  /\ CallsTyped' /\ \A d \in Calls \ {c} : call'[d] = call[d]
         /\ call'[c].ask = call[c].ask /\ call'[c].pc = pc /\ call'[c].committed = call[c].committed
         /\ call'[c].read = call[c].read
<1>1. PICK asks, reads : call \in [Calls -> [ask : asks, pc : CallSteps, read : reads, committed : BOOLEAN]]
  BY DEF AgentInv, CallsTyped
<1>2. call' = [call EXCEPT ![c] = [call[c] EXCEPT !.pc = pc]]
  BY DEF Ends
<1>3. /\ call' \in [Calls -> [ask : asks, pc : CallSteps, read : reads, committed : BOOLEAN]]
      /\ \A d \in Calls \ {c} : call'[d] = call[d]
      /\ call'[c].ask = call[c].ask /\ call'[c].pc = pc /\ call'[c].committed = call[c].committed
      /\ call'[c].read = call[c].read
  BY <1>1, <1>2
<1> QED BY <1>3 DEF CallsTyped

LEMMA CallerGoneAgentInv == ASSUME AgentInv, NEW c \in Calls, CallerGone(c) PROVE AgentInv'
<1>1. /\ UNCHANGED <<agents, versions, environments, sessions>> /\ fresh' \subseteq Calls /\ Ends(c, "gone")
  BY DEF CallerGone, AgentInv, TablesTyped
<1> QED BY <1>1, EndsAgentInv

SessionRow(attached) ==
  [there : BOOLEAN, archived : BOOLEAN, agent : Agents, version : Nat \ {0}, snapshot : Snapshots,
   resources : Seq(attached), environment : Environments \cup {""}]

LEMMA InsertSessionAgentInv == ASSUME AgentInv, NEW c \in Calls, InsertSession(c) PROVE AgentInv'
<1> DEFINE ask == call[c].ask
           new == [there |-> TRUE, archived |-> FALSE, agent |-> ask.agent, version |-> call[c].read[1],
                   snapshot |-> call[c].read[2], resources |-> << >>,
                   environment |-> IF ask.environment = "" THEN "default" ELSE ask.environment]
<1>1. /\ UNCHANGED <<agents, versions, environments>> /\ fresh' \subseteq Calls
      /\ ask.op = "createSession" /\ call[c].pc = "insert" /\ Ends(c, "resources")
  BY DEF InsertSession, AtStep, Asks
<1>2. CallInv(c) /\ ~call[c].committed /\ WellFormed(ask)
      /\ ask.environment \in Environments \cup {""} /\ IsOf(call[c].read[2], call[c].read[1], ask.agent)
  BY <1>1 DEF AgentInv, CallInv, WellFormed
<1>3. /\ CallsTyped' /\ \A d \in Calls \ {c} : call'[d] = call[d]
      /\ call'[c].ask = ask /\ call'[c].pc = "resources" /\ call'[c].committed = call[c].committed
  BY <1>1, CallEnds DEF CallSteps
<1>4. PICK attached : /\ \A r \in attached : r.res.type \in ResourceTypes
                      /\ \A s \in DOMAIN sessions : s \in Calls /\ sessions[s] \in SessionRow(attached)
  BY DEF AgentInv, SessionsTyped, SessionRow
<1>5. sessions' = [s \in DOMAIN sessions \cup {c} |-> IF s = c THEN new ELSE sessions[s]]
  BY DEF InsertSession
<1>6. new \in SessionRow(attached)
  <2> DEFINE e == IF ask.environment = "" THEN "default" ELSE ask.environment
  <2>1. e \in Environments \cup {""}
    <3> HIDE DEF ask
    <3> QED BY <1>2, AgentAssumption
  <2>3. << >> \in Seq(attached)
    OBVIOUS
  <2>2. ask.agent \in Agents /\ call[c].read[1] \in Nat \ {0} /\ call[c].read[2] \in Snapshots
    BY <1>2 DEF IsOf
  <2>4. new = [there |-> TRUE, archived |-> FALSE, agent |-> ask.agent, version |-> call[c].read[1],
               snapshot |-> call[c].read[2], resources |-> << >>, environment |-> e]
    OBVIOUS
  <2> HIDE DEF e, ask, new
  <2> QED BY <2>1, <2>2, <2>3, <2>4 DEF SessionRow
<1>7. /\ DOMAIN sessions' = DOMAIN sessions \cup {c} /\ sessions'[c] = new
      /\ \A s \in DOMAIN sessions \ {c} : sessions'[s] = sessions[s]
  BY <1>5
<1>8. new.snapshot = call[c].read[2] /\ new.version = call[c].read[1] /\ new.agent = ask.agent
  OBVIOUS
<1> HIDE DEF new, ask
<1>9. \A s \in DOMAIN sessions' : s \in Calls /\ sessions'[s] \in SessionRow(attached)
  BY <1>4, <1>6, <1>7
<1>10. SessionsTyped'
  BY <1>4, <1>9 DEF SessionsTyped, SessionRow
<1>11. \A s \in DOMAIN sessions' : IsOf(sessions'[s].snapshot, sessions'[s].version, sessions'[s].agent)
  BY <1>2, <1>7, <1>8 DEF AgentInv
<1> QED BY <1>1, <1>2, <1>3, <1>7, <1>10, <1>11, ChangesSessions DEF ask

\* A session that changes keeps its agent, its version and its snapshot.
LEMMA SessionKept ==
  ASSUME AgentInv, NEW s \in DOMAIN sessions, NEW row, sessions' = [sessions EXCEPT ![s] = row], NEW attached,
         \A r \in attached : r.res.type \in ResourceTypes, row \in SessionRow(attached),
         \A t \in DOMAIN sessions : t \in Calls /\ sessions[t] \in SessionRow(attached),
         row.agent = sessions[s].agent, row.version = sessions[s].version, row.snapshot = sessions[s].snapshot
  PROVE  /\ DOMAIN sessions' = DOMAIN sessions /\ SessionsTyped'
         /\ \A t \in DOMAIN sessions' : IsOf(sessions'[t].snapshot, sessions'[t].version, sessions'[t].agent)
<1>1. DOMAIN sessions' = DOMAIN sessions /\ sessions'[s] = row /\ \A t \in DOMAIN sessions \ {s} : sessions'[t] = sessions[t]
  OBVIOUS
<1>2. \A t \in DOMAIN sessions' : t \in Calls /\ sessions'[t] \in SessionRow(attached)
  BY <1>1
<1>3. SessionsTyped'
  BY <1>2 DEF SessionsTyped, SessionRow
<1> QED BY <1>1, <1>3 DEF AgentInv

LEMMA AddResourceAgentInv == ASSUME AgentInv, NEW c \in Calls, AddResource(c) PROVE AgentInv'
<1> DEFINE left == call[c].ask.resources
           admitted == sessions[c].there /\ Head(left).type \in ResourceTypes
<1>1. /\ UNCHANGED <<agents, versions, environments>> /\ fresh' \subseteq Calls
      /\ call[c].ask.op = "createSession" /\ call[c].pc = "resources"
  BY DEF AddResource, AtStep, Asks, AgentInv, TablesTyped
<1>2. CallInv(c) /\ ~call[c].committed /\ c \in DOMAIN sessions
  BY <1>1 DEF AgentInv, CallInv
<1>3. CASE left = << >> \/ ~admitted
  <2>1. PICK pc \in {"done", "refused"} : Ends(c, pc) /\ UNCHANGED <<sessions, fresh>>
    BY <1>3 DEF AddResource
  <2> QED BY <1>1, <1>2, <2>1, EndsAgentInv
<1>4. CASE left # << >> /\ admitted
  <2> DEFINE new == NewResource(<<c, Len(left)>>, Head(left))
             row == [sessions[c] EXCEPT !.resources = Append(@, new)]
             ask == [call[c].ask EXCEPT !.resources = Tail(left)]
             goes == [call[c] EXCEPT !.ask = ask]
             kinds == {left[n] : n \in DOMAIN left}
  <2>1. call[c].ask \in [op : {"createSession"}, agent : Agents, environment : Environments \cup {""}, resources : Seq(kinds)]
    BY <1>1, <1>2 DEF CallInv, WellFormed
  <2>2. left \in Seq(kinds)
    BY <2>1
  <2>3. Tail(left) \in Seq(kinds) /\ Tail(left) \in Seq({Tail(left)[n] : n \in DOMAIN Tail(left)})
    <3>1. Tail(left) \in Seq(kinds)
      BY <1>4, <2>2
    <3>2. \A q \in Seq(kinds) : q \in Seq({q[n] : n \in DOMAIN q})
      OBVIOUS
    <3> QED BY <3>1, <3>2
  <2> HIDE DEF kinds
  <2>4. /\ ask \in [op : {"createSession"}, agent : Agents, environment : Environments \cup {""},
                    resources : Seq({Tail(left)[n] : n \in DOMAIN Tail(left)})]
        /\ ask.resources = Tail(left) /\ ask.op = "createSession"
    BY <2>1, <2>3
  <2>5. WellFormed(ask)
    BY <2>4 DEF WellFormed
  <2>6. PICK asks, reads : call \in [Calls -> [ask : asks, pc : CallSteps, read : reads, committed : BOOLEAN]]
    BY DEF AgentInv, CallsTyped
  <2>7. call' = [call EXCEPT ![c] = goes]
    BY <1>4 DEF AddResource
  <2> HIDE DEF ask
  <2>8. /\ CallsTyped' /\ \A d \in Calls \ {c} : call'[d] = call[d]
        /\ call'[c].ask = ask /\ call'[c].pc = "resources" /\ call'[c].committed = call[c].committed
    <3> DEFINE more == asks \cup {ask}
    <3>1. goes \in [ask : more, pc : CallSteps, read : reads, committed : BOOLEAN]
      BY <2>6
    <3>2. goes.ask = ask /\ goes.pc = "resources" /\ goes.committed = call[c].committed
      BY <1>1, <2>6
    <3>3. call' \in [Calls -> [ask : more, pc : CallSteps, read : reads, committed : BOOLEAN]]
      BY <2>6, <2>7, <3>1
    <3> HIDE DEF more, goes
    <3> QED BY <2>6, <2>7, <3>2, <3>3 DEF CallsTyped
  <2>9. PICK attached : /\ \A r \in attached : r.res.type \in ResourceTypes
                        /\ \A s \in DOMAIN sessions : s \in Calls /\ sessions[s] \in SessionRow(attached)
    BY DEF AgentInv, SessionsTyped, SessionRow
  <2> DEFINE all == attached \cup {new}
  <2>10. new.res.type \in ResourceTypes
    BY <1>4 DEF NewResource
  <2>11. \A s \in DOMAIN sessions : s \in Calls /\ sessions[s] \in SessionRow(all)
    <3>1. Seq(attached) \subseteq Seq(all)
      OBVIOUS
    <3> HIDE DEF all
    <3> QED BY <2>9, <3>1 DEF SessionRow
  <2> HIDE DEF new
  <2>12. /\ row \in SessionRow(all) /\ row.agent = sessions[c].agent /\ row.version = sessions[c].version
         /\ row.snapshot = sessions[c].snapshot
    <3>1. sessions[c] \in SessionRow(all)
      BY <1>2, <2>11
    <3>2. sessions[c].resources \in Seq(all) /\ new \in all
      BY <3>1 DEF SessionRow
    <3> DEFINE longer == Append(sessions[c].resources, new)
    <3>3. longer \in Seq(all)
      BY <3>2
    <3>4. row = [sessions[c] EXCEPT !.resources = longer]
      OBVIOUS
    <3> HIDE DEF longer, row, all
    <3> QED BY <3>1, <3>3, <3>4 DEF SessionRow
  <2>13. sessions' = [sessions EXCEPT ![c] = row]
    BY <1>4 DEF AddResource, new
  <2>14. \A r \in all : r.res.type \in ResourceTypes
    BY <2>9, <2>10
  <2>15. /\ DOMAIN sessions' = DOMAIN sessions /\ SessionsTyped'
         /\ \A t \in DOMAIN sessions' : IsOf(sessions'[t].snapshot, sessions'[t].version, sessions'[t].agent)
    <3> HIDE DEF row, all
    <3> QED BY <1>2, <2>11, <2>12, <2>13, <2>14, SessionKept
  <2> QED BY <1>1, <1>2, <2>4, <2>5, <2>8, <2>15, ChangesSessions
<1> QED BY <1>3, <1>4

\* A session that is there is archived, changed or deleted.
LEMMA SessionChangeAgentInv ==
  ASSUME AgentInv, NEW c \in Calls, NEW op \in {"updateSession", "archiveSession"}, NEW archived \in BOOLEAN,
         SessionChange(c, op, archived)
  PROVE  AgentInv'
<1> DEFINE s == call[c].ask.session
           ok == SessionThere(s) /\ ~sessions[s].archived
<1>1. /\ UNCHANGED <<agents, versions, environments>> /\ fresh' \subseteq Calls
      /\ call[c].ask.op = op /\ call[c].pc = "new"
  BY DEF SessionChange, AtStep, Asks, AgentInv, TablesTyped
<1>2. CallInv(c) /\ ~call[c].committed
  BY <1>1 DEF AgentInv, CallInv
<1>3. CASE ~ok
  BY <1>1, <1>2, <1>3, EndsAgentInv DEF SessionChange
<1>4. CASE ok
  <2> DEFINE row == [sessions[s] EXCEPT !.archived = archived]
  <2>1. Ends(c, "done") /\ sessions' = [sessions EXCEPT ![s] = row] /\ s \in DOMAIN sessions
    BY <1>4 DEF SessionChange, SessionThere
  <2>2. /\ CallsTyped' /\ \A d \in Calls \ {c} : call'[d] = call[d]
        /\ call'[c].ask = call[c].ask /\ call'[c].pc = "done" /\ call'[c].committed = call[c].committed
    BY <2>1, CallEnds DEF CallSteps, CallEnded
  <2>3. PICK attached : /\ \A r \in attached : r.res.type \in ResourceTypes
                        /\ \A t \in DOMAIN sessions : t \in Calls /\ sessions[t] \in SessionRow(attached)
    BY DEF AgentInv, SessionsTyped, SessionRow
  <2>4. /\ row \in SessionRow(attached) /\ row.agent = sessions[s].agent /\ row.version = sessions[s].version
        /\ row.snapshot = sessions[s].snapshot
    BY <2>1, <2>3 DEF SessionRow
  <2> HIDE DEF row, s
  <2>5. /\ DOMAIN sessions' = DOMAIN sessions /\ SessionsTyped'
        /\ \A t \in DOMAIN sessions' : IsOf(sessions'[t].snapshot, sessions'[t].version, sessions'[t].agent)
    BY <2>1, <2>3, <2>4, SessionKept
  <2> QED BY <1>1, <1>2, <2>2, <2>5, ChangesSessions DEF CallInv
<1> QED BY <1>3, <1>4

LEMMA DeleteSessionAgentInv == ASSUME AgentInv, NEW c \in Calls, DeleteSession(c) PROVE AgentInv'
<1> DEFINE s == call[c].ask.session
<1>1. /\ UNCHANGED <<agents, versions, environments>> /\ fresh' \subseteq Calls
      /\ call[c].ask.op = "deleteSession" /\ call[c].pc = "new"
  BY DEF DeleteSession, AtStep, Asks, AgentInv, TablesTyped
<1>2. CallInv(c) /\ ~call[c].committed
  BY <1>1 DEF AgentInv, CallInv
<1>3. CASE ~SessionThere(s)
  BY <1>1, <1>2, <1>3, EndsAgentInv DEF DeleteSession
<1>4. CASE SessionThere(s)
  <2> DEFINE row == [sessions[s] EXCEPT !.there = FALSE, !.resources = << >>]
  <2>1. Ends(c, "destroy") /\ sessions' = [sessions EXCEPT ![s] = row] /\ s \in DOMAIN sessions
    BY <1>4 DEF DeleteSession, SessionThere
  <2>2. /\ CallsTyped' /\ \A d \in Calls \ {c} : call'[d] = call[d]
        /\ call'[c].ask = call[c].ask /\ call'[c].pc = "destroy" /\ call'[c].committed = call[c].committed
    BY <2>1, CallEnds DEF CallSteps
  <2>3. PICK attached : /\ \A r \in attached : r.res.type \in ResourceTypes
                        /\ \A t \in DOMAIN sessions : t \in Calls /\ sessions[t] \in SessionRow(attached)
    BY DEF AgentInv, SessionsTyped, SessionRow
  <2>4. /\ row \in SessionRow(attached) /\ row.agent = sessions[s].agent /\ row.version = sessions[s].version
        /\ row.snapshot = sessions[s].snapshot
    <3> DEFINE none == << >>
    <3>1. none \in Seq(attached) /\ sessions[s] \in SessionRow(attached)
      BY <2>1, <2>3
    <3>2. row = [sessions[s] EXCEPT !.there = FALSE, !.resources = none]
      OBVIOUS
    <3> HIDE DEF none, s, row
    <3> QED BY <3>1, <3>2 DEF SessionRow
  <2> HIDE DEF row, s
  <2>5. /\ DOMAIN sessions' = DOMAIN sessions /\ SessionsTyped'
        /\ \A t \in DOMAIN sessions' : IsOf(sessions'[t].snapshot, sessions'[t].version, sessions'[t].agent)
    BY <2>1, <2>3, <2>4, SessionKept
  <2> QED BY <1>1, <1>2, <2>2, <2>5, ChangesSessions DEF CallInv
<1> QED BY <1>3, <1>4

LEMMA ArchiveAgentAgentInv == ASSUME AgentInv, NEW c \in Calls, ArchiveAgent(c) PROVE AgentInv'
<1> DEFINE a == call[c].ask.agent
           ok == AgentThere(a) /\ ~agents[a].archived
<1>1. /\ UNCHANGED <<versions, environments, sessions>> /\ fresh' \subseteq Calls
      /\ call[c].ask.op = "archiveAgent" /\ call[c].pc = "new"
  BY DEF ArchiveAgent, AtStep, Asks, AgentInv, TablesTyped
<1>2. CallInv(c) /\ ~call[c].committed /\ a \in Agents
  BY <1>1 DEF AgentInv, CallInv, WellFormed
<1>3. CASE ~ok
  BY <1>1, <1>2, <1>3, EndsAgentInv DEF ArchiveAgent
<1>4. CASE ok
  <2>1. Ends(c, "reply") /\ agents' = [agents EXCEPT ![a].archived = TRUE]
    BY <1>4 DEF ArchiveAgent
  <2>2. /\ CallsTyped' /\ \A d \in Calls \ {c} : call'[d] = call[d]
        /\ call'[c].ask = call[c].ask /\ call'[c].pc = "reply" /\ call'[c].committed = call[c].committed
    BY <2>1, CallEnds DEF CallSteps
  <2>3. /\ \A b \in Agents : /\ agents'[b].there = agents[b].there /\ agents'[b].name = agents[b].name
                             /\ agents'[b].current = agents[b].current
        /\ TablesTyped'
    BY <1>1, <2>1 DEF AgentInv, TablesTyped
  <2>4. Passes(c)
    BY <1>1, <2>2, <2>3 DEF Passes, SameAgents, Writing
  <2>5. CallInv(c)'
    BY <1>1, <1>2, <2>2 DEF CallInv
  <2>6. \A s \in DOMAIN sessions' : IsOf(sessions[s].snapshot, sessions[s].version, sessions[s].agent)'
    <3>1. \A s \in DOMAIN sessions : IsOf(sessions[s].snapshot, sessions[s].version, sessions[s].agent)
      BY DEF AgentInv
    <3> QED BY <1>1, <2>3, <3>1 DEF IsOf, AgentThere
  <2>7. SessionsTyped'
    BY <1>1 DEF AgentInv, SessionsTyped
  <2> QED BY <2>3, <2>4, <2>5, <2>6, <2>7, PassesAgentInv
<1> QED BY <1>3, <1>4

\* A step of c that changes agents: the snapshots and the other calls only need to
\* know that agents grow.
LEMMA AgentMoves ==
  ASSUME AgentInv, NEW c \in Calls, TablesTyped', VersionsGrow, CallsTyped', \A d \in Calls \ {c} : call'[d] = call[d],
         sessions' = sessions, call'[c].ask = call[c].ask, call'[c].pc # "update", CallInv(c)', \A a \in Agents : RowsInv(a)',
         \A a \in Agents, d \in Calls \ {c} : d \in Writing(a) => agents'[a].there = agents[a].there /\ versions'[a] = versions[a]
  PROVE  AgentInv'
<1>1. \A d \in Calls : CallInv(d)'
  BY OtherCall
<1>2. OneWriter'
  <2>1. \A a \in Agents : Writing(a)' \subseteq Writing(a)
    BY DEF Writing
  <2> QED BY <2>1 DEF AgentInv, OneWriter
<1>3. \A s \in DOMAIN sessions' : IsOf(sessions[s].snapshot, sessions[s].version, sessions[s].agent)'
  BY StaysOf DEF AgentInv
<1>4. SessionsTyped'
  BY DEF AgentInv, SessionsTyped
<1> QED BY <1>1, <1>2, <1>3, <1>4 DEF AgentInv

\* The committed updates of an agent stay what they are when c was none of them and
\* does not become one.
LEMMA SameUpdates ==
  ASSUME NEW c \in Calls, NEW a, \A d \in Calls \ {c} : call'[d] = call[d], call'[c].ask = call[c].ask,
         call'[c].committed = call[c].committed \/ call[c].ask.op # "updateAgent"
  PROVE  /\ UpdatesOf(a)' = UpdatesOf(a)
         /\ \A d \in UpdatesOf(a) : call'[d].ask = call[d].ask
BY DEF UpdatesOf, Asks

LEMMA DeleteAgentAgentInv == ASSUME AgentInv, NEW c \in Calls, DeleteAgent(c) PROVE AgentInv'
<1> DEFINE a == call[c].ask.agent
<1>1. /\ UNCHANGED <<environments, sessions>> /\ fresh' \subseteq Calls
      /\ call[c].ask.op = "deleteAgent" /\ call[c].pc = "new" /\ ~Locked(a)
  BY DEF DeleteAgent, AtStep, Asks, AgentInv, TablesTyped
<1>2. CallInv(c) /\ ~call[c].committed /\ a \in Agents
  BY <1>1 DEF AgentInv, CallInv, WellFormed
<1>3. /\ agents' = IF AgentThere(a) THEN [agents EXCEPT ![a].there = "deleted"] ELSE agents
      /\ versions' = [versions EXCEPT ![a] = << >>]
  BY DEF DeleteAgent
<1>4. PICK pc \in {"done", "refused"} : Ends(c, pc)
  BY DEF DeleteAgent
<1>5. /\ CallsTyped' /\ \A d \in Calls \ {c} : call'[d] = call[d]
      /\ call'[c].ask = call[c].ask /\ call'[c].pc = pc /\ call'[c].committed = call[c].committed
  BY <1>4, CallEnds DEF CallSteps, CallEnded
<1> DEFINE gone == [agents[a] EXCEPT !.there = "deleted"]
           none == << >>
<1>12. agents[a] \in AgentRows /\ gone \in AgentRows /\ gone.there = "deleted" /\ none \in Seq(Rows)
  <2>1. agents[a] \in AgentRows
    BY <1>2, Tables
  <2> DEFINE old == agents[a]
  <2>2. old \in AgentRows /\ gone = [old EXCEPT !.there = "deleted"]
    BY <2>1
  <2> HIDE DEF a, old, gone
  <2>3. gone \in AgentRows /\ gone.there = "deleted"
    BY <2>2 DEF AgentRows
  <2>4. none \in Seq(Rows)
    OBVIOUS
  <2> QED BY <2>1, <2>3, <2>4
<1>13. /\ agents' = IF AgentThere(a) THEN [agents EXCEPT ![a] = gone] ELSE agents
       /\ versions' = [versions EXCEPT ![a] = none]
  BY <1>3
<1> HIDE DEF a, gone, none
<1>6. TablesTyped'
  <2>1. agents' \in [Agents -> AgentRows] /\ versions' \in [Agents -> Seq(Rows)]
    BY <1>2, <1>12, <1>13, Tables
  <2> QED BY <1>1, <2>1 DEF AgentInv, TablesTyped, AgentRows
<1>7. /\ \A b \in Agents \ {a} : agents'[b] = agents[b] /\ versions'[b] = versions[b]
      /\ agents'[a].there # "live" /\ (agents'[a].there = "never" <=> agents[a].there = "never")
  <2>1. agents'[a].there # "live" /\ (agents'[a].there = "never" <=> agents[a].there = "never")
    BY <1>2, <1>12, <1>13, Tables DEF AgentThere
  <2>2. \A b \in Agents \ {a} : agents'[b] = agents[b] /\ versions'[b] = versions[b]
    BY <1>2, <1>13, Tables
  <2> QED BY <2>1, <2>2
<1>8. VersionsGrow
  BY <1>7, Tables DEF VersionsGrow
<1>9. \A b \in Agents : RowsInv(b)'
  <2> TAKE b \in Agents
  <2>1. RowsInv(b) /\ UpdatesOf(b)' = UpdatesOf(b) /\ \A d \in UpdatesOf(b) : call'[d].ask = call[d].ask
    BY <1>5, SameUpdates DEF AgentInv
  <2>2. {call'[d].ask.version : d \in UpdatesOf(b)} = {call[d].ask.version : d \in UpdatesOf(b)}
    BY <2>1
  <2> QED BY <1>7, <2>1, <2>2 DEF RowsInv, AgentThere
<1>10. CallInv(c)'
  BY <1>1, <1>2, <1>5 DEF CallInv
<1>11. \A b \in Agents, d \in Calls \ {c} : d \in Writing(b) => b # a
  BY <1>1, <1>2 DEF Locked, a
<1> QED BY <1>1, <1>5, <1>6, <1>7, <1>8, <1>9, <1>10, <1>11, AgentMoves

LEMMA CreateAgentAgentInv == ASSUME AgentInv, NEW c \in Calls, CreateAgent(c) PROVE AgentInv'
<1> DEFINE a == call[c].ask.agent
           config == call[c].ask.config
<1>1. /\ UNCHANGED <<environments, sessions>> /\ fresh' \subseteq Calls
      /\ call[c].ask.op = "createAgent" /\ call[c].pc = "new"
  BY DEF CreateAgent, AtStep, Asks, AgentInv, TablesTyped
<1>2. CallInv(c) /\ ~call[c].committed /\ a \in Agents /\ config \in Configs
  BY <1>1 DEF AgentInv, CallInv, WellFormed
<1>3. CASE ~Complete(config)
  BY <1>1, <1>2, <1>3, EndsAgentInv DEF CreateAgent
<1>4. CASE Complete(config)
  <2>1. /\ agents[a].there = "never"
        /\ agents' = [agents EXCEPT ![a] = [@ EXCEPT !.there = "live", !.name = config.name, !.current = 1]]
        /\ versions' = [versions EXCEPT ![a] = <<Encoded(config)>>]
        /\ call' = [call EXCEPT ![c] = [@ EXCEPT !.pc = "reply", !.committed = TRUE]]
    BY <1>4 DEF CreateAgent
  <2>2. Encoded(config) \in Rows /\ Encoded(config).name = config.name
    BY <1>2, SnapshotOfRow DEF Rows
  <2> HIDE DEF config
  <2>3. /\ CallsTyped' /\ \A d \in Calls \ {c} : call'[d] = call[d]
        /\ call'[c].ask = call[c].ask /\ call'[c].pc = "reply" /\ call'[c].committed
    <3>1. PICK asks, reads : call \in [Calls -> [ask : asks, pc : CallSteps, read : reads, committed : BOOLEAN]]
      BY DEF AgentInv, CallsTyped
    <3>2. call' \in [Calls -> [ask : asks, pc : CallSteps, read : reads, committed : BOOLEAN]]
      BY <2>1, <3>1 DEF CallSteps
    <3> QED BY <2>1, <3>1, <3>2 DEF CallsTyped
  <2> DEFINE made == [agents[a] EXCEPT !.there = "live", !.name = config.name, !.current = 1]
             rows == <<Encoded(config)>>
  <2>4. /\ made \in AgentRows /\ made.there = "live" /\ made.name = config.name /\ made.current = 1
        /\ rows \in Seq(Rows)
    <3>1. agents[a] \in AgentRows /\ config.name \in {cf.name : cf \in Configs}
      BY <1>2, Tables DEF config
    <3> DEFINE old == agents[a]
               name == config.name
    <3>2. old \in AgentRows /\ name \in {cf.name : cf \in Configs}
          /\ made = [old EXCEPT !.there = "live", !.name = name, !.current = 1]
      BY <3>1
    <3> HIDE DEF old, name
    <3>3. made \in AgentRows /\ made.there = "live" /\ made.name = name /\ made.current = 1
      BY <3>2 DEF AgentRows
    <3>4. rows \in Seq(Rows)
      BY <2>2
    <3> QED BY <3>3, <3>4 DEF name
  <2>5. agents' = [agents EXCEPT ![a] = made] /\ versions' = [versions EXCEPT ![a] = rows]
    BY <2>1
  <2>12. Len(rows) = 1 /\ rows[1] = Encoded(config)
    OBVIOUS
  <2> HIDE DEF a, made, rows
  <2>6. TablesTyped'
    <3>1. agents' \in [Agents -> AgentRows] /\ versions' \in [Agents -> Seq(Rows)]
      BY <1>2, <2>4, <2>5, Tables
    <3> QED BY <1>1, <2>1, <3>1 DEF AgentInv, TablesTyped, AgentRows
  <2>7. /\ \A b \in Agents \ {a} : agents'[b] = agents[b] /\ versions'[b] = versions[b]
        /\ agents'[a].there = "live" /\ agents'[a].name = config.name /\ agents'[a].current = 1
        /\ versions'[a] = rows
    <3>1. \A b \in Agents \ {a} : agents'[b] = agents[b] /\ versions'[b] = versions[b]
      BY <1>2, <2>5, Tables
    <3>2. agents'[a] = made /\ versions'[a] = rows
      BY <1>2, <2>5, Tables
    <3> QED BY <2>4, <3>1, <3>2
  <2>8. VersionsGrow
    BY <2>1, <2>7, Tables DEF VersionsGrow
  <2>9. \A b \in Agents : RowsInv(b)'
    <3> TAKE b \in Agents
    <3>1. RowsInv(b) /\ UpdatesOf(b)' = UpdatesOf(b) /\ \A d \in UpdatesOf(b) : call'[d].ask = call[d].ask
      BY <1>1, <2>3, SameUpdates DEF AgentInv
    <3>2. {call'[d].ask.version : d \in UpdatesOf(b)} = {call[d].ask.version : d \in UpdatesOf(b)}
      BY <3>1
    <3>3. CASE b # a
      BY <2>7, <3>1, <3>2, <3>3 DEF RowsInv, AgentThere
    <3>4. CASE b = a
      <4>1. UpdatesOf(b) = {}
        BY <2>1, <3>1, <3>4 DEF RowsInv
      <4>2. 1 .. 1 - 1 = {} /\ Cardinality({}) = 0 /\ {call'[d].ask.version : d \in {}} = {}
        BY FS_EmptySet
      <4>3. /\ agents'[b].there = "live" /\ agents'[b].name = config.name /\ agents'[b].current = 1
            /\ Len(versions'[b]) = 1 /\ versions'[b][1] = Encoded(config) /\ UpdatesOf(b)' = {}
        BY <2>7, <2>12, <3>1, <3>4, <4>1
      <4> HIDE DEF config
      <4> QED BY <2>2, <4>2, <4>3 DEF RowsInv, AgentThere
    <3> QED BY <3>3, <3>4
  <2>10. CallInv(c)'
    BY <1>1, <1>2, <1>4, <2>3 DEF CallInv, config, a
  <2>11. \A b \in Agents, d \in Calls \ {c} : d \in Writing(b) => b # a
    <3>1. ASSUME NEW b \in Agents, NEW d \in Calls, d \in Writing(b), b = a PROVE FALSE
      <4>1. call[d].pc = "update" /\ call[d].ask.agent = a
        BY <3>1 DEF Writing
      <4>2. AgentThere(a)
        BY <4>1 DEF AgentInv, CallInv
      <4> QED BY <2>1, <4>2 DEF AgentThere
    <3> QED BY <3>1
  <2> QED BY <1>1, <2>3, <2>6, <2>7, <2>8, <2>9, <2>10, <2>11, AgentMoves
<1> QED BY <1>3, <1>4

\* The commit of an update: a new version on top of the newest one.
LEMMA CommitVersionAgentInv == ASSUME AgentInv, NEW c \in Calls, CommitVersion(c) PROVE AgentInv'
<1> DEFINE a == call[c].ask.agent
           config == call[c].ask.config
           n == call[c].ask.version
           row == Encoded(config)
           rows == [v \in DOMAIN versions[a] \cup {n + 1} |-> IF v = n + 1 THEN row ELSE versions[a][v]]
<1>1. /\ UNCHANGED <<environments, sessions>> /\ fresh' \subseteq Calls
      /\ call[c].ask.op = "updateAgent" /\ call[c].pc = "update"
      /\ agents' = [agents EXCEPT ![a] = [@ EXCEPT !.name = config.name, !.current = n + 1]]
      /\ versions' = [versions EXCEPT ![a] = rows]
      /\ call' = [call EXCEPT ![c] = [@ EXCEPT !.pc = "reply", !.committed = TRUE]]
  BY DEF CommitVersion, AtStep, Asks, AgentInv, TablesTyped
<1>2. CallInv(c) /\ ~call[c].committed /\ a \in Agents /\ config \in Configs /\ n \in Nat \ {0} /\ Complete(config)
  BY <1>1 DEF AgentInv, CallInv, WellFormed
<1>3. AgentThere(a) /\ Len(versions[a]) = n /\ RowsInv(a) /\ versions[a] \in Seq(Rows)
  BY <1>1, <1>2 DEF AgentInv, CallInv, TablesTyped
<1>4. row \in Rows /\ row.name = config.name
  BY <1>2, SnapshotOfRow DEF Rows
<1> HIDE DEF row
<1>5. rows \in Seq(Rows) /\ Len(rows) = n + 1 /\ rows[n + 1] = row /\ \A v \in 1 .. n : rows[v] = versions[a][v]
  <2>1. DOMAIN versions[a] \cup {n + 1} = 1 .. n + 1
    BY <1>2, <1>3
  <2>2. \A v \in 1 .. n + 1 : (IF v = n + 1 THEN row ELSE versions[a][v]) \in Rows
    BY <1>2, <1>3, <1>4
  <2>3. rows \in [1 .. n + 1 -> Rows]
    BY <2>1, <2>2
  <2>4. rows[n + 1] = row /\ \A v \in 1 .. n : rows[v] = versions[a][v]
    BY <1>2, <2>1
  <2> HIDE DEF rows
  <2> QED BY <1>2, <2>3, <2>4
<1> HIDE DEF rows
<1> HIDE DEF config
<1>6. /\ CallsTyped' /\ \A d \in Calls \ {c} : call'[d] = call[d]
      /\ call'[c].ask = call[c].ask /\ call'[c].pc = "reply" /\ call'[c].committed
  <2>1. PICK asks, reads : call \in [Calls -> [ask : asks, pc : CallSteps, read : reads, committed : BOOLEAN]]
    BY DEF AgentInv, CallsTyped
  <2>2. call' \in [Calls -> [ask : asks, pc : CallSteps, read : reads, committed : BOOLEAN]]
    BY <1>1, <2>1 DEF CallSteps
  <2> QED BY <1>1, <2>1, <2>2 DEF CallsTyped
<1> DEFINE made == [agents[a] EXCEPT !.name = config.name, !.current = n + 1]
<1>7. /\ made \in AgentRows /\ made.there = agents[a].there /\ made.name = config.name /\ made.current = n + 1
      /\ agents' = [agents EXCEPT ![a] = made]
  <2>1. agents[a] \in AgentRows /\ config.name \in {cf.name : cf \in Configs} /\ n + 1 \in Nat
    BY <1>2, Tables DEF config
  <2> DEFINE old == agents[a]
             name == config.name
             next == n + 1
  <2>2. /\ old \in AgentRows /\ name \in {cf.name : cf \in Configs} /\ next \in Nat
        /\ made = [old EXCEPT !.name = name, !.current = next]
    BY <2>1
  <2> HIDE DEF old, name, next, made
  <2>3. made \in AgentRows /\ made.there = old.there /\ made.name = name /\ made.current = next
    BY <2>2 DEF AgentRows
  <2>4. agents' = [agents EXCEPT ![a] = made]
    BY <1>1 DEF made
  <2> QED BY <2>3, <2>4 DEF old, name, next
<1> HIDE DEF made
<1>8. agents' \in [Agents -> AgentRows] /\ versions' \in [Agents -> Seq(Rows)]
  BY <1>1, <1>2, <1>5, <1>7, Tables
<1>9. TablesTyped'
  BY <1>1, <1>8 DEF AgentInv, TablesTyped, AgentRows
<1>10. /\ \A b \in Agents \ {a} : agents'[b] = agents[b] /\ versions'[b] = versions[b]
       /\ agents'[a].there = agents[a].there /\ agents'[a].name = config.name /\ agents'[a].current = n + 1
       /\ versions'[a] = rows
  <2>1. agents'[a] = made /\ versions'[a] = rows
    BY <1>1, <1>2, <1>7, Tables
  <2>2. \A b \in Agents \ {a} : agents'[b] = agents[b] /\ versions'[b] = versions[b]
    BY <1>1, <1>7, Tables
  <2> QED BY <1>7, <2>1, <2>2
<1>11. VersionsGrow
  <2>1. ASSUME NEW b \in Agents, b # a PROVE agents'[b] = agents[b] /\ versions'[b] = versions[b] /\ Len(versions[b]) \in Nat
    BY <1>10, <2>1, Tables
  <2>2. /\ agents'[a].there = agents[a].there /\ Len(versions[a]) <= Len(versions'[a])
        /\ \A v \in 1 .. Len(versions[a]) : versions'[a][v] = versions[a][v]
    BY <1>2, <1>3, <1>5, <1>10
  <2> HIDE DEF a
  <2> QED BY <1>3, <2>1, <2>2 DEF VersionsGrow, AgentThere
<1>12. \A b \in Agents : RowsInv(b)'
  <2> TAKE b \in Agents
  <2>1. RowsInv(b)
    BY DEF AgentInv
  <2>2. CASE b # a
    <3>1. UpdatesOf(b)' = UpdatesOf(b) /\ \A d \in UpdatesOf(b) : call'[d].ask = call[d].ask
      BY <1>6, <2>2 DEF UpdatesOf, Asks
    <3>2. {call'[d].ask.version : d \in UpdatesOf(b)} = {call[d].ask.version : d \in UpdatesOf(b)}
      BY <3>1
    <3> QED BY <1>10, <2>1, <2>2, <3>1, <3>2 DEF RowsInv, AgentThere
  <2>3. CASE b = a
    <3> DEFINE before == UpdatesOf(a)
    <3>1. /\ UpdatesOf(a)' = before \cup {c} /\ c \notin before /\ before \subseteq Calls
          /\ \A d \in Calls : call'[d].ask = call[d].ask
      BY <1>1, <1>2, <1>6 DEF UpdatesOf, Asks
    <3>2. /\ {call[d].ask.version : d \in before} = 1 .. n - 1 /\ Cardinality(before) = n - 1
          /\ \A d \in before : versions[a][call[d].ask.version + 1] = Encoded(call[d].ask.config)
      BY <1>3 DEF RowsInv
    <3> HIDE DEF before
    <3>3. {call'[d].ask.version : d \in before \cup {c}} = 1 .. (n + 1) - 1
      <4>1. {call'[d].ask.version : d \in before \cup {c}} = {call[d].ask.version : d \in before} \cup {n}
        BY <3>1
      <4>2. (1 .. n - 1) \cup {n} = 1 .. (n + 1) - 1
        BY <1>2
      <4> QED BY <3>2, <4>1, <4>2
    <3>4. Cardinality(before \cup {c}) = (n + 1) - 1
      <4>1. IsFiniteSet(before)
        BY <3>1, AgentAssumption, FS_Subset
      <4>2. Cardinality(before \cup {c}) = Cardinality(before) + 1
        BY <3>1, <4>1, FS_AddElement
      <4> QED BY <1>2, <3>2, <4>2
    <3>5. \A d \in before \cup {c} : rows[call'[d].ask.version + 1] = Encoded(call'[d].ask.config)
      <4> TAKE d \in before \cup {c}
      <4>1. CASE d = c
        BY <1>5, <3>1, <4>1 DEF row, config
      <4>2. CASE d \in before
        <5>1. call[d].ask.version \in 1 .. n - 1
          BY <3>2, <4>2
        <5>2. call[d].ask.version + 1 \in 1 .. n
          BY <1>2, <5>1
        <5> QED BY <1>5, <3>1, <3>2, <4>2, <5>2
      <4> QED BY <4>1, <4>2
    <3>6. rows[n + 1].name = config.name /\ Len(rows) = n + 1 /\ n + 1 # 0
      BY <1>2, <1>4, <1>5
    <3> QED BY <1>3, <1>10, <2>3, <3>1, <3>3, <3>4, <3>5, <3>6 DEF RowsInv, AgentThere
  <2> QED BY <2>2, <2>3
<1>13. CallInv(c)'
  <2>1. Complete(call'[c].ask.config) /\ agents'[a].there # "never"
    BY <1>2, <1>3, <1>6, <1>10 DEF AgentThere, config
  <2> QED BY <1>1, <1>2, <1>6, <2>1 DEF CallInv, WellFormed
<1>14. \A b \in Agents, d \in Calls \ {c} : d \in Writing(b) => b # a
  <2>1. c \in Writing(a)
    BY <1>1 DEF Writing
  <2> QED BY <1>2, <2>1 DEF AgentInv, OneWriter
<1> QED BY <1>1, <1>6, <1>9, <1>10, <1>11, <1>12, <1>13, <1>14, AgentMoves

(***************************************************************************)
(* The invariant, and what follows from it.                                *)
(***************************************************************************)
LEMMA InitAgentInv == AgentStart => AgentInv
<1> SUFFICES ASSUME AgentStart PROVE AgentInv
  OBVIOUS
<1>0. PICK asks \in [Calls -> {call[c].ask : c \in Calls}],
           first \in UNION {[A -> Rows] : A \in SUBSET Agents}, known \in SUBSET Environments :
        (\A c \in Calls : WellFormed(asks[c])) /\ AgentInit(asks, first, known)
  BY DEF AgentStart, Rows
<1>1. PICK A \in SUBSET Agents :
        first \in [A -> Rows] /\ (\A c \in Calls : WellFormed(asks[c])) /\ AgentInit(asks, first, known)
  BY <1>0
<1>2. ASSUME NEW a \in A PROVE first[a].name \in {cf.name : cf \in Configs} \cup {""}
  <2>1. PICK cf \in Configs : first[a] = Encoded(cf)
    BY <1>1 DEF Rows
  <2> QED BY <2>1, SnapshotOfRow
<1>3. TablesTyped
  <2>1. agents \in [Agents -> [there : {"never", "live", "deleted"}, name : {cf.name : cf \in Configs} \cup {""},
                               current : Nat, archived : BOOLEAN]]
    BY <1>1, <1>2 DEF AgentInit
  <2>2. ASSUME NEW a \in Agents PROVE (IF a \in A THEN <<first[a]>> ELSE << >>) \in Seq(Rows)
    <3>1. CASE a \in A
      <4>1. first[a] \in Rows
        BY <1>1, <3>1
      <4> QED BY <3>1, <4>1
    <3> QED BY <3>1
  <2>3. versions = [a \in Agents |-> IF a \in A THEN <<first[a]>> ELSE << >>]
    BY <1>1 DEF AgentInit
  <2>4. versions \in [Agents -> Seq(Rows)]
    BY <2>2, <2>3
  <2>5. /\ environments \in [Environments -> [there : BOOLEAN, archived : BOOLEAN]] /\ fresh \subseteq Calls
        /\ ~environments["default"].archived
    <3>1. environments = [e \in Environments |-> [there |-> e \in known, archived |-> FALSE]] /\ fresh = {}
      BY <1>1 DEF AgentInit
    <3>2. \A e \in Environments : (e \in known) \in BOOLEAN
      OBVIOUS
    <3> QED BY <3>1, <3>2, AgentAssumption
  <2> QED BY <2>1, <2>4, <2>5 DEF TablesTyped
<1>4. call = [c \in Calls |-> NewCall(asks[c])] /\ DOMAIN sessions = {}
  BY <1>1 DEF AgentInit
<1>5. CallsTyped
  <2> DEFINE asked == {asks[c] : c \in Calls}
  <2>1. call \in [Calls -> [ask : asked, pc : CallSteps, read : {<< >>}, committed : BOOLEAN]]
    BY <1>4 DEF NewCall, CallSteps
  <2> HIDE DEF asked
  <2> QED BY <2>1 DEF CallsTyped
<1>6. \A c \in Calls : WellFormed(call[c].ask) /\ call[c].pc = "new" /\ ~call[c].committed
  BY <1>1, <1>4 DEF NewCall
<1>7. SessionsTyped
  BY <1>4 DEF SessionsTyped
<1>8. OneWriter /\ \A c \in Calls : CallInv(c)
  BY <1>6 DEF OneWriter, Writing, CallInv
<1>9. \A a \in Agents : RowsInv(a)
  <2> TAKE a \in Agents
  <2>1. UpdatesOf(a) = {} /\ 1 .. 1 - 1 = {} /\ Cardinality({}) = 0
    BY <1>6, FS_EmptySet DEF UpdatesOf
  <2>2. CASE a \in A
    <3>1. versions[a] = <<first[a]>> /\ agents[a].current = 1 /\ agents[a].name = first[a].name /\ agents[a].there = "live"
      BY <1>1, <2>2 DEF AgentInit
    <3>2. Len(versions[a]) = 1 /\ versions[a][1] = first[a]
      BY <3>1
    <3> QED BY <2>1, <3>1, <3>2 DEF RowsInv
  <2>3. CASE a \notin A
    BY <1>1, <2>1, <2>3 DEF AgentInit, RowsInv, AgentThere
  <2> QED BY <2>2, <2>3
<1> QED BY <1>3, <1>4, <1>5, <1>7, <1>8, <1>9 DEF AgentInv

LEMMA NextAgentInv == AgentInv /\ [\E c \in Calls : AgentStep(c)]_agentVars => AgentInv'
<1> SUFFICES ASSUME AgentInv, [\E c \in Calls : AgentStep(c)]_agentVars PROVE AgentInv'
  OBVIOUS
<1>1. CASE UNCHANGED agentVars
  <2>1. CallsTyped' /\ TablesTyped' /\ SessionsTyped' /\ OneWriter'
    BY <1>1 DEF AgentInv, agentVars, CallsTyped, TablesTyped, SessionsTyped, OneWriter, Writing
  <2>2. \A c \in Calls : CallInv(c)'
    BY <1>1 DEF AgentInv, agentVars, CallInv, IsOf, AgentThere
  <2>3. ASSUME NEW a \in Agents PROVE RowsInv(a)'
    <3>1. RowsInv(a) /\ agents' = agents /\ versions' = versions /\ call' = call
      BY <1>1 DEF AgentInv, agentVars
    <3>2. UpdatesOf(a)' = UpdatesOf(a)
      BY <3>1 DEF UpdatesOf, Asks
    <3> QED BY <3>1, <3>2 DEF RowsInv, AgentThere
  <2>4. \A s \in DOMAIN sessions' : IsOf(sessions[s].snapshot, sessions[s].version, sessions[s].agent)'
    BY <1>1 DEF AgentInv, agentVars, IsOf, AgentThere
  <2> QED BY <2>1, <2>2, <2>3, <2>4 DEF AgentInv
<1>2. ASSUME NEW c \in Calls, AgentStep(c) PROVE AgentInv'
  <2>1. CASE CreateAgent(c) \/ SelectVersion(c) \/ InsertVersion(c) \/ CommitVersion(c) \/ AnswerAgent(c)
             \/ ArchiveAgent(c) \/ DeleteAgent(c)
    BY <2>1, CreateAgentAgentInv, SelectVersionAgentInv, InsertVersionAgentInv, CommitVersionAgentInv, AnswerAgentAgentInv,
       ArchiveAgentAgentInv, DeleteAgentAgentInv
  <2>2. CASE CreateEnvironment(c) \/ UpdateEnvironment(c) \/ ArchiveEnvironment(c) \/ DeleteEnvironment(c)
    BY <2>2, EnvironmentsAgentInv
  <2>3. CASE TakeSnapshot(c) \/ ChooseEnvironment(c) \/ InsertSession(c) \/ AddResource(c)
    BY <2>3, TakeSnapshotAgentInv, ChooseEnvironmentAgentInv, InsertSessionAgentInv, AddResourceAgentInv
  <2>4. CASE UpdateSession(c) \/ ArchiveSession(c) \/ DeleteSession(c)
    BY <2>4, SessionChangeAgentInv, DeleteSessionAgentInv DEF UpdateSession, ArchiveSession
  <2>5. CASE CallerGone(c)
    BY <2>5, CallerGoneAgentInv
  <2> QED BY <1>2, <2>1, <2>2, <2>3, <2>4, <2>5 DEF AgentStep
<1> QED BY <1>1, <1>2

LEMMA AgentInvSerialises == AgentInv => UpdatesSerialise
<1> SUFFICES ASSUME AgentInv PROVE UpdatesSerialise
  OBVIOUS
<1>1. ASSUME NEW c \in Calls, Asks(c, "updateAgent")
      PROVE  /\ AgentStatus(c) = 200 => call[c].committed
             /\ AgentStatus(c) \in {400, 409} => ~call[c].committed
  <2>1. CallInv(c) /\ call[c].ask.op = "updateAgent"
    BY <1>1 DEF AgentInv, Asks
  <2>2. AgentStatus(c) = 200 => call[c].pc = "done"
    BY <2>1 DEF AgentStatus, Asks
  <2>3. AgentStatus(c) \in {400, 409} => call[c].pc = "conflict" \/ ~Complete(call[c].ask.config)
    BY <2>1 DEF AgentStatus, Asks
  <2> QED BY <2>1, <2>2, <2>3 DEF CallInv
<1>2. \A a \in Agents : RowsInv(a)
  BY DEF AgentInv
<1> QED BY <1>1, <1>2 DEF UpdatesSerialise, RowsInv

LEMMA AgentInvSnapshots == AgentInv => SnapshotIsAVersion
<1> SUFFICES ASSUME AgentInv, NEW s \in DOMAIN sessions, AgentThere(sessions[s].agent)
             PROVE  /\ sessions[s].version <= agents[sessions[s].agent].current
                    /\ \E cf \in Configs : /\ Encoded(cf) = versions[sessions[s].agent][sessions[s].version]
                                           /\ Promised(cf) = sessions[s].snapshot
  BY DEF SnapshotIsAVersion
<1>1. IsOf(sessions[s].snapshot, sessions[s].version, sessions[s].agent)
  BY DEF AgentInv
<1>2. sessions[s].agent \in Agents /\ RowsInv(sessions[s].agent)
  BY <1>1 DEF AgentInv, IsOf
<1> QED BY <1>1, <1>2 DEF IsOf, RowsInv

LEMMA AgentInvTypes == AgentInv => AgentTypeOK
<1> SUFFICES ASSUME AgentInv PROVE AgentTypeOK
  OBVIOUS
<1>1. TablesTyped /\ \A c \in Calls : call[c].pc \in CallSteps
  BY DEF AgentInv, CallsTyped
<1>2. PICK attached : /\ \A r \in attached : r.res.type \in ResourceTypes
                      /\ \A s \in DOMAIN sessions : s \in Calls /\ sessions[s] \in SessionRow(attached)
  BY DEF AgentInv, SessionsTyped, SessionRow
<1>3. ASSUME NEW s \in DOMAIN sessions
      PROVE  /\ s \in Calls /\ sessions[s].agent \in Agents /\ sessions[s].version \in Nat \ {0}
             /\ \A n \in DOMAIN sessions[s].resources : sessions[s].resources[n].res.type \in ResourceTypes
  <2>1. s \in Calls /\ sessions[s] \in SessionRow(attached)
    BY <1>2
  <2>2. sessions[s].resources \in Seq(attached) /\ sessions[s].agent \in Agents /\ sessions[s].version \in Nat \ {0}
    BY <2>1 DEF SessionRow
  <2>3. \A n \in DOMAIN sessions[s].resources : sessions[s].resources[n] \in attached
    BY <2>2
  <2> QED BY <1>2, <2>1, <2>2, <2>3
<1> QED BY <1>1, <1>3 DEF AgentTypeOK, TablesTyped, Rows, CallSteps

\* The tables keep their types and their constraints, under any requests.
THEOREM AgentTypesCorrect == AgentSpec => []AgentTypeOK
BY AgentInvTypes, InitAgentInv, NextAgentInv, PTL DEF AgentSpec

\* Updates of an agent are serial although UpdateAgent reads its current version
\* without a lock: no version is lost, skipped or overwritten, and the answers 200,
\* 409 and 400 tell the truth about what was committed.
THEOREM UpdatesAreSerial == AgentSpec => []UpdatesSerialise
BY InitAgentInv, NextAgentInv, AgentInvSerialises, PTL DEF AgentSpec

\* Every session holds one version of its agent, name and configuration together,
\* as its author sent it, whatever updates ran while the session was created.
THEOREM SessionsAreOfOneVersion == AgentSpec => []SnapshotIsAVersion
BY AgentInvSnapshots, InitAgentInv, NextAgentInv, PTL DEF AgentSpec

\* What a client sends comes back to it and goes into its sessions, except for
\* metadata under the reserved key, which the guardrails travel under.
THEOREM ConfigurationRoundTrip ==
  ASSUME NEW cf \in Configs
  PROVE  /\ ToAPI(cf.name, Encoded(cf)) = Promised(cf)
         /\ Snapshot(cf.name, Encoded(cf)) = Promised(cf)
BY SnapshotOfRow, AnswerOfRow
=============================================================================
