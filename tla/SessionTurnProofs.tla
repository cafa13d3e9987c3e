------------------------- MODULE SessionTurnProofs -------------------------
(***************************************************************************)
(* Proofs about SessionTurn, for any sets of requests, threads and bodies  *)
(* and any limits: the types, the mutual exclusion of turns, the single    *)
(* closing event of a turn, that a tool under always_ask runs only after   *)
(* the user has allowed it, that a use gets one result at most and runs    *)
(* once, that row and log agree between turns and no session is left       *)
(* running, and that a turn is interrupted only by an interrupt.           *)
(***************************************************************************)
EXTENDS SessionTurn, FiniteSetTheorems, SequenceTheorems, WellFoundedInduction, TLAPS

\* Where a turn holds the mutex and has its cancel function registered, and
\* where it has published its last event.
Inside == TurnSteps \ {"none", "waiting", "locked", "unlock", "done", "killed"}
Over == {"release", "unlock", "done", "killed"}

Events == [type : EventTypes, thread : Threads, by : Requests \cup Turns \cup {NoTurn},
           info : Infos, ref : Nat]

\* The registered cancel function is that of a turn between its registration and
\* its deferred removal.
CancelInv == canceller # NoTurn => pc[canceller] \in Inside

\* The goroutines of a request start when its handler ends.
Posting == {"unsent", "posting", "interrupting", "cancelling"}
StartInv ==
  \A r \in Requests, x \in Threads : req[r].pc \in Posting => pc[<<r, x>>] = "none"

\* A turn that works on a tool has one to work on.
ToolInv ==
  \A t \in Turns : pc[t] \in {"tool", "run", "publishResult"} => local[t].tools # << >>

\* What may run, by the log L: a use that needs no confirmation, or one that has
\* been allowed.
MayRun(L, i) ==
  /\ i \in DOMAIN L
  /\ L[i].info = "ask" => \E j \in DOMAIN L : L[j].type = "allow" /\ L[j].ref = i
RunInv ==
  /\ \A x \in ran : MayRun(log, x[1])
  /\ \A t \in Turns :
       /\ pc[t] \in {"run", "runAllowed"} => MayRun(log, local[t].use)
       /\ \A d \in local[t].todo : d.verdict = "allow" => MayRun(log, d.use)

\* A turn that has published a closing event publishes nothing any more.
ClosedInv ==
  \A i \in DOMAIN log :
    log[i].by \in Turns /\ log[i].type \in Closing => pc[log[i].by] \in Over

IInv ==
  /\ TypeOK /\ OneTurnAtATime /\ CancelInv /\ StartInv /\ ToolInv
  /\ RunInv /\ ClosedInv /\ TurnClosedOnce

\* The invariant holds when jed starts with an idle session and nothing posted.
LEMMA InitIInv == Init => IInv
<1> SUFFICES ASSUME Init PROVE IInv
  OBVIOUS
<1> USE ConstantsAssumption DEF Init
<1>1. TypeOK
  <2>1. PICK bodies \in Scenarios : req = [r \in Requests |-> NewRequest(bodies[r])]
    OBVIOUS
  <2>2. req \in [Requests -> RequestStates]
    <3>1. \A r \in Requests : bodies[r] \in Seq([kind : UserKinds, thread : Threads])
      OBVIOUS
    <3>2. ASSUME NEW r \in Requests
          PROVE  NewRequest(bodies[r]) \in RequestStates
      <4> DEFINE body == bodies[r]
      <4>1. body \in Seq([kind : UserKinds, thread : Threads])
        BY <3>1
      <4> HIDE DEF body
      <4>2. [pc |-> "unsent", body |-> body, next |-> 1, cancel |-> NoTurn, threads |-> {}]
            \in RequestStates
        BY <4>1 DEF RequestStates
      <4> QED BY <4>2 DEF NewRequest, body
    <3> QED BY <2>1, <3>2
  <2>3. local \in [Turns -> Locals]
    BY DEF Locals, NewLocal
  <2> QED BY <2>2, <2>3 DEF TypeOK, Statuses, TurnSteps
<1>2. OneTurnAtATime /\ CancelInv /\ ToolInv
  BY DEF OneTurnAtATime, CancelInv, ToolInv, InTurn
<1>3. StartInv /\ RunInv /\ ClosedInv /\ TurnClosedOnce
  BY DEF StartInv, RunInv, ClosedInv, TurnClosedOnce, NewLocal, Turns
<1> QED BY <1>1, <1>2, <1>3 DEF IInv

(***************************************************************************)
(* The log only grows, and what the invariant says of the log survives.    *)
(***************************************************************************)
\* An event more takes no permission back.
LEMMA GrowsMayRun ==
  ASSUME NEW L \in Seq(Events), NEW e \in Events, NEW i, MayRun(L, i)
  PROVE  MayRun(Append(L, e), i)
  BY DEF MayRun

\* What one more event does to the part of the invariant about closing events.
LEMMA LogStep ==
  ASSUME TypeOK, ClosedInv, TurnClosedOnce, pc' \in [Turns -> TurnSteps],
         \A t \in Turns : pc[t] \in Over => pc'[t] \in Over,
         \/ log' = log
         \/ \E e \in Events :
              /\ log' = Append(log, e)
              /\ e.by \in Turns => pc[e.by] \notin Over
              /\ e.by \in Turns /\ e.type \in Closing => pc'[e.by] \in Over
  PROVE  ClosedInv' /\ TurnClosedOnce'
<1>1. CASE log' = log
  BY <1>1 DEF ClosedInv, TurnClosedOnce
<1>2. ASSUME NEW e \in Events, log' = Append(log, e),
             e.by \in Turns => pc[e.by] \notin Over,
             e.by \in Turns /\ e.type \in Closing => pc'[e.by] \in Over
      PROVE  ClosedInv' /\ TurnClosedOnce'
  <2>1. log \in Seq(Events)
    BY DEF TypeOK, Events
  <2>2. /\ DOMAIN log' = DOMAIN log \cup {Len(log) + 1}
        /\ log'[Len(log) + 1] = e
        /\ \A i \in DOMAIN log : log'[i] = log[i] /\ i <= Len(log)
    BY <1>2, <2>1
  <2>3. ClosedInv'
    BY <1>2, <2>2 DEF ClosedInv
  <2>4. TurnClosedOnce'
    BY <1>2, <2>1, <2>2 DEF ClosedInv, TurnClosedOnce
  <2> QED BY <2>3, <2>4
<1> QED BY <1>1, <1>2

(***************************************************************************)
(* Every step of a turn between the registration of its cancel function    *)
(* and the removal preserves the invariant, under conditions each action   *)
(* meets in its own way.                                                   *)
(***************************************************************************)
LEMMA InsideStep ==
  ASSUME IInv, NEW t \in Turns, NEW to \in Inside, NEW l \in Locals,
         pc[t] \in Inside \ {"release"},
         pc' = [pc EXCEPT ![t] = to],
         local' = [local EXCEPT ![t] = l],
         UNCHANGED <<daemon, req, mu, canceller, interrupted>>,
         status' \in Statuses, {faults', outages', crashes'} \subseteq Nat,
         \/ log' = log
         \/ \E e \in Events :
              log' = Append(log, e) /\ e.by = t /\ (e.type \in Closing => to = "release"),
         ran' = ran \/ \E i \in Nat : ran' = ran \cup {<<i, t>>} /\ MayRun(log', i),
         to \in {"tool", "run", "publishResult"} => l.tools # << >>,
         to \in {"run", "runAllowed"} => MayRun(log', l.use),
         \A d \in l.todo : d.verdict = "allow" => MayRun(log', d.use)
  PROVE  IInv'
<1> USE DEF IInv
<1>1. TypeOK'
  <2>1. pc' \in [Turns -> TurnSteps] /\ local' \in [Turns -> Locals]
    BY DEF TypeOK, Inside
  <2>2. log' \in Seq(Events)
    <3>1. log \in Seq(Events)
      BY DEF TypeOK, Events
    <3>2. ASSUME NEW e \in Events, log' = Append(log, e) PROVE log' \in Seq(Events)
      BY <3>1, <3>2, AppendProperties
    <3> QED BY <3>1, <3>2
  <2>3. ran' \subseteq Nat \X Turns
    BY DEF TypeOK
  <2> QED BY <2>1, <2>2, <2>3 DEF TypeOK, Events
<1>2. pc \in [Turns -> TurnSteps] /\ local \in [Turns -> Locals] /\ log \in Seq(Events)
  BY DEF TypeOK, Events
<1>3. OneTurnAtATime' /\ CancelInv'
  BY <1>2 DEF OneTurnAtATime, CancelInv, InTurn, Inside
<1>4. StartInv'
  BY <1>2 DEF StartInv, Inside, Posting, Turns
<1>5. ToolInv'
  BY <1>2 DEF ToolInv
<1>6. RunInv'
  <2>1. \A i : MayRun(log, i) => MayRun(log', i)
    BY <1>2, GrowsMayRun
  <2>2. \A x \in ran' : MayRun(log', x[1])
    BY <2>1 DEF RunInv
  <2>3. ASSUME NEW u \in Turns
        PROVE  /\ pc'[u] \in {"run", "runAllowed"} => MayRun(log', local'[u].use)
               /\ \A d \in local'[u].todo : d.verdict = "allow" => MayRun(log', d.use)
    <3>1. CASE u = t
      BY <1>2, <3>1
    <3>2. CASE u # t
      BY <1>2, <2>1, <3>2 DEF RunInv
    <3> QED BY <3>1, <3>2
  <2> QED BY <2>2, <2>3 DEF RunInv
<1>7. ClosedInv' /\ TurnClosedOnce'
  <2>1. \A u \in Turns : pc[u] \in Over => pc'[u] \in Over
    BY <1>2 DEF Over, Inside
  <2>2. pc[t] \notin Over
    BY DEF Over, Inside
  <2>3. pc'[t] = to /\ "release" \in Over
    BY <1>2 DEF Over
  <2> QED BY <1>1, <2>1, <2>2, <2>3, LogStep DEF TypeOK
<1> QED BY <1>1, <1>3, <1>4, <1>5, <1>6, <1>7

(***************************************************************************)
(* The kinds of steps a turn is made of.                                   *)
(***************************************************************************)

\* What InsideStep needs of the current state, from the invariant.
LEMMA Facts ==
  ASSUME IInv, NEW t \in Turns
  PROVE  /\ log \in Seq(Events) /\ status \in Statuses
         /\ faults \in Nat /\ outages \in Nat /\ crashes \in Nat
         /\ pc \in [Turns -> TurnSteps]
         /\ local \in [Turns -> Locals] /\ local[t] \in Locals
         /\ local = [local EXCEPT ![t] = local[t]]
         /\ Thread(t) \in Threads
         /\ pc[t] \in {"tool", "run", "publishResult"} => local[t].tools # << >>
         /\ pc[t] \in {"run", "runAllowed"} => MayRun(log, local[t].use)
         /\ \A d \in local[t].todo : d.verdict = "allow" => MayRun(log, d.use)
  BY DEF IInv, TypeOK, Events, ToolInv, RunInv, Turns, Thread

\* Where a turn may go next without a tool at hand or a permission.
Free == Inside \ {"tool", "run", "runAllowed", "publishResult"}

\* Steps that write the row: MarkRunning and its like, and those of the defers.
LEMMA StatusStepInv ==
  ASSUME IInv, NEW t \in Turns, NEW from \in Inside \ {"release"}, NEW s \in Statuses, NEW to \in Free,
         StatusStep(t, from, s, to) \/ DeferredStatus(t, from, s, to)
  PROVE  IInv'
<1> USE DEF StatusStep, DeferredStatus, Attempt, SetStatus, Goto
<1>1. /\ UNCHANGED <<daemon, req, mu, canceller, interrupted, log, ran>>
      /\ pc[t] \in Inside \ {"release"} /\ pc' = [pc EXCEPT ![t] = to]
      /\ local' = [local EXCEPT ![t] = local[t]]
      /\ status' \in Statuses /\ {faults', outages', crashes'} \subseteq Nat
  BY Facts
<1> QED BY <1>1, Facts, InsideStep DEF Free

\* Steps that publish an event: only a turn on its way out publishes a closing one.
LEMMA EventStepInv ==
  ASSUME IInv, NEW t \in Turns, NEW from \in Inside \ {"release"}, NEW e \in Events, NEW to \in Free,
         e.by = t, e.type \in Closing => to = "release",
         EventStep(t, from, e, to) \/ DeferredEvent(t, from, e, to)
  PROVE  IInv'
<1> USE DEF EventStep, DeferredEvent, Attempt, Publish, Goto
<1>1. /\ UNCHANGED <<daemon, req, mu, canceller, interrupted, ran>>
      /\ pc[t] \in Inside \ {"release"} /\ pc' = [pc EXCEPT ![t] = to]
      /\ local' = [local EXCEPT ![t] = local[t]]
      /\ status' \in Statuses /\ {faults', outages', crashes'} \subseteq Nat
      /\ log' = log \/ log' = Append(log, e)
  BY Facts
<1>2. \A d \in local[t].todo : d.verdict = "allow" => MayRun(log', d.use)
  <2>1. CASE log' = log
    BY <2>1, Facts
  <2>2. CASE log' = Append(log, e)
    BY <2>2, Facts, GrowsMayRun
  <2> QED BY <1>1, <2>1, <2>2
<1> QED BY <1>1, <1>2, Facts, InsideStep DEF Free

\* Steps on the variables of a turn: it must have a tool and a permission for
\* where it goes.
LEMMA LocalStepInv ==
  ASSUME IInv, NEW t \in Turns, NEW from \in Inside \ {"release"}, NEW l \in Locals, NEW to \in Inside,
         LocalStep(t, from, l, to),
         to \in {"tool", "run", "publishResult"} => l.tools # << >>,
         to \in {"run", "runAllowed"} => MayRun(log, l.use),
         \A d \in l.todo : d.verdict = "allow" => MayRun(log, d.use)
  PROVE  IInv'
<1> USE DEF LocalStep, Goto
<1>1. /\ UNCHANGED <<daemon, req, mu, canceller, interrupted, log, ran>>
      /\ pc[t] \in Inside \ {"release"} /\ pc' = [pc EXCEPT ![t] = to]
      /\ local' = [local EXCEPT ![t] = l]
      /\ status' \in Statuses /\ {faults', outages', crashes'} \subseteq Nat
  BY Facts
<1>2. /\ to \in {"run", "runAllowed"} => MayRun(log', l.use)
      /\ \A d \in l.todo : d.verdict = "allow" => MayRun(log', d.use)
  BY <1>1
<1> HIDE DEF LocalStep, Goto
<1> QED BY <1>1, <1>2, InsideStep

\* Executions of tools: only where the invariant says that the use may run.
LEMMA ExecuteInv ==
  ASSUME IInv, NEW t \in Turns, NEW from \in {"run", "runAllowed"}, NEW to \in Inside,
         to \notin {"tool", "run", "runAllowed"},
         to = "publishResult" => from = "run",
         Execute(t, from, to)
  PROVE  IInv'
<1> USE DEF Execute, Goto
<1>1. /\ UNCHANGED <<daemon, req, mu, canceller, interrupted, log>>
      /\ pc[t] \in Inside \ {"release"} /\ pc' = [pc EXCEPT ![t] = to]
      /\ local' = [local EXCEPT ![t] = local[t]]
      /\ status' \in Statuses /\ {faults', outages', crashes'} \subseteq Nat
  BY Facts DEF Inside, TurnSteps
<1>2. ran' = ran \cup {<<local[t].use, t>>} /\ local[t].use \in Nat /\ MayRun(log', local[t].use)
  BY <1>1, Facts DEF Locals
<1>3. /\ to = "publishResult" => local[t].tools # << >>
      /\ \A d \in local[t].todo : d.verdict = "allow" => MayRun(log', d.use)
      /\ local[t] \in Locals
  BY <1>1, Facts
<1> HIDE DEF Execute, Goto
<1>4. \E i \in Nat : ran' = ran \cup {<<i, t>>} /\ MayRun(log', i)
  BY <1>2
<1> QED BY <1>1, <1>3, <1>4, InsideStep

(***************************************************************************)
(* The actions of a turn.                                                  *)
(***************************************************************************)
\* The writes of the row, by StatusStepInv.
LEMMA StatusActions ==
  ASSUME IInv, NEW t \in Turns,
         \/ MarkRunning(t) \/ MarkRescheduling(t) \/ MarkRetrying(t) \/ MarkAction(t)
         \/ MarkAsking(t) \/ MarkIdle(t) \/ MarkInterrupted(t) \/ MarkTerminated(t)
  PROVE  IInv'
<1> USE DEF Free, Inside, TurnSteps, Statuses
<1>1. ASSUME MarkRunning(t) PROVE IInv'
  BY <1>1, StatusStepInv DEF MarkRunning
<1>2. ASSUME MarkRescheduling(t) PROVE IInv'
  BY <1>2, StatusStepInv DEF MarkRescheduling
<1>3. ASSUME MarkRetrying(t) PROVE IInv'
  BY <1>3, StatusStepInv DEF MarkRetrying
<1>4. ASSUME MarkAction(t) PROVE IInv'
  BY <1>4, StatusStepInv DEF MarkAction
<1>5. ASSUME MarkAsking(t) PROVE IInv'
  BY <1>5, StatusStepInv DEF MarkAsking
<1>6. ASSUME MarkIdle(t) PROVE IInv'
  BY <1>6, StatusStepInv DEF MarkIdle
<1>7. ASSUME MarkInterrupted(t) PROVE IInv'
  BY <1>7, StatusStepInv DEF MarkInterrupted
<1>8. ASSUME MarkTerminated(t) PROVE IInv'
  BY <1>8, StatusStepInv DEF MarkTerminated
<1> QED BY <1>1, <1>2, <1>3, <1>4, <1>5, <1>6, <1>7, <1>8

\* The events of a turn, by EventStepInv.
LEMMA EventActions ==
  ASSUME IInv, NEW t \in Turns,
         \/ PublishRunning(t) \/ PublishResolved(t) \/ PublishRescheduled(t) \/ PublishAction(t)
         \/ PublishAsking(t) \/ PublishIdle(t) \/ PublishInterrupted(t) \/ PublishTerminated(t)
  PROVE  IInv'
<1>1. /\ {"publishRunning", "publishResolved", "publishRescheduled", "publishAction", "publishAsking",
          "publishIdle", "publishInterrupt", "publishTerminated"} \subseteq Inside \ {"release"}
      /\ {"resolve", "resolving", "backoff", "release"} \subseteq Free
  BY DEF Free, Inside, TurnSteps
<1>2. /\ Thread(t) \in Threads /\ Primary \in Threads
      /\ local[t].stop \in Infos /\ local[t].use \in Nat
  BY Facts, ConstantsAssumption DEF Locals, Infos
<1>3. /\ {"running", "rescheduled", "tool_result", "requires_action", "idle", "terminated"} \subseteq EventTypes
      /\ {"running", "rescheduled", "tool_result"} \cap Closing = {}
      /\ {"", "requires_action", "interrupt", "agent_error"} \subseteq Infos
  BY DEF EventTypes, Triggers, Closing, Infos
<1>4. ASSUME PublishRunning(t) PROVE IInv'
  <2> DEFINE e == Event("running", Thread(t), t, "")
  <2>1. e \in Events /\ e.by = t /\ e.type = "running"
    BY <1>2, <1>3 DEF Event, Events
  <2>2. EventStep(t, "publishRunning", e, "resolve")
    BY <1>4 DEF PublishRunning
  <2> HIDE DEF e
  <2> QED BY <1>1, <1>3, <2>1, <2>2, EventStepInv
<1>5. ASSUME PublishResolved(t) PROVE IInv'
  <2>1. ToolResult(t) \in Events /\ ToolResult(t).by = t /\ ToolResult(t).type = "tool_result"
    BY <1>2, <1>3 DEF ToolResult, About, Event, Events
  <2> QED BY <1>1, <1>3, <1>5, <2>1, EventStepInv DEF PublishResolved
<1>6. ASSUME PublishRescheduled(t) PROVE IInv'
  <2> DEFINE e == Event("rescheduled", Primary, t, "")
  <2>1. e \in Events /\ e.by = t /\ e.type = "rescheduled"
    BY <1>2, <1>3 DEF Event, Events
  <2>2. EventStep(t, "publishRescheduled", e, "backoff")
    BY <1>6 DEF PublishRescheduled
  <2> HIDE DEF e
  <2> QED BY <1>1, <1>3, <2>1, <2>2, EventStepInv
<1>7. ASSUME PublishAction(t) PROVE IInv'
  <2> DEFINE e == Event("requires_action", Thread(t), t, "")
  <2>1. e \in Events /\ e.by = t /\ e.type = "requires_action"
    BY <1>2, <1>3 DEF Event, Events
  <2>2. EventStep(t, "publishAction", e, "release")
    BY <1>7 DEF PublishAction
  <2> HIDE DEF e
  <2> QED BY <1>1, <1>3, <2>1, <2>2, EventStepInv
<1>8. ASSUME PublishAsking(t) PROVE IInv'
  <2> DEFINE e == Event("idle", Thread(t), t, "requires_action")
  <2>1. e \in Events /\ e.by = t /\ e.type = "idle"
    BY <1>2, <1>3 DEF Event, Events
  <2>2. EventStep(t, "publishAsking", e, "release")
    BY <1>8 DEF PublishAsking
  <2> HIDE DEF e
  <2> QED BY <1>1, <1>3, <2>1, <2>2, EventStepInv
<1>9. ASSUME PublishIdle(t) PROVE IInv'
  <2> DEFINE e == Event("idle", Thread(t), t, local[t].stop)
  <2>1. e \in Events /\ e.by = t /\ e.type = "idle"
    BY <1>2, <1>3 DEF Event, Events
  <2>2. EventStep(t, "publishIdle", e, "release")
    BY <1>9 DEF PublishIdle
  <2> HIDE DEF e
  <2> QED BY <1>1, <1>3, <2>1, <2>2, EventStepInv
<1>10. ASSUME PublishInterrupted(t) PROVE IInv'
  <2> DEFINE e == Event("idle", Thread(t), t, "interrupt")
  <2>1. e \in Events /\ e.by = t /\ e.type = "idle"
    BY <1>2, <1>3 DEF Event, Events
  <2>2. DeferredEvent(t, "publishInterrupt", e, "release")
    BY <1>10 DEF PublishInterrupted
  <2> HIDE DEF e
  <2> QED BY <1>1, <1>3, <2>1, <2>2, EventStepInv
<1>11. ASSUME PublishTerminated(t) PROVE IInv'
  <2> DEFINE e == Event("terminated", Thread(t), t, "agent_error")
  <2>1. e \in Events /\ e.by = t /\ e.type = "terminated"
    BY <1>2, <1>3 DEF Event, Events
  <2>2. DeferredEvent(t, "publishTerminated", e, "release")
    BY <1>11 DEF PublishTerminated
  <2> HIDE DEF e
  <2> QED BY <1>1, <1>3, <2>1, <2>2, EventStepInv
<1> QED BY <1>4, <1>5, <1>6, <1>7, <1>8, <1>9, <1>10, <1>11

\* The first of the pending decisions is one of them.
LEMMA FirstOfIn ==
  ASSUME NEW S \in SUBSET [use : Nat, verdict : {"allow", "deny"}], S # {}
  PROVE  FirstOf(S) \in S
<1> DEFINE Uses == {d.use : d \in S}
           Less == {x \in Nat \X Nat : x[1] < x[2]}
<1>1. Uses \subseteq Nat /\ Uses # {}
  OBVIOUS
<1>2. PICK n \in Uses : \A m \in Uses : n <= m
  <2>1. IsWellFoundedOn(Less, Nat)
    BY NatLessThanWellFounded DEF OpToRel
  <2> HIDE DEF Uses, Less
  <2>2. PICK n \in Uses : \A m \in Uses : <<m, n>> \notin Less
    BY <1>1, <2>1, WFMin
  <2>3. ASSUME NEW m \in Uses PROVE n <= m
    <3>1. m \in Nat /\ n \in Nat
      BY <1>1
    <3>2. ~(m < n)
      BY <2>2, <3>1 DEF Less
    <3> QED BY <3>1, <3>2
  <2> QED BY <2>3
<1>3. PICK d \in S : d.use = n
  OBVIOUS
<1>4. \A e \in S : d.use <= e.use
  BY <1>2, <1>3
<1> QED BY <1>4 DEF FirstOf

\* The local steps.  ReadConfirmations is where a permission comes from: the last
\* verdict about a use is an event of the log.
LEMMA LocalActions ==
  ASSUME IInv, NEW t \in Turns,
         \/ Begin(t) \/ ReadConfirmations(t) \/ ResolveNext(t) \/ BeginStep(t)
         \/ ModelReplies(t) \/ WaitBackoff(t)
  PROVE  IInv'
<1> USE DEF Inside, TurnSteps
<1> DEFINE l == local[t]
<1>0. /\ l \in Locals
      /\ \A d \in l.todo : d.verdict = "allow" => MayRun(log, d.use)
  BY Facts
<1>1. ASSUME Begin(t) PROVE IInv'
  BY <1>0, <1>1, LocalStepInv DEF Begin
<1>2. ASSUME WaitBackoff(t) PROVE IInv'
  BY <1>0, <1>2, LocalStepInv DEF WaitBackoff
<1>3. ASSUME ReadConfirmations(t) PROVE IInv'
  <2>1. CASE Cancelled(t)
    BY <1>0, <1>3, <2>1, LocalStepInv DEF ReadConfirmations
  <2>2. CASE ~Cancelled(t)
    <3> DEFINE todo == Confirmed(Thread(t))
               new == [l EXCEPT !.todo = todo]
    <3>1. log \in Seq(Events)
      BY Facts
    <3>2. \A j \in DOMAIN log : log[j].type \in {"allow", "deny"} =>
            Decision(j) \in [use : Nat, verdict : {"allow", "deny"}]
      <4>1. \A j \in DOMAIN log : log[j] \in Events
        BY <3>1
      <4>2. \A e \in Events : e.ref \in Nat
        BY DEF Events
      <4> QED BY <4>1, <4>2 DEF Decision
    <3>3. todo \subseteq [use : Nat, verdict : {"allow", "deny"}]
      BY <3>2 DEF Confirmed, Verdicts
    <3>4. \A d \in todo : d.verdict = "allow" => MayRun(log, d.use)
      <4>1. SUFFICES ASSUME NEW j \in DOMAIN log, NEW i \in AskedUses(Thread(t)), j \in Verdicts(i),
                            Decision(j).verdict = "allow"
                     PROVE  MayRun(log, Decision(j).use)
        BY DEF Confirmed
      <4>2. log[j].type = "allow" /\ log[j].ref = i /\ i \in DOMAIN log /\ Decision(j).use = i
        BY <4>1 DEF Decision, Verdicts, AskedUses
      <4> QED BY <4>2 DEF MayRun
    <3>5. new \in Locals /\ new.todo = todo
      BY <1>0, <3>3 DEF Locals
    <3>6. LocalStep(t, "resolve", new, "resolving")
      BY <1>3, <2>2 DEF ReadConfirmations
    <3> HIDE DEF new, todo
    <3> QED BY <3>4, <3>5, <3>6, LocalStepInv
  <2> QED BY <2>1, <2>2
<1>4. ASSUME ResolveNext(t) PROVE IInv'
  <2>1. CASE l.todo = {}
    BY <1>0, <1>4, <2>1, LocalStepInv DEF ResolveNext
  <2>2. CASE l.todo # {}
    <3> DEFINE d == FirstOf(l.todo)
               new == [l EXCEPT !.todo = @ \ {d}, !.use = d.use]
               to == IF d.verdict = "allow" THEN "runAllowed" ELSE "publishResolved"
    <3>1. d \in l.todo /\ d.use \in Nat
      BY <1>0, <2>2, FirstOfIn DEF Locals
    <3>2. new \in Locals /\ new.todo = l.todo \ {d} /\ new.use = d.use
      BY <1>0, <3>1 DEF Locals
    <3>3. to \in Inside /\ to \notin {"tool", "run", "publishResult"}
          /\ (to = "runAllowed" => MayRun(log, new.use))
          /\ \A x \in new.todo : x.verdict = "allow" => MayRun(log, x.use)
      BY <1>0, <3>1, <3>2
    <3>4. LocalStep(t, "resolving", new, to)
      BY <1>4, <2>2 DEF ResolveNext
    <3> HIDE DEF new, to, d
    <3> QED BY <3>2, <3>3, <3>4, LocalStepInv
  <2> QED BY <2>1, <2>2
<1>5. ASSUME BeginStep(t) PROVE IInv'
  <2> DEFINE max == [l EXCEPT !.stop = "max_turns"]
             new == [l EXCEPT !.attempt = 0, !.seen = Len(log)]
  <2>1. max \in Locals /\ max.todo = l.todo /\ new \in Locals /\ new.todo = l.todo
    <3>1. Len(log) \in Nat
      BY Facts
    <3>2. max \in Locals /\ max.todo = l.todo
      BY <1>0 DEF Locals
    <3>3. new \in Locals /\ new.todo = l.todo
      BY <1>0, <3>1 DEF Locals
    <3> QED BY <3>2, <3>3
  <2>2. \/ LocalStep(t, "loop", max, "finish")
        \/ LocalStep(t, "loop", l, "interrupt")
        \/ LocalStep(t, "loop", new, "model")
    BY <1>5 DEF BeginStep
  <2> HIDE DEF max, new
  <2> QED BY <1>0, <2>1, <2>2, LocalStepInv
<1>6. ASSUME ModelReplies(t) PROVE IInv'
  <2>1. PICK tools \in Replies :
          LocalStep(t, "model", [l EXCEPT !.tools = tools, !.stop = "end_turn"],
                    IF tools = << >> THEN "finish" ELSE "tool")
    BY <1>6 DEF ModelReplies
  <2> DEFINE new == [l EXCEPT !.tools = tools, !.stop = "end_turn"]
  <2>2. new \in Locals /\ new.tools = tools /\ new.todo = l.todo
    BY <1>0, ConstantsAssumption DEF Locals
  <2>3. LocalStep(t, "model", new, IF tools = << >> THEN "finish" ELSE "tool")
    BY <2>1
  <2> HIDE DEF new
  <2> QED BY <1>0, <2>2, <2>3, LocalStepInv
<1> QED BY <1>1, <1>2, <1>3, <1>4, <1>5, <1>6

\* The two places where a tool runs, by ExecuteInv.
LEMMA ExecuteActions ==
  ASSUME IInv, NEW t \in Turns, RunAllowed(t) \/ RunTool(t)
  PROVE  IInv'
  BY ExecuteInv DEF RunAllowed, RunTool, Inside, TurnSteps

\* The failures and retries of calls.
LEMMA ModelAndCallActions ==
  ASSUME IInv, NEW t \in Turns, CallFails(t) \/ ModelUnavailable(t)
  PROVE  IInv'
<1> USE DEF Goto
<1> DEFINE l == local[t]
<1>0. /\ l \in Locals /\ local = [local EXCEPT ![t] = l]
      /\ \A d \in l.todo : d.verdict = "allow" => MayRun(log, d.use)
      /\ faults \in Nat /\ outages \in Nat /\ crashes \in Nat /\ status \in Statuses
  BY Facts
<1>1. {"begin", "resolve", "loop", "model"} \subseteq Inside \ {"release"}
      /\ {"terminate", "reschedule"} \subseteq Free
  BY DEF Free, Inside, TurnSteps
<1>2. ASSUME CallFails(t) PROVE IInv'
  <2>1. /\ UNCHANGED <<daemon, req, mu, canceller, interrupted, log, ran, status>>
        /\ pc[t] \in Inside \ {"release"} /\ pc' = [pc EXCEPT ![t] = "terminate"]
        /\ local' = [local EXCEPT ![t] = l]
        /\ {faults', outages', crashes'} \subseteq Nat
    <3>1. /\ UNCHANGED <<daemon, req, mu, canceller, interrupted, log, ran, status, local, faults, crashes>>
          /\ pc[t] \in {"begin", "resolve", "loop", "model"} /\ pc' = [pc EXCEPT ![t] = "terminate"]
          /\ outages' = outages + 1
      BY <1>2 DEF CallFails, Outage
    <3>2. outages' \in Nat
      BY <1>0, <3>1
    <3> QED BY <1>0, <1>1, <3>1, <3>2
  <2> HIDE DEF l
  <2> QED BY <1>0, <1>1, <2>1, InsideStep DEF Free
<1>3. ASSUME ModelUnavailable(t) PROVE IInv'
  <2> DEFINE new == [l EXCEPT !.attempt = @ + 1]
  <2>1. new \in Locals /\ new.todo = l.todo
    <3>1. l \in Locals
      BY <1>0
    <3> HIDE DEF l
    <3>2. l.attempt + 1 \in Nat
      BY <3>1 DEF Locals
    <3> QED BY <3>1, <3>2 DEF Locals
  <2>2. /\ UNCHANGED <<daemon, req, mu, canceller, interrupted, log, ran, status, faults, outages, crashes>>
        /\ pc[t] \in Inside \ {"release"}
        /\ \/ pc' = [pc EXCEPT ![t] = "reschedule"] /\ local' = [local EXCEPT ![t] = new]
           \/ pc' = [pc EXCEPT ![t] = "terminate"] /\ local' = [local EXCEPT ![t] = l]
    BY <1>0, <1>1, <1>3 DEF ModelUnavailable
  <2> HIDE DEF l, new
  <2> QED BY <1>0, <1>1, <2>1, <2>2, InsideStep DEF Free
<1> QED BY <1>2, <1>3

\* The events of a tool use.  One that needs to be asked about does not go to "run".
LEMMA ToolActions ==
  ASSUME IInv, NEW t \in Turns, PublishToolUse(t) \/ PublishResult(t)
  PROVE  IInv'
<1> USE DEF Goto, Attempt, Publish
<1> DEFINE l == local[t]
<1>0. /\ l \in Locals /\ log \in Seq(Events)
      /\ \A d \in l.todo : d.verdict = "allow" => MayRun(log, d.use)
      /\ faults \in Nat /\ outages \in Nat /\ crashes \in Nat /\ status \in Statuses
      /\ Thread(t) \in Threads
      /\ pc[t] \in {"tool", "publishResult"} => l.tools # << >>
  BY Facts
<1>1. {"tool", "publishResult"} \subseteq Inside \ {"release"}
      /\ {"interrupt", "terminate", "publishResult", "markAction", "markAsking", "run", "loop", "tool"}
           \subseteq Inside
  BY DEF Inside, TurnSteps
<1>2. ASSUME NEW e \in Events, NEW d, MayRun(log, d), log' = log \/ log' = Append(log, e)
      PROVE  MayRun(log', d)
  <2>1. CASE log' = log
    BY <1>2, <2>1
  <2>2. CASE log' = Append(log, e)
    BY <1>0, <1>2, <2>2, GrowsMayRun
  <2> QED BY <1>2, <2>1, <2>2
<1>3. ASSUME PublishToolUse(t) PROVE IInv'
  <2> DEFINE kind == Head(l.tools)
             e == Event("tool_use", Thread(t), t, kind)
             to(ok) == CASE ~ok /\ Cancelled(t) -> "interrupt"
                         [] ~ok /\ ~Cancelled(t) -> "terminate"
                         [] ok -> CASE kind = "guarded" -> "publishResult"
                                    [] kind = "custom" -> "markAction"
                                    [] kind = "ask" -> "markAsking"
                                    [] OTHER -> "run"
             new(ok) == [l EXCEPT !.use = IF ok THEN Len(log) + 1 ELSE @]
  <2>1. l.tools \in Seq(ToolKinds) /\ l.tools # << >> /\ pc[t] = "tool"
    BY <1>0, <1>3 DEF Locals, PublishToolUse
  <2>2. e \in Events /\ e.by = t /\ e.type = "tool_use" /\ e.info = kind /\ "tool_use" \notin Closing
    <3>1. kind \in Infos /\ "tool_use" \in EventTypes
      <4>1. kind \in ToolKinds
        BY <2>1, HeadTailProperties
      <4> QED BY <4>1 DEF Infos, EventTypes
    <3> QED BY <1>0, <3>1 DEF Event, Events, Closing
  <2>3. PICK ok \in BOOLEAN :
          /\ Attempt(Cancelled(t), ok) /\ Publish(ok, e)
          /\ local' = [local EXCEPT ![t] = new(ok)] /\ pc' = [pc EXCEPT ![t] = to(ok)]
          /\ UNCHANGED <<daemon, status, req, mu, canceller, interrupted, ran, outages, crashes>>
    BY <1>3 DEF PublishToolUse
  <2>4. /\ new(ok) \in Locals /\ new(ok).tools = l.tools /\ new(ok).todo = l.todo
        /\ ok => new(ok).use = Len(log) + 1
    <3>1. Len(log) + 1 \in Nat
      BY <1>0
    <3> QED BY <1>0, <3>1 DEF Locals
  <2>5. /\ to(ok) \in Inside /\ to(ok) \notin {"release", "tool", "runAllowed"}
        /\ to(ok) = "run" => ok /\ kind # "ask"
    BY <1>1
  <2>6. ok => log' = Append(log, e)
    BY <2>3
  <2>7. to(ok) = "run" => MayRun(log', new(ok).use)
    <3>1. SUFFICES ASSUME ok, kind # "ask" PROVE MayRun(log', Len(log) + 1)
      BY <2>4, <2>5
    <3>2. Len(log) + 1 \in DOMAIN log' /\ log'[Len(log) + 1] = e
      BY <1>0, <2>2, <2>6, <3>1
    <3> HIDE DEF e
    <3> QED BY <2>2, <3>1, <3>2 DEF MayRun
  <2>8. \A d \in new(ok).todo : d.verdict = "allow" => MayRun(log', d.use)
    BY <1>0, <1>2, <2>2, <2>3, <2>4
  <2>9. log' = log \/ log' = Append(log, e)
    BY <2>3
  <2>10. {faults', outages', crashes'} \subseteq Nat /\ status' \in Statuses
    BY <1>0, <2>3
  <2>11. pc[t] \in Inside \ {"release"}
    BY <1>1, <2>1
  <2> HIDE DEF e, to, new, l, kind, Goto, Attempt, Publish
  <2> QED BY <2>1, <2>2, <2>3, <2>4, <2>5, <2>7, <2>8, <2>9, <2>10, <2>11, InsideStep
<1>4. ASSUME PublishResult(t) PROVE IInv'
  <2> DEFINE rest == Tail(l.tools)
             e == ToolResult(t)
             to == IF rest = << >> THEN "loop" ELSE "tool"
             new == [l EXCEPT !.tools = rest, !.step = IF rest = << >> THEN l.step + 1 ELSE l.step]
  <2>1. l.tools \in Seq(ToolKinds) /\ l.tools # << >> /\ pc[t] = "publishResult" /\ l.use \in Nat
    BY <1>0, <1>4 DEF Locals, PublishResult
  <2>2. e \in Events /\ e.by = t /\ e.type = "tool_result" /\ "tool_result" \notin Closing
    <3>1. "" \in Infos /\ "tool_result" \in EventTypes
      BY DEF Infos, EventTypes
    <3> QED BY <1>0, <2>1, <3>1 DEF ToolResult, About, Event, Events, Closing
  <2>3. new \in Locals /\ new.tools = rest /\ new.todo = l.todo
    <3>1. rest \in Seq(ToolKinds)
      BY <2>1, HeadTailProperties
    <3> HIDE DEF rest
    <3>2. l.step + 1 \in Nat
      BY <1>0 DEF Locals
    <3> QED BY <1>0, <3>1, <3>2 DEF Locals
  <2>4. /\ local' = [local EXCEPT ![t] = new] /\ pc' = [pc EXCEPT ![t] = to]
        /\ UNCHANGED <<daemon, status, req, mu, canceller, interrupted, ran, outages, crashes>>
        /\ log' = log \/ log' = Append(log, e)
        /\ faults' \in Nat
    <3>1. log' = log \/ log' = Append(log, e)
      BY <1>4 DEF PublishResult
    <3>2. faults' \in Nat
      BY <1>0, <1>4 DEF PublishResult
    <3>3. /\ local' = [local EXCEPT ![t] = [@ EXCEPT !.tools = rest,
                                    !.step = IF rest = << >> THEN l.step + 1 ELSE l.step]]
          /\ pc' = [pc EXCEPT ![t] = to]
          /\ UNCHANGED <<daemon, status, req, mu, canceller, interrupted, ran, outages, crashes>>
      BY <1>4 DEF PublishResult
    <3>4. local \in [Turns -> Locals]
      BY Facts
    <3>5. local' = [local EXCEPT ![t] = new]
      BY <3>3, <3>4
    <3> QED BY <3>1, <3>2, <3>3, <3>5
  <2>5. to \in Inside /\ to \in {"loop", "tool"} /\ (to = "tool" => rest # << >>)
    BY <1>1
  <2>6. \A d \in new.todo : d.verdict = "allow" => MayRun(log', d.use)
    BY <1>0, <1>2, <2>2, <2>3, <2>4
  <2>7. {faults', outages', crashes'} \subseteq Nat /\ status' \in Statuses
    BY <1>0, <2>4
  <2>8. pc[t] \in Inside \ {"release"}
    BY <1>1, <2>1
  <2> HIDE DEF e, to, new, l, rest, Goto, Attempt, Publish
  <2> QED BY <2>2, <2>3, <2>4, <2>5, <2>6, <2>7, <2>8, InsideStep
<1> QED BY <1>3, <1>4

(***************************************************************************)
(* Steps outside the body of a turn: they touch no tool, no permission and *)
(* no event of a turn.                                                     *)
(***************************************************************************)
Outer == {"none", "waiting", "locked", "begin", "unlock", "done", "killed"}

LEMMA OuterStep ==
  ASSUME IInv, TypeOK', ran' = ran,
         \/ log' = log
         \/ \E e \in Events : log' = Append(log, e) /\ e.by \notin Turns,
         \A u \in Turns :
           \/ pc'[u] = pc[u] /\ local'[u] = local[u]
           \/ /\ pc'[u] \in Outer /\ local'[u] \in {local[u], NewLocal}
              /\ pc[u] \in Over => pc'[u] \in Over
  PROVE  ToolInv' /\ RunInv' /\ ClosedInv' /\ TurnClosedOnce'
<1> USE DEF IInv
<1>1. ToolInv'
  BY DEF ToolInv, Outer
<1>2. \A i : MayRun(log, i) => MayRun(log', i)
  <2>1. log \in Seq(Events)
    BY DEF TypeOK, Events
  <2> QED BY <2>1, GrowsMayRun
<1>3. RunInv'
  <2>1. \A x \in ran' : MayRun(log', x[1])
    BY <1>2 DEF RunInv
  <2>2. ASSUME NEW u \in Turns
        PROVE  /\ pc'[u] \in {"run", "runAllowed"} => MayRun(log', local'[u].use)
               /\ \A d \in local'[u].todo : d.verdict = "allow" => MayRun(log', d.use)
    <3>1. CASE local'[u] = local[u]
      BY <1>2, <3>1 DEF RunInv, Outer
    <3>2. CASE local'[u] # local[u]
      BY <3>2 DEF NewLocal, Outer
    <3> QED BY <3>1, <3>2
  <2> QED BY <2>1, <2>2 DEF RunInv
<1>4. ClosedInv' /\ TurnClosedOnce'
  <2>1. pc' \in [Turns -> TurnSteps]
    BY DEF TypeOK
  <2>2. \A u \in Turns : pc[u] \in Over => pc'[u] \in Over
    OBVIOUS
  <2> QED BY <2>1, <2>2, LogStep
<1> QED BY <1>1, <1>3, <1>4

\* The mutex and the registered cancel function change hands.
LEMMA LockActions ==
  ASSUME IInv, NEW t \in Turns,
         LockTurn(t) \/ RegisterCancel(t) \/ UnregisterCancel(t) \/ UnlockTurn(t)
  PROVE  IInv'
<1> USE DEF Goto
<1>1. PICK to \in {"locked", "begin", "unlock", "done"} :
        /\ pc' = [pc EXCEPT ![t] = to]
        /\ pc[t] \in {"waiting", "locked", "release", "unlock"}
        /\ pc[t] \in Over => to \in Over
        /\ UNCHANGED <<daemon, status, log, req, interrupted, ran, faults, outages, crashes>>
        /\ local' = local \/ local' = [local EXCEPT ![t] = NewLocal]
        /\ {mu', canceller'} \subseteq {mu, canceller, t, NoTurn}
  BY DEF LockTurn, RegisterCancel, UnregisterCancel, UnlockTurn, Over
<1>2. pc \in [Turns -> TurnSteps] /\ local \in [Turns -> Locals] /\ {mu, canceller} \subseteq Turns \cup {NoTurn}
      /\ NoTurn \notin Turns
  BY ConstantsAssumption DEF IInv, TypeOK, Turns
<1>3. TypeOK'
  <2>1. NewLocal \in Locals
    BY DEF NewLocal, Locals
  <2>2. pc' \in [Turns -> TurnSteps] /\ local' \in [Turns -> Locals]
    BY <1>1, <1>2, <2>1 DEF TurnSteps
  <2> QED BY <1>1, <1>2, <2>2 DEF IInv, TypeOK
<1>4. \A u \in Turns :
        \/ pc'[u] = pc[u] /\ local'[u] = local[u]
        \/ /\ pc'[u] \in Outer /\ local'[u] \in {local[u], NewLocal}
           /\ pc[u] \in Over => pc'[u] \in Over
  BY <1>1, <1>2 DEF Outer
<1>5. ToolInv' /\ RunInv' /\ ClosedInv' /\ TurnClosedOnce'
  BY <1>1, <1>3, <1>4, OuterStep
<1>6. StartInv'
  BY <1>1, <1>2 DEF IInv, StartInv
<1>7. OneTurnAtATime' /\ CancelInv'
  <2> USE <1>2 DEF IInv, OneTurnAtATime, CancelInv, InTurn, Inside, TurnSteps
  <2>1. CASE LockTurn(t)
    BY <2>1 DEF LockTurn
  <2>2. CASE RegisterCancel(t)
    BY <2>2 DEF RegisterCancel
  <2>3. CASE UnregisterCancel(t)
    BY <2>3 DEF UnregisterCancel
  <2>4. CASE UnlockTurn(t)
    BY <2>4 DEF UnlockTurn
  <2> QED BY <2>1, <2>2, <2>3, <2>4
<1> QED BY <1>3, <1>5, <1>6, <1>7 DEF IInv

(***************************************************************************)
(* The handler, the crash and the recovery.                                *)
(***************************************************************************)
\* A step of a handler that has not yet started its turns.
LEMMA RequestStep ==
  ASSUME IInv, NEW r \in Requests, NEW q \in RequestStates,
         req' = [req EXCEPT ![r] = q], req[r].pc \in Posting,
         UNCHANGED <<daemon, status, pc, local, mu, canceller, ran>>,
         interrupted' \subseteq Turns, {faults', outages', crashes'} \subseteq Nat,
         \/ log' = log
         \/ \E e \in Events : log' = Append(log, e) /\ e.by \notin Turns
  PROVE  IInv'
<1>1. TypeOK'
  <2>1. req' \in [Requests -> RequestStates]
    BY DEF IInv, TypeOK
  <2>2. log' \in Seq(Events)
    <3>1. log \in Seq(Events)
      BY DEF IInv, TypeOK, Events
    <3> QED BY <3>1
  <2> QED BY <2>1, <2>2 DEF IInv, TypeOK, Events
<1>2. OneTurnAtATime' /\ CancelInv'
  BY DEF IInv, OneTurnAtATime, CancelInv, InTurn
<1>3. StartInv'
  BY DEF IInv, TypeOK, StartInv
<1>4. ToolInv' /\ RunInv' /\ ClosedInv' /\ TurnClosedOnce'
  BY <1>1, OuterStep
<1> QED BY <1>1, <1>2, <1>3, <1>4 DEF IInv

\* What the loop of postEvents reads and publishes: a malformed event never gets
\* into the log.
LEMMA UserEvents ==
  ASSUME IInv, NEW r \in Requests, PublishUserEvent(r)
  PROVE  /\ req[r].pc = "posting"
         /\ req[r].body[req[r].next] \in [kind : UserKinds, thread : Threads]
         /\ faults' \in Nat
         /\ \/ log' = log
            \/ \E e \in Events : log' = Append(log, e) /\ e.by \notin Turns /\ e.type \in UserKinds
<1> DEFINE q == req[r]
           u == q.body[q.next]
<1>1. /\ q.body \in Seq([kind : UserKinds, thread : Threads]) /\ q.next \in Nat \ {0}
      /\ faults \in Nat /\ log \in Seq(Events)
  BY DEF IInv, TypeOK, RequestStates, Events
<1>2. q.pc = "posting" /\ u \in [kind : UserKinds, thread : Threads]
  <2>1. q.pc = "posting" /\ q.next <= Len(q.body)
    BY DEF PublishUserEvent
  <2> HIDE DEF q
  <2>2. q.next \in 1 .. Len(q.body)
    BY <1>1, <2>1
  <2>3. q.body[q.next] \in [kind : UserKinds, thread : Threads]
    BY <1>1, <2>2, ElementOfSeq
  <2> QED BY <2>1, <2>3
<1>3. PICK ok \in BOOLEAN, ref \in IF u.kind \in {"allow", "deny"} THEN AskedUses(u.thread) ELSE {0} :
        /\ Attempt(u.kind = "malformed", ok)
        /\ Publish(ok, About(ref, Event(u.kind, u.thread, r, "")))
  BY DEF PublishUserEvent
<1> DEFINE e == About(ref, Event(u.kind, u.thread, r, ""))
<1>4. ref \in Nat
  <2>1. \A thread : AskedUses(thread) \subseteq Nat
    BY <1>1 DEF AskedUses
  <2>2. CASE u.kind \in {"allow", "deny"}
    <3> HIDE DEF u
    <3>1. ref \in AskedUses(u.thread)
      BY <2>2
    <3> QED BY <2>1, <3>1
  <2>3. CASE u.kind \notin {"allow", "deny"}
    BY <2>3
  <2> QED BY <2>2, <2>3
<1>5. ok => e \in Events /\ e.by \notin Turns /\ e.type \in UserKinds
  <2>1. ok => u.kind \in EventTypes
    BY <1>2, <1>3 DEF Attempt, EventTypes, UserKinds
  <2>2. r \notin Turns /\ "" \in Infos
    BY ConstantsAssumption DEF Turns, Infos
  <2> QED BY <1>2, <1>4, <2>1, <2>2 DEF About, Event, Events
<1>6. log' = log \/ (ok /\ log' = Append(log, e))
  BY <1>3 DEF Publish
<1>7. faults' \in Nat
  <2>1. faults' = faults \/ faults' = faults + 1
    BY <1>3 DEF Attempt
  <2> QED BY <1>1, <2>1
<1> HIDE DEF e
<1> QED BY <1>2, <1>5, <1>6, <1>7

\* The loop of postEvents, by RequestStep.
LEMMA HandlerActions ==
  ASSUME IInv, NEW r \in Requests, PostEvents(r) \/ PublishUserEvent(r) \/ LoadCancel(r) \/ CallCancel(r)
  PROVE  IInv'
<1> DEFINE q == req[r]
<1>1. /\ q \in RequestStates /\ req \in [Requests -> RequestStates]
      /\ q.body \in Seq([kind : UserKinds, thread : Threads]) /\ q.next \in Nat \ {0}
      /\ q.threads \subseteq Threads /\ q.cancel \in Turns \cup {NoTurn}
      /\ faults \in Nat /\ outages \in Nat /\ crashes \in Nat
      /\ interrupted \subseteq Turns /\ canceller \in Turns \cup {NoTurn}
      /\ log \in Seq(Events)
  BY DEF IInv, TypeOK, RequestStates, Events
<1>2. ASSUME PostEvents(r) PROVE IInv'
  <2> DEFINE new == [q EXCEPT !.pc = "posting"]
  <2>1. new \in RequestStates /\ q.pc \in Posting
    BY <1>1, <1>2 DEF PostEvents, RequestStates, Posting
  <2>2. req' = [req EXCEPT ![r] = new]
    BY <1>1, <1>2 DEF PostEvents
  <2> HIDE DEF new
  <2> QED BY <1>1, <1>2, <2>1, <2>2, RequestStep DEF PostEvents, harness
<1>3. ASSUME LoadCancel(r) PROVE IInv'
  <2> DEFINE new == [q EXCEPT !.pc = "cancelling", !.cancel = canceller]
  <2>1. new \in RequestStates /\ q.pc \in Posting
    BY <1>1, <1>3 DEF LoadCancel, RequestStates, Posting
  <2>2. req' = [req EXCEPT ![r] = new]
    BY <1>1, <1>3 DEF LoadCancel
  <2> HIDE DEF new
  <2> QED BY <1>1, <1>3, <2>1, <2>2, RequestStep DEF LoadCancel, harness
<1>4. ASSUME CallCancel(r) PROVE IInv'
  <2> DEFINE new == [q EXCEPT !.pc = "posting", !.cancel = NoTurn, !.next = @ + 1]
  <2>1. new \in RequestStates /\ q.pc \in Posting
    <3>1. q.next + 1 \in Nat \ {0}
      BY <1>1
    <3>2. q.pc \in Posting
      BY <1>4 DEF CallCancel, Posting
    <3> HIDE DEF q
    <3> QED BY <1>1, <3>1, <3>2 DEF RequestStates
  <2>2. req' = [req EXCEPT ![r] = new]
    BY <1>1, <1>4 DEF CallCancel
  <2>3. interrupted' \subseteq Turns
    BY <1>1, <1>4 DEF CallCancel
  <2>4. UNCHANGED <<daemon, status, log, pc, local, mu, canceller, ran, faults, outages, crashes>>
    BY <1>4 DEF CallCancel
  <2> HIDE DEF new
  <2> QED BY <1>1, <2>1, <2>2, <2>3, <2>4, RequestStep
<1>5. ASSUME PublishUserEvent(r) PROVE IInv'
  <2> DEFINE u == q.body[q.next]
             more == [q EXCEPT !.next = @ + 1, !.threads = @ \cup {u.thread}]
             refused == [q EXCEPT !.pc = "refused"]
             stop == [q EXCEPT !.pc = "interrupting"]
  <2>1. q.pc \in Posting /\ u.thread \in Threads
    BY <1>5, UserEvents DEF Posting
  <2>2. more \in RequestStates
    <3>1. q.next + 1 \in Nat \ {0}
      BY <1>1
    <3> QED BY <1>1, <2>1, <3>1 DEF RequestStates
  <2>3. refused \in RequestStates /\ stop \in RequestStates
    BY <1>1 DEF RequestStates
  <2>4. PICK new \in {more, refused, stop} : req' = [req EXCEPT ![r] = new]
    BY <1>5 DEF PublishUserEvent
  <2>5. UNCHANGED <<daemon, status, outages, crashes, pc, local, mu, canceller, interrupted, ran>>
    BY <1>5 DEF PublishUserEvent, harness
  <2>6. /\ {faults', outages', crashes'} \subseteq Nat
        /\ \/ log' = log
           \/ \E e \in Events : log' = Append(log, e) /\ e.by \notin Turns
    BY <1>1, <1>5, <2>5, UserEvents
  <2>7. new \in RequestStates /\ interrupted' \subseteq Turns
    BY <1>1, <2>2, <2>3, <2>5
  <2> HIDE DEF more, refused, stop, u
  <2> QED BY <2>1, <2>4, <2>5, <2>6, <2>7, RequestStep
<1> QED BY <1>2, <1>3, <1>4, <1>5

\* Turns start where there was none.
LEMMA StartTurnsInv ==
  ASSUME IInv, NEW r \in Requests, StartTurns(r)
  PROVE  IInv'
<1>1. /\ req[r].pc = "posting" /\ req' = [req EXCEPT ![r].pc = "accepted"]
      /\ pc' = [t \in Turns |-> IF t[1] = r /\ Thread(t) \in req[r].threads THEN "waiting" ELSE pc[t]]
      /\ UNCHANGED <<daemon, status, log, local, mu, canceller, interrupted, ran, faults, outages, crashes>>
  BY DEF StartTurns
<1>2. /\ req \in [Requests -> RequestStates] /\ pc \in [Turns -> TurnSteps]
      /\ {mu, canceller} \subseteq Turns \cup {NoTurn} /\ NoTurn \notin Turns
  BY ConstantsAssumption DEF IInv, TypeOK, Turns
<1>3. \A t \in Turns : pc'[t] = pc[t] \/ (pc[t] = "none" /\ pc'[t] = "waiting")
  <2>1. SUFFICES ASSUME NEW t \in Turns, t[1] = r PROVE pc[t] = "none"
    BY <1>1
  <2>2. t = <<r, t[2]>> /\ t[2] \in Threads
    BY <2>1 DEF Turns
  <2> QED BY <1>1, <2>2 DEF IInv, StartInv, Posting
<1>4. TypeOK'
  <2>1. req' \in [Requests -> RequestStates]
    <3>1. [req[r] EXCEPT !.pc = "accepted"] \in RequestStates
      BY <1>2 DEF RequestStates
    <3> QED BY <1>1, <1>2, <3>1
  <2>2. pc' \in [Turns -> TurnSteps]
    BY <1>1, <1>2 DEF TurnSteps
  <2> QED BY <1>1, <2>1, <2>2 DEF IInv, TypeOK
<1>5. OneTurnAtATime' /\ CancelInv'
  BY <1>1, <1>2, <1>3 DEF IInv, OneTurnAtATime, CancelInv, InTurn, Inside
<1>6. StartInv'
  <2>1. SUFFICES ASSUME NEW s \in Requests, NEW x \in Threads, req'[s].pc \in Posting
                 PROVE  pc'[<<s, x>>] = "none"
    BY DEF StartInv
  <2>2. s # r /\ req'[s] = req[s]
    BY <1>1, <1>2, <2>1 DEF Posting
  <2>3. <<s, x>> \in Turns /\ <<s, x>>[1] # r
    BY <2>2 DEF Turns
  <2> QED BY <1>1, <2>1, <2>2, <2>3 DEF IInv, StartInv
<1>7. ToolInv' /\ RunInv' /\ ClosedInv' /\ TurnClosedOnce'
  BY <1>1, <1>3, <1>4, OuterStep DEF Outer, Over
<1> QED BY <1>4, <1>5, <1>6, <1>7 DEF IInv

\* A crash leaves no turn inside, and the log as it is.
LEMMA CrashInv ==
  ASSUME IInv, Crash
  PROVE  IInv'
<1>1. /\ daemon' = "down" /\ crashes' = crashes + 1
      /\ pc' = [t \in Turns |-> IF InTurn(t) \/ pc[t] = "waiting" THEN "killed" ELSE pc[t]]
      /\ local' = [t \in Turns |-> NewLocal]
      /\ req' = [r \in Requests |->
                   IF req[r].pc \in {"posting", "interrupting", "cancelling"}
                     THEN [req[r] EXCEPT !.pc = "killed", !.cancel = NoTurn] ELSE req[r]]
      /\ mu' = NoTurn /\ canceller' = NoTurn
      /\ UNCHANGED <<status, log, interrupted, ran, faults, outages>>
  BY DEF Crash
<1>2. req \in [Requests -> RequestStates] /\ pc \in [Turns -> TurnSteps]
  BY DEF IInv, TypeOK
<1>3. \A t \in Turns : /\ pc'[t] \in {"none", "done", "killed"}
                       /\ pc'[t] # "killed" => pc'[t] = pc[t]
                       /\ pc[t] = "none" => pc'[t] = "none"
                       /\ local'[t] = NewLocal
  BY <1>1, <1>2 DEF InTurn, TurnSteps
<1>4. TypeOK'
  <2>1. req' \in [Requests -> RequestStates]
    <3>1. \A r \in Requests : [req[r] EXCEPT !.pc = "killed", !.cancel = NoTurn] \in RequestStates
      BY <1>2 DEF RequestStates
    <3> QED BY <1>1, <1>2, <3>1
  <2>2. pc' \in [Turns -> TurnSteps]
    BY <1>1, <1>2 DEF TurnSteps
  <2>3. local' \in [Turns -> Locals]
    <3>1. NewLocal \in Locals
      BY DEF NewLocal, Locals
    <3> QED BY <1>1, <3>1
  <2>4. {faults', outages', crashes'} \subseteq Nat
    <3>1. faults \in Nat /\ outages \in Nat /\ crashes \in Nat
      BY DEF IInv, TypeOK
    <3>2. faults' = faults /\ outages' = outages /\ crashes' = crashes + 1
      BY <1>1
    <3>3. faults' \in Nat /\ outages' \in Nat /\ crashes' \in Nat
      BY <3>1, <3>2
    <3> QED BY <3>3
  <2> QED BY <1>1, <2>1, <2>2, <2>3, <2>4 DEF IInv, TypeOK
<1>5. OneTurnAtATime' /\ CancelInv'
  BY <1>1, <1>3 DEF OneTurnAtATime, CancelInv, InTurn
<1>6. StartInv'
  <2>1. \A r \in Requests : req'[r].pc \in Posting => req'[r] = req[r]
    <3>1. \A r \in Requests : [req[r] EXCEPT !.pc = "killed", !.cancel = NoTurn].pc = "killed"
      BY <1>2 DEF RequestStates
    <3> QED BY <1>1, <3>1 DEF Posting
  <2>2. \A r \in Requests, x \in Threads : <<r, x>> \in Turns
    BY DEF Turns
  <2> QED BY <1>3, <2>1, <2>2 DEF IInv, StartInv
<1>7. ToolInv' /\ RunInv' /\ ClosedInv' /\ TurnClosedOnce'
  <2>1. \A u \in Turns :
          /\ pc'[u] \in Outer /\ local'[u] \in {local[u], NewLocal}
          /\ pc[u] \in Over => pc'[u] \in Over
    BY <1>2, <1>3 DEF Outer, Over
  <2> QED BY <1>1, <1>4, <2>1, OuterStep
<1> QED BY <1>4, <1>5, <1>6, <1>7 DEF IInv

\* The recovery publishes for no turn.
LEMMA RecoverInv ==
  ASSUME IInv, Recover
  PROVE  IInv'
<1>1. UNCHANGED <<req, pc, local, mu, canceller, interrupted, ran, outages, crashes>>
  BY DEF Recover, RecoverList, RecoverMark, RecoverPublish, harness
<1>2. daemon' \in {"serving", "recoverMark", "recoverPublish"}
  BY DEF Recover, RecoverList, RecoverMark, RecoverPublish
<1>3. status' = status \/ status' = "terminated"
  BY DEF Recover, RecoverList, RecoverMark, RecoverPublish, SetStatus
<1>4. faults' = faults \/ faults' = faults + 1
  BY DEF Recover, RecoverList, RecoverMark, RecoverPublish, Attempt
<1>5. log' = log \/ \E e \in Events : log' = Append(log, e) /\ e.by \notin Turns
  <2> DEFINE e == Event("terminated", Primary, NoTurn, "interrupted")
  <2>1. log' = log \/ log' = Append(log, e)
    BY DEF Recover, RecoverList, RecoverMark, RecoverPublish, Publish
  <2>2. e \in Events /\ e.by \notin Turns
    BY ConstantsAssumption DEF Event, Events, EventTypes, Infos, Turns
  <2> HIDE DEF e
  <2> QED BY <2>1, <2>2
<1>6. TypeOK'
  <2>1. status' \in Statuses /\ faults' \in Nat
    BY <1>3, <1>4 DEF IInv, TypeOK, Statuses
  <2>2. log' \in Seq(Events)
    <3>1. log \in Seq(Events)
      BY DEF IInv, TypeOK, Events
    <3> QED BY <1>5, <3>1
  <2> QED BY <1>1, <1>2, <2>1, <2>2 DEF IInv, TypeOK, Events
<1>7. OneTurnAtATime' /\ CancelInv' /\ StartInv'
  BY <1>1 DEF IInv, OneTurnAtATime, CancelInv, StartInv, InTurn
<1>8. ToolInv' /\ RunInv' /\ ClosedInv' /\ TurnClosedOnce'
  BY <1>1, <1>5, <1>6, OuterStep
<1> QED BY <1>6, <1>7, <1>8 DEF IInv

(***************************************************************************)
(* The theorems.                                                           *)
(***************************************************************************)
\* The invariant is inductive.
LEMMA NextIInv == IInv /\ [Next]_vars => IInv'
<1> SUFFICES ASSUME IInv, [Next]_vars PROVE IInv'
  OBVIOUS
<1>1. ASSUME NEW r \in Requests, PostEvents(r) \/ HandlerStep(r) PROVE IInv'
  BY <1>1, HandlerActions, StartTurnsInv DEF HandlerStep
<1>2. ASSUME NEW t \in Turns, TurnStep(t) PROVE IInv'
  <2>1. ASSUME \/ MarkRunning(t) \/ MarkRescheduling(t) \/ MarkRetrying(t) \/ MarkAction(t)
               \/ MarkAsking(t) \/ MarkIdle(t) \/ MarkInterrupted(t) \/ MarkTerminated(t)
        PROVE  IInv'
    BY <2>1, StatusActions
  <2>2. ASSUME \/ PublishRunning(t) \/ PublishResolved(t) \/ PublishRescheduled(t) \/ PublishAction(t)
               \/ PublishAsking(t) \/ PublishIdle(t) \/ PublishInterrupted(t) \/ PublishTerminated(t)
        PROVE  IInv'
    BY <2>2, EventActions
  <2>3. ASSUME \/ Begin(t) \/ ReadConfirmations(t) \/ ResolveNext(t) \/ BeginStep(t)
               \/ ModelReplies(t) \/ WaitBackoff(t)
        PROVE  IInv'
    BY <2>3, LocalActions
  <2>4. ASSUME RunAllowed(t) \/ RunTool(t) PROVE IInv'
    BY <2>4, ExecuteActions
  <2>5. ASSUME CallFails(t) \/ ModelUnavailable(t) PROVE IInv'
    BY <2>5, ModelAndCallActions
  <2>6. ASSUME PublishToolUse(t) \/ PublishResult(t) PROVE IInv'
    BY <2>6, ToolActions
  <2>7. ASSUME LockTurn(t) \/ RegisterCancel(t) \/ UnregisterCancel(t) \/ UnlockTurn(t) PROVE IInv'
    BY <2>7, LockActions
  <2> QED BY <1>2, <2>1, <2>2, <2>3, <2>4, <2>5, <2>6, <2>7 DEF TurnStep
<1>3. ASSUME Crash PROVE IInv'
  BY <1>3, CrashInv
<1>4. ASSUME Recover PROVE IInv'
  BY <1>4, RecoverInv
<1>5. ASSUME UNCHANGED vars PROVE IInv'
  BY <1>5 DEF vars, IInv, TypeOK, OneTurnAtATime, CancelInv, StartInv, ToolInv, RunInv,
              ClosedInv, TurnClosedOnce, InTurn
<1> QED BY <1>1, <1>2, <1>3, <1>4, <1>5 DEF Next

\* Everything below follows from the one inductive invariant.
LEMMA Inductive == Spec => []IInv
  BY InitIInv, NextIInv, PTL DEF Spec

\* The row, the log and the variables of the goroutines have their types,
\* whatever is posted, cancelled, lost or killed (store.Session, harness.RunThread).
THEOREM TypesCorrect == Spec => []TypeOK
<1>1. IInv => TypeOK
  BY DEF IInv
<1> QED BY <1>1, Inductive, PTL

\* turnMu excludes: only the turn that holds it is between lockTurn and the
\* unlock, and Interrupt can only find the cancel function of that turn.
THEOREM TurnsExclude == Spec => []OneTurnAtATime
<1>1. IInv => OneTurnAtATime
  BY DEF IInv
<1> QED BY <1>1, Inductive, PTL

\* The idle, requires_action or terminated event of a turn is its only one and
\* its last event, also when a defer of RunThread is what publishes it.
THEOREM TurnsCloseOnce == Spec => []TurnClosedOnce
<1>1. IInv => TurnClosedOnce
  BY DEF IInv
<1> QED BY <1>1, Inductive, PTL

\* No tool under always_ask is executed, in the turn that asks or in the one
\* that resolves, before a user.tool_confirmation has allowed that very use.
THEOREM AskedToolsNeedPermission == Spec => []RunsOnlyIfAllowed
<1>1. IInv => RunsOnlyIfAllowed
  BY DEF IInv, RunInv, MayRun, RunsOnlyIfAllowed
<1> QED BY <1>1, Inductive, PTL

(***************************************************************************)
(* One result per use.  A second invariant, on top of the first: the uses  *)
(* that a turn is about to answer have no result yet.                      *)
(***************************************************************************)
Unanswered(L, i) ==
  /\ i \in DOMAIN L
  /\ \A j \in DOMAIN L : L[j].type = "tool_result" => L[j].ref # i

\* What a turn at step p with variables l relies on.
Answers(L, p, l) ==
  /\ p \in {"resolving", "runAllowed", "publishResolved"} =>
       /\ \A d \in l.todo : Unanswered(L, d.use)
       /\ \A d, e \in l.todo : d.use = e.use => d = e
  /\ p \in {"runAllowed", "publishResolved"} => \A d \in l.todo : d.use # l.use
  /\ p \in {"runAllowed", "publishResolved", "run", "publishResult"} => Unanswered(L, l.use)

ResultInv ==
  /\ OneResultPerUse
  /\ \A i \in DOMAIN log : log[i].type = "tool_result" => log[i].ref \in DOMAIN log
  /\ \A t \in Turns : Answers(log, pc[t], local[t])

\* Where a turn answers nothing.
Idle == TurnSteps \ {"resolving", "runAllowed", "publishResolved", "run", "publishResult"}

\* Any other event leaves an unanswered use unanswered.
LEMMA UnansweredGrows ==
  ASSUME NEW L \in Seq(Events), NEW e \in Events, e.type # "tool_result", NEW i, Unanswered(L, i)
  PROVE  Unanswered(Append(L, e), i)
  BY DEF Unanswered

LEMMA AnswersGrows ==
  ASSUME NEW L \in Seq(Events), NEW e \in Events, e.type # "tool_result", NEW p, NEW l, Answers(L, p, l)
  PROVE  Answers(Append(L, e), p, l)
  BY UnansweredGrows DEF Answers

\* Steps that publish no result.
LEMMA NoResultStep ==
  ASSUME IInv, ResultInv,
         \/ log' = log
         \/ \E e \in Events : log' = Append(log, e) /\ e.type # "tool_result",
         \A u \in Turns :
           (pc'[u] = pc[u] /\ local'[u] = local[u]) \/ Answers(log', pc'[u], local'[u])
  PROVE  ResultInv'
<1>1. log \in Seq(Events)
  BY DEF IInv, TypeOK, Events
<1>2. CASE log' = log
  BY <1>2 DEF ResultInv, OneResultPerUse
<1>3. ASSUME NEW e \in Events, log' = Append(log, e), e.type # "tool_result"
      PROVE  ResultInv'
  <2>1. /\ DOMAIN log' = DOMAIN log \cup {Len(log) + 1}
        /\ log'[Len(log) + 1] = e
        /\ \A i \in DOMAIN log : log'[i] = log[i]
    BY <1>1, <1>3
  <2>2. OneResultPerUse'
    BY <1>3, <2>1 DEF ResultInv, OneResultPerUse
  <2>3. \A i \in DOMAIN log' : log'[i].type = "tool_result" => log'[i].ref \in DOMAIN log'
    BY <1>3, <2>1 DEF ResultInv
  <2>4. \A u \in Turns : Answers(log', pc'[u], local'[u])
    BY <1>1, <1>3, AnswersGrows DEF ResultInv
  <2> QED BY <2>2, <2>3, <2>4 DEF ResultInv
<1> QED BY <1>2, <1>3

\* The two steps that publish one: no other turn is inside.
LEMMA ResultStep ==
  ASSUME IInv, ResultInv, NEW t \in Turns, pc[t] \in {"publishResolved", "publishResult"},
         NEW to, NEW l, pc' = [pc EXCEPT ![t] = to], local' = [local EXCEPT ![t] = l],
         NEW e \in Events, e.type = "tool_result", e.ref = local[t].use,
         log' = Append(log, e), Answers(log', to, l)
  PROVE  ResultInv'
<1>1. /\ log \in Seq(Events) /\ pc \in [Turns -> TurnSteps] /\ local \in [Turns -> Locals]
  BY DEF IInv, TypeOK, Events
<1>2. /\ DOMAIN log' = DOMAIN log \cup {Len(log) + 1}
      /\ log'[Len(log) + 1] = e
      /\ \A i \in DOMAIN log : log'[i] = log[i]
  BY <1>1
<1>3. Unanswered(log, e.ref)
  BY DEF ResultInv, Answers
<1>4. OneResultPerUse'
  BY <1>2, <1>3 DEF ResultInv, OneResultPerUse, Unanswered
<1>5. \A i \in DOMAIN log' : log'[i].type = "tool_result" => log'[i].ref \in DOMAIN log'
  BY <1>2, <1>3 DEF ResultInv, Unanswered
<1>6. ASSUME NEW u \in Turns PROVE Answers(log', pc'[u], local'[u])
  <2>1. CASE u = t
    BY <1>1, <2>1
  <2>2. CASE u # t
    <3>1. ~InTurn(u)
      BY <1>1, <2>2 DEF IInv, OneTurnAtATime, InTurn
    <3>2. pc'[u] \in {"none", "waiting", "done", "killed"}
      BY <1>1, <2>2, <3>1 DEF InTurn
    <3> QED BY <3>2 DEF Answers
  <2> QED BY <2>1, <2>2
<1> QED BY <1>4, <1>5, <1>6 DEF ResultInv

\* The first invariant's steps that concern no result.
LEMMA IdleStep ==
  ASSUME IInv, ResultInv, NEW t \in Turns, NEW to \in Idle, pc' = [pc EXCEPT ![t] = to],
         \A u \in Turns \ {t} : local'[u] = local[u],
         \/ log' = log
         \/ \E e \in Events : log' = Append(log, e) /\ e.type # "tool_result"
  PROVE  ResultInv'
<1>1. pc \in [Turns -> TurnSteps]
  BY DEF IInv, TypeOK
<1>2. Answers(log', pc'[t], local'[t])
  BY <1>1 DEF Answers, Idle
<1> QED BY <1>1, <1>2, NoResultStep

\* The steps of a turn that have nothing to do with results.
LEMMA IdleActions ==
  ASSUME IInv, ResultInv, NEW t \in Turns,
         \/ LockTurn(t) \/ RegisterCancel(t) \/ Begin(t) \/ CallFails(t) \/ MarkRunning(t) \/ PublishRunning(t)
         \/ BeginStep(t) \/ ModelReplies(t) \/ ModelUnavailable(t)
         \/ MarkRescheduling(t) \/ PublishRescheduled(t) \/ WaitBackoff(t) \/ MarkRetrying(t)
         \/ MarkAction(t) \/ PublishAction(t) \/ MarkAsking(t) \/ PublishAsking(t)
         \/ MarkIdle(t) \/ PublishIdle(t)
         \/ MarkInterrupted(t) \/ PublishInterrupted(t) \/ MarkTerminated(t) \/ PublishTerminated(t)
         \/ UnregisterCancel(t) \/ UnlockTurn(t)
  PROVE  ResultInv'
<1> USE DEF Goto
<1>0. local \in [Turns -> Locals] /\ pc \in [Turns -> TurnSteps]
  BY DEF IInv, TypeOK
<1>1. ASSUME \/ MarkRunning(t) \/ MarkRescheduling(t) \/ MarkRetrying(t) \/ MarkAction(t)
             \/ MarkAsking(t) \/ MarkIdle(t) \/ MarkInterrupted(t) \/ MarkTerminated(t)
      PROVE  ResultInv'
  <2>1. PICK to \in Idle : pc' = [pc EXCEPT ![t] = to] /\ UNCHANGED <<log, local>>
    BY <1>1 DEF MarkRunning, MarkRescheduling, MarkRetrying, MarkAction, MarkAsking, MarkIdle,
                MarkInterrupted, MarkTerminated, StatusStep, DeferredStatus, Idle, TurnSteps
  <2> QED BY <2>1, IdleStep
<1>2. ASSUME \/ PublishRunning(t) \/ PublishRescheduled(t) \/ PublishAction(t) \/ PublishAsking(t)
             \/ PublishIdle(t) \/ PublishInterrupted(t) \/ PublishTerminated(t)
      PROVE  ResultInv'
  <2>1. PICK to \in Idle, thread \in Threads, info \in Infos,
             type \in {"running", "rescheduled", "requires_action", "idle", "terminated"} :
          /\ pc' = [pc EXCEPT ![t] = to]
          /\ UNCHANGED local
          /\ log' = log \/ log' = Append(log, Event(type, thread, t, info))
    <3>1. Thread(t) \in Threads /\ Primary \in Threads
      BY Facts, ConstantsAssumption
    <3>2. local[t].stop \in Infos /\ {"", "requires_action", "interrupt", "agent_error"} \subseteq Infos
      BY <1>0 DEF Locals, Infos
    <3> USE DEF EventStep, DeferredEvent, Publish, Idle, TurnSteps
    <3>3. CASE PublishRunning(t)
      BY <3>1, <3>2, <3>3 DEF PublishRunning
    <3>4. CASE PublishRescheduled(t)
      BY <3>1, <3>2, <3>4 DEF PublishRescheduled
    <3>5. CASE PublishAction(t)
      BY <3>1, <3>2, <3>5 DEF PublishAction
    <3>6. CASE PublishAsking(t)
      BY <3>1, <3>2, <3>6 DEF PublishAsking
    <3>7. CASE PublishIdle(t)
      BY <3>1, <3>2, <3>7 DEF PublishIdle
    <3>8. CASE PublishInterrupted(t)
      BY <3>1, <3>2, <3>8 DEF PublishInterrupted
    <3>9. CASE PublishTerminated(t)
      BY <3>1, <3>2, <3>9 DEF PublishTerminated
    <3> QED BY <1>2, <3>3, <3>4, <3>5, <3>6, <3>7, <3>8, <3>9
  <2> DEFINE e == Event(type, thread, t, info)
  <2>2. e \in Events /\ e.type # "tool_result"
    BY DEF Event, Events, EventTypes
  <2>3. log' = log \/ log' = Append(log, e)
    BY <2>1
  <2> HIDE DEF e
  <2>4. log' = log \/ \E x \in Events : log' = Append(log, x) /\ x.type # "tool_result"
    BY <2>2, <2>3
  <2>5. \A u \in Turns \ {t} : local'[u] = local[u]
    BY <2>1
  <2> QED BY <2>1, <2>4, <2>5, IdleStep
<1>3. ASSUME \/ Begin(t) \/ CallFails(t) \/ BeginStep(t) \/ ModelReplies(t) \/ ModelUnavailable(t)
             \/ WaitBackoff(t)
      PROVE  ResultInv'
  <2>1. PICK to \in Idle : pc' = [pc EXCEPT ![t] = to]
    BY <1>3 DEF Begin, CallFails, BeginStep, ModelReplies, ModelUnavailable, WaitBackoff, LocalStep,
                Idle, TurnSteps
  <2>2. log' = log /\ \A u \in Turns \ {t} : local'[u] = local[u]
    BY <1>0, <1>3 DEF Begin, CallFails, BeginStep, ModelReplies, ModelUnavailable, WaitBackoff, LocalStep
  <2> QED BY <2>1, <2>2, IdleStep
<1>4. ASSUME LockTurn(t) \/ RegisterCancel(t) \/ UnregisterCancel(t) \/ UnlockTurn(t)
      PROVE  ResultInv'
  <2>1. PICK to \in Idle : pc' = [pc EXCEPT ![t] = to]
    BY <1>4 DEF LockTurn, RegisterCancel, UnregisterCancel, UnlockTurn, Idle, TurnSteps
  <2>2. log' = log /\ \A u \in Turns \ {t} : local'[u] = local[u]
    BY <1>0, <1>4 DEF LockTurn, RegisterCancel, UnregisterCancel, UnlockTurn
  <2> QED BY <2>1, <2>2, IdleStep
<1> QED BY <1>1, <1>2, <1>3, <1>4

\* resolvePendingToolConfirmations takes up only uses without a result, each once.
LEMMA ResolveActions ==
  ASSUME IInv, ResultInv, NEW t \in Turns,
         ReadConfirmations(t) \/ ResolveNext(t) \/ RunAllowed(t) \/ RunTool(t)
  PROVE  ResultInv'
<1> USE DEF Goto
<1> DEFINE l == local[t]
<1>0. /\ local \in [Turns -> Locals] /\ pc \in [Turns -> TurnSteps] /\ log \in Seq(Events)
      /\ l \in Locals /\ Answers(log, pc[t], l)
  BY DEF IInv, TypeOK, Events, ResultInv
<1>1. ASSUME ReadConfirmations(t) PROVE ResultInv'
  <2>1. CASE Cancelled(t)
    <3>1. pc' = [pc EXCEPT ![t] = "interrupt"] /\ local' = [local EXCEPT ![t] = l] /\ log' = log
      BY <1>1, <2>1 DEF ReadConfirmations, LocalStep
    <3>2. "interrupt" \in Idle
      BY DEF Idle, TurnSteps
    <3> QED BY <1>0, <3>1, <3>2, IdleStep
  <2>2. CASE ~Cancelled(t)
    <3> DEFINE todo == Confirmed(Thread(t))
    <3>1. /\ pc' = [pc EXCEPT ![t] = "resolving"] /\ log' = log
          /\ local' = [local EXCEPT ![t] = [l EXCEPT !.todo = todo]]
      BY <1>1, <2>2 DEF ReadConfirmations, LocalStep
    <3>2. \A d \in todo : \E j, i \in DOMAIN log :
            /\ d = Decision(j) /\ j \in Verdicts(i) /\ IsLast(j, i) /\ ~Resolved(i)
      BY DEF Confirmed, AskedUses
    <3>3. \A d \in todo : Unanswered(log, d.use)
      BY <3>2 DEF Decision, Verdicts, Resolved, Unanswered
    <3>4. ASSUME NEW d \in todo, NEW e \in todo, d.use = e.use PROVE d = e
      <4>1. PICK j \in DOMAIN log, i \in DOMAIN log : d = Decision(j) /\ j \in Verdicts(i) /\ IsLast(j, i)
        BY <3>2
      <4>2. PICK k \in DOMAIN log, m \in DOMAIN log : e = Decision(k) /\ k \in Verdicts(m) /\ IsLast(k, m)
        BY <3>2
      <4>3. i = m
        BY <3>4, <4>1, <4>2 DEF Decision, Verdicts
      <4>4. j <= k /\ k <= j /\ j \in Int /\ k \in Int
        BY <1>0, <4>1, <4>2, <4>3 DEF IsLast
      <4> QED BY <4>1, <4>2, <4>4
    <3>5. [l EXCEPT !.todo = todo].todo = todo
      BY <1>0 DEF Locals
    <3>6. Answers(log', pc'[t], local'[t])
      BY <1>0, <3>1, <3>3, <3>4, <3>5 DEF Answers
    <3> QED BY <1>0, <3>1, <3>6, NoResultStep
  <2> QED BY <2>1, <2>2
<1>2. ASSUME ResolveNext(t) PROVE ResultInv'
  <2>1. CASE l.todo = {}
    <3>1. pc' = [pc EXCEPT ![t] = "loop"] /\ local' = [local EXCEPT ![t] = l] /\ log' = log
      BY <1>2, <2>1 DEF ResolveNext, LocalStep
    <3>2. "loop" \in Idle
      BY DEF Idle, TurnSteps
    <3> QED BY <1>0, <3>1, <3>2, IdleStep
  <2>2. CASE l.todo # {}
    <3> DEFINE d == FirstOf(l.todo)
               new == [l EXCEPT !.todo = @ \ {d}, !.use = d.use]
    <3>1. d \in l.todo
      BY <1>0, <2>2, FirstOfIn DEF Locals
    <3>2. PICK to \in {"runAllowed", "publishResolved"} :
            pc' = [pc EXCEPT ![t] = to] /\ local' = [local EXCEPT ![t] = new] /\ log' = log
      BY <1>2, <2>2 DEF ResolveNext, LocalStep
    <3>3. new.todo = l.todo \ {d} /\ new.use = d.use
      BY <1>0 DEF Locals
    <3>4. pc[t] = "resolving"
      BY <1>2, <2>2 DEF ResolveNext, LocalStep
    <3> HIDE DEF d, new
    <3>5. Answers(log', pc'[t], local'[t])
      BY <1>0, <3>1, <3>2, <3>3, <3>4 DEF Answers
    <3> QED BY <1>0, <3>2, <3>5, NoResultStep
  <2> QED BY <2>1, <2>2
<1>3. ASSUME RunAllowed(t) PROVE ResultInv'
  <2>1. pc[t] = "runAllowed" /\ pc' = [pc EXCEPT ![t] = "publishResolved"] /\ UNCHANGED <<local, log>>
    BY <1>3 DEF RunAllowed, Execute
  <2>2. Answers(log', pc'[t], local'[t])
    BY <1>0, <2>1 DEF Answers
  <2> QED BY <1>0, <2>1, <2>2, NoResultStep
<1>4. ASSUME RunTool(t) PROVE ResultInv'
  <2>1. pc[t] = "run" /\ pc' = [pc EXCEPT ![t] = "publishResult"] /\ UNCHANGED <<local, log>>
    BY <1>4 DEF RunTool, Execute
  <2>2. Answers(log', pc'[t], local'[t])
    BY <1>0, <2>1 DEF Answers
  <2> QED BY <1>0, <2>1, <2>2, NoResultStep
<1> QED BY <1>1, <1>2, <1>3, <1>4

\* The steps that publish a tool use or its result.
LEMMA AnswerActions ==
  ASSUME IInv, ResultInv, NEW t \in Turns,
         PublishResolved(t) \/ PublishToolUse(t) \/ PublishResult(t)
  PROVE  ResultInv'
<1> USE DEF Goto, Publish
<1> DEFINE l == local[t]
           e == ToolResult(t)
<1>0. /\ local \in [Turns -> Locals] /\ pc \in [Turns -> TurnSteps] /\ log \in Seq(Events)
      /\ l \in Locals /\ Answers(log, pc[t], l) /\ l.use \in Nat /\ Thread(t) \in Threads
      /\ pc[t] = "tool" => l.tools \in Seq(ToolKinds) /\ l.tools # << >>
  BY Facts DEF IInv, TypeOK, Events, ResultInv, Locals
<1>1. e \in Events /\ e.type = "tool_result" /\ e.ref = l.use
  <2>1. "" \in Infos /\ "tool_result" \in EventTypes
    BY DEF Infos, EventTypes
  <2> QED BY <1>0, <2>1 DEF ToolResult, About, Event, Events
<1>2. ASSUME PublishResolved(t) PROVE ResultInv'
  <2>1. /\ pc[t] = "publishResolved" /\ pc' = [pc EXCEPT ![t] = "resolving"]
        /\ local' = local /\ local' = [local EXCEPT ![t] = l]
        /\ log' = log \/ log' = Append(log, e)
    BY <1>0, <1>2 DEF PublishResolved, EventStep
  <2> HIDE DEF e
  <2>2. CASE log' = log
    <3>1. Answers(log', pc'[t], local'[t])
      BY <1>0, <2>1, <2>2 DEF Answers
    <3> QED BY <1>0, <2>1, <2>2, <3>1, NoResultStep
  <2>3. CASE log' = Append(log, e)
    <3>1. \A i : Unanswered(log, i) /\ i # e.ref => Unanswered(log', i)
      BY <1>0, <1>1, <2>3 DEF Unanswered
    <3>2. Answers(log', "resolving", l)
      BY <1>0, <1>1, <2>1, <3>1 DEF Answers
    <3> QED BY <1>0, <1>1, <2>1, <2>3, <3>2, ResultStep
  <2> QED BY <2>1, <2>2, <2>3
<1>3. ASSUME PublishResult(t) PROVE ResultInv'
  <2>1. PICK to \in {"loop", "tool"} : pc' = [pc EXCEPT ![t] = to]
    BY <1>3 DEF PublishResult
  <2>2. PICK new : local' = [local EXCEPT ![t] = new]
    BY <1>3 DEF PublishResult
  <2>3. pc[t] = "publishResult" /\ (log' = log \/ log' = Append(log, e))
    BY <1>3 DEF PublishResult
  <2> HIDE DEF e
  <2>4. to \in Idle /\ \A u \in Turns \ {t} : local'[u] = local[u]
    BY <1>0, <2>2 DEF Idle, TurnSteps
  <2>5. CASE log' = log
    BY <2>1, <2>4, <2>5, IdleStep
  <2>6. CASE log' = Append(log, e)
    <3>1. Answers(log', to, new)
      BY <2>4 DEF Answers, Idle
    <3> QED BY <1>1, <2>1, <2>2, <2>3, <2>6, <3>1, ResultStep
  <2> QED BY <2>3, <2>5, <2>6
<1>4. ASSUME PublishToolUse(t) PROVE ResultInv'
  <2> DEFINE kind == Head(l.tools)
             use == Event("tool_use", Thread(t), t, kind)
             new(ok) == [l EXCEPT !.use = IF ok THEN Len(log) + 1 ELSE @]
  <2>1. PICK ok \in BOOLEAN, to \in {"interrupt", "terminate", "publishResult", "markAction", "markAsking", "run"} :
          /\ log' = IF ok THEN Append(log, use) ELSE log
          /\ local' = [local EXCEPT ![t].use = IF ok THEN Len(log) + 1 ELSE @]
          /\ pc' = [pc EXCEPT ![t] = to]
          /\ to \in {"publishResult", "run"} => ok
    BY <1>4 DEF PublishToolUse
  <2>2. use \in Events /\ use.type # "tool_result"
    <3>1. pc[t] = "tool"
      BY <1>4 DEF PublishToolUse
    <3>2. kind \in Infos /\ "tool_use" \in EventTypes
      <4>1. kind \in ToolKinds
        BY <1>0, <3>1, HeadTailProperties
      <4> QED BY <4>1 DEF Infos, EventTypes
    <3> QED BY <1>0, <3>2 DEF Event, Events
  <2>3. \A u \in Turns \ {t} : local'[u] = local[u] /\ pc'[u] = pc[u]
    BY <1>0, <2>1
  <2> HIDE DEF use
  <2>4. CASE to \notin {"publishResult", "run"}
    <3>1. to \in Idle
      BY <2>4 DEF Idle, TurnSteps
    <3> QED BY <2>1, <2>2, <2>3, <3>1, IdleStep
  <2>5. CASE to \in {"publishResult", "run"}
    <3>1. ok /\ log' = Append(log, use) /\ local'[t].use = Len(log) + 1 /\ pc'[t] = to
      <4>1. ok /\ local'[t] = new(TRUE)
        BY <1>0, <2>1, <2>5
      <4> QED BY <1>0, <2>1, <4>1 DEF Locals
    <3>2. Unanswered(log', Len(log) + 1)
      BY <1>0, <2>2, <3>1 DEF ResultInv, Unanswered
    <3>3. Answers(log', pc'[t], local'[t])
      BY <2>5, <3>1, <3>2 DEF Answers
    <3> QED BY <2>2, <2>3, <3>1, <3>3, NoResultStep
  <2> QED BY <2>4, <2>5
<1> QED BY <1>2, <1>3, <1>4

\* Clients, crashes and the recovery publish no result.
LEMMA OtherActions ==
  ASSUME IInv, ResultInv,
         (\E r \in Requests : PostEvents(r) \/ HandlerStep(r)) \/ Crash \/ Recover
  PROVE  ResultInv'
<1>0. local \in [Turns -> Locals] /\ pc \in [Turns -> TurnSteps]
  BY DEF IInv, TypeOK
<1>1. ASSUME NEW r \in Requests, PostEvents(r) \/ LoadCancel(r) \/ CallCancel(r) PROVE ResultInv'
  BY <1>1, NoResultStep DEF PostEvents, LoadCancel, CallCancel, harness
<1>2. ASSUME NEW r \in Requests, PublishUserEvent(r) PROVE ResultInv'
  <2>1. UNCHANGED <<pc, local>>
    BY <1>2 DEF PublishUserEvent, harness
  <2>2. log' = log \/ \E e \in Events : log' = Append(log, e) /\ e.type # "tool_result"
    BY <1>2, UserEvents DEF UserKinds, Triggers
  <2> QED BY <2>1, <2>2, NoResultStep
<1>3. ASSUME NEW r \in Requests, StartTurns(r) PROVE ResultInv'
  <2>1. /\ log' = log
        /\ \A u \in Turns : local'[u] = local[u] /\ pc'[u] \in {pc[u], "waiting"}
    BY <1>0, <1>3 DEF StartTurns
  <2>2. \A u \in Turns : pc'[u] = "waiting" => Answers(log', pc'[u], local'[u])
    BY DEF Answers
  <2> QED BY <2>1, <2>2, NoResultStep
<1>4. ASSUME Crash PROVE ResultInv'
  <2>1. log' = log /\ \A u \in Turns : pc'[u] \in {"none", "done", "killed"}
    BY <1>0, <1>4 DEF Crash, InTurn, TurnSteps
  <2>2. \A u \in Turns : Answers(log', pc'[u], local'[u])
    BY <2>1 DEF Answers
  <2> QED BY <2>1, <2>2, NoResultStep
<1>5. ASSUME Recover PROVE ResultInv'
  <2> DEFINE e == Event("terminated", Primary, NoTurn, "interrupted")
  <2>1. UNCHANGED <<pc, local>> /\ (log' = log \/ log' = Append(log, e))
    BY <1>5 DEF Recover, RecoverList, RecoverMark, RecoverPublish, Publish, harness
  <2>2. e \in Events /\ e.type # "tool_result"
    BY ConstantsAssumption DEF Event, Events, EventTypes, Infos, Turns
  <2> HIDE DEF e
  <2> QED BY <2>1, <2>2, NoResultStep
<1> QED BY <1>1, <1>2, <1>3, <1>4, <1>5 DEF HandlerStep

\* Nothing is published when jed starts, and every step keeps the second invariant.
LEMMA InitResultInv == Init => ResultInv
<1> SUFFICES ASSUME Init PROVE ResultInv
  OBVIOUS
<1>1. log = << >> /\ \A t \in Turns : pc[t] = "none"
  BY DEF Init
<1> QED BY <1>1 DEF ResultInv, OneResultPerUse, Answers

LEMMA NextResultInv == IInv /\ ResultInv /\ [Next]_vars => ResultInv'
<1> SUFFICES ASSUME IInv, ResultInv, [Next]_vars PROVE ResultInv'
  OBVIOUS
<1>1. ASSUME NEW t \in Turns, TurnStep(t) PROVE ResultInv'
  BY <1>1, IdleActions, ResolveActions, AnswerActions DEF TurnStep
<1>2. ASSUME (\E r \in Requests : PostEvents(r) \/ HandlerStep(r)) \/ Crash \/ Recover PROVE ResultInv'
  BY <1>2, OtherActions
<1>3. ASSUME UNCHANGED vars PROVE ResultInv'
  BY <1>3, NoResultStep DEF vars
<1> QED BY <1>1, <1>2, <1>3 DEF Next

\* A tool use gets at most one agent.tool_result, however often it is confirmed,
\* and whatever fails, is interrupted or killed between the reading of the log
\* (resolvePendingToolConfirmations) and the publishing of the result.
THEOREM UsesAnsweredOnce == Spec => []OneResultPerUse
<1>1. Spec => []ResultInv
  BY InitResultInv, NextResultInv, Inductive, PTL DEF Spec
<1>2. ResultInv => OneResultPerUse
  BY DEF ResultInv
<1> QED BY <1>1, <1>2, PTL

(***************************************************************************)
(* The row and the log between turns, single executions, and what is       *)
(* behind an interrupted turn.  A third invariant, on top of the others.   *)
(***************************************************************************)
Calm == NothingLost /\ crashes = 0

\* Where a turn has written its last status and not yet published it.
Leaving == {"publishAction", "publishAsking", "publishIdle", "publishInterrupt", "publishTerminated"}
LeftStatus(p) ==
  CASE p = "publishAction" -> "requires_action"
    [] p = "publishTerminated" -> "terminated"
    [] OTHER -> "idle"
Left == {"release", "unlock"}

\* What the last status event of the log says, or that there is none yet.
LastStatus(s) ==
  \/ StatusEvents = {} /\ s = "idle"
  \/ \E i \in StatusEvents : StatusOf(log[i]) = s /\ \A j \in StatusEvents : j <= i

\* The holder of the mutex is inside, and nothing runs until the recovery is over.
HoldInv ==
  /\ mu # NoTurn => InTurn(mu)
  /\ crashes = 0 => daemon = "serving"
  /\ daemon # "serving" =>
       /\ mu = NoTurn
       /\ \A t \in Turns : pc[t] \in {"none", "done", "killed"}
       /\ \A r \in Requests : req[r].pc \notin {"posting", "interrupting", "cancelling"}

\* From the last write of the row until the mutex is free, row and log agree but
\* for the event that is about to be published.
RowInv ==
  Calm => /\ mu = NoTurn \/ pc[mu] \in Left => LastStatus(status)
          /\ mu # NoTurn /\ pc[mu] \in Leaving => status = LeftStatus(pc[mu])

\* A row says running only while a turn is at work, or before the recovery has
\* marked it.
AtWork == mu # NoTurn /\ pc[mu] \notin Leaving \cup Left
ZombieInv ==
  NothingLost /\ daemon \in {"serving", "recoverPublish"} /\ ~AtWork => status \notin {"running", "rescheduling"}

\* A use that was executed has its result, or the turn that executed it is about
\* to publish it.
Answering == {"publishResolved", "publishResult"}
RanInv ==
  Calm => /\ RunsOnce
          /\ \A x \in ran : Resolved(x[1]) \/ (pc[x[2]] \in Answering /\ local[x[2]].use = x[1])

ThirdInv == HoldInv /\ RowInv /\ ZombieInv /\ RanInv

\* One more event at the end of the log.
LEMMA Appended ==
  ASSUME log \in Seq(Events), log' \in Seq(Events), NEW e, log' = Append(log, e)
  PROVE  /\ e \in Events /\ Len(log) \in Nat
         /\ DOMAIN log' = DOMAIN log \cup {Len(log) + 1} /\ Len(log) + 1 \notin DOMAIN log
         /\ log'[Len(log) + 1] = e
         /\ \A i \in DOMAIN log : log'[i] = log[i] /\ i \in Nat /\ i <= Len(log)
<1> DEFINE Any == Events \cup {e}
<1>1. Seq(Events) \subseteq Seq(Any)
  OBVIOUS
<1> HIDE DEF Any
<1>2. log \in Seq(Any) /\ e \in Any
  BY <1>1 DEF Any
<1>3. Len(log') = Len(log) + 1 /\ log'[Len(log) + 1] = e /\ \A i \in 1 .. Len(log) : log'[i] = log[i]
  BY <1>2
<1>4. e \in Events
  BY <1>3
<1> QED BY <1>3, <1>4

\* What the log says of the status, after one more event.
LEMMA LastStatusKept ==
  ASSUME log \in Seq(Events), log' \in Seq(Events), NEW s, LastStatus(s),
         log' = log \/ \E e : log' = Append(log, e) /\ StatusOf(e) \notin Statuses
  PROVE  LastStatus(s)'
<1>1. CASE log' = log
  BY <1>1 DEF LastStatus, StatusEvents
<1>2. ASSUME NEW e, log' = Append(log, e), StatusOf(e) \notin Statuses PROVE LastStatus(s)'
  <2>1. /\ DOMAIN log' = DOMAIN log \cup {Len(log) + 1} /\ log'[Len(log) + 1] = e
        /\ \A i \in DOMAIN log : log'[i] = log[i]
    BY <1>2, Appended
  <2>2. StatusEvents' = StatusEvents
    BY <1>2, <2>1 DEF StatusEvents
  <2>3. \A i \in StatusEvents : log'[i] = log[i]
    BY <2>1 DEF StatusEvents
  <2> QED BY <2>2, <2>3 DEF LastStatus
<1> QED BY <1>1, <1>2

LEMMA LastStatusNew ==
  ASSUME log \in Seq(Events), log' \in Seq(Events), NEW e, log' = Append(log, e), StatusOf(e) \in Statuses
  PROVE  LastStatus(StatusOf(e))'
<1>1. /\ DOMAIN log' = DOMAIN log \cup {Len(log) + 1} /\ log'[Len(log) + 1] = e
      /\ Len(log) \in Nat /\ \A i \in DOMAIN log : i \in Nat /\ i <= Len(log)
  BY Appended
<1>2. Len(log) + 1 \in StatusEvents' /\ \A j \in StatusEvents' : j <= Len(log) + 1
  BY <1>1 DEF StatusEvents
<1> QED BY <1>1, <1>2 DEF LastStatus

(***************************************************************************)
(* What the steps of a turn do to the row, the log and the executions.     *)
(***************************************************************************)
\* A step of t that may change what the third invariant says: the mutex, the
\* status on the way out, and the events.
TurnEffect(t) ==
  /\ UNCHANGED <<daemon, req, interrupted, crashes>>
  /\ pc[t] \notin {"none", "done", "killed"} /\ {faults'} \subseteq {faults, faults + 1}
  /\ \A u \in Turns \ {t} : pc'[u] = pc[u] /\ local'[u] = local[u]
  /\ log' = log \/ \E e : log' = Append(log, e)
  /\ \/ mu' = mu /\ pc[t] \notin {"waiting", "unlock"} /\ pc'[t] \notin {"none", "waiting", "done", "killed"}
     \/ pc[t] = "waiting" /\ mu' = t /\ pc'[t] = "locked" /\ UNCHANGED <<status, log>>
     \/ pc[t] = "unlock" /\ mu' = NoTurn /\ pc'[t] = "done" /\ UNCHANGED <<status, log>>

RowEffect(t) ==
  NothingLost' =>
    /\ pc'[t] \in Leaving => status' = LeftStatus(pc'[t])
    /\ pc'[t] = "release" => /\ pc[t] \in Leaving /\ status' = status
                             /\ \E e : log' = Append(log, e) /\ StatusOf(e) = LeftStatus(pc[t])
    /\ pc'[t] = "unlock" => pc[t] = "release" /\ UNCHANGED <<status, log>>

RanEffect(t) ==
  NothingLost' =>
    \/ ran' = ran /\ pc[t] \notin Answering
    \/ /\ pc[t] \in {"run", "runAllowed"} /\ pc'[t] \in Answering
       /\ ran' = ran \cup {<<local[t].use, t>>} /\ UNCHANGED <<local, log>>
    \/ /\ ran' = ran /\ pc[t] \in Answering
       /\ \E e : log' = Append(log, e) /\ e.type = "tool_result" /\ e.ref = local[t].use

\* A stopped turn was cancelled, and says so at most when it ends.
Stops(e) == e.type = "idle" /\ e.info = "interrupt"
StopEffect(t) ==
  /\ pc'[t] = "interrupt" => t \in interrupted
  /\ pc'[t] = "publishInterrupt" => pc[t] = "interrupt"
  /\ log' = log \/ \E e : log' = Append(log, e) /\ (Stops(e) => e.by = t /\ pc[t] = "publishInterrupt")

Effects(t) == TurnEffect(t) /\ RowEffect(t) /\ RanEffect(t) /\ StopEffect(t)

\* A write fails only when something is lost by it, or has been interrupted before.
LEMMA AttemptSucceeds ==
  ASSUME IInv, NEW t \in Turns, NEW ok \in BOOLEAN, NEW doomed \in {Cancelled(t), FALSE}, Attempt(doomed, ok),
         interrupted' = interrupted
  PROVE  faults' \in {faults, faults + 1} /\ (NothingLost' => ok)
<1>1. faults \in Nat
  BY DEF IInv, TypeOK
<1>2. CASE ok
  BY <1>2 DEF Attempt
<1>3. CASE ~ok /\ doomed
  <2>1. Cancelled(t) /\ faults' = faults
    BY <1>3 DEF Attempt
  <2> QED BY <2>1 DEF Cancelled, NothingLost
<1>4. CASE ~ok /\ ~doomed
  <2>1. faults' = faults + 1 /\ faults' # 0
    BY <1>1, <1>4 DEF Attempt
  <2> QED BY <2>1 DEF NothingLost
<1> QED BY <1>2, <1>3, <1>4

\* The writes of the row.
LEMMA StatusStepEffect ==
  ASSUME IInv, NEW t \in Turns, NEW from, NEW s, NEW to,
         from \in TurnSteps \ ({"none", "waiting", "unlock", "done", "killed"} \cup Answering),
         to \in TurnSteps \ ({"none", "waiting", "done", "killed", "interrupt"} \cup Left),
         to \in Leaving => s = LeftStatus(to), to = "publishInterrupt" => from = "interrupt",
         StatusStep(t, from, s, to) \/ DeferredStatus(t, from, s, to)
  PROVE  Effects(t)
<1>1. pc \in [Turns -> TurnSteps] /\ faults \in Nat /\ interrupted \subseteq Turns
  BY DEF IInv, TypeOK
<1>2. PICK ok \in BOOLEAN, doomed \in {Cancelled(t), FALSE} : Attempt(doomed, ok) /\ SetStatus(ok, s)
  BY DEF StatusStep, DeferredStatus
<1>3. /\ pc[t] = from /\ pc'[t] = to /\ \A u \in Turns \ {t} : pc'[u] = pc[u]
      /\ UNCHANGED <<daemon, log, req, local, mu, canceller, interrupted, ran, outages, crashes>>
  BY <1>1 DEF StatusStep, DeferredStatus, Goto
<1>4. faults' \in {faults, faults + 1} /\ (NothingLost' => ok)
  BY <1>1, <1>2, <1>3, AttemptSucceeds
<1>5. NothingLost' => status' = s
  BY <1>2, <1>4 DEF SetStatus
<1> QED BY <1>3, <1>4, <1>5 DEF Effects, TurnEffect, RowEffect, RanEffect, StopEffect, Left, Answering

\* The events.
LEMMA EventStepEffect ==
  ASSUME IInv, NEW t \in Turns, NEW from, NEW e, NEW to,
         from \in TurnSteps \ ({"none", "waiting", "unlock", "done", "killed"}),
         to \in TurnSteps \ ({"none", "waiting", "unlock", "done", "killed", "interrupt"} \cup Leaving),
         to = "release" => from \in Leaving /\ StatusOf(e) = LeftStatus(from),
         from \in Answering => e.type = "tool_result" /\ e.ref = local[t].use,
         Stops(e) => e.by = t /\ from = "publishInterrupt",
         EventStep(t, from, e, to) \/ DeferredEvent(t, from, e, to)
  PROVE  Effects(t)
<1>1. pc \in [Turns -> TurnSteps] /\ faults \in Nat /\ interrupted \subseteq Turns
  BY DEF IInv, TypeOK
<1>2. PICK ok \in BOOLEAN, doomed \in {Cancelled(t), FALSE} : Attempt(doomed, ok) /\ Publish(ok, e)
  BY DEF EventStep, DeferredEvent
<1>3. /\ pc[t] = from /\ pc'[t] = to /\ \A u \in Turns \ {t} : pc'[u] = pc[u]
      /\ UNCHANGED <<daemon, status, req, local, mu, canceller, interrupted, ran, outages, crashes>>
  BY <1>1 DEF EventStep, DeferredEvent, Goto
<1>4. faults' \in {faults, faults + 1} /\ (NothingLost' => ok)
  BY <1>1, <1>2, <1>3, AttemptSucceeds
<1>5. log' = log \/ log' = Append(log, e)
  BY <1>2 DEF Publish
<1>6. NothingLost' => log' = Append(log, e)
  BY <1>2, <1>4 DEF Publish
<1>7. TurnEffect(t)
  BY <1>3, <1>4, <1>5 DEF TurnEffect
<1>10. StopEffect(t)
  <2>1. to \notin {"interrupt", "publishInterrupt"}
    BY DEF Leaving
  <2> QED BY <1>3, <1>5, <2>1 DEF StopEffect
<1>8. RowEffect(t)
  BY <1>3, <1>6 DEF RowEffect
<1>9. RanEffect(t)
  BY <1>3, <1>6 DEF RanEffect
<1> QED BY <1>7, <1>8, <1>9, <1>10 DEF Effects

\* The steps on variables of the turn, and those that only say where it goes.
LEMMA QuietStepEffect ==
  ASSUME IInv, NEW t \in Turns,
         pc[t] \in TurnSteps \ ({"none", "waiting", "unlock", "done", "killed"} \cup Answering),
         pc'[t] \in TurnSteps \ ({"none", "waiting", "done", "killed"} \cup Left \cup Leaving),
         pc'[t] = "interrupt" => t \in interrupted,
         \A u \in Turns \ {t} : pc'[u] = pc[u] /\ local'[u] = local[u],
         log' = log \/ \E e : log' = Append(log, e) /\ ~Stops(e),
         faults' \in {faults, faults + 1},
         UNCHANGED <<daemon, req, mu, interrupted, ran, crashes>>
  PROVE  Effects(t)
BY DEF Effects, TurnEffect, RowEffect, RanEffect, StopEffect, Left, Leaving, Answering

LEMMA MarkEffects ==
  ASSUME IInv, NEW t \in Turns,
         \/ MarkRunning(t) \/ MarkRescheduling(t) \/ MarkRetrying(t) \/ MarkAction(t)
         \/ MarkAsking(t) \/ MarkIdle(t) \/ MarkInterrupted(t) \/ MarkTerminated(t)
  PROVE  Effects(t)
<1> USE DEF TurnSteps, Leaving, Left, LeftStatus, Answering
<1>1. CASE MarkRunning(t)
  BY <1>1, StatusStepEffect DEF MarkRunning
<1>2. CASE MarkRescheduling(t)
  BY <1>2, StatusStepEffect DEF MarkRescheduling
<1>3. CASE MarkRetrying(t)
  BY <1>3, StatusStepEffect DEF MarkRetrying
<1>4. CASE MarkAction(t)
  BY <1>4, StatusStepEffect DEF MarkAction
<1>5. CASE MarkAsking(t)
  BY <1>5, StatusStepEffect DEF MarkAsking
<1>6. CASE MarkIdle(t)
  BY <1>6, StatusStepEffect DEF MarkIdle
<1>7. CASE MarkInterrupted(t)
  BY <1>7, StatusStepEffect DEF MarkInterrupted
<1>8. CASE MarkTerminated(t)
  BY <1>8, StatusStepEffect DEF MarkTerminated
<1> QED BY <1>1, <1>2, <1>3, <1>4, <1>5, <1>6, <1>7, <1>8

LEMMA PublishEffects ==
  ASSUME IInv, NEW t \in Turns,
         \/ PublishRunning(t) \/ PublishResolved(t) \/ PublishRescheduled(t) \/ PublishAction(t)
         \/ PublishAsking(t) \/ PublishIdle(t) \/ PublishInterrupted(t) \/ PublishTerminated(t)
  PROVE  Effects(t)
<1> USE DEF TurnSteps, Leaving, LeftStatus, Answering, StatusOf, Stops, Event
<1>1. CASE PublishRunning(t)
  BY <1>1, EventStepEffect DEF PublishRunning
<1>2. CASE PublishResolved(t)
  BY <1>2, EventStepEffect DEF PublishResolved, ToolResult, About
<1>3. CASE PublishRescheduled(t)
  BY <1>3, EventStepEffect DEF PublishRescheduled
<1>4. CASE PublishAction(t)
  BY <1>4, EventStepEffect DEF PublishAction
<1>5. CASE PublishAsking(t)
  BY <1>5, EventStepEffect DEF PublishAsking
<1>6. CASE PublishIdle(t)
  <2>1. local[t].stop # "interrupt"
    BY Facts DEF Locals
  <2> QED BY <1>6, <2>1, EventStepEffect DEF PublishIdle
<1>7. CASE PublishInterrupted(t)
  BY <1>7, EventStepEffect DEF PublishInterrupted
<1>8. CASE PublishTerminated(t)
  BY <1>8, EventStepEffect DEF PublishTerminated
<1> QED BY <1>1, <1>2, <1>3, <1>4, <1>5, <1>6, <1>7, <1>8

\* The steps that write no row and publish nothing but a tool use.
LEMMA QuietEffects ==
  ASSUME IInv, NEW t \in Turns,
         \/ Begin(t) \/ ReadConfirmations(t) \/ ResolveNext(t) \/ BeginStep(t) \/ ModelReplies(t) \/ WaitBackoff(t)
         \/ CallFails(t) \/ ModelUnavailable(t) \/ PublishToolUse(t)
  PROVE  Effects(t)
<1>0. pc \in [Turns -> TurnSteps] /\ local \in [Turns -> Locals] /\ faults \in Nat
  BY DEF IInv, TypeOK
<1>1. /\ pc[t] \in {"begin", "resolve", "resolving", "loop", "model", "backoff", "tool"}
      /\ UNCHANGED <<daemon, req, mu, interrupted, ran, crashes>>
      /\ \A u \in Turns \ {t} : pc'[u] = pc[u] /\ local'[u] = local[u]
  BY <1>0 DEF Begin, ReadConfirmations, ResolveNext, BeginStep, ModelReplies, WaitBackoff, CallFails,
              ModelUnavailable, PublishToolUse, LocalStep, Goto
<1>2. pc'[t] \in {"interrupt", "markRunning", "resolving", "loop", "runAllowed", "publishResolved", "finish", "model",
                  "tool", "retry", "terminate", "reschedule", "publishResult", "markAction", "markAsking", "run"}
  BY <1>0 DEF Begin, ReadConfirmations, ResolveNext, BeginStep, ModelReplies, WaitBackoff, CallFails,
              ModelUnavailable, PublishToolUse, LocalStep, Goto
<1>3. pc'[t] = "interrupt" => t \in interrupted
  BY <1>0 DEF Begin, ReadConfirmations, ResolveNext, BeginStep, ModelReplies, WaitBackoff, CallFails,
              ModelUnavailable, PublishToolUse, LocalStep, Goto, Cancelled
<1>4. faults' \in {faults, faults + 1}
  BY <1>0 DEF Begin, ReadConfirmations, ResolveNext, BeginStep, ModelReplies, WaitBackoff, CallFails,
              ModelUnavailable, PublishToolUse, LocalStep, Attempt
<1>5. log' = log \/ \E e : log' = Append(log, e) /\ ~Stops(e)
  <2>1. CASE PublishToolUse(t)
    <3> DEFINE e == Event("tool_use", Thread(t), t, Head(local[t].tools))
    <3>1. ~Stops(e)
      BY DEF Stops, Event
    <3>2. log' = log \/ log' = Append(log, e)
      BY <2>1 DEF PublishToolUse, Publish
    <3> HIDE DEF e
    <3> QED BY <3>1, <3>2
  <2>2. CASE ~PublishToolUse(t)
    BY <2>2 DEF Begin, ReadConfirmations, ResolveNext, BeginStep, ModelReplies, WaitBackoff, CallFails,
                ModelUnavailable, LocalStep
  <2> QED BY <2>1, <2>2
<1> QED BY <1>1, <1>2, <1>3, <1>4, <1>5, QuietStepEffect DEF TurnSteps, Left, Leaving, Answering

\* The executions, the result of the loop, and the mutex.
LEMMA OtherEffects ==
  ASSUME IInv, NEW t \in Turns,
         \/ RunAllowed(t) \/ RunTool(t) \/ PublishResult(t)
         \/ LockTurn(t) \/ RegisterCancel(t) \/ UnregisterCancel(t) \/ UnlockTurn(t)
  PROVE  Effects(t)
<1>0. pc \in [Turns -> TurnSteps] /\ local \in [Turns -> Locals] /\ faults \in Nat
  BY DEF IInv, TypeOK
<1>1. CASE RunAllowed(t) \/ RunTool(t)
  BY <1>0, <1>1 DEF RunAllowed, RunTool, Execute, Goto, Effects, TurnEffect, RowEffect, RanEffect, StopEffect,
                    Leaving, Answering
<1>2. CASE PublishResult(t)
  <2> DEFINE e == ToolResult(t)
  <2>1. e.type = "tool_result" /\ e.ref = local[t].use /\ ~Stops(e)
    BY DEF ToolResult, About, Event, Stops
  <2>2. PICK ok \in BOOLEAN : Attempt(Cancelled(t), ok) /\ Publish(ok, e)
    BY <1>2 DEF PublishResult
  <2>3. /\ pc[t] = "publishResult" /\ pc'[t] \in {"loop", "tool"}
        /\ \A u \in Turns \ {t} : pc'[u] = pc[u] /\ local'[u] = local[u]
        /\ UNCHANGED <<daemon, status, req, mu, canceller, interrupted, ran, outages, crashes>>
    BY <1>0, <1>2 DEF PublishResult, Goto
  <2>4. faults' \in {faults, faults + 1} /\ (NothingLost' => ok)
    BY <2>2, <2>3, AttemptSucceeds
  <2>5. (log' = log \/ log' = Append(log, e)) /\ (NothingLost' => log' = Append(log, e))
    BY <2>2, <2>4 DEF Publish
  <2> HIDE DEF e
  <2>6. TurnEffect(t) /\ StopEffect(t)
    BY <2>1, <2>3, <2>4, <2>5 DEF TurnEffect, StopEffect
  <2>7. RowEffect(t) /\ RanEffect(t)
    BY <2>1, <2>3, <2>5 DEF RowEffect, RanEffect, Leaving, Answering
  <2> QED BY <2>6, <2>7 DEF Effects
<1>3. CASE LockTurn(t) \/ RegisterCancel(t) \/ UnregisterCancel(t) \/ UnlockTurn(t)
  BY <1>0, <1>3 DEF LockTurn, RegisterCancel, UnregisterCancel, UnlockTurn, Goto, Effects, TurnEffect, RowEffect,
                    RanEffect, StopEffect, Leaving, Answering
<1> QED BY <1>1, <1>2, <1>3

LEMMA TurnEffects == ASSUME IInv, NEW t \in Turns, TurnStep(t) PROVE Effects(t)
BY MarkEffects, PublishEffects, QuietEffects, OtherEffects DEF TurnStep

(***************************************************************************)
(* The third invariant is inductive.                                       *)
(***************************************************************************)
\* A result in the log stays there.
LEMMA ResolvedGrows ==
  ASSUME log \in Seq(Events), log' \in Seq(Events), log' = log \/ \E e : log' = Append(log, e),
         NEW i, Resolved(i)
  PROVE  Resolved(i)'
<1>1. CASE log' = log
  BY <1>1 DEF Resolved
<1>2. ASSUME NEW e, log' = Append(log, e) PROVE Resolved(i)'
  <2>1. DOMAIN log \subseteq DOMAIN log' /\ \A j \in DOMAIN log : log'[j] = log[j]
    BY <1>2, Appended
  <2> QED BY <2>1 DEF Resolved
<1> QED BY <1>1, <1>2

\* What the steps of a turn have in common.
LEMMA TurnBasics ==
  ASSUME IInv, HoldInv, IInv', NEW t \in Turns, TurnEffect(t)
  PROVE  /\ NothingLost' => NothingLost
         /\ Calm' => Calm
         /\ daemon = "serving" /\ daemon' = "serving"
         /\ log \in Seq(Events) /\ log' \in Seq(Events)
         /\ pc[t] # "waiting" => mu = t
         /\ t # NoTurn
<1>1. faults \in Nat /\ log \in Seq(Events) /\ log' \in Seq(Events) /\ pc \in [Turns -> TurnSteps]
  BY DEF IInv, TypeOK, Events
<1>2. NothingLost' => NothingLost
  BY <1>1 DEF TurnEffect, NothingLost
<1>3. daemon = "serving"
  BY DEF HoldInv, TurnEffect
<1>4. pc[t] # "waiting" => mu = t
  BY DEF IInv, OneTurnAtATime, InTurn, TurnEffect
<1>5. t # NoTurn
  BY ConstantsAssumption DEF Turns
<1> QED BY <1>1, <1>2, <1>3, <1>4, <1>5 DEF TurnEffect, Calm

LEMMA TurnHold ==
  ASSUME IInv, HoldInv, IInv', NEW t \in Turns, TurnEffect(t)
  PROVE  HoldInv'
<1>1. daemon' = "serving" /\ t # NoTurn
  BY TurnBasics
<1>2. mu' # NoTurn => InTurn(mu)'
  <2>1. CASE mu' = mu
    <3>1. pc[t] \notin {"waiting"} => mu = t
      BY TurnBasics
    <3> QED BY <1>1, <2>1, <3>1 DEF TurnEffect, InTurn
  <2>2. CASE mu' # mu
    BY <2>2 DEF TurnEffect, InTurn
  <2> QED BY <2>1, <2>2
<1> QED BY <1>1, <1>2 DEF HoldInv

LEMMA TurnRow ==
  ASSUME IInv, HoldInv, RowInv, ZombieInv, IInv', NEW t \in Turns, TurnEffect(t), RowEffect(t)
  PROVE  RowInv' /\ ZombieInv'
<1>1. /\ NothingLost' => NothingLost
      /\ Calm' => Calm
      /\ daemon = "serving" /\ daemon' = "serving"
      /\ log \in Seq(Events) /\ log' \in Seq(Events)
      /\ pc[t] # "waiting" => mu = t
      /\ t # NoTurn
  BY TurnBasics
<1>2. CASE mu' = mu /\ pc[t] \notin {"waiting", "unlock"}
  <2>1. mu = t /\ mu' = t
    BY <1>1, <1>2
  <2>2. ASSUME NothingLost', pc'[t] = "release"
        PROVE  /\ pc[t] \in Leaving /\ status' = status
               /\ Calm => LastStatus(status)'
    <3>1. PICK e : log' = Append(log, e) /\ StatusOf(e) = LeftStatus(pc[t])
      BY <2>2 DEF RowEffect
    <3>2. pc[t] \in Leaving /\ status' = status
      BY <2>2 DEF RowEffect
    <3>3. Calm => status' = StatusOf(e)
      BY <1>1, <2>1, <3>1, <3>2 DEF RowInv
    <3>4. StatusOf(e) \in Statuses
      BY <3>1, <3>2 DEF LeftStatus, Statuses, Leaving
    <3>5. LastStatus(StatusOf(e))'
      BY <1>1, <3>1, <3>4, LastStatusNew
    <3> QED BY <3>2, <3>3, <3>5
  <2>3. ASSUME NothingLost', pc'[t] = "unlock"
        PROVE  /\ pc[t] = "release" /\ status' = status
               /\ Calm => LastStatus(status)'
    <3>1. pc[t] = "release" /\ status' = status /\ log' = log
      BY <2>3 DEF RowEffect
    <3>2. Calm => LastStatus(status)
      BY <2>1, <3>1 DEF RowInv, Left
    <3> QED BY <1>1, <3>1, <3>2, LastStatusKept
  <2>4. RowInv'
    <3>1. SUFFICES ASSUME Calm' PROVE /\ pc'[t] \in Left => LastStatus(status)'
                                      /\ pc'[t] \in Leaving => status' = LeftStatus(pc'[t])
      BY <1>1, <2>1 DEF RowInv
    <3>2. NothingLost' /\ Calm
      BY <1>1, <3>1 DEF Calm
    <3> QED BY <2>2, <2>3, <3>2 DEF Left, LastStatus, RowEffect
  <2>5. ZombieInv'
    <3>1. SUFFICES ASSUME NothingLost', pc'[t] \in Leaving \cup Left
                   PROVE  status' \notin {"running", "rescheduling"}
      BY <1>1, <2>1 DEF ZombieInv, AtWork
    <3>2. CASE pc'[t] \in Leaving
      BY <3>1, <3>2 DEF RowEffect, LeftStatus
    <3>3. CASE pc'[t] \in Left
      <4>1. pc[t] \in Leaving \cup Left /\ status' = status
        BY <2>2, <2>3, <3>1, <3>3 DEF Left
      <4> QED BY <1>1, <2>1, <3>1, <4>1 DEF ZombieInv, AtWork
    <3> QED BY <3>1, <3>2, <3>3
  <2> QED BY <2>4, <2>5
<1>3. CASE pc[t] = "waiting" /\ mu' = t /\ pc'[t] = "locked"
  BY <1>1, <1>3 DEF RowInv, ZombieInv, AtWork, Leaving, Left
<1>4. CASE pc[t] = "unlock" /\ mu' = NoTurn /\ pc'[t] = "done" /\ UNCHANGED <<status, log>>
  <2>1. mu = t
    BY <1>1, <1>4
  <2>2. RowInv'
    <3>1. SUFFICES ASSUME Calm' PROVE LastStatus(status)'
      BY <1>4 DEF RowInv
    <3>2. LastStatus(status)
      BY <1>1, <1>4, <2>1, <3>1 DEF RowInv, Left
    <3> QED BY <1>4, <3>2 DEF LastStatus, StatusEvents
  <2>3. ZombieInv'
    BY <1>1, <1>4, <2>1 DEF ZombieInv, AtWork, Left
  <2> QED BY <2>2, <2>3
<1> QED BY <1>2, <1>3, <1>4 DEF TurnEffect

\* A use that a turn is about to execute has no result, and no turn that is about
\* to publish one.
LEMMA TurnRan ==
  ASSUME IInv, ResultInv, HoldInv, RanInv, IInv', NEW t \in Turns, TurnEffect(t), RanEffect(t)
  PROVE  RanInv'
<1>1. SUFFICES ASSUME Calm'
               PROVE  /\ RunsOnce'
                      /\ \A x \in ran' : \/ Resolved(x[1])'
                                         \/ pc'[x[2]] \in Answering /\ local'[x[2]].use = x[1]
  BY DEF RanInv
<1>2. /\ Calm /\ NothingLost'
      /\ log \in Seq(Events) /\ log' \in Seq(Events)
      /\ log' = log \/ \E e : log' = Append(log, e)
      /\ \A u \in Turns \ {t} : pc'[u] = pc[u] /\ local'[u] = local[u]
  BY <1>1, TurnBasics DEF Calm, TurnEffect
<1>3. ASSUME NEW i, Resolved(i) PROVE Resolved(i)'
  BY <1>2, <1>3, ResolvedGrows
<1>4. \A x \in ran : /\ x[2] \in Turns
                     /\ Resolved(x[1]) \/ (pc[x[2]] \in Answering /\ local[x[2]].use = x[1])
  BY <1>2 DEF RanInv, IInv, TypeOK
<1>5. RunsOnce
  BY <1>2 DEF RanInv
<1>6. CASE ran' = ran /\ pc[t] \notin Answering
  BY <1>2, <1>3, <1>4, <1>5, <1>6 DEF RunsOnce, Calm
<1>7. CASE /\ pc[t] \in {"run", "runAllowed"} /\ pc'[t] \in Answering
           /\ ran' = ran \cup {<<local[t].use, t>>} /\ UNCHANGED <<local, log>>
  <2>1. ~Resolved(local[t].use)
    BY <1>7 DEF ResultInv, Answers, Unanswered, Resolved
  <2>2. \A u \in Turns : u # t => pc[u] \notin Answering
    BY <1>7 DEF IInv, OneTurnAtATime, InTurn, Answering
  <2>3. pc[t] \notin Answering
    BY <1>7 DEF Answering
  <2>4. \A x \in ran : x[1] # local[t].use
    BY <1>4, <2>1, <2>2, <2>3
  <2>5. RunsOnce'
    BY <1>2, <1>5, <1>7, <2>4 DEF RunsOnce, Calm
  <2> QED BY <1>2, <1>3, <1>4, <1>7, <2>3, <2>5
<1>8. ASSUME ran' = ran, NEW use, use = local[t].use,
             NEW e, log' = Append(log, e), e.type = "tool_result", e.ref = use
      PROVE  /\ RunsOnce'
             /\ \A x \in ran' : \/ Resolved(x[1])'
                                \/ pc'[x[2]] \in Answering /\ local'[x[2]].use = x[1]
  <2>1. Resolved(use)'
    <3>1. Len(log) + 1 \in DOMAIN log' /\ log'[Len(log) + 1] = e
      BY <1>2, <1>8, Appended
    <3> QED BY <1>8, <3>1 DEF Resolved
  <2> QED BY <1>2, <1>3, <1>4, <1>5, <1>8, <2>1 DEF RunsOnce, Calm
<1> QED BY <1>2, <1>6, <1>7, <1>8 DEF RanEffect

LEMMA TurnThird ==
  ASSUME IInv, ResultInv, ThirdInv, IInv', NEW t \in Turns, TurnStep(t)
  PROVE  ThirdInv'
BY TurnEffects, TurnHold, TurnRow, TurnRan DEF ThirdInv, Effects

\* The handlers: no turn at work changes, and users publish no status.
LEMMA AmbientThird ==
  ASSUME IInv, ThirdInv, IInv', daemon = "serving",
         UNCHANGED <<daemon, status, local, mu, ran, crashes>>, NothingLost' => NothingLost,
         \A u \in Turns : pc'[u] = pc[u] \/ (pc[u] = "none" /\ pc'[u] = "waiting"),
         log' = log \/ \E e : log' = Append(log, e) /\ StatusOf(e) \notin Statuses
  PROVE  ThirdInv'
<1>1. /\ log \in Seq(Events) /\ log' \in Seq(Events) /\ mu \in Turns \cup {NoTurn}
      /\ Calm' => Calm
  BY DEF IInv, TypeOK, Events, Calm
<1>2. \A u \in Turns : InTurn(u) => pc'[u] = pc[u]
  BY DEF InTurn
<1>3. mu # NoTurn => mu \in Turns /\ InTurn(mu) /\ pc'[mu] = pc[mu]
  BY <1>1, <1>2 DEF ThirdInv, HoldInv
<1>4. HoldInv'
  <2>1. mu # NoTurn => InTurn(mu)'
    BY <1>3 DEF InTurn
  <2> QED BY <2>1 DEF HoldInv
<1>5. RowInv'
  <2>1. SUFFICES ASSUME Calm
                 PROVE  /\ mu = NoTurn \/ pc'[mu] \in Left => LastStatus(status)'
                        /\ mu # NoTurn /\ pc'[mu] \in Leaving => status = LeftStatus(pc'[mu])
    BY <1>1 DEF RowInv
  <2>2. LastStatus(status) => LastStatus(status)'
    BY <1>1, LastStatusKept
  <2> QED BY <1>3, <2>1, <2>2 DEF ThirdInv, RowInv
<1>6. ZombieInv'
  BY <1>3 DEF ThirdInv, ZombieInv, AtWork
<1>7. RanInv'
  <2>1. SUFFICES ASSUME Calm', Calm
                 PROVE  /\ RunsOnce'
                        /\ \A x \in ran : \/ Resolved(x[1])'
                                          \/ pc'[x[2]] \in Answering /\ local[x[2]].use = x[1]
    BY <1>1 DEF RanInv
  <2>2. RunsOnce'
    BY <2>1 DEF ThirdInv, RanInv, RunsOnce, Calm
  <2>3. ASSUME NEW x \in ran
        PROVE  Resolved(x[1])' \/ (pc'[x[2]] \in Answering /\ local[x[2]].use = x[1])
    <3>1. x[2] \in Turns
      BY DEF IInv, TypeOK
    <3>2. CASE Resolved(x[1])
      BY <1>1, <3>2, ResolvedGrows
    <3>3. CASE pc[x[2]] \in Answering /\ local[x[2]].use = x[1]
      BY <1>2, <3>1, <3>3 DEF InTurn, Answering
    <3> QED BY <2>1, <3>2, <3>3 DEF ThirdInv, RanInv
  <2> QED BY <2>2, <2>3
<1> QED BY <1>4, <1>5, <1>6, <1>7 DEF ThirdInv

\* What a handler does: its log, its turns, and the daemon it needs.
LEMMA HandlerEffects ==
  ASSUME IInv, HoldInv, IInv', NEW r \in Requests, PostEvents(r) \/ HandlerStep(r)
  PROVE  /\ daemon = "serving"
         /\ UNCHANGED <<daemon, status, local, mu, ran, crashes>>
         /\ NothingLost' => NothingLost
         /\ \A u \in Turns : pc'[u] = pc[u] \/ (pc[u] = "none" /\ pc'[u] = "waiting")
         /\ log' = log \/ \E e \in Events : log' = Append(log, e) /\ e.by \notin Turns /\ e.type \in UserKinds
<1>1. daemon = "serving"
  BY DEF PostEvents, HandlerStep, PublishUserEvent, LoadCancel, CallCancel, StartTurns, HoldInv
<1>2. UNCHANGED <<daemon, status, local, mu, ran, crashes>>
  BY DEF PostEvents, HandlerStep, PublishUserEvent, LoadCancel, CallCancel, StartTurns, harness
<1>3. faults' \in {faults, faults + 1} /\ faults \in Nat
  BY DEF PostEvents, HandlerStep, PublishUserEvent, LoadCancel, CallCancel, StartTurns, Attempt, IInv, TypeOK
<1>4. interrupted \subseteq interrupted'
  BY DEF PostEvents, HandlerStep, PublishUserEvent, LoadCancel, CallCancel, StartTurns, harness
<1>5. \A u \in Turns : pc'[u] = pc[u] \/ (pc[u] = "none" /\ pc'[u] = "waiting")
  <2>1. CASE StartTurns(r)
    <3>1. ASSUME NEW u \in Turns, u[1] = r PROVE pc[u] = "none"
      <4>1. u = <<r, u[2]>> /\ u[2] \in Threads
        BY <3>1 DEF Turns
      <4> QED BY <2>1, <4>1 DEF StartTurns, IInv, StartInv, Posting
    <3> QED BY <2>1, <3>1 DEF StartTurns
  <2>2. CASE ~StartTurns(r)
    BY <2>2 DEF PostEvents, HandlerStep, PublishUserEvent, LoadCancel, CallCancel, harness
  <2> QED BY <2>1, <2>2
<1>6. log' = log \/ \E e \in Events : log' = Append(log, e) /\ e.by \notin Turns /\ e.type \in UserKinds
  <2>1. CASE PublishUserEvent(r)
    BY <2>1, UserEvents
  <2>2. CASE ~PublishUserEvent(r)
    BY <2>2 DEF PostEvents, HandlerStep, LoadCancel, CallCancel, StartTurns
  <2> QED BY <2>1, <2>2
<1>7. NothingLost' => NothingLost
  BY <1>3, <1>4 DEF NothingLost
<1> QED BY <1>1, <1>2, <1>5, <1>6, <1>7

\* After a crash nothing is calm, and the recovery is what clears the row.
LEMMA CrashThird ==
  ASSUME IInv, ThirdInv, Crash
  PROVE  ThirdInv'
<1>1. /\ daemon' = "down" /\ crashes' = crashes + 1 /\ mu' = NoTurn
      /\ pc' = [t \in Turns |-> IF InTurn(t) \/ pc[t] = "waiting" THEN "killed" ELSE pc[t]]
      /\ req' = [r \in Requests |->
                   IF req[r].pc \in {"posting", "interrupting", "cancelling"}
                     THEN [req[r] EXCEPT !.pc = "killed", !.cancel = NoTurn] ELSE req[r]]
  BY DEF Crash
<1>2. crashes \in Nat /\ req \in [Requests -> RequestStates]
  BY DEF IInv, TypeOK
<1>3. crashes' # 0
  <2>1. crashes' = crashes + 1
    BY <1>1
  <2> QED BY <1>2, <2>1
<1>4. \A t \in Turns : pc'[t] \in {"none", "done", "killed"}
  BY <1>1 DEF InTurn
<1>5. ASSUME NEW r \in Requests PROVE req'[r].pc \notin {"posting", "interrupting", "cancelling"}
  <2>1. [req[r] EXCEPT !.pc = "killed", !.cancel = NoTurn].pc = "killed"
    BY <1>2 DEF RequestStates
  <2> QED BY <1>1, <2>1
<1>6. HoldInv'
  BY <1>1, <1>3, <1>4, <1>5 DEF HoldInv
<1> QED BY <1>1, <1>3, <1>6 DEF ThirdInv, RowInv, RanInv, ZombieInv, Calm

LEMMA RecoverThird ==
  ASSUME IInv, ThirdInv, Recover
  PROVE  ThirdInv'
<1>1. UNCHANGED <<req, pc, local, mu, canceller, interrupted, ran, outages, crashes>>
  BY DEF Recover, RecoverList, RecoverMark, RecoverPublish, harness
<1>2. daemon # "serving" /\ mu = NoTurn /\ crashes # 0
  BY DEF Recover, RecoverList, RecoverMark, RecoverPublish, ThirdInv, HoldInv
<1>3. HoldInv'
  BY <1>1, <1>2 DEF ThirdInv, HoldInv, InTurn
<1>4. faults \in Nat
  BY DEF IInv, TypeOK
<1>5. ZombieInv'
  <2>1. CASE RecoverList
    BY <1>4, <2>1 DEF RecoverList, Attempt, ZombieInv, NothingLost
  <2>2. CASE RecoverMark
    BY <1>4, <2>2 DEF RecoverMark, Attempt, SetStatus, ZombieInv, NothingLost
  <2>3. CASE RecoverPublish
    <3>1. NothingLost' => NothingLost
      BY <1>1, <1>4, <2>3 DEF RecoverPublish, Attempt, NothingLost
    <3> QED BY <1>1, <1>2, <2>3, <3>1 DEF RecoverPublish, ThirdInv, ZombieInv, AtWork
  <2> QED BY <2>1, <2>2, <2>3 DEF Recover
<1> QED BY <1>1, <1>2, <1>3, <1>5 DEF ThirdInv, RowInv, RanInv, Calm

LEMMA InitThird == Init => ThirdInv
<1> SUFFICES ASSUME Init PROVE ThirdInv
  OBVIOUS
<1>1. StatusEvents = {}
  BY DEF Init, StatusEvents
<1> QED BY <1>1 DEF Init, ThirdInv, HoldInv, RowInv, ZombieInv, RanInv, RunsOnce, LastStatus, AtWork

LEMMA NextThird == IInv /\ ResultInv /\ ThirdInv /\ [Next]_vars => ThirdInv'
<1> SUFFICES ASSUME IInv, ResultInv, ThirdInv, [Next]_vars PROVE ThirdInv'
  OBVIOUS
<1>0. IInv'
  BY NextIInv
<1>1. ASSUME NEW t \in Turns, TurnStep(t) PROVE ThirdInv'
  BY <1>0, <1>1, TurnThird
<1>2. ASSUME NEW r \in Requests, PostEvents(r) \/ HandlerStep(r) PROVE ThirdInv'
  <2>1. /\ daemon = "serving"
        /\ UNCHANGED <<daemon, status, local, mu, ran, crashes>>
        /\ NothingLost' => NothingLost
        /\ \A u \in Turns : pc'[u] = pc[u] \/ (pc[u] = "none" /\ pc'[u] = "waiting")
        /\ log' = log \/ \E e \in Events : log' = Append(log, e) /\ e.by \notin Turns /\ e.type \in UserKinds
    BY <1>0, <1>2, HandlerEffects DEF ThirdInv
  <2>2. \A e : e.type \in UserKinds => StatusOf(e) \notin Statuses
    BY DEF UserKinds, Triggers, StatusOf, Statuses
  <2> QED BY <1>0, <2>1, <2>2, AmbientThird
<1>3. ASSUME Crash \/ Recover PROVE ThirdInv'
  BY <1>3, CrashThird, RecoverThird
<1>4. ASSUME UNCHANGED vars PROVE ThirdInv'
  BY <1>4 DEF vars, ThirdInv, HoldInv, RowInv, ZombieInv, RanInv, RunsOnce, LastStatus, StatusEvents, AtWork,
              Calm, NothingLost, InTurn, Resolved
<1> QED BY <1>1, <1>2, <1>3, <1>4 DEF Next

LEMMA ThirdInductive == Spec => []ThirdInv
<1>1. Spec => []ResultInv
  BY InitResultInv, NextResultInv, Inductive, PTL DEF Spec
<1> QED BY <1>1, InitThird, NextThird, Inductive, PTL DEF Spec

\* Between turns the status column is what the last status event of the log says,
\* as long as no write has failed, nobody has interrupted a turn and jed has not
\* crashed (RunThread writes the row before it publishes, each time on its own).
THEOREM RowAgreesWithLog == Spec => []RowMatchesLog
<1>1. IInv /\ ThirdInv => RowMatchesLog
  <2> SUFFICES ASSUME IInv, ThirdInv, Quiet, Calm
               PROVE  status = IF StatusEvents = {} THEN "idle" ELSE StatusOf(log[Max(StatusEvents)])
    BY DEF RowMatchesLog, Calm
  <2>1. LastStatus(status)
    BY DEF ThirdInv, RowInv, Quiet
  <2>2. CASE StatusEvents = {}
    BY <2>1, <2>2 DEF LastStatus
  <2>3. CASE StatusEvents # {}
    <3>1. PICK i \in StatusEvents : StatusOf(log[i]) = status /\ \A j \in StatusEvents : j <= i
      BY <2>1, <2>3 DEF LastStatus
    <3>2. StatusEvents \subseteq Nat
      BY DEF StatusEvents, IInv, TypeOK
    <3>3. Max(StatusEvents) = i
      <4>1. \A j \in StatusEvents : i >= j
        BY <3>1, <3>2
      <4>2. ASSUME NEW k \in StatusEvents, \A j \in StatusEvents : k >= j PROVE k = i
        BY <3>1, <3>2, <4>2
      <4> QED BY <4>1, <4>2 DEF Max
    <3> QED BY <2>3, <3>1, <3>3
  <2> QED BY <2>2, <2>3
<1> QED BY <1>1, Inductive, ThirdInductive, PTL

\* Between turns the row never says running or rescheduling, also after a crash and
\* a recovery, as long as no write has failed, no recovery failed to list the
\* sessions and nobody has interrupted a turn (the terminal defer of RunThread and
\* recoverInterruptedSessions).
THEOREM NoSessionLeftRunning == Spec => []NoZombieSession
<1>1. ThirdInv => NoZombieSession
  BY DEF ThirdInv, ZombieInv, NoZombieSession, Quiet, AtWork
<1> QED BY <1>1, ThirdInductive, PTL

\* executeServerTool runs a use once, whatever turns read its confirmation, as long
\* as no write has failed, nobody has interrupted a turn and jed has not crashed.
THEOREM ToolsRunOnce == Spec => []RunsOnce
<1>1. ThirdInv => RunsOnce
  BY DEF ThirdInv, RanInv, RunsOnce, Calm
<1> QED BY <1>1, ThirdInductive, PTL

(***************************************************************************)
(* What is behind an interrupted turn: an event of its own.                *)
(***************************************************************************)
\* Interrupts that are in the log and have not reached a turn yet, and the turns
\* that have said that they were interrupted.
Pending == {r \in Requests : req[r].pc \in {"interrupting", "cancelling"}}
Stopped == {i \in EventsOf("idle") : log[i].info = "interrupt"}

\* Each of them, and each turn that was cancelled, has a user.interrupt of its own,
\* which comes before the end of the turn.
IsCause(f) ==
  /\ f \in [interrupted \cup Pending -> EventsOf("interrupt")]
  /\ IsInjective(f)
  /\ \A i \in Stopped : log[i].by \in interrupted /\ f[log[i].by] < i

StopInv ==
  /\ \A t \in Turns : pc[t] \in {"interrupt", "publishInterrupt"} => t \in interrupted
  /\ \E f : IsCause(f)

\* One more event, or none.
LEMMA StoppedGrows ==
  ASSUME log \in Seq(Events), log' \in Seq(Events), NEW e, log' = Append(log, e)
  PROVE  /\ EventsOf("interrupt") \subseteq EventsOf("interrupt")'
         /\ \A i \in Stopped' : \/ i \in Stopped /\ log'[i] = log[i]
                                \/ i = Len(log) + 1 /\ log'[i] = e /\ Stops(e)
         /\ \A j \in EventsOf("interrupt") : j < Len(log) + 1
<1>1. /\ DOMAIN log' = DOMAIN log \cup {Len(log) + 1} /\ log'[Len(log) + 1] = e /\ Len(log) \in Nat
      /\ \A i \in DOMAIN log : log'[i] = log[i] /\ i \in Nat /\ i <= Len(log)
  BY Appended
<1> QED BY <1>1 DEF EventsOf, Stopped, Stops

\* The cause of what is still there stays the cause.
LEMMA CauseKept ==
  ASSUME log \in Seq(Events), log' \in Seq(Events), NEW f, IsCause(f),
         interrupted' = interrupted, Pending' \subseteq Pending,
         log' = log \/ \E e : log' = Append(log, e) /\ (Stops(e) => e.by \in interrupted)
  PROVE  \E g : IsCause(g)'
<1> DEFINE D == interrupted \cup Pending'
           g == [x \in D |-> f[x]]
<1>1. D \subseteq interrupted \cup Pending
  OBVIOUS
<1>2. EventsOf("interrupt") \subseteq EventsOf("interrupt")'
  BY StoppedGrows DEF EventsOf
<1>3. g \in [D -> EventsOf("interrupt")'] /\ IsInjective(g)
  BY <1>1, <1>2 DEF IsCause, IsInjective
<1>4. \A x \in interrupted : g[x] = f[x]
  OBVIOUS
<1>5. ASSUME NEW i \in Stopped' PROVE log'[i].by \in interrupted /\ f[log'[i].by] < i
  <2>1. CASE log' = log
    BY <1>5, <2>1 DEF IsCause, Stopped, EventsOf
  <2>2. ASSUME NEW e, log' = Append(log, e), Stops(e) => e.by \in interrupted
        PROVE  log'[i].by \in interrupted /\ f[log'[i].by] < i
    <3>1. CASE i \in Stopped /\ log'[i] = log[i]
      BY <3>1 DEF IsCause
    <3>2. CASE i = Len(log) + 1 /\ log'[i] = e /\ Stops(e)
      <4>1. e.by \in interrupted
        BY <2>2, <3>2
      <4>2. f[e.by] \in EventsOf("interrupt")
        BY <4>1 DEF IsCause
      <4>3. f[e.by] < Len(log) + 1
        BY <2>2, <4>2, StoppedGrows
      <4> QED BY <3>2, <4>1, <4>3
    <3> QED BY <1>5, <2>2, <3>1, <3>2, StoppedGrows
  <2> QED BY <2>1, <2>2
<1> HIDE DEF g
<1>6. PICK h \in [D -> EventsOf("interrupt")'] : IsInjective(h) /\ \A x \in interrupted : h[x] = f[x]
  BY <1>3, <1>4
<1>7. IsCause(h)'
  BY <1>5, <1>6 DEF IsCause
<1> QED BY <1>7

\* A user.interrupt enters the log, and waits for its handler to cancel a turn.
LEMMA CauseNew ==
  ASSUME log \in Seq(Events), log' \in Seq(Events), NEW f, IsCause(f), NEW r, r \notin interrupted \cup Pending,
         interrupted' = interrupted, Pending' = Pending \cup {r},
         NEW e, log' = Append(log, e), e.type = "interrupt"
  PROVE  \E g : IsCause(g)'
<1> DEFINE D == interrupted \cup Pending \cup {r}
           g == [x \in D |-> IF x = r THEN Len(log) + 1 ELSE f[x]]
<1>1. EventsOf("interrupt") \subseteq EventsOf("interrupt")' /\ \A j \in EventsOf("interrupt") : j < Len(log) + 1
  BY StoppedGrows
<1>2. Len(log) + 1 \in EventsOf("interrupt")' /\ Len(log) + 1 \notin EventsOf("interrupt")
  <2>1. /\ Len(log) + 1 \in DOMAIN log' /\ log'[Len(log) + 1] = e /\ Len(log) + 1 \notin DOMAIN log
    BY Appended
  <2> QED BY <2>1 DEF EventsOf
<1>3. \A x \in interrupted \cup Pending : x # r /\ f[x] \in EventsOf("interrupt")
  BY DEF IsCause
<1>4. g \in [D -> EventsOf("interrupt")']
  BY <1>1, <1>2, <1>3
<1>5. IsInjective(g)
  <2>1. \A x, y \in interrupted \cup Pending : f[x] = f[y] => x = y
    BY DEF IsCause, IsInjective
  <2> QED BY <1>2, <1>3, <2>1 DEF IsInjective
<1>6. \A x \in interrupted : g[x] = f[x]
  BY <1>3
<1>7. ASSUME NEW i \in Stopped' PROVE log'[i].by \in interrupted /\ f[log'[i].by] < i
  <2>1. i \in Stopped /\ log'[i] = log[i]
    BY <1>7, StoppedGrows DEF Stops
  <2> QED BY <2>1 DEF IsCause
<1> HIDE DEF g
<1>8. PICK h \in [D -> EventsOf("interrupt")'] : IsInjective(h) /\ \A x \in interrupted : h[x] = f[x]
  BY <1>4, <1>5, <1>6
<1>9. IsCause(h)'
  BY <1>7, <1>8 DEF IsCause
<1> QED BY <1>9

\* The handler cancels a turn: what was waiting is now the cause of its end.
LEMMA CauseCancel ==
  ASSUME NEW f, IsCause(f), NEW r \in Pending, NEW t, r \notin interrupted, t \notin Pending,
         interrupted' = interrupted \cup {t}, Pending' = Pending \ {r}, log' = log
  PROVE  \E g : IsCause(g)'
<1> DEFINE D == interrupted \cup {t} \cup (Pending \ {r})
           h == [x \in D |-> f[x]]
           g == [x \in D |-> IF x = t THEN f[r] ELSE f[x]]
<1>0. EventsOf("interrupt")' = EventsOf("interrupt") /\ Stopped' = Stopped
  BY DEF EventsOf, Stopped
<1>1. \A x, y \in interrupted \cup Pending : f[x] = f[y] => x = y
  BY DEF IsCause, IsInjective
<1>2. \A x \in interrupted \cup Pending : f[x] \in EventsOf("interrupt")
  BY DEF IsCause
<1>3. \E k \in [D -> EventsOf("interrupt")] : IsInjective(k) /\ \A x \in interrupted : k[x] = f[x]
  <2>1. CASE t \in interrupted
    <3>1. h \in [D -> EventsOf("interrupt")] /\ IsInjective(h)
      BY <1>1, <1>2, <2>1 DEF IsInjective
    <3>2. \A x \in interrupted : h[x] = f[x]
      OBVIOUS
    <3> HIDE DEF h
    <3> QED BY <3>1, <3>2
  <2>2. CASE t \notin interrupted
    <3>1. g \in [D -> EventsOf("interrupt")]
      BY <1>2
    <3>2. IsInjective(g)
      BY <1>1, <2>2 DEF IsInjective
    <3>3. \A x \in interrupted : g[x] = f[x]
      BY <2>2
    <3> HIDE DEF g
    <3> QED BY <3>1, <3>2, <3>3
  <2> QED BY <2>1, <2>2
<1>4. PICK k \in [D -> EventsOf("interrupt")] : IsInjective(k) /\ \A x \in interrupted : k[x] = f[x]
  BY <1>3
<1>5. D = interrupted' \cup Pending'
  OBVIOUS
<1>6. \A i \in Stopped : log[i].by \in interrupted /\ k[log[i].by] < i
  BY <1>4 DEF IsCause
<1> HIDE DEF D
<1>7. IsCause(k)'
  BY <1>0, <1>4, <1>5, <1>6 DEF IsCause
<1> QED BY <1>7

LEMMA TurnStop ==
  ASSUME IInv, StopInv, IInv', NEW t \in Turns, TurnStep(t)
  PROVE  StopInv'
<1>1. TurnEffect(t) /\ StopEffect(t)
  BY TurnEffects DEF Effects
<1>2. \A u \in Turns : pc'[u] \in {"interrupt", "publishInterrupt"} => u \in interrupted'
  BY <1>1 DEF StopInv, TurnEffect, StopEffect
<1>3. PICK f : IsCause(f)
  BY DEF StopInv
<1>4. log \in Seq(Events) /\ log' \in Seq(Events)
  BY DEF IInv, TypeOK, Events
<1>5. interrupted' = interrupted /\ Pending' \subseteq Pending
  BY <1>1 DEF TurnEffect, Pending
<1>6. log' = log \/ \E e : log' = Append(log, e) /\ (Stops(e) => e.by \in interrupted)
  BY <1>1 DEF StopEffect, StopInv
<1> QED BY <1>2, <1>3, <1>4, <1>5, <1>6, CauseKept DEF StopInv

\* Publishing an event for a client, the interrupt apart.
LEMMA PublishStop ==
  ASSUME IInv, StopInv, IInv', NEW r \in Requests, PublishUserEvent(r)
  PROVE  StopInv'
<1> DEFINE q == req[r]
           u == q.body[q.next]
<1>1. /\ log \in Seq(Events) /\ log' \in Seq(Events) /\ req \in [Requests -> RequestStates]
      /\ interrupted \subseteq Turns /\ r \notin Turns
  BY ConstantsAssumption DEF IInv, TypeOK, Events, Turns
<1>2. UNCHANGED <<pc, interrupted>> /\ q.pc = "posting"
  BY DEF PublishUserEvent, harness
<1>3. PICK f : IsCause(f)
  BY DEF StopInv
<1>4. PICK ok \in BOOLEAN, ref \in IF u.kind \in {"allow", "deny"} THEN AskedUses(u.thread) ELSE {0} :
        /\ Publish(ok, About(ref, Event(u.kind, u.thread, r, "")))
        /\ req' = [req EXCEPT ![r] =
             CASE ~ok -> [q EXCEPT !.pc = "refused"]
               [] ok /\ u.kind = "interrupt" -> [q EXCEPT !.pc = "interrupting"]
               [] OTHER -> [q EXCEPT !.next = @ + 1, !.threads = @ \cup {u.thread}]]
  BY DEF PublishUserEvent
<1> DEFINE e == About(ref, Event(u.kind, u.thread, r, ""))
<1>5. e.type = u.kind /\ ~Stops(e)
  BY DEF About, Event, Stops
<1>6. log' = IF ok THEN Append(log, e) ELSE log
  BY <1>4 DEF Publish
<1>7. \A s \in Requests : s # r => req'[s] = req[s]
  BY <1>1, <1>4
<1>8. CASE ok /\ u.kind = "interrupt"
  <2>1. req'[r].pc = "interrupting"
    BY <1>1, <1>4, <1>8 DEF RequestStates
  <2>2. Pending' = Pending \cup {r} /\ r \notin interrupted \cup Pending
    BY <1>1, <1>2, <1>7, <2>1 DEF Pending
  <2>3. log' = Append(log, e) /\ e.type = "interrupt"
    BY <1>5, <1>6, <1>8
  <2> HIDE DEF e
  <2>4. \E g : IsCause(g)'
    BY <1>1, <1>2, <1>3, <2>2, <2>3, CauseNew
  <2> QED BY <1>2, <2>4 DEF StopInv
<1>9. CASE ~(ok /\ u.kind = "interrupt")
  <2>1. req'[r].pc \in {"refused", "posting"}
    BY <1>1, <1>2, <1>4, <1>9 DEF RequestStates
  <2>2. Pending' \subseteq Pending
    BY <1>7, <2>1 DEF Pending
  <2> HIDE DEF e
  <2>3. \E g : IsCause(g)'
    BY <1>1, <1>2, <1>3, <1>5, <1>6, <2>2, CauseKept
  <2> QED BY <1>2, <2>3 DEF StopInv
<1> QED BY <1>8, <1>9

\* The other steps of the handlers, the crash and the recovery.
LEMMA CancelStop ==
  ASSUME IInv, StopInv, IInv', NEW r \in Requests, CallCancel(r)
  PROVE  StopInv'
<1>1. /\ log \in Seq(Events) /\ req \in [Requests -> RequestStates]
      /\ interrupted \subseteq Turns /\ Turns \cap Requests = {} /\ NoTurn \notin Turns
  BY ConstantsAssumption DEF IInv, TypeOK, Events, Turns
<1> DEFINE c == req[r].cancel
<1>2. /\ req[r].pc = "cancelling" /\ interrupted' = interrupted \cup ({c} \ {NoTurn})
      /\ UNCHANGED <<log, pc>>
      /\ req' = [req EXCEPT ![r] = [@ EXCEPT !.pc = "posting", !.cancel = NoTurn, !.next = req[r].next + 1]]
  BY DEF CallCancel
<1>3. c \in Turns \cup {NoTurn}
  BY <1>1 DEF RequestStates
<1>4. req'[r].pc = "posting" /\ \A s \in Requests : s # r => req'[s] = req[s]
  BY <1>1, <1>2 DEF RequestStates
<1>5. Pending' = Pending \ {r} /\ r \in Pending /\ Pending \subseteq Requests
  BY <1>2, <1>4 DEF Pending
<1>6. PICK f : IsCause(f)
  BY DEF StopInv
<1>7. \A t \in Turns : pc'[t] \in {"interrupt", "publishInterrupt"} => t \in interrupted'
  BY <1>2 DEF StopInv
<1>8. CASE c = NoTurn
  <2>1. interrupted' = interrupted
    BY <1>2, <1>8
  <2> QED BY <1>1, <1>2, <1>5, <1>6, <1>7, <2>1, CauseKept DEF StopInv
<1>9. CASE c # NoTurn
  <2>1. interrupted' = interrupted \cup {c} /\ c \in Turns
    BY <1>2, <1>3, <1>9
  <2>2. r \notin interrupted /\ c \notin Pending
    BY <1>1, <1>5, <2>1
  <2> HIDE DEF c
  <2>3. \E g : IsCause(g)'
    BY <1>2, <1>5, <1>6, <2>1, <2>2, CauseCancel
  <2> QED BY <1>7, <2>3 DEF StopInv
<1> QED BY <1>8, <1>9

LEMMA OtherStop ==
  ASSUME IInv, StopInv, IInv',
         (\E r \in Requests : PostEvents(r) \/ LoadCancel(r) \/ StartTurns(r)) \/ Crash \/ Recover
  PROVE  StopInv'
<1>1. log \in Seq(Events) /\ log' \in Seq(Events) /\ req \in [Requests -> RequestStates]
  BY DEF IInv, TypeOK, Events
<1>2. PICK f : IsCause(f)
  BY DEF StopInv
<1>3. interrupted' = interrupted
  BY DEF PostEvents, LoadCancel, StartTurns, Crash, Recover, RecoverList, RecoverMark, RecoverPublish, harness
<1>4. \A t \in Turns : pc'[t] \in {"interrupt", "publishInterrupt"} => pc'[t] = pc[t]
  BY DEF PostEvents, LoadCancel, StartTurns, Crash, Recover, RecoverList, RecoverMark, RecoverPublish, harness
<1>5. log' = log \/ \E e : log' = Append(log, e) /\ ~Stops(e)
  <2> DEFINE e == Event("terminated", Primary, NoTurn, "interrupted")
  <2>1. log' = log \/ log' = Append(log, e)
    BY DEF PostEvents, LoadCancel, StartTurns, Crash, Recover, RecoverList, RecoverMark, RecoverPublish, Publish
  <2>2. ~Stops(e)
    BY DEF Stops, Event
  <2> HIDE DEF e
  <2> QED BY <2>1, <2>2
<1>6. Pending' \subseteq Pending
  <2>1. ASSUME NEW r \in Requests, PostEvents(r) \/ LoadCancel(r) \/ StartTurns(r) PROVE Pending' \subseteq Pending
    <3>1. \A s \in Requests : s # r => req'[s] = req[s]
      BY <1>1, <2>1 DEF PostEvents, LoadCancel, StartTurns
    <3>2. req'[r].pc \in {"interrupting", "cancelling"} => req[r].pc \in {"interrupting", "cancelling"}
      BY <1>1, <2>1 DEF PostEvents, LoadCancel, StartTurns, RequestStates
    <3> QED BY <3>1, <3>2 DEF Pending
  <2>2. CASE Crash
    <3>1. ASSUME NEW s \in Requests, req'[s].pc \in {"interrupting", "cancelling"} PROVE req'[s] = req[s]
      <4>1. [req[s] EXCEPT !.pc = "killed", !.cancel = NoTurn].pc = "killed"
        BY <1>1 DEF RequestStates
      <4> QED BY <2>2, <3>1, <4>1 DEF Crash
    <3> QED BY <3>1 DEF Pending
  <2>3. CASE Recover
    BY <2>3 DEF Recover, RecoverList, RecoverMark, RecoverPublish, Pending
  <2> QED BY <2>1, <2>2, <2>3
<1>7. \E g : IsCause(g)'
  BY <1>1, <1>2, <1>3, <1>5, <1>6, CauseKept
<1> QED BY <1>3, <1>4, <1>7 DEF StopInv

LEMMA StopInductive == Spec => []StopInv
<1>1. Init => StopInv
  <2> SUFFICES ASSUME Init PROVE StopInv
    OBVIOUS
  <2> DEFINE f == [x \in {} |-> 0]
  <2>1. interrupted \cup Pending = {}
    BY DEF Init, Pending, NewRequest
  <2>2. Stopped = {} /\ \A t \in Turns : pc[t] = "none"
    BY DEF Init, Stopped, EventsOf
  <2>3. f \in [{} -> EventsOf("interrupt")] /\ IsInjective(f)
    BY DEF IsInjective
  <2> HIDE DEF f
  <2>4. IsCause(f)
    BY <2>1, <2>2, <2>3 DEF IsCause
  <2> QED BY <2>2, <2>4 DEF StopInv
<1>2. IInv /\ StopInv /\ IInv' /\ [Next]_vars => StopInv'
  <2> SUFFICES ASSUME IInv, StopInv, IInv', [Next]_vars PROVE StopInv'
    OBVIOUS
  <2>1. CASE UNCHANGED vars
    BY <2>1 DEF vars, StopInv, IsCause, Stopped, Pending, EventsOf
  <2> QED BY <2>1, TurnStop, PublishStop, CancelStop, OtherStop DEF Next, HandlerStep
<1> QED BY <1>1, <1>2, Inductive, PTL DEF Spec

\* A turn ends with idle{interrupt} only because of a user.interrupt of its own that
\* came before: Harness.Interrupt cancels one turn at most, whatever interrupts and
\* turns overlap, and no error of its own makes a turn end that way.
THEOREM InterruptsHaveCauses == Spec => []InterruptHasCause
<1>1. IInv /\ StopInv => InterruptHasCause
  <2> SUFFICES ASSUME IInv, StopInv, NEW i \in Stopped
               PROVE  Cardinality({j \in Stopped : j <= i}) <= Cardinality({j \in EventsOf("interrupt") : j < i})
    BY DEF InterruptHasCause, Stopped
  <2> DEFINE S == {j \in Stopped : j <= i}
             T == {j \in EventsOf("interrupt") : j < i}
  <2>1. PICK f : IsCause(f)
    BY DEF StopInv
  <2> DEFINE g == [j \in S |-> f[log[j].by]]
  <2>2. log \in Seq(Events) /\ interrupted \subseteq Turns /\ DOMAIN log = 1 .. Len(log) /\ Len(log) \in Nat
    BY DEF IInv, TypeOK, Events
  <2>3. /\ \A x \in interrupted : f[x] \in EventsOf("interrupt")
        /\ \A x, y \in interrupted : f[x] = f[y] => x = y
        /\ \A j \in Stopped : log[j].by \in interrupted /\ f[log[j].by] < j
    BY <2>1 DEF IsCause, IsInjective
  <2>4. EventsOf("interrupt") \subseteq 1 .. Len(log) /\ Stopped \subseteq 1 .. Len(log)
    BY <2>2 DEF EventsOf, Stopped
  <2>5. \A j, k \in Stopped : log[j].by = log[k].by => j = k
    <3>1. \A j \in Stopped : j \in DOMAIN log /\ log[j].by \in Turns /\ log[j].type \in Closing
      BY <2>2, <2>3 DEF Stopped, EventsOf, Closing
    <3>2. \A j, k \in Stopped : log[j].by = log[k].by => j <= k /\ k <= j
      BY <3>1 DEF IInv, TurnClosedOnce
    <3> QED BY <2>4, <3>2
  <2>6. g \in [S -> T]
    <3>1. \A j \in S : f[log[j].by] \in T
      <4>1. SUFFICES ASSUME NEW j \in S PROVE f[log[j].by] \in T
        OBVIOUS
      <4>2. f[log[j].by] \in EventsOf("interrupt") /\ f[log[j].by] < j /\ j <= i
        BY <2>3
      <4>3. f[log[j].by] \in Nat /\ j \in Nat /\ i \in Nat
        BY <2>4, <4>2
      <4> QED BY <4>2, <4>3
    <3> QED BY <3>1
  <2>7. IsInjective(g)
    <3>1. \A j, k \in S : f[log[j].by] = f[log[k].by] => j = k
      BY <2>3, <2>5
    <3> QED BY <3>1 DEF IsInjective
  <2>8. g \in Injection(S, T)
    BY <2>6, <2>7 DEF Injection
  <2>9. IsFiniteSet(T)
    <3>1. IsFiniteSet(1 .. Len(log))
      BY <2>2, FS_Interval
    <3>2. T \in SUBSET (1 .. Len(log))
      BY <2>4
    <3> QED BY <3>1, <3>2, FS_Subset
  <2> HIDE DEF g, S, T
  <2>10. Cardinality(S) <= Cardinality(T)
    BY <2>8, <2>9, FS_Injection
  <2> QED BY <2>10 DEF S, T
<1> QED BY <1>1, Inductive, StopInductive, PTL
=============================================================================
