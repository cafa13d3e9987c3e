---------------------------- MODULE SessionTurn ----------------------------
(***************************************************************************)
(* One session of jed: the handler that accepts user events                *)
(* (internal/api/event.go postEvents), the turns it starts                 *)
(* (internal/harness RunThread with its retries, approvals, interrupt and  *)
(* terminal defer), and the start-up recovery (cmd/jed).  Turns are        *)
(* goroutines; the mutex of the session runs them one at a time.           *)
(*                                                                         *)
(* Broker.Publish is one atomic append to the log of the session: that is  *)
(* what EventLog implements.  An event's id is its position in the log.    *)
(* A write made with a cancelled context fails, and most callers ignore    *)
(* the error.  Data that no property tells apart is left out: the content  *)
(* of messages, spans and usage; user.custom_tool_result is a "message",   *)
(* because both only make the handler start a turn.  The handler does not  *)
(* look at types: that clients post user.* events, and no session.status_* *)
(* or agent.tool_result of their own, is an assumption about clients.      *)
(***************************************************************************)
EXTENDS Integers, Sequences, FiniteSets, FiniteSetsExt

CONSTANTS
  Requests,       \* one element per POST /v1/sessions/{id}/events
  Threads,        \* session_thread_id values; Primary is one of them
  Primary,
  Scenarios,      \* what the clients post: functions from requests to bodies, which are
                  \* sequences of [kind, thread]; <<>> is never posted
  Replies,        \* tool uses of a model reply: sequences of ToolKinds, <<>> is plain text
  MaxRetries,     \* Harness.MaxRetries
  Backoff,        \* whether Harness.RetryBackoff > 0
  MaxSteps,       \* Harness.MaxSteps
  MaxTroubles,    \* bound: lost writes, outages and crashes, together
  NoTurn

ToolKinds == {"auto", "ask", "custom", "guarded"}
Triggers == {"message", "allow", "deny"}
UserKinds == Triggers \cup {"interrupt", "malformed"}

ASSUME ConstantsAssumption ==
  /\ Primary \in Threads
  /\ Scenarios \subseteq [Requests -> Seq([kind : UserKinds, thread : Threads])]
  /\ Replies \subseteq Seq(ToolKinds)
  /\ MaxRetries \in Nat /\ MaxSteps \in Nat \ {0} /\ Backoff \in BOOLEAN
  /\ MaxTroubles \in Nat
  /\ Requests \cap (Requests \X Threads) = {}
  /\ NoTurn \notin Requests \X Threads

\* The goroutine that postEvents starts for one thread of one request.
Turns == Requests \X Threads
Thread(t) == t[2]

VARIABLES
  daemon,       \* "serving", or "down" and then the steps of the recovery
  status,       \* column status of the session row
  log,          \* the events of the session
  req,          \* req[r]: the handler of request r
  pc,           \* pc[t]: progress of turn t
  local,        \* local[t]: the variables of turn t
  mu,           \* turnMu: the turn holding the mutex of the session
  canceller,    \* cancels: the turn whose cancel function is registered
  interrupted,  \* turns whose context Interrupt has cancelled
  ran,          \* <<use, turn>>: the executions of tools (history)
  faults,       \* writes, and listings of the recovery, that failed for a reason of their own
  outages,      \* reads, sandboxes and model calls that failed for good, in a turn
  crashes       \* crashes of jed

harness == <<pc, local, mu, canceller, interrupted, ran>>
vars == <<daemon, status, log, req, pc, local, mu, canceller, interrupted, ran, faults, outages, crashes>>

(***************************************************************************)
(* Events and writes.                                                      *)
(***************************************************************************)
Event(type, thread, by, info) ==
  [type |-> type, thread |-> thread, by |-> by, info |-> info, ref |-> 0]
\* An event that names an earlier one, such as the result of a tool use.
About(i, event) == [event EXCEPT !.ref = i]

\* Whether a write, or the listing of the recovery, succeeds.  Under a cancelled
\* context it is doomed; otherwise it may fail on its own (a conflict of EventLog,
\* a full disk).
TroubleLeft == faults + outages + crashes < MaxTroubles
Attempt(doomed, ok) ==
  /\ doomed => ~ok
  /\ ~ok /\ ~doomed => TroubleLeft
  /\ faults' = IF ok \/ doomed THEN faults ELSE faults + 1

\* A call that fails for a reason of its own, and is not tried again.
Outage == TroubleLeft /\ outages' = outages + 1

Publish(ok, event) == log' = IF ok THEN Append(log, event) ELSE log
SetStatus(ok, s) == status' = IF ok THEN s ELSE status

Goto(t, step) == pc' = [pc EXCEPT ![t] = step]
Cancelled(t) == t \in interrupted

NewLocal == [attempt |-> 0, step |-> 0, tools |-> << >>, use |-> 0, todo |-> {},
             stop |-> "end_turn", seen |-> 0]
NewRequest(body) ==
  [pc |-> "unsent", body |-> body, next |-> 1, cancel |-> NoTurn, threads |-> {}]

Init ==
  /\ daemon = "serving"
  /\ status = "idle"
  /\ log = << >>
  /\ \E bodies \in Scenarios : req = [r \in Requests |-> NewRequest(bodies[r])]
  /\ pc = [t \in Turns |-> "none"]
  /\ local = [t \in Turns |-> NewLocal]
  /\ mu = NoTurn
  /\ canceller = NoTurn
  /\ interrupted = {}
  /\ ran = {}
  /\ faults = 0
  /\ outages = 0
  /\ crashes = 0

(***************************************************************************)
(* postEvents.                                                             *)
(***************************************************************************)
AskedUses(thread) ==
  {i \in DOMAIN log : log[i].type = "tool_use" /\ log[i].info = "ask" /\ log[i].thread = thread}

\* A client confirms only what it was asked.
Sensible(body) ==
  \A i \in DOMAIN body : body[i].kind \in {"allow", "deny"} => AskedUses(body[i].thread) # {}

PostEvents(r) ==
  /\ daemon = "serving"
  /\ req[r].pc = "unsent"
  /\ req[r].body # << >> /\ Sensible(req[r].body)
  /\ req' = [req EXCEPT ![r].pc = "posting"]
  /\ UNCHANGED <<daemon, status, log, faults, outages, crashes>> /\ UNCHANGED harness

\* The loop body for one event.  A malformed event or a failed Publish ends the
\* handler with 400 or 500; what it has published stays.
PublishUserEvent(r) ==
  LET q == req[r]
      e == q.body[q.next]
  IN
  /\ q.pc = "posting"
  /\ q.next <= Len(q.body)
  /\ \E ok \in BOOLEAN, ref \in IF e.kind \in {"allow", "deny"} THEN AskedUses(e.thread) ELSE {0} :
       /\ Attempt(e.kind = "malformed", ok)
       /\ Publish(ok, About(ref, Event(e.kind, e.thread, r, "")))
       /\ req' = [req EXCEPT ![r] =
            CASE ~ok -> [q EXCEPT !.pc = "refused"]
              [] ok /\ e.kind = "interrupt" -> [q EXCEPT !.pc = "interrupting"]
              [] OTHER -> [q EXCEPT !.next = @ + 1, !.threads = @ \cup {e.thread}]]
  /\ UNCHANGED <<daemon, status, outages, crashes>> /\ UNCHANGED harness

\* Harness.Interrupt, in two steps: load the registered cancel, then call it.
LoadCancel(r) ==
  /\ req[r].pc = "interrupting"
  /\ req' = [req EXCEPT ![r] = [@ EXCEPT !.pc = "cancelling", !.cancel = canceller]]
  /\ UNCHANGED <<daemon, status, log, faults, outages, crashes>> /\ UNCHANGED harness

CallCancel(r) ==
  /\ req[r].pc = "cancelling"
  /\ interrupted' = interrupted \cup ({req[r].cancel} \ {NoTurn})
  /\ req' = [req EXCEPT ![r] = [@ EXCEPT !.pc = "posting", !.cancel = NoTurn, !.next = req[r].next + 1]]
  /\ UNCHANGED <<daemon, status, log, pc, local, mu, canceller, ran, faults, outages, crashes>>

\* Fault: no new goroutine while a turn of the session is running.
StartTurnsCoalesced(r) ==
  /\ req[r].pc = "posting"
  /\ req[r].next > Len(req[r].body)
  /\ req' = [req EXCEPT ![r].pc = "accepted"]
  /\ pc' = IF mu # NoTurn THEN pc
           ELSE [t \in Turns |-> IF t[1] = r /\ Thread(t) \in req[r].threads THEN "waiting" ELSE pc[t]]
  /\ UNCHANGED <<daemon, status, log, local, mu, canceller, interrupted, ran, faults, outages, crashes>>

\* All events are in the log: one goroutine per triggered thread, then 202.
StartTurns(r) ==
  /\ req[r].pc = "posting"
  /\ req[r].next > Len(req[r].body)
  /\ req' = [req EXCEPT ![r].pc = "accepted"]
  /\ pc' = [t \in Turns |-> IF t[1] = r /\ Thread(t) \in req[r].threads THEN "waiting" ELSE pc[t]]
  /\ UNCHANGED <<daemon, status, log, local, mu, canceller, interrupted, ran, faults, outages, crashes>>

HandlerStep(r) ==
  PublishUserEvent(r) \/ LoadCancel(r) \/ CallCancel(r) \/ StartTurns(r)

(***************************************************************************)
(* RunThread: the parts every turn goes through.                           *)
(***************************************************************************)

\* A write of turn t that sets the status or publishes an event, whose error is
\* ignored.
StatusStep(t, from, s, to) ==
  /\ pc[t] = from
  /\ \E ok \in BOOLEAN : Attempt(Cancelled(t), ok) /\ SetStatus(ok, s)
  /\ Goto(t, to)
  /\ UNCHANGED <<daemon, log, req, local, mu, canceller, interrupted, ran, outages, crashes>>

EventStep(t, from, event, to) ==
  /\ pc[t] = from
  /\ \E ok \in BOOLEAN : Attempt(Cancelled(t), ok) /\ Publish(ok, event)
  /\ Goto(t, to)
  /\ UNCHANGED <<daemon, status, req, local, mu, canceller, interrupted, ran, outages, crashes>>

\* A step of turn t on its own variables.
LocalStep(t, from, l, to) ==
  /\ pc[t] = from
  /\ local' = [local EXCEPT ![t] = l]
  /\ Goto(t, to)
  /\ UNCHANGED <<daemon, status, log, req, mu, canceller, interrupted, ran, faults, outages, crashes>>

\* Fault: lockTurn does not wait.
LockTurnNoWait(t) ==
  /\ pc[t] = "waiting"
  /\ mu' = t
  /\ Goto(t, "locked")
  /\ UNCHANGED <<daemon, status, log, req, local, canceller, interrupted, ran, faults, outages, crashes>>

LockTurn(t) ==
  /\ pc[t] = "waiting"
  /\ mu = NoTurn
  /\ mu' = t
  /\ Goto(t, "locked")
  /\ UNCHANGED <<daemon, status, log, req, local, canceller, interrupted, ran, faults, outages, crashes>>

RegisterCancel(t) ==
  /\ pc[t] = "locked"
  /\ canceller' = t
  /\ Goto(t, "begin")
  /\ UNCHANGED <<daemon, status, log, req, local, mu, interrupted, ran, faults, outages, crashes>>

\* RunThread returns an error: context.Canceled goes to "interrupt", any other
\* one to "terminate", where the terminal defer takes over.
\* GetSession and Provision.
Begin(t) ==
  LocalStep(t, "begin", local[t], IF Cancelled(t) THEN "interrupt" ELSE "markRunning")

\* Fault: any error ends the turn as if the user had interrupted it.
CallFailsQuietly(t) ==
  /\ pc[t] \in {"begin", "resolve", "loop", "model"}
  /\ Outage
  /\ Goto(t, "interrupt")
  /\ UNCHANGED <<daemon, status, log, req, local, mu, canceller, interrupted, ran, faults, crashes>>

\* GetSession, Provision, ListEvents, buildMessages or the model fails for good.
CallFails(t) ==
  /\ pc[t] \in {"begin", "resolve", "loop", "model"}
  /\ pc[t] = "loop" => local[t].step < MaxSteps
  /\ Outage
  /\ Goto(t, "terminate")
  /\ UNCHANGED <<daemon, status, log, req, local, mu, canceller, interrupted, ran, faults, crashes>>

MarkRunning(t) == StatusStep(t, "markRunning", "running", "publishRunning")

PublishRunning(t) ==
  EventStep(t, "publishRunning", Event("running", Thread(t), t, ""), "resolve")

(***************************************************************************)
(* resolvePendingToolConfirmations.                                        *)
(***************************************************************************)

\* Uses that await a confirmation, whatever the thread of their turn now does.
Resolved(i) == \E j \in DOMAIN log : log[j].type = "tool_result" /\ log[j].ref = i
Verdicts(i) == {j \in DOMAIN log : log[j].type \in {"allow", "deny"} /\ log[j].ref = i}
IsLast(j, i) == \A k \in Verdicts(i) : k <= j
Decision(j) == [use |-> log[j].ref, verdict |-> log[j].type]

\* Fault: the results already in the log are not looked at.
ConfirmedAgain(thread) ==
  {Decision(j) : j \in {k \in DOMAIN log :
     \E i \in AskedUses(thread) : k \in Verdicts(i) /\ IsLast(k, i)}}

\* What the user has decided and no turn has carried out; the last verdict wins.
Confirmed(thread) ==
  {Decision(j) : j \in {k \in DOMAIN log :
     \E i \in AskedUses(thread) : k \in Verdicts(i) /\ IsLast(k, i) /\ ~Resolved(i)}}

FirstOf(todo) == CHOOSE d \in todo : \A e \in todo : d.use <= e.use

\* ListEvents under the context of the turn, then the todo list of this turn.
ReadConfirmations(t) ==
  IF Cancelled(t)
    THEN LocalStep(t, "resolve", local[t], "interrupt")
    ELSE LocalStep(t, "resolve", [local[t] EXCEPT !.todo = Confirmed(Thread(t))], "resolving")

\* Fault: whatever the user has decided counts as a permission.
ResolveUnread(t) ==
  IF local[t].todo = {}
    THEN LocalStep(t, "resolving", local[t], "loop")
    ELSE LET d == FirstOf(local[t].todo) IN
         LocalStep(t, "resolving", [local[t] EXCEPT !.todo = @ \ {d}, !.use = d.use], "runAllowed")

ResolveNext(t) ==
  IF local[t].todo = {}
    THEN LocalStep(t, "resolving", local[t], "loop")
    ELSE LET d == FirstOf(local[t].todo) IN
         LocalStep(t, "resolving",
                   [local[t] EXCEPT !.todo = @ \ {d}, !.use = d.use],
                   IF d.verdict = "allow" THEN "runAllowed" ELSE "publishResolved")

\* executeServerTool; a cancelled context makes it return an error result.
Execute(t, from, to) ==
  /\ pc[t] = from
  /\ ran' = ran \cup {<<local[t].use, t>>}
  /\ Goto(t, to)
  /\ UNCHANGED <<daemon, status, log, req, local, mu, canceller, interrupted, faults, outages, crashes>>

RunAllowed(t) == Execute(t, "runAllowed", "publishResolved")

ToolResult(t) == About(local[t].use, Event("tool_result", Thread(t), t, ""))

PublishResolved(t) == EventStep(t, "publishResolved", ToolResult(t), "resolving")

(***************************************************************************)
(* The agent loop.                                                         *)
(***************************************************************************)

\* ctx.Err and buildMessages at the top of an iteration.
BeginStep(t) ==
  LET l == local[t] IN
  CASE l.step = MaxSteps ->
         LocalStep(t, "loop", [l EXCEPT !.stop = "max_turns"], "finish")
    [] l.step < MaxSteps /\ Cancelled(t) ->
         LocalStep(t, "loop", l, "interrupt")
    [] OTHER ->
         LocalStep(t, "loop", [l EXCEPT !.attempt = 0, !.seen = Len(log)], "model")

\* callModelOnce returns a reply.  An interrupted stream may still do so: the
\* parser closes a truncated stream with a stop reason of its own.
ModelReplies(t) ==
  \E tools \in Replies :
    LocalStep(t, "model", [local[t] EXCEPT !.tools = tools, !.stop = "end_turn"],
              IF tools = << >> THEN "finish" ELSE "tool")

\* callModelOnce returns a retryable error: 5xx, 429, or a failed connection,
\* which is also what a cancelled request looks like.
ModelUnavailable(t) ==
  /\ pc[t] = "model"
  /\ IF local[t].attempt < MaxRetries
       THEN /\ local' = [local EXCEPT ![t].attempt = @ + 1]
            /\ Goto(t, "reschedule")
       ELSE Goto(t, "terminate") /\ UNCHANGED local
  /\ UNCHANGED <<daemon, status, log, req, mu, canceller, interrupted, ran, faults, outages, crashes>>

MarkRescheduling(t) == StatusStep(t, "reschedule", "rescheduling", "publishRescheduled")

\* Published on the primary thread, whatever the thread of the turn.
PublishRescheduled(t) ==
  EventStep(t, "publishRescheduled", Event("rescheduled", Primary, t, ""), "backoff")

WaitBackoff(t) ==
  LocalStep(t, "backoff", local[t], IF Backoff /\ Cancelled(t) THEN "interrupt" ELSE "retry")

MarkRetrying(t) == StatusStep(t, "retry", "running", "model")

\* The tool_use event: the one Publish whose error ends the turn.
PublishToolUse(t) ==
  LET kind == Head(local[t].tools) IN
  /\ pc[t] = "tool"
  /\ \E ok \in BOOLEAN :
       /\ Attempt(Cancelled(t), ok)
       /\ Publish(ok, Event("tool_use", Thread(t), t, kind))
       /\ local' = [local EXCEPT ![t].use = IF ok THEN Len(log) + 1 ELSE @]
       /\ Goto(t, CASE ~ok /\ Cancelled(t) -> "interrupt"
                    [] ~ok /\ ~Cancelled(t) -> "terminate"
                    [] ok -> CASE kind = "guarded" -> "publishResult"
                               [] kind = "custom" -> "markAction"
                               [] kind = "ask" -> "markAsking"
                               [] OTHER -> "run")
  /\ UNCHANGED <<daemon, status, req, mu, canceller, interrupted, ran, outages, crashes>>

RunTool(t) == Execute(t, "run", "publishResult")

\* The result, then the next tool of the reply or the next iteration.
PublishResult(t) ==
  LET l == local[t]
      rest == Tail(l.tools)
  IN
  /\ pc[t] = "publishResult"
  /\ \E ok \in BOOLEAN : Attempt(Cancelled(t), ok) /\ Publish(ok, ToolResult(t))
  /\ local' = [local EXCEPT ![t] = [@ EXCEPT !.tools = rest,
                            !.step = IF rest = << >> THEN l.step + 1 ELSE l.step]]
  /\ Goto(t, IF rest = << >> THEN "loop" ELSE "tool")
  /\ UNCHANGED <<daemon, status, req, mu, canceller, interrupted, ran, outages, crashes>>

\* Fault: a status that the CHECK constraint of the table does not list.
MarkActionUnlisted(t) == StatusStep(t, "markAction", "awaiting_action", "publishAction")

\* Fault: no return after the turn has announced that it waits.
PublishAskingAndGoOn(t) ==
  EventStep(t, "publishAsking", Event("idle", Thread(t), t, "requires_action"), "run")

\* A custom tool pauses the session for the client, a tool under always_ask for
\* the user; either way the turn is over and the other tools of the reply are dropped.
MarkAction(t) == StatusStep(t, "markAction", "requires_action", "publishAction")
PublishAction(t) ==
  EventStep(t, "publishAction", Event("requires_action", Thread(t), t, ""), "release")

MarkAsking(t) == StatusStep(t, "markAsking", "idle", "publishAsking")
PublishAsking(t) ==
  EventStep(t, "publishAsking", Event("idle", Thread(t), t, "requires_action"), "release")

\* Fault: the row is not set back to idle.
MarkIdleForgotten(t) == StatusStep(t, "finish", status, "publishIdle")

MarkIdle(t) == StatusStep(t, "finish", "idle", "publishIdle")
PublishIdle(t) ==
  EventStep(t, "publishIdle", Event("idle", Thread(t), t, local[t].stop), "release")

(***************************************************************************)
(* The defers of RunThread.  The terminal one writes under a context of    *)
(* its own, which nobody cancels.                                          *)
(***************************************************************************)
DeferredStatus(t, from, s, to) ==
  /\ pc[t] = from
  /\ \E ok \in BOOLEAN : Attempt(FALSE, ok) /\ SetStatus(ok, s)
  /\ Goto(t, to)
  /\ UNCHANGED <<daemon, log, req, local, mu, canceller, interrupted, ran, outages, crashes>>

DeferredEvent(t, from, event, to) ==
  /\ pc[t] = from
  /\ \E ok \in BOOLEAN : Attempt(FALSE, ok) /\ Publish(ok, event)
  /\ Goto(t, to)
  /\ UNCHANGED <<daemon, status, req, local, mu, canceller, interrupted, ran, outages, crashes>>

MarkInterrupted(t) == DeferredStatus(t, "interrupt", "idle", "publishInterrupt")
PublishInterrupted(t) ==
  DeferredEvent(t, "publishInterrupt", Event("idle", Thread(t), t, "interrupt"), "release")

MarkTerminated(t) == DeferredStatus(t, "terminate", "terminated", "publishTerminated")
PublishTerminated(t) ==
  DeferredEvent(t, "publishTerminated", Event("terminated", Thread(t), t, "agent_error"), "release")

\* cancel() and cancels.Delete.
UnregisterCancel(t) ==
  /\ pc[t] = "release"
  /\ canceller' = NoTurn
  /\ Goto(t, "unlock")
  /\ UNCHANGED <<daemon, status, log, req, local, mu, interrupted, ran, faults, outages, crashes>>

\* Fault: a turn that was interrupted keeps the mutex.
UnlockForgotten(t) ==
  /\ pc[t] = "unlock"
  /\ mu' = IF Cancelled(t) THEN mu ELSE NoTurn
  /\ local' = [local EXCEPT ![t] = NewLocal]
  /\ Goto(t, "done")
  /\ UNCHANGED <<daemon, status, log, req, canceller, interrupted, ran, faults, outages, crashes>>

UnlockTurn(t) ==
  /\ pc[t] = "unlock"
  /\ mu' = NoTurn
  /\ local' = [local EXCEPT ![t] = NewLocal]
  /\ Goto(t, "done")
  /\ UNCHANGED <<daemon, status, log, req, canceller, interrupted, ran, faults, outages, crashes>>

TurnStep(t) ==
  \/ LockTurn(t) \/ RegisterCancel(t) \/ Begin(t) \/ CallFails(t) \/ MarkRunning(t) \/ PublishRunning(t)
  \/ ReadConfirmations(t) \/ ResolveNext(t) \/ RunAllowed(t) \/ PublishResolved(t)
  \/ BeginStep(t) \/ ModelReplies(t) \/ ModelUnavailable(t)
  \/ MarkRescheduling(t) \/ PublishRescheduled(t) \/ WaitBackoff(t) \/ MarkRetrying(t)
  \/ PublishToolUse(t) \/ RunTool(t) \/ PublishResult(t)
  \/ MarkAction(t) \/ PublishAction(t) \/ MarkAsking(t) \/ PublishAsking(t)
  \/ MarkIdle(t) \/ PublishIdle(t)
  \/ MarkInterrupted(t) \/ PublishInterrupted(t) \/ MarkTerminated(t) \/ PublishTerminated(t)
  \/ UnregisterCancel(t) \/ UnlockTurn(t)

(***************************************************************************)
(* Crash and start-up recovery (recoverInterruptedSessions).               *)
(***************************************************************************)
InTurn(t) == pc[t] \notin {"none", "waiting", "done", "killed"}

Crash ==
  /\ daemon # "down"
  /\ TroubleLeft
  /\ daemon' = "down"
  /\ crashes' = crashes + 1
  /\ pc' = [t \in Turns |-> IF InTurn(t) \/ pc[t] = "waiting" THEN "killed" ELSE pc[t]]
  /\ local' = [t \in Turns |-> NewLocal]
  /\ req' = [r \in Requests |->
               IF req[r].pc \in {"posting", "interrupting", "cancelling"}
                 THEN [req[r] EXCEPT !.pc = "killed", !.cancel = NoTurn] ELSE req[r]]
  /\ mu' = NoTurn
  /\ canceller' = NoTurn
  /\ UNCHANGED <<status, log, interrupted, ran, faults, outages>>

\* Fault: a session that was waiting for a retry is not recovered.
RecoverListRunning ==
  /\ daemon = "down"
  /\ \E ok \in BOOLEAN :
       /\ Attempt(FALSE, ok)
       /\ daemon' = IF ok /\ status = "running" THEN "recoverMark" ELSE "serving"
  /\ UNCHANGED <<status, log, req, outages, crashes>> /\ UNCHANGED harness

\* ListSessionsByStatus: when it fails, jed serves without having recovered anything.
RecoverList ==
  /\ daemon = "down"
  /\ \E ok \in BOOLEAN :
       /\ Attempt(FALSE, ok)
       /\ daemon' = IF ok /\ status \in {"running", "rescheduling"} THEN "recoverMark" ELSE "serving"
  /\ UNCHANGED <<status, log, req, outages, crashes>> /\ UNCHANGED harness

RecoverMark ==
  /\ daemon = "recoverMark"
  /\ \E ok \in BOOLEAN :
       /\ Attempt(FALSE, ok)
       /\ SetStatus(ok, "terminated")
       /\ daemon' = IF ok THEN "recoverPublish" ELSE "serving"
  /\ UNCHANGED <<log, req, outages, crashes>> /\ UNCHANGED harness

RecoverPublish ==
  /\ daemon = "recoverPublish"
  /\ \E ok \in BOOLEAN :
       Attempt(FALSE, ok) /\ Publish(ok, Event("terminated", Primary, NoTurn, "interrupted"))
  /\ daemon' = "serving"
  /\ UNCHANGED <<status, req, outages, crashes>> /\ UNCHANGED harness

Recover == RecoverList \/ RecoverMark \/ RecoverPublish

Next ==
  \/ \E r \in Requests : PostEvents(r) \/ HandlerStep(r)
  \/ \E t \in Turns : TurnStep(t)
  \/ Crash
  \/ Recover

Spec == Init /\ [][Next]_vars

\* Goroutines are scheduled, the mutex is eventually handed over, and whoever
\* restarts jed lets the recovery run.  Clients need not post.
FairSpec ==
  /\ Spec
  /\ \A r \in Requests : WF_vars(HandlerStep(r))
  /\ \A t \in Turns : WF_vars(TurnStep(t))
  /\ WF_vars(Recover)

(***************************************************************************)
(* Properties.                                                             *)
(***************************************************************************)
TurnSteps ==
  {"none", "waiting", "locked", "begin", "markRunning", "publishRunning", "resolve", "resolving",
   "runAllowed", "publishResolved", "loop", "model", "reschedule", "publishRescheduled", "backoff",
   "retry", "tool", "run", "publishResult", "markAction", "publishAction", "markAsking",
   "publishAsking", "finish", "publishIdle", "interrupt", "publishInterrupt", "terminate",
   "publishTerminated", "release", "unlock", "done", "killed"}

EventTypes ==
  Triggers \cup {"interrupt", "running", "rescheduled", "tool_use", "tool_result",
                 "requires_action", "idle", "terminated"}

Infos ==
  ToolKinds \cup {"", "end_turn", "max_turns", "requires_action", "interrupt", "agent_error", "interrupted"}

Statuses == {"idle", "running", "rescheduling", "requires_action", "terminated"}

Locals ==
  [attempt : Nat, step : Nat, tools : Seq(ToolKinds), use : Nat,
   todo : SUBSET [use : Nat, verdict : {"allow", "deny"}], stop : {"end_turn", "max_turns"}, seen : Nat]

RequestStates ==
  [pc : {"unsent", "posting", "interrupting", "cancelling", "accepted", "refused", "killed"},
   body : Seq([kind : UserKinds, thread : Threads]), next : Nat \ {0},
   cancel : Turns \cup {NoTurn}, threads : SUBSET Threads]

\* The types of the session row, the log and the variables of the goroutines.
TypeOK ==
  /\ daemon \in {"serving", "down", "recoverMark", "recoverPublish"}
  /\ status \in Statuses
  /\ log \in Seq([type : EventTypes, thread : Threads,
                  by : Requests \cup Turns \cup {NoTurn}, info : Infos, ref : Nat])
  /\ req \in [Requests -> RequestStates]
  /\ pc \in [Turns -> TurnSteps]
  /\ local \in [Turns -> Locals]
  /\ {mu, canceller} \subseteq Turns \cup {NoTurn}
  /\ interrupted \subseteq Turns
  /\ ran \subseteq Nat \X Turns
  /\ {faults, outages, crashes} \subseteq Nat

\* The mutex of the session keeps two turns out of each other's way, and the
\* cancel function that Interrupt finds is always that of the turn at work.
OneTurnAtATime ==
  /\ \A t \in Turns : InTurn(t) => mu = t
  /\ canceller # NoTurn => canceller = mu /\ InTurn(canceller)

\* No turn of the session is at work; none of the writes of the past was lost, no
\* recovery was left without its list, and no turn was interrupted.
Quiet == daemon = "serving" /\ mu = NoTurn
NothingLost == faults = 0 /\ interrupted = {}

\* "Never leave the session running" (RunThread, ADR-0022): between turns the row
\* is not running, also after a crash and a recovery, provided no write has failed,
\* the recovery could list the sessions and nobody has interrupted a turn.
NoZombieSession ==
  Quiet /\ NothingLost => status \notin {"running", "rescheduling"}

\* The same without the proviso about interrupts: when every turn is over, the
\* session is not left running ("never left in the running deadlock").
Finished ==
  /\ daemon = "serving"
  /\ \A r \in Requests : req[r].pc \in {"accepted", "refused"}
  /\ \A t \in Turns : pc[t] \in {"none", "done"}
NeverStuckRunning == Finished => status \notin {"running", "rescheduling"}

\* An interrupt is no error: the model call that it cuts off does not make the
\* turn end as terminated ("context.Canceled is a clean idle{interrupt}").
InterruptIsNoError ==
  [][ \A t \in Turns :
        Cancelled(t) /\ pc[t] = "model" /\ UNCHANGED outages => pc'[t] # "terminate" ]_vars

\* What the row says and what the log says: between turns the status column is
\* the status of the last status event a client can have seen.
StatusOf(e) == IF e.type = "rescheduled" THEN "rescheduling" ELSE e.type
StatusEvents == {i \in DOMAIN log : StatusOf(log[i]) \in Statuses}
RowMatchesLog ==
  Quiet /\ NothingLost /\ crashes = 0 =>
    status = IF StatusEvents = {} THEN "idle" ELSE StatusOf(log[Max(StatusEvents)])

\* A turn announces its end once, as the last event it publishes: a client that
\* stops reading at the status event has missed nothing of the turn.
Closing == {"idle", "requires_action", "terminated"}
TurnClosedOnce ==
  \A i, j \in DOMAIN log :
    log[i].by \in Turns /\ log[j].by = log[i].by /\ log[i].type \in Closing => j <= i

\* Every tool use has at most one result in the log, however often it is
\* confirmed and whatever is cancelled or killed around it.
OneResultPerUse ==
  \A i, j \in DOMAIN log :
    log[i].type = "tool_result" /\ log[j].type = "tool_result" /\ log[i].ref = log[j].ref => i = j

\* A tool under always_ask runs only after the user has allowed that very use.
RunsOnlyIfAllowed ==
  \A x \in ran : log[x[1]].info = "ask" =>
    \E j \in DOMAIN log : log[j].type = "allow" /\ log[j].ref = x[1]

\* A use runs once, unless a lost result made a later turn run it again.
RunsOnce ==
  NothingLost /\ crashes = 0 => \A x, y \in ran : x[1] = y[1] => x = y

\* A turn ends as interrupted only because of a user.interrupt, and one
\* interrupt stops at most one turn.
EventsOf(type) == {i \in DOMAIN log : log[i].type = type}
InterruptHasCause ==
  LET stopped == {i \in EventsOf("idle") : log[i].info = "interrupt"} IN
  \A i \in stopped :
    Cardinality({j \in stopped : j <= i}) <= Cardinality({j \in EventsOf("interrupt") : j < i})

\* Every turn that was started ends, and lets the next one in.
TurnsEnd == \A t \in Turns : pc[t] = "waiting" ~> pc[t] \in {"done", "killed"}

\* No message is forgotten: when a request is about to be accepted, what it posted to a thread
\* is or will be in a history that a turn of that thread sends to the model, unless something
\* was lost, killed or out of order on the way.
Disturbed == ~NothingLost \/ outages > 0 \/ crashes > 0
ReachedModel(r, thread) ==
  \E t \in Turns :
    /\ pc[t] = "model" /\ Thread(t) = thread
    /\ \A i \in DOMAIN log : log[i].by = r /\ log[i].thread = thread => i <= local[t].seen
MessagesReachModel ==
  \A r \in Requests, thread \in Threads :
    (/\ req[r].pc = "posting" /\ req[r].next > Len(req[r].body)
     /\ thread \in req[r].threads) ~> (ReachedModel(r, thread) \/ Disturbed)
=============================================================================
