----------------------------- MODULE Compaction -----------------------------
(***************************************************************************)
(* What the model is sent (internal/harness/messages.go buildMessages) and *)
(* the checkpoints that stand for the older part of a conversation         *)
(* (internal/harness/compaction.go maybeCompact).                          *)
(*                                                                         *)
(* Clients post to any thread at any time; of the turns of a session one   *)
(* is inside at a time (OneTurnAtATime of SessionTurn).  postEvents takes  *)
(* any type of event at any time; assumed of the clients is that they post *)
(* user events, an answer or a verdict once and for a use that waits.  An  *)
(* event is known by its seq, and only the events that buildMessages looks *)
(* at, verdicts and checkpoints are in the log.  Whether a history is over *)
(* the token budget is left open, and so is what a summary says: it stands *)
(* for the events that were rendered into its material.                    *)
(***************************************************************************)
EXTENDS Integers, Sequences, FiniteSets, SequencesExt

CONSTANTS
  Threads,     \* the threads of the session
  KeepRecent,  \* KeepRecentTurns: the messages that are never summarised
  MaxEvents,   \* bound: the length of the log
  MaxPosts     \* bound: the events that clients post

ASSUME CompactionAssumption == KeepRecent \in Nat \ {0} /\ MaxEvents \in Nat /\ MaxPosts \in Nat

VARIABLES
  conversation,  \* the log of the session
  queued,        \* queued[t]: turns of thread t that have not begun
  kinds,         \* the kinds of tools of the agent: server, asked, mcp, custom
  prep           \* the turn that is inside: how far it is, and what it holds

contextVars == <<conversation, queued, kinds, prep>>

NoPrep == [pc |-> "off", thread |-> "", through |-> 0, covers |-> {}, todo |-> << >>, upto |-> 0, sent |-> << >>]

ContextInit(tools) ==
  /\ conversation = << >>
  /\ queued = [t \in Threads |-> 0]
  /\ kinds = tools
  /\ prep = NoPrep

Entry(type, thread, use) == [type |-> type, thread |-> thread, use |-> use, through |-> 0, covers |-> {}]
Room == Len(conversation) < MaxEvents
Log(event) == Room /\ conversation' = Append(conversation, event)

\* agent.tool_use (of a tool that is run at once, or under always_ask), agent.mcp_tool_use
\* and agent.custom_tool_use.
Uses == {"server", "asked", "mcp", "custom"}
Conversational == Uses \cup {"message", "answer", "text", "result", "mcpResult"}

\* renderTranscript knows neither agent.mcp_tool_use nor agent.mcp_tool_result.
Rendered == Conversational \ {"mcp", "mcpResult"}

\* ListEvents and filterThreadEvents: the seqs of the thread so far.
Of(thread, types) ==
  {i \in DOMAIN conversation : conversation[i].thread = thread /\ conversation[i].type \in types}
InOrder(seqs) ==
  [k \in 1 .. Cardinality(seqs) |-> CHOOSE i \in seqs : Cardinality({j \in seqs : j < i}) = k - 1]

(***************************************************************************)
(* Clients: postEvents.  Each event starts a turn of its thread.           *)
(***************************************************************************)
Posted(event) ==
  /\ Cardinality({i \in DOMAIN conversation : conversation[i].type \in {"message", "answer", "verdict"}}) < MaxPosts
  /\ Log(event)
  /\ queued' = [queued EXCEPT ![event.thread] = @ + 1]
  /\ UNCHANGED <<kinds, prep>>

PostMessage(t) == Posted(Entry("message", t, 0))

\* user.custom_tool_result and user.tool_confirmation, for a use that is waiting for it.
Waits(i, type) == ~\E j \in DOMAIN conversation : conversation[j].type = type /\ conversation[j].use = i
PostAnswer(t) == \E i \in Of(t, {"custom"}) : Waits(i, "answer") /\ Posted(Entry("answer", t, i))
PostVerdict(t) == \E i \in Of(t, {"asked"}) : Waits(i, "verdict") /\ Posted(Entry("verdict", t, i))

(***************************************************************************)
(* maybeCompact.                                                           *)
(***************************************************************************)
Inside(pc) == prep.pc = pc
Goes(pc) == prep' = [prep EXCEPT !.pc = pc]

EnterTurn(t) ==
  /\ Inside("off") /\ queued[t] > 0
  /\ queued' = [queued EXCEPT ![t] = @ - 1]
  /\ prep' = [NoPrep EXCEPT !.pc = "compact", !.thread = t]
  /\ UNCHANGED <<conversation, kinds>>

\* Compaction is off, the history is within the budget, there are too few
\* messages, or a statement or the summary fails: the turn goes on without.
NoCheckpoint ==
  /\ prep.pc \in {"compact", "summary"}
  /\ Goes("resolve")
  /\ UNCHANGED <<conversation, queued, kinds>>

\* The newest checkpoint of a thread: how far it reaches and what its summary stands for.
Checkpoint(thread) ==
  LET all == Of(thread, {"checkpoint"}) IN
  IF all = {} THEN [through |-> 0, covers |-> {}]
  ELSE LET newest == CHOOSE i \in all : \A j \in all : j <= i
       IN [through |-> conversation[newest].through, covers |-> conversation[newest].covers]

\* The last KeepRecent messages of a set of them.
Recent(messages) == {i \in messages : Cardinality({j \in messages : j > i}) < KeepRecent}
Oldest(seqs) == CHOOSE i \in seqs : \A j \in seqs : i <= j

\* Fault: the prior summary is not part of the material.
MaterialWithoutPrior(prior, keepFrom) ==
  {i \in Of(prep.thread, Rendered) : prior.through < i /\ i < keepFrom}

\* What the summary is made of: the prior one, and the transcript in between.
Material(prior, keepFrom) ==
  prior.covers \cup {i \in Of(prep.thread, Rendered) : prior.through < i /\ i < keepFrom}

\* The messages after the last checkpoint are where the history may be cut.
ListHistory ==
  LET prior == Checkpoint(prep.thread)
      boundaries == {i \in Of(prep.thread, {"message"}) : i > prior.through}
      keepFrom == Oldest(Recent(boundaries))
  IN
  /\ Inside("compact") /\ Cardinality(boundaries) >= KeepRecent + 1
  /\ Material(prior, keepFrom) # {}
  /\ prep' = [prep EXCEPT !.pc = "summary", !.through = keepFrom - 1, !.covers = Material(prior, keepFrom)]
  /\ UNCHANGED <<conversation, queued, kinds>>

\* The summary has come; events posted meanwhile are in front of the checkpoint.
PublishCheckpoint ==
  /\ Inside("summary")
  /\ Log([Entry("checkpoint", prep.thread, 0) EXCEPT !.through = prep.through, !.covers = prep.covers])
  /\ Goes("resolve")
  /\ UNCHANGED <<queued, kinds>>

(***************************************************************************)
(* The rest of the turn.                                                   *)
(***************************************************************************)
\* resolvePendingToolConfirmations lists the whole thread, what is summarised too.
ListConfirmed ==
  LET waiting == {i \in Of(prep.thread, {"asked"}) : Waits(i, "result") /\ ~Waits(i, "verdict")} IN
  /\ Inside("resolve")
  /\ prep' = [prep EXCEPT !.pc = "resolving", !.todo = InOrder(waiting)]
  /\ UNCHANGED <<conversation, queued, kinds>>

PublishResolved ==
  /\ Inside("resolving") /\ prep.todo # << >>
  /\ Log(Entry("result", prep.thread, Head(prep.todo)))
  /\ prep' = [prep EXCEPT !.todo = Tail(@)]
  /\ UNCHANGED <<queued, kinds>>

AllResolved ==
  /\ Inside("resolving") /\ prep.todo = << >>
  /\ Goes("build")
  /\ UNCHANGED <<conversation, queued, kinds>>

\* buildMessages: what is past the checkpoint, and its summary in front of the
\* first message.
SummaryBlock == 0
Blocks(thread) ==
  LET after == Checkpoint(thread).through
      kept == InOrder({i \in Of(thread, Conversational) : i > after})
      first == SelectInSeq(kept, LAMBDA i : conversation[i].type = "message")
  IN IF Of(thread, {"checkpoint"}) = {} \/ first = 0 THEN kept ELSE InsertAt(kept, first, SummaryBlock)

BuildMessages ==
  /\ Inside("build")
  /\ prep' = [prep EXCEPT !.pc = "model", !.upto = Len(conversation), !.sent = Blocks(prep.thread)]
  /\ UNCHANGED <<conversation, queued, kinds>>

Replied(pc) == prep' = [prep EXCEPT !.pc = pc, !.upto = 0, !.sent = << >>]

PublishText ==
  /\ Inside("model")
  /\ Log(Entry("text", prep.thread, 0))
  /\ Replied("said")
  /\ UNCHANGED <<queued, kinds>>

\* A custom or an asked tool ends the turn; the others are executed.
PublishToolUse ==
  /\ prep.pc \in {"model", "said"}
  /\ \E kind \in kinds :
       /\ Log(Entry(kind, prep.thread, 0))
       /\ IF kind \in {"asked", "custom"} THEN prep' = NoPrep
          ELSE prep' = [prep EXCEPT !.pc = "tool", !.upto = 0, !.sent = << >>, !.todo = <<Len(conversation) + 1>>]
  /\ UNCHANGED <<queued, kinds>>

\* Another tool of the same reply, or the next step.
PublishResult ==
  LET use == Head(prep.todo) IN
  /\ Inside("tool")
  /\ Log(Entry(IF conversation[use].type = "mcp" THEN "mcpResult" ELSE "result", prep.thread, use))
  /\ \E pc \in {"said", "build"} : prep' = [prep EXCEPT !.pc = pc, !.todo = << >>]
  /\ UNCHANGED <<queued, kinds>>

\* The turn is over; or an error, an interrupt or a crash ends it anywhere.
LeaveTurn ==
  /\ ~Inside("off")
  /\ prep' = NoPrep
  /\ UNCHANGED <<conversation, queued, kinds>>

ContextStep ==
  \/ \E t \in Threads : PostMessage(t) \/ PostAnswer(t) \/ PostVerdict(t) \/ EnterTurn(t)
  \/ NoCheckpoint \/ ListHistory \/ PublishCheckpoint
  \/ ListConfirmed \/ PublishResolved \/ AllResolved
  \/ BuildMessages \/ PublishText \/ PublishToolUse \/ PublishResult \/ LeaveTurn

ContextSpec == (\E tools \in SUBSET Uses : ContextInit(tools)) /\ [][ContextStep]_contextVars

(***************************************************************************)
(* Properties.                                                             *)
(***************************************************************************)
\* The types of the log and of the turn.
ContextTypeOK ==
  /\ Len(conversation) <= MaxEvents
  /\ \A i \in DOMAIN conversation :
       /\ conversation[i].type \in Conversational \cup {"verdict", "checkpoint"} /\ conversation[i].thread \in Threads
       /\ conversation[i].use < i /\ conversation[i].through < i /\ \A j \in conversation[i].covers : j <= conversation[i].through
  /\ queued \in [Threads -> 0 .. MaxEvents] /\ kinds \subseteq Uses
  /\ prep.pc \in {"off", "compact", "summary", "resolve", "resolving", "build", "model", "said", "tool"}

Listed(types) == {i \in Of(prep.thread, types) : i <= prep.upto}
Shown == Range(prep.sent)
Summarised == IF SummaryBlock \in Shown THEN Checkpoint(prep.thread).covers ELSE {}

\* Every event is either sent or summarised; the calls of MCP tools and their
\* results are neither once a checkpoint has passed them.
NothingForgotten ==
  \A i \in Listed(Conversational) :
    \/ (i \in Shown) # (i \in Summarised)
    \/ i \notin Listed(Rendered) /\ i <= Checkpoint(prep.thread).through

\* The cut comes only where a message was posted: a result that is sent has its call
\* in front of it, unless a message was posted between the two.
CallsKeepResults ==
  \A i \in Listed({"result", "mcpResult", "answer"}) \cap Shown :
    \/ conversation[i].use \in Shown
    \/ \E m \in Listed({"message"}) : conversation[i].use < m /\ m < i

\* When the model is asked, every event of its thread that a transcript renders is
\* sent word for word or stands in the one summary, and not both (MCP calls and
\* results are sent until a checkpoint has passed them, and forgotten then); what is
\* sent is in the order of the log, each event once, with the recent messages among
\* it; and a result that is sent has its call in front of it, unless a message was
\* posted between the two.  All of this however messages, verdicts and checkpoints
\* fell between the steps of the turns (maybeCompact, renderTranscript,
\* buildMessages).
ContextComplete ==
  Inside("model") =>
    /\ NothingForgotten
    /\ CallsKeepResults
    /\ Shown \ {SummaryBlock} \subseteq Listed(Conversational)
    /\ Recent(Listed({"message"})) \subseteq Shown
    /\ \A j, k \in DOMAIN prep.sent : j < k => prep.sent[j] < prep.sent[k]

\* What the code says and does not do: a history is cut at the boundary of a turn, so
\* no result is sent without its call (compaction.go:75 takes every user.message for
\* the start of a turn, also one that is posted while a turn runs).
CutsBetweenTurns ==
  Inside("model") => \A i \in Listed({"result", "mcpResult", "answer"}) \cap Shown : conversation[i].use \in Shown
=============================================================================
