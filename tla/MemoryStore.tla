---------------------------- MODULE MemoryStore ----------------------------
(***************************************************************************)
(* Memory stores, their memories and the version history of each memory:   *)
(* internal/store/memory.go, called through internal/memory/service.go by  *)
(* the handlers of internal/api/memory.go.                                 *)
(*                                                                         *)
(* Every statement is a step of its own, because no handler opens a        *)
(* transaction: two requests interleave between their statements, and one  *)
(* is broken off between two of them when a statement fails (its error is  *)
(* the answer) or its client goes away (which cancels r.Context() and with *)
(* it the statements that are left).  What was written before stays.  A    *)
(* path is the sequence of its segments; contents and names are plain      *)
(* values; sizes, times and digests are left out.  A memory is known by    *)
(* the request that created it.                                            *)
(***************************************************************************)
EXTENDS Integers, Sequences, FiniteSets

CONSTANTS
  Stores,       \* the ids of memory stores
  Names,        \* the names of stores
  Paths,        \* the absolute paths of memories
  Contents,     \* contents of at most MaxMemorySize
  Requests,     \* the ids of requests
  Keep,         \* a field that a PATCH leaves out
  FirstMemory,  \* a memory that is there from the start
  MaxGone       \* bound: requests that are broken off

ASSUME MemoryAssumption ==
  /\ Keep \notin Names \cup Paths \cup Contents \cup Requests \cup {FirstMemory}
  /\ FirstMemory \notin Requests /\ MaxGone \in Nat

VARIABLES
  stores,       \* stores[s]: the row of store s: not there yet, there or deleted
  memories,     \* the table memory, a function from the ids of its rows
  history,      \* the table memory_version, in the order of the inserts
  request,      \* request[r]: a request and the goroutine that handles it
  mixed,        \* memories that two requests have worked on at the same time
  unrecorded    \* memories that a request broken off left half changed

memoryVars == <<stores, memories, history, request, mixed, unrecorded>>

NoRow == [store |-> Keep, path |-> Keep, content |-> Keep]
NewRequest(ask) == [ask |-> ask, pc |-> "new", id |-> Keep, row |-> NoRow, wrote |-> FALSE]
Version(op, id, row) ==
  [op |-> op, id |-> id, store |-> row.store, path |-> row.path, content |-> row.content, redacted |-> FALSE]

\* The first memory has been created; the stores that have no name are not there.
MemoryInit(asks, names, row) ==
  /\ stores = [s \in Stores |-> [there |-> IF names[s] = Keep THEN "never" ELSE "live",
                                 name |-> names[s], archived |-> FALSE]]
  /\ memories = [id \in {FirstMemory} |-> row]
  /\ history = <<Version("created", FirstMemory, row)>>
  /\ request = [r \in Requests |-> NewRequest(asks[r])]
  /\ mixed = {}
  /\ unrecorded = {}

(***************************************************************************)
(* The steps of the handlers.                                              *)
(***************************************************************************)
BrokenOff == {"gone", "failed"}
Ended == {"done", "refused", "gone", "failed"}
Live(s) == stores[s].there = "live"
Known(id) == id \in DOMAIN memories
RowsAt(s, path) == {id \in DOMAIN memories : memories[id].store = s /\ memories[id].path = path}
Busy(id) == {r \in Requests : request[r].id = id /\ request[r].pc \notin Ended \cup {"new"}}

At(r, op, pc) == request[r].ask.op = op /\ request[r].pc = pc
Goto(r, pc) == request' = [request EXCEPT ![r].pc = pc]

\* Request r finds the memory it works on.
Takes(r, id, pc, row) ==
  /\ request' = [request EXCEPT ![r] = [@ EXCEPT !.id = id, !.pc = pc, !.row = row]]
  /\ mixed' = IF Busy(id) \ {r} = {} THEN mixed ELSE mixed \cup {id}

\* The service refuses a path that is not absolute (not one of Paths) and content
\* that is too large (not one of Contents); a store must have a name.
ValidUpsert(ask) == ask.path \in Paths /\ ask.content \in Contents
ValidUpdate(ask) == ask.path \in Paths \cup {Keep} /\ ask.content \in Contents \cup {Keep}
Named(ask) == ask.name \in Names

\* UpsertMemory: SELECT id by store and path.
Find(r) ==
  LET ask == request[r].ask
      found == RowsAt(ask.store, ask.path)
      row == [store |-> ask.store, path |-> ask.path, content |-> ask.content]
  IN
  /\ At(r, "upsert", "new")
  /\ IF ~ValidUpsert(ask) THEN Goto(r, "refused") /\ UNCHANGED mixed
     ELSE IF found = {} THEN Takes(r, r, "insert", row)
     ELSE \E id \in found : Takes(r, id, "write", row)
  /\ UNCHANGED <<stores, memories, history, unrecorded>>

\* Fault: the version is written before the row.
InsertRowRecordFirst(r) ==
  LET row == request[r].row IN
  /\ At(r, "upsert", "insert")
  /\ history' = IF Live(row.store) THEN Append(history, Version("created", r, row)) ELSE history
  /\ IF Live(row.store) /\ RowsAt(row.store, row.path) = {}
     THEN /\ memories' = [id \in DOMAIN memories \cup {r} |-> IF id = r THEN row ELSE memories[id]]
          /\ request' = [request EXCEPT ![r] = [@ EXCEPT !.pc = "reply", !.wrote = TRUE]]
     ELSE /\ request' = [request EXCEPT ![r] = [@ EXCEPT !.pc = "refused", !.wrote = Live(row.store)]]
          /\ UNCHANGED memories
  /\ UNCHANGED <<stores, mixed, unrecorded>>

\* CreateMemory: the insert of the row, which UNIQUE (memory_store_id, path)
\* or a store that is gone refuses.
InsertRow(r) ==
  LET row == request[r].row IN
  /\ At(r, "upsert", "insert")
  /\ IF Live(row.store) /\ RowsAt(row.store, row.path) = {}
     THEN /\ memories' = [id \in DOMAIN memories \cup {r} |-> IF id = r THEN row ELSE memories[id]]
          /\ request' = [request EXCEPT ![r] = [@ EXCEPT !.pc = "record", !.wrote = TRUE]]
     ELSE Goto(r, "refused") /\ UNCHANGED memories
  /\ UNCHANGED <<stores, history, mixed, unrecorded>>

\* UpsertMemory: UPDATE of the content, by id; the row may be gone.
WriteContent(r) ==
  LET id == request[r].id IN
  /\ At(r, "upsert", "write")
  /\ memories' = IF Known(id) THEN [memories EXCEPT ![id].content = request[r].row.content] ELSE memories
  /\ request' = [request EXCEPT ![r] = [@ EXCEPT !.pc = "reread", !.wrote = Known(id)]]
  /\ UNCHANGED <<stores, history, mixed, unrecorded>>

\* UpsertMemory: GetMemory, for the path of the version.
Reread(r) ==
  LET id == request[r].id IN
  /\ At(r, "upsert", "reread")
  /\ request' = IF Known(id)
                THEN [request EXCEPT ![r] = [@ EXCEPT !.pc = "record", !.row.path = memories[id].path]]
                ELSE [request EXCEPT ![r].pc = "refused"]
  /\ UNCHANGED <<stores, memories, history, mixed, unrecorded>>

\* UpdateMemory and DeleteMemory begin with GetMemory.
ReadRow(r) ==
  LET ask == request[r].ask IN
  /\ ask.op \in {"update", "delete"} /\ request[r].pc = "new"
  /\ IF Known(ask.id) /\ (ask.op = "update" => ValidUpdate(ask))
     THEN Takes(r, ask.id, IF ask.op = "update" THEN "write" ELSE "record", memories[ask.id])
     ELSE Goto(r, "refused") /\ UNCHANGED mixed
  /\ UNCHANGED <<stores, memories, history, unrecorded>>

\* The row that UpdateMemory writes: what the PATCH leaves out stays as it was read.
Patched(r) ==
  LET ask == request[r].ask
      read == request[r].row
  IN [read EXCEPT !.path = IF ask.path = Keep THEN @ ELSE ask.path,
                  !.content = IF ask.content = Keep THEN @ ELSE ask.content]

\* Fault: the version keeps what was read.
WriteRowKeepVersion(r) ==
  LET id == request[r].id
      row == Patched(r)
      taken == RowsAt(row.store, row.path) \ {id} # {}
  IN
  /\ At(r, "update", "write")
  /\ memories' = IF Known(id) /\ ~taken THEN [memories EXCEPT ![id] = row] ELSE memories
  /\ request' = IF Known(id) /\ taken THEN [request EXCEPT ![r].pc = "refused"]
                ELSE [request EXCEPT ![r] = [@ EXCEPT !.pc = "record", !.wrote = Known(id)]]
  /\ UNCHANGED <<stores, history, mixed, unrecorded>>

\* UpdateMemory: UPDATE of path and content, which UNIQUE refuses if the path
\* is taken; a row that is gone is not noticed.
WriteRow(r) ==
  LET id == request[r].id
      row == Patched(r)
      taken == RowsAt(row.store, row.path) \ {id} # {}
  IN
  /\ At(r, "update", "write")
  /\ memories' = IF Known(id) /\ ~taken THEN [memories EXCEPT ![id] = row] ELSE memories
  /\ request' = IF Known(id) /\ taken THEN [request EXCEPT ![r].pc = "refused"]
                ELSE [request EXCEPT ![r] = [@ EXCEPT !.pc = "record", !.row = row, !.wrote = Known(id)]]
  /\ UNCHANGED <<stores, history, mixed, unrecorded>>

Operation(r) ==
  IF request[r].ask.op = "delete" THEN "deleted"
  ELSE IF request[r].id = r THEN "created" ELSE "modified"

\* insertMemoryVersion: the foreign key refuses it when the store is gone.
Record(r) ==
  LET k == request[r] IN
  /\ k.pc = "record"
  /\ IF Live(k.row.store)
     THEN /\ history' = Append(history, Version(Operation(r), k.id, k.row))
          /\ Goto(r, IF k.ask.op = "delete" THEN "remove" ELSE "reply")
     ELSE Goto(r, "refused") /\ UNCHANGED history
  /\ UNCHANGED <<stores, memories, mixed, unrecorded>>

\* DeleteMemory: DELETE, after its version.
DeleteRow(r) ==
  /\ At(r, "delete", "remove")
  /\ memories' = [id \in DOMAIN memories \ {request[r].id} |-> memories[id]]
  /\ Goto(r, "done")
  /\ UNCHANGED <<stores, history, mixed, unrecorded>>

\* GetMemory for the reply.
Reply(r) ==
  /\ request[r].pc = "reply"
  /\ Goto(r, IF Known(request[r].id) THEN "done" ELSE "refused")
  /\ UNCHANGED <<stores, memories, history, mixed, unrecorded>>

\* redactMemoryVersion blanks version n, whatever the store in the URL...
Redact(r) ==
  LET n == request[r].ask.n IN
  /\ At(r, "redact", "new")
  /\ IF n \in DOMAIN history /\ Live(history[n].store)
     THEN /\ history' = [history EXCEPT ![n] = [@ EXCEPT !.path = Keep, !.content = Keep, !.redacted = TRUE]]
          /\ request' = [request EXCEPT ![r] = [@ EXCEPT !.pc = "check", !.id = history[n].id, !.wrote = TRUE]]
     ELSE Goto(r, "refused") /\ UNCHANGED history
  /\ UNCHANGED <<stores, memories, mixed, unrecorded>>

\* ... and then answers 404 if the version belongs to another store.
CheckStore(r) ==
  LET ask == request[r].ask IN
  /\ At(r, "redact", "check")
  /\ Goto(r, IF history[ask.n].store = ask.store /\ Live(ask.store) THEN "done" ELSE "refused")
  /\ UNCHANGED <<stores, memories, history, mixed, unrecorded>>

\* The handlers of the stores themselves are one statement each: UNIQUE
\* (tenant_id, name) also counts archived stores, and an archived store can
\* neither be renamed nor archived again.
NameFree(s, name) == \A t \in Stores \ {s} : Live(t) => stores[t].name # name
StoreChange(r, op, ok, row) ==
  LET s == request[r].ask.store IN
  /\ At(r, op, "new")
  /\ stores' = IF ok THEN [stores EXCEPT ![s] = row] ELSE stores
  /\ Goto(r, IF ok THEN "done" ELSE "refused")
  /\ UNCHANGED <<memories, history, mixed, unrecorded>>

CreateStore(r) ==
  LET ask == request[r].ask IN
  /\ ask.op = "createStore" => stores[ask.store].there = "never"
  /\ StoreChange(r, "createStore", Named(ask) /\ NameFree(ask.store, ask.name),
                 [there |-> "live", name |-> ask.name, archived |-> FALSE])

RenameStore(r) ==
  LET ask == request[r].ask
      s == ask.store
  IN StoreChange(r, "renameStore", Named(ask) /\ Live(s) /\ ~stores[s].archived /\ NameFree(s, ask.name),
                 [stores[s] EXCEPT !.name = ask.name])

ArchiveStore(r) ==
  LET s == request[r].ask.store
  IN StoreChange(r, "archiveStore", Live(s) /\ ~stores[s].archived, [stores[s] EXCEPT !.archived = TRUE])

\* Fault: the foreign keys are not enforced.
DeleteStoreOnly(r) ==
  LET s == request[r].ask.store IN
  /\ At(r, "deleteStore", "new")
  /\ stores' = IF Live(s) THEN [stores EXCEPT ![s].there = "deleted"] ELSE stores
  /\ Goto(r, "done")
  /\ UNCHANGED <<memories, history, mixed, unrecorded>>

\* DeleteMemoryStore: its memories and their versions go with it (the versions
\* of a store that is gone stay in history, but no statement finds them).
DeleteStore(r) ==
  LET s == request[r].ask.store IN
  /\ At(r, "deleteStore", "new")
  /\ stores' = IF Live(s) THEN [stores EXCEPT ![s].there = "deleted"] ELSE stores
  /\ memories' = [id \in {id \in DOMAIN memories : memories[id].store # s} |-> memories[id]]
  /\ Goto(r, "done")
  /\ UNCHANGED <<history, mixed, unrecorded>>

\* A request is broken off before the statement it is at.  A row that it wrote
\* stays without its version, a version of a deletion without the deletion.
BreaksOff(r, pc) ==
  LET k == request[r] IN
  /\ Cardinality({q \in Requests : request[q].pc \in BrokenOff}) < MaxGone
  /\ k.pc \notin Ended \cup {"new"}
  /\ Goto(r, pc)
  /\ unrecorded' = IF k.pc = "remove" \/ (k.wrote /\ k.pc \in {"reread", "record"})
                   THEN unrecorded \cup {k.id} ELSE unrecorded
  /\ UNCHANGED <<stores, memories, history, mixed>>

\* The client goes away, and gets no answer.
ClientGone(r) == BreaksOff(r, "gone")

\* A statement after the first fails (the insert of the version, a SELECT for the
\* reply, the DELETE): the handler answers with its error.  A first one that
\* fails has changed nothing: the request might as well not have come.
StatementFails(r) == BreaksOff(r, "failed")

\* The status codes of the handlers: 0 while there is no answer.
StoreAnswers == [upsert |-> <<201, 400>>, renameStore |-> <<200, 400>>,
                 archiveStore |-> <<200, 404>>, deleteStore |-> <<200, 500>>]
MemoryAnswers == [delete |-> <<200, 500>>, update |-> <<200, 400>>]
Status(r) ==
  LET op == request[r].ask.op
      codes == CASE op \in DOMAIN StoreAnswers -> StoreAnswers[op]
                 [] op \in DOMAIN MemoryAnswers -> MemoryAnswers[op]
                 [] op = "redact" -> <<200, 404>>
                 [] op = "createStore" -> <<201, 400>>
  IN CASE request[r].pc = "done" -> codes[1]
       [] request[r].pc \in {"refused", "failed"} -> codes[2]
       [] OTHER -> 0

MemoryStep(r) ==
  \/ Find(r) \/ InsertRow(r) \/ WriteContent(r) \/ Reread(r)
  \/ ReadRow(r) \/ WriteRow(r) \/ Record(r) \/ DeleteRow(r) \/ Reply(r)
  \/ Redact(r) \/ CheckStore(r)
  \/ CreateStore(r) \/ RenameStore(r) \/ ArchiveStore(r) \/ DeleteStore(r)
  \/ ClientGone(r) \/ StatementFails(r)

Row == [store : Stores, path : Paths, content : Contents]
MemoryIds == Requests \cup {FirstMemory}

\* What the router lets through: a request about a store, or about a memory or a
\* version of one, names a store.
WellAsked(ask) ==
  ask.op \in {"upsert", "redact", "createStore", "renameStore", "archiveStore", "deleteStore"} => ask.store \in Stores

\* Any stores with different names, and a first memory in one of them.
MemoryStart ==
  \E asks \in [Requests -> {request[r].ask : r \in Requests}], names \in [Stores -> Names \cup {Keep}], row \in Row :
    /\ \A r \in Requests : WellAsked(asks[r])
    /\ \A s, t \in Stores : s # t => names[s] # names[t] \/ names[s] = Keep
    /\ names[row.store] # Keep
    /\ MemoryInit(asks, names, row)

MemorySpec == MemoryStart /\ [][\E r \in Requests : MemoryStep(r)]_memoryVars

(***************************************************************************)
(* Properties.                                                             *)
(***************************************************************************)
\* The types of the tables, and what their constraints say.
MemoryTypeOK ==
  /\ stores \in [Stores -> [there : {"never", "live", "deleted"}, name : Names \cup {Keep}, archived : BOOLEAN]]
  /\ DOMAIN memories \subseteq MemoryIds
  /\ \A id \in DOMAIN memories : memories[id] \in Row /\ Live(memories[id].store)
  /\ \A i, j \in DOMAIN memories :
       i # j => memories[i].store # memories[j].store \/ memories[i].path # memories[j].path
  /\ \A n \in DOMAIN history :
       history[n] \in [op : {"created", "modified", "deleted"}, id : MemoryIds, store : Stores,
                          path : Paths \cup {Keep}, content : Contents \cup {Keep}, redacted : BOOLEAN]
  /\ \A r \in Requests :
       /\ request[r].pc \in {"new", "insert", "write", "reread", "record", "remove", "reply", "check"} \cup Ended
       /\ request[r].id \in MemoryIds \cup {Keep}
  /\ {mixed, unrecorded} \subseteq SUBSET MemoryIds

VersionsOf(id) == {n \in DOMAIN history : history[n].id = id /\ Live(history[n].store)}

\* However requests interleave, no content is in a row that the history does not
\* hold, or is about to get, unless it was redacted or the request was broken off.
RowIsRecorded ==
  \A id \in DOMAIN memories :
    \/ \E n \in VersionsOf(id) : history[n].redacted \/ history[n].content = memories[id].content
    \/ \E r \in Busy(id) : /\ request[r].wrote /\ request[r].pc \in {"reread", "record"}
                           /\ request[r].row.content = memories[id].content
    \/ id \in unrecorded

\* A memory on which no two requests ever worked at once is what its newest
\* version says: there with that path and content, or deleted.
QuietHistoryExact ==
  \A id \in MemoryIds \ (mixed \cup unrecorded) :
    VersionsOf(id) # {} /\ Busy(id) = {} =>
      LET last == history[CHOOSE n \in VersionsOf(id) : \A i \in VersionsOf(id) : i <= n] IN
      \/ last.redacted
      \/ last.op = "deleted" /\ ~Known(id)
      \/ last.op # "deleted" /\ Known(id) /\ memories[id].path = last.path
                             /\ memories[id].content = last.content

\* The history of a memory tells what became of it: every content that is in a row
\* is in a version too, and a memory that no two requests shared is what its newest
\* version says (row and version are written by separate statements).
HistoryTellsRows == RowIsRecorded /\ QuietHistoryExact

\* A request that is answered with an error has changed nothing, but for four
\* causes: another one worked on the same memory, or deleted the store, meanwhile;
\* it was the redaction of a version under the id of another store; or a statement
\* failed after it had written (no handler of memory.go opens a transaction, so the
\* row stays when the insert of its version fails).
RefusedWithoutTrace ==
  \A r \in Requests :
    request[r].wrote /\ Status(r) >= 400 =>
      \/ request[r].id \in mixed
      \/ \E s \in Stores : stores[s].there = "deleted"
      \/ request[r].ask.op = "redact"
      \/ request[r].pc = "failed"
=============================================================================
