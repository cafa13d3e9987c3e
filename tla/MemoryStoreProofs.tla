------------------------- MODULE MemoryStoreProofs -------------------------
(***************************************************************************)
(* Proofs about MemoryStore, for any sets of stores, paths, contents and   *)
(* requests: the types and what the tables' constraints say, that the      *)
(* history of a memory tells what became of it, and that a refused request *)
(* leaves nothing behind but for the known causes.                         *)
(***************************************************************************)
EXTENDS MemoryStore, TLAPS

RequestSteps == {"new", "insert", "write", "reread", "record", "remove", "reply", "check"} \cup Ended
RequestRows(asks) ==
  [ask : asks, pc : RequestSteps, id : MemoryIds \cup {Keep}, row : Row \cup {NoRow}, wrote : BOOLEAN]
RequestsTyped == \E asks : request \in [Requests -> RequestRows(asks)]
Versions ==
  [op : {"created", "modified", "deleted"}, id : MemoryIds, store : Stores,
   path : Paths \cup {Keep}, content : Contents \cup {Keep}, redacted : BOOLEAN]

(***************************************************************************)
(* The inductive invariant.                                                *)
(***************************************************************************)
\* Request r works on a memory; a redaction works on a version only.
Working == {"insert", "write", "reread", "record", "remove", "reply"}
Works(r) == request[r].pc \in Working
On(r, id) == Works(r) /\ request[r].id = id

\* The memory that q creates is there.
Inserted(q) == request[q].ask.op = "upsert" /\ request[q].id = q /\ request[q].wrote

TablesInv ==
  /\ RequestsTyped /\ MemoryTypeOK /\ history \in Seq(Versions)
  /\ \A n \in DOMAIN history :
       /\ stores[history[n].store].there # "never"
       /\ Known(history[n].id) => history[n].store = memories[history[n].id].store
       /\ \A i \in DOMAIN history : history[i].id = history[n].id => history[i].store = history[n].store

\* Nobody knows of a memory before its row is inserted.
FreshInv(q) ==
  ~Inserted(q) =>
    /\ ~Known(q) /\ \A n \in DOMAIN history : history[n].id # q
    /\ \A r \in Requests \ {q} : request[r].id # q

\* What request r has in its hands, by how far it has come.
WorkInv(r) ==
  LET k == request[r]
      op == k.ask.op
  IN
  /\ WellAsked(k.ask)
  /\ k.pc = "check" => op = "redact"
  /\ k.pc = "done" => op \in {"upsert", "update", "delete", "redact", "createStore", "renameStore", "archiveStore", "deleteStore"}
  /\ k.pc = "new" => ~k.wrote
  /\ Works(r) =>
       /\ k.row \in Row /\ k.id \in MemoryIds
       /\ k.pc = "insert" => op = "upsert" /\ k.id = r
       /\ k.pc = "write" => op \in {"upsert", "update"} /\ (op = "update" => ValidUpdate(k.ask))
       /\ k.pc = "reread" => op = "upsert" /\ (Known(k.id) => k.wrote)
       /\ k.pc \in {"record", "reply"} => op \in {"upsert", "update", "delete"} /\ (op = "upsert" => k.wrote)
       /\ k.pc = "reply" => op # "delete"
       /\ k.pc = "remove" => op = "delete"
       /\ k.pc \in {"insert", "write", "remove"} \/ op = "delete" => ~k.wrote
       /\ k.pc # "insert" =>
            /\ k.id # r \/ Inserted(r)
            /\ stores[k.row.store].there # "never"
            /\ Known(k.id) => k.row.store = memories[k.id].store
            /\ \A n \in DOMAIN history : history[n].id = k.id => history[n].store = k.row.store

\* Two requests work on one memory: it is mixed, and both know its store.
AloneInv ==
  \A r, d \in Requests :
    r # d /\ Works(r) /\ Works(d) /\ request[r].id = request[d].id =>
      request[r].id \in mixed /\ request[r].row.store = request[d].row.store

\* A request that works alone finds the row as it left it.
AtWork(r) ==
  LET k == request[r]
      row == memories[k.id]
      op == k.ask.op
  IN
  Works(r) /\ k.pc # "insert" /\ k.id \notin mixed /\ Live(k.row.store) =>
    /\ Known(k.id)
    /\ k.pc = "write" /\ op = "update" => row = k.row
    /\ k.pc = "reread" => row.content = k.row.content /\ k.wrote
    /\ k.pc = "record" /\ op # "delete" => row.content = k.row.content /\ row.path = k.row.path /\ k.wrote

\* Version n is the newest of memory id, and says what became of it.
IsLast(n, id) == n \in VersionsOf(id) /\ \A i \in VersionsOf(id) : i <= n
Says(n, id) ==
  LET last == history[n] IN
  \/ last.redacted
  \/ last.op = "deleted" /\ ~Known(id)
  \/ last.op # "deleted" /\ Known(id) /\ memories[id].path = last.path /\ memories[id].content = last.content

Between(r) == request[r].pc \in {"write", "reply"} \/ (request[r].pc = "record" /\ request[r].ask.op = "delete")
ExactInv(id) ==
  /\ VersionsOf(id) # {} => \E n \in VersionsOf(id) : IsLast(n, id)
  /\ id \notin mixed \cup unrecorded =>
       \A n \in VersionsOf(id) : IsLast(n, id) =>
         /\ (\A r \in Requests : On(r, id) => Between(r)) => Says(n, id)
         /\ (\E r \in Requests : On(r, id) /\ request[r].pc = "remove") => history[n].op = "deleted"

RefusedInv(r) ==
  request[r].wrote /\ request[r].pc = "refused" =>
    \/ request[r].id \in mixed
    \/ \E s \in Stores : stores[s].there = "deleted"
    \/ request[r].ask.op = "redact"

MemoryInv ==
  /\ TablesInv /\ RowIsRecorded /\ AloneInv
  /\ \A r \in Requests : FreshInv(r) /\ WorkInv(r) /\ AtWork(r) /\ RefusedInv(r)
  /\ \A id \in MemoryIds : ExactInv(id)

(***************************************************************************)
(* The change of one request.                                              *)
(***************************************************************************)
Only(r) ==
  /\ RequestsTyped' /\ \A d \in Requests : request'[d].ask = request[d].ask
  /\ \A d \in Requests \ {r} : request'[d] = request[d]

LEMMA Changed ==
  ASSUME RequestsTyped, NEW r \in Requests, NEW new, request' = [request EXCEPT ![r] = new],
         \A asks : request[r] \in RequestRows(asks) => new \in RequestRows(asks) /\ new.ask = request[r].ask
  PROVE  Only(r) /\ request'[r] = new
<1>1. PICK asks : request \in [Requests -> RequestRows(asks)]
  BY DEF RequestsTyped
<1>2. new \in RequestRows(asks) /\ new.ask = request[r].ask
  BY <1>1
<1>3. request' \in [Requests -> RequestRows(asks)] /\ request'[r] = new /\ \A d \in Requests \ {r} : request'[d] = request[d]
  BY <1>1, <1>2
<1> QED BY <1>2, <1>3 DEF Only, RequestsTyped

LEMMA RequestTypes ==
  ASSUME RequestsTyped, NEW r \in Requests
  PROVE  /\ request[r].id \in MemoryIds \cup {Keep} /\ request[r].pc \in RequestSteps /\ request[r].wrote \in BOOLEAN
         /\ request[r].row \in Row \cup {NoRow} /\ DOMAIN request = Requests
<1>1. PICK asks : request \in [Requests -> RequestRows(asks)]
  BY DEF RequestsTyped
<1> QED BY <1>1 DEF RequestRows

\* The fields of the new request.
Sets(r, pc, id, row, wrote) ==
  LET t == request'[r] IN Only(r) /\ t.pc = pc /\ t.id = id /\ t.row = row /\ t.wrote = wrote

LEMMA GotoSets ==
  ASSUME RequestsTyped, NEW r \in Requests, NEW pc \in RequestSteps, Goto(r, pc)
  PROVE  Sets(r, pc, request[r].id, request[r].row, request[r].wrote)
<1> DEFINE old == request[r]
           new == [old EXCEPT !.pc = pc]
<1>1. request' = [request EXCEPT ![r] = new]
  BY DEF Goto
<1>2. ASSUME NEW asks, old \in RequestRows(asks)
      PROVE  new \in RequestRows(asks) /\ new.ask = old.ask /\ new.pc = pc /\ new.id = old.id /\ new.row = old.row
             /\ new.wrote = old.wrote
  <2> HIDE DEF old
  <2> QED BY <1>2 DEF RequestRows
<1>3. PICK asks : old \in RequestRows(asks)
  BY DEF RequestsTyped
<1> HIDE DEF new
<1>4. Only(r) /\ request'[r] = new
  BY <1>1, <1>2, Changed
<1> QED BY <1>2, <1>3, <1>4 DEF Sets

\* A request finds a memory and a row.
TakesIt(r, id, pc, row) == request' = [request EXCEPT ![r] = [@ EXCEPT !.id = id, !.pc = pc, !.row = row]]
LEMMA TakesSets ==
  ASSUME RequestsTyped, NEW r \in Requests, NEW pc \in RequestSteps, NEW id \in MemoryIds, NEW row \in Row, TakesIt(r, id, pc, row)
  PROVE  Sets(r, pc, id, row, request[r].wrote)
<1> DEFINE old == request[r]
           new == [old EXCEPT !.id = id, !.pc = pc, !.row = row]
<1>1. request' = [request EXCEPT ![r] = new]
  BY DEF TakesIt, RequestsTyped
<1>2. ASSUME NEW asks, old \in RequestRows(asks)
      PROVE  new \in RequestRows(asks) /\ new.ask = old.ask /\ new.pc = pc /\ new.id = id /\ new.row = row
             /\ new.wrote = old.wrote
  <2> HIDE DEF old
  <2> QED BY <1>2 DEF RequestRows
<1>3. PICK asks : old \in RequestRows(asks)
  BY DEF RequestsTyped
<1> HIDE DEF new
<1>4. Only(r) /\ request'[r] = new
  BY <1>1, <1>2, Changed
<1> QED BY <1>2, <1>3, <1>4 DEF Sets

\* It writes.
WritesIt(r, pc, wrote) == request' = [request EXCEPT ![r] = [@ EXCEPT !.pc = pc, !.wrote = wrote]]
LEMMA WritesSets ==
  ASSUME RequestsTyped, NEW r \in Requests, NEW pc \in RequestSteps, NEW wrote \in BOOLEAN, WritesIt(r, pc, wrote)
  PROVE  Sets(r, pc, request[r].id, request[r].row, wrote)
<1> DEFINE old == request[r]
           new == [old EXCEPT !.pc = pc, !.wrote = wrote]
<1>1. request' = [request EXCEPT ![r] = new]
  BY DEF WritesIt, RequestsTyped
<1>2. ASSUME NEW asks, old \in RequestRows(asks)
      PROVE  new \in RequestRows(asks) /\ new.ask = old.ask /\ new.pc = pc /\ new.id = old.id /\ new.row = old.row
             /\ new.wrote = wrote
  <2> HIDE DEF old
  <2> QED BY <1>2 DEF RequestRows
<1>3. PICK asks : old \in RequestRows(asks)
  BY DEF RequestsTyped
<1> HIDE DEF new
<1>4. Only(r) /\ request'[r] = new
  BY <1>1, <1>2, Changed
<1> QED BY <1>2, <1>3, <1>4 DEF Sets

\* It writes a row of its own.
PatchesIt(r, row, wrote) == request' = [request EXCEPT ![r] = [@ EXCEPT !.pc = "record", !.row = row, !.wrote = wrote]]
LEMMA PatchesSets ==
  ASSUME RequestsTyped, NEW r \in Requests, NEW row \in Row, NEW wrote \in BOOLEAN, PatchesIt(r, row, wrote)
  PROVE  Sets(r, "record", request[r].id, row, wrote)
<1> DEFINE old == request[r]
           new == [old EXCEPT !.pc = "record", !.row = row, !.wrote = wrote]
<1>1. request' = [request EXCEPT ![r] = new]
  BY DEF PatchesIt, RequestsTyped
<1>2. ASSUME NEW asks, old \in RequestRows(asks)
      PROVE  new \in RequestRows(asks) /\ new.ask = old.ask /\ new.pc = "record" /\ new.id = old.id /\ new.row = row
             /\ new.wrote = wrote
  <2> HIDE DEF old
  <2> QED BY <1>2 DEF RequestRows, RequestSteps
<1>3. PICK asks : old \in RequestRows(asks)
  BY DEF RequestsTyped
<1> HIDE DEF new
<1>4. Only(r) /\ request'[r] = new
  BY <1>1, <1>2, Changed
<1> QED BY <1>2, <1>3, <1>4 DEF Sets

(***************************************************************************)
(* Steps that change no table.                                             *)
(***************************************************************************)
\* What is asked of a step of r that only changes its own request.
Quiet(r) ==
  /\ Only(r) /\ UNCHANGED <<stores, memories, history>>
  /\ mixed \subseteq mixed' /\ mixed' \in SUBSET MemoryIds
  /\ unrecorded \subseteq unrecorded' /\ unrecorded' \in SUBSET MemoryIds

\* A memory that r leaves alone: the others go on with it as before.
Leaves(r, id) ==
  /\ On(r, id) /\ id \notin mixed \cup unrecorded' /\ VersionsOf(id) # {} => Between(r) \/ (On(r, id)' /\ ~Between(r)')
  /\ On(r, id) /\ request[r].wrote /\ request[r].pc \in {"reread", "record"} /\ Known(id) =>
       \/ /\ On(r, id)' /\ request'[r].wrote /\ request'[r].pc \in {"reread", "record"}
          /\ request'[r].row.content = request[r].row.content
       \/ id \in unrecorded'
  /\ ~(On(r, id)' /\ request'[r].pc = "remove" /\ ~(On(r, id) /\ request[r].pc = "remove"))

\* A memory whose row and versions are as before.
Untouched(id) ==
  /\ Known(id)' = Known(id) /\ VersionsOf(id)' = VersionsOf(id)
  /\ Known(id) => memories'[id] = memories[id]
  /\ \A n \in VersionsOf(id) : history'[n] = history[n]

Recorded(id) ==
  \/ \E n \in VersionsOf(id) : history[n].redacted \/ history[n].content = memories[id].content
  \/ \E r \in Busy(id) : /\ request[r].wrote /\ request[r].pc \in {"reread", "record"}
                         /\ request[r].row.content = memories[id].content
  \/ id \in unrecorded

LEMMA RecordedKept ==
  ASSUME MemoryInv, NEW r \in Requests, Only(r), unrecorded \subseteq unrecorded', NEW id \in MemoryIds,
         Untouched(id), Leaves(r, id), Known(id)
  PROVE  Recorded(id)'
<1>1. Recorded(id)
  BY DEF MemoryInv, RowIsRecorded, Recorded, Known
<1>2. CASE \E n \in VersionsOf(id) : history[n].redacted \/ history[n].content = memories[id].content
  BY <1>2 DEF Recorded, Untouched
<1>3. CASE id \in unrecorded
  BY <1>3 DEF Recorded
<1>4. ASSUME NEW q \in Busy(id), request[q].wrote, request[q].pc \in {"reread", "record"}, request[q].row.content = memories[id].content
      PROVE  Recorded(id)'
  <2>1. q \in Requests /\ On(q, id) /\ memories'[id] = memories[id]
    BY <1>4 DEF Busy, On, Works, Working, Untouched
  <2>2. CASE q = r
    <3>1. CASE id \in unrecorded'
      BY <3>1 DEF Recorded
    <3>2. CASE /\ On(r, id)' /\ request'[r].wrote /\ request'[r].pc \in {"reread", "record"}
               /\ request'[r].row.content = request[r].row.content
      <4>1. r \in Busy(id)'
        BY <3>2 DEF Busy, On, Ended
      <4> QED BY <4>1, <3>2, <2>1, <2>2, <1>4 DEF Recorded
    <3> QED BY <3>1, <3>2, <2>1, <2>2, <1>4 DEF Leaves
  <2>3. CASE q # r
    <3>1. request'[q] = request[q]
      BY <2>1, <2>3 DEF Only
    <3>2. q \in Busy(id)'
      BY <3>1, <2>1, <1>4 DEF Busy, Ended
    <3> QED BY <3>1, <3>2, <2>1, <1>4 DEF Recorded
  <2> QED BY <2>2, <2>3
<1> QED BY <1>1, <1>2, <1>3, <1>4 DEF Recorded

LEMMA ExactKept ==
  ASSUME MemoryInv, NEW r \in Requests, Only(r), mixed \subseteq mixed', unrecorded \subseteq unrecorded', NEW id \in MemoryIds,
         Untouched(id), Leaves(r, id)
  PROVE  ExactInv(id)'
<1>1. ExactInv(id)
  BY DEF MemoryInv
<1>2. \A n : IsLast(n, id)' <=> IsLast(n, id)
  BY DEF IsLast, Untouched
<1>3. VersionsOf(id)' # {} => \E n \in VersionsOf(id)' : IsLast(n, id)'
  BY <1>1, <1>2 DEF ExactInv, Untouched
<1>4. ASSUME id \notin mixed' \cup unrecorded', NEW n \in VersionsOf(id)', IsLast(n, id)'
      PROVE  /\ (\A q \in Requests : On(q, id)' => Between(q)') => Says(n, id)'
             /\ (\E q \in Requests : On(q, id)' /\ request'[q].pc = "remove") => history'[n].op = "deleted"
  <2>1. n \in VersionsOf(id) /\ IsLast(n, id) /\ id \notin mixed \cup unrecorded /\ history'[n] = history[n]
    BY <1>2, <1>4 DEF Untouched
  <2>2. ASSUME \A q \in Requests : On(q, id)' => Between(q)'
        PROVE  Says(n, id)'
    <3>1. ASSUME NEW q \in Requests, On(q, id) PROVE Between(q)
      <4>1. CASE q = r
        BY <4>1, <3>1, <2>1, <2>2, <1>4 DEF Leaves
      <4>2. CASE q # r
        <5>1. request'[q] = request[q]
          BY <4>2 DEF Only
        <5> QED BY <5>1, <3>1, <2>2 DEF On, Works, Between
      <4> QED BY <4>1, <4>2
    <3>2. Says(n, id)
      BY <3>1, <2>1, <1>1 DEF ExactInv
    <3> QED BY <3>2, <2>1 DEF Says, Untouched
  <2>3. ASSUME NEW q \in Requests, On(q, id)', request'[q].pc = "remove"
        PROVE  history'[n].op = "deleted"
    <3>1. On(q, id) /\ request[q].pc = "remove"
      <4>1. CASE q = r
        BY <4>1, <2>3 DEF Leaves
      <4>2. CASE q # r
        <5>1. request'[q] = request[q]
          BY <4>2 DEF Only
        <5> QED BY <5>1, <2>3 DEF On, Works
      <4> QED BY <4>1, <4>2
    <3> QED BY <3>1, <2>1, <1>1 DEF ExactInv
  <2> QED BY <2>2, <2>3
<1> QED BY <1>3, <1>4 DEF ExactInv

\* The types, by the parts that the requests have in them.
LEMMA TypesKept ==
  ASSUME RequestsTyped', NEW r \in Requests
  PROVE  /\ request'[r].pc \in {"new", "insert", "write", "reread", "record", "remove", "reply", "check"} \cup Ended
         /\ request'[r].id \in MemoryIds \cup {Keep}
<1>1. PICK asks : request' \in [Requests -> RequestRows(asks)]
  BY DEF RequestsTyped
<1> QED BY <1>1 DEF RequestRows, RequestSteps

\* What r takes in hand: nobody else has it, or it is shared and both know its store.
Joins(r) ==
  /\ \A d \in Requests \ {r} :
       Works(r)' /\ Works(d) /\ request'[r].id = request[d].id => request[d].id \in mixed' /\ request'[r].row.store = request[d].row.store
  /\ request'[r].id \in Requests \ {r} => Inserted(request'[r].id)
  /\ Inserted(r) => Inserted(r)'

LEMMA AloneKept ==
  ASSUME MemoryInv, NEW r \in Requests, Only(r), mixed \subseteq mixed', Joins(r)
  PROVE  AloneInv'
<1> SUFFICES ASSUME NEW q \in Requests, NEW d \in Requests, q # d, Works(q)', Works(d)', request'[q].id = request'[d].id
             PROVE  request'[q].id \in mixed' /\ request'[q].row.store = request'[d].row.store
  BY DEF AloneInv
<1>1. ASSUME NEW e \in Requests \ {r}
      PROVE  request'[e] = request[e] /\ (Works(e)' <=> Works(e))
  BY DEF Only, Works
<1>2. CASE q # r /\ d # r
  BY <1>1, <1>2 DEF MemoryInv, AloneInv
<1>3. CASE q = r
  BY <1>1, <1>3 DEF Joins, On
<1>4. CASE d = r
  BY <1>1, <1>4 DEF Joins, On
<1> QED BY <1>2, <1>3, <1>4

LEMMA QuietKeeps ==
  ASSUME MemoryInv, NEW r \in Requests, Quiet(r), Joins(r), \A id \in MemoryIds : Leaves(r, id),
         FreshInv(r)', WorkInv(r)', AtWork(r)', RefusedInv(r)'
  PROVE  MemoryInv'
<1>1. \A id \in MemoryIds : Untouched(id)
  BY DEF Quiet, Untouched, Known, VersionsOf, Live
<1>2. \A id \in MemoryIds : ExactInv(id)'
  BY <1>1, ExactKept DEF Quiet
<1>3. RowIsRecorded'
  <2> SUFFICES ASSUME NEW id \in DOMAIN memories PROVE Recorded(id)'
    BY DEF Quiet, RowIsRecorded, Recorded
  <2>1. id \in MemoryIds /\ Known(id)
    BY DEF MemoryInv, TablesInv, MemoryTypeOK, Known
  <2> QED BY <2>1, <1>1, RecordedKept DEF Quiet
<1>4. AloneInv'
  BY AloneKept DEF Quiet
<1>5. TablesInv'
  <2>1. RequestsTyped' /\ {mixed', unrecorded'} \subseteq SUBSET MemoryIds
    BY DEF Quiet, Only
  <2>2. MemoryTypeOK'
    BY <2>1, TypesKept DEF MemoryInv, TablesInv, MemoryTypeOK, Quiet, Live
  <2> QED BY <2>1, <2>2 DEF MemoryInv, TablesInv, Quiet, Known
<1>6. ASSUME NEW q \in Requests \ {r}
      PROVE  FreshInv(q)' /\ WorkInv(q)' /\ AtWork(q)' /\ RefusedInv(q)'
  <2>1. request'[q] = request[q] /\ UNCHANGED <<stores, memories, history>> /\ mixed \subseteq mixed'
    BY DEF Quiet, Only
  <2>2. FreshInv(q) /\ WorkInv(q) /\ AtWork(q) /\ RefusedInv(q)
    BY DEF MemoryInv
  <2>3. Inserted(q)' <=> Inserted(q)
    BY <2>1 DEF Inserted
  <2>4. FreshInv(q)'
    <3> SUFFICES ASSUME ~Inserted(q) PROVE FreshInv(q)'
      BY <2>3 DEF FreshInv
    <3>1. ~Known(q)' /\ \A n \in DOMAIN history' : history'[n].id # q
      BY <2>1, <2>2 DEF FreshInv, Known
    <3>2. ASSUME NEW d \in Requests \ {q} PROVE request'[d].id # q
      BY <2>2 DEF FreshInv, Joins, Quiet, Only
    <3> QED BY <3>1, <3>2 DEF FreshInv
  <2>5. Works(q)' <=> Works(q)
    BY <2>1 DEF Works
  <2>6. WorkInv(q)'
    BY <2>1, <2>2, <2>3, <2>5 DEF WorkInv, Known
  <2>7. AtWork(q)'
    BY <2>1, <2>2, <2>5 DEF AtWork, Known, Live
  <2>8. RefusedInv(q)'
    BY <2>1, <2>2 DEF RefusedInv
  <2> QED BY <2>4, <2>6, <2>7, <2>8
<1> QED BY <1>2, <1>3, <1>4, <1>5, <1>6 DEF MemoryInv

\* The store of what r works on is gone, and with it the versions.
LEMMA StoreGone ==
  ASSUME MemoryInv, NEW r \in Requests, Works(r), request[r].pc # "insert", ~Live(request[r].row.store)
  PROVE  /\ VersionsOf(request[r].id) = {} /\ ~Known(request[r].id)
         /\ \E s \in Stores : stores[s].there = "deleted"
<1> DEFINE s == request[r].row.store
<1>1. WorkInv(r) /\ TablesInv
  BY DEF MemoryInv
<1>2. stores[s].there # "never" /\ s \in Stores /\ (Known(request[r].id) => s = memories[request[r].id].store)
      /\ \A n \in DOMAIN history : history[n].id = request[r].id => history[n].store = s
  BY <1>1 DEF WorkInv, Row
<1>3. stores[s].there = "deleted"
  BY <1>1, <1>2 DEF TablesInv, MemoryTypeOK, Live
<1>4. VersionsOf(request[r].id) = {}
  BY <1>2 DEF VersionsOf
<1>5. ~Known(request[r].id)
  BY <1>1, <1>2 DEF TablesInv, MemoryTypeOK, Known
<1> QED BY <1>2, <1>3, <1>4, <1>5

\* A request of its own memory before the insert: there is no version yet.
LEMMA NotInserted ==
  ASSUME MemoryInv, NEW r \in Requests, request[r].pc = "insert"
  PROVE  /\ request[r].id = r /\ ~Known(r) /\ VersionsOf(r) = {} /\ ~request[r].wrote /\ request[r].ask.op = "upsert"
         /\ (\A n \in DOMAIN history : history[n].id # r) /\ \A d \in Requests \ {r} : request[d].id # r
<1>1. Works(r) /\ WorkInv(r) /\ FreshInv(r)
  BY DEF MemoryInv, Works, Working
<1>2. request[r].id = r /\ ~request[r].wrote /\ request[r].ask.op = "upsert"
  BY <1>1 DEF WorkInv
<1>3. ~Inserted(r)
  BY <1>2 DEF Inserted
<1> QED BY <1>1, <1>2, <1>3 DEF FreshInv, VersionsOf

\* A request ends without a change of the tables.
LEMMA QuietEnd ==
  ASSUME MemoryInv, NEW r \in Requests, NEW pc \in Ended, Sets(r, pc, request[r].id, request[r].row, request[r].wrote),
         UNCHANGED <<stores, memories, history, mixed>>, unrecorded \subseteq unrecorded', unrecorded' \in SUBSET MemoryIds,
         On(r, request[r].id) =>
           /\ request[r].id \notin mixed \cup unrecorded' /\ VersionsOf(request[r].id) # {} => Between(r)
           /\ request[r].wrote /\ request[r].pc \in {"reread", "record"} /\ Known(request[r].id) =>
                request[r].id \in unrecorded',
         pc = "done" =>
           request[r].ask.op \in {"upsert", "update", "delete", "redact", "renameStore", "archiveStore", "deleteStore", "createStore"},
         pc = "refused" /\ request[r].wrote =>
           request[r].id \in mixed \/ (\E s \in Stores : stores[s].there = "deleted") \/ request[r].ask.op = "redact"
  PROVE  MemoryInv'
<1> DEFINE t == request'[r]
<1>1. Only(r) /\ t.pc = pc /\ t.id = request[r].id /\ t.row = request[r].row /\ t.wrote = request[r].wrote /\ t.ask = request[r].ask
  BY DEF Sets, Only
<1>2. mixed \in SUBSET MemoryIds
  BY DEF MemoryInv, TablesInv, MemoryTypeOK
<1>3. Quiet(r)
  BY <1>1, <1>2 DEF Quiet
<1>4. ~Works(r)' /\ Inserted(r)' = Inserted(r)
  BY <1>1 DEF Works, Working, Ended, Inserted
<1>5. FreshInv(r) /\ WorkInv(r)
  BY DEF MemoryInv
<1>6. request[r].id \in Requests \ {r} => Inserted(request[r].id)
  BY DEF MemoryInv, FreshInv
<1>7. Joins(r)
  BY <1>1, <1>4, <1>6 DEF Joins, On
<1>8. \A id \in MemoryIds : Leaves(r, id)
  BY <1>4 DEF Leaves, On
<1>9. FreshInv(r)'
  BY <1>1, <1>4, <1>5 DEF FreshInv, Only, Known
<1>10. WorkInv(r)'
  <2>1. t.pc # "check" /\ t.pc # "new"
    BY <1>1 DEF Ended
  <2> QED BY <1>1, <1>4, <1>5, <2>1 DEF WorkInv, WellAsked
<1>11. AtWork(r)'
  BY <1>4 DEF AtWork
<1>12. RefusedInv(r)'
  BY <1>1 DEF RefusedInv
<1> HIDE DEF t
<1> QED BY <1>3, <1>7, <1>8, <1>9, <1>10, <1>11, <1>12, QuietKeeps

\* The ways in which a request is refused at its start.
LEMMA RefusedAtStart ==
  ASSUME MemoryInv, NEW r \in Requests, request[r].pc = "new", Goto(r, "refused"),
         UNCHANGED <<stores, memories, history, mixed, unrecorded>>
  PROVE  MemoryInv'
<1>1. RequestsTyped /\ unrecorded \in SUBSET MemoryIds /\ WorkInv(r) /\ "refused" \in Ended /\ "refused" \in RequestSteps
  BY DEF MemoryInv, TablesInv, MemoryTypeOK, Ended, RequestSteps
<1>2. Sets(r, "refused", request[r].id, request[r].row, request[r].wrote)
  BY <1>1, GotoSets
<1>3. ~On(r, request[r].id) /\ ~request[r].wrote
  BY <1>1 DEF On, Works, Working, WorkInv
<1> QED BY <1>1, <1>2, <1>3, QuietEnd

(***************************************************************************)
(* A request finds what it works on.                                       *)
(***************************************************************************)
\* r works on a memory that is there, or on the one it is going to create.
Found(r, id, pc, row) ==
  LET ask == request[r].ask IN
  /\ Known(id) /\ row \in Row /\ row.store = memories[id].store
  /\ \/ pc = "write" /\ ask.op = "upsert"
     \/ pc = "write" /\ ask.op = "update" /\ row = memories[id] /\ ValidUpdate(ask)
     \/ pc = "record" /\ ask.op = "delete"
Creates(r, id, pc, row) == id = r /\ pc = "insert" /\ row \in Row /\ request[r].ask.op = "upsert"

\* Whoever else works on a memory that is there has its store in hand.
LEMMA KnownStore ==
  ASSUME MemoryInv, NEW d \in Requests, Works(d), Known(request[d].id)
  PROVE  request[d].pc # "insert" /\ request[d].row.store = memories[request[d].id].store
<1>1. request[d].pc # "insert"
  BY NotInserted
<1> QED BY <1>1 DEF MemoryInv, WorkInv

LEMMA TakeKeeps ==
  ASSUME MemoryInv, NEW r \in Requests, request[r].pc = "new", NEW id \in MemoryIds, NEW pc, NEW row, Takes(r, id, pc, row),
         Found(r, id, pc, row) \/ Creates(r, id, pc, row), UNCHANGED <<stores, memories, history, unrecorded>>
  PROVE  MemoryInv'
<1> DEFINE t == request'[r]
<1>1. RequestsTyped /\ TablesInv /\ MemoryTypeOK /\ WorkInv(r) /\ FreshInv(r) /\ row \in Row /\ pc \in {"insert", "write", "record"}
  BY DEF MemoryInv, TablesInv, Found, Creates
<1>2. pc \in RequestSteps
  BY <1>1 DEF RequestSteps
<1>3. Sets(r, pc, id, row, request[r].wrote)
  BY <1>1, <1>2, TakesSets DEF Takes, TakesIt
<1>4. ~request[r].wrote /\ ~Works(r)
  BY <1>1 DEF WorkInv, Works, Working
<1>5. Only(r) /\ t.pc = pc /\ t.id = id /\ t.row = row /\ t.wrote = FALSE /\ t.ask = request[r].ask
  <2>1. request[r].wrote = FALSE
    BY <1>1, <1>4, RequestTypes
  <2> QED BY <1>3, <2>1 DEF Sets, Only
<1>6. mixed' = (IF Busy(id) \ {r} = {} THEN mixed ELSE mixed \cup {id}) /\ mixed \in SUBSET MemoryIds /\ unrecorded \in SUBSET MemoryIds
  BY <1>1 DEF Takes, MemoryTypeOK
<1>7. Quiet(r)
  BY <1>5, <1>6 DEF Quiet
<1>8. ~Inserted(r) /\ ~Inserted(r)'
  BY <1>4, <1>5 DEF Inserted
<1>9. ~Known(r) /\ (\A n \in DOMAIN history : history[n].id # r) /\ \A d \in Requests \ {r} : request[d].id # r
  BY <1>1, <1>8 DEF FreshInv
<1>10. Found(r, id, pc, row) => id # r
  BY <1>9 DEF Found
<1>11. Works(r)'
  BY <1>1, <1>5 DEF Works, Working
<1>12. ASSUME NEW d \in Requests \ {r}, Works(d), request[d].id = id
       PROVE  id \in mixed' /\ row.store = request[d].row.store
  <2>1. d \in Busy(id)
    BY <1>12 DEF Busy, Works, Working, Ended
  <2>2. id \in mixed'
    BY <1>6, <2>1
  <2>3. Found(r, id, pc, row)
    BY <1>9, <1>12 DEF Creates
  <2> QED BY <2>2, <2>3, <1>12, KnownStore DEF Found
<1>13. Joins(r)
  <2>1. id \in Requests \ {r} => Inserted(id)
    BY DEF MemoryInv, FreshInv, Found, Creates
  <2> QED BY <1>5, <1>8, <1>12, <2>1 DEF Joins, On
<1>14. \A x \in MemoryIds : Leaves(r, x)
  BY <1>1, <1>4, <1>5 DEF Leaves, On
<1>15. FreshInv(r)'
  BY <1>5, <1>9 DEF FreshInv, Only, Known
<1>16. WorkInv(r)'
  <2>1. CASE Creates(r, id, pc, row)
    BY <2>1, <1>1, <1>5 DEF WorkInv, Creates, WellAsked
  <2>2. CASE Found(r, id, pc, row)
    <3>1. stores[row.store].there # "never" /\ \A n \in DOMAIN history : history[n].id = id => history[n].store = row.store
      BY <2>2, <1>1 DEF TablesInv, MemoryTypeOK, Found, Known, Live
    <3>2. t.ask = request[r].ask /\ t.pc = pc /\ t.id = id /\ t.row = row /\ ~t.wrote /\ id # r
      BY <2>2, <1>5, <1>10
    <3>3. WellAsked(t.ask) /\ (pc = "write" /\ t.ask.op = "update" => ValidUpdate(t.ask))
      BY <2>2, <3>2, <1>1 DEF WorkInv, Found
    <3>4. Known(id)' = Known(id) /\ memories'[id] = memories[id] /\ stores' = stores /\ history' = history
      BY DEF Known
    <3> HIDE DEF t
    <3> QED BY <2>2, <3>1, <3>2, <3>3, <3>4, <1>1 DEF WorkInv, Found, t
  <2> QED BY <2>1, <2>2
<1>17. AtWork(r)'
  BY <1>5, <1>1 DEF AtWork, Found, Creates, Known
<1>18. RefusedInv(r)'
  BY <1>5 DEF RefusedInv
<1> HIDE DEF t
<1> QED BY <1>7, <1>13, <1>14, <1>15, <1>16, <1>17, <1>18, QuietKeeps

LEMMA FindKeeps ==
  ASSUME MemoryInv, NEW r \in Requests, Find(r)
  PROVE  MemoryInv'
<1> DEFINE ask == request[r].ask
           found == RowsAt(ask.store, ask.path)
           row == [store |-> ask.store, path |-> ask.path, content |-> ask.content]
<1>1. ask.op = "upsert" /\ request[r].pc = "new" /\ UNCHANGED <<stores, memories, history, unrecorded>>
  BY DEF Find, At
<1>2. CASE ~ValidUpsert(ask)
  BY <1>1, <1>2, RefusedAtStart DEF Find
<1>3. CASE ValidUpsert(ask)
  <2>1. ask.store \in Stores
    BY <1>1 DEF MemoryInv, WorkInv, WellAsked
  <2>2. row \in Row
    BY <2>1, <1>3 DEF Row, ValidUpsert
  <2>3. CASE found = {}
    <3>1. Takes(r, r, "insert", row) /\ r \in MemoryIds
      BY <1>3, <2>3 DEF Find, MemoryIds
    <3>2. Creates(r, r, "insert", row)
      BY <1>1, <2>2 DEF Creates
    <3> HIDE DEF row
    <3> QED BY <1>1, <3>1, <3>2, TakeKeeps
  <2>4. CASE found # {}
    <3>1. PICK id \in found : Takes(r, id, "write", row)
      BY <1>3, <2>4 DEF Find
    <3>2. Known(id) /\ row.store = memories[id].store /\ id \in MemoryIds
      BY <3>1 DEF RowsAt, Known, MemoryInv, TablesInv, MemoryTypeOK
    <3>3. Found(r, id, "write", row)
      BY <1>1, <2>2, <3>2 DEF Found
    <3> HIDE DEF row
    <3> QED BY <1>1, <3>1, <3>2, <3>3, TakeKeeps
  <2> QED BY <2>3, <2>4
<1> QED BY <1>2, <1>3

LEMMA ReadRowKeeps ==
  ASSUME MemoryInv, NEW r \in Requests, ReadRow(r)
  PROVE  MemoryInv'
<1> DEFINE ask == request[r].ask
           ok == Known(ask.id) /\ (ask.op = "update" => ValidUpdate(ask))
           pc == IF ask.op = "update" THEN "write" ELSE "record"
           row == memories[ask.id]
<1>1. ask.op \in {"update", "delete"} /\ request[r].pc = "new" /\ UNCHANGED <<stores, memories, history, unrecorded>>
      /\ IF ok THEN Takes(r, ask.id, pc, row) ELSE Goto(r, "refused") /\ UNCHANGED mixed
  BY DEF ReadRow
<1>2. CASE ~ok
  BY <1>1, <1>2, RefusedAtStart
<1>3. CASE ok
  <2>1. row \in Row /\ ask.id \in MemoryIds
    BY <1>3 DEF MemoryInv, TablesInv, MemoryTypeOK, Known
  <2>2. Found(r, ask.id, pc, row)
    BY <1>1, <1>3, <2>1 DEF Found
  <2>3. \E id \in MemoryIds : Takes(r, id, pc, row) /\ Found(r, id, pc, row)
    BY <1>1, <1>3, <2>1, <2>2
  <2> HIDE DEF pc, row, ask
  <2>4. PICK id \in MemoryIds : Takes(r, id, pc, row) /\ Found(r, id, pc, row)
    BY <2>3
  <2> QED BY <1>1, <2>4, TakeKeeps
<1> QED BY <1>2, <1>3

(***************************************************************************)
(* Steps of a request at work that change no table.                        *)
(***************************************************************************)
LEMMA QuietOn ==
  ASSUME MemoryInv, NEW r \in Requests, Works(r), request[r].pc # "insert",
         NEW pc \in {"reread", "record"}, NEW row \in Row, NEW wrote \in BOOLEAN, Sets(r, pc, request[r].id, row, wrote),
         UNCHANGED <<stores, memories, history, mixed, unrecorded>>,
         row.store = request[r].row.store, row.content = request[r].row.content \/ ~request[r].wrote,
         request[r].wrote => wrote,
         pc = "reread" => request[r].ask.op = "upsert" /\ ~Known(request[r].id),
         pc = "record" => request[r].ask.op = "update" \/ (request[r].ask.op = "upsert" /\ wrote),
         request[r].pc \in {"write", "reread"}, request[r].pc = "reread" => pc = "record",
         AtWork(r)'
  PROVE  MemoryInv'
<1> DEFINE t == request'[r]
           k == request[r]
<1>1. TablesInv /\ MemoryTypeOK /\ WorkInv(r) /\ FreshInv(r)
  BY DEF MemoryInv, TablesInv
<1>2. Only(r) /\ t.pc = pc /\ t.id = k.id /\ t.row = row /\ t.wrote = wrote /\ t.ask = k.ask
  BY DEF Sets, Only
<1>3. Quiet(r)
  BY <1>1, <1>2 DEF Quiet, MemoryTypeOK
<1>4. Works(r)' /\ (Inserted(r) => Inserted(r)')
  BY <1>2 DEF Works, Working, Inserted
<1>5. Joins(r)
  <2>1. k.id \in Requests \ {r} => Inserted(k.id)
    BY DEF MemoryInv, FreshInv
  <2>2. ASSUME NEW d \in Requests \ {r}, Works(d), k.id = request[d].id
        PROVE  request[d].id \in mixed /\ row.store = request[d].row.store
    BY <2>2 DEF MemoryInv, AloneInv
  <2> QED BY <1>2, <1>4, <2>1, <2>2 DEF Joins
<1>6. ASSUME NEW id \in MemoryIds
      PROVE  Leaves(r, id)
  BY <1>2, <1>4 DEF Leaves, On, Between
<1>7. FreshInv(r)'
  <2> SUFFICES ASSUME ~Inserted(r)' PROVE FreshInv(r)'
    BY DEF FreshInv
  <2>1. ~Inserted(r)
    BY <1>4
  <2> QED BY <2>1, <1>1, <1>2 DEF FreshInv, Only, Known
<1>8. WorkInv(r)'
  <2>1. /\ WellAsked(k.ask) /\ k.id \in MemoryIds /\ (k.id # r \/ Inserted(r)) /\ stores[row.store].there # "never"
        /\ Known(k.id) => row.store = memories[k.id].store
        /\ \A n \in DOMAIN history : history[n].id = k.id => history[n].store = row.store
    BY <1>1 DEF WorkInv
  <2>2. Known(k.id)' = Known(k.id) /\ memories' = memories /\ stores' = stores /\ history' = history
    BY <1>2 DEF Known
  <2> HIDE DEF t, k
  <2>3. k.ask.op \in {"upsert", "update"}
    BY DEF k
  <2> QED BY <1>2, <1>4, <2>1, <2>2, <2>3 DEF WorkInv, t, k
<1>9. RefusedInv(r)'
  BY <1>2 DEF RefusedInv
<1> HIDE DEF t, k
<1> QED BY <1>3, <1>5, <1>6, <1>7, <1>8, <1>9, QuietKeeps

\* GetMemory finds the row: the version takes its path.
RereadsIt(r, path) == request' = [request EXCEPT ![r] = [@ EXCEPT !.pc = "record", !.row.path = path]]
LEMMA RereadSets ==
  ASSUME RequestsTyped, NEW r \in Requests, NEW path \in Paths, request[r].row \in Row, RereadsIt(r, path)
  PROVE  \E row \in Row : /\ row.path = path /\ row.store = request[r].row.store /\ row.content = request[r].row.content
                          /\ Sets(r, "record", request[r].id, row, request[r].wrote)
<1> DEFINE old == request[r]
           read == old.row
           row == [read EXCEPT !.path = path]
           new == [old EXCEPT !.pc = "record", !.row = row]
<1>1. request' = [request EXCEPT ![r] = new]
  BY DEF RereadsIt, RequestsTyped
<1>2. row \in Row /\ row.path = path /\ row.store = read.store /\ row.content = read.content
  <2> HIDE DEF old
  <2>1. read \in Row
    BY DEF old
  <2> HIDE DEF read
  <2> QED BY <2>1 DEF Row
<1> HIDE DEF row
<1>3. ASSUME NEW asks, old \in RequestRows(asks)
      PROVE  new \in RequestRows(asks) /\ new.ask = old.ask /\ new.pc = "record" /\ new.id = old.id /\ new.row = row
             /\ new.wrote = old.wrote
  <2> HIDE DEF old
  <2> QED BY <1>2, <1>3 DEF RequestRows, RequestSteps
<1>4. PICK asks : old \in RequestRows(asks)
  BY DEF RequestsTyped
<1> HIDE DEF new
<1>5. Only(r) /\ request'[r] = new
  BY <1>1, <1>3, Changed
<1>6. Sets(r, "record", request[r].id, row, request[r].wrote)
  BY <1>3, <1>4, <1>5 DEF Sets
<1> QED BY <1>2, <1>6

LEMMA PatchedRow ==
  ASSUME NEW r \in Requests, request[r].row \in Row, ValidUpdate(request[r].ask)
  PROVE  Patched(r) \in Row /\ Patched(r).store = request[r].row.store
<1> DEFINE read == request[r].row
           ask == request[r].ask
           path == IF ask.path = Keep THEN read.path ELSE ask.path
           content == IF ask.content = Keep THEN read.content ELSE ask.content
<1>1. Patched(r) = [read EXCEPT !.path = path, !.content = content]
  BY DEF Patched
<1>2. path \in Paths /\ content \in Contents /\ read \in Row
  BY DEF Row, ValidUpdate
<1> HIDE DEF read, path, content
<1>3. [read EXCEPT !.path = path, !.content = content] \in Row
      /\ [read EXCEPT !.path = path, !.content = content].store = read.store
  BY <1>2 DEF Row
<1> QED BY <1>1, <1>3 DEF read

LEMMA RereadKeeps ==
  ASSUME MemoryInv, NEW r \in Requests, Reread(r)
  PROVE  MemoryInv'
<1> DEFINE id == request[r].id
<1>1. request[r].ask.op = "upsert" /\ request[r].pc = "reread" /\ UNCHANGED <<stores, memories, history, mixed, unrecorded>>
  BY DEF Reread, At
<1>2. RequestsTyped /\ WorkInv(r) /\ AtWork(r) /\ unrecorded \in SUBSET MemoryIds /\ Works(r) /\ request[r].wrote \in BOOLEAN
  BY <1>1, RequestTypes DEF MemoryInv, TablesInv, MemoryTypeOK, Works, Working
<1>3. request[r].row \in Row /\ (Known(id) => request[r].wrote)
  BY <1>1, <1>2 DEF WorkInv
<1>4. CASE Known(id)
  <2>1. RereadsIt(r, memories[id].path) /\ memories[id].path \in Paths
    BY <1>4 DEF Reread, RereadsIt, MemoryInv, TablesInv, MemoryTypeOK, Known, Row
  <2>2. PICK row \in Row : /\ row.path = memories[id].path /\ row.store = request[r].row.store
                           /\ row.content = request[r].row.content
                           /\ Sets(r, "record", request[r].id, row, request[r].wrote)
    <3> DEFINE path == memories[id].path
    <3> HIDE DEF path
    <3>1. \E row \in Row : /\ row.path = path /\ row.store = request[r].row.store /\ row.content = request[r].row.content
                           /\ Sets(r, "record", request[r].id, row, request[r].wrote)
      BY <1>2, <1>3, <2>1, RereadSets DEF path
    <3> QED BY <3>1 DEF path
  <2>3. AtWork(r)'
    <3>1. request'[r].pc = "record" /\ request'[r].id = id /\ request'[r].row = row /\ request'[r].wrote = request[r].wrote
      BY <2>2 DEF Sets
    <3> QED BY <3>1, <2>2, <1>1, <1>2, <1>3, <1>4 DEF AtWork, Known, Live
  <2> QED BY <1>1, <1>2, <1>3, <1>4, <2>2, <2>3, QuietOn
<1>5. CASE ~Known(id)
  <2>1. Goto(r, "refused") /\ "refused" \in RequestSteps /\ "refused" \in Ended
    BY <1>5 DEF Reread, Goto, RequestSteps, Ended
  <2>2. Sets(r, "refused", request[r].id, request[r].row, request[r].wrote)
    BY <2>1, <1>2, GotoSets
  <2>3. id \in mixed \/ ~Live(request[r].row.store)
    BY <1>1, <1>2, <1>5 DEF AtWork
  <2> QED BY <1>1, <1>2, <1>5, <2>1, <2>2, <2>3, StoreGone, QuietEnd
<1> QED BY <1>4, <1>5

LEMMA ReplyKeeps ==
  ASSUME MemoryInv, NEW r \in Requests, Reply(r)
  PROVE  MemoryInv'
<1> DEFINE pc == IF Known(request[r].id) THEN "done" ELSE "refused"
<1>1. request[r].pc = "reply" /\ Goto(r, pc) /\ UNCHANGED <<stores, memories, history, mixed, unrecorded>>
  BY DEF Reply
<1>2. RequestsTyped /\ WorkInv(r) /\ AtWork(r) /\ unrecorded \in SUBSET MemoryIds /\ Works(r) /\ Between(r)
  BY <1>1 DEF MemoryInv, TablesInv, MemoryTypeOK, Works, Working, Between
<1>3. pc \in RequestSteps /\ pc \in Ended
  BY DEF RequestSteps, Ended
<1>4. request[r].ask.op \in {"upsert", "update", "delete"}
  BY <1>1, <1>2 DEF WorkInv
<1>5. pc = "refused" => request[r].id \in mixed \/ ~Live(request[r].row.store)
  BY <1>1, <1>2 DEF AtWork
<1>6. pc = "refused" => request[r].id \in mixed \/ \E s \in Stores : stores[s].there = "deleted"
  BY <1>1, <1>2, <1>5, StoreGone
<1> HIDE DEF pc
<1>7. Sets(r, pc, request[r].id, request[r].row, request[r].wrote)
  BY <1>1, <1>2, <1>3, GotoSets
<1> QED BY <1>1, <1>2, <1>3, <1>4, <1>6, <1>7, QuietEnd

LEMMA CheckStoreKeeps ==
  ASSUME MemoryInv, NEW r \in Requests, CheckStore(r)
  PROVE  MemoryInv'
<1>1. PICK pc \in {"done", "refused"} : Goto(r, pc)
  BY DEF CheckStore
<1>2. request[r].ask.op = "redact" /\ request[r].pc = "check" /\ UNCHANGED <<stores, memories, history, mixed, unrecorded>>
  BY DEF CheckStore, At
<1>3. RequestsTyped /\ unrecorded \in SUBSET MemoryIds /\ ~Works(r) /\ pc \in RequestSteps /\ pc \in Ended
  BY <1>2 DEF MemoryInv, TablesInv, MemoryTypeOK, Works, Working, RequestSteps, Ended
<1>4. Sets(r, pc, request[r].id, request[r].row, request[r].wrote)
  BY <1>1, <1>3, GotoSets
<1> QED BY <1>2, <1>3, <1>4, QuietEnd DEF On

LEMMA BreaksOffKeeps ==
  ASSUME MemoryInv, NEW r \in Requests, NEW pc \in BrokenOff, BreaksOff(r, pc)
  PROVE  MemoryInv'
<1> DEFINE k == request[r]
<1>1. /\ k.pc \notin Ended \cup {"new"} /\ Goto(r, pc) /\ UNCHANGED <<stores, memories, history, mixed>>
      /\ unrecorded' = (IF k.pc = "remove" \/ (k.wrote /\ k.pc \in {"reread", "record"}) THEN unrecorded \cup {k.id} ELSE unrecorded)
  BY DEF BreaksOff
<1>2. RequestsTyped /\ WorkInv(r) /\ AtWork(r) /\ unrecorded \in SUBSET MemoryIds /\ pc \in RequestSteps /\ pc \in Ended /\ pc \notin {"done", "refused"}
  BY DEF MemoryInv, TablesInv, MemoryTypeOK, RequestSteps, Ended, BrokenOff
<1>3. Sets(r, pc, k.id, k.row, k.wrote)
  BY <1>1, <1>2, GotoSets
<1>4. unrecorded \subseteq unrecorded' /\ unrecorded' \in SUBSET MemoryIds
  <2>1. k.pc \in {"reread", "record", "remove"} => k.id \in MemoryIds
    BY <1>2 DEF WorkInv, Works, Working
  <2> QED BY <1>1, <1>2, <2>1
<1>5. ASSUME Works(r), k.id \notin mixed \cup unrecorded', VersionsOf(k.id) # {}
      PROVE  Between(r)
  <2>1. k.pc # "insert"
    BY <1>5, NotInserted
  <2>2. Live(k.row.store)
    BY <1>5, <2>1, StoreGone
  <2>3. k.pc \in {"write", "reread", "record", "remove", "reply"}
    BY <1>5, <2>1 DEF Works, Working
  <2>4. k.pc = "reread" => k.wrote
    BY <1>2, <1>5, <2>2 DEF AtWork
  <2>5. k.pc = "record" /\ k.ask.op # "delete" => k.wrote
    BY <1>2, <1>5, <2>2 DEF AtWork
  <2> QED BY <1>1, <1>5, <2>3, <2>4, <2>5 DEF Between
<1> QED BY <1>1, <1>2, <1>3, <1>4, <1>5, QuietEnd DEF On

(***************************************************************************)
(* Steps that change one row of the table memory.                          *)
(***************************************************************************)
\* The row of memory x is inserted, changed or deleted; its store is not changed.
Touches(r, x) ==
  /\ Only(r) /\ UNCHANGED <<stores, history, mixed, unrecorded>>
  /\ \A id : id # x => Known(id)' = Known(id) /\ (Known(id) => memories'[id] = memories[id])
  /\ Known(x) /\ Known(x)' => memories'[x].store = memories[x].store
  /\ ~Known(x) /\ Known(x)' => /\ \A d \in Requests \ {r} : request[d].id # x
                               /\ \A n \in DOMAIN history : history[n].id # x

LEMMA TouchKeeps ==
  ASSUME MemoryInv, NEW r \in Requests, Works(r), NEW x \in MemoryIds, request[r].id = x, request'[r].id = x, Touches(r, x),
         Joins(r), request'[r].pc # "remove", MemoryTypeOK', FreshInv(r)', WorkInv(r)', AtWork(r)', RefusedInv(r)',
         Known(x)' => Recorded(x)', ExactInv(x)'
  PROVE  MemoryInv'
<1>1. TablesInv /\ Only(r) /\ UNCHANGED <<stores, history, mixed, unrecorded>>
  BY DEF MemoryInv, Touches
<1>2. \A id \in MemoryIds \ {x} : Untouched(id)
  BY <1>1 DEF Touches, Untouched, VersionsOf, Live
<1>3. \A id \in MemoryIds \ {x} : Leaves(r, id)
  BY DEF Leaves, On
<1>4. ASSUME NEW id \in MemoryIds PROVE ExactInv(id)'
  <2>1. CASE id = x
    BY <2>1
  <2>2. CASE id # x
    BY <2>2, <1>1, <1>2, <1>3, ExactKept
  <2> QED BY <2>1, <2>2
<1>5. RowIsRecorded'
  <2> SUFFICES ASSUME NEW id \in DOMAIN memories' PROVE Recorded(id)'
    BY DEF RowIsRecorded, Recorded
  <2>1. Known(id)' /\ id \in MemoryIds
    BY DEF MemoryTypeOK, Known
  <2>2. CASE id = x
    BY <2>1, <2>2
  <2>3. CASE id # x
    <3>1. Known(id)
      BY <2>1, <2>3 DEF Touches
    <3> QED BY <2>1, <2>3, <3>1, <1>1, <1>2, <1>3, RecordedKept
  <2> QED BY <2>2, <2>3
<1>6. AloneInv'
  BY <1>1, AloneKept
<1>7. TablesInv'
  <2>1. RequestsTyped' /\ history' = history /\ stores' = stores
    BY <1>1 DEF Only
  <2>2. ASSUME NEW n \in DOMAIN history, Known(history[n].id)'
        PROVE  history[n].store = memories'[history[n].id].store
    <3>1. Known(history[n].id)' <=> history[n].id \in DOMAIN memories'
      BY <2>1 DEF Known
    <3>2. CASE history[n].id = x
      <4>1. Known(x)' /\ Known(x)
        BY <2>2, <3>1, <3>2 DEF Known, Touches
      <4> QED BY <4>1, <3>2, <1>1 DEF Touches, TablesInv
    <3>3. CASE history[n].id # x
      <4> DEFINE id == history[n].id
      <4>1. PICK j : j = id
        OBVIOUS
      <4>2. Known(j)'
        BY <4>1, <3>1, <2>2 DEF Known
      <4>3. Known(j) /\ memories'[j] = memories[j]
        BY <4>1, <4>2, <3>3 DEF Touches
      <4> QED BY <4>1, <4>3, <1>1 DEF TablesInv
    <3> QED BY <3>2, <3>3
  <2>3. ASSUME NEW n \in DOMAIN history'
        PROVE  /\ stores'[history'[n].store].there # "never"
               /\ Known(history[n].id)' => history'[n].store = memories'[history'[n].id].store
               /\ \A i \in DOMAIN history' : history'[i].id = history'[n].id => history'[i].store = history'[n].store
    BY <1>1, <2>1, <2>2 DEF TablesInv
  <2> QED BY <2>1, <2>3, <1>1 DEF TablesInv
<1>8. ASSUME NEW q \in Requests \ {r}
      PROVE  FreshInv(q)' /\ WorkInv(q)' /\ AtWork(q)' /\ RefusedInv(q)'
  <2>1. request'[q] = request[q] /\ UNCHANGED <<stores, history, mixed>>
    BY <1>1 DEF Only
  <2>2. FreshInv(q) /\ WorkInv(q) /\ AtWork(q) /\ RefusedInv(q)
    BY DEF MemoryInv
  <2>3. (Inserted(q)' <=> Inserted(q)) /\ (Works(q)' <=> Works(q))
    BY <2>1 DEF Inserted, Works
  <2>4. FreshInv(q)'
    <3> SUFFICES ASSUME ~Inserted(q) PROVE FreshInv(q)'
      BY <2>3 DEF FreshInv
    <3>1. q # x
      BY DEF Joins
    <3>2. ~Known(q)' /\ \A n \in DOMAIN history' : history'[n].id # q
      BY <2>1, <2>2, <3>1 DEF FreshInv, Touches
    <3>3. ASSUME NEW d \in Requests \ {q} PROVE request'[d].id # q
      BY <1>1, <2>2, <3>1 DEF FreshInv, Only
    <3> QED BY <3>2, <3>3 DEF FreshInv
  <2> DEFINE id == request[q].id
  <2>5. PICK j : j = id
    OBVIOUS
  <2>6. Works(q) /\ j = x => j \in mixed
    BY <2>5 DEF MemoryInv, AloneInv
  <2>7. Works(q) /\ Known(j)' => Known(j) /\ memories'[j].store = memories[j].store
    BY <2>5 DEF Touches
  <2>8. j # x => Known(j)' = Known(j) /\ (Known(j) => memories'[j] = memories[j])
    BY DEF Touches
  <2>9. Known(j)' <=> j \in DOMAIN memories'
    BY DEF Known
  <2>10. WorkInv(q)'
    BY <2>1, <2>2, <2>3, <2>5, <2>7, <2>9 DEF WorkInv, Known
  <2>11. AtWork(q)'
    BY <2>1, <2>2, <2>3, <2>5, <2>6, <2>8, <2>9 DEF AtWork, Known, Live
  <2>12. RefusedInv(q)'
    BY <2>1, <2>2 DEF RefusedInv
  <2> QED BY <2>4, <2>10, <2>11, <2>12
<1> QED BY <1>4, <1>5, <1>6, <1>7, <1>8 DEF MemoryInv

\* Who works alone on a memory.
LEMMA AloneOn ==
  ASSUME MemoryInv, NEW r \in Requests, Works(r), request[r].id \notin mixed, NEW q \in Requests, On(q, request[r].id)
  PROVE  q = r
BY DEF MemoryInv, AloneInv, On

\* The types when only the table memory has changed.
LEMMA RowsTyped ==
  ASSUME MemoryTypeOK, RequestsTyped', UNCHANGED <<stores, history, mixed, unrecorded>>, DOMAIN memories' \subseteq MemoryIds,
         \A id \in DOMAIN memories' : memories'[id] \in Row /\ stores[memories'[id].store].there = "live",
         \A i, j \in DOMAIN memories' :
           i # j => memories'[i].store # memories'[j].store \/ memories'[i].path # memories'[j].path
  PROVE  MemoryTypeOK'
<1>1. \A id \in DOMAIN memories' : memories'[id] \in Row /\ stores'[memories'[id].store].there = "live"
  OBVIOUS
<1> QED BY <1>1, TypesKept DEF MemoryTypeOK, Live

LEMMA InsertRowKeeps ==
  ASSUME MemoryInv, NEW r \in Requests, InsertRow(r)
  PROVE  MemoryInv'
<1> DEFINE row == request[r].row
           ok == Live(row.store) /\ RowsAt(row.store, row.path) = {}
           t == request'[r]
<1>1. /\ request[r].ask.op = "upsert" /\ request[r].pc = "insert" /\ UNCHANGED <<stores, history, mixed, unrecorded>>
      /\ IF ok THEN /\ memories' = [id \in DOMAIN memories \cup {r} |-> IF id = r THEN row ELSE memories[id]]
                    /\ request' = [request EXCEPT ![r] = [@ EXCEPT !.pc = "record", !.wrote = TRUE]]
               ELSE Goto(r, "refused") /\ UNCHANGED memories
  BY DEF InsertRow, At
<1>2. RequestsTyped /\ TablesInv /\ MemoryTypeOK /\ WorkInv(r) /\ FreshInv(r) /\ unrecorded \in SUBSET MemoryIds /\ Works(r)
  BY <1>1 DEF MemoryInv, TablesInv, MemoryTypeOK, Works, Working
<1>3. /\ request[r].id = r /\ ~Known(r) /\ VersionsOf(r) = {} /\ ~request[r].wrote
      /\ (\A n \in DOMAIN history : history[n].id # r) /\ \A d \in Requests \ {r} : request[d].id # r
  BY <1>1, NotInserted
<1>4. CASE ~ok
  <2>1. Goto(r, "refused") /\ UNCHANGED memories /\ "refused" \in RequestSteps /\ "refused" \in Ended
    BY <1>1, <1>4 DEF RequestSteps, Ended
  <2>2. Sets(r, "refused", request[r].id, request[r].row, request[r].wrote)
    BY <1>2, <2>1, GotoSets
  <2> QED BY <1>1, <1>2, <1>3, <2>1, <2>2, QuietEnd
<1>5. CASE ok
  <2>1. /\ memories' = [id \in DOMAIN memories \cup {r} |-> IF id = r THEN row ELSE memories[id]]
        /\ WritesIt(r, "record", TRUE)
    BY <1>1, <1>5 DEF WritesIt
  <2>2. "record" \in RequestSteps /\ TRUE \in BOOLEAN
    BY DEF RequestSteps
  <2>3. Sets(r, "record", request[r].id, request[r].row, TRUE)
    BY <2>1, <2>2, <1>2, WritesSets
  <2>4. Only(r) /\ t.pc = "record" /\ t.id = r /\ t.row = row /\ t.wrote = TRUE /\ t.ask = request[r].ask
    BY <1>3, <2>3 DEF Sets, Only
  <2>5. row \in Row /\ WellAsked(t.ask)
    BY <1>2, <2>4 DEF WorkInv
  <2>6. /\ DOMAIN memories' = DOMAIN memories \cup {r} /\ memories'[r] = row
        /\ \A id \in DOMAIN memories : memories'[id] = memories[id]
    <3> HIDE DEF row
    <3> QED BY <2>1, <1>3 DEF Known
  <2>7. r \in MemoryIds
    BY DEF MemoryIds
  <2>8. Touches(r, r)
    BY <1>1, <1>3, <2>4, <2>6 DEF Touches, Known
  <2>9. Works(r)' /\ Inserted(r)'
    BY <2>4, <1>1 DEF Works, Working, Inserted
  <2>10. Joins(r)
    BY <1>3, <2>4, <2>9 DEF Joins
  <2>11. MemoryTypeOK'
    <3>1. DOMAIN memories' \subseteq MemoryIds
      BY <2>6, <2>7, <1>2 DEF MemoryTypeOK
    <3>2. \A id \in DOMAIN memories' : memories'[id] \in Row /\ Live(memories'[id].store)
      BY <2>5, <2>6, <1>2, <1>5 DEF MemoryTypeOK
    <3>3. ASSUME NEW i \in DOMAIN memories', NEW j \in DOMAIN memories', i # j
          PROVE  memories'[i].store # memories'[j].store \/ memories'[i].path # memories'[j].path
      <4>1. \A id \in DOMAIN memories : memories[id].store # row.store \/ memories[id].path # row.path
        BY <1>5 DEF RowsAt
      <4>2. CASE i \in DOMAIN memories /\ j \in DOMAIN memories
        BY <4>2, <3>3, <2>6, <1>2 DEF MemoryTypeOK
      <4>3. CASE i = r /\ j \in DOMAIN memories
        BY <4>1, <4>3, <2>6
      <4>4. CASE j = r /\ i \in DOMAIN memories
        BY <4>1, <4>4, <2>6
      <4> QED BY <4>2, <4>3, <4>4, <3>3, <2>6
    <3>4. RequestsTyped'
      BY <2>4 DEF Only
    <3>5. \A id \in DOMAIN memories' : memories'[id] \in Row /\ stores[memories'[id].store].there = "live"
      BY <3>2 DEF Live
    <3> QED BY <3>1, <3>3, <3>4, <3>5, <1>1, <1>2, RowsTyped
  <2>12. FreshInv(r)'
    BY <2>9 DEF FreshInv
  <2>13. WorkInv(r)'
    <3>1. stores'[row.store].there # "never" /\ \A n \in DOMAIN history' : history'[n].id # r
      BY <1>1, <1>3, <1>5 DEF Live
    <3> HIDE DEF t, row
    <3> QED BY <2>4, <2>5, <2>6, <2>7, <2>9, <3>1, <1>1 DEF WorkInv, t
  <2>14. AtWork(r)'
    BY <2>4, <2>6, <1>1 DEF AtWork, Known
  <2>15. RefusedInv(r)'
    BY <2>4 DEF RefusedInv
  <2>16. Recorded(r)'
    <3>1. r \in Busy(r)'
      BY <2>4 DEF Busy, Ended
    <3> QED BY <3>1, <2>4, <2>6 DEF Recorded
  <2>17. VersionsOf(r)' = {}
    BY <1>1, <1>3 DEF VersionsOf
  <2>18. ExactInv(r)'
    BY <2>17 DEF ExactInv
  <2>19. t.pc # "remove" /\ t.id = r
    BY <2>4
  <2> HIDE DEF t, row
  <2> QED BY <1>2, <1>3, <2>7, <2>8, <2>10, <2>11, <2>12, <2>13, <2>14, <2>15, <2>16, <2>18, <2>19, TouchKeeps DEF t
<1> QED BY <1>4, <1>5

\* The versions of the memory that r works on, when the row changes under no other's hands.
LEMMA VersionsStay ==
  ASSUME MemoryInv, NEW x \in MemoryIds, UNCHANGED <<stores, history, mixed, unrecorded>>,
         \A n \in VersionsOf(x) : IsLast(n, x) /\ x \notin mixed \cup unrecorded =>
           /\ (\A q \in Requests : On(q, x)' => Between(q)') => Says(n, x)'
           /\ (\E q \in Requests : On(q, x)' /\ request'[q].pc = "remove") => history[n].op = "deleted"
  PROVE  ExactInv(x)'
<1>1. VersionsOf(x)' = VersionsOf(x) /\ ExactInv(x)
  BY DEF VersionsOf, Live, MemoryInv
<1>2. \A n : IsLast(n, x)' <=> IsLast(n, x)
  BY <1>1 DEF IsLast
<1> QED BY <1>1, <1>2 DEF ExactInv

\* The UPDATE of a row that is there: r has a new row in hand, or reads it again.
LEMMA RowChanges ==
  ASSUME MemoryInv, NEW r \in Requests, request[r].pc = "write", NEW x \in MemoryIds, request[r].id = x, Known(x),
         NEW pc \in {"reread", "record"}, NEW row \in Row, NEW new \in Row, Sets(r, pc, x, row, TRUE),
         memories' = [memories EXCEPT ![x] = new], UNCHANGED <<stores, history, mixed, unrecorded>>,
         new.store = memories[x].store, row.store = memories[x].store, new.content = row.content,
         pc = "record" => row = new /\ request[r].ask.op = "update", pc = "reread" => request[r].ask.op = "upsert",
         \A j \in DOMAIN memories \ {x} : memories[j].store # new.store \/ memories[j].path # new.path
  PROVE  MemoryInv'
<1> DEFINE t == request'[r]
           k == request[r]
<1>1. TablesInv /\ MemoryTypeOK /\ WorkInv(r) /\ Works(r)
  BY DEF MemoryInv, TablesInv, Works, Working
<1>2. Only(r) /\ t.pc = pc /\ t.id = x /\ t.row = row /\ t.wrote = TRUE /\ t.ask = k.ask
  BY DEF Sets, Only
<1>3. DOMAIN memories' = DOMAIN memories /\ memories'[x] = new /\ \A j \in DOMAIN memories \ {x} : memories'[j] = memories[j]
  BY DEF Known
<1>4. Works(r)' /\ (Inserted(r) => Inserted(r)')
  BY <1>2 DEF Works, Working, Inserted
<1>5. x # r \/ Inserted(r)'
  BY <1>1, <1>4 DEF WorkInv
<1>6. Touches(r, x)
  BY <1>2, <1>3 DEF Touches, Known
<1>7. ~k.wrote /\ WellAsked(k.ask) /\ stores[row.store].there # "never"
      /\ (\A n \in DOMAIN history : history[n].id = x => history[n].store = row.store) /\ k.row.store = row.store
  BY <1>1 DEF WorkInv
<1>8. Joins(r)
  <2>1. x \in Requests \ {r} => Inserted(x)
    BY DEF MemoryInv, FreshInv
  <2>2. ASSUME NEW d \in Requests \ {r}, Works(d), x = request[d].id
        PROVE  x \in mixed /\ row.store = request[d].row.store
    BY <2>2, <1>1, <1>7 DEF MemoryInv, AloneInv
  <2> QED BY <1>2, <1>4, <2>1, <2>2 DEF Joins
<1>9. MemoryTypeOK'
  <2>1. RequestsTyped' /\ DOMAIN memories' \subseteq MemoryIds
    BY <1>1, <1>2, <1>3 DEF Only, MemoryTypeOK
  <2>2. \A id \in DOMAIN memories' : memories'[id] \in Row /\ stores[memories'[id].store].there = "live"
    BY <1>1, <1>3 DEF MemoryTypeOK, Live, Known
  <2>3. ASSUME NEW i \in DOMAIN memories', NEW j \in DOMAIN memories', i # j
        PROVE  memories'[i].store # memories'[j].store \/ memories'[i].path # memories'[j].path
    <3>1. CASE i # x /\ j # x
      BY <3>1, <2>3, <1>1, <1>3 DEF MemoryTypeOK
    <3>2. CASE i = x
      BY <3>2, <2>3, <1>3
    <3>3. CASE j = x
      BY <3>3, <2>3, <1>3
    <3> QED BY <3>1, <3>2, <3>3
  <2> QED BY <1>1, <2>1, <2>2, <2>3, RowsTyped
<1>10. FreshInv(r)'
  <2> SUFFICES ASSUME ~Inserted(r)' PROVE FreshInv(r)'
    BY DEF FreshInv
  <2>1. ~Inserted(r) /\ x # r /\ FreshInv(r)
    BY <1>4, <1>5 DEF MemoryInv
  <2> QED BY <2>1, <1>2, <1>3 DEF FreshInv, Only, Known
<1>11. WorkInv(r)'
  <2>1. memories'[x].store = row.store /\ stores' = stores /\ history' = history
    BY <1>3
  <2> HIDE DEF t, k
  <2>2. k.ask.op \in {"upsert", "update"}
    BY DEF k
  <2> QED BY <1>2, <1>4, <1>5, <1>7, <2>1, <2>2 DEF WorkInv, t, k, WellAsked
<1>12. AtWork(r)'
  BY <1>2, <1>3 DEF AtWork, Known
<1>13. RefusedInv(r)'
  BY <1>2 DEF RefusedInv
<1>14. Recorded(x)'
  <2>1. r \in Busy(x)'
    BY <1>2 DEF Busy, Ended
  <2> QED BY <2>1, <1>2, <1>3 DEF Recorded
<1>15. ExactInv(x)'
  <2> SUFFICES ASSUME NEW n \in VersionsOf(x), x \notin mixed
               PROVE  /\ (\A q \in Requests : On(q, x)' => Between(q)') => Says(n, x)'
                      /\ (\E q \in Requests : On(q, x)' /\ request'[q].pc = "remove") => history[n].op = "deleted"
    BY VersionsStay
  <2>1. On(r, x)' /\ ~Between(r)' /\ request'[r].pc # "remove"
    BY <1>2, <1>4 DEF On, Between
  <2>2. ASSUME NEW q \in Requests, q # r, On(q, x)' PROVE FALSE
    <3>1. On(q, x)
      BY <1>2, <2>2 DEF On, Works, Only
    <3> QED BY <3>1, <2>2, <1>1, AloneOn
  <2> QED BY <2>1, <2>2
<1> HIDE DEF t, k
<1>16. request'[r].pc # "remove" /\ request'[r].id = x
  BY <1>2 DEF t
<1> QED BY <1>1, <1>6, <1>8, <1>9, <1>10, <1>11, <1>12, <1>13, <1>14, <1>15, <1>16, TouchKeeps

LEMMA WriteContentKeeps ==
  ASSUME MemoryInv, NEW r \in Requests, WriteContent(r)
  PROVE  MemoryInv'
<1> DEFINE id == request[r].id
           k == request[r]
           known == Known(id)
           row == k.row
<1>1. /\ k.ask.op = "upsert" /\ k.pc = "write" /\ UNCHANGED <<stores, history, mixed, unrecorded>>
      /\ memories' = (IF known THEN [memories EXCEPT ![id].content = row.content] ELSE memories)
      /\ WritesIt(r, "reread", known)
  BY DEF WriteContent, At, WritesIt
<1>2. RequestsTyped /\ MemoryTypeOK /\ WorkInv(r) /\ AtWork(r) /\ Works(r)
  BY <1>1 DEF MemoryInv, TablesInv, Works, Working
<1>3. known \in BOOLEAN /\ "reread" \in RequestSteps
  BY DEF Known, RequestSteps
<1>4. Sets(r, "reread", id, row, known)
  <2> HIDE DEF known
  <2> QED BY <1>1, <1>2, <1>3, WritesSets
<1>5. row \in Row /\ id \in MemoryIds /\ ~k.wrote /\ (known => row.store = memories[id].store)
  BY <1>1, <1>2 DEF WorkInv
<1>6. CASE known
  <2> DEFINE old == memories[id]
             new == [old EXCEPT !.content = row.content]
  <2>1. old \in Row
    BY <1>2, <1>6 DEF MemoryTypeOK, Known
  <2>2. memories' = [memories EXCEPT ![id] = new]
    BY <1>1, <1>6
  <2>3. new \in Row /\ new.store = old.store /\ new.content = row.content /\ new.path = old.path
    <3> HIDE DEF old, row
    <3> QED BY <2>1, <1>5 DEF Row
  <2>4. \A j \in DOMAIN memories \ {id} : memories[j].store # new.store \/ memories[j].path # new.path
    BY <1>2, <1>6, <2>3 DEF MemoryTypeOK, Known
  <2>5. Sets(r, "reread", id, row, TRUE)
    <3>1. known = TRUE
      BY <1>6, <1>3
    <3> QED BY <1>4, <3>1
  <2>6. request[r].pc = "write" /\ request[r].ask.op = "upsert" /\ request[r].id = id /\ Known(id) /\ row.store = memories[id].store
        /\ id \in MemoryIds /\ UNCHANGED <<stores, history, mixed, unrecorded>>
    BY <1>1, <1>5, <1>6
  <2>7. new.store = memories[id].store /\ new \in Row /\ new.content = row.content /\ row \in Row /\ "reread" \in {"reread", "record"}
    BY <1>5, <2>3
  <2> HIDE DEF new, row, id, k, known
  <2> QED BY <2>2, <2>4, <2>5, <2>6, <2>7, RowChanges
<1>7. CASE ~known
  <2>1. AtWork(r)'
    <3>1. id \in mixed \/ ~Live(row.store)
      BY <1>1, <1>2, <1>7 DEF AtWork
    <3>2. request'[r].id = id /\ request'[r].row = row
      BY <1>4 DEF Sets
    <3> QED BY <3>1, <3>2, <1>1 DEF AtWork, Live
  <2>2. UNCHANGED memories
    BY <1>1, <1>7
  <2>3. k.pc # "insert" /\ "reread" \in {"reread", "record"} /\ known \in BOOLEAN /\ ~Known(id)
    BY <1>1, <1>3, <1>7
  <2> HIDE DEF known
  <2> QED BY <1>1, <1>2, <1>4, <1>5, <2>1, <2>2, <2>3, QuietOn
<1> QED BY <1>6, <1>7

LEMMA WriteRowKeeps ==
  ASSUME MemoryInv, NEW r \in Requests, WriteRow(r)
  PROVE  MemoryInv'
<1> DEFINE id == request[r].id
           k == request[r]
           known == Known(id)
           row == Patched(r)
           taken == RowsAt(row.store, row.path) \ {id} # {}
<1>1. /\ k.ask.op = "update" /\ k.pc = "write" /\ UNCHANGED <<stores, history, mixed, unrecorded>>
      /\ memories' = (IF known /\ ~taken THEN [memories EXCEPT ![id] = row] ELSE memories)
      /\ IF known /\ taken THEN Goto(r, "refused") ELSE PatchesIt(r, row, known)
  BY DEF WriteRow, At, PatchesIt, Goto
<1>2. RequestsTyped /\ MemoryTypeOK /\ WorkInv(r) /\ AtWork(r) /\ Works(r) /\ Between(r) /\ unrecorded \in SUBSET MemoryIds
  BY <1>1 DEF MemoryInv, TablesInv, MemoryTypeOK, Works, Working, Between
<1>3. k.row \in Row /\ id \in MemoryIds /\ ~k.wrote /\ (known => k.row.store = memories[id].store) /\ ValidUpdate(k.ask)
  BY <1>1, <1>2 DEF WorkInv
<1>4. row \in Row /\ row.store = k.row.store
  BY <1>3, PatchedRow
<1>5. known \in BOOLEAN
  BY DEF Known
<1>6. CASE known /\ taken
  <2>1. Goto(r, "refused") /\ UNCHANGED memories /\ "refused" \in RequestSteps /\ "refused" \in Ended
    BY <1>1, <1>6 DEF RequestSteps, Ended
  <2>2. Sets(r, "refused", request[r].id, request[r].row, request[r].wrote)
    BY <1>2, <2>1, GotoSets
  <2> QED BY <1>1, <1>2, <1>3, <2>1, <2>2, QuietEnd
<1>7. ~(known /\ taken) => Sets(r, "record", id, row, known)
  <2> HIDE DEF known, row, taken
  <2> QED BY <1>1, <1>2, <1>4, <1>5, PatchesSets
<1>8. CASE known /\ ~taken
  <2>1. memories' = [memories EXCEPT ![id] = row]
    BY <1>1, <1>8
  <2>2. \A j \in DOMAIN memories \ {id} : memories[j].store # row.store \/ memories[j].path # row.path
    BY <1>8 DEF RowsAt
  <2>3. Sets(r, "record", id, row, TRUE)
    <3>1. known = TRUE
      BY <1>8, <1>5
    <3> QED BY <1>7, <1>8, <3>1
  <2>4. request[r].pc = "write" /\ request[r].ask.op = "update" /\ request[r].id = id /\ Known(id)
        /\ row.store = memories[id].store /\ "record" \in {"reread", "record"}
    BY <1>1, <1>3, <1>4, <1>8
  <2> HIDE DEF row, id, k, known
  <2> QED BY <1>1, <1>3, <1>4, <2>1, <2>2, <2>3, <2>4, RowChanges
<1>9. CASE ~known
  <2>1. AtWork(r)'
    <3>1. id \in mixed \/ ~Live(row.store)
      BY <1>1, <1>2, <1>4, <1>9 DEF AtWork
    <3>2. request'[r].id = id /\ request'[r].row = row
      BY <1>7, <1>9 DEF Sets
    <3> HIDE DEF row
    <3> QED BY <3>1, <3>2, <1>1 DEF AtWork, Live
  <2>2. UNCHANGED memories
    BY <1>1, <1>9
  <2>3. k.pc # "insert" /\ "record" \in {"reread", "record"} /\ Sets(r, "record", id, row, known)
    BY <1>1, <1>7, <1>9
  <2> HIDE DEF known, row
  <2> QED BY <1>1, <1>2, <1>3, <1>4, <1>5, <2>1, <2>2, <2>3, QuietOn
<1> QED BY <1>6, <1>8, <1>9

LEMMA DeleteRowKeeps ==
  ASSUME MemoryInv, NEW r \in Requests, DeleteRow(r)
  PROVE  MemoryInv'
<1> DEFINE k == request[r]
           t == request'[r]
<1>1. /\ k.ask.op = "delete" /\ k.pc = "remove" /\ UNCHANGED <<stores, history, mixed, unrecorded>>
      /\ memories' = [id \in DOMAIN memories \ {k.id} |-> memories[id]] /\ Goto(r, "done")
  BY DEF DeleteRow, At
<1>2. RequestsTyped /\ MemoryTypeOK /\ WorkInv(r) /\ AtWork(r) /\ FreshInv(r) /\ Works(r) /\ "done" \in RequestSteps
  BY <1>1 DEF MemoryInv, TablesInv, Works, Working, RequestSteps, Ended
<1>0. PICK x \in MemoryIds : x = k.id
  BY <1>2 DEF WorkInv
<1>3. Only(r) /\ t.pc = "done" /\ t.id = x /\ t.row = k.row /\ t.wrote = k.wrote /\ t.ask = k.ask
  BY <1>0, <1>1, <1>2, GotoSets DEF Sets, Only
<1>4. WellAsked(k.ask)
  BY <1>2 DEF WorkInv
<1>5. DOMAIN memories' = DOMAIN memories \ {x} /\ \A id \in DOMAIN memories \ {x} : memories'[id] = memories[id]
  BY <1>0, <1>1
<1>6. ~Works(r)' /\ (Inserted(r)' <=> Inserted(r))
  BY <1>0, <1>3 DEF Works, Working, Inserted
<1>7. Touches(r, x)
  BY <1>1, <1>3, <1>5 DEF Touches, Known
<1>8. Joins(r)
  <2>1. x \in Requests \ {r} => Inserted(x)
    BY <1>0 DEF MemoryInv, FreshInv
  <2> QED BY <1>3, <1>6, <2>1 DEF Joins
<1>9. MemoryTypeOK'
  <2>1. RequestsTyped' /\ DOMAIN memories' \subseteq MemoryIds
    BY <1>2, <1>3, <1>5 DEF Only, MemoryTypeOK
  <2>2. \A id \in DOMAIN memories' : memories'[id] \in Row /\ stores[memories'[id].store].there = "live"
    BY <1>2, <1>5 DEF MemoryTypeOK, Live
  <2>3. \A i, j \in DOMAIN memories' : i # j => memories'[i].store # memories'[j].store \/ memories'[i].path # memories'[j].path
    BY <1>2, <1>5 DEF MemoryTypeOK
  <2> QED BY <1>1, <1>2, <2>1, <2>2, <2>3, RowsTyped
<1>10. FreshInv(r)'
  BY <1>0, <1>1, <1>2, <1>3, <1>5, <1>6 DEF FreshInv, Only, Known
<1>11. WorkInv(r)'
  BY <1>1, <1>3, <1>4, <1>6 DEF WorkInv, WellAsked
<1>12. AtWork(r)' /\ RefusedInv(r)'
  BY <1>3, <1>6 DEF AtWork, RefusedInv
<1>13. ExactInv(x)'
  <2> SUFFICES ASSUME NEW n \in VersionsOf(x), IsLast(n, x), x \notin mixed \cup unrecorded
               PROVE  Says(n, x)' /\ history[n].op = "deleted"
    BY <1>1, VersionsStay
  <2>1. history[n].op = "deleted"
    BY <1>0, <1>1, <1>2 DEF MemoryInv, ExactInv, On
  <2>2. ~Known(x)'
    BY <1>3, <1>5 DEF Known
  <2> QED BY <2>1, <2>2, <1>1, <1>3 DEF Says
<1>14. ~Known(x)' /\ request'[r].pc # "remove" /\ request'[r].id = x
  BY <1>3, <1>5 DEF Known
<1> HIDE DEF t, k
<1>15. request[r].id = x
  BY <1>0 DEF k
<1> QED BY <1>2, <1>7, <1>8, <1>9, <1>10, <1>11, <1>12, <1>13, <1>14, <1>15, TouchKeeps

(***************************************************************************)
(* Steps that change the history.                                          *)
(***************************************************************************)
LEMMA RecordKeeps ==
  ASSUME MemoryInv, NEW r \in Requests, Record(r)
  PROVE  MemoryInv'
<1> DEFINE k == request[r]
           t == request'[r]
           row == k.row
           del == k.ask.op = "delete"
           pc == IF del THEN "remove" ELSE "reply"
<1>1. /\ k.pc = "record" /\ UNCHANGED <<stores, memories, mixed, unrecorded>>
      /\ IF Live(row.store) THEN history' = Append(history, Version(Operation(r), k.id, row)) /\ Goto(r, pc)
                            ELSE Goto(r, "refused") /\ UNCHANGED history
  BY DEF Record
<1>2. TablesInv /\ RequestsTyped /\ MemoryTypeOK /\ WorkInv(r) /\ AtWork(r) /\ FreshInv(r) /\ Works(r) /\ unrecorded \in SUBSET MemoryIds
  BY <1>1 DEF MemoryInv, TablesInv, MemoryTypeOK, Works, Working
<1>3. CASE ~Live(row.store)
  <2>1. Goto(r, "refused") /\ UNCHANGED history /\ "refused" \in RequestSteps /\ "refused" \in Ended
    BY <1>1, <1>3 DEF RequestSteps, Ended
  <2>2. Sets(r, "refused", request[r].id, request[r].row, request[r].wrote)
    BY <1>2, <2>1, GotoSets
  <2> QED BY <1>1, <1>2, <1>3, <2>1, <2>2, StoreGone, QuietEnd
<1>4. PICK x \in MemoryIds : x = k.id
  BY <1>2 DEF WorkInv
<1>5. CASE Live(row.store)
  <2> DEFINE op == Operation(r)
             v == Version(op, x, row)
  <2>0. PICK N : N = Len(history) + 1
    OBVIOUS
  <2>1. row \in Row /\ k.ask.op \in {"upsert", "update", "delete"} /\ (k.ask.op = "upsert" => k.wrote) /\ (del => ~k.wrote)
        /\ (x # r \/ Inserted(r)) /\ (Known(x) => row.store = memories[x].store) /\ WellAsked(k.ask)
        /\ \A n \in DOMAIN history : history[n].id = x => history[n].store = row.store
    BY <1>1, <1>2, <1>4 DEF WorkInv
  <2>2. op \in {"created", "modified", "deleted"} /\ (op = "deleted" <=> del)
    <3>1. CASE del
      BY <1>4, <2>1, <3>1 DEF Operation, Inserted
    <3>2. CASE ~del /\ k.id = r
      BY <3>2 DEF Operation
    <3>3. CASE ~del /\ k.id # r
      BY <3>3 DEF Operation
    <3> QED BY <3>1, <3>2, <3>3
  <2>3. v \in Versions /\ v.id = x /\ v.store = row.store /\ v.path = row.path /\ v.content = row.content /\ v.op = op
    <3> HIDE DEF op, row
    <3> QED BY <2>1, <2>2 DEF Versions, Version, Row
  <2>4. history \in Seq(Versions) /\ history' = Append(history, v)
    BY <1>1, <1>2, <1>4, <1>5 DEF TablesInv
  <2> HIDE DEF v, op
  <2>5. /\ history' \in Seq(Versions) /\ N \in Nat /\ DOMAIN history' = DOMAIN history \cup {N} /\ history'[N] = v
        /\ \A n \in DOMAIN history : n \in Nat /\ n < N /\ history'[n] = history[n]
    BY <2>0, <2>3, <2>4
  <2>6. Only(r) /\ t.pc = pc /\ t.id = x /\ t.row = row /\ t.wrote = k.wrote /\ t.ask = k.ask
    <3>1. Goto(r, pc) /\ pc \in RequestSteps
      BY <1>1, <1>5 DEF RequestSteps
    <3> HIDE DEF pc
    <3> QED BY <3>1, <1>2, <1>4, GotoSets DEF Sets, Only
  <2>7. Works(r)' /\ (Inserted(r)' <=> Inserted(r)) /\ On(r, x) /\ On(r, x)'
    BY <1>2, <1>4, <2>6 DEF Works, Working, Inserted, On
  <2>8. x \in Requests \ {r} => Inserted(x)
    BY <1>4 DEF MemoryInv, FreshInv
  <2>9. \A d \in Requests \ {r} : Works(d) /\ x = request[d].id => x \in mixed /\ row.store = request[d].row.store
    BY <1>2, <1>4 DEF MemoryInv, AloneInv
  <2>10. Joins(r)
    BY <1>1, <2>6, <2>7, <2>8, <2>9 DEF Joins
  <2>11. AloneInv'
    BY <1>1, <2>6, <2>10, AloneKept
  <2>12. VersionsOf(x)' = VersionsOf(x) \cup {N}
    BY <1>1, <1>5, <2>3, <2>5 DEF VersionsOf, Live
  <2>13. \A y \in MemoryIds \ {x} : Untouched(y) /\ Leaves(r, y)
    BY <1>1, <1>4, <2>3, <2>5, <2>6 DEF Untouched, VersionsOf, Live, Known, Leaves, On
  <2>14. ExactInv(x)'
    <3>1. IsLast(N, x)' /\ \A n : IsLast(n, x)' => n = N
      BY <2>5, <2>12 DEF IsLast, VersionsOf
    <3>2. ASSUME x \notin mixed, \A q \in Requests : On(q, x)' => Between(q)'
          PROVE  Says(N, x)'
      <4>1. ~del
        BY <3>2, <2>6, <2>7 DEF Between
      <4>2. Known(x) /\ memories[x].content = row.content /\ memories[x].path = row.path
        BY <4>1, <3>2, <1>1, <1>2, <1>4, <1>5 DEF AtWork
      <4> QED BY <4>1, <4>2, <1>1, <2>2, <2>3, <2>5 DEF Says, Known
    <3>3. ASSUME x \notin mixed, NEW q \in Requests, On(q, x)', request'[q].pc = "remove"
          PROVE  history'[N].op = "deleted"
      <4>1. CASE q = r
        BY <4>1, <3>3, <2>2, <2>3, <2>5, <2>6
      <4>2. CASE q # r
        BY <4>2, <3>3, <1>2, <1>4, <2>6, AloneOn DEF On, Works, Only
      <4> QED BY <4>1, <4>2
    <3>4. N \in VersionsOf(x)' /\ mixed' = mixed
      BY <1>1, <2>12
    <3> QED BY <3>1, <3>2, <3>3, <3>4 DEF ExactInv
  <2>15. \A y \in MemoryIds : ExactInv(y)'
    <3>1. ASSUME NEW y \in MemoryIds, y # x PROVE ExactInv(y)'
      BY <3>1, <1>1, <2>6, <2>13, ExactKept
    <3> QED BY <3>1, <2>14
  <2>16. ASSUME Known(x) PROVE Recorded(x)'
    <3>1. Recorded(x)
      BY <2>16 DEF MemoryInv, RowIsRecorded, Recorded, Known
    <3>2. CASE \E n \in VersionsOf(x) : history[n].redacted \/ history[n].content = memories[x].content
      <4>1. PICK n \in VersionsOf(x) : history[n].redacted \/ history[n].content = memories[x].content
        BY <3>2
      <4>2. n \in VersionsOf(x)' /\ history'[n] = history[n]
        BY <4>1, <2>5, <2>12 DEF VersionsOf
      <4> QED BY <4>1, <4>2, <1>1 DEF Recorded
    <3>3. CASE x \in unrecorded
      BY <3>3, <1>1 DEF Recorded
    <3>4. ASSUME NEW q \in Busy(x), request[q].wrote, request[q].pc \in {"reread", "record"}, request[q].row.content = memories[x].content
          PROVE  Recorded(x)'
      <4>1. CASE q = r
        BY <4>1, <3>4, <1>1, <2>3, <2>5, <2>12 DEF Recorded
      <4>2. CASE q # r
        <5>1. request'[q] = request[q] /\ q \in Busy(x)'
          BY <4>2, <3>4, <2>6 DEF Only, Busy
        <5> QED BY <5>1, <3>4, <1>1 DEF Recorded
      <4> QED BY <4>1, <4>2
    <3> QED BY <3>1, <3>2, <3>3, <3>4 DEF Recorded
  <2>17. RowIsRecorded'
    <3> SUFFICES ASSUME NEW y \in DOMAIN memories PROVE Recorded(y)'
      BY <1>1 DEF RowIsRecorded, Recorded
    <3>1. y \in MemoryIds /\ Known(y)
      BY <1>2 DEF MemoryTypeOK, Known
    <3>2. CASE y = x
      BY <3>1, <3>2, <2>16
    <3>3. CASE y # x
      BY <3>1, <3>3, <1>1, <2>6, <2>13, RecordedKept
    <3> QED BY <3>2, <3>3
  <2>18. TablesInv'
    <3>1. RequestsTyped'
      BY <2>6 DEF Only
    <3>2. MemoryTypeOK'
      <4>1. \A n \in DOMAIN history' : history'[n] \in Versions
        BY <1>2, <2>3, <2>5 DEF MemoryTypeOK, Versions
      <4> QED BY <3>1, <4>1, <1>1, <1>2, TypesKept DEF MemoryTypeOK, Live, Versions
    <3>3. ASSUME NEW n \in DOMAIN history'
          PROVE  /\ stores[history'[n].store].there # "never"
                 /\ history'[n].id \in DOMAIN memories => history'[n].store = memories[history'[n].id].store
                 /\ \A i \in DOMAIN history' : history'[i].id = history'[n].id => history'[i].store = history'[n].store
      <4>1. CASE n = N
        BY <4>1, <1>5, <2>1, <2>3, <2>5 DEF Live, Known
      <4>2. CASE n \in DOMAIN history
        <5>1. history'[n] = history[n]
          BY <4>2, <2>5
        <5>2. /\ stores[history[n].store].there # "never"
              /\ history[n].id \in DOMAIN memories => history[n].store = memories[history[n].id].store
              /\ \A i \in DOMAIN history : history[i].id = history[n].id => history[i].store = history[n].store
          BY <4>2, <1>2 DEF TablesInv, Known
        <5>3. v.id = history[n].id => v.store = history[n].store
          BY <4>2, <2>1, <2>3
        <5> QED BY <5>1, <5>2, <5>3, <2>5
      <4> QED BY <4>1, <4>2, <2>5
    <3> QED BY <3>1, <3>2, <3>3, <1>1, <2>5 DEF TablesInv, Known
  <2>19. ASSUME NEW q \in Requests \ {r}
         PROVE  FreshInv(q)' /\ WorkInv(q)' /\ AtWork(q)' /\ RefusedInv(q)'
    <3>1. request'[q] = request[q]
      BY <2>6 DEF Only
    <3>2. FreshInv(q) /\ WorkInv(q) /\ AtWork(q) /\ RefusedInv(q)
      BY DEF MemoryInv
    <3>3. (Inserted(q)' <=> Inserted(q)) /\ (Works(q)' <=> Works(q))
      BY <3>1 DEF Inserted, Works
    <3>4. FreshInv(q)'
      <4> SUFFICES ASSUME ~Inserted(q) PROVE FreshInv(q)'
        BY <3>3 DEF FreshInv
      <4>1. q # x
        BY <2>8
      <4>2. ~Known(q)' /\ \A n \in DOMAIN history' : history'[n].id # q
        BY <4>1, <3>2, <1>1, <2>3, <2>5 DEF FreshInv, Known
      <4>3. ASSUME NEW d \in Requests \ {q} PROVE request'[d].id # q
        BY <4>1, <3>2, <2>6 DEF FreshInv, Only
      <4> QED BY <4>2, <4>3 DEF FreshInv
    <3>5. WorkInv(q)'
      <4>1. Works(q) /\ request[q].pc # "insert" =>
              \A n \in DOMAIN history' : history'[n].id = request[q].id => history'[n].store = request[q].row.store
        BY <3>2, <2>3, <2>5, <2>9 DEF WorkInv
      <4> QED BY <4>1, <3>1, <3>2, <3>3, <1>1 DEF WorkInv, Known
    <3>6. AtWork(q)' /\ RefusedInv(q)'
      BY <3>1, <3>2, <3>3, <1>1 DEF AtWork, RefusedInv, Known, Live
    <3> QED BY <3>4, <3>5, <3>6
  <2>20. FreshInv(r)'
    <3> SUFFICES ASSUME ~Inserted(r) PROVE FreshInv(r)'
      BY <2>7 DEF FreshInv
    <3> QED BY <1>1, <1>2, <2>1, <2>3, <2>5, <2>6 DEF FreshInv, Only, Known
  <2>21. WorkInv(r)'
    <3>1. (\A n \in DOMAIN history' : history'[n].id = x => history'[n].store = row.store) /\ stores[row.store].there # "never"
      BY <1>5, <2>1, <2>3, <2>5 DEF Live
    <3> HIDE DEF t, k, row
    <3> QED BY <1>1, <2>1, <2>6, <2>7, <3>1 DEF WorkInv, Known, t, WellAsked
  <2>22. AtWork(r)' /\ RefusedInv(r)'
    <3>1. x \notin mixed => Known(x)
      BY <1>1, <1>2, <1>4, <1>5 DEF AtWork
    <3> QED BY <3>1, <1>1, <2>6 DEF AtWork, RefusedInv, Known, Live
  <2> HIDE DEF t, k, row
  <2> QED BY <2>11, <2>15, <2>17, <2>18, <2>19, <2>20, <2>21, <2>22 DEF MemoryInv
<1> QED BY <1>3, <1>5

\* A redaction takes a version in hand.
RedactsIt(r, id) == request' = [request EXCEPT ![r] = [@ EXCEPT !.pc = "check", !.id = id, !.wrote = TRUE]]
LEMMA RedactSets ==
  ASSUME RequestsTyped, NEW r \in Requests, NEW id \in MemoryIds, RedactsIt(r, id)
  PROVE  Sets(r, "check", id, request[r].row, TRUE)
<1> DEFINE old == request[r]
           new == [old EXCEPT !.pc = "check", !.id = id, !.wrote = TRUE]
<1>1. request' = [request EXCEPT ![r] = new]
  BY DEF RedactsIt, RequestsTyped
<1>2. ASSUME NEW asks, old \in RequestRows(asks)
      PROVE  new \in RequestRows(asks) /\ new.ask = old.ask /\ new.pc = "check" /\ new.id = id /\ new.row = old.row
             /\ new.wrote = TRUE
  <2> HIDE DEF old
  <2> QED BY <1>2 DEF RequestRows, RequestSteps
<1>3. PICK asks : old \in RequestRows(asks)
  BY DEF RequestsTyped
<1> HIDE DEF new
<1>4. Only(r) /\ request'[r] = new
  BY <1>1, <1>2, Changed
<1> QED BY <1>2, <1>3, <1>4 DEF Sets

LEMMA RedactKeeps ==
  ASSUME MemoryInv, NEW r \in Requests, Redact(r)
  PROVE  MemoryInv'
<1> DEFINE k == request[r]
           t == request'[r]
           ok == k.ask.n \in DOMAIN history /\ Live(history[k.ask.n].store)
<1>1. /\ k.ask.op = "redact" /\ k.pc = "new" /\ UNCHANGED <<stores, memories, mixed, unrecorded>>
      /\ IF ok
         THEN /\ history' = [history EXCEPT ![k.ask.n] = [@ EXCEPT !.path = Keep, !.content = Keep, !.redacted = TRUE]]
              /\ RedactsIt(r, history[k.ask.n].id)
         ELSE Goto(r, "refused") /\ UNCHANGED history
  BY DEF Redact, At, RedactsIt
<1>2. TablesInv /\ RequestsTyped /\ MemoryTypeOK /\ WorkInv(r) /\ FreshInv(r) /\ ~Works(r) /\ ~Inserted(r)
  BY <1>1 DEF MemoryInv, TablesInv, Works, Working, Inserted
<1>3. CASE ~ok
  BY <1>1, <1>3, RefusedAtStart
<1>4. CASE ok
  <2>1. PICK n \in DOMAIN history : n = k.ask.n
    BY <1>4
  <2> DEFINE old == history[n]
             new == [old EXCEPT !.path = Keep, !.content = Keep, !.redacted = TRUE]
  <2>2. history \in Seq(Versions) /\ old \in Versions
    BY <1>2 DEF TablesInv, MemoryTypeOK, Versions
  <2>3. history' = [history EXCEPT ![n] = new]
    BY <1>1, <1>4, <2>1, <2>2
  <2>4. new \in Versions /\ new.id = old.id /\ new.store = old.store /\ new.op = old.op /\ new.redacted = TRUE
    <3> HIDE DEF old
    <3> QED BY <2>2 DEF Versions
  <2>5. PICK x \in MemoryIds : x = old.id
    BY <2>2 DEF Versions
  <2> HIDE DEF new
  <2>6. /\ history' \in Seq(Versions) /\ DOMAIN history' = DOMAIN history /\ history'[n].redacted
        /\ \A i \in DOMAIN history : /\ history'[i].id = history[i].id /\ history'[i].store = history[i].store
                                     /\ history'[i].op = history[i].op /\ (history'[i] = history[i] \/ i = n)
    <3>1. history' \in Seq(Versions) /\ DOMAIN history' = DOMAIN history
      BY <2>2, <2>3, <2>4
    <3>2. \A i \in DOMAIN history : history'[i] = IF i = n THEN new ELSE history[i]
      BY <2>3
    <3> QED BY <3>1, <3>2, <2>4
  <2>7. Only(r) /\ t.pc = "check" /\ t.id = x /\ t.wrote = TRUE /\ t.ask = k.ask
    BY <1>1, <1>2, <1>4, <2>1, <2>5, RedactSets DEF Sets, Only
  <2>8. ~Works(r)' /\ ~Inserted(r)'
    BY <1>1, <2>7 DEF Works, Working, Inserted
  <2>9. x \in Requests => Inserted(x)
    BY <2>5 DEF MemoryInv, FreshInv
  <2>10. AloneInv'
    <3>1. Joins(r)
      BY <1>2, <2>7, <2>8, <2>9 DEF Joins
    <3> QED BY <3>1, <1>1, <2>7, AloneKept
  <2>11. \A id : VersionsOf(id)' = VersionsOf(id) /\ Known(id)' = Known(id)
    BY <1>1, <2>6 DEF VersionsOf, Live, Known
  <2>12. ASSUME NEW q \in Requests, NEW id
         PROVE  (On(q, id)' => On(q, id) /\ q # r) /\ (On(q, id) => On(q, id)' /\ request'[q] = request[q])
    BY <1>2, <2>7, <2>8 DEF On, Works, Only
  <2>13. ASSUME NEW id \in MemoryIds PROVE ExactInv(id)'
    <3>1. ExactInv(id) /\ \A i : IsLast(i, id)' <=> IsLast(i, id)
      BY <2>11 DEF MemoryInv, IsLast
    <3>2. VersionsOf(id)' # {} => \E i \in VersionsOf(id)' : IsLast(i, id)'
      BY <3>1, <2>11 DEF ExactInv
    <3>3. ASSUME id \notin mixed' \cup unrecorded', NEW i \in VersionsOf(id)', IsLast(i, id)'
          PROVE  /\ (\A q \in Requests : On(q, id)' => Between(q)') => Says(i, id)'
                 /\ (\E q \in Requests : On(q, id)' /\ request'[q].pc = "remove") => history'[i].op = "deleted"
      <4>1. i \in VersionsOf(id) /\ IsLast(i, id) /\ id \notin mixed \cup unrecorded /\ i \in DOMAIN history
        BY <3>1, <3>3, <1>1, <2>11 DEF VersionsOf
      <4>2. ASSUME \A q \in Requests : On(q, id)' => Between(q)' PROVE Says(i, id)'
        <5>1. \A q \in Requests : On(q, id) => Between(q)
          BY <4>2, <2>12 DEF Between
        <5>2. Says(i, id)
          BY <5>1, <4>1, <3>1 DEF ExactInv
        <5>3. CASE i = n
          BY <5>3, <2>6 DEF Says
        <5>4. CASE history'[i] = history[i]
          BY <5>2, <5>4, <1>1, <2>11 DEF Says
        <5> QED BY <5>3, <5>4, <4>1, <2>6
      <4>3. ASSUME NEW q \in Requests, On(q, id)', request'[q].pc = "remove" PROVE history'[i].op = "deleted"
        <5>1. On(q, id) /\ request[q].pc = "remove"
          BY <4>3, <2>12
        <5> QED BY <5>1, <4>1, <3>1, <2>6 DEF ExactInv
      <4> QED BY <4>2, <4>3
    <3> QED BY <3>2, <3>3 DEF ExactInv
  <2>14. RowIsRecorded'
    <3> SUFFICES ASSUME NEW id \in DOMAIN memories PROVE Recorded(id)'
      BY <1>1 DEF RowIsRecorded, Recorded
    <3>1. Recorded(id)
      BY DEF MemoryInv, RowIsRecorded, Recorded
    <3>2. ASSUME NEW i \in VersionsOf(id), history[i].redacted \/ history[i].content = memories[id].content
          PROVE  Recorded(id)'
      <4>1. i \in VersionsOf(id)' /\ (history'[i].redacted \/ history'[i].content = memories'[id].content)
        BY <3>2, <1>1, <2>6, <2>11 DEF VersionsOf
      <4> QED BY <4>1 DEF Recorded
    <3>3. CASE id \in unrecorded
      BY <3>3, <1>1 DEF Recorded
    <3>4. ASSUME NEW q \in Busy(id), request[q].wrote, request[q].pc \in {"reread", "record"}, request[q].row.content = memories[id].content
          PROVE  Recorded(id)'
      <4>1. q \in Requests /\ request'[q] = request[q]
        BY <3>4, <1>1, <2>7 DEF Busy, Only
      <4>2. q \in Busy(id)'
        BY <3>4, <4>1 DEF Busy
      <4> QED BY <4>1, <4>2, <3>4, <1>1 DEF Recorded
    <3> QED BY <3>1, <3>2, <3>3, <3>4 DEF Recorded
  <2>15. TablesInv'
    <3>1. RequestsTyped' /\ \A i \in DOMAIN history' : history'[i] \in Versions
      BY <1>2, <2>2, <2>3, <2>4, <2>7 DEF Only, MemoryTypeOK, Versions
    <3>2. MemoryTypeOK'
      BY <3>1, <1>1, <1>2, TypesKept DEF MemoryTypeOK, Live, Versions
    <3>3. \A i \in DOMAIN history' :
            /\ stores[history'[i].store].there # "never"
            /\ history'[i].id \in DOMAIN memories => history'[i].store = memories[history'[i].id].store
            /\ \A j \in DOMAIN history' : history'[j].id = history'[i].id => history'[j].store = history'[i].store
      BY <1>2, <2>6 DEF TablesInv, Known
    <3> QED BY <3>1, <3>2, <3>3, <1>1, <2>6 DEF TablesInv, Known
  <2>16. ASSUME NEW q \in Requests \ {r}
         PROVE  FreshInv(q)' /\ WorkInv(q)' /\ AtWork(q)' /\ RefusedInv(q)'
    <3>1. request'[q] = request[q]
      BY <2>7 DEF Only
    <3>2. FreshInv(q) /\ WorkInv(q) /\ AtWork(q) /\ RefusedInv(q)
      BY DEF MemoryInv
    <3>3. (Inserted(q)' <=> Inserted(q)) /\ (Works(q)' <=> Works(q))
      BY <3>1 DEF Inserted, Works
    <3>4. FreshInv(q)'
      <4> SUFFICES ASSUME ~Inserted(q) PROVE FreshInv(q)'
        BY <3>3 DEF FreshInv
      <4>1. ~Known(q)' /\ \A i \in DOMAIN history' : history'[i].id # q
        BY <3>2, <2>6, <2>11 DEF FreshInv
      <4>2. ASSUME NEW d \in Requests \ {q} PROVE request'[d].id # q
        BY <3>2, <2>7, <2>9 DEF FreshInv, Only
      <4> QED BY <4>1, <4>2 DEF FreshInv
    <3>5. WorkInv(q)'
      <4>1. \A i \in DOMAIN history' : history'[i].id = history[i].id /\ history'[i].store = history[i].store /\ i \in DOMAIN history
        BY <2>6
      <4> QED BY <4>1, <3>1, <3>2, <3>3, <1>1 DEF WorkInv, Known
    <3>6. AtWork(q)' /\ RefusedInv(q)'
      BY <3>1, <3>2, <3>3, <1>1 DEF AtWork, RefusedInv, Known, Live
    <3> QED BY <3>4, <3>5, <3>6
  <2>17. FreshInv(r)'
    <3>1. ~Known(r)' /\ \A i \in DOMAIN history' : history'[i].id # r
      BY <1>2, <2>6, <2>11 DEF FreshInv
    <3> QED BY <3>1, <1>2, <2>7 DEF FreshInv, Only
  <2>18. WorkInv(r)'
    BY <1>1, <1>2, <2>7, <2>8 DEF WorkInv, WellAsked
  <2>19. AtWork(r)' /\ RefusedInv(r)'
    BY <2>7, <2>8 DEF AtWork, RefusedInv
  <2> QED BY <2>10, <2>13, <2>14, <2>15, <2>16, <2>17, <2>18, <2>19 DEF MemoryInv
<1> QED BY <1>3, <1>4

(***************************************************************************)
(* Steps that change the stores.                                           *)
(***************************************************************************)
\* A store comes, or goes with its memories.
StoreTypes == [Stores -> [there : {"never", "live", "deleted"}, name : Names \cup {Keep}, archived : BOOLEAN]]
Shifts ==
  /\ stores' \in StoreTypes /\ UNCHANGED <<history, mixed, unrecorded>>
  /\ \A s \in Stores : stores[s].there # "never" =>
       stores'[s].there = stores[s].there \/ (stores[s].there = "live" /\ stores'[s].there = "deleted")
  /\ DOMAIN memories' = {id \in DOMAIN memories : stores'[memories[id].store].there = "live"}
  /\ \A id \in DOMAIN memories' : memories'[id] = memories[id]

LEMMA ShiftKeeps ==
  ASSUME MemoryInv, NEW r \in Requests, request[r].pc = "new", NEW pc \in {"done", "refused"}, Goto(r, pc), Shifts,
         request[r].ask.op \in {"createStore", "renameStore", "archiveStore", "deleteStore"}
  PROVE  MemoryInv'
<1> DEFINE k == request[r]
           t == request'[r]
<1>1. TablesInv /\ RequestsTyped /\ MemoryTypeOK /\ WorkInv(r) /\ FreshInv(r) /\ ~Works(r) /\ ~Inserted(r)
  BY DEF MemoryInv, TablesInv, Works, Working, Inserted
<1>2. Only(r) /\ t.pc = pc /\ t.id = k.id /\ t.wrote = k.wrote /\ t.ask = k.ask
  BY <1>1, GotoSets DEF Sets, Only, RequestSteps, Ended
<1>3. ~k.wrote /\ WellAsked(k.ask) /\ ~Works(r)' /\ ~Inserted(r)'
  BY <1>1, <1>2 DEF WorkInv, Works, Working, Inserted
<1>4. AloneInv'
  <2>1. k.id \in Requests \ {r} => Inserted(k.id)
    BY DEF MemoryInv, FreshInv
  <2>2. Joins(r)
    BY <2>1, <1>1, <1>2, <1>3 DEF Joins
  <2> QED BY <2>2, <1>2, AloneKept DEF Shifts
<1>5. \A n \in DOMAIN history : history[n].store \in Stores /\ stores[history[n].store].there # "never"
  BY <1>1 DEF TablesInv, MemoryTypeOK
<1>6. ASSUME NEW id, NEW n \in DOMAIN history, history[n].id = id, Live(history[n].store)'
      PROVE  Untouched(id)
  <2> DEFINE s == history[n].store
  <2>1. \A i \in DOMAIN history : history[i].id = id => history[i].store = s
    BY <1>1, <1>6 DEF TablesInv
  <2>2. stores'[s].there = "live" /\ stores[s].there = "live"
    BY <1>5, <1>6 DEF Live, Shifts
  <2>3. VersionsOf(id)' = VersionsOf(id)
    BY <2>1, <2>2 DEF VersionsOf, Live, Shifts
  <2>4. Known(id) => memories[id].store = s
    BY <1>1, <1>6 DEF TablesInv
  <2>5. Known(id)' = Known(id) /\ (Known(id) => memories'[id] = memories[id])
    BY <2>2, <2>4 DEF Known, Shifts
  <2> QED BY <2>3, <2>5 DEF Untouched, Shifts
<1>7. \A id \in MemoryIds : Leaves(r, id)
  BY <1>1, <1>3 DEF Leaves, On
<1>8. ASSUME NEW id \in MemoryIds PROVE ExactInv(id)'
  <2>1. CASE VersionsOf(id)' = {}
    BY <2>1 DEF ExactInv
  <2>2. CASE VersionsOf(id)' # {}
    <3>1. PICK n : n \in VersionsOf(id)'
      BY <2>2
    <3>2. n \in DOMAIN history /\ history[n].id = id /\ Live(history[n].store)'
      BY <3>1 DEF VersionsOf, Shifts
    <3> QED BY <3>2, <1>2, <1>6, <1>7, ExactKept DEF Shifts
  <2> QED BY <2>1, <2>2
<1>9. RowIsRecorded'
  <2> SUFFICES ASSUME NEW id \in DOMAIN memories' PROVE Recorded(id)'
    BY DEF RowIsRecorded, Recorded
  <2>1. Known(id) /\ id \in MemoryIds /\ memories'[id] = memories[id] /\ stores'[memories[id].store].there = "live"
    BY <1>1 DEF Shifts, Known, MemoryTypeOK
  <2>2. Untouched(id)
    <3>1. stores[memories[id].store].there = "live"
      BY <2>1, <1>1 DEF MemoryTypeOK, Known, Live
    <3>2. \A i \in DOMAIN history : history[i].id = id => history[i].store = memories[id].store
      BY <2>1, <1>1 DEF TablesInv
    <3>3. VersionsOf(id)' = VersionsOf(id)
      BY <2>1, <3>1, <3>2 DEF VersionsOf, Live, Shifts
    <3> QED BY <2>1, <3>3 DEF Untouched, Shifts, Known
  <2> QED BY <2>1, <2>2, <1>2, <1>7, RecordedKept DEF Shifts
<1>10. TablesInv'
  <2>1. RequestsTyped' /\ history' = history
    BY <1>2 DEF Only, Shifts
  <2>2. \A id \in DOMAIN memories' : memories'[id] \in Row /\ stores'[memories'[id].store].there = "live" /\ id \in DOMAIN memories
    BY <1>1 DEF Shifts, MemoryTypeOK
  <2>3. MemoryTypeOK'
    BY <2>1, <2>2, <1>1, TypesKept DEF MemoryTypeOK, Live, Shifts, StoreTypes
  <2>4. \A n \in DOMAIN history :
          /\ stores'[history[n].store].there # "never"
          /\ history[n].id \in DOMAIN memories' => history[n].store = memories'[history[n].id].store
          /\ \A i \in DOMAIN history : history[i].id = history[n].id => history[i].store = history[n].store
    BY <1>1, <1>5, <2>2 DEF TablesInv, Known, Shifts
  <2> QED BY <1>1, <2>1, <2>3, <2>4 DEF TablesInv, Known
<1>11. \A id : id \in DOMAIN memories' => id \in DOMAIN memories /\ memories'[id] = memories[id]
  BY DEF Shifts
<1>12. ASSUME NEW q \in Requests \ {r}
       PROVE  FreshInv(q)' /\ WorkInv(q)' /\ AtWork(q)' /\ RefusedInv(q)'
  <2>1. request'[q] = request[q] /\ history' = history /\ mixed' = mixed
    BY <1>2 DEF Only, Shifts
  <2>2. FreshInv(q) /\ WorkInv(q) /\ AtWork(q) /\ RefusedInv(q)
    BY DEF MemoryInv
  <2>3. (Inserted(q)' <=> Inserted(q)) /\ (Works(q)' <=> Works(q))
    BY <2>1 DEF Inserted, Works
  <2>4. FreshInv(q)'
    BY <2>1, <2>2, <2>3, <1>2, <1>11 DEF FreshInv, Known, Only
  <2>5. Works(q) => request[q].row.store \in Stores
    BY <2>2 DEF WorkInv, Row
  <2>6. \A s \in Stores : stores[s].there # "never" => stores'[s].there # "never"
    BY DEF Shifts
  <2>7. WorkInv(q)'
    BY <2>1, <2>2, <2>3, <2>5, <2>6, <1>11 DEF WorkInv, Known
  <2>8. AtWork(q)'
    <3> SUFFICES ASSUME Works(q), request[q].pc # "insert", request[q].id \notin mixed, stores'[request[q].row.store].there = "live"
                 PROVE  AtWork(q)'
      BY <2>1, <2>3 DEF AtWork, Live
    <3> DEFINE s == request[q].row.store
               id == request[q].id
    <3>1. stores[s].there = "live"
      BY <2>2, <2>5 DEF WorkInv, Shifts
    <3>2. id \in DOMAIN memories /\ memories[id].store = s
      BY <3>1, <2>2 DEF AtWork, WorkInv, Live, Known
    <3>3. id \in DOMAIN memories' /\ memories'[id] = memories[id]
      BY <3>2 DEF Shifts
    <3> QED BY <3>1, <3>3, <2>1, <2>2, <2>3 DEF AtWork, Known, Live
  <2>9. RefusedInv(q)'
    <3>1. \A s \in Stores : stores[s].there = "deleted" => stores'[s].there = "deleted"
      BY DEF Shifts
    <3> QED BY <3>1, <2>1, <2>2 DEF RefusedInv
  <2> QED BY <2>4, <2>7, <2>8, <2>9
<1>13. FreshInv(r)'
  BY <1>1, <1>2, <1>11 DEF FreshInv, Only, Known, Shifts
<1>14. WorkInv(r)' /\ AtWork(r)' /\ RefusedInv(r)'
  BY <1>2, <1>3 DEF WorkInv, AtWork, RefusedInv, WellAsked
<1> HIDE DEF k, t
<1> QED BY <1>4, <1>8, <1>9, <1>10, <1>12, <1>13, <1>14 DEF MemoryInv

\* A statement on one store that leaves the memories alone.
LEMMA StoreChangeKeeps ==
  ASSUME MemoryInv, NEW r \in Requests, NEW op \in {"createStore", "renameStore", "archiveStore"}, NEW ok \in BOOLEAN,
         NEW row \in [there : {"live"}, name : Names \cup {Keep}, archived : BOOLEAN], StoreChange(r, op, ok, row),
         ok => stores[request[r].ask.store].there # "deleted"
  PROVE  MemoryInv'
<1> DEFINE pc == IF ok THEN "done" ELSE "refused"
<1>1. /\ request[r].ask.op = op /\ request[r].pc = "new" /\ Goto(r, pc) /\ UNCHANGED <<memories, history, mixed, unrecorded>>
      /\ stores' = (IF ok THEN [stores EXCEPT ![request[r].ask.store] = row] ELSE stores)
  BY DEF StoreChange, At
<1>2. request[r].ask.store \in Stores /\ MemoryTypeOK
  BY <1>1 DEF MemoryInv, TablesInv, WorkInv, WellAsked
<1>3. /\ stores' \in StoreTypes
      /\ \A s \in Stores : stores[s].there # "never" => stores'[s].there = stores[s].there
      /\ \A s \in Stores : stores[s].there = "live" => stores'[s].there = "live"
  <2>1. stores \in StoreTypes /\ row \in [there : {"never", "live", "deleted"}, name : Names \cup {Keep}, archived : BOOLEAN]
    BY <1>2 DEF MemoryTypeOK, StoreTypes
  <2>2. stores' \in StoreTypes
    BY <1>1, <1>2, <2>1 DEF StoreTypes
  <2>3. \A s \in Stores : stores'[s] = stores[s] \/ (s = request[r].ask.store /\ stores'[s] = row /\ ok)
    BY <1>1, <1>2, <2>1 DEF StoreTypes
  <2>4. row.there = "live" /\ \A s \in Stores : stores[s].there \in {"never", "live", "deleted"}
    BY <2>1 DEF StoreTypes
  <2> QED BY <2>2, <2>3, <2>4
<1>4. Shifts
  BY <1>1, <1>2, <1>3 DEF Shifts, MemoryTypeOK, Live, Row
<1>5. pc \in {"done", "refused"}
  OBVIOUS
<1> HIDE DEF pc
<1> QED BY <1>1, <1>4, <1>5, ShiftKeeps

LEMMA CreateStoreKeeps ==
  ASSUME MemoryInv, NEW r \in Requests, CreateStore(r)
  PROVE  MemoryInv'
<1> DEFINE ask == request[r].ask
           ok == Named(ask) /\ NameFree(ask.store, ask.name)
           row == [there |-> "live", name |-> ask.name, archived |-> FALSE]
<1>1. StoreChange(r, "createStore", ok, row) /\ (ask.op = "createStore" => stores[ask.store].there = "never")
  BY DEF CreateStore
<1>2. ok \in BOOLEAN /\ ask.op = "createStore" /\ request[r].pc = "new"
  BY <1>1 DEF StoreChange, At, Named
<1>3. CASE ok
  <2>1. row \in [there : {"live"}, name : Names \cup {Keep}, archived : BOOLEAN]
    BY <1>3 DEF Named
  <2> HIDE DEF ok, row
  <2> QED BY <1>1, <1>2, <2>1, StoreChangeKeeps
<1>4. CASE ~ok
  BY <1>1, <1>2, <1>4, RefusedAtStart DEF StoreChange
<1> QED BY <1>3, <1>4

LEMMA RenameStoreKeeps ==
  ASSUME MemoryInv, NEW r \in Requests, RenameStore(r)
  PROVE  MemoryInv'
<1> DEFINE ask == request[r].ask
           s == ask.store
           ok == Named(ask) /\ Live(s) /\ ~stores[s].archived /\ NameFree(s, ask.name)
           row == [stores[s] EXCEPT !.name = ask.name]
<1>1. StoreChange(r, "renameStore", ok, row)
  BY DEF RenameStore
<1>2. ok \in BOOLEAN /\ ask.op = "renameStore" /\ request[r].pc = "new" /\ s \in Stores
  BY <1>1 DEF StoreChange, At, Named, MemoryInv, WorkInv, WellAsked
<1>3. CASE ok
  <2> DEFINE old == stores[s]
             name == ask.name
  <2>1. old \in [there : {"live"}, name : Names \cup {Keep}, archived : BOOLEAN] /\ name \in Names
    BY <1>2, <1>3 DEF Named, Live, MemoryInv, TablesInv, MemoryTypeOK
  <2>2. row \in [there : {"live"}, name : Names \cup {Keep}, archived : BOOLEAN]
    <3> HIDE DEF old, name
    <3> SUFFICES [old EXCEPT !.name = name] \in [there : {"live"}, name : Names \cup {Keep}, archived : BOOLEAN]
      BY DEF old, name
    <3> QED BY <2>1
  <2>3. stores[s].there # "deleted"
    BY <1>3 DEF Live
  <2> HIDE DEF ok, row
  <2> QED BY <1>1, <1>2, <2>2, <2>3, StoreChangeKeeps
<1>4. CASE ~ok
  BY <1>1, <1>2, <1>4, RefusedAtStart DEF StoreChange
<1> QED BY <1>3, <1>4

LEMMA ArchiveStoreKeeps ==
  ASSUME MemoryInv, NEW r \in Requests, ArchiveStore(r)
  PROVE  MemoryInv'
<1> DEFINE s == request[r].ask.store
           ok == Live(s) /\ ~stores[s].archived
           row == [stores[s] EXCEPT !.archived = TRUE]
<1>1. StoreChange(r, "archiveStore", ok, row)
  BY DEF ArchiveStore
<1>2. ok \in BOOLEAN /\ request[r].ask.op = "archiveStore" /\ request[r].pc = "new" /\ s \in Stores
  BY <1>1 DEF StoreChange, At, Live, MemoryInv, WorkInv, WellAsked
<1>3. CASE ok
  <2> DEFINE old == stores[s]
  <2>1. old \in [there : {"live"}, name : Names \cup {Keep}, archived : BOOLEAN]
    BY <1>2, <1>3 DEF Live, MemoryInv, TablesInv, MemoryTypeOK
  <2>2. row \in [there : {"live"}, name : Names \cup {Keep}, archived : BOOLEAN]
    <3> HIDE DEF old
    <3> SUFFICES [old EXCEPT !.archived = TRUE] \in [there : {"live"}, name : Names \cup {Keep}, archived : BOOLEAN]
      BY DEF old
    <3> QED BY <2>1
  <2>3. stores[s].there # "deleted"
    BY <1>3 DEF Live
  <2> HIDE DEF ok, row
  <2> QED BY <1>1, <1>2, <2>2, <2>3, StoreChangeKeeps
<1>4. CASE ~ok
  BY <1>1, <1>2, <1>4, RefusedAtStart DEF StoreChange
<1> QED BY <1>3, <1>4

LEMMA DeleteStoreKeeps ==
  ASSUME MemoryInv, NEW r \in Requests, DeleteStore(r)
  PROVE  MemoryInv'
<1> DEFINE s == request[r].ask.store
<1>1. /\ request[r].ask.op = "deleteStore" /\ request[r].pc = "new" /\ Goto(r, "done") /\ UNCHANGED <<history, mixed, unrecorded>>
      /\ stores' = (IF Live(s) THEN [stores EXCEPT ![s].there = "deleted"] ELSE stores)
      /\ memories' = [id \in {id \in DOMAIN memories : memories[id].store # s} |-> memories[id]]
  BY DEF DeleteStore, At
<1>2. s \in Stores /\ MemoryTypeOK
  BY <1>1 DEF MemoryInv, TablesInv, WorkInv, WellAsked
<1>3. CASE Live(s)
  <2> DEFINE old == stores[s]
             new == [old EXCEPT !.there = "deleted"]
             all == [there : {"never", "live", "deleted"}, name : Names \cup {Keep}, archived : BOOLEAN]
  <2>1. stores' = [stores EXCEPT ![s] = new] /\ old \in all
    BY <1>1, <1>2, <1>3 DEF MemoryTypeOK
  <2>2. new \in all /\ new.there = "deleted"
    <3> HIDE DEF old
    <3> QED BY <2>1
  <2>3. stores \in [Stores -> all]
    BY <1>2 DEF MemoryTypeOK
  <2> HIDE DEF new, all
  <2>4. stores' \in [Stores -> all] /\ stores'[s].there = "deleted" /\ \A u \in Stores \ {s} : stores'[u] = stores[u]
    BY <1>2, <2>1, <2>2, <2>3
  <2>5. DOMAIN memories' = {id \in DOMAIN memories : stores'[memories[id].store].there = "live"}
    BY <1>1, <1>2, <2>4 DEF MemoryTypeOK, Live, Row
  <2>6. Shifts
    BY <1>1, <1>3, <2>4, <2>5 DEF Shifts, StoreTypes, all, Live
  <2> QED BY <1>1, <2>6, ShiftKeeps
<1>4. CASE ~Live(s)
  <2>1. \A id \in DOMAIN memories : memories[id].store # s /\ stores[memories[id].store].there = "live"
    BY <1>2, <1>4 DEF MemoryTypeOK, Live
  <2>2. Shifts
    BY <1>1, <1>2, <1>4, <2>1 DEF Shifts, StoreTypes, MemoryTypeOK
  <2> QED BY <1>1, <2>2, ShiftKeeps
<1> QED BY <1>3, <1>4

(***************************************************************************)
(* The theorems.                                                           *)
(***************************************************************************)
LEMMA InitMemoryInv ==
  ASSUME MemoryStart
  PROVE  MemoryInv
<1>1. PICK asks \in [Requests -> {request[r].ask : r \in Requests}], names \in [Stores -> Names \cup {Keep}], row \in Row :
        /\ \A r \in Requests : WellAsked(asks[r])
        /\ names[row.store] # Keep
        /\ MemoryInit(asks, names, row)
  BY DEF MemoryStart
<1> DEFINE A == {request[r].ask : r \in Requests}
           v == Version("created", FirstMemory, row)
<1>2. /\ stores = [s \in Stores |-> [there |-> IF names[s] = Keep THEN "never" ELSE "live", name |-> names[s], archived |-> FALSE]]
      /\ memories = [id \in {FirstMemory} |-> row] /\ history = <<v>>
      /\ request = [r \in Requests |-> NewRequest(asks[r])] /\ mixed = {} /\ unrecorded = {}
  BY <1>1 DEF MemoryInit
<1>3. ASSUME NEW r \in Requests
      PROVE  /\ request[r].pc = "new" /\ request[r].id = Keep /\ request[r].wrote = FALSE /\ request[r].row = NoRow
             /\ WellAsked(request[r].ask) /\ request[r] \in RequestRows(A)
  <2> DEFINE a == asks[r]
  <2>1. a \in A /\ request[r] = NewRequest(a) /\ WellAsked(a)
    BY <1>1, <1>2
  <2> HIDE DEF a, A
  <2>2. NewRequest(a) \in RequestRows(A) /\ NewRequest(a).ask = a
    <3> DEFINE none == NoRow
    <3>1. none \in Row \cup {NoRow}
      OBVIOUS
    <3> HIDE DEF none
    <3>2. NewRequest(a) = [ask |-> a, pc |-> "new", id |-> Keep, row |-> none, wrote |-> FALSE]
      BY DEF NewRequest, none
    <3> QED BY <2>1, <3>1, <3>2 DEF RequestRows, RequestSteps
  <2> QED BY <2>1, <2>2 DEF NewRequest
<1>4. RequestsTyped
  <2>1. request \in [Requests -> RequestRows(A)]
    <3> HIDE DEF A
    <3>1. \A r \in Requests : request[r] \in RequestRows(A)
      BY <1>3 DEF A
    <3> QED BY <1>2, <3>1
  <2> HIDE DEF A
  <2> QED BY <2>1 DEF RequestsTyped
<1>5. v \in Versions /\ v.id = FirstMemory /\ v.store = row.store /\ v.path = row.path /\ v.content = row.content
      /\ v.op = "created" /\ v.redacted = FALSE
  BY DEF Versions, Version, Row, MemoryIds
<1> HIDE DEF v
<1>6. history \in Seq(Versions) /\ DOMAIN history = {1} /\ history[1] = v
  BY <1>2, <1>5
<1>7. DOMAIN memories = {FirstMemory} /\ memories[FirstMemory] = row /\ row.store \in Stores
  BY <1>1, <1>2 DEF Row
<1>8. stores \in StoreTypes /\ stores[row.store].there = "live"
  BY <1>1, <1>2, <1>7 DEF StoreTypes
<1>9. MemoryTypeOK
  <2>1. \A r \in Requests : request[r].pc \in RequestSteps /\ request[r].id \in MemoryIds \cup {Keep}
    BY <1>3 DEF RequestSteps
  <2> QED BY <2>1, <1>2, <1>5, <1>6, <1>7, <1>8 DEF MemoryTypeOK, StoreTypes, Versions, MemoryIds, Live, RequestSteps
<1>10. TablesInv
  BY <1>4, <1>5, <1>6, <1>7, <1>8, <1>9 DEF TablesInv, Known
<1>11. RowIsRecorded
  <2>1. 1 \in VersionsOf(FirstMemory)
    BY <1>5, <1>6, <1>8 DEF VersionsOf, Live
  <2> QED BY <2>1, <1>5, <1>6, <1>7 DEF RowIsRecorded
<1>12. \A r \in Requests : ~Works(r) /\ ~Inserted(r)
  BY <1>3 DEF Works, Working, Inserted
<1>13. AloneInv
  BY <1>12 DEF AloneInv
<1>14. ASSUME NEW r \in Requests
       PROVE  FreshInv(r) /\ WorkInv(r) /\ AtWork(r) /\ RefusedInv(r)
  <2>1. FirstMemory # r /\ Keep # r
    BY MemoryAssumption
  <2>2. FreshInv(r)
    BY <2>1, <1>3, <1>5, <1>6, <1>7 DEF FreshInv, Known
  <2>3. WorkInv(r) /\ AtWork(r) /\ RefusedInv(r)
    BY <1>3, <1>12 DEF WorkInv, AtWork, RefusedInv
  <2> QED BY <2>2, <2>3
<1>15. ASSUME NEW id \in MemoryIds PROVE ExactInv(id)
  <2>1. \A n \in VersionsOf(id) : n = 1 /\ id = FirstMemory
    BY <1>5, <1>6 DEF VersionsOf
  <2>2. \A n \in VersionsOf(id) : IsLast(n, id) /\ Says(n, id)
    BY <2>1, <1>5, <1>6, <1>7 DEF IsLast, Says, Known
  <2> QED BY <2>2, <1>12 DEF ExactInv, On
<1> QED BY <1>10, <1>11, <1>13, <1>14, <1>15 DEF MemoryInv

LEMMA StepKeeps ==
  ASSUME MemoryInv, NEW r \in Requests, MemoryStep(r)
  PROVE  MemoryInv'
BY FindKeeps, InsertRowKeeps, WriteContentKeeps, RereadKeeps, ReadRowKeeps, WriteRowKeeps, RecordKeeps, DeleteRowKeeps, ReplyKeeps,
   RedactKeeps, CheckStoreKeeps, CreateStoreKeeps, RenameStoreKeeps, ArchiveStoreKeeps, DeleteStoreKeeps, BreaksOffKeeps
   DEF MemoryStep, ClientGone, StatementFails, BrokenOff

LEMMA StutterKeeps ==
  ASSUME MemoryInv, UNCHANGED memoryVars
  PROVE  MemoryInv'
<1>1. UNCHANGED <<stores, memories, history, request, mixed, unrecorded>>
  BY DEF memoryVars
<1>2. TablesInv'
  BY <1>1 DEF MemoryInv, TablesInv, RequestsTyped, MemoryTypeOK, Live, Known
<1>3. RowIsRecorded' /\ AloneInv'
  BY <1>1 DEF MemoryInv, RowIsRecorded, AloneInv, VersionsOf, Live, Busy, Works
<1>4. ASSUME NEW r \in Requests
      PROVE  FreshInv(r)' /\ WorkInv(r)' /\ AtWork(r)' /\ RefusedInv(r)'
  <2>1. FreshInv(r) /\ WorkInv(r) /\ AtWork(r) /\ RefusedInv(r)
    BY DEF MemoryInv
  <2>2. (Inserted(r)' <=> Inserted(r)) /\ (Works(r)' <=> Works(r))
    BY <1>1 DEF Inserted, Works
  <2>3. FreshInv(r)' /\ RefusedInv(r)'
    BY <1>1, <2>1, <2>2 DEF FreshInv, RefusedInv, Known
  <2>4. WorkInv(r)'
    BY <1>1, <2>1, <2>2 DEF WorkInv, Known
  <2>5. AtWork(r)'
    BY <1>1, <2>1, <2>2 DEF AtWork, Known, Live
  <2> QED BY <2>3, <2>4, <2>5
<1>5. ASSUME NEW id \in MemoryIds PROVE ExactInv(id)'
  <2>1. ExactInv(id)
    BY DEF MemoryInv
  <2>2. VersionsOf(id)' = VersionsOf(id) /\ \A n : (IsLast(n, id)' <=> IsLast(n, id)) /\ (Says(n, id)' <=> Says(n, id))
    BY <1>1 DEF VersionsOf, IsLast, Says, Live, Known
  <2>3. \A q \in Requests : (On(q, id)' <=> On(q, id)) /\ (Between(q)' <=> Between(q))
    BY <1>1 DEF On, Works, Between
  <2> QED BY <1>1, <2>1, <2>2, <2>3 DEF ExactInv
<1> QED BY <1>2, <1>3, <1>4, <1>5 DEF MemoryInv

\* The inductive invariant holds in every state.
LEMMA Always == MemorySpec => []MemoryInv
<1>1. MemoryStart => MemoryInv
  BY InitMemoryInv
<1>2. MemoryInv /\ [\E r \in Requests : MemoryStep(r)]_memoryVars => MemoryInv'
  BY StepKeeps, StutterKeeps
<1> QED BY <1>1, <1>2, PTL DEF MemorySpec

\* The tables hold what their columns and constraints allow: every memory is in a
\* store that is there, and no two memories of a store have the same path.
THEOREM MemoryTypesCorrect == MemorySpec => []MemoryTypeOK
<1>1. MemoryInv => MemoryTypeOK
  BY DEF MemoryInv, TablesInv
<1> QED BY <1>1, Always, PTL

LEMMA MemoryInvHistory == MemoryInv => HistoryTellsRows
<1>1. ASSUME MemoryInv PROVE QuietHistoryExact
  <2> SUFFICES ASSUME NEW id \in MemoryIds \ (mixed \cup unrecorded), VersionsOf(id) # {}, Busy(id) = {}
               PROVE  Says(CHOOSE n \in VersionsOf(id) : \A i \in VersionsOf(id) : i <= n, id)
    BY DEF QuietHistoryExact, Says
  <2> DEFINE n == CHOOSE n \in VersionsOf(id) : \A i \in VersionsOf(id) : i <= n
  <2>1. ExactInv(id)
    BY <1>1 DEF MemoryInv
  <2>2. \E m \in VersionsOf(id) : \A i \in VersionsOf(id) : i <= m
    BY <2>1 DEF ExactInv, IsLast
  <2>3. n \in VersionsOf(id) /\ \A i \in VersionsOf(id) : i <= n
    BY <2>2
  <2> HIDE DEF n
  <2>4. IsLast(n, id)
    BY <2>3 DEF IsLast
  <2>5. \A r \in Requests : ~On(r, id)
    BY DEF On, Works, Working, Busy, Ended
  <2>6. Says(n, id)
    BY <2>1, <2>3, <2>4, <2>5 DEF ExactInv
  <2> QED BY <2>6 DEF n
<1> QED BY <1>1 DEF HistoryTellsRows, MemoryInv

\* However the statements of the handlers interleave, every content that is in a
\* row is in a version or about to get there, and a memory that no two requests
\* shared is what its newest version says (store/memory.go writes the row and its
\* version by separate statements, without a transaction).
THEOREM HistoryIsTrue == MemorySpec => []HistoryTellsRows
BY MemoryInvHistory, Always, PTL

LEMMA MemoryInvRefusals == MemoryInv => RefusedWithoutTrace
<1>1. ASSUME MemoryInv, NEW r \in Requests, Status(r) >= 400
      PROVE  request[r].pc \in {"refused", "failed"}
  <2> DEFINE op == request[r].ask.op
  <2>1. WorkInv(r)
    BY <1>1 DEF MemoryInv
  <2>2. CASE request[r].pc = "done"
    <3>1. op \in {"upsert", "update", "delete", "redact", "createStore", "renameStore", "archiveStore", "deleteStore"}
      BY <2>1, <2>2 DEF WorkInv
    <3>2. DOMAIN StoreAnswers = {"upsert", "renameStore", "archiveStore", "deleteStore"} /\ DOMAIN MemoryAnswers = {"delete", "update"}
      BY DEF StoreAnswers, MemoryAnswers
    <3>3. Status(r) \in {200, 201}
      <4>1. CASE op \in {"upsert", "renameStore", "archiveStore", "deleteStore"}
        <5>1. Status(r) = StoreAnswers[op][1]
          BY <3>2, <4>1, <2>2 DEF Status
        <5> QED BY <4>1, <5>1 DEF StoreAnswers
      <4>2. CASE op \in {"delete", "update"}
        <5>1. Status(r) = MemoryAnswers[op][1]
          BY <3>2, <4>2, <2>2 DEF Status
        <5> QED BY <4>2, <5>1 DEF MemoryAnswers
      <4>3. CASE op \in {"redact", "createStore"}
        BY <3>2, <4>3, <2>2 DEF Status
      <4> QED BY <3>1, <4>1, <4>2, <4>3
    <3> QED BY <3>3, <1>1
  <2>3. CASE request[r].pc \notin {"done", "refused", "failed"}
    <3>1. Status(r) = 0
      BY <2>3 DEF Status
    <3> QED BY <3>1, <1>1
  <2> QED BY <2>2, <2>3
<1> QED BY <1>1 DEF MemoryInv, RefusedInv, RefusedWithoutTrace

\* A request that is answered with an error has changed nothing, unless it shared
\* its memory with another one, a store was deleted, it was a redaction under the
\* id of another store, or one of its statements failed after it had written.
THEOREM RefusalsLeaveNoTrace == MemorySpec => []RefusedWithoutTrace
BY MemoryInvRefusals, Always, PTL
=============================================================================
