------------------------------ MODULE EventLog ------------------------------
(***************************************************************************)
(* The append path of the event store (internal/store/event.go,            *)
(* AppendEvent): a transaction that reads next_seq of the session,         *)
(* increments it, inserts the event row under that seq and commits.  The   *)
(* two dialects protect the read differently:                              *)
(*                                                                         *)
(*   sqlite    the SELECT opens a deferred read transaction on a snapshot  *)
(*             of the whole database; the UPDATE upgrades it to the single *)
(*             writer, which fails when any commit came after the snapshot *)
(*             (SQLITE_BUSY_SNAPSHOT) and waits for at most busy_timeout   *)
(*             when another writer is active;                              *)
(*   postgres  SELECT ... FOR UPDATE takes the lock of the session row and *)
(*             waits for whoever holds it.                                 *)
(*                                                                         *)
(* The database itself is external: its locks, snapshots and constraints   *)
(* are modelled from the statements the store sends.                       *)
(***************************************************************************)
EXTENDS Integers, Sequences

CONSTANTS Calls,          \* one element per call of AppendEvent; also its event id
          Sessions,       \* session ids
          Dialects,       \* the databases Store.Open may be given
          NoCall          \* "no call holds this lock"

ASSUME DialectsAssumption == Dialects \subseteq {"sqlite", "postgres"}
ASSUME NoCallAssumption == NoCall \notin Calls

VARIABLES
  dialect,    \* Store.dialect, fixed by Open
  row,        \* row[s]: the row of table session is "absent", "live" or "deleted"
  nextSeq,    \* nextSeq[s]: column next_seq, as committed
  events,     \* events[s]: committed rows of table session_event
  holder,     \* holder[s]: the transaction holding the write lock over row s
  pc,         \* pc[c]: progress of call c through AppendEvent
  target,     \* target[c]: the session c appends to
  seq,        \* seq[c]: local variable seq, read by the SELECT
  fresh       \* calls whose read snapshot is still the newest commit (sqlite)

vars == <<dialect, row, nextSeq, events, holder, pc, target, seq, fresh>>

Postgres == dialect = "postgres"

InTransaction == {"selected", "updated", "inserted"}
Failed == {"failed", "conflict", "unknown"}
Steps == {"idle", "ok"} \cup InTransaction \cup Failed

(***************************************************************************)
(* Locks.  One row in postgres, the whole database in sqlite.              *)
(***************************************************************************)
LockScope(s) == IF Postgres THEN {s} ELSE Sessions
Unlocked(s) == \A t \in LockScope(s) : holder[t] = NoCall
Acquire(c, s) == [t \in Sessions |-> IF t \in LockScope(s) THEN c ELSE holder[t]]
Release(c) == [t \in Sessions |-> IF holder[t] = c THEN NoCall ELSE holder[t]]

Init ==
  /\ dialect \in Dialects
  /\ row = [s \in Sessions |-> "absent"]
  /\ nextSeq = [s \in Sessions |-> 0]
  /\ events = [s \in Sessions |-> {}]
  /\ holder = [s \in Sessions |-> NoCall]
  /\ pc = [c \in Calls |-> "idle"]
  /\ target \in [Calls -> Sessions]
  /\ seq = [c \in Calls |-> 0]
  /\ fresh = {}

(***************************************************************************)
(* Writers other than AppendEvent.                                         *)
(***************************************************************************)

\* Store.CreateSession: one INSERT, next_seq starts at 1.
CreateSession(s) ==
  /\ row[s] = "absent"
  /\ Unlocked(s)
  /\ row' = [row EXCEPT ![s] = "live"]
  /\ nextSeq' = [nextSeq EXCEPT ![s] = 1]
  /\ fresh' = {}
  /\ UNCHANGED <<dialect, events, holder, pc, target, seq>>

\* Fault: the events go and the session row stays.
DeleteEventsOnly(s) ==
  /\ row[s] = "live"
  /\ Unlocked(s)
  /\ events' = [events EXCEPT ![s] = {}]
  /\ fresh' = {}
  /\ UNCHANGED <<dialect, row, nextSeq, holder, pc, target, seq>>

\* Store.DeleteSession: the foreign key of session_event cascades.
DeleteSession(s) ==
  /\ row[s] = "live"
  /\ Unlocked(s)
  /\ row' = [row EXCEPT ![s] = "deleted"]
  /\ events' = [events EXCEPT ![s] = {}]
  /\ fresh' = {}
  /\ UNCHANGED <<dialect, nextSeq, holder, pc, target, seq>>

\* Any other statement of the store that commits, such as UpdateSessionStatus:
\* in sqlite it makes every open snapshot stale, in postgres it changes nothing here.
OtherWrite ==
  /\ ~Postgres
  /\ fresh # {}
  /\ \A s \in Sessions : holder[s] = NoCall
  /\ fresh' = {}
  /\ UNCHANGED <<dialect, row, nextSeq, events, holder, pc, target, seq>>

(***************************************************************************)
(* AppendEvent, one action per statement.                                  *)
(***************************************************************************)

\* Fault: the seq is taken one below next_seq.
SelectOffByOne(c) ==
  LET s == target[c] IN
  /\ pc[c] = "idle"
  /\ row[s] = "live"
  /\ Postgres => Unlocked(s)
  /\ holder' = IF Postgres THEN Acquire(c, s) ELSE holder
  /\ seq' = [seq EXCEPT ![c] = nextSeq[s] - 1]
  /\ fresh' = fresh \cup {c}
  /\ pc' = [pc EXCEPT ![c] = "selected"]
  /\ UNCHANGED <<dialect, row, nextSeq, events, target>>

\* Fault: postgres selects without FOR UPDATE.
SelectWithoutRowLock(c) ==
  /\ pc[c] = "idle"
  /\ row[target[c]] = "live"
  /\ seq' = [seq EXCEPT ![c] = nextSeq[target[c]]]
  /\ fresh' = fresh \cup {c}
  /\ pc' = [pc EXCEPT ![c] = "selected"]
  /\ UNCHANGED <<dialect, row, nextSeq, events, holder, target>>

\* BeginTx and SELECT next_seq [FOR UPDATE].
SelectNextSeq(c) ==
  LET s == target[c] IN
  /\ pc[c] = "idle"
  /\ row[s] = "live"
  /\ Postgres => Unlocked(s)
  /\ holder' = IF Postgres THEN Acquire(c, s) ELSE holder
  /\ seq' = [seq EXCEPT ![c] = nextSeq[s]]
  /\ fresh' = fresh \cup {c}
  /\ pc' = [pc EXCEPT ![c] = "selected"]
  /\ UNCHANGED <<dialect, row, nextSeq, events, target>>

\* The SELECT finds no row: Scan returns sql.ErrNoRows.
SelectNoRow(c) ==
  /\ pc[c] = "idle"
  /\ row[target[c]] # "live"
  /\ pc' = [pc EXCEPT ![c] = "failed"]
  /\ UNCHANGED <<dialect, row, nextSeq, events, holder, target, seq, fresh>>

\* UPDATE session SET next_seq = next_seq + 1.  Its effect is visible at commit.
UpdateNextSeq(c) ==
  LET s == target[c] IN
  /\ pc[c] = "selected"
  /\ Postgres \/ (c \in fresh /\ Unlocked(s))
  /\ holder' = Acquire(c, s)
  /\ pc' = [pc EXCEPT ![c] = "updated"]
  /\ UNCHANGED <<dialect, row, nextSeq, events, target, seq, fresh>>

\* Fault: no deferred Rollback, the transaction stays open.
RollbackForgotten(c, outcome) ==
  /\ pc' = [pc EXCEPT ![c] = outcome]
  /\ UNCHANGED <<dialect, row, nextSeq, events, holder, target, seq, fresh>>

\* The end of a transaction that does not commit: the deferred Rollback.
Rollback(c, outcome) ==
  /\ pc' = [pc EXCEPT ![c] = outcome]
  /\ holder' = Release(c)
  /\ fresh' = fresh \ {c}
  /\ UNCHANGED <<dialect, row, nextSeq, events, target, seq>>

\* sqlite refuses the upgrade: stale snapshot, or busy_timeout has run out.
UpdateRefused(c) ==
  /\ pc[c] = "selected"
  /\ ~Postgres
  /\ c \notin fresh \/ ~Unlocked(target[c])
  /\ Rollback(c, "conflict")

SeqTaken(c) == \E e \in events[target[c]] : e.seq = seq[c]

\* INSERT INTO session_event, under UNIQUE (session_id, seq).
InsertEvent(c) ==
  /\ pc[c] = "updated"
  /\ IF SeqTaken(c)
       THEN Rollback(c, "conflict")
       ELSE /\ pc' = [pc EXCEPT ![c] = "inserted"]
            /\ UNCHANGED <<dialect, row, nextSeq, events, holder, target, seq, fresh>>

\* Fault: the UPDATE of next_seq is missing.
CommitNoIncrement(c, outcome) ==
  LET s == target[c] IN
  /\ pc[c] = "inserted"
  /\ events' = [events EXCEPT ![s] = @ \cup {[id |-> c, seq |-> seq[c]]}]
  /\ pc' = [pc EXCEPT ![c] = outcome]
  /\ holder' = Release(c)
  /\ fresh' = {}
  /\ UNCHANGED <<dialect, row, nextSeq, target, seq>>

CommitWith(c, outcome) ==
  LET s == target[c] IN
  /\ pc[c] = "inserted"
  /\ nextSeq' = [nextSeq EXCEPT ![s] = @ + 1]
  /\ events' = [events EXCEPT ![s] = @ \cup {[id |-> c, seq |-> seq[c]]}]
  /\ pc' = [pc EXCEPT ![c] = outcome]
  /\ holder' = Release(c)
  /\ fresh' = {}
  /\ UNCHANGED <<dialect, row, target, seq>>

Commit(c) == CommitWith(c, "ok")

\* postgres commits, but the connection or the context ends before the reply:
\* AppendEvent returns an error for an event that is in the log.
CommitReplyLost(c) == Postgres /\ CommitWith(c, "unknown")

\* Fault: AppendEvent ignores an error and reports the event as appended.
AbortIgnored(c) ==
  /\ pc[c] \in InTransaction
  /\ Rollback(c, "ok")

\* The context is cancelled, or a statement fails for a reason of its own.
Abort(c) ==
  /\ pc[c] \in InTransaction
  /\ Rollback(c, "failed")

\* jed dies: the database rolls every open transaction back.
Crash ==
  /\ \E c \in Calls : pc[c] \in InTransaction
  /\ pc' = [c \in Calls |-> IF pc[c] \in InTransaction THEN "failed" ELSE pc[c]]
  /\ holder' = [s \in Sessions |-> NoCall]
  /\ fresh' = {}
  /\ UNCHANGED <<dialect, row, nextSeq, events, target, seq>>

AppendStep(c) ==
  \/ SelectNextSeq(c) \/ SelectNoRow(c)
  \/ UpdateNextSeq(c) \/ UpdateRefused(c)
  \/ InsertEvent(c) \/ Commit(c)

Next ==
  \/ \E s \in Sessions : CreateSession(s) \/ DeleteSession(s)
  \/ \E c \in Calls : AppendStep(c) \/ CommitReplyLost(c) \/ Abort(c)
  \/ OtherWrite
  \/ Crash

Spec == Init /\ [][Next]_vars

\* The database keeps executing the statements of a call that has begun.
FairSpec == Spec /\ \A c \in Calls : WF_vars(AppendStep(c))

(***************************************************************************)
(* Properties.                                                             *)
(***************************************************************************)
EventRow == [id : Calls, seq : Nat \ {0}]

\* The types of the committed tables and of the transactions in progress.
TypeOK ==
  /\ dialect \in Dialects
  /\ row \in [Sessions -> {"absent", "live", "deleted"}]
  /\ nextSeq \in [Sessions -> Nat]
  /\ events \in [Sessions -> SUBSET EventRow]
  /\ holder \in [Sessions -> Calls \cup {NoCall}]
  /\ pc \in [Calls -> Steps]
  /\ target \in [Calls -> Sessions]
  /\ seq \in [Calls -> Nat]
  /\ fresh \subseteq Calls

\* ListEvents (ORDER BY seq): what a reader of a committed session sees.
EventAt(rows, i) == CHOOSE e \in rows : e.seq = i
ListEvents(s) ==
  [i \in 1 .. (IF row[s] = "live" THEN nextSeq[s] - 1 ELSE 0) |-> EventAt(events[s], i).id]

\* The seqs of a live session are exactly 1 .. next_seq - 1, each used once and
\* by one event id: two concurrent AppendEvent calls never share or skip a seq,
\* which is what replay by "?since=<seq>" counts on.
DenseLog ==
  \A s \in Sessions : row[s] = "live" =>
    /\ {e.seq : e \in events[s]} = 1 .. nextSeq[s] - 1
    /\ \A e, f \in events[s] : e.seq = f.seq \/ e.id = f.id => e = f

\* A call that returned without error has its event in the log at the seq it
\* returned; a call that was rolled back has left nothing behind.
Accounted ==
  \A c \in Calls : LET s == target[c] IN
    /\ pc[c] = "ok" /\ row[s] = "live" => [id |-> c, seq |-> seq[c]] \in events[s]
    /\ pc[c] \in {"failed", "conflict"} => \A e \in events[s] : e.id # c

\* Committed events stay, and an event that becomes visible is numbered after
\* everything visible before it: a reader that has seen seq n never finds a
\* new event below n later (append-only log, invariant 1 of overview.md).
AppendOnlyStep ==
  \A s \in Sessions : row'[s] = "live" =>
    /\ events[s] \subseteq events'[s]
    /\ \A e \in events'[s] \ events[s], f \in events[s] : f.seq < e.seq
AppendOnly == [][AppendOnlyStep]_vars

\* The row lock of SELECT ... FOR UPDATE makes concurrent appends wait for each
\* other instead of failing each other.  (In sqlite an append fails when anything else
\* has committed between its SELECT and its UPDATE.)
NoAppendConflict == \A c \in Calls : Postgres => pc[c] # "conflict"

\* Every call on a live session returns: no interleaving of rollbacks, commits
\* and deletions leaves a lock behind that blocks the calls after it.
CallsServed ==
  \A c \in Calls : row[target[c]] = "live" ~> pc[c] \in {"ok"} \cup Failed

(***************************************************************************)
(* Refinement: AppendEvent is an atomic append.                            *)
(***************************************************************************)
ResultOf(c) ==
  IF pc[c] = "ok" THEN seq[c] ELSE IF pc[c] \in Failed THEN -1 ELSE 0

AbsLog == INSTANCE AppendLog WITH
            log <- [s \in Sessions |-> ListEvents(s)],
            result <- [c \in Calls |-> ResultOf(c)]

\* The transaction implements the one-step append of AppendLog.
ImplementsAppendLog == AbsLog!AbsSpec
=============================================================================
