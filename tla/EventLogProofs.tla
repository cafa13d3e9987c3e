--------------------------- MODULE EventLogProofs ---------------------------
(***************************************************************************)
(* Proofs about EventLog, for any sets of calls and sessions: the types,   *)
(* the dense log, the accounting of calls, the append-only rule, and that  *)
(* AppendEvent implements the atomic append of AppendLog.                  *)
(***************************************************************************)
EXTENDS EventLog, SequenceTheorems, TLAPS

\* A call that has the right to write: the session row it read cannot change.
Writing(c) == pc[c] \in {"updated", "inserted"} \/ (Postgres /\ pc[c] = "selected")

\* What keeps two writers apart: whoever writes holds the locks of its session,
\* and the seq it read is still next_seq.  A sqlite reader has no lock, and only
\* while its snapshot is fresh is the seq it read current.
LockInv ==
  \A c \in Calls : LET s == target[c] IN
    /\ Writing(c) => \A t \in LockScope(s) : holder[t] = c
    /\ Writing(c) \/ (pc[c] = "selected" /\ c \in fresh)
         => row[s] = "live" /\ seq[c] = nextSeq[s]

\* Every row of session_event was committed by the call whose id it bears.
RowInv ==
  /\ \A s \in Sessions :
       /\ row[s] = "live" => nextSeq[s] >= 1
       /\ row[s] # "live" => events[s] = {}
       /\ \A e \in events[s] :
            target[e.id] = s /\ pc[e.id] \in {"ok", "unknown"} /\ seq[e.id] = e.seq
  /\ \A c \in Calls : pc[c] = "ok" =>
       /\ row[target[c]] # "absent"
       /\ row[target[c]] = "live" => [id |-> c, seq |-> seq[c]] \in events[target[c]]

IInv == TypeOK /\ DenseLog /\ LockInv /\ RowInv

(***************************************************************************)
(* The invariant is inductive.                                             *)
(***************************************************************************)
LEMMA InitIInv == Init => IInv
  BY DialectsAssumption DEF Init, IInv, TypeOK, DenseLog, LockInv, RowInv, Writing, Steps

\* The three writers that are not AppendEvent.
LEMMA CreateIInv == ASSUME IInv, NEW s \in Sessions, CreateSession(s) PROVE IInv'
<1> USE DEF IInv, CreateSession
<1>1. TypeOK'    BY DEF TypeOK
<1>2. DenseLog'  BY DEF DenseLog, RowInv, TypeOK
<1>3. LockInv'   BY DEF LockInv, Writing, TypeOK, Postgres, LockScope, Unlocked
<1>4. RowInv'    BY DEF RowInv, TypeOK
<1> QED BY <1>1, <1>2, <1>3, <1>4

LEMMA DeleteIInv == ASSUME IInv, NEW s \in Sessions, DeleteSession(s) PROVE IInv'
<1> USE DEF IInv, DeleteSession
<1>1. TypeOK'    BY DEF TypeOK
<1>2. DenseLog'  BY DEF DenseLog, TypeOK
<1>3. LockInv'
  BY NoCallAssumption DEF LockInv, Writing, TypeOK, Postgres, LockScope, Unlocked
<1>4. RowInv'    BY DEF RowInv, TypeOK
<1> QED BY <1>1, <1>2, <1>3, <1>4

LEMMA OtherWriteIInv == ASSUME IInv, OtherWrite PROVE IInv'
<1> USE DEF IInv, OtherWrite
<1>1. TypeOK'    BY DEF TypeOK
<1>2. DenseLog'  BY DEF DenseLog
<1>3. LockInv'   BY DEF LockInv, Writing, TypeOK, Postgres, LockScope
<1>4. RowInv'    BY DEF RowInv
<1> QED BY <1>1, <1>2, <1>3, <1>4

LEMMA SelectIInv == ASSUME IInv, NEW c \in Calls, SelectNextSeq(c) PROVE IInv'
<1> USE DEF IInv, SelectNextSeq
<1>1. TypeOK'    BY DEF TypeOK, Steps, InTransaction, Acquire
<1>2. DenseLog'  BY DEF DenseLog
<1>3. LockInv'
  BY NoCallAssumption DEF LockInv, Writing, TypeOK, Postgres, LockScope, Unlocked, Acquire
<1>4. RowInv'    BY DEF RowInv, TypeOK
<1> QED BY <1>1, <1>2, <1>3, <1>4

LEMMA NoRowIInv == ASSUME IInv, NEW c \in Calls, SelectNoRow(c) PROVE IInv'
<1> USE DEF IInv, SelectNoRow
<1>1. TypeOK'    BY DEF TypeOK, Steps, Failed
<1>2. DenseLog'  BY DEF DenseLog
<1>3. LockInv'   BY DEF LockInv, Writing, TypeOK, Postgres, LockScope
<1>4. RowInv'    BY DEF RowInv, TypeOK
<1> QED BY <1>1, <1>2, <1>3, <1>4

LEMMA UpdateIInv == ASSUME IInv, NEW c \in Calls, UpdateNextSeq(c) PROVE IInv'
<1> USE DEF IInv, UpdateNextSeq
<1>1. TypeOK'    BY DEF TypeOK, Steps, InTransaction, Acquire
<1>2. DenseLog'  BY DEF DenseLog
<1>3. LockInv'
  BY NoCallAssumption DEF LockInv, Writing, TypeOK, Postgres, LockScope, Unlocked, Acquire
<1>4. RowInv'    BY DEF RowInv, TypeOK
<1> QED BY <1>1, <1>2, <1>3, <1>4

LEMMA RollbackIInv ==
  ASSUME IInv, NEW c \in Calls, NEW outcome \in {"failed", "conflict"},
         pc[c] \in InTransaction, Rollback(c, outcome)
  PROVE  IInv'
<1> USE DEF IInv, Rollback
<1>1. TypeOK'    BY DEF TypeOK, Steps, Failed, Release
<1>2. DenseLog'  BY DEF DenseLog
<1>3. LockInv'   BY DEF LockInv, Writing, TypeOK, Postgres, LockScope, Release
<1>4. RowInv'    BY DEF RowInv, TypeOK, InTransaction
<1> QED BY <1>1, <1>2, <1>3, <1>4

LEMMA InsertIInv == ASSUME IInv, NEW c \in Calls, InsertEvent(c) PROVE IInv'
<1>1. CASE SeqTaken(c)
  BY <1>1, RollbackIInv DEF InsertEvent, InTransaction
<1>2. CASE ~SeqTaken(c)
  <2> USE <1>2 DEF IInv, InsertEvent
  <2>1. TypeOK'    BY DEF TypeOK, Steps, InTransaction
  <2>2. DenseLog'  BY DEF DenseLog
  <2>3. LockInv'   BY DEF LockInv, Writing, TypeOK, Postgres, LockScope
  <2>4. RowInv'    BY DEF RowInv, TypeOK, EventRow
  <2> QED BY <2>1, <2>2, <2>3, <2>4
<1> QED BY <1>1, <1>2

LEMMA CommitIInv ==
  ASSUME IInv, NEW c \in Calls, NEW outcome \in {"ok", "unknown"}, CommitWith(c, outcome)
  PROVE  IInv'
<1> DEFINE s == target[c]
           row0 == [id |-> c, seq |-> seq[c]]
<1> USE DEF IInv, CommitWith
<1>1. /\ s \in Sessions /\ row[s] = "live" /\ seq[c] = nextSeq[s]
      /\ nextSeq[s] \in Nat /\ nextSeq[s] >= 1
      /\ \A t \in LockScope(s) : holder[t] = c
  BY DEF LockInv, Writing, TypeOK, RowInv
<1>2. \A e \in events[s] : e.id # c
  BY DEF RowInv, TypeOK
<1>3. TypeOK'
  BY <1>1 DEF TypeOK, EventRow, Steps, Failed, Release
<1>4. /\ events'[s] = events[s] \cup {row0}
      /\ nextSeq'[s] = nextSeq[s] + 1
      /\ \A t \in Sessions \ {s} : events'[t] = events[t] /\ nextSeq'[t] = nextSeq[t]
  BY <1>1 DEF TypeOK
<1>5. DenseLog'
  <2>1. {e.seq : e \in events'[s]} = 1 .. nextSeq'[s] - 1
    <3>1. {e.seq : e \in events[s]} = 1 .. nextSeq[s] - 1
      BY <1>1 DEF DenseLog
    <3>2. {e.seq : e \in events'[s]} = {e.seq : e \in events[s]} \cup {nextSeq[s]}
      <4>1. events'[s] = events[s] \cup {row0} /\ row0.seq = nextSeq[s]
        BY <1>1, <1>4
      <4>2. \A E : {e.seq : e \in E \cup {row0}} = {e.seq : e \in E} \cup {row0.seq}
        OBVIOUS
      <4> QED BY <4>1, <4>2
    <3>3. (1 .. nextSeq[s] - 1) \cup {nextSeq[s]} = 1 .. nextSeq'[s] - 1
      <4>1. \A n \in Nat : n >= 1 => (1 .. n - 1) \cup {n} = 1 .. (n + 1) - 1
        OBVIOUS
      <4> QED BY <1>1, <1>4, <4>1
    <3> QED BY <3>1, <3>2, <3>3
  <2>2. \A e, f \in events'[s] : e.seq = f.seq \/ e.id = f.id => e = f
    <3>1. \A e \in events[s] : e.seq # row0.seq /\ e.id # row0.id
      BY <1>1, <1>2 DEF DenseLog
    <3> QED BY <1>1, <1>4, <3>1 DEF DenseLog
  <2> QED BY <1>1, <1>4, <2>1, <2>2 DEF DenseLog
<1>6. LockInv'
  BY <1>1, <1>4, NoCallAssumption DEF LockInv, Writing, TypeOK, Postgres, LockScope, Release
<1>7. RowInv'
  <2>1. ASSUME NEW t \in Sessions
        PROVE  /\ row'[t] = "live" => nextSeq'[t] >= 1
               /\ row'[t] # "live" => events'[t] = {}
    BY <1>1, <1>4 DEF RowInv, TypeOK
  <2>2. ASSUME NEW t \in Sessions, NEW e \in events'[t]
        PROVE  target'[e.id] = t /\ pc'[e.id] \in {"ok", "unknown"} /\ seq'[e.id] = e.seq
    <3>1. CASE e = row0 /\ t = s
      BY <3>1, <1>1 DEF TypeOK
    <3>2. CASE e \in events[t]
      <4>1. e.id \in Calls  BY <3>2 DEF TypeOK, EventRow
      <4> QED BY <3>2, <4>1 DEF RowInv, TypeOK
    <3> QED BY <2>2, <1>4, <3>1, <3>2
  <2>3. ASSUME NEW d \in Calls, pc'[d] = "ok"
        PROVE  /\ row'[target'[d]] # "absent"
               /\ row'[target'[d]] = "live"
                    => [id |-> d, seq |-> seq'[d]] \in events'[target'[d]]
    <3>1. CASE d = c
      BY <3>1, <1>1, <1>4
    <3>2. CASE d # c
      BY <3>2, <2>3, <1>1, <1>4 DEF RowInv, TypeOK
    <3> QED BY <3>1, <3>2
  <2> QED BY <2>1, <2>2, <2>3 DEF RowInv
<1> QED BY <1>3, <1>5, <1>6, <1>7

LEMMA CrashIInv == ASSUME IInv, Crash PROVE IInv'
<1> USE DEF IInv, Crash
<1>1. TypeOK'    BY DEF TypeOK, Steps, Failed
<1>2. DenseLog'  BY DEF DenseLog
<1>3. LockInv'   BY DEF LockInv, Writing, TypeOK, Postgres, LockScope, InTransaction
<1>4. RowInv'    BY DEF RowInv, TypeOK, InTransaction, EventRow
<1> QED BY <1>1, <1>2, <1>3, <1>4

LEMMA NextIInv == IInv /\ [Next]_vars => IInv'
<1> SUFFICES ASSUME IInv, [Next]_vars PROVE IInv'
  OBVIOUS
<1>1. CASE UNCHANGED vars
  BY <1>1 DEF vars, IInv, TypeOK, DenseLog, LockInv, RowInv, Writing, Postgres, LockScope
<1>2. ASSUME NEW s \in Sessions, CreateSession(s) \/ DeleteSession(s) PROVE IInv'
  BY <1>2, CreateIInv, DeleteIInv
<1>3. ASSUME NEW c \in Calls, AppendStep(c) PROVE IInv'
  <2>1. CASE SelectNextSeq(c) BY <2>1, SelectIInv
  <2>2. CASE SelectNoRow(c)   BY <2>2, NoRowIInv
  <2>3. CASE UpdateNextSeq(c) BY <2>3, UpdateIInv
  <2>4. CASE UpdateRefused(c) BY <2>4, RollbackIInv DEF UpdateRefused, InTransaction
  <2>5. CASE InsertEvent(c)   BY <2>5, InsertIInv
  <2>6. CASE Commit(c)        BY <2>6, CommitIInv DEF Commit
  <2> QED BY <1>3, <2>1, <2>2, <2>3, <2>4, <2>5, <2>6 DEF AppendStep
<1>4. ASSUME NEW c \in Calls, CommitReplyLost(c) PROVE IInv'
  BY <1>4, CommitIInv DEF CommitReplyLost
<1>5. ASSUME NEW c \in Calls, Abort(c) PROVE IInv'
  BY <1>5, RollbackIInv DEF Abort
<1> QED BY <1>1, <1>2, <1>3, <1>4, <1>5, OtherWriteIInv, CrashIInv DEF Next

\* The inductive invariant holds in every reachable state: the log is dense, and
\* whoever is past its first write of AppendEvent holds the lock and the current seq.
THEOREM Inductive == Spec => []IInv
<1>1. Init => IInv                     BY InitIInv
<1>2. IInv /\ [Next]_vars => IInv'     BY NextIInv
<1> QED BY <1>1, <1>2, PTL DEF Spec

\* Every reachable state of the store, for any calls, sessions and dialects, has
\* well-typed tables and transactions (the types of model.Event and of the row
\* scanned by AppendEvent).
THEOREM TypesCorrect == Spec => []TypeOK
<1>1. IInv => TypeOK  BY DEF IInv
<1> QED BY <1>1, Inductive, PTL

\* AppendEvent numbers the events of a live session 1 .. next_seq - 1, each seq
\* once, whatever calls, deletions, conflicts and crashes it is interleaved with.
THEOREM LogIsDense == Spec => []DenseLog
<1>1. IInv => DenseLog  BY DEF IInv
<1> QED BY <1>1, Inductive, PTL

\* AppendEvent returns nil only for an event that is in the log under the seq
\* it returns, and a rolled-back call has left no row.
THEOREM CallsAccounted == Spec => []Accounted
<1>1. ASSUME IInv, NEW c \in Calls
      PROVE  LET s == target[c] IN
             /\ pc[c] = "ok" /\ row[s] = "live" => [id |-> c, seq |-> seq[c]] \in events[s]
             /\ pc[c] \in {"failed", "conflict"} => \A e \in events[s] : e.id # c
  <2>1. target[c] \in Sessions /\ RowInv
    BY <1>1 DEF IInv, TypeOK
  <2>2. pc[c] = "ok" /\ row[target[c]] = "live" => [id |-> c, seq |-> seq[c]] \in events[target[c]]
    BY <2>1 DEF RowInv
  <2>3. pc[c] \in {"failed", "conflict"} => \A e \in events[target[c]] : e.id # c
    BY <2>1 DEF RowInv
  <2> QED BY <2>2, <2>3
<1>2. IInv => Accounted
  BY <1>1 DEF Accounted
<1> QED BY <1>2, Inductive, PTL

(***************************************************************************)
(* The append-only rule.                                                   *)
(***************************************************************************)
LEMMA CommitAppends ==
  ASSUME IInv, NEW c \in Calls, NEW outcome \in {"ok", "unknown"}, CommitWith(c, outcome)
  PROVE  AppendOnlyStep
<1> DEFINE s == target[c]
           row0 == [id |-> c, seq |-> seq[c]]
<1>1. /\ s \in Sessions /\ seq[c] = nextSeq[s] /\ row[s] = "live" /\ nextSeq[s] \in Nat
  BY DEF IInv, LockInv, Writing, TypeOK, CommitWith
<1>2. events' = [events EXCEPT ![s] = @ \cup {row0}] /\ row' = row
  BY DEF CommitWith
<1>3. ASSUME NEW f \in events[s] PROVE f.seq < row0.seq
  <2>1. f.seq \in 1 .. nextSeq[s] - 1  BY <1>1 DEF IInv, DenseLog
  <2> QED BY <2>1, <1>1
<1>4. ASSUME NEW t \in Sessions
      PROVE  /\ events[t] \subseteq events'[t]
             /\ \A e \in events'[t] \ events[t], f \in events[t] : f.seq < e.seq
  BY <1>1, <1>2, <1>3 DEF IInv, TypeOK
<1> QED BY <1>4 DEF AppendOnlyStep

LEMMA NextAppends == IInv /\ [Next]_vars => [AppendOnlyStep]_vars
<1> SUFFICES ASSUME IInv, Next PROVE AppendOnlyStep
  OBVIOUS
<1>1. CASE events' = events
  BY <1>1 DEF AppendOnlyStep
<1>2. ASSUME NEW s \in Sessions, DeleteSession(s) PROVE AppendOnlyStep
  BY <1>2 DEF DeleteSession, AppendOnlyStep, IInv, TypeOK
<1>3. ASSUME NEW c \in Calls, Commit(c) \/ CommitReplyLost(c) PROVE AppendOnlyStep
  BY <1>3, CommitAppends DEF Commit, CommitReplyLost
<1> QED
  BY <1>1, <1>2, <1>3 DEF Next, AppendStep, CreateSession, OtherWrite, SelectNextSeq,
     SelectNoRow, UpdateNextSeq, UpdateRefused, InsertEvent, Rollback, Abort, Crash

\* No step of the store edits, removes or reorders the events of a session that
\* stays, and an event becomes visible above all the visible ones: the rule
\* "?since=<seq>" relies on, for any number of concurrent AppendEvent calls.
THEOREM LogIsAppendOnly == Spec => AppendOnly
<1>1. IInv /\ [Next]_vars => [AppendOnlyStep]_vars  BY NextAppends
<1> QED BY <1>1, Inductive, PTL DEF Spec, AppendOnly

(***************************************************************************)
(* Row locks of postgres.                                                  *)
(***************************************************************************)
LEMMA NextNoConflict == IInv /\ NoAppendConflict /\ [Next]_vars => NoAppendConflict'
<1> SUFFICES ASSUME IInv, NoAppendConflict, Next PROVE NoAppendConflict'
  BY DEF NoAppendConflict, vars, Postgres
<1>1. ASSUME NEW c \in Calls, InsertEvent(c) PROVE NoAppendConflict'
  <2>1. ~SeqTaken(c)
    <3>1. target[c] \in Sessions /\ row[target[c]] = "live" /\ seq[c] = nextSeq[target[c]]
      BY <1>1 DEF InsertEvent, IInv, LockInv, Writing, TypeOK
    <3>2. \A e \in events[target[c]] : e.seq \in 1 .. nextSeq[target[c]] - 1
      BY <3>1 DEF IInv, DenseLog
    <3>3. nextSeq[target[c]] \in Nat  BY <3>1 DEF IInv, TypeOK
    <3> QED BY <3>1, <3>2, <3>3 DEF SeqTaken
  <2> QED BY <1>1, <2>1 DEF InsertEvent, NoAppendConflict, Postgres, IInv, TypeOK
<1>2. ASSUME NEW c \in Calls, UpdateRefused(c) PROVE NoAppendConflict'
  BY <1>2 DEF UpdateRefused, Rollback, NoAppendConflict, Postgres
<1>3. ASSUME NEW c \in Calls,
             SelectNextSeq(c) \/ SelectNoRow(c) \/ UpdateNextSeq(c) \/ Abort(c)
      PROVE  NoAppendConflict'
  BY <1>3 DEF SelectNextSeq, SelectNoRow, UpdateNextSeq, Abort, Rollback,
     NoAppendConflict, Postgres, IInv, TypeOK
<1>4. ASSUME NEW c \in Calls, Commit(c) \/ CommitReplyLost(c) PROVE NoAppendConflict'
  BY <1>4 DEF Commit, CommitReplyLost, CommitWith, NoAppendConflict, Postgres, IInv, TypeOK
<1>5. ASSUME NEW s \in Sessions, CreateSession(s) \/ DeleteSession(s) PROVE NoAppendConflict'
  BY <1>5 DEF CreateSession, DeleteSession, NoAppendConflict, Postgres
<1>6. CASE OtherWrite
  BY <1>6 DEF OtherWrite, NoAppendConflict, Postgres
<1>7. CASE Crash
  BY <1>7 DEF Crash, NoAppendConflict, Postgres, IInv, TypeOK
<1> QED BY <1>1, <1>2, <1>3, <1>4, <1>5, <1>6, <1>7 DEF Next, AppendStep

\* SELECT ... FOR UPDATE makes appends to one session wait for each other: in
\* postgres no call fails because of another one, neither by a refused UPDATE
\* nor by the UNIQUE (session_id, seq) of the INSERT.
THEOREM RowLockPreventsConflicts == Spec => []NoAppendConflict
<1>1. Init => NoAppendConflict  BY DEF Init, NoAppendConflict
<1>2. IInv /\ NoAppendConflict /\ [Next]_vars => NoAppendConflict'
  BY NextNoConflict
<1> QED BY <1>1, <1>2, Inductive, PTL DEF Spec


(***************************************************************************)
(* Refinement: every step of the transaction is a step of AppendLog, or    *)
(* changes nothing a caller or a reader can see.                           *)
(***************************************************************************)
AbsList == [s \in Sessions |-> ListEvents(s)]
AbsResult == [c \in Calls |-> ResultOf(c)]

LEMMA ListsUnchanged ==
  UNCHANGED <<row, nextSeq, events>> => AbsList' = AbsList
BY DEF AbsList, ListEvents, EventAt

LEMMA ListAfterCommit ==
  ASSUME IInv, NEW c \in Calls, NEW outcome \in {"ok", "unknown"}, CommitWith(c, outcome)
  PROVE  /\ AbsList' = [AbsList EXCEPT ![target[c]] = Append(@, c)]
         /\ Len(AbsList[target[c]]) + 1 = seq[c]
         /\ row[target[c]] = "live"
<1>1. PICK s \in Sessions, n \in Nat, row0 \in EventRow :
        /\ s = target[c] /\ n = nextSeq[s] /\ row0 = [id |-> c, seq |-> n]
        /\ seq[c] = n /\ n >= 1
        /\ row[s] = "live"
  <2>1. /\ target[c] \in Sessions /\ row[target[c]] = "live"
        /\ seq[c] = nextSeq[target[c]] /\ nextSeq[target[c]] \in Nat /\ nextSeq[target[c]] >= 1
    BY DEF IInv, LockInv, Writing, TypeOK, CommitWith, RowInv
  <2>2. [id |-> c, seq |-> nextSeq[target[c]]] \in EventRow  BY <2>1 DEF EventRow
  <2> QED BY <2>1, <2>2
<1>2. /\ events' = [events EXCEPT ![s] = @ \cup {row0}] /\ row' = row
      /\ nextSeq' = [nextSeq EXCEPT ![s] = n + 1]
  BY <1>1 DEF CommitWith
<1>3. events'[s] = events[s] \cup {row0} /\ nextSeq'[s] = n + 1
  BY <1>1, <1>2 DEF IInv, TypeOK
<1>4. ASSUME NEW i \in 1 .. n - 1
      PROVE  EventAt(events'[s], i) = EventAt(events[s], i) /\ EventAt(events[s], i) \in events[s]
  <2>1. \E e \in events[s] : e.seq = i
    <3>1. {e.seq : e \in events[s]} = 1 .. n - 1  BY <1>1 DEF IInv, DenseLog
    <3> QED BY <3>1
  <2>2. PICK e0 \in events[s] : e0.seq = i  BY <2>1
  <2>3. \A e \in events[s] : e.seq = i => e = e0
    BY <1>1, <2>2 DEF IInv, DenseLog
  <2>4. row0.seq # i  BY <1>1
  <2>5. \A e \in events'[s] : e.seq = i => e = e0
    BY <1>3, <2>3, <2>4
  <2>6. e0 \in events'[s]               BY <1>3, <2>2
  <2>7. EventAt(events'[s], i) = e0     BY <2>2, <2>5, <2>6 DEF EventAt
  <2>8. EventAt(events[s], i) = e0      BY <2>2, <2>3 DEF EventAt
  <2> QED BY <2>2, <2>7, <2>8
<1>5. EventAt(events'[s], n) = row0
  <2>1. \A e \in events[s] : e.seq # n
    <3>1. \A e \in events[s] : e.seq \in 1 .. n - 1  BY <1>1 DEF IInv, DenseLog
    <3> QED BY <3>1, <1>1
  <2>2. \A e \in events'[s] : e.seq = n => e = row0  BY <1>3, <2>1
  <2>3. row0 \in events'[s] /\ row0.seq = n          BY <1>1, <1>3
  <2> QED BY <2>2, <2>3 DEF EventAt
<1>6. ListEvents(s) = [i \in 1 .. n - 1 |-> EventAt(events[s], i).id]
  BY <1>1 DEF ListEvents
<1>7. ListEvents(s)' = [i \in 1 .. n |-> EventAt(events'[s], i).id]
  BY <1>1, <1>2, <1>3 DEF ListEvents
<1>8. ListEvents(s) \in Seq(Calls) /\ Len(ListEvents(s)) = n - 1
  <2>1. \A e \in events[s] : e.id \in Calls              BY DEF IInv, TypeOK, EventRow
  <2>2. \A i \in 1 .. n - 1 : EventAt(events[s], i).id \in Calls  BY <1>4, <2>1
  <2>3. n - 1 \in Nat  BY <1>1
  <2> QED BY <1>6, <2>2, <2>3
<1>9. ListEvents(s)' \in Seq(Calls) /\ Len(ListEvents(s)') = n
  <2>1. \A e \in events'[s] : e.id \in Calls             BY <1>1, <1>3 DEF IInv, TypeOK, EventRow
  <2>2. \A i \in 1 .. n - 1 : EventAt(events'[s], i) \in events'[s]  BY <1>3, <1>4
  <2>3. \A i \in 1 .. n : EventAt(events'[s], i) \in events'[s]
    <3>1. \A i \in 1 .. n : i = n \/ i \in 1 .. n - 1  BY <1>1
    <3> QED BY <3>1, <2>2, <1>3, <1>5
  <2>4. \A i \in 1 .. n : EventAt(events'[s], i).id \in Calls  BY <2>1, <2>3
  <2> QED BY <1>7, <2>4
<1>10. ListEvents(s)' = Append(ListEvents(s), c)
  <2>1. /\ Append(ListEvents(s), c) \in Seq(Calls)
        /\ Len(Append(ListEvents(s), c)) = n
        /\ \A i \in 1 .. n - 1 : Append(ListEvents(s), c)[i] = ListEvents(s)[i]
        /\ Append(ListEvents(s), c)[n] = c
    BY <1>1, <1>8, AppendProperties
  <2>2. ASSUME NEW i \in 1 .. n PROVE ListEvents(s)'[i] = Append(ListEvents(s), c)[i]
    <3>1. CASE i = n
      BY <3>1, <1>1, <1>5, <1>7, <2>1
    <3>2. CASE i \in 1 .. n - 1
      BY <3>2, <1>4, <1>6, <1>7, <2>1
    <3>3. i = n \/ i \in 1 .. n - 1  BY <1>1
    <3> QED BY <3>1, <3>2, <3>3
  <2>3. Len(ListEvents(s)') = Len(Append(ListEvents(s), c))  BY <1>9, <2>1
  <2>4. \A i \in 1 .. Len(ListEvents(s)') : ListEvents(s)'[i] = Append(ListEvents(s), c)[i]
    BY <1>9, <2>2
  <2> QED BY ONLY <1>9, <2>1, <2>3, <2>4, SeqEqual
<1>11. ASSUME NEW t \in Sessions, t # s PROVE ListEvents(t)' = ListEvents(t)
  <2>1. events'[t] = events[t] /\ nextSeq'[t] = nextSeq[t] /\ row'[t] = row[t]
    BY <1>1, <1>2, <1>11 DEF IInv, TypeOK
  <2> QED BY <2>1 DEF ListEvents
<1>12. AbsList' = [t \in Sessions |-> ListEvents(t)']
  BY DEF AbsList
<1>13. AbsList' = [AbsList EXCEPT ![s] = Append(@, c)]
  <2>1. AbsList[s] = ListEvents(s)  BY DEF AbsList
  <2>2. \A t \in Sessions : t # s => AbsList[t] = ListEvents(t)  BY DEF AbsList
  <2> QED BY <1>10, <1>11, <1>12, <2>1, <2>2 DEF AbsList
<1>14. AbsList[s] = ListEvents(s)
  BY DEF AbsList
<1> QED BY <1>1, <1>8, <1>13, <1>14


\* Steps that change no log and no result of a call.
LEMMA QuietSteps ==
  ASSUME IInv, NEW c \in Calls, SelectNextSeq(c) \/ UpdateNextSeq(c) \/ OtherWrite
  PROVE  UNCHANGED <<row, AbsList, AbsResult>>
<1>1. UNCHANGED <<row, AbsList>>
  BY ListsUnchanged DEF SelectNextSeq, UpdateNextSeq, OtherWrite
<1>2. ASSUME NEW d \in Calls PROVE ResultOf(d)' = ResultOf(d)
  BY DEF SelectNextSeq, UpdateNextSeq, OtherWrite, ResultOf, Failed, IInv, TypeOK
<1> QED BY <1>1, <1>2 DEF AbsResult

LEMMA RollbackFails ==
  ASSUME IInv, NEW c \in Calls, NEW outcome \in {"failed", "conflict"},
         pc[c] \in InTransaction, Rollback(c, outcome)
  PROVE  AbsLog!AbsFail
<1>1. UNCHANGED <<row, AbsList>>
  BY ListsUnchanged DEF Rollback
<1>2. AbsResult[c] = 0 /\ {c} \in SUBSET Calls
  BY DEF AbsResult, ResultOf, InTransaction, Failed
<1>3. ASSUME NEW d \in Calls PROVE ResultOf(d)' = IF d \in {c} THEN -1 ELSE AbsResult[d]
  BY DEF Rollback, AbsResult, ResultOf, Failed, IInv, TypeOK
<1>4. AbsResult' = [d \in Calls |-> IF d \in {c} THEN -1 ELSE AbsResult[d]]
  BY <1>3 DEF AbsResult
<1> QED BY <1>1, <1>2, <1>4 DEF AbsLog!AbsFail, AbsList, AbsResult

LEMMA NoRowFails ==
  ASSUME IInv, NEW c \in Calls, SelectNoRow(c)
  PROVE  AbsLog!AbsFail
<1>1. UNCHANGED <<row, AbsList>>
  BY ListsUnchanged DEF SelectNoRow
<1>2. AbsResult[c] = 0 /\ {c} \in SUBSET Calls
  BY DEF AbsResult, ResultOf, SelectNoRow, Failed
<1>3. ASSUME NEW d \in Calls PROVE ResultOf(d)' = IF d \in {c} THEN -1 ELSE AbsResult[d]
  BY DEF SelectNoRow, AbsResult, ResultOf, Failed, IInv, TypeOK
<1>4. AbsResult' = [d \in Calls |-> IF d \in {c} THEN -1 ELSE AbsResult[d]]
  BY <1>3 DEF AbsResult
<1> QED BY <1>1, <1>2, <1>4 DEF AbsLog!AbsFail, AbsList, AbsResult

LEMMA CrashFails == ASSUME IInv, Crash PROVE AbsLog!AbsFail
<1> DEFINE F == {c \in Calls : pc[c] \in InTransaction}
<1>1. UNCHANGED <<row, AbsList>>
  BY ListsUnchanged DEF Crash
<1>2. F \in SUBSET Calls /\ \A c \in F : AbsResult[c] = 0
  BY DEF AbsResult, ResultOf, InTransaction, Failed
<1>3. ASSUME NEW d \in Calls PROVE ResultOf(d)' = IF d \in F THEN -1 ELSE AbsResult[d]
  BY DEF Crash, AbsResult, ResultOf, Failed, IInv, TypeOK
<1>4. AbsResult' = [d \in Calls |-> IF d \in F THEN -1 ELSE AbsResult[d]]
  BY <1>3 DEF AbsResult
<1> QED BY <1>1, <1>2, <1>4 DEF AbsLog!AbsFail, AbsList, AbsResult

LEMMA CommitAppendsOnce ==
  ASSUME IInv, NEW c \in Calls, NEW outcome \in {"ok", "unknown"}, CommitWith(c, outcome)
  PROVE  AbsLog!AppendReplying(c, target[c], IF outcome = "ok" THEN Len(AbsList[target[c]]) + 1 ELSE -1)
<1>1. /\ AbsList' = [AbsList EXCEPT ![target[c]] = Append(@, c)]
      /\ Len(AbsList[target[c]]) + 1 = seq[c]
      /\ row[target[c]] = "live" /\ row' = row
  BY ListAfterCommit DEF CommitWith
<1>2. AbsResult[c] = 0
  BY DEF AbsResult, ResultOf, CommitWith, Failed
<1>3. ASSUME NEW d \in Calls
      PROVE  ResultOf(d)' = IF d = c THEN IF outcome = "ok" THEN seq[c] ELSE -1 ELSE ResultOf(d)
  BY DEF CommitWith, ResultOf, Failed, IInv, TypeOK
<1>4. AbsResult' = [AbsResult EXCEPT ![c] = IF outcome = "ok" THEN seq[c] ELSE -1]
  BY <1>3 DEF AbsResult
<1> QED BY <1>1, <1>2, <1>4 DEF AbsLog!AppendReplying, AbsList, AbsResult

\* Every step maps to a step of AppendLog or to a stutter.
LEMMA StepRefines == IInv /\ [Next]_vars => [AbsLog!AbsNext]_(AbsLog!absVars)
<1> SUFFICES ASSUME IInv, [Next]_vars
             PROVE  AbsLog!AbsNext \/ UNCHANGED <<row, AbsList, AbsResult>>
  BY DEF AbsLog!absVars, AbsList, AbsResult
<1>1. CASE UNCHANGED vars
  BY <1>1, ListsUnchanged DEF vars, AbsResult, ResultOf
<1>2. ASSUME NEW s \in Sessions, CreateSession(s) PROVE AbsLog!AbsCreate(s)
  <2>1. UNCHANGED AbsResult  BY <1>2 DEF CreateSession, AbsResult, ResultOf
  <2>2. ASSUME NEW t \in Sessions PROVE ListEvents(t)' = ListEvents(t)
    BY <1>2 DEF CreateSession, ListEvents, IInv, TypeOK
  <2>3. UNCHANGED AbsList    BY <2>2 DEF AbsList
  <2> QED BY <1>2, <2>1, <2>3 DEF CreateSession, AbsLog!AbsCreate, AbsList, AbsResult
<1>3. ASSUME NEW s \in Sessions, DeleteSession(s) PROVE AbsLog!AbsDelete(s)
  <2>1. UNCHANGED AbsResult  BY <1>3 DEF DeleteSession, AbsResult, ResultOf
  <2>2. ListEvents(s)' = << >>
    BY <1>3 DEF DeleteSession, ListEvents, IInv, TypeOK
  <2>3. ASSUME NEW t \in Sessions, t # s PROVE ListEvents(t)' = ListEvents(t)
    BY <1>3, <2>3 DEF DeleteSession, ListEvents, IInv, TypeOK
  <2>4. AbsList' = [AbsList EXCEPT ![s] = << >>]  BY <2>2, <2>3 DEF AbsList
  <2> QED BY <1>3, <2>1, <2>4 DEF DeleteSession, AbsLog!AbsDelete, AbsList, AbsResult
<1>4. ASSUME NEW c \in Calls, Commit(c)
      PROVE  \E s \in Sessions : AbsLog!AbsAppend(c, s)
  <2>1. CommitWith(c, "ok") /\ target[c] \in Sessions  BY <1>4 DEF Commit, IInv, TypeOK
  <2>2. AbsLog!AppendReplying(c, target[c], Len(AbsList[target[c]]) + 1)
    BY <2>1, CommitAppendsOnce
  <2> QED BY <2>1, <2>2 DEF AbsLog!AbsAppend, AbsList
<1>5. ASSUME NEW c \in Calls, CommitReplyLost(c)
      PROVE  \E s \in Sessions : AbsLog!AbsAppendUnacknowledged(c, s)
  <2>1. CommitWith(c, "unknown") /\ target[c] \in Sessions
    BY <1>5 DEF CommitReplyLost, IInv, TypeOK
  <2>2. AbsLog!AppendReplying(c, target[c], -1)  BY <2>1, CommitAppendsOnce
  <2> QED BY <2>1, <2>2 DEF AbsLog!AbsAppendUnacknowledged
<1>6. ASSUME NEW c \in Calls, UpdateRefused(c) \/ Abort(c) \/ (InsertEvent(c) /\ SeqTaken(c))
      PROVE  AbsLog!AbsFail
  BY <1>6, RollbackFails DEF UpdateRefused, Abort, InsertEvent, InTransaction
<1>7. ASSUME NEW c \in Calls, InsertEvent(c), ~SeqTaken(c)
      PROVE  UNCHANGED <<row, AbsList, AbsResult>>
  <2>1. ASSUME NEW d \in Calls PROVE ResultOf(d)' = ResultOf(d)
    BY <1>7 DEF InsertEvent, ResultOf, Failed, IInv, TypeOK
  <2> QED BY <1>7, <2>1, ListsUnchanged DEF InsertEvent, AbsResult
<1>8. CASE OtherWrite
  BY <1>8, ListsUnchanged DEF OtherWrite, AbsResult, ResultOf
<1> QED
  BY <1>1, <1>2, <1>3, <1>4, <1>5, <1>6, <1>7, <1>8, QuietSteps, NoRowFails, CrashFails
     DEF Next, AppendStep, AbsLog!AbsNext

\* AppendEvent, with its transaction, its row lock and its rollbacks,
\* implements the atomic append of AppendLog: callers and readers
\* may reason as if every publish appended its event in one step.
THEOREM AppendEventIsAtomic == Spec => ImplementsAppendLog
<1>1. Init => AbsLog!AbsInit
  <2> SUFFICES ASSUME Init PROVE AbsLog!AbsInit
    OBVIOUS
  <2>1. ASSUME NEW s \in Sessions PROVE ListEvents(s) = << >>
    BY DEF Init, ListEvents
  <2>2. ASSUME NEW c \in Calls PROVE ResultOf(c) = 0
    BY DEF Init, ResultOf, Failed
  <2> QED BY <2>1, <2>2 DEF Init, AbsLog!AbsInit
<1>2. IInv /\ [Next]_vars => [AbsLog!AbsNext]_(AbsLog!absVars)
  BY StepRefines
<1> QED BY <1>1, <1>2, Inductive, PTL DEF Spec, ImplementsAppendLog, AbsLog!AbsSpec
=============================================================================
