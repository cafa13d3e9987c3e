----------------------------- MODULE AppendLog -----------------------------
(***************************************************************************)
(* What the event store promises its callers, with no database in sight:   *)
(* every session owns one sequence of events.  A publish call either       *)
(* appends its event at the end of that sequence, in one step, and is told *)
(* the position, or it is told that it failed.  Events are never edited,   *)
(* reordered or removed, except when the whole session is deleted.         *)
(*                                                                         *)
(* EventLog is the detailed specification that implements this one.        *)
(***************************************************************************)
EXTENDS Integers, Sequences

CONSTANTS Calls,          \* one element per call of Store.AppendEvent
          Sessions        \* session ids

VARIABLES row,            \* row[s]: "absent", "live" or "deleted"
          log,            \* log[s]: the events of s, oldest first (call ids)
          result          \* result[c]: 0 undecided, -1 error, n > 0 the seq

absVars == <<row, log, result>>

AbsInit ==
  /\ row = [s \in Sessions |-> "absent"]
  /\ log = [s \in Sessions |-> << >>]
  /\ result = [c \in Calls |-> 0]

AbsCreate(s) ==
  /\ row[s] = "absent"
  /\ row' = [row EXCEPT ![s] = "live"]
  /\ UNCHANGED <<log, result>>

AbsDelete(s) ==
  /\ row[s] = "live"
  /\ row' = [row EXCEPT ![s] = "deleted"]
  /\ log' = [log EXCEPT ![s] = << >>]
  /\ UNCHANGED result

(* The event takes effect; "reply" is the value the caller gets back. *)
AppendReplying(c, s, reply) ==
  /\ result[c] = 0
  /\ row[s] = "live"
  /\ log' = [log EXCEPT ![s] = Append(@, c)]
  /\ result' = [result EXCEPT ![c] = reply]
  /\ UNCHANGED row

AbsAppend(c, s) == AppendReplying(c, s, Len(log[s]) + 1)

\* The reply to a successful append may be lost on its way to the caller.
AbsAppendUnacknowledged(c, s) == AppendReplying(c, s, -1)

(* Some undecided calls fail (one, or, at a crash, all of them). *)
AbsFail ==
  /\ \E F \in SUBSET Calls :
       /\ \A c \in F : result[c] = 0
       /\ result' = [c \in Calls |-> IF c \in F THEN -1 ELSE result[c]]
  /\ UNCHANGED <<row, log>>

AbsNext ==
  \/ \E s \in Sessions : AbsCreate(s) \/ AbsDelete(s)
  \/ \E c \in Calls, s \in Sessions : AbsAppend(c, s) \/ AbsAppendUnacknowledged(c, s)
  \/ AbsFail

AbsSpec == AbsInit /\ [][AbsNext]_absVars
=============================================================================
