----------------------- MODULE WebhookDeliveryProofs -----------------------
(***************************************************************************)
(* Proofs about WebhookDelivery, for any endpoints, events, number of      *)
(* delays, size of a batch, and any number of crashes and failed           *)
(* statements.                                                             *)
(***************************************************************************)
EXTENDS WebhookDelivery, TLAPS

Jobs == Deliveries \X (0 .. Delays)
Busy == {"post", "refuse", "accepted", "rejected"}

\* An endpoint that has never been, or is still there, has left no trace of a
\* delivery that is not in the table: nothing was posted, lost or refused.
CleanInv ==
  \A d \in Deliveries \ DOMAIN rows :
    endpoint[d[2]].there # "deleted" => tally.posts[d] = 0 /\ tally.unmarked[d] = 0 /\ d \notin tally.refused

\* The hook of an event has inserted no row yet for the endpoints it still goes
\* through, and none at all before it has read the last of them; those it has gone
\* through and that matched have their row.
HookInv(ev) ==
  LET h == hook[ev]
      Inserted(e) == <<ev, e>> \in DOMAIN rows
  IN
  /\ h.ids \cup h.matched \subseteq h.listed /\ h.ids \cap h.matched = {}
  /\ \A e \in h.listed : endpoint[e].there # "never"
  /\ \A e \in h.ids \cup h.matched : ~Inserted(e)
  /\ h.pc \in {"none", "started"} => h.listed = {}
  /\ h.pc \in {"none", "started", "failed", "unread"} \/ h.ids # {} => \A e \in Endpoints : ~Inserted(e)
  /\ h.pc \in {"listing", "done"} =>
       \A e \in h.listed :
         There(e) /\ ev \in endpoint[e].wants => e \in h.ids \cup h.matched \/ <<ev, e>> \in DOMAIN rows \cup tally.unqueued
  /\ h.pc = "done" => h.ids \cup h.matched = {}
  /\ h.pc = "failed" => \E e \in h.listed : endpoint[e].there = "deleted"

\* What the worker has read of a row still holds, unless the row is gone with
\* its endpoint: nobody else settles a row or counts its attempts.
Current(job) ==
  /\ endpoint[job[1][2]].there # "never"
  /\ There(job[1][2]) => job[1] \in DOMAIN rows
  /\ job[1] \in DOMAIN rows => ~rows[job[1]].settled /\ rows[job[1]].attempt = job[2]
WorkerInv ==
  /\ \A job \in worker.batch : Current(job)
  /\ worker.pc \in Busy => worker.job \in Jobs \ worker.batch /\ Current(worker.job)
  /\ worker.pc \in {"count", "reset"} => worker.job \in Jobs
  /\ worker.pc = "accepted" => worker.answer = "2xx"

\* A POST after the deletion was the last one that the worker had in hand.
LateInv ==
  \A e \in Endpoints :
    tally.late[e] > 0 => /\ tally.late[e] = 1 /\ endpoint[e].there = "deleted"
                         /\ ~(worker.pc = "post" /\ worker.job[1][2] = e)

\* What is refused is settled.
RefusedInv == \A d \in DOMAIN rows : d \in tally.refused => rows[d].settled

IInv ==
  /\ TypeOK /\ CleanInv /\ (\A ev \in Events : HookInv(ev)) /\ WorkerInv /\ LateInv /\ RefusedInv
  /\ PostsAccounted /\ NotDropped

HookStates == [pc : {"none", "started", "listing", "done", "failed", "unread", "lost"},
               ids : SUBSET Endpoints, listed : SUBSET Endpoints, matched : SUBSET Endpoints]
Answers == {"none", "2xx", "other", "error"}
WorkerStates == [pc : {"idle", "next", "count", "reset"} \cup Busy, batch : SUBSET Jobs,
                 job : Jobs \cup {NoJob}, answer : Answers]
Row == [attempt : 0 .. Delays, due : BOOLEAN, settled : BOOLEAN, answer : Answers]
Tallies == [posts : [Deliveries -> Nat], unmarked : [Deliveries -> Nat], refused : SUBSET Deliveries,
            unqueued : SUBSET Deliveries, late : [Endpoints -> Nat], troubles : 0 .. MaxTroubles]

Types ==
  /\ endpoint \in [Endpoints -> [there : {"never", "live", "deleted"}, wants : SUBSET Events, failures : Nat]]
  /\ hook \in [Events -> HookStates]
  /\ DOMAIN rows \subseteq Deliveries /\ \A d \in DOMAIN rows : There(d[2]) /\ rows[d] \in Row
  /\ worker \in WorkerStates /\ tally \in Tallies

LEMMA Typed == (TypeOK <=> Types) /\ (TypeOK' <=> Types')
BY DEF TypeOK, Types, HookStates, Answers, WorkerStates, Row, Tallies, Jobs, Busy, There

(***************************************************************************)
(* The hook of one event.                                                  *)
(***************************************************************************)
\* A step of the hook of ev that inserts nothing leaves the rest as it is.
LEMMA HookMoves ==
  ASSUME IInv, NEW ev \in Events, NEW h \in HookStates, hook' = [hook EXCEPT ![ev] = h],
         UNCHANGED <<endpoint, rows, worker>>, HookInv(ev)',
         \/ UNCHANGED tally
         \/ tally.troubles < MaxTroubles /\ tally' = [tally EXCEPT !.troubles = @ + 1]
  PROVE  IInv'
<1>0. /\ tally \in Tallies /\ tally' \in Tallies
      /\ tally'.posts = tally.posts /\ tally'.unmarked = tally.unmarked /\ tally'.late = tally.late
      /\ tally'.refused = tally.refused /\ tally'.unqueued = tally.unqueued
  <2>1. tally \in Tallies
    BY Typed DEF IInv, Types
  <2>2. tally.troubles < MaxTroubles => tally.troubles + 1 \in 0 .. MaxTroubles
    BY <2>1, WebhookAssumption DEF Tallies
  <2> QED BY <2>1, <2>2 DEF Tallies
<1>1. TypeOK'
  BY <1>0, Typed DEF IInv, Types, There
<1>2. \A w \in Events : HookInv(w)'
  <2>1. \A w \in Events \ {ev} : hook'[w] = hook[w] /\ HookInv(w)
    BY DEF IInv, TypeOK
  <2>2. \A w \in Events \ {ev} : HookInv(w)'
    BY <1>0, <2>1 DEF HookInv, There
  <2> QED BY <2>2
<1>3. CleanInv' /\ WorkerInv' /\ LateInv' /\ RefusedInv' /\ PostsAccounted' /\ NotDropped'
  BY <1>0 DEF IInv, CleanInv, WorkerInv, Current, There, LateInv, RefusedInv, PostsAccounted, Answered, NotDropped
<1> QED BY <1>1, <1>2, <1>3 DEF IInv

LEMMA PublishIInv == ASSUME IInv, NEW ev \in Events, Publish(ev) PROVE IInv'
<1> DEFINE h == [hook[ev] EXCEPT !.pc = "started"]
<1>1. hook \in [Events -> HookStates] /\ HookInv(ev)
  BY Typed DEF IInv, Types
<1>2. h \in HookStates /\ hook' = [hook EXCEPT ![ev] = h]
  BY <1>1 DEF Publish, HookStates
<1>3. HookInv(ev)'
  BY <1>1, <1>2 DEF HookInv, Publish, HookStates, There
<1> QED BY <1>2, <1>3, HookMoves DEF Publish

LEMMA ListIdsIInv == ASSUME IInv, NEW ev \in Events, ListIds(ev) PROVE IInv'
<1> DEFINE ids == {e \in Endpoints : There(e)}
           h == [hook[ev] EXCEPT !.pc = "listing", !.ids = ids, !.listed = ids]
<1>1. hook \in [Events -> HookStates] /\ HookInv(ev)
  BY Typed DEF IInv, Types
<1>2. h \in HookStates /\ hook' = [hook EXCEPT ![ev] = h]
  BY <1>1 DEF ListIds, HookStates
<1>3. hook[ev].listed = {} /\ hook[ev].matched = {}
  BY <1>1 DEF HookInv, ListIds, HookStates
<1>4. h.pc = "listing" /\ h.ids = ids /\ h.listed = ids /\ h.matched = {} /\ hook'[ev] = h
  BY <1>1, <1>2, <1>3 DEF HookStates
<1>5. HookInv(ev)'
  BY <1>1, <1>4 DEF HookInv, ListIds, There
<1> QED BY <1>2, <1>5, HookMoves DEF ListIds

LEMMA GetEndpointIInv == ASSUME IInv, NEW ev \in Events, GetEndpoint(ev) PROVE IInv'
<1>1. hook \in [Events -> HookStates] /\ HookInv(ev) /\ endpoint \in [Endpoints -> [there : {"never", "live", "deleted"}, wants : SUBSET Events, failures : Nat]]
  BY Typed DEF IInv, Types
<1> DEFINE wanting(e) == IF ev \in endpoint[e].wants THEN {e} ELSE {}
<1>2. PICK e \in hook[ev].ids :
        hook' = IF There(e)
                THEN [hook EXCEPT ![ev] = [@ EXCEPT !.ids = hook[ev].ids \ {e}, !.matched = hook[ev].matched \cup wanting(e)]]
                ELSE [hook EXCEPT ![ev].pc = "failed"]
  BY DEF GetEndpoint
<1>3. e \in Endpoints
  BY <1>1 DEF HookStates
<1>4. CASE There(e)
  <2> DEFINE matched == hook[ev].matched \cup wanting(e)
             h == [hook[ev] EXCEPT !.ids = @ \ {e}, !.matched = matched]
  <2>1. wanting(e) \subseteq {e} /\ (ev \in endpoint[e].wants => e \in wanting(e))
    OBVIOUS
  <2> HIDE DEF wanting
  <2>2. h \in HookStates
    BY <1>1, <1>3, <2>1 DEF HookStates
  <2>3. hook' = [hook EXCEPT ![ev] = h]
    BY <1>1, <1>2, <1>4 DEF HookStates
  <2>4. /\ h.pc = "listing" /\ h.ids = hook[ev].ids \ {e} /\ h.listed = hook[ev].listed /\ h.matched = matched
        /\ hook'[ev] = h
    <3>1. h.pc = "listing" /\ h.ids = hook[ev].ids \ {e} /\ h.listed = hook[ev].listed /\ h.matched = matched
      BY <1>1 DEF HookStates, GetEndpoint
    <3> HIDE DEF h
    <3> QED BY <1>1, <2>3, <3>1
  <2>5. HookInv(ev)'
    <3>1. UNCHANGED <<endpoint, rows, tally>> /\ hook[ev].pc = "listing"
      BY DEF GetEndpoint
    <3> HIDE DEF h
    <3> QED BY <1>1, <2>1, <2>4, <3>1 DEF HookInv, There
  <2> QED BY <2>2, <2>3, <2>5, HookMoves DEF GetEndpoint
<1>5. CASE ~There(e)
  <2> DEFINE h == [hook[ev] EXCEPT !.pc = "failed"]
  <2>1. h \in HookStates /\ hook' = [hook EXCEPT ![ev] = h]
    BY <1>1, <1>2, <1>5 DEF HookStates
  <2>2. endpoint[e].there = "deleted" /\ e \in hook[ev].listed
    BY <1>1, <1>3, <1>5 DEF HookInv, There
  <2>3. HookInv(ev)'
    BY <1>1, <2>1, <2>2 DEF HookInv, GetEndpoint, There, HookStates
  <2> QED BY <2>1, <2>3, HookMoves DEF GetEndpoint
<1> QED BY <1>4, <1>5

LEMMA ListingFailsIInv == ASSUME IInv, NEW ev \in Events, ListingFails(ev) PROVE IInv'
<1> DEFINE h == [hook[ev] EXCEPT !.pc = "unread"]
<1>1. hook \in [Events -> HookStates] /\ HookInv(ev)
  BY Typed DEF IInv, Types
<1>2. h \in HookStates /\ hook' = [hook EXCEPT ![ev] = h]
  BY <1>1 DEF ListingFails, HookStates
<1>3. /\ h.pc = "unread" /\ h.ids = hook[ev].ids /\ h.listed = hook[ev].listed /\ h.matched = hook[ev].matched
      /\ hook'[ev] = h
  BY <1>1, <1>2 DEF HookStates
<1>4. UNCHANGED <<endpoint, rows>> /\ \A e \in Endpoints : <<ev, e>> \notin DOMAIN rows
  BY <1>1 DEF ListingFails, HookInv
<1>5. HookInv(ev)'
  BY <1>1, <1>3, <1>4 DEF HookInv, There
<1> QED BY <1>2, <1>5, HookMoves DEF ListingFails

LEMMA EnqueuedIInv == ASSUME IInv, NEW ev \in Events, Enqueued(ev) PROVE IInv'
<1> DEFINE h == [hook[ev] EXCEPT !.pc = "done"]
<1>1. hook \in [Events -> HookStates] /\ HookInv(ev)
  BY Typed DEF IInv, Types
<1>2. h \in HookStates /\ hook' = [hook EXCEPT ![ev] = h]
  BY <1>1 DEF Enqueued, HookStates
<1>3. HookInv(ev)'
  BY <1>1, <1>2 DEF HookInv, Enqueued, HookStates, There
<1> QED BY <1>2, <1>3, HookMoves DEF Enqueued

LEMMA EnqueueIInv == ASSUME IInv, NEW ev \in Events, Enqueue(ev) PROVE IInv'
<1>1. /\ hook \in [Events -> HookStates] /\ HookInv(ev)
      /\ DOMAIN rows \subseteq Deliveries /\ \A d \in DOMAIN rows : There(d[2]) /\ rows[d] \in Row
      /\ tally \in Tallies
  BY Typed DEF IInv, Types
<1>2. PICK e \in hook[ev].matched, written \in BOOLEAN :
       /\ written \/ tally.troubles < MaxTroubles
       /\ rows' = IF There(e) /\ written
                  THEN [d \in DOMAIN rows \cup {<<ev, e>>} |->
                          IF d = <<ev, e>> THEN [attempt |-> 0, due |-> TRUE, settled |-> FALSE, answer |-> "none"]
                          ELSE rows[d]]
                  ELSE rows
       /\ tally' = IF written THEN tally
                   ELSE [tally EXCEPT !.troubles = @ + 1, !.unqueued = @ \cup {<<ev, e>>}]
       /\ hook' = [hook EXCEPT ![ev].matched = @ \ {e}]
  BY DEF Enqueue
<1> DEFINE new == <<ev, e>>
           h == [hook[ev] EXCEPT !.matched = @ \ {e}]
<1>3. e \in Endpoints /\ new \in Deliveries /\ new \notin DOMAIN rows /\ new[1] = ev /\ new[2] = e
  BY <1>1 DEF HookStates, HookInv, Deliveries
<1>4. /\ h \in HookStates /\ hook' = [hook EXCEPT ![ev] = h] /\ hook'[ev] = h
      /\ h.pc = hook[ev].pc /\ h.ids = hook[ev].ids /\ h.listed = hook[ev].listed /\ h.matched = hook[ev].matched \ {e}
  BY <1>1, <1>2 DEF HookStates
<1>5. /\ tally' \in Tallies /\ tally'.posts = tally.posts /\ tally'.unmarked = tally.unmarked
      /\ tally'.refused = tally.refused /\ tally'.late = tally.late
      /\ tally.unqueued \subseteq tally'.unqueued
      /\ ~written => new \in tally'.unqueued
  <2>1. CASE written
    BY <1>1, <1>2, <2>1
  <2>2. CASE ~written
    <3>1. tally' = [tally EXCEPT !.troubles = @ + 1, !.unqueued = @ \cup {new}]
      BY <1>2, <2>2
    <3>2. tally.troubles + 1 \in 0 .. MaxTroubles
      BY <1>1, <1>2, <2>2, WebhookAssumption DEF Tallies
    <3> QED BY <1>1, <1>3, <3>1, <3>2, <2>2 DEF Tallies
  <2> QED BY <2>1, <2>2
<1>6. /\ \A d \in DOMAIN rows : d \in DOMAIN rows' /\ rows'[d] = rows[d]
      /\ \A d \in DOMAIN rows' \ DOMAIN rows :
           /\ d = new /\ There(e)
           /\ rows'[d] \in Row /\ rows'[d].attempt = 0 /\ ~rows'[d].settled
      /\ There(e) /\ written => new \in DOMAIN rows'
  <2>1. CASE There(e) /\ written
    BY <1>2, <1>3, <2>1, WebhookAssumption DEF Row, Answers
  <2>2. CASE ~(There(e) /\ written)
    BY <1>2, <2>2
  <2> QED BY <2>1, <2>2
<1>7. endpoint' = endpoint /\ worker' = worker /\ hook[ev].pc = "listing" /\ hook[ev].ids = {}
  BY DEF Enqueue
<1>8. TypeOK'
  <2>1. Types
    BY Typed DEF IInv
  <2>2. hook' \in [Events -> HookStates]
    BY <1>1, <1>4
  <2>3. DOMAIN rows' \subseteq Deliveries /\ \A d \in DOMAIN rows' : There(d[2]) /\ rows'[d] \in Row
    BY <1>1, <1>3, <1>6
  <2> QED BY <1>5, <1>7, <2>1, <2>2, <2>3, Typed DEF Types, There
<1>9. CleanInv' /\ RefusedInv'
  BY <1>3, <1>5, <1>6, <1>7 DEF IInv, CleanInv, RefusedInv, There
<1>10. \A w \in Events \ {ev} : HookInv(w)'
  <2>1. \A w \in Events \ {ev} : hook'[w] = hook[w] /\ HookInv(w)
    BY <1>1, <1>4 DEF IInv
  <2>2. \A w \in Events \ {ev}, f \in Endpoints : <<w, f>> \in DOMAIN rows' <=> <<w, f>> \in DOMAIN rows
    BY <1>3, <1>6
  <2> QED BY <1>1, <1>5, <1>7, <2>1, <2>2 DEF HookInv, There, HookStates
<1>11. HookInv(ev)'
  <2>1. \A f \in Endpoints \ {e} : <<ev, f>> \in DOMAIN rows' <=> <<ev, f>> \in DOMAIN rows
    BY <1>3, <1>6
  <2> QED BY <1>1, <1>3, <1>4, <1>5, <1>6, <1>7, <2>1 DEF HookInv, There, HookStates
<1>12. WorkerInv'
  BY <1>3, <1>6, <1>7 DEF IInv, WorkerInv, Current, There
<1>13. LateInv'
  BY <1>5, <1>7 DEF IInv, LateInv
<1>14. PostsAccounted'
  <2>1. There(e) => tally.posts[new] = 0 /\ tally.unmarked[new] = 0
    BY <1>3 DEF IInv, CleanInv, There
  <2>2. There(e) => ~Answered(new)
    BY <1>3 DEF IInv, WorkerInv, Current, Answered, Busy
  <2> QED BY <1>5, <1>6, <1>7, <2>1, <2>2 DEF IInv, PostsAccounted, Answered
<1>15. NotDropped'
  BY <1>5, <1>6 DEF IInv, NotDropped
<1> QED BY <1>8, <1>9, <1>10, <1>11, <1>12, <1>13, <1>14, <1>15 DEF IInv

(***************************************************************************)
(* The worker reads rows and endpoints.                                    *)
(***************************************************************************)
\* A step of the worker that writes nothing, and starts no POST to an endpoint
\* that is gone.
LEMMA WorkerReads ==
  ASSUME IInv, UNCHANGED <<endpoint, hook, rows, tally>>, worker' \in WorkerStates, WorkerInv',
         {worker.pc, worker'.pc} \cap {"accepted", "rejected"} = {},
         worker'.pc = "post" => There(worker'.job[1][2])
  PROVE  IInv'
<1>1. TypeOK'
  BY Typed DEF IInv, Types, There
<1>2. \A ev \in Events : HookInv(ev)'
  BY DEF IInv, HookInv, There
<1>3. CleanInv' /\ RefusedInv' /\ NotDropped' /\ PostsAccounted' /\ LateInv'
  BY DEF IInv, CleanInv, RefusedInv, NotDropped, PostsAccounted, Answered, LateInv, There
<1> QED BY <1>1, <1>2, <1>3 DEF IInv

LEMMA ClaimIInv == ASSUME IInv, Claim PROVE IInv'
<1>1. /\ worker \in WorkerStates /\ DOMAIN rows \subseteq Deliveries
      /\ \A d \in DOMAIN rows : There(d[2]) /\ rows[d] \in Row
  BY Typed DEF IInv, Types
<1>2. PICK batch \in kSubset(Min({BatchLimit, Cardinality(Due)}), Due) :
        worker' = [worker EXCEPT !.pc = "next", !.batch = {<<d, rows[d].attempt>> : d \in batch}]
  BY DEF Claim
<1> DEFINE jobs == {<<d, rows[d].attempt>> : d \in batch}
<1>3. batch \subseteq Due
  BY DEF kSubset
<1>4. \A d \in Due : d \in DOMAIN rows /\ ~rows[d].settled /\ There(d[2]) /\ rows[d].attempt \in 0 .. Delays
  BY <1>1 DEF Due, Row
<1>5. jobs \subseteq Jobs /\ \A job \in jobs : Current(job)
  <2>1. \A d \in batch : <<d, rows[d].attempt>> \in Jobs /\ Current(<<d, rows[d].attempt>>)
    BY <1>1, <1>3, <1>4 DEF Jobs, Current, There
  <2> QED BY <2>1
<1>6. worker'.pc = "next" /\ worker'.batch = jobs /\ worker' \in WorkerStates
  BY <1>1, <1>2, <1>5 DEF WorkerStates
<1>7. WorkerInv'
  BY <1>5, <1>6 DEF WorkerInv, Busy, Current, There, Claim
<1> QED BY <1>6, <1>7, WorkerReads DEF Claim

LEMMA BatchDoneIInv == ASSUME IInv, BatchDone PROVE IInv'
<1>1. worker' = IdleWorker /\ worker' \in WorkerStates
  BY DEF BatchDone, IdleWorker, WorkerStates, Answers
<1>2. WorkerInv'
  BY <1>1 DEF IdleWorker, WorkerInv, Busy
<1> QED BY <1>1, <1>2, WorkerReads DEF IdleWorker, BatchDone

LEMMA TakeIInv == ASSUME IInv, Take PROVE IInv'
<1>1. worker \in WorkerStates /\ WorkerInv /\ worker.pc = "next"
  BY Typed DEF IInv, Types, Take
<1>2. PICK job \in worker.batch, addresses \in Addresses :
        worker' = [worker EXCEPT !.batch = @ \ {job},
                     !.pc = IF ~There(job[1][2]) THEN "next" ELSE IF Refused(addresses) THEN "refuse" ELSE "post",
                     !.job = IF There(job[1][2]) THEN job ELSE NoJob]
  BY DEF Take
<1>3. job \in Jobs /\ Current(job)
  BY <1>1 DEF WorkerStates, WorkerInv
<1>4. /\ worker'.batch = worker.batch \ {job} /\ worker' \in WorkerStates
      /\ \/ There(job[1][2]) /\ worker'.job = job /\ worker'.pc \in {"post", "refuse"}
         \/ worker'.pc = "next"
  <2>1. CASE There(job[1][2]) /\ Refused(addresses)
    <3>1. worker' = [worker EXCEPT !.batch = @ \ {job}, !.pc = "refuse", !.job = job]
      BY <1>2, <2>1
    <3> QED BY <1>1, <1>3, <2>1, <3>1 DEF WorkerStates, Busy
  <2>2. CASE There(job[1][2]) /\ ~Refused(addresses)
    <3>1. worker' = [worker EXCEPT !.batch = @ \ {job}, !.pc = "post", !.job = job]
      BY <1>2, <2>2
    <3> QED BY <1>1, <1>3, <2>2, <3>1 DEF WorkerStates, Busy
  <2>3. CASE ~There(job[1][2])
    <3>1. worker' = [worker EXCEPT !.batch = @ \ {job}, !.pc = "next", !.job = NoJob]
      BY <1>2, <2>3
    <3> QED BY <1>1, <1>3, <3>1 DEF WorkerStates, Busy
  <2> QED BY <2>1, <2>2, <2>3
<1>5. WorkerInv'
  BY <1>1, <1>3, <1>4 DEF WorkerInv, Busy, Current, There, Take
<1> QED BY <1>1, <1>4, <1>5, WorkerReads DEF Take

(***************************************************************************)
(* The worker posts, and writes what came of it.                           *)
(***************************************************************************)
LEMMA PostIInv == ASSUME IInv, Post PROVE IInv'
<1> DEFINE d == worker.job[1]
<1>1. worker \in WorkerStates /\ tally \in Tallies /\ worker.pc = "post" /\ WorkerInv /\ LateInv
      /\ endpoint \in [Endpoints -> [there : {"never", "live", "deleted"}, wants : SUBSET Events, failures : Nat]]
  BY Typed DEF IInv, Types, Post
<1>2. worker.job \in Jobs \ worker.batch /\ Current(worker.job) /\ d \in Deliveries /\ d[2] \in Endpoints
  BY <1>1 DEF WorkerInv, Busy, Jobs, Deliveries
<1>3. PICK answer \in {"2xx", "other", "error"} :
        worker' = [worker EXCEPT !.pc = IF answer = "2xx" THEN "accepted" ELSE "rejected", !.answer = answer]
  BY DEF Post
<1>4. /\ worker' \in WorkerStates /\ worker'.job = worker.job /\ worker'.batch = worker.batch
      /\ worker'.pc \in {"accepted", "rejected"} /\ (worker'.pc = "accepted" => worker'.answer = "2xx")
  BY <1>1, <1>3 DEF WorkerStates, Busy, Answers
<1>5. /\ tally' \in Tallies
      /\ tally'.unmarked = tally.unmarked /\ tally'.refused = tally.refused /\ tally'.unqueued = tally.unqueued
      /\ There(d[2]) => tally'.posts = [tally.posts EXCEPT ![d] = @ + 1] /\ tally'.late = tally.late
      /\ ~There(d[2]) => tally'.posts = tally.posts /\ tally'.late = [tally.late EXCEPT ![d[2]] = @ + 1]
  <2>1. CASE There(d[2])
    <3>1. tally' = [tally EXCEPT !.posts[d] = @ + 1]
      BY <2>1 DEF Post
    <3> QED BY <1>1, <1>2, <2>1, <3>1 DEF Tallies
  <2>2. CASE ~There(d[2])
    <3>1. tally' = [tally EXCEPT !.late[d[2]] = @ + 1]
      BY <2>2 DEF Post
    <3>2. [tally.late EXCEPT ![d[2]] = @ + 1] \in [Endpoints -> Nat]
      BY <1>1, <1>2 DEF Tallies
    <3> QED BY <1>1, <2>2, <3>1, <3>2 DEF Tallies
  <2> QED BY <2>1, <2>2
<1>6. UNCHANGED <<endpoint, hook, rows>>
  BY DEF Post
<1>7. TypeOK'
  BY <1>4, <1>5, <1>6, Typed DEF IInv, Types, There
<1>8. \A ev \in Events : HookInv(ev)'
  BY <1>5, <1>6 DEF IInv, HookInv, There
<1>9. WorkerInv'
  BY <1>1, <1>2, <1>4, <1>6 DEF WorkerInv, Current, There
<1>10. CleanInv' /\ RefusedInv' /\ NotDropped'
  BY <1>1, <1>2, <1>5, <1>6 DEF IInv, CleanInv, RefusedInv, NotDropped, Current, There, Tallies
<1>11. PostsAccounted'
  <2>1. \A c \in DOMAIN rows : ~Answered(c) /\ (Answered(c)' <=> c = d) /\ There(c[2]) /\ c \in Deliveries
    BY <1>1, <1>4, Typed DEF Answered, IInv, Types
  <2>2. \A c \in DOMAIN rows : tally'.posts[c] = IF c = d THEN tally.posts[c] + 1 ELSE tally.posts[c]
    BY <1>1, <1>2, <1>5, <2>1 DEF Tallies
  <2>3. \A c \in DOMAIN rows : tally.unmarked[c] \in Nat /\ rows[c].attempt \in Nat
    BY <1>1, <2>1, Typed, WebhookAssumption DEF Tallies, IInv, Types, Row
  <2> QED BY <1>5, <1>6, <2>1, <2>2, <2>3 DEF IInv, PostsAccounted
<1>12. LateInv'
  <2>1. tally.late \in [Endpoints -> Nat]
    BY <1>1 DEF Tallies
  <2>2. ~There(d[2]) => endpoint[d[2]].there = "deleted" /\ tally.late[d[2]] = 0
    BY <1>1, <1>2, <2>1 DEF LateInv, Current, There
  <2> QED BY <1>1, <1>2, <1>4, <1>5, <1>6, <2>1, <2>2 DEF LateInv
<1> QED BY <1>7, <1>8, <1>9, <1>10, <1>11, <1>12 DEF IInv

\* The worker leaves the row of its job with the accounts in order, whether the
\* row is still there or not, and whether the statement worked or not.
LEMMA RowWritten ==
  ASSUME IInv, NEW d, d = worker.job[1], worker.pc \in {"refuse", "accepted", "rejected"},
         UNCHANGED <<endpoint, hook>>, DOMAIN rows' = DOMAIN rows, \A c \in DOMAIN rows \ {d} : rows'[c] = rows[c],
         tally' \in Tallies, tally'.posts = tally.posts, tally'.late = tally.late, tally'.unqueued = tally.unqueued,
         \A c \in Deliveries \ {d} : tally'.unmarked[c] = tally.unmarked[c] /\ (c \in tally'.refused <=> c \in tally.refused),
         worker' \in WorkerStates, worker'.pc \in {"next", "count", "reset"}, worker'.batch = worker.batch,
         worker'.pc # "next" => worker'.job = worker.job,
         d \in DOMAIN rows =>
           /\ rows'[d] \in Row
           /\ tally.posts[d] = rows'[d].attempt + tally'.unmarked[d]
                               + (IF rows'[d].settled /\ d \notin tally'.refused THEN 1 ELSE 0)
           /\ d \in tally'.refused => rows'[d].settled
           /\ rows'[d].settled => rows'[d].answer = "2xx" \/ rows'[d].attempt = Delays \/ d \in tally'.refused
  PROVE  IInv'
<1>1. /\ worker \in WorkerStates /\ WorkerInv /\ DOMAIN rows \subseteq Deliveries
      /\ \A c \in DOMAIN rows : There(c[2]) /\ rows[c] \in Row
      /\ endpoint \in [Endpoints -> [there : {"never", "live", "deleted"}, wants : SUBSET Events, failures : Nat]]
  BY Typed DEF IInv, Types
<1>2. worker.job \in Jobs \ worker.batch /\ Current(worker.job) /\ d \in Deliveries /\ d[2] \in Endpoints
  BY <1>1 DEF WorkerInv, Busy, Jobs, Deliveries
<1>3. TypeOK'
  <2>1. \A c \in DOMAIN rows' : There(c[2])' /\ rows'[c] \in Row
    BY <1>1 DEF There
  <2> QED BY <2>1, Typed DEF IInv, Types
<1>4. \A ev \in Events : HookInv(ev)'
  BY DEF IInv, HookInv, There
<1>5. WorkerInv'
  <2>1. \A job \in worker.batch : job \in Jobs /\ (job[1] = d => d \notin DOMAIN rows)
    BY <1>1, <1>2 DEF WorkerInv, Current, WorkerStates, Jobs
  <2> QED BY <1>1, <1>2, <2>1 DEF WorkerInv, Current, Busy, There
<1>6. CleanInv'
  <2>1. d \notin DOMAIN rows => endpoint[d[2]].there = "deleted"
    BY <1>1, <1>2 DEF Current, There
  <2> QED BY <2>1 DEF IInv, CleanInv
<1>7. RefusedInv' /\ NotDropped'
  BY <1>1 DEF IInv, RefusedInv, NotDropped
<1>8. PostsAccounted'
  <2>1. \A c \in DOMAIN rows \ {d} : ~Answered(c) /\ ~Answered(c)'
    BY DEF Answered
  <2>2. ~Answered(d)'
    BY DEF Answered
  <2>4. \A c \in DOMAIN rows : tally'.unmarked[c] \in Nat /\ rows'[c].attempt \in Nat
    BY <1>1, WebhookAssumption DEF Tallies, Row
  <2>5. ASSUME NEW c \in DOMAIN rows \ {d}
        PROVE  tally.posts[c] = rows[c].attempt + tally.unmarked[c] + 0
                                + (IF rows[c].settled /\ c \notin tally.refused THEN 1 ELSE 0)
    BY <2>1 DEF IInv, PostsAccounted
  <2>6. ASSUME NEW c \in DOMAIN rows
        PROVE  tally'.posts[c] = rows'[c].attempt + tally'.unmarked[c] + 0
                                 + (IF rows'[c].settled /\ c \notin tally'.refused THEN 1 ELSE 0)
    <3>1. CASE c = d
      BY <2>4, <3>1
    <3>2. CASE c # d
      <4>1. /\ rows'[c] = rows[c] /\ tally'.unmarked[c] = tally.unmarked[c]
            /\ c \in tally'.refused <=> c \in tally.refused
        BY <1>1, <3>2
      <4> QED BY <2>5, <3>2, <4>1
    <3> QED BY <3>1, <3>2
  <2> QED BY <2>1, <2>2, <2>6 DEF PostsAccounted
<1>9. LateInv'
  BY DEF IInv, LateInv
<1> QED BY <1>3, <1>4, <1>5, <1>6, <1>7, <1>8, <1>9 DEF IInv

\* What the worker knows when it is about to write.
LEMMA AboutToWrite ==
  ASSUME IInv, NEW d, d = worker.job[1], worker.pc \in {"refuse", "accepted", "rejected"}
  PROVE  /\ worker \in WorkerStates /\ tally \in Tallies /\ worker.job \in Jobs
         /\ d \in Deliveries /\ (worker.pc = "accepted" => worker.answer = "2xx")
         /\ d \in DOMAIN rows =>
              /\ rows[d] \in Row /\ ~rows[d].settled /\ d \notin tally.refused /\ rows[d].attempt = worker.job[2]
              /\ tally.posts[d] = rows[d].attempt + tally.unmarked[d] + (IF worker.pc = "refuse" THEN 0 ELSE 1)
              /\ tally.posts[d] \in Nat /\ tally.unmarked[d] \in Nat /\ rows[d].attempt \in Nat
<1>1. /\ worker \in WorkerStates /\ tally \in Tallies /\ WorkerInv
      /\ \A c \in DOMAIN rows : There(c[2]) /\ rows[c] \in Row
  BY Typed DEF IInv, Types
<1>2. worker.job \in Jobs /\ Current(worker.job) /\ d \in Deliveries /\ (worker.pc = "accepted" => worker.answer = "2xx")
  BY <1>1 DEF WorkerInv, Busy, Jobs
<1>3. ASSUME d \in DOMAIN rows
      PROVE  /\ rows[d] \in Row /\ ~rows[d].settled /\ d \notin tally.refused /\ rows[d].attempt = worker.job[2]
             /\ tally.posts[d] \in Nat /\ tally.unmarked[d] \in Nat /\ rows[d].attempt \in Nat
  BY <1>1, <1>2, <1>3, WebhookAssumption DEF IInv, RefusedInv, Current, Row, Tallies
<1>4. ASSUME d \in DOMAIN rows
      PROVE  tally.posts[d] = rows[d].attempt + tally.unmarked[d] + (IF worker.pc = "refuse" THEN 0 ELSE 1)
  BY <1>3, <1>4 DEF IInv, PostsAccounted, Answered
<1> QED BY <1>1, <1>2, <1>3, <1>4

\* The write is lost: the answer, if there was one, is accounted for.
LEMMA LostWrite ==
  ASSUME IInv, NEW d, d = worker.job[1], worker.pc \in {"refuse", "accepted", "rejected"}, MarkLost(d),
         UNCHANGED <<endpoint, hook>>,
         worker' \in WorkerStates, worker'.pc \in {"next", "count", "reset"}, worker'.batch = worker.batch,
         worker'.pc # "next" => worker'.job = worker.job
  PROVE  IInv'
<1> DEFINE answered == IF worker.pc = "refuse" THEN 0 ELSE 1
<1>1. tally \in Tallies /\ d \in Deliveries
  BY AboutToWrite
<1>2. /\ tally' \in Tallies /\ tally'.posts = tally.posts /\ tally'.late = tally.late /\ tally'.unqueued = tally.unqueued
      /\ tally'.refused = tally.refused /\ tally'.unmarked = [tally.unmarked EXCEPT ![d] = @ + answered]
  <2>1. tally' = [tally EXCEPT !.troubles = @ + 1, !.unmarked[d] = @ + answered]
    BY DEF MarkLost
  <2>2. tally.troubles + 1 \in 0 .. MaxTroubles
    BY <1>1, WebhookAssumption DEF MarkLost, Tallies
  <2>3. [tally.unmarked EXCEPT ![d] = @ + answered] \in [Deliveries -> Nat]
    BY <1>1 DEF Tallies
  <2> HIDE DEF answered
  <2> QED BY <1>1, <2>1, <2>2, <2>3 DEF Tallies
<1>3. rows' = rows
  BY DEF MarkLost
<1>4. tally'.unmarked[d] = tally.unmarked[d] + answered /\ \A c \in Deliveries \ {d} : tally'.unmarked[c] = tally.unmarked[c]
  BY <1>1, <1>2 DEF Tallies
<1>5. d \in DOMAIN rows =>
           /\ rows'[d] \in Row
           /\ tally.posts[d] = rows'[d].attempt + tally'.unmarked[d]
                               + (IF rows'[d].settled /\ d \notin tally'.refused THEN 1 ELSE 0)
           /\ d \in tally'.refused => rows'[d].settled
           /\ rows'[d].settled => rows'[d].answer = "2xx" \/ rows'[d].attempt = Delays \/ d \in tally'.refused
  BY <1>2, <1>3, <1>4, AboutToWrite
<1> QED BY <1>2, <1>3, <1>4, <1>5, RowWritten

\* What NextJob does to the worker.
LEMMA NextJobTyped ==
  ASSUME worker \in WorkerStates, worker.job \in Jobs, NEW pc \in {"next", "count", "reset"}, NextJob(pc)
  PROVE  /\ worker' \in WorkerStates /\ worker'.pc = pc /\ worker'.batch = worker.batch
         /\ worker'.pc # "next" => worker'.job = worker.job
<1>1. CASE pc = "next"
  <2>1. worker' = [worker EXCEPT !.pc = pc, !.job = NoJob, !.answer = "none"]
    BY <1>1 DEF NextJob
  <2> QED BY <1>1, <2>1 DEF WorkerStates, Answers
<1>2. CASE pc # "next"
  <2>1. worker' = [worker EXCEPT !.pc = pc, !.job = worker.job, !.answer = "none"]
    BY <1>2 DEF NextJob
  <2> QED BY <1>2, <2>1 DEF WorkerStates, Answers
<1> QED BY <1>1, <1>2

\* What Settled and UpdateRow do to a row and the table.
LEMMA RowUpdated ==
  ASSUME NEW d, NEW row, UpdateRow(d, row)
  PROVE  /\ DOMAIN rows' = DOMAIN rows /\ \A c \in DOMAIN rows \ {d} : rows'[c] = rows[c]
         /\ d \in DOMAIN rows => rows'[d] = row
BY DEF UpdateRow

LEMMA SettledRow ==
  ASSUME NEW d, rows[d] \in Row, worker \in WorkerStates
  PROVE  /\ Settled(d) \in Row /\ Settled(d).settled /\ Settled(d).answer = worker.answer
         /\ Settled(d).attempt = rows[d].attempt
BY DEF Settled, Row, WorkerStates

LEMMA RefuseIInv == ASSUME IInv, Refuse PROVE IInv'
<1> DEFINE d == worker.job[1]
<1>1. worker.pc = "refuse" /\ NextJob("count") /\ UNCHANGED <<endpoint, hook>>
  BY DEF Refuse
<1>2. worker \in WorkerStates /\ tally \in Tallies /\ worker.job \in Jobs /\ d \in Deliveries
  BY <1>1, AboutToWrite
<1>3. /\ worker' \in WorkerStates /\ worker'.pc = "count" /\ worker'.batch = worker.batch
      /\ worker'.job = worker.job
  BY <1>1, <1>2, NextJobTyped
<1>4. CASE UpdateRow(d, Settled(d)) /\ tally' = [tally EXCEPT !.refused = @ \cup {d}]
  <2>1. /\ tally' \in Tallies /\ tally'.posts = tally.posts /\ tally'.late = tally.late /\ tally'.unqueued = tally.unqueued
        /\ tally'.unmarked = tally.unmarked /\ tally'.refused = tally.refused \cup {d}
    BY <1>2, <1>4 DEF Tallies
  <2>2. d \in DOMAIN rows =>
           /\ rows'[d] \in Row
           /\ tally.posts[d] = rows'[d].attempt + tally'.unmarked[d]
                               + (IF rows'[d].settled /\ d \notin tally'.refused THEN 1 ELSE 0)
           /\ d \in tally'.refused => rows'[d].settled
           /\ rows'[d].settled => rows'[d].answer = "2xx" \/ rows'[d].attempt = Delays \/ d \in tally'.refused
    BY <1>1, <1>2, <1>4, <2>1, AboutToWrite, SettledRow, RowUpdated
  <2> QED BY <1>1, <1>3, <1>4, <2>1, <2>2, RowUpdated, RowWritten
<1>5. CASE MarkLost(d)
  BY <1>1, <1>3, <1>5, LostWrite
<1> QED BY <1>4, <1>5 DEF Refuse

LEMMA MarkAcceptedIInv == ASSUME IInv, MarkAccepted PROVE IInv'
<1> DEFINE d == worker.job[1]
<1>1. worker.pc = "accepted" /\ NextJob("reset") /\ UNCHANGED <<endpoint, hook>>
  BY DEF MarkAccepted
<1>2. worker \in WorkerStates /\ tally \in Tallies /\ worker.job \in Jobs /\ d \in Deliveries /\ worker.answer = "2xx"
  BY <1>1, AboutToWrite
<1>3. /\ worker' \in WorkerStates /\ worker'.pc = "reset" /\ worker'.batch = worker.batch
      /\ worker'.job = worker.job
  BY <1>1, <1>2, NextJobTyped
<1>4. CASE UpdateRow(d, Settled(d)) /\ UNCHANGED tally
  <2>1. d \in DOMAIN rows =>
           /\ rows'[d] \in Row
           /\ tally.posts[d] = rows'[d].attempt + tally'.unmarked[d]
                               + (IF rows'[d].settled /\ d \notin tally'.refused THEN 1 ELSE 0)
           /\ d \in tally'.refused => rows'[d].settled
           /\ rows'[d].settled => rows'[d].answer = "2xx" \/ rows'[d].attempt = Delays \/ d \in tally'.refused
    BY <1>1, <1>2, <1>4, AboutToWrite, SettledRow, RowUpdated
  <2> QED BY <1>1, <1>2, <1>3, <1>4, <2>1, RowUpdated, RowWritten
<1>5. CASE MarkLost(d)
  BY <1>1, <1>3, <1>5, LostWrite
<1> QED BY <1>4, <1>5 DEF MarkAccepted

LEMMA MarkRejectedIInv == ASSUME IInv, MarkRejected PROVE IInv'
<1> DEFINE d == worker.job[1]
           last == GivesUp(worker.job[2])
           later == [rows[d] EXCEPT !.attempt = @ + 1, !.due = FALSE, !.answer = worker.answer]
<1>1. worker.pc = "rejected" /\ NextJob(IF last THEN "count" ELSE "next") /\ UNCHANGED <<endpoint, hook>>
  BY DEF MarkRejected
<1>2. worker \in WorkerStates /\ tally \in Tallies /\ worker.job \in Jobs /\ d \in Deliveries
  BY <1>1, AboutToWrite
<1>3. /\ worker' \in WorkerStates /\ worker'.pc \in {"next", "count", "reset"} /\ worker'.batch = worker.batch
      /\ worker'.pc # "next" => worker'.job = worker.job
  BY <1>1, <1>2, NextJobTyped
<1>4. CASE UpdateRow(d, IF last THEN Settled(d) ELSE later) /\ UNCHANGED tally
  <2> DEFINE row == IF last THEN Settled(d) ELSE later
  <2>1. worker.job[2] \in 0 .. Delays
    BY <1>2 DEF Jobs
  <2>2. ASSUME d \in DOMAIN rows
        PROVE  /\ rows[d] \in Row /\ ~rows[d].settled /\ d \notin tally.refused /\ rows[d].attempt = worker.job[2]
               /\ tally.posts[d] = rows[d].attempt + tally.unmarked[d] + 1
               /\ tally.unmarked[d] \in Nat /\ rows[d].attempt \in Nat
    BY <1>1, <2>2, AboutToWrite
  <2>3. ASSUME d \in DOMAIN rows, last
        PROVE  row \in Row /\ row.settled /\ row.attempt = Delays /\ row.attempt = rows[d].attempt
    BY <1>2, <2>1, <2>2, <2>3, SettledRow, WebhookAssumption DEF GivesUp
  <2>4. ASSUME d \in DOMAIN rows, ~last
        PROVE  row \in Row /\ ~row.settled /\ row.attempt = rows[d].attempt + 1
    <3>1. rows[d].attempt + 1 \in 0 .. Delays
      BY <2>1, <2>2, <2>4, WebhookAssumption DEF GivesUp
    <3>2. worker.answer \in Answers
      BY <1>2 DEF WorkerStates
    <3> QED BY <2>2, <2>4, <3>1, <3>2 DEF Row
  <2>5. d \in DOMAIN rows => rows'[d] = row
    BY <1>4, RowUpdated
  <2> HIDE DEF row
  <2>6. d \in DOMAIN rows =>
           /\ rows'[d] \in Row
           /\ tally.posts[d] = rows'[d].attempt + tally'.unmarked[d]
                               + (IF rows'[d].settled /\ d \notin tally'.refused THEN 1 ELSE 0)
           /\ d \in tally'.refused => rows'[d].settled
           /\ rows'[d].settled => rows'[d].answer = "2xx" \/ rows'[d].attempt = Delays \/ d \in tally'.refused
    <3>1. CASE last
      BY <1>4, <2>2, <2>3, <2>5, <3>1
    <3>2. CASE ~last
      <4> HIDE DEF last
      <4> QED BY <1>4, <2>2, <2>4, <2>5, <3>2
    <3> QED BY <3>1, <3>2
  <2> QED BY <1>1, <1>2, <1>3, <1>4, <2>6, RowUpdated, RowWritten
<1>5. CASE MarkLost(d)
  BY <1>1, <1>3, <1>5, LostWrite
<1> QED BY <1>4, <1>5 DEF MarkRejected

LEMMA CountFailuresIInv == ASSUME IInv, CountFailures PROVE IInv'
<1> DEFINE e == worker.job[1][2]
<1>1. /\ worker \in WorkerStates /\ WorkerInv /\ worker.pc \in {"count", "reset"}
      /\ endpoint \in [Endpoints -> [there : {"never", "live", "deleted"}, wants : SUBSET Events, failures : Nat]]
  BY Typed DEF IInv, Types, CountFailures
<1>2. worker.job \in Jobs /\ e \in Endpoints
  BY <1>1 DEF WorkerInv, Jobs, Deliveries
<1>3. worker' \in WorkerStates /\ worker'.pc = "next" /\ worker'.batch = worker.batch
  BY <1>1, <1>2, NextJobTyped DEF CountFailures
<1>4. /\ endpoint' \in [Endpoints -> [there : {"never", "live", "deleted"}, wants : SUBSET Events, failures : Nat]]
      /\ \A f \in Endpoints : endpoint'[f].there = endpoint[f].there /\ endpoint'[f].wants = endpoint[f].wants
  <2>1. CASE There(e)
    <3> DEFINE n == IF worker.pc = "count" THEN endpoint[e].failures + 1 ELSE 0
    <3>1. endpoint' = [endpoint EXCEPT ![e].failures = n]
      BY <2>1 DEF CountFailures
    <3>2. n \in Nat
      BY <1>1, <1>2
    <3> HIDE DEF n
    <3> QED BY <1>1, <1>2, <3>1, <3>2
  <2>2. CASE ~There(e)
    BY <1>1, <2>2 DEF CountFailures
  <2> QED BY <2>1, <2>2
<1>5. UNCHANGED <<hook, rows, tally>>
  BY DEF CountFailures
<1>6. hook \in [Events -> HookStates] /\ DOMAIN rows \subseteq Deliveries /\ \A d \in DOMAIN rows : There(d[2]) /\ rows[d] \in Row
  BY Typed DEF IInv, Types
<1>7. \A d \in Deliveries : d[2] \in Endpoints
  BY DEF Deliveries
<1>8. TypeOK'
  BY <1>3, <1>4, <1>5, <1>6, <1>7, Typed DEF IInv, Types, There
<1>9. \A ev \in Events : HookInv(ev)'
  BY <1>4, <1>5, <1>6 DEF IInv, HookInv, There, HookStates
<1>10. WorkerInv'
  BY <1>1, <1>3, <1>4, <1>5, <1>7 DEF WorkerInv, Current, There, WorkerStates, Jobs, Busy
<1>11. CleanInv' /\ LateInv'
  BY <1>3, <1>4, <1>5, <1>7 DEF IInv, CleanInv, LateInv
<1>12. RefusedInv' /\ NotDropped' /\ PostsAccounted'
  BY <1>1, <1>3, <1>5 DEF IInv, RefusedInv, NotDropped, PostsAccounted, Answered
<1> QED BY <1>8, <1>9, <1>10, <1>11, <1>12 DEF IInv

LEMMA BackoffOverIInv == ASSUME IInv, NEW d \in Deliveries, BackoffOver(d) PROVE IInv'
<1>1. DOMAIN rows \subseteq Deliveries /\ \A c \in DOMAIN rows : There(c[2]) /\ rows[c] \in Row
  BY Typed DEF IInv, Types
<1>2. /\ DOMAIN rows' = DOMAIN rows
      /\ \A c \in DOMAIN rows : /\ rows'[c] \in Row /\ rows'[c].attempt = rows[c].attempt
                                /\ rows'[c].settled = rows[c].settled /\ rows'[c].answer = rows[c].answer
  BY <1>1 DEF BackoffOver, Row
<1>3. UNCHANGED <<endpoint, hook, worker, tally>>
  BY DEF BackoffOver
<1>4. TypeOK'
  BY <1>1, <1>2, <1>3, Typed DEF IInv, Types, There
<1>5. (\A ev \in Events : HookInv(ev)') /\ WorkerInv'
  BY <1>2, <1>3 DEF IInv, HookInv, WorkerInv, Current, There
<1>6. CleanInv' /\ LateInv' /\ RefusedInv' /\ NotDropped'
  BY <1>2, <1>3 DEF IInv, CleanInv, LateInv, RefusedInv, NotDropped
<1>7. PostsAccounted'
  BY <1>2, <1>3 DEF IInv, PostsAccounted, Answered
<1> QED BY <1>4, <1>5, <1>6, <1>7 DEF IInv

(***************************************************************************)
(* Endpoints come and go, and jed dies.                                    *)
(***************************************************************************)
LEMMA CreateEndpointIInv ==
  ASSUME IInv, NEW e \in Endpoints, NEW types \in TypeLists, CreateEndpoint(e, types)
  PROVE  IInv'
<1>1. /\ endpoint \in [Endpoints -> [there : {"never", "live", "deleted"}, wants : SUBSET Events, failures : Nat]]
      /\ hook \in [Events -> HookStates] /\ DOMAIN rows \subseteq Deliveries
      /\ \A d \in DOMAIN rows : There(d[2]) /\ rows[d] \in Row
      /\ worker \in WorkerStates
  BY Typed DEF IInv, Types
<1>2. Matching(types) \in SUBSET Events
  BY WebhookAssumption DEF Matching
<1>3. /\ endpoint' \in [Endpoints -> [there : {"never", "live", "deleted"}, wants : SUBSET Events, failures : Nat]]
      /\ endpoint[e].there = "never" /\ endpoint'[e].there = "live"
      /\ \A f \in Endpoints \ {e} : endpoint'[f] = endpoint[f]
  BY <1>1, <1>2 DEF CreateEndpoint
<1>4. UNCHANGED <<hook, rows, worker, tally>>
  BY DEF CreateEndpoint
<1>5. \A d \in Deliveries : d[2] \in Endpoints
  BY DEF Deliveries
<1>6. TypeOK'
  BY <1>1, <1>3, <1>4, <1>5, Typed DEF IInv, Types, There
<1>7. \A ev \in Events : HookInv(ev)'
  <2>1. \A ev \in Events : hook[ev].listed \subseteq Endpoints /\ e \notin hook[ev].listed
    BY <1>1, <1>3 DEF IInv, HookInv, HookStates
  <2> QED BY <1>3, <1>4, <2>1 DEF IInv, HookInv, There
<1>8. WorkerInv'
  BY <1>1, <1>3, <1>4, <1>5 DEF IInv, WorkerInv, Current, There, WorkerStates, Jobs, Busy
<1>9. CleanInv' /\ LateInv'
  BY <1>3, <1>4, <1>5 DEF IInv, CleanInv, LateInv
<1>10. RefusedInv' /\ NotDropped' /\ PostsAccounted'
  BY <1>4 DEF IInv, RefusedInv, NotDropped, PostsAccounted, Answered
<1> QED BY <1>6, <1>7, <1>8, <1>9, <1>10 DEF IInv

LEMMA DeleteEndpointIInv == ASSUME IInv, NEW e \in Endpoints, DeleteEndpoint(e) PROVE IInv'
<1>1. /\ endpoint \in [Endpoints -> [there : {"never", "live", "deleted"}, wants : SUBSET Events, failures : Nat]]
      /\ hook \in [Events -> HookStates] /\ DOMAIN rows \subseteq Deliveries
      /\ \A d \in DOMAIN rows : There(d[2]) /\ rows[d] \in Row
      /\ worker \in WorkerStates /\ tally \in Tallies
  BY Typed DEF IInv, Types
<1>2. /\ endpoint' \in [Endpoints -> [there : {"never", "live", "deleted"}, wants : SUBSET Events, failures : Nat]]
      /\ endpoint[e].there = "live" /\ endpoint'[e].there = "deleted"
      /\ \A f \in Endpoints \ {e} : endpoint'[f] = endpoint[f]
  BY <1>1 DEF DeleteEndpoint, There
<1>3. UNCHANGED <<hook, worker>>
  BY DEF DeleteEndpoint
<1>4. \A d \in Deliveries : d[2] \in Endpoints
  BY DEF Deliveries
<1>5. /\ DOMAIN rows' = {d \in DOMAIN rows : d[2] # e}
      /\ \A d \in DOMAIN rows' : rows'[d] = rows[d]
  BY DEF DeleteEndpoint
<1>6. /\ tally' \in Tallies /\ tally'.late = tally.late
      /\ tally'.refused = {d \in tally.refused : d[2] # e} /\ tally'.unqueued = {d \in tally.unqueued : d[2] # e}
      /\ \A d \in Deliveries : d[2] # e => tally'.posts[d] = tally.posts[d] /\ tally'.unmarked[d] = tally.unmarked[d]
  <2> DEFINE posts == [d \in Deliveries |-> IF d[2] = e THEN 0 ELSE tally.posts[d]]
             unmarked == [d \in Deliveries |-> IF d[2] = e THEN 0 ELSE tally.unmarked[d]]
             refusals == {d \in tally.refused : d[2] # e}
             unqueued == {d \in tally.unqueued : d[2] # e}
  <2>1. posts \in [Deliveries -> Nat] /\ unmarked \in [Deliveries -> Nat]
    BY <1>1 DEF Tallies
  <2>2. tally' = [tally EXCEPT !.posts = posts, !.unmarked = unmarked, !.refused = refusals, !.unqueued = unqueued]
    BY DEF DeleteEndpoint
  <2>3. refusals \subseteq Deliveries /\ unqueued \subseteq Deliveries
    BY <1>1 DEF Tallies
  <2>4. \A d \in Deliveries : d[2] # e => posts[d] = tally.posts[d] /\ unmarked[d] = tally.unmarked[d]
    OBVIOUS
  <2>5. /\ tally'.posts = posts /\ tally'.unmarked = unmarked /\ tally'.refused = refusals
        /\ tally'.unqueued = unqueued /\ tally'.late = tally.late
    <3> HIDE DEF posts, unmarked, refusals, unqueued
    <3> QED BY <1>1, <2>2 DEF Tallies
  <2>6. tally' \in Tallies
    <3> HIDE DEF posts, unmarked, refusals, unqueued
    <3> QED BY <1>1, <2>1, <2>2, <2>3 DEF Tallies
  <2> QED BY <2>4, <2>5, <2>6
<1>7. TypeOK'
  BY <1>1, <1>2, <1>3, <1>4, <1>5, <1>6, Typed DEF IInv, Types, There
<1>8. ASSUME NEW ev \in Events PROVE HookInv(ev)'
  <2>1. hook[ev].listed \subseteq Endpoints /\ HookInv(ev)
    BY <1>1 DEF IInv, HookStates
  <2>2. \A f \in Endpoints : /\ <<ev, f>>[2] = f
                             /\ <<ev, f>> \in DOMAIN rows' => <<ev, f>> \in DOMAIN rows
                             /\ f # e /\ <<ev, f>> \in DOMAIN rows \cup tally.unqueued
                                  => <<ev, f>> \in DOMAIN rows' \cup tally'.unqueued
    BY <1>5, <1>6
  <2> QED BY <1>2, <1>3, <2>1, <2>2 DEF HookInv, There
<1>9. WorkerInv'
  BY <1>1, <1>2, <1>3, <1>4, <1>5 DEF IInv, WorkerInv, Current, There, WorkerStates, Jobs, Busy
<1>10. CleanInv' /\ LateInv'
  BY <1>2, <1>3, <1>4, <1>5, <1>6 DEF IInv, CleanInv, LateInv
<1>11. RefusedInv' /\ NotDropped'
  BY <1>5, <1>6 DEF IInv, RefusedInv, NotDropped
<1>12. PostsAccounted'
  <2>1. \A d \in DOMAIN rows' : /\ d \in DOMAIN rows /\ rows'[d] = rows[d]
                                /\ tally'.posts[d] = tally.posts[d] /\ tally'.unmarked[d] = tally.unmarked[d]
                                /\ (d \in tally'.refused <=> d \in tally.refused)
                                /\ (Answered(d)' <=> Answered(d))
    BY <1>1, <1>3, <1>5, <1>6 DEF Answered
  <2> QED BY <2>1 DEF IInv, PostsAccounted
<1> QED BY <1>7, <1>8, <1>9, <1>10, <1>11, <1>12 DEF IInv

LEMMA CrashIInv == ASSUME IInv, Crash PROVE IInv'
<1> DEFINE answered(c) == IF Answered(c) THEN 1 ELSE 0
<1>1. /\ endpoint \in [Endpoints -> [there : {"never", "live", "deleted"}, wants : SUBSET Events, failures : Nat]]
      /\ hook \in [Events -> HookStates] /\ DOMAIN rows \subseteq Deliveries
      /\ \A c \in DOMAIN rows : There(c[2]) /\ rows[c] \in Row
      /\ worker \in WorkerStates /\ tally \in Tallies /\ WorkerInv
  BY Typed DEF IInv, Types
<1>2. worker' = IdleWorker /\ worker' \in WorkerStates /\ UNCHANGED <<endpoint, rows>>
  BY DEF Crash, IdleWorker, WorkerStates, Answers
<1>3. /\ hook' \in [Events -> HookStates]
      /\ \A ev \in Events : \/ hook'[ev] = hook[ev]
                            \/ hook'[ev] = [pc |-> "lost", ids |-> {}, listed |-> {}, matched |-> {}]
  BY <1>1 DEF Crash, NoHook, HookStates
<1>4. tally.troubles + 1 \in 0 .. MaxTroubles
  BY <1>1, WebhookAssumption DEF Crash, Tallies
<1>5. /\ tally' \in Tallies /\ tally'.posts = tally.posts /\ tally'.late = tally.late
      /\ tally'.refused = tally.refused /\ tally'.unqueued = tally.unqueued
      /\ \A c \in Deliveries : tally'.unmarked[c] = tally.unmarked[c] + answered(c)
  <2> DEFINE unmarked == [c \in Deliveries |-> tally.unmarked[c] + answered(c)]
  <2>1. tally' = [tally EXCEPT !.troubles = @ + 1, !.unmarked = unmarked]
    BY DEF Crash
  <2>2. unmarked \in [Deliveries -> Nat]
    BY <1>1 DEF Tallies
  <2>3. \A c \in Deliveries : unmarked[c] = tally.unmarked[c] + answered(c)
    OBVIOUS
  <2> HIDE DEF unmarked, answered
  <2> QED BY <1>1, <1>4, <2>1, <2>2, <2>3 DEF Tallies
<1>6. TypeOK'
  BY <1>1, <1>2, <1>3, <1>5, Typed DEF Types, There
<1>7. \A ev \in Events : HookInv(ev)'
  BY <1>2, <1>3, <1>5 DEF IInv, HookInv, There
<1>8. WorkerInv' /\ LateInv'
  BY <1>2, <1>5 DEF IInv, WorkerInv, LateInv, IdleWorker, Busy
<1>9. RefusedInv' /\ NotDropped'
  BY <1>2, <1>5 DEF IInv, RefusedInv, NotDropped
<1>10. CleanInv'
  <2>1. ASSUME NEW c \in Deliveries \ DOMAIN rows, endpoint[c[2]].there # "deleted"
        PROVE  ~Answered(c)
    <3>1. c[2] \in Endpoints
      BY DEF Deliveries
    <3> QED BY <1>1, <2>1, <3>1 DEF Answered, WorkerInv, Busy, Current, There
  <2>2. tally.unmarked \in [Deliveries -> Nat]
    BY <1>1 DEF Tallies
  <2> QED BY <1>2, <1>5, <2>1, <2>2 DEF IInv, CleanInv
<1>11. PostsAccounted'
  <2>1. \A c \in DOMAIN rows : ~Answered(c)'
    BY <1>2 DEF Answered, IdleWorker
  <2>2. \A c \in DOMAIN rows : /\ tally.posts[c] \in Nat /\ tally.unmarked[c] \in Nat /\ rows[c].attempt \in Nat
                               /\ tally'.unmarked[c] = tally.unmarked[c] + answered(c)
    BY <1>1, <1>5, WebhookAssumption DEF Tallies, Row
  <2> QED BY <1>2, <1>5, <2>1, <2>2 DEF IInv, PostsAccounted
<1> QED BY <1>6, <1>7, <1>8, <1>9, <1>10, <1>11 DEF IInv

(***************************************************************************)
(* The theorems.                                                           *)
(***************************************************************************)
LEMMA InitIInv == ASSUME Init PROVE IInv
<1>1. PICK gone \in SUBSET Endpoints, past \in SUBSET Events : InitAfter(gone, past)
  BY DEF Init
<1>2. \A e \in Endpoints : endpoint[e].there \in {"never", "deleted"}
  BY <1>1 DEF InitAfter
<1>3. hook \in [Events -> HookStates]
      /\ \A ev \in Events : /\ hook[ev].pc \in {"none", "done"}
                            /\ hook[ev].ids = {} /\ hook[ev].listed = {} /\ hook[ev].matched = {}
  BY <1>1 DEF InitAfter, NoHook, HookStates
<1>4. DOMAIN rows = {} /\ worker = IdleWorker /\ worker \in WorkerStates
  BY <1>1 DEF InitAfter, IdleWorker, WorkerStates, Answers
<1>5. /\ tally \in Tallies /\ tally.refused = {} /\ \A e \in Endpoints : tally.late[e] = 0
      /\ \A d \in Deliveries : tally.posts[d] = 0 /\ tally.unmarked[d] = 0
  BY <1>1, WebhookAssumption DEF InitAfter, Tallies
<1>6. endpoint \in [Endpoints -> [there : {"never", "live", "deleted"}, wants : SUBSET Events, failures : Nat]]
  BY <1>1 DEF InitAfter
<1>7. TypeOK
  BY <1>3, <1>4, <1>5, <1>6, Typed DEF Types
<1>8. (\A ev \in Events : HookInv(ev)) /\ WorkerInv /\ LateInv
  BY <1>3, <1>4, <1>5 DEF HookInv, WorkerInv, LateInv, IdleWorker, Busy
<1>9. CleanInv /\ RefusedInv /\ NotDropped /\ PostsAccounted
  BY <1>4, <1>5 DEF CleanInv, RefusedInv, NotDropped, PostsAccounted
<1> QED BY <1>7, <1>8, <1>9 DEF IInv

LEMMA NextIInv == ASSUME IInv, [Next]_vars PROVE IInv'
<1>1. CASE UNCHANGED vars
  <2>1. TypeOK'
    BY <1>1, Typed DEF IInv, Types, There, vars
  <2>2. (\A ev \in Events : HookInv(ev)') /\ CleanInv' /\ WorkerInv' /\ LateInv' /\ RefusedInv' /\ PostsAccounted' /\ NotDropped'
    BY <1>1 DEF IInv, HookInv, CleanInv, WorkerInv, Current, There, LateInv, RefusedInv, PostsAccounted, Answered,
                NotDropped, vars
  <2> QED BY <2>1, <2>2 DEF IInv
<1>2. ASSUME NEW e \in Endpoints, (\E types \in TypeLists : CreateEndpoint(e, types)) \/ DeleteEndpoint(e) PROVE IInv'
  BY <1>2, CreateEndpointIInv, DeleteEndpointIInv
<1>3. ASSUME NEW ev \in Events, Publish(ev) \/ HookStep(ev) PROVE IInv'
  BY <1>3, PublishIInv, ListIdsIInv, GetEndpointIInv, ListingFailsIInv, EnqueueIInv, EnqueuedIInv DEF HookStep
<1>4. CASE WorkerStep
  BY <1>4, ClaimIInv, BatchDoneIInv, TakeIInv, PostIInv, RefuseIInv, MarkAcceptedIInv, MarkRejectedIInv, CountFailuresIInv
  DEF WorkerStep
<1>5. ASSUME NEW d \in Deliveries, BackoffOver(d) PROVE IInv'
  BY <1>5, BackoffOverIInv
<1>6. CASE Crash
  BY <1>6, CrashIInv
<1> QED BY <1>1, <1>2, <1>3, <1>4, <1>5, <1>6 DEF Next

LEMMA SpecIInv == Spec => []IInv
BY InitIInv, NextIInv, PTL DEF Spec

\* The tables and the goroutines keep their types: no delivery outlives its
\* endpoint, and no row counts more attempts than there are delays
\* (EnqueueWebhookDelivery, DeleteWebhookEndpoint, MarkDeliveryResult).
THEOREM TypesCorrect == Spec => []TypeOK
<1>1. IInv => TypeOK
  BY DEF IInv
<1> QED BY <1>1, SpecIInv, PTL

\* deliverOne posts a delivery once for each attempt that is counted, and again
\* only for an answer that a crash or a failed write has lost.
THEOREM DeliveriesAccounted == Spec => []PostsAccounted
<1>1. IInv => PostsAccounted
  BY DEF IInv
<1> QED BY <1>1, SpecIInv, PTL

\* No delivery is settled before it was accepted, refused, or rejected after every
\* delay (deliverOne, nextAttemptAfter).
THEOREM NoDeliveryDropped == Spec => []NotDropped
<1>1. IInv => NotDropped
  BY DEF IInv
<1> QED BY <1>1, SpecIInv, PTL

\* After its deletion an endpoint gets at most one POST (deliverOne reads the
\* endpoint again for each row, but not after that).
THEOREM DeletedEndpointIsQuiet == Spec => []QuietAfterDelete
<1>1. TypeOK /\ LateInv => QuietAfterDelete
  BY Typed DEF Types, Tallies, LateInv, QuietAfterDelete
<1> QED BY <1>1, SpecIInv, PTL DEF IInv

\* An event reaches every endpoint that PublishEvent listed, that wants it and is
\* still there, unless its own insert failed; the listing gives up only because of
\* an endpoint that was deleted or a SELECT that failed, and then for all of them.
THEOREM EventReachesSubscribers == Spec => []SubscribersInformed
<1>1. IInv => SubscribersInformed
  <2> SUFFICES ASSUME IInv, NEW ev \in Events
               PROVE  /\ hook[ev].pc = "done" =>
                           \A e \in hook[ev].listed :
                             There(e) /\ ev \in endpoint[e].wants => <<ev, e>> \in DOMAIN rows \cup tally.unqueued
                      /\ hook[ev].pc = "failed" => \E e \in hook[ev].listed : endpoint[e].there = "deleted"
                      /\ hook[ev].pc \in {"failed", "unread"} => \A e \in Endpoints : <<ev, e>> \notin DOMAIN rows
    BY DEF SubscribersInformed
  <2> QED BY DEF IInv, HookInv
<1> QED BY <1>1, SpecIInv, PTL
=============================================================================
