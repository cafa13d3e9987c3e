-------------------------- MODULE WebhookDelivery --------------------------
(***************************************************************************)
(* Outgoing webhooks: the broker hook that turns an event into delivery    *)
(* rows (cmd/jed/main.go, internal/webhook/dispatcher.go PublishEvent), the*)
(* table of deliveries (internal/store/webhook.go), and the worker that    *)
(* claims due rows, posts them and retries (dispatcher.go Run, deliverOne).*)
(*                                                                         *)
(* A delivery is known by its event and its endpoint: the hook runs once   *)
(* for an event.  Time is abstract: a row in its back-off becomes due at   *)
(* some time.  Statements whose errors the code ignores may fail and jed   *)
(* may crash, within a budget.  No code disables an endpoint               *)
(* (DisableWebhookEndpoint has no caller), so disabled_at is               *)
(* always NULL.                                                            *)
(***************************************************************************)
EXTENDS Integers, FiniteSets, FiniteSetsExt

CONSTANTS
  Endpoints,      \* the endpoint ids that may be created
  Events,         \* the events that the broker publishes, each of a type of its own
  TypeLists,      \* the lists of types that endpoints are created with
  AllowPrivate,   \* JE_WEBHOOK_ALLOW_PRIVATE
  Delays,         \* the number of delays of nextAttemptAfter (5 in the code)
  BatchLimit,     \* rows claimed at once (16 in the code)
  MaxTroubles     \* bound: crashes of jed and statements that fail

ASSUME WebhookAssumption ==
  /\ IsFiniteSet(Endpoints) /\ IsFiniteSet(Events) /\ TypeLists \subseteq SUBSET Events
  /\ AllowPrivate \in BOOLEAN /\ Delays \in Nat /\ BatchLimit \in Nat \ {0}
  /\ MaxTroubles \in Nat

Deliveries == Events \X Endpoints

VARIABLES
  endpoint,   \* endpoint[e]: the row of e: whether it is there, the events its types match
  hook,       \* hook[ev]: the goroutine that runs PublishEvent for ev
  rows,       \* the table webhook_delivery
  worker,     \* the goroutine of Run
  tally       \* what happened, for the properties: per row the POSTs sent, the answers that
              \* never reached it and whether its target was refused; the enqueues that failed;
              \* per endpoint the POSTs sent after its deletion; the budget used

vars == <<endpoint, hook, rows, worker, tally>>

NoHook == [pc |-> "none", ids |-> {}, listed |-> {}, matched |-> {}]
NoJob == << >>
IdleWorker == [pc |-> "idle", batch |-> {}, job |-> NoJob, answer |-> "none"]

\* The endpoints in "gone" have been deleted, and the events in "past" published
\* when there was no endpoint, before the behaviour starts.
InitAfter(gone, past) ==
  /\ endpoint = [e \in Endpoints |->
       [there |-> IF e \in gone THEN "deleted" ELSE "never", wants |-> {}, failures |-> 0]]
  /\ hook = [ev \in Events |-> [NoHook EXCEPT !.pc = IF ev \in past THEN "done" ELSE "none"]]
  /\ rows = [d \in {} |-> {}]
  /\ worker = IdleWorker
  /\ tally = [posts |-> [d \in Deliveries |-> 0], unmarked |-> [d \in Deliveries |-> 0],
              refused |-> {}, unqueued |-> {}, late |-> [e \in Endpoints |-> 0],
              troubles |-> 0]

Init == \E gone \in SUBSET Endpoints, past \in SUBSET Events : InitAfter(gone, past)

(***************************************************************************)
(* Endpoints.                                                              *)
(***************************************************************************)
There(e) == endpoint[e].there = "live"

\* validateWebhookURL: the addresses the host resolves to now (none: the name
\* does not resolve), public or in one of the blocked ranges.
Addresses == SUBSET {"public", "blocked"}
Refused(addresses) == ~AllowPrivate /\ (addresses = {} \/ "blocked" \in addresses)

\* An empty list of types subscribes to every event.
Matching(types) == IF types = {} THEN Events ELSE types

\* POST /admin/webhooks.
CreateEndpoint(e, types) ==
  /\ endpoint[e].there = "never"
  /\ \E addresses \in Addresses : ~Refused(addresses)
  /\ endpoint' = [endpoint EXCEPT ![e] = [@ EXCEPT !.there = "live", !.wants = Matching(types)]]
  /\ UNCHANGED <<hook, rows, worker, tally>>

\* Fault: the deliveries of a deleted endpoint stay.
DeleteEndpointOnly(e) ==
  /\ There(e)
  /\ endpoint' = [endpoint EXCEPT ![e].there = "deleted"]
  /\ UNCHANGED <<hook, rows, worker, tally>>

\* DELETE: the foreign key takes the deliveries along.
DeleteEndpoint(e) ==
  /\ There(e)
  /\ endpoint' = [endpoint EXCEPT ![e].there = "deleted"]
  /\ rows' = [d \in {d \in DOMAIN rows : d[2] # e} |-> rows[d]]
  /\ tally' = [tally EXCEPT !.posts = [d \in Deliveries |-> IF d[2] = e THEN 0 ELSE @[d]],
                            !.unmarked = [d \in Deliveries |-> IF d[2] = e THEN 0 ELSE @[d]],
                            !.refused = {d \in @ : d[2] # e}, !.unqueued = {d \in @ : d[2] # e}]
  /\ UNCHANGED <<hook, worker>>

(***************************************************************************)
(* PublishEvent, in a goroutine of its own for every event.                *)
(***************************************************************************)
Publish(ev) ==
  /\ hook[ev].pc = "none"
  /\ hook' = [hook EXCEPT ![ev].pc = "started"]
  /\ UNCHANGED <<endpoint, rows, worker, tally>>

\* SELECT id: the endpoints there are now (when it fails: ListingFails).
ListIds(ev) ==
  LET ids == {e \in Endpoints : There(e)} IN
  /\ hook[ev].pc = "started"
  /\ hook' = [hook EXCEPT ![ev] = [@ EXCEPT !.pc = "listing", !.ids = ids, !.listed = ids]]
  /\ UNCHANGED <<endpoint, rows, worker, tally>>

\* GetWebhookEndpoint for each id: an endpoint deleted meanwhile is an error,
\* which ends the listing and with it PublishEvent, as any other error does
\* (ListingFails).
GetEndpoint(ev) ==
  /\ hook[ev].pc = "listing"
  /\ \E e \in hook[ev].ids :
       LET wanting == IF ev \in endpoint[e].wants THEN {e} ELSE {} IN
       hook' = IF There(e)
               THEN [hook EXCEPT ![ev] = [@ EXCEPT !.ids = hook[ev].ids \ {e}, !.matched = hook[ev].matched \cup wanting]]
               ELSE [hook EXCEPT ![ev].pc = "failed"]
  /\ UNCHANGED <<endpoint, rows, worker, tally>>

\* Fault: the first insert that fails ends PublishEvent.
EnqueueOrStop(ev) ==
  /\ hook[ev].pc = "listing" /\ hook[ev].ids = {}
  /\ \E e \in hook[ev].matched :
       IF There(e)
       THEN /\ rows' = [d \in DOMAIN rows \cup {<<ev, e>>} |->
                          IF d = <<ev, e>> THEN [attempt |-> 0, due |-> TRUE, settled |-> FALSE, answer |-> "none"]
                          ELSE rows[d]]
            /\ hook' = [hook EXCEPT ![ev].matched = @ \ {e}]
       ELSE hook' = [hook EXCEPT ![ev].matched = {}] /\ UNCHANGED rows
  /\ UNCHANGED <<endpoint, worker, tally>>

\* EnqueueWebhookDelivery for each endpoint that matched: the insert fails if
\* the endpoint is gone (foreign key) or the statement does; the loop goes on.
Enqueue(ev) ==
  /\ hook[ev].pc = "listing" /\ hook[ev].ids = {}
  /\ \E e \in hook[ev].matched, written \in BOOLEAN :
       /\ written \/ tally.troubles < MaxTroubles
       /\ rows' = IF There(e) /\ written
                  THEN [d \in DOMAIN rows \cup {<<ev, e>>} |->
                          IF d = <<ev, e>> THEN [attempt |-> 0, due |-> TRUE, settled |-> FALSE, answer |-> "none"]
                          ELSE rows[d]]
                  ELSE rows
       /\ tally' = IF written THEN tally
                   ELSE [tally EXCEPT !.troubles = @ + 1, !.unqueued = @ \cup {<<ev, e>>}]
       /\ hook' = [hook EXCEPT ![ev].matched = @ \ {e}]
  /\ UNCHANGED <<endpoint, worker>>

\* Any SELECT of the listing fails: PublishEvent returns its error, and no endpoint
\* gets the event.
ListingFails(ev) ==
  /\ hook[ev].pc = "started" \/ (hook[ev].pc = "listing" /\ hook[ev].ids # {})
  /\ tally.troubles < MaxTroubles
  /\ hook' = [hook EXCEPT ![ev].pc = "unread"]
  /\ tally' = [tally EXCEPT !.troubles = @ + 1]
  /\ UNCHANGED <<endpoint, rows, worker>>

Enqueued(ev) ==
  /\ hook[ev].pc = "listing" /\ hook[ev].ids \cup hook[ev].matched = {}
  /\ hook' = [hook EXCEPT ![ev].pc = "done"]
  /\ UNCHANGED <<endpoint, rows, worker, tally>>

HookStep(ev) == ListIds(ev) \/ GetEndpoint(ev) \/ ListingFails(ev) \/ Enqueue(ev) \/ Enqueued(ev)

(***************************************************************************)
(* The worker: dispatchPending at every tick, deliverOne for each row.     *)
(***************************************************************************)
Due == {d \in DOMAIN rows : rows[d].due /\ ~rows[d].settled}

\* Fault: only rows that have not been tried are claimed.
ClaimFresh ==
  LET fresh == {d \in Due : rows[d].attempt = 0} IN
  /\ worker.pc = "idle" /\ fresh # {}
  /\ \E batch \in kSubset(Min({BatchLimit, Cardinality(fresh)}), fresh) :
       worker' = [worker EXCEPT !.pc = "next", !.batch = {<<d, rows[d].attempt>> : d \in batch}]
  /\ UNCHANGED <<endpoint, hook, rows, tally>>

\* ClaimPendingDeliveries only reads: nothing marks the rows as claimed.
Claim ==
  /\ worker.pc = "idle" /\ Due # {}
  /\ \E batch \in kSubset(Min({BatchLimit, Cardinality(Due)}), Due) :
       worker' = [worker EXCEPT !.pc = "next", !.batch = {<<d, rows[d].attempt>> : d \in batch}]
  /\ UNCHANGED <<endpoint, hook, rows, tally>>

BatchDone ==
  /\ worker.pc = "next" /\ worker.batch = {}
  /\ worker' = IdleWorker
  /\ UNCHANGED <<endpoint, hook, rows, tally>>

\* Fault: the endpoint is looked up once, when the batch is claimed.
TakeUnchecked ==
  /\ worker.pc = "next"
  /\ \E job \in worker.batch :
       worker' = [worker EXCEPT !.batch = @ \ {job}, !.pc = "post", !.job = job]
  /\ UNCHANGED <<endpoint, hook, rows, tally>>

\* deliverOne reads the endpoint again (a delivery of a deleted one is left
\* alone), and looks at the address its URL has now: a refused one, or a name
\* that does not resolve at the moment, is never posted.
Take ==
  /\ worker.pc = "next"
  /\ \E job \in worker.batch, addresses \in Addresses :
       worker' = [worker EXCEPT !.batch = @ \ {job},
                    !.pc = IF ~There(job[1][2]) THEN "next" ELSE IF Refused(addresses) THEN "refuse" ELSE "post",
                    !.job = IF There(job[1][2]) THEN job ELSE NoJob]
  /\ UNCHANGED <<endpoint, hook, rows, tally>>

\* The POST and what the client makes of it; no answer within 10 s is an error,
\* whatever the endpoint has done with the request.
Post ==
  LET d == worker.job[1] IN
  /\ worker.pc = "post"
  /\ \E answer \in {"2xx", "other", "error"} :
       worker' = [worker EXCEPT !.pc = IF answer = "2xx" THEN "accepted" ELSE "rejected", !.answer = answer]
  /\ tally' = IF There(d[2]) THEN [tally EXCEPT !.posts[d] = @ + 1] ELSE [tally EXCEPT !.late[d[2]] = @ + 1]
  /\ UNCHANGED <<endpoint, hook, rows>>

\* An answer to the POST of d is in, and not marked yet.
Answered(d) == worker.pc \in {"accepted", "rejected"} /\ worker.job[1] = d

\* An UPDATE of the row of the job, which may be gone; its error is ignored.
UpdateRow(d, row) == rows' = IF d \in DOMAIN rows THEN [rows EXCEPT ![d] = row] ELSE rows
Settled(d) == [rows[d] EXCEPT !.settled = TRUE, !.answer = worker.answer]
MarkLost(d) ==
  /\ tally.troubles < MaxTroubles
  /\ tally' = [tally EXCEPT !.troubles = @ + 1, !.unmarked[d] = @ + IF worker.pc = "refuse" THEN 0 ELSE 1]
  /\ UNCHANGED rows
NextJob(pc) == worker' = [worker EXCEPT !.pc = pc, !.job = IF pc = "next" THEN NoJob ELSE @, !.answer = "none"]

\* A refused target is marked as delivered, and counts as a failure.
Refuse ==
  LET d == worker.job[1] IN
  /\ worker.pc = "refuse"
  /\ \/ UpdateRow(d, Settled(d)) /\ tally' = [tally EXCEPT !.refused = @ \cup {d}]
     \/ MarkLost(d)
  /\ NextJob("count")
  /\ UNCHANGED <<endpoint, hook>>

\* Fault: a delivery that was accepted is left to the next claim.
AcceptUnmarked ==
  /\ worker.pc = "accepted"
  /\ NextJob("reset")
  /\ UNCHANGED <<endpoint, hook, rows, tally>>

MarkAccepted ==
  LET d == worker.job[1] IN
  /\ worker.pc = "accepted"
  /\ \/ UpdateRow(d, Settled(d)) /\ UNCHANGED tally
     \/ MarkLost(d)
  /\ NextJob("reset")
  /\ UNCHANGED <<endpoint, hook>>

\* Fault: one attempt too few before giving up.
GivesUpEarly(attempt) == attempt >= Delays - 1

\* nextAttemptAfter.
GivesUp(attempt) == attempt >= Delays

\* Another attempt later, or the end of the retries.
MarkRejected ==
  LET d == worker.job[1]
      last == GivesUp(worker.job[2])
      later == [rows[d] EXCEPT !.attempt = @ + 1, !.due = FALSE, !.answer = worker.answer]
  IN
  /\ worker.pc = "rejected"
  /\ \/ UpdateRow(d, IF last THEN Settled(d) ELSE later) /\ UNCHANGED tally
     \/ MarkLost(d)
  /\ NextJob(IF last THEN "count" ELSE "next")
  /\ UNCHANGED <<endpoint, hook>>

\* IncrementWebhookFailures and ResetWebhookFailures; nothing reads the counter.
CountFailures ==
  LET e == worker.job[1][2] IN
  /\ worker.pc \in {"count", "reset"}
  /\ endpoint' = IF There(e)
                 THEN [endpoint EXCEPT ![e].failures = IF worker.pc = "count" THEN @ + 1 ELSE 0]
                 ELSE endpoint
  /\ NextJob("next")
  /\ UNCHANGED <<hook, rows, tally>>

WorkerStep ==
  Claim \/ BatchDone \/ Take \/ Post \/ Refuse \/ MarkAccepted \/ MarkRejected \/ CountFailures

\* next_attempt_at has come.
BackoffOver(d) ==
  /\ d \in DOMAIN rows /\ ~rows[d].due
  /\ rows' = [rows EXCEPT ![d].due = TRUE]
  /\ UNCHANGED <<endpoint, hook, worker, tally>>

\* jed dies: the goroutines are gone, an answer that was not marked is lost, and
\* nobody runs the hook of the interrupted events again.  Run starts with the
\* new process.
Crash ==
  /\ tally.troubles < MaxTroubles
  /\ worker' = IdleWorker
  /\ hook' = [ev \in Events |-> IF hook[ev].pc \in {"none", "done", "failed", "unread"} THEN hook[ev]
                                ELSE [NoHook EXCEPT !.pc = "lost"]]
  /\ tally' = [tally EXCEPT !.troubles = @ + 1,
                            !.unmarked = [d \in Deliveries |-> @[d] + IF Answered(d) THEN 1 ELSE 0]]
  /\ UNCHANGED <<endpoint, rows>>

Next ==
  \/ \E e \in Endpoints : (\E types \in TypeLists : CreateEndpoint(e, types)) \/ DeleteEndpoint(e)
  \/ \E ev \in Events : Publish(ev) \/ HookStep(ev)
  \/ WorkerStep
  \/ \E d \in Deliveries : BackoffOver(d)
  \/ Crash

Spec == Init /\ [][Next]_vars

\* The worker's ticker fires for ever, each POST ends within 10 s, and the
\* delays end.
Fairness ==
  /\ WF_vars(WorkerStep)
  /\ \A d \in Deliveries : WF_vars(BackoffOver(d))

FairSpec == Spec /\ Fairness

(***************************************************************************)
(* Properties.                                                             *)
(***************************************************************************)
\* The types of the two tables and of the goroutines.
TypeOK ==
  /\ endpoint \in [Endpoints -> [there : {"never", "live", "deleted"}, wants : SUBSET Events, failures : Nat]]
  /\ hook \in [Events -> [pc : {"none", "started", "listing", "done", "failed", "unread", "lost"},
                          ids : SUBSET Endpoints, listed : SUBSET Endpoints, matched : SUBSET Endpoints]]
  /\ DOMAIN rows \subseteq Deliveries
  /\ \A d \in DOMAIN rows :
       /\ There(d[2])
       /\ rows[d] \in [attempt : 0 .. Delays, due : BOOLEAN, settled : BOOLEAN,
                       answer : {"none", "2xx", "other", "error"}]
  /\ worker \in [pc : {"idle", "next", "post", "refuse", "accepted", "rejected", "count", "reset"},
                 batch : SUBSET (Deliveries \X (0 .. Delays)),
                 job : (Deliveries \X (0 .. Delays)) \cup {NoJob}, answer : {"none", "2xx", "other", "error"}]
  /\ tally \in [posts : [Deliveries -> Nat], unmarked : [Deliveries -> Nat], refused : SUBSET Deliveries,
                unqueued : SUBSET Deliveries, late : [Endpoints -> Nat],
                troubles : 0 .. MaxTroubles]

\* A delivery is posted once for each counted attempt, once more for the answer
\* that settled it, and beyond that only as often as an answer was lost to a
\* crash or a failed write: a delivery is never posted twice for one attempt,
\* and never more than 1 + Delays times by a jed that keeps running.
PostsAccounted ==
  \A d \in DOMAIN rows :
    tally.posts[d] = rows[d].attempt + tally.unmarked[d]
                     + (IF Answered(d) THEN 1 ELSE 0)
                     + (IF rows[d].settled /\ d \notin tally.refused THEN 1 ELSE 0)

\* No delivery is dropped on the way: a settled one was accepted, or rejected
\* on the first attempt and after every delay, or its target was refused.
NotDropped ==
  \A d \in DOMAIN rows :
    rows[d].settled => \/ rows[d].answer = "2xx"
                       \/ rows[d].attempt = Delays
                       \/ d \in tally.refused

\* A deleted endpoint gets at most the one POST that was about to leave,
\* however many of its deliveries the worker had claimed.
QuietAfterDelete == \A e \in Endpoints : tally.late[e] <= 1

\* When PublishEvent has gone through its list, each endpoint that was listed,
\* matched and still exists has its delivery, unless its own insert failed.  It gives
\* up only because a listed endpoint was deleted meanwhile or because a SELECT of the
\* listing itself failed ("unread"), and then no endpoint has the event: it is never
\* enqueued for some of the list and forgotten for the rest.
SubscribersInformed ==
  \A ev \in Events :
    /\ hook[ev].pc = "done" =>
         \A e \in hook[ev].listed :
           There(e) /\ ev \in endpoint[e].wants => <<ev, e>> \in DOMAIN rows \cup tally.unqueued
    /\ hook[ev].pc = "failed" => \E e \in hook[ev].listed : endpoint[e].there = "deleted"
    /\ hook[ev].pc \in {"failed", "unread"} => \A e \in Endpoints : <<ev, e>> \notin DOMAIN rows

\* Every delivery that was enqueued is settled in the end, or goes with its
\* endpoint: claimed rows are not locked, so a crash leaves none behind.
Open(d) == d \in DOMAIN rows /\ ~rows[d].settled
DeliveriesSettle == \A d \in Deliveries : Open(d) ~> ~Open(d)
=============================================================================
