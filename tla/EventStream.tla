---------------------------- MODULE EventStream ----------------------------
(***************************************************************************)
(* The event stream of one session: Broker.Publish and its dispatch to the *)
(* subscribers (internal/event/broker.go), and the SSE handler that        *)
(* subscribes, replays the history and then follows the live channel       *)
(* (internal/api/event.go streamEvents), with clients that lose their      *)
(* connection and come back with ?since or Last-Event-ID.                  *)
(*                                                                         *)
(* The append of Publish is one step (EventLog); an event is known by its  *)
(* seq, its position in the log.  Publishers are the goroutines that call  *)
(* Publish: the turn of the session and the handlers of POST /events.      *)
(***************************************************************************)
EXTENDS Integers, Sequences, FiniteSets, FiniteSetsExt, Functions

CONSTANTS
  Publishers,
  Scenarios,      \* what they publish: functions from Publishers to sequences of
                  \* "plain" and "terminal" events
  Clients,
  Cap,            \* capacity of a subscriber's channel (64 in the code)
  MaxConnects,    \* bound: connections of one client
  MaxBreaks       \* bound: connections of one client that break

ASSUME StreamAssumption ==
  /\ Scenarios \subseteq [Publishers -> Seq({"plain", "terminal"})]
  /\ IsFiniteSet(Publishers)
  /\ Cap \in Nat \ {0} /\ MaxConnects \in Nat \ {0} /\ MaxBreaks \in Nat

\* Subscribe makes a channel for every connection.
Channels == Clients \X (1 .. MaxConnects)

VARIABLES
  log,        \* the types of the session's events, by seq
  pub,        \* pub[p]: the publisher p; "todo" are the channels dispatch has still to serve
  subs,       \* Broker.subs of the session
  queue,      \* queue[ch]: what is in channel ch
  closed,     \* the channels that have been closed
  client      \* client[c]: the connection of client c and what c has received

broker == <<pub, subs, queue, closed>>
vars == <<log, pub, subs, queue, closed, client>>

NewPublisher(script) == [pc |-> "idle", script |-> script, seq |-> 0, todo |-> {}, full |-> << >>]
NewClient ==
  [pc |-> "off", conn |-> 0, from |-> 0, since |-> 0, replayed |-> 0, got |-> << >>, seen |-> {}, breaks |-> 0]

Init ==
  /\ log = << >>
  /\ \E scripts \in Scenarios : pub = [p \in Publishers |-> NewPublisher(scripts[p])]
  /\ subs = {}
  /\ queue = [ch \in Channels |-> << >>]
  /\ closed = {}
  /\ client = [c \in Clients |-> NewClient]

(***************************************************************************)
(* Broker.Publish and dispatch.                                            *)
(***************************************************************************)

\* AppendEvent.
Persist(p) ==
  /\ pub[p].pc = "idle" /\ pub[p].script # << >>
  /\ log' = Append(log, Head(pub[p].script))
  /\ pub' = [pub EXCEPT ![p] = [@ EXCEPT !.pc = "persisted", !.script = Tail(pub[p].script), !.seq = Len(log) + 1]]
  /\ UNCHANGED <<subs, queue, closed, client>>

\* dispatch copies the subscribers under the read lock and then lets it go.
CopySubscribers(p) ==
  /\ pub[p].pc = "persisted"
  /\ pub' = [pub EXCEPT ![p] = [@ EXCEPT !.pc = "sending", !.todo = subs]]
  /\ UNCHANGED <<log, subs, queue, closed, client>>

\* Fault: an event that does not fit is dropped, and the slow consumer kept.
SendOrDrop(p) ==
  /\ pub[p].pc = "sending"
  /\ \E ch \in pub[p].todo :
       /\ pub' = [pub EXCEPT ![p].todo = @ \ {ch}]
       /\ queue' = IF Len(queue[ch]) = Cap THEN queue ELSE [queue EXCEPT ![ch] = Append(@, pub[p].seq)]
  /\ UNCHANGED <<log, subs, closed, client>>

\* Fault: the length of the buffer is forgotten.
SendUnbounded(p) ==
  /\ pub[p].pc = "sending"
  /\ \E ch \in pub[p].todo :
       /\ pub' = [pub EXCEPT ![p].todo = @ \ {ch}]
       /\ queue' = [queue EXCEPT ![ch] = Append(@, pub[p].seq)]
  /\ UNCHANGED <<log, subs, closed, client>>

\* ch <- ev, without waiting: into the buffer, or on to closing the channel, or,
\* if another publisher has closed it since, a panic, which kills the publisher.
Send(p) ==
  /\ pub[p].pc = "sending"
  /\ \E ch \in pub[p].todo :
       LET sent == [pub[p] EXCEPT !.todo = @ \ {ch}] IN
       /\ pub' = [pub EXCEPT ![p] =
            CASE ch \in closed -> [sent EXCEPT !.pc = "panicked"]
              [] ch \notin closed /\ Len(queue[ch]) < Cap -> sent
              [] OTHER -> [sent EXCEPT !.pc = "closing", !.full = ch]]
       /\ queue' = IF ch \in closed \/ Len(queue[ch]) = Cap THEN queue
                   ELSE [queue EXCEPT ![ch] = Append(@, pub[p].seq)]
  /\ UNCHANGED <<log, subs, closed, client>>

\* Fault: the slow consumer is dropped without being told.
CloseSlowSilently(p) ==
  /\ pub[p].pc = "closing"
  /\ subs' = subs \ {pub[p].full}
  /\ pub' = [pub EXCEPT ![p] = [@ EXCEPT !.pc = "sending", !.full = << >>]]
  /\ UNCHANGED <<log, queue, closed, client>>

\* A slow consumer is closed, unless it has gone meanwhile.
CloseSlow(p) ==
  LET ch == pub[p].full IN
  /\ pub[p].pc = "closing"
  /\ subs' = subs \ {ch}
  /\ closed' = IF ch \in subs THEN closed \cup {ch} ELSE closed
  /\ pub' = [pub EXCEPT ![p] = [@ EXCEPT !.pc = "sending", !.full = << >>]]
  /\ UNCHANGED <<log, queue, client>>

Published(p) ==
  /\ pub[p].pc = "sending" /\ pub[p].todo = {}
  /\ pub' = [pub EXCEPT ![p].pc = "idle"]
  /\ UNCHANGED <<log, subs, queue, closed, client>>

PublisherStep(p) ==
  Persist(p) \/ CopySubscribers(p) \/ Send(p) \/ CloseSlow(p) \/ Published(p)

(***************************************************************************)
(* streamEvents, and the client at the other end.                          *)
(***************************************************************************)
Channel(c) == <<c, client[c].conn>>
SeenEnd(c) == \E n \in client[c].seen : log[n] = "terminal"

\* The handler writes the events "seqs" to client c, which remembers the last id.
Received(k, seqs) ==
  [k EXCEPT !.got = @ \o seqs, !.seen = @ \cup Range(seqs),
            !.since = IF seqs = << >> THEN @ ELSE seqs[Len(seqs)]]

\* The handler returns: the deferred unsubscribe.
Unsubscribe(c) == subs' = subs \ {Channel(c)}

\* A client that has not seen the end of the turn (re)connects, with the last id
\* it got ("from", until the connection ends); the handler subscribes first.
Connect(c) ==
  LET ch == <<c, client[c].conn + 1>> IN
  /\ client[c].pc = "off" /\ client[c].conn < MaxConnects /\ ~SeenEnd(c)
  /\ client' = [client EXCEPT ![c] = [@ EXCEPT !.pc = "subscribed", !.conn = client[c].conn + 1,
                              !.from = client[c].since, !.replayed = client[c].since, !.got = << >>]]
  /\ subs' = subs \cup {ch}
  /\ UNCHANGED <<log, pub, queue, closed>>

\* ListEvents, and every event after since up to the first terminal one.
Replay(c) ==
  LET k == client[c]
      fresh == {n \in 1 .. Len(log) : n > k.since}
      ends == {n \in fresh : log[n] = "terminal"}
      last == IF ends # {} THEN Min(ends) ELSE IF fresh # {} THEN Len(log) ELSE k.since
      sent == Received(k, [i \in 1 .. last - k.since |-> k.since + i])
  IN
  /\ k.pc = "subscribed"
  /\ client' = [client EXCEPT ![c] =
                  [sent EXCEPT !.replayed = last, !.pc = IF ends # {} THEN "off" ELSE "live"]]
  /\ IF ends # {} THEN Unsubscribe(c) ELSE UNCHANGED subs
  /\ UNCHANGED <<log, pub, queue, closed>>

\* Fault: an event that the replay has sent is sent again.
ReceiveTwice(c) ==
  LET k == client[c]
      n == Head(queue[Channel(c)])
      end == log[n] = "terminal"
  IN
  /\ k.pc = "live" /\ queue[Channel(c)] # << >>
  /\ queue' = [queue EXCEPT ![Channel(c)] = Tail(@)]
  /\ client' = [client EXCEPT ![c] = [Received(k, <<n>>) EXCEPT !.pc = IF end THEN "off" ELSE "live"]]
  /\ IF end THEN Unsubscribe(c) ELSE UNCHANGED subs
  /\ UNCHANGED <<log, pub, closed>>

\* Fault: an event older than the last one written is taken for a replayed one.
ReceiveInOrderOnly(c) ==
  LET k == client[c]
      n == Head(queue[Channel(c)])
      end == n > k.since /\ log[n] = "terminal"
  IN
  /\ k.pc = "live" /\ queue[Channel(c)] # << >>
  /\ queue' = [queue EXCEPT ![Channel(c)] = Tail(@)]
  /\ client' = [client EXCEPT ![c] =
       IF n <= k.since THEN k
       ELSE [Received(k, <<n>>) EXCEPT !.pc = IF end THEN "off" ELSE "live"]]
  /\ IF end THEN Unsubscribe(c) ELSE UNCHANGED subs
  /\ UNCHANGED <<log, pub, closed>>

\* The next event of the channel: skipped if the replay has sent it.
Receive(c) ==
  LET k == client[c]
      n == Head(queue[Channel(c)])
      end == n > k.replayed /\ log[n] = "terminal"
  IN
  /\ k.pc = "live" /\ queue[Channel(c)] # << >>
  /\ queue' = [queue EXCEPT ![Channel(c)] = Tail(@)]
  /\ client' = [client EXCEPT ![c] =
       IF n <= k.replayed THEN k
       ELSE [Received(k, <<n>>) EXCEPT !.pc = IF end THEN "off" ELSE "live"]]
  /\ IF end THEN Unsubscribe(c) ELSE UNCHANGED subs
  /\ UNCHANGED <<log, pub, closed>>

\* The channel is closed and drained.
ReceiveClosed(c) ==
  /\ client[c].pc = "live" /\ queue[Channel(c)] = << >> /\ Channel(c) \in closed
  /\ client' = [client EXCEPT ![c].pc = "off"]
  /\ Unsubscribe(c)
  /\ UNCHANGED <<log, pub, queue, closed>>

\* The connection breaks; the request context of the handler is cancelled.
Disconnect(c) ==
  /\ client[c].pc \in {"subscribed", "live"} /\ client[c].breaks < MaxBreaks
  /\ client' = [client EXCEPT ![c] = [@ EXCEPT !.pc = "off", !.breaks = client[c].breaks + 1]]
  /\ Unsubscribe(c)
  /\ UNCHANGED <<log, pub, queue, closed>>

ClientStep(c) == Connect(c) \/ Replay(c) \/ Receive(c) \/ ReceiveClosed(c)

Next ==
  \/ \E p \in Publishers : PublisherStep(p)
  \/ \E c \in Clients : ClientStep(c) \/ Disconnect(c)

Spec == Init /\ [][Next]_vars

\* Publishers and handlers are goroutines that are never blocked for good; the
\* client comes back until it has seen the end of the turn.
FairSpec ==
  /\ Spec
  /\ \A p \in Publishers : WF_vars(PublisherStep(p))
  /\ \A c \in Clients : WF_vars(ClientStep(c))

(***************************************************************************)
(* Properties.                                                             *)
(***************************************************************************)
\* The types of the broker's maps, the channels and the clients.
TypeOK ==
  /\ log \in Seq({"plain", "terminal"})
  /\ pub \in [Publishers -> [pc : {"idle", "persisted", "sending", "closing", "panicked"},
                             script : Seq({"plain", "terminal"}), seq : Nat,
                             todo : SUBSET Channels, full : Channels \cup {<< >>}]]
  /\ {subs, closed} \subseteq SUBSET Channels
  /\ queue \in [Channels -> Seq(DOMAIN log)] /\ \A ch \in Channels : Len(queue[ch]) <= Cap
  /\ client \in [Clients -> [pc : {"off", "subscribed", "live"}, conn : 0 .. MaxConnects, from : Nat,
                             since : Nat, replayed : Nat, got : Seq(Nat), seen : SUBSET Nat, breaks : 0 .. MaxBreaks]]

\* The handler deduplicates: an event that is both in the replayed history and
\* in the channel is written once on a connection, whoever published it and in
\* whatever order.
NoDuplicates == \A c \in Clients : IsInjective(client[c].got)

\* Publisher p will still offer event n to channel ch, or close the channel.
Owes(p, n, ch) ==
  /\ pub[p].seq = n
  /\ \/ pub[p].pc = "persisted" /\ ch \in subs
     \/ pub[p].pc = "sending" /\ ch \in pub[p].todo
     \/ pub[p].pc = "closing" /\ ch \in pub[p].todo \cup {pub[p].full}

\* Publisher p would have, but has panicked at a channel before it (SlowConsumerHarmless).
LostToPanic(p, n, ch) == pub[p].seq = n /\ pub[p].pc = "panicked" /\ ch \in pub[p].todo

\* Subscribing before replaying leaves no window in which an event is lost, and no
\* event is skipped because a later one has overtaken it: as long as the broker has
\* not closed its channel, a live connection has written each event of the session
\* behind the id it started from, or it is in the channel or on its way there.  Only
\* what a publisher still had to send when it panicked is lost.
LiveStreamLosesNothing ==
  \A c \in Clients :
    client[c].pc = "live" /\ Channel(c) \notin closed =>
      \A n \in DOMAIN log :
        n > client[c].from =>
          \/ n \in Range(client[c].got) \cup Range(queue[Channel(c)])
          \/ \E p \in Publishers : Owes(p, n, Channel(c)) \/ LostToPanic(p, n, Channel(c))

\* While one goroutine does all the publishing, a client has received exactly
\* the events up to its last id, over all its connections, closed or broken.
Alone == Cardinality({p \in Publishers : pub[p].script # << >> \/ pub[p].seq # 0}) <= 1
NoGaps == Alone => \A c \in Clients : client[c].seen = 1 .. client[c].since

\* A client that connects late or comes back gets the end of the turn, however
\* its connections break and whether or not it is slow.
Ended == "terminal" \in Range(log)
SeesEnd == \A c \in Clients : Alone /\ Ended ~> SeenEnd(c)

\* The same whoever publishes: "connecting late or reconnecting deadlocks no more".
Panicked == \E p \in Publishers : pub[p].pc = "panicked"
ReconnectNeverDeadlocks == \A c \in Clients : Ended ~> SeenEnd(c) \/ Panicked

\* A slow consumer is closed by the broker, and that is all that happens to it:
\* no Publish fails because of it.
SlowConsumerHarmless == ~Panicked
=============================================================================
