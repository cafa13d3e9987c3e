------------------------- MODULE EventStreamProofs -------------------------
(***************************************************************************)
(* Proofs about EventStream, for any publishers, clients, scripts and      *)
(* buffer sizes: the types, that no connection gets an event twice, that a *)
(* live connection loses nothing unless it is closed or a publisher        *)
(* panics, and that a client of a single publisher has no gaps over all    *)
(* its connections.                                                        *)
(***************************************************************************)
EXTENDS EventStream, FiniteSetTheorems, SequenceTheorems, WellFoundedInduction, TLAPS

PublisherRows ==
  [pc : {"idle", "persisted", "sending", "closing", "panicked"}, script : Seq({"plain", "terminal"}),
   seq : Nat, todo : SUBSET Channels, full : Channels \cup {<< >>}]
ClientRows ==
  [pc : {"off", "subscribed", "live"}, conn : 0 .. MaxConnects, from : Nat, since : Nat, replayed : Nat,
   got : Seq(Nat), seen : SUBSET Nat, breaks : 0 .. MaxBreaks]

(***************************************************************************)
(* The inductive invariant.                                                *)
(***************************************************************************)
\* Two events on their way are two events.
SeqInv ==
  /\ \A p \in Publishers :
       /\ pub[p].seq <= Len(log)
       /\ pub[p].pc # "idle" => pub[p].seq # 0
       /\ pub[p].pc = "closing" => pub[p].full \in Channels
       /\ Alone => pub[p].seq \in {0, Len(log)}
  /\ \A p, q \in Publishers :
       p # q /\ pub[p].pc # "idle" /\ pub[q].pc # "idle" => pub[p].seq # pub[q].seq

\* Nobody knows a channel that no handler has made yet.
ChannelInv ==
  /\ \A ch \in subs : ch[2] <= client[ch[1]].conn
  /\ \A p \in Publishers : \A ch \in pub[p].todo : ch[2] <= client[ch[1]].conn
  /\ \A ch \in Channels : ch[2] > client[ch[1]].conn => queue[ch] = << >>

\* Publisher p may still put its event into channel ch.
MaySend(p, ch) ==
  \/ pub[p].pc = "persisted"
  \/ pub[p].pc \in {"sending", "closing"} /\ ch \in pub[p].todo

\* A channel is a queue of distinct events; those of a single publisher are consecutive.
Consecutive(q) == \A i \in DOMAIN q : i + 1 \in DOMAIN q => q[i + 1] = q[i] + 1
QueueInv ==
  \A ch \in Channels :
    /\ IsInjective(queue[ch])
    /\ \A p \in Publishers : MaySend(p, ch) => pub[p].seq \notin Range(queue[ch])

\* How far client c and its handler have come: what the replay has passed is what the
\* client had before this connection, or was written on it.  The channel of the handler
\* is in the map until it is closed.
Progress(c) == LET k == client[c] IN
  /\ k.since <= Len(log) /\ k.replayed <= Len(log)
  /\ k.seen \subseteq DOMAIN log /\ Range(k.got) \subseteq k.seen
  /\ k.pc = "subscribed" => k.from = k.since
  /\ k.pc = "live" => \A n \in DOMAIN log : n <= k.replayed => n <= k.from \/ n \in Range(k.got)
  /\ k.pc = "subscribed" => k.got = << >>
  /\ k.pc = "live" => k.replayed <= k.since /\ (k.since = k.replayed \/ k.since \in Range(k.got))
  /\ k.pc # "off" => k.conn # 0 /\ Channel(c) \in subs \cup closed

\* What the replay has not sent is received, in the channel or on its way there,
\* and only one of these.  (since may go down when publishers overlap, replayed
\* may not.)
Once(c) == LET k == client[c] IN
  /\ IsInjective(k.got)
  /\ k.pc = "live" =>
       /\ \A n \in Range(queue[Channel(c)]) : n > k.replayed => n \notin Range(k.got)
       /\ \A p \in Publishers :
            MaySend(p, Channel(c)) /\ pub[p].seq > k.replayed => pub[p].seq \notin Range(k.got)

\* Publisher p has event n for channel ch, also when it has panicked.
Reserves(p, n, ch) ==
  /\ pub[p].seq = n
  /\ \/ pub[p].pc = "persisted" /\ ch \in subs
     \/ pub[p].pc \in {"sending", "panicked"} /\ ch \in pub[p].todo
     \/ pub[p].pc = "closing" /\ ch \in pub[p].todo \cup {pub[p].full}

Lossless(c) ==
  client[c].pc = "live" /\ Channel(c) \notin closed =>
    \A n \in DOMAIN log :
      \/ n <= client[c].replayed \/ n \in Range(client[c].got)
      \/ n \in Range(queue[Channel(c)])
      \/ \E p \in Publishers : Reserves(p, n, Channel(c))

\* What a channel holds ends with the newest event or the one before, and continues
\* what was received.
InOrder(c) == LET k == client[c]
                  q == queue[Channel(c)]
              IN
  Alone =>
    /\ k.seen = 1 .. k.since
    /\ k.pc # "off" => Consecutive(q)
    /\ k.pc # "off" /\ Channel(c) \notin closed /\ q # << >> =>
         \/ q[Len(q)] = Len(log)
         \/ q[Len(q)] = Len(log) - 1 /\ \E p \in Publishers : Reserves(p, Len(log), Channel(c))
    /\ k.pc = "live" /\ q # << >> =>
         q[1] = k.since + 1 \/ (q[1] <= k.replayed /\ k.since = k.replayed)

ClientOK(c) == Progress(c) /\ Once(c) /\ Lossless(c) /\ InOrder(c)

IInv ==
  /\ TypeOK /\ SeqInv /\ ChannelInv /\ QueueInv
  /\ \A c \in Clients : ClientOK(c)

(***************************************************************************)
(* Sequences.                                                              *)
(***************************************************************************)
LEMMA AppendFacts ==
  ASSUME NEW S \in SUBSET Nat, NEW q \in Seq(S), NEW e \in S
  PROVE  LET r == Append(q, e) IN
         /\ r \in Seq(S) /\ r # << >> /\ Len(r) = Len(q) + 1 /\ r[Len(r)] = e
         /\ r[1] = IF q = << >> THEN e ELSE q[1]
         /\ Range(r) = Range(q) \cup {e}
         /\ IsInjective(q) /\ e \notin Range(q) => IsInjective(r)
         /\ Consecutive(q) /\ (q = << >> \/ e = q[Len(q)] + 1) => Consecutive(r)
<1> DEFINE r == Append(q, e)
<1>1. /\ r \in Seq(S) /\ r # << >> /\ Len(r) = Len(q) + 1 /\ r[Len(r)] = e
      /\ DOMAIN r = DOMAIN q \cup {Len(q) + 1} /\ Len(q) + 1 \notin DOMAIN q
      /\ DOMAIN q = 1 .. Len(q) /\ Len(q) \in Nat /\ r[Len(q) + 1] = e
      /\ \A i \in DOMAIN q : r[i] = q[i]
  OBVIOUS
<1>2. r[1] = IF q = << >> THEN e ELSE q[1]
  <2>1. CASE q = << >>
    BY <1>1, <2>1
  <2>2. CASE q # << >>
    BY <1>1, <2>2
  <2> QED BY <2>1, <2>2
<1> HIDE DEF r
<1>3. Range(r) = Range(q) \cup {e}
  BY <1>1 DEF Range
<1>4. IsInjective(q) /\ e \notin Range(q) => IsInjective(r)
  BY <1>1 DEF IsInjective, Range
<1>5. ASSUME Consecutive(q), q = << >> \/ e = q[Len(q)] + 1 PROVE Consecutive(r)
  <2>1. SUFFICES ASSUME NEW i \in DOMAIN r, i + 1 \in DOMAIN r PROVE r[i + 1] = r[i] + 1
    BY DEF Consecutive
  <2>2. i \in 1 .. Len(q)
    BY <1>1, <2>1
  <2>3. CASE i = Len(q)
    <3>1. q # << >>
      BY <2>2, <2>3
    <3> QED BY <1>1, <1>5, <2>2, <2>3, <3>1
  <2>4. CASE i # Len(q)
    <3>1. i \in DOMAIN q /\ i + 1 \in DOMAIN q
      BY <1>1, <2>2, <2>4
    <3> QED BY <1>1, <1>5, <3>1 DEF Consecutive
  <2> QED BY <2>3, <2>4
<1> QED BY <1>1, <1>2, <1>3, <1>4, <1>5 DEF r

LEMMA TailFacts ==
  ASSUME NEW S \in SUBSET Nat, NEW q \in Seq(S), q # << >>
  PROVE  LET r == Tail(q) IN
         /\ r \in Seq(S) /\ Len(r) = Len(q) - 1 /\ Head(q) = q[1] /\ q[1] \in S
         /\ r # << >> => r[Len(r)] = q[Len(q)]
         /\ Range(q) = Range(r) \cup {q[1]}
         /\ IsInjective(q) => IsInjective(r) /\ q[1] \notin Range(r)
         /\ Consecutive(q) => Consecutive(r) /\ (r # << >> => r[1] = q[1] + 1)
<1> DEFINE r == Tail(q)
<1>1. /\ r \in Seq(S) /\ Len(r) = Len(q) - 1 /\ Head(q) = q[1] /\ q[1] \in S
      /\ DOMAIN q = 1 .. Len(q) /\ DOMAIN r = 1 .. (Len(q) - 1) /\ Len(q) \in Nat \ {0}
      /\ \A i \in 1 .. (Len(q) - 1) : r[i] = q[i + 1]
  OBVIOUS
<1>2. r # << >> => r[Len(r)] = q[Len(q)] /\ 1 \in DOMAIN r /\ 1 \in DOMAIN q /\ 2 \in DOMAIN q
  BY <1>1
<1> HIDE DEF r
<1>3. \A i \in DOMAIN r : i + 1 \in DOMAIN q /\ r[i] = q[i + 1] /\ i \in DOMAIN q
  BY <1>1
<1>4. \A i \in DOMAIN q : i = 1 \/ (i - 1 \in DOMAIN r /\ r[i - 1] = q[i])
  BY <1>1
<1>5. 1 \in DOMAIN q
  BY <1>1
<1>6. Range(q) = Range(r) \cup {q[1]}
  <2>1. Range(q) \subseteq Range(r) \cup {q[1]}
    BY <1>4 DEF Range
  <2>2. Range(r) \cup {q[1]} \subseteq Range(q)
    BY <1>3, <1>5 DEF Range
  <2> QED BY <2>1, <2>2
<1>7. ASSUME IsInjective(q) PROVE IsInjective(r) /\ q[1] \notin Range(r)
  <2>1. \A i, j \in DOMAIN r : r[i] = r[j] => i + 1 = j + 1
    BY <1>3, <1>7 DEF IsInjective
  <2>2. \A i \in DOMAIN r : r[i] # q[1]
    <3>1. \A i \in DOMAIN r : i + 1 # 1
      BY <1>1
    <3> QED BY <1>3, <1>5, <1>7, <3>1 DEF IsInjective
  <2> QED BY <1>1, <2>1, <2>2 DEF IsInjective, Range
<1>8. ASSUME Consecutive(q) PROVE Consecutive(r) /\ (r # << >> => r[1] = q[1] + 1)
  BY <1>1, <1>2, <1>8 DEF Consecutive
<1> QED BY <1>1, <1>2, <1>6, <1>7, <1>8 DEF r

LEMMA MoreRoom ==
  ASSUME NEW S, NEW T, S \subseteq T, NEW f \in [Channels -> Seq(S)]
  PROVE  f \in [Channels -> Seq(T)]
<1>1. Seq(S) \subseteq Seq(T)
  OBVIOUS
<1> QED BY <1>1

\* What the replay sends.
LEMMA ReplaySeqs ==
  ASSUME NEW a \in Nat, NEW b \in Nat, a <= b
  PROVE  LET s == [i \in 1 .. b - a |-> a + i] IN
         /\ s \in Seq(Nat) /\ Len(s) = b - a /\ (s = << >> <=> a = b)
         /\ s # << >> => s[Len(s)] = b
         /\ Range(s) = (a + 1) .. b /\ IsInjective(s)
<1> DEFINE s == [i \in 1 .. b - a |-> a + i]
<1>1. b - a \in Nat /\ DOMAIN s = 1 .. b - a /\ \A i \in 1 .. b - a : s[i] = a + i /\ a + i \in Nat
  OBVIOUS
<1>2. s \in Seq(Nat) /\ Len(s) = b - a
  BY <1>1
<1>3. s = << >> <=> a = b
  BY <1>2
<1>4. s # << >> => s[Len(s)] = b
  BY <1>1, <1>2, <1>3
<1>5. IsInjective(s)
  BY <1>1 DEF IsInjective
<1>6. Range(s) = (a + 1) .. b
  <2> HIDE DEF s
  <2>1. ASSUME NEW n \in (a + 1) .. b PROVE n \in Range(s)
    <3>1. n - a \in 1 .. b - a /\ n = a + (n - a)
      OBVIOUS
    <3>2. n - a \in DOMAIN s /\ s[n - a] = n
      BY <1>1, <3>1
    <3> QED BY <3>2 DEF Range
  <2>2. ASSUME NEW n \in Range(s) PROVE n \in (a + 1) .. b
    <3>1. PICK i \in 1 .. b - a : n = s[i]
      BY <1>1 DEF Range
    <3> QED BY <1>1, <3>1
  <2> QED BY <2>1, <2>2
<1> QED BY <1>2, <1>3, <1>4, <1>5, <1>6

LEMMA Intervals ==
  ASSUME NEW a \in Nat, NEW b \in Nat, NEW m \in Nat, a <= b, b <= m
  PROVE  (1 .. a) \cup ((a + 1) .. b) = 1 .. b /\ (a + 1) .. b \subseteq 1 .. m
OBVIOUS

\* The first terminal event of the history exists.
LEMMA LeastIsThere == ASSUME NEW S \in SUBSET Nat, S # {} PROVE Min(S) \in S
<1> DEFINE R == OpToRel(<, Nat)
<1>1. IsWellFoundedOn(R, Nat)
  BY NatLessThanWellFounded
<1>2. \A x, y \in Nat : x < y => <<x, y>> \in R
  BY DEF OpToRel
<1> HIDE DEF R
<1>3. PICK x \in S : \A y \in S : <<y, x>> \notin R
  BY <1>1, WFMin
<1>4. \A y \in S : x <= y
  <2>1. S \subseteq Nat /\ x \in Nat
    OBVIOUS
  <2>2. \A y \in S : ~(y < x)
    BY <1>2, <1>3, <2>1
  <2> QED BY <2>1, <2>2
<1> QED BY <1>4 DEF Min

(***************************************************************************)
(* Types.                                                                  *)
(***************************************************************************)
LEMMA Rows ==
  ASSUME TypeOK
  PROVE  /\ pub \in [Publishers -> PublisherRows] /\ client \in [Clients -> ClientRows]
         /\ log \in Seq({"plain", "terminal"}) /\ DOMAIN log = 1 .. Len(log) /\ Len(log) \in Nat
         /\ queue \in [Channels -> Seq(DOMAIN log)] /\ DOMAIN log \in SUBSET Nat
         /\ subs \subseteq Channels /\ closed \subseteq Channels
         /\ \A p \in Publishers : pub[p].seq \in Nat /\ pub[p].todo \subseteq Channels
         /\ \A c \in Clients : /\ client[c].since \in Nat /\ client[c].from \in Nat /\ client[c].replayed \in Nat
                               /\ client[c].conn \in Nat /\ client[c].conn <= MaxConnects
                               /\ client[c].got \in Seq(Nat)
                               /\ client[c].conn # 0 => Channel(c) \in Channels
<1>1. MaxConnects \in Nat
  BY StreamAssumption
<1>2. \A c \in Clients : client[c].conn # 0 => Channel(c) \in Channels
  BY StreamAssumption DEF TypeOK, Channel, Channels
<1> QED BY StreamAssumption, <1>2 DEF TypeOK, PublisherRows, ClientRows

LEMMA PersistTypes ==
  ASSUME TypeOK, NEW p \in Publishers, Persist(p)
  PROVE  TypeOK' /\ DOMAIN log' = DOMAIN log \cup {Len(log) + 1} /\ Len(log') = Len(log) + 1
                 /\ \A ch : \A S : queue[ch] \in S => queue'[ch] \in S
<1> DEFINE old == pub[p]
           row == [old EXCEPT !.pc = "persisted", !.script = Tail(old.script), !.seq = Len(log) + 1]
<1>1. /\ log \in Seq({"plain", "terminal"}) /\ old \in PublisherRows /\ pub \in [Publishers -> PublisherRows]
      /\ queue \in [Channels -> Seq(DOMAIN log)] /\ Len(log) \in Nat
  BY Rows
<1>2. old.script \in Seq({"plain", "terminal"}) /\ old.script # << >>
  BY <1>1 DEF Persist, PublisherRows
<1>3. Head(old.script) \in {"plain", "terminal"} /\ Tail(old.script) \in Seq({"plain", "terminal"})
  <2> HIDE DEF old
  <2> QED BY <1>2
<1>4. log' = Append(log, Head(old.script))
  BY DEF Persist
<1>5. /\ log' \in Seq({"plain", "terminal"}) /\ Len(log') = Len(log) + 1
      /\ DOMAIN log' = DOMAIN log \cup {Len(log) + 1}
  <2> HIDE DEF old
  <2> QED BY <1>1, <1>3, <1>4
<1>6. pub' = [pub EXCEPT ![p] = row]
  BY <1>1 DEF Persist
<1>7. row \in PublisherRows
  <2> DEFINE rest == Tail(old.script)
             n == Len(log) + 1
  <2>1. rest \in Seq({"plain", "terminal"}) /\ n \in Nat
    BY <1>1, <1>3
  <2> HIDE DEF old, rest, n
  <2>2. [old EXCEPT !.pc = "persisted", !.script = rest, !.seq = n] \in PublisherRows
    BY <1>1, <2>1 DEF PublisherRows
  <2> QED BY <2>2 DEF rest, n
<1>8. pub' \in [Publishers -> PublisherRows]
  <2> HIDE DEF row
  <2> QED BY <1>1, <1>6, <1>7
<1>9. queue' \in [Channels -> Seq(DOMAIN log')]
  BY <1>1, <1>5, MoreRoom DEF Persist
<1> QED BY <1>5, <1>8, <1>9 DEF Persist, TypeOK, PublisherRows

\* Steps that change one publisher, one channel, the map and the closed channels.
LEMMA PublisherTypes ==
  ASSUME TypeOK, NEW p \in Publishers, NEW row \in PublisherRows, pub' = [pub EXCEPT ![p] = row],
         queue' \in [Channels -> Seq(DOMAIN log)], \A ch \in Channels : Len(queue'[ch]) <= Cap,
         subs' \subseteq Channels, closed' \subseteq Channels, UNCHANGED <<log, client>>
  PROVE  TypeOK'
BY DEF TypeOK, PublisherRows

LEMMA ClientTypes ==
  ASSUME TypeOK, NEW c \in Clients, NEW row \in ClientRows, client' = [client EXCEPT ![c] = row],
         queue' \in [Channels -> Seq(DOMAIN log)], \A ch \in Channels : Len(queue'[ch]) <= Cap,
         subs' \subseteq Channels, UNCHANGED <<log, pub, closed>>
  PROVE  TypeOK'
BY DEF TypeOK, ClientRows

\* What a client remembers after one event of the channel.
Taken(k, n, s) == [Received(k, <<n>>) EXCEPT !.pc = s]
LEMMA TakeFacts ==
  ASSUME NEW k \in ClientRows, NEW D \in SUBSET Nat, NEW n \in D, NEW s \in {"off", "live"}
  PROVE  LET new == Taken(k, n, s) IN
         /\ new \in ClientRows /\ new.pc = s /\ new.conn = k.conn /\ new.from = k.from /\ new.replayed = k.replayed
         /\ new.seen = k.seen \cup {n} /\ new.since = n
         /\ Range(new.got) = Range(k.got) \cup {n}
         /\ IsInjective(k.got) /\ n \notin Range(k.got) => IsInjective(new.got)
<1> DEFINE new == Taken(k, n, s)
<1>1. Range(<<n>>) = {n}
  BY DEF Range
<1>2. k.got \o <<n>> = Append(k.got, n) /\ k.got \in Seq(Nat) /\ Append(k.got, n) \in Seq(Nat)
  BY DEF ClientRows
<1>8. LET g == Append(k.got, n) IN
      /\ Range(g) = Range(k.got) \cup {n}
      /\ IsInjective(k.got) /\ n \notin Range(k.got) => IsInjective(g)
  BY <1>2, AppendFacts
<1>3. <<n>> # << >> /\ <<n>>[Len(<<n>>)] = n
  OBVIOUS
<1>4. Received(k, <<n>>) = [k EXCEPT !.got = Append(k.got, n), !.seen = k.seen \cup {n}, !.since = n]
  BY <1>1, <1>2, <1>3 DEF Received
<1> DEFINE got == Append(k.got, n)
           seen == k.seen \cup {n}
<1>5. got \in Seq(Nat) /\ seen \subseteq Nat
  BY <1>2 DEF ClientRows
<1> HIDE DEF got, seen
<1>6. new = [k EXCEPT !.got = got, !.seen = seen, !.since = n, !.pc = s]
  BY <1>4 DEF got, seen, Taken
<1> HIDE DEF new
<1>7. /\ new \in ClientRows /\ new.pc = s /\ new.conn = k.conn /\ new.from = k.from /\ new.replayed = k.replayed
      /\ new.got = got /\ new.seen = seen /\ new.since = n
  BY <1>5, <1>6 DEF ClientRows
<1> QED BY <1>7, <1>8 DEF got, seen, new

\* What it remembers after the replay.
Replayed(k, last, s) ==
  [Received(k, [i \in 1 .. last - k.since |-> k.since + i]) EXCEPT !.replayed = last, !.pc = s]
LEMMA ReplayFacts ==
  ASSUME NEW k \in ClientRows, k.got = << >>, NEW last \in Nat, k.since <= last, NEW s \in {"off", "live"}
  PROVE  LET new == Replayed(k, last, s) IN
         /\ new \in ClientRows /\ new.pc = s /\ new.conn = k.conn /\ new.from = k.from /\ new.replayed = last /\ new.since = last
         /\ new.seen = k.seen \cup ((k.since + 1) .. last)
         /\ Range(new.got) = (k.since + 1) .. last /\ IsInjective(new.got)
<1> DEFINE new == Replayed(k, last, s)
           seqs == [i \in 1 .. last - k.since |-> k.since + i]
<1>1. k.since \in Nat /\ k.seen \subseteq Nat
  BY DEF ClientRows
<1>2. /\ seqs \in Seq(Nat) /\ (seqs = << >> <=> k.since = last) /\ (seqs # << >> => seqs[Len(seqs)] = last)
      /\ Range(seqs) = (k.since + 1) .. last /\ IsInjective(seqs)
  <2>1. LET s0 == [i \in 1 .. last - k.since |-> k.since + i] IN
        /\ s0 \in Seq(Nat) /\ Len(s0) = last - k.since /\ (s0 = << >> <=> k.since = last)
        /\ s0 # << >> => s0[Len(s0)] = last
        /\ Range(s0) = (k.since + 1) .. last /\ IsInjective(s0)
    BY <1>1, ReplaySeqs
  <2> QED BY <2>1
<1>3. new = [Received(k, seqs) EXCEPT !.replayed = last, !.pc = s]
  BY DEF Replayed
<1> HIDE DEF seqs, new
<1>4. k.got \o seqs = seqs
  BY <1>2
<1>5. Received(k, seqs) = [k EXCEPT !.got = seqs, !.seen = k.seen \cup ((k.since + 1) .. last), !.since = last]
  BY <1>2, <1>4 DEF Received, ClientRows
<1> DEFINE seen == k.seen \cup ((k.since + 1) .. last)
<1>6. seen \subseteq Nat
  BY <1>1
<1> HIDE DEF seen
<1>7. new = [k EXCEPT !.got = seqs, !.seen = seen, !.since = last, !.replayed = last, !.pc = s]
  BY <1>3, <1>5 DEF seen
<1>8. /\ new \in ClientRows /\ new.pc = s /\ new.conn = k.conn /\ new.from = k.from /\ new.replayed = last /\ new.since = last
      /\ new.seen = seen /\ new.got = seqs
  BY <1>2, <1>6, <1>7 DEF ClientRows
<1> QED BY <1>2, <1>8 DEF seen, new

(***************************************************************************)
(* The steps of a publisher.                                               *)
(***************************************************************************)
\* Who publishes is settled by the scripts.
LEMMA AloneStays ==
  ASSUME TypeOK, TypeOK',
         \A p \in Publishers : (pub[p].script # << >> \/ pub[p].seq # 0) => (pub'[p].script # << >> \/ pub'[p].seq # 0)
  PROVE  Alone' => Alone
<1> DEFINE S == {p \in Publishers : pub[p].script # << >> \/ pub[p].seq # 0}
           T == {p \in Publishers : pub'[p].script # << >> \/ pub'[p].seq # 0}
<1>1. S \in SUBSET T /\ T \in SUBSET Publishers
  OBVIOUS
<1>2. IsFiniteSet(T)
  BY <1>1, FS_Subset, StreamAssumption
<1>3. IsFiniteSet(S) /\ Cardinality(S) <= Cardinality(T)
  BY <1>1, <1>2, FS_Subset
<1>4. Cardinality(S) \in Nat /\ Cardinality(T) \in Nat
  BY <1>2, <1>3, FS_CardinalityType
<1>5. Alone <=> Cardinality(S) <= 1
  BY DEF Alone
<1>6. Alone' <=> Cardinality(T) <= 1
  BY DEF Alone
<1> HIDE DEF S, T
<1> QED BY <1>3, <1>4, <1>5, <1>6

\* No other publisher has anything to say next to a single one.
LEMMA AloneIsOne ==
  ASSUME TypeOK, Alone, NEW p \in Publishers, NEW q \in Publishers, p # q,
         pub[p].script # << >> \/ pub[p].seq # 0
  PROVE  pub[q].script = << >> /\ pub[q].seq = 0
<1> SUFFICES ASSUME pub[q].script # << >> \/ pub[q].seq # 0 PROVE FALSE
  OBVIOUS
<1> DEFINE S == {r \in Publishers : pub[r].script # << >> \/ pub[r].seq # 0}
<1>1. S \in SUBSET Publishers /\ {p, q} \in SUBSET S
  OBVIOUS
<1>2. IsFiniteSet(S)
  BY <1>1, FS_Subset, StreamAssumption
<1>3. Cardinality({p, q}) <= Cardinality(S)
  BY <1>1, <1>2, FS_Subset
<1>4. Cardinality(S) <= 1
  BY DEF Alone
<1>5. Cardinality({p, q}) = 2
  <2> DEFINE A == {p}
             B == {p, q}
  <2>1. IsFiniteSet(A) /\ Cardinality(A) = 1 /\ q \notin A /\ B = A \cup {q}
    BY FS_Singleton
  <2> HIDE DEF A, B
  <2>2. Cardinality(A \cup {q}) = Cardinality(A) + 1
    BY <2>1, FS_AddElement
  <2>3. Cardinality(B) = 2
    BY <2>1, <2>2
  <2> QED BY <2>3 DEF B
<1> QED BY <1>2, <1>3, <1>4, <1>5, FS_CardinalityType

\* Steps that put nothing into the log or a channel.
LEMMA QuietPublisher ==
  ASSUME IInv, NEW p \in Publishers, NEW row \in PublisherRows, pub' = [pub EXCEPT ![p] = row],
         UNCHANGED <<log, queue, client>>, row.seq = pub[p].seq, row.script = pub[p].script,
         row.pc # "idle" => pub[p].pc # "idle",
         row.pc = "closing" => row.full \in Channels, row.todo \subseteq pub[p].todo \cup subs,
         closed \subseteq closed', closed' \subseteq Channels, subs' \subseteq subs, subs \subseteq subs' \cup closed',
         \A ch \in Channels : MaySend(p, ch)' => MaySend(p, ch),
         \A ch \in subs \ closed' : \A n : Reserves(p, n, ch) => Reserves(p, n, ch)'
  PROVE  IInv'
<1>1. TypeOK'
  BY Rows, PublisherTypes DEF IInv, TypeOK
<1>2. pub'[p] = row /\ \A q \in Publishers : q # p => pub'[q] = pub[q]
  BY Rows DEF IInv
<1>3. Alone' => Alone
  BY <1>1, <1>2, AloneStays DEF IInv
<1>4. SeqInv'
  BY <1>2, <1>3 DEF IInv, SeqInv
<1>5. ChannelInv'
  BY <1>2 DEF IInv, ChannelInv
<1>6. \A q \in Publishers, ch \in Channels : MaySend(q, ch)' => MaySend(q, ch)
  BY <1>2 DEF MaySend
<1>7. QueueInv'
  BY <1>2, <1>3, <1>6 DEF IInv, QueueInv
<1>8. \A q \in Publishers, ch \in subs \ closed' : \A n : Reserves(q, n, ch) => Reserves(q, n, ch)'
  <2>1. \A q \in Publishers : q # p => \A ch \in subs \ closed' : \A n : Reserves(q, n, ch) => Reserves(q, n, ch)'
    BY <1>2 DEF Reserves
  <2> QED BY <2>1
<1>9. ASSUME NEW c \in Clients PROVE ClientOK(c)'
  <2>1. Progress(c) /\ Once(c) /\ Lossless(c) /\ InOrder(c)
    BY DEF IInv, ClientOK
  <2>2. Channel(c)' = Channel(c) /\ (client[c].pc # "off" => Channel(c) \in Channels)
    BY <2>1, Rows DEF Channel, Progress, IInv
  <2>3. Progress(c)'
    BY <2>1, <2>2 DEF Progress
  <2>4. Once(c)'
    BY <1>2, <1>6, <2>1, <2>2 DEF Once
  <2>5. client[c].pc # "off" /\ Channel(c) \notin closed' => Channel(c) \in subs \ closed'
    BY <2>1 DEF Progress
  <2>6. Lossless(c)'
    BY <1>8, <2>1, <2>2, <2>5 DEF Lossless
  <2>7. InOrder(c)'
    BY <1>3, <1>8, <2>1, <2>2, <2>5 DEF InOrder
  <2> QED BY <2>3, <2>4, <2>6, <2>7 DEF ClientOK
<1> QED BY <1>1, <1>4, <1>5, <1>7, <1>9 DEF IInv

LEMMA CopyInv == ASSUME IInv, NEW p \in Publishers, CopySubscribers(p) PROVE IInv'
<1> DEFINE old == pub[p]
           row == [old EXCEPT !.pc = "sending", !.todo = subs]
<1>1. old \in PublisherRows /\ subs \subseteq Channels /\ pub \in [Publishers -> PublisherRows]
      /\ closed \subseteq Channels
  BY Rows DEF IInv
<1>2. old.pc = "persisted" /\ pub' = [pub EXCEPT ![p] = row] /\ UNCHANGED <<log, subs, queue, closed, client>>
  BY <1>1 DEF CopySubscribers
<1> HIDE DEF old
<1>3. /\ row \in PublisherRows /\ row.seq = old.seq /\ row.script = old.script /\ row.pc = "sending"
      /\ row.todo = subs
  BY <1>1 DEF PublisherRows
<1> HIDE DEF row
<1>4. pub'[p] = row
  BY <1>1, <1>2
<1>5. \A ch \in subs : \A n : Reserves(p, n, ch) => Reserves(p, n, ch)'
  BY <1>2, <1>3, <1>4 DEF Reserves, old
<1>6. \A ch \in Channels : MaySend(p, ch)' => MaySend(p, ch)
  BY <1>2 DEF MaySend, old
<1> QED BY <1>1, <1>2, <1>3, <1>5, <1>6, QuietPublisher DEF old

LEMMA PublishedInv == ASSUME IInv, NEW p \in Publishers, Published(p) PROVE IInv'
<1> DEFINE old == pub[p]
           row == [old EXCEPT !.pc = "idle"]
<1>1. old \in PublisherRows /\ subs \subseteq Channels /\ pub \in [Publishers -> PublisherRows]
      /\ closed \subseteq Channels
  BY Rows DEF IInv
<1>2. /\ old.pc = "sending" /\ old.todo = {} /\ pub' = [pub EXCEPT ![p] = row]
      /\ UNCHANGED <<log, subs, queue, closed, client>>
  BY <1>1 DEF Published
<1> HIDE DEF old
<1>3. /\ row \in PublisherRows /\ row.seq = old.seq /\ row.script = old.script /\ row.pc = "idle"
      /\ row.todo = old.todo
  BY <1>1 DEF PublisherRows
<1> HIDE DEF row
<1>4. pub'[p] = row
  BY <1>1, <1>2
<1>5. \A ch \in subs : \A n : ~Reserves(p, n, ch)
  BY <1>2 DEF Reserves, old
<1>6. \A ch \in Channels : ~MaySend(p, ch)'
  BY <1>3, <1>4 DEF MaySend
<1> QED BY <1>1, <1>2, <1>3, <1>5, <1>6, QuietPublisher DEF old

LEMMA CloseSlowInv == ASSUME IInv, NEW p \in Publishers, CloseSlow(p) PROVE IInv'
<1> DEFINE old == pub[p]
           row == [old EXCEPT !.pc = "sending", !.full = << >>]
<1>1. old \in PublisherRows /\ subs \subseteq Channels /\ pub \in [Publishers -> PublisherRows]
      /\ closed \subseteq Channels
  BY Rows DEF IInv
<1>2. /\ old.pc = "closing" /\ pub' = [pub EXCEPT ![p] = row] /\ subs' = subs \ {old.full}
      /\ closed' = IF old.full \in subs THEN closed \cup {old.full} ELSE closed
      /\ UNCHANGED <<log, queue, client>>
  BY <1>1 DEF CloseSlow
<1> HIDE DEF old
<1>3. /\ row \in PublisherRows /\ row.seq = old.seq /\ row.script = old.script /\ row.pc = "sending"
      /\ row.todo = old.todo
  BY <1>1 DEF PublisherRows
<1> HIDE DEF row
<1>4. pub'[p] = row
  BY <1>1, <1>2
<1>5. ASSUME NEW ch \in subs \ closed', NEW n, Reserves(p, n, ch) PROVE Reserves(p, n, ch)'
  <2>1. ch # old.full
    BY <1>2, <1>5
  <2> QED BY <1>2, <1>3, <1>4, <1>5, <2>1 DEF Reserves, old
<1>6. \A ch \in Channels : MaySend(p, ch)' => MaySend(p, ch)
  BY <1>2, <1>3, <1>4 DEF MaySend, old
<1>7. closed \subseteq closed' /\ closed' \subseteq Channels /\ subs' \subseteq subs /\ subs \subseteq subs' \cup closed'
  BY <1>1, <1>2
<1> QED BY <1>1, <1>2, <1>3, <1>5, <1>6, <1>7, QuietPublisher DEF old

LEMMA PersistInv == ASSUME IInv, NEW p \in Publishers, Persist(p) PROVE IInv'
<1>1. /\ TypeOK' /\ TypeOK /\ DOMAIN log' = DOMAIN log \cup {Len(log) + 1} /\ Len(log') = Len(log) + 1
      /\ Len(log) \in Nat /\ DOMAIN log = 1 .. Len(log) /\ pub \in [Publishers -> PublisherRows]
      /\ \A q \in Publishers : pub[q].seq \in Nat
  BY Rows, PersistTypes DEF IInv
<1> DEFINE old == pub[p]
           row == [old EXCEPT !.pc = "persisted", !.script = Tail(old.script), !.seq = Len(log) + 1]
<1>2. /\ old.pc = "idle" /\ old.script # << >> /\ pub' = [pub EXCEPT ![p] = row] /\ old \in PublisherRows
      /\ UNCHANGED <<subs, queue, closed, client>>
  BY <1>1 DEF Persist
<1>3. row.pc = "persisted" /\ row.seq = Len(log) + 1 /\ row.todo = old.todo
  <2> HIDE DEF old
  <2> QED BY <1>2 DEF PublisherRows
<1> HIDE DEF row
<1>4. pub'[p] = row /\ \A q \in Publishers : q # p => pub'[q] = pub[q]
  BY <1>1, <1>2
<1>5. Alone' => Alone
  BY <1>1, <1>3, <1>4, AloneStays
<1>6. SeqInv'
  <2>1. \A q \in Publishers : q # p /\ Alone => pub[q].seq = 0
    BY <1>1, <1>2, AloneIsOne
  <2>2. \A q \in Publishers : q # p => pub[q].seq # Len(log) + 1 /\ pub[q].seq <= Len(log) + 1
    BY <1>1 DEF IInv, SeqInv
  <2>3. ASSUME NEW q \in Publishers
        PROVE  /\ pub'[q].seq <= Len(log') /\ (pub'[q].pc # "idle" => pub'[q].seq # 0)
               /\ pub'[q].pc = "closing" => pub'[q].full \in Channels
               /\ Alone' => pub'[q].seq \in {0, Len(log')}
    BY <1>1, <1>3, <1>4, <1>5, <2>1, <2>2 DEF IInv, SeqInv
  <2>4. \A q, s \in Publishers :
          q # s /\ pub'[q].pc # "idle" /\ pub'[s].pc # "idle" => pub'[q].seq # pub'[s].seq
    BY <1>3, <1>4, <2>2 DEF IInv, SeqInv
  <2> QED BY <2>3, <2>4 DEF SeqInv
<1>7. ChannelInv'
  BY <1>2, <1>3, <1>4 DEF IInv, ChannelInv
<1>8. Len(log) + 1 \notin DOMAIN log
  BY <1>1
<1>9. \A ch \in Channels : Range(queue[ch]) \subseteq DOMAIN log
  <2>1. \A ch \in Channels : queue[ch] \in Seq(DOMAIN log)
    BY <1>1, Rows
  <2> QED BY <2>1 DEF Range
<1>10. QueueInv'
  BY <1>2, <1>3, <1>4, <1>5, <1>8, <1>9 DEF IInv, QueueInv, MaySend
<1>11. ASSUME NEW c \in Clients PROVE ClientOK(c)'
  <2>1. Progress(c) /\ Once(c) /\ Lossless(c) /\ InOrder(c)
    BY DEF IInv, ClientOK
  <2>2. Channel(c)' = Channel(c) /\ (client[c].pc # "off" => Channel(c) \in Channels)
    BY <1>1, <1>2, <2>1, Rows DEF Channel, Progress
  <2>3. client[c].since \in Nat /\ client[c].replayed \in Nat
    BY <1>1, Rows
  <2>4. Progress(c)'
    BY <1>1, <1>2, <2>1, <2>2, <2>3 DEF Progress
  <2>5. Once(c)'
    <3>1. Len(log) + 1 \notin Range(client[c].got)
      BY <1>8, <2>1 DEF Progress
    <3> QED BY <1>2, <1>3, <1>4, <2>1, <2>2, <3>1 DEF Once, MaySend
  <2>6. \A q \in Publishers : \A n : Reserves(q, n, Channel(c)) => Reserves(q, n, Channel(c))'
    BY <1>2, <1>4, <2>2 DEF Reserves
  <2>7. \A n : n = Len(log') /\ client[c].pc # "off" /\ Channel(c) \notin closed => Reserves(p, n, Channel(c))'
    BY <1>1, <1>2, <1>3, <1>4, <2>1, <2>2 DEF Reserves, Progress
  <2>8. Lossless(c)'
    BY <1>1, <1>2, <2>1, <2>2, <2>6, <2>7 DEF Lossless
  <2>9. InOrder(c)'
    <3> DEFINE k == client[c]
               q == queue[Channel(c)]
    <3>1. SUFFICES ASSUME Alone
                   PROVE  /\ k.seen = 1 .. k.since
                          /\ k.pc # "off" => Consecutive(q)
                          /\ k.pc # "off" /\ Channel(c) \notin closed /\ q # << >> => q[Len(q)] = Len(log)
                          /\ k.pc = "live" /\ q # << >> =>
                               q[1] = k.since + 1 \/ (q[1] <= k.replayed /\ k.since = k.replayed)
      BY <1>1, <1>2, <1>5, <2>2, <2>7 DEF InOrder
    <3>2. \A r \in Publishers : ~Reserves(r, Len(log), Channel(c)) \/ Len(log) = 0
      <4>1. \A r \in Publishers : r # p => pub[r].seq = 0
        BY <1>1, <1>2, <3>1, AloneIsOne
      <4> QED BY <1>2, <4>1 DEF Reserves
    <3>3. k.pc # "off" /\ q # << >> => Len(log) # 0
      <4>1. k.pc # "off" => q \in Seq(DOMAIN log)
        BY <1>1, <2>2, Rows
      <4> HIDE DEF q
      <4>2. k.pc # "off" /\ q # << >> => q[1] \in 1 .. Len(log)
        BY <1>1, <4>1
      <4> QED BY <1>1, <4>2
    <3> QED BY <2>1, <3>1, <3>2, <3>3 DEF InOrder
  <2> QED BY <2>4, <2>5, <2>8, <2>9 DEF ClientOK
<1> QED BY <1>1, <1>6, <1>7, <1>10, <1>11 DEF IInv

\* An event that fits into the buffer of channel ch.
LEMMA SentInv ==
  ASSUME IInv, NEW p \in Publishers, NEW ch \in pub[p].todo, NEW row \in PublisherRows,
         pub[p].pc = "sending", ch \notin closed, Len(queue[ch]) < Cap,
         row.pc = "sending", row.seq = pub[p].seq, row.script = pub[p].script, row.todo = pub[p].todo \ {ch},
         pub' = [pub EXCEPT ![p] = row], queue' = [queue EXCEPT ![ch] = Append(queue[ch], pub[p].seq)],
         UNCHANGED <<log, subs, closed, client>>
  PROVE  IInv'
<1> DEFINE e == pub[p].seq
           q == queue[ch]
<1>1. /\ TypeOK /\ ch \in Channels /\ e \in DOMAIN log /\ q \in Seq(DOMAIN log) /\ DOMAIN log \in SUBSET Nat
      /\ Len(log) \in Nat /\ DOMAIN log = 1 .. Len(log) /\ queue \in [Channels -> Seq(DOMAIN log)]
      /\ pub \in [Publishers -> PublisherRows] /\ subs \subseteq Channels /\ closed \subseteq Channels
  <2>1. e \in Nat /\ e # 0 /\ e <= Len(log)
    BY Rows DEF IInv, SeqInv
  <2> QED BY <2>1, Rows DEF IInv
<1>2. pub'[p] = row /\ \A r \in Publishers : r # p => pub'[r] = pub[r]
  BY <1>1
<1>3. queue'[ch] = Append(q, e) /\ \A x \in Channels : x # ch => queue'[x] = queue[x]
  BY <1>1
<1>4. /\ queue'[ch] \in Seq(DOMAIN log) /\ queue'[ch] # << >> /\ Len(queue'[ch]) = Len(q) + 1
      /\ queue'[ch][Len(queue'[ch])] = e /\ queue'[ch][1] = (IF q = << >> THEN e ELSE q[1])
      /\ Range(queue'[ch]) = Range(q) \cup {e}
      /\ IsInjective(q) /\ e \notin Range(q) => IsInjective(queue'[ch])
      /\ Consecutive(q) /\ (q = << >> \/ e = q[Len(q)] + 1) => Consecutive(queue'[ch])
  BY <1>1, <1>3, AppendFacts
<1>5. TypeOK'
  <2>1. queue' \in [Channels -> Seq(DOMAIN log)]
    BY <1>1, <1>3, <1>4
  <2>2. Len(q) \in Nat /\ Cap \in Nat
    BY <1>1, StreamAssumption
  <2>3. \A x \in Channels : Len(queue'[x]) <= Cap
    BY <1>1, <1>3, <1>4, <2>2 DEF TypeOK
  <2> QED BY <1>1, <2>1, <2>3, PublisherTypes
<1>6. Alone' => Alone
  BY <1>1, <1>2, <1>5, AloneStays
<1>7. MaySend(p, ch) /\ ~MaySend(p, ch)' /\ \A r \in Publishers, x \in Channels : MaySend(r, x)' => MaySend(r, x)
  BY <1>2 DEF MaySend
<1>8. SeqInv'
  BY <1>2, <1>6 DEF IInv, SeqInv
<1>9. ChannelInv'
  <2>1. ~(ch[2] > client[ch[1]].conn)
    <3>1. ch[2] <= client[ch[1]].conn /\ ch[1] \in Clients /\ ch[2] \in Nat
      BY <1>1, StreamAssumption DEF IInv, ChannelInv, Channels
    <3>2. client[ch[1]].conn \in Nat
      BY <1>1, <3>1, Rows
    <3> QED BY <3>1, <3>2
  <2> QED BY <1>2, <1>3, <2>1 DEF IInv, ChannelInv
<1>10. e \notin Range(q)
  BY <1>1, <1>7 DEF IInv, QueueInv
<1>11. QueueInv'
  <2>1. ASSUME NEW r \in Publishers, MaySend(r, ch)' PROVE pub'[r].seq \notin Range(queue'[ch])
    <3>1. r # p /\ MaySend(r, ch)
      BY <1>1, <1>7, <2>1
    <3>2. pub[r].seq \notin Range(q)
      BY <1>1, <3>1 DEF IInv, QueueInv
    <3>3. pub[r].seq # e
      BY <3>1 DEF IInv, SeqInv, MaySend
    <3> QED BY <1>2, <1>4, <3>1, <3>2, <3>3
  <2>2. \A x \in Channels : IsInjective(queue'[x])
    BY <1>1, <1>3, <1>4, <1>10 DEF IInv, QueueInv
  <2>3. ASSUME NEW r \in Publishers, NEW x \in Channels, x # ch, MaySend(r, x)'
        PROVE  pub'[r].seq \notin Range(queue'[x])
    BY <1>2, <1>3, <1>7, <2>3 DEF IInv, QueueInv
  <2> QED BY <2>1, <2>2, <2>3 DEF QueueInv
<1>12. \A r \in Publishers : \A x, n : Reserves(r, n, x) /\ ~(r = p /\ x = ch) => Reserves(r, n, x)'
  BY <1>2 DEF Reserves
<1>13. ASSUME NEW c \in Clients PROVE ClientOK(c)'
  <2> DEFINE k == client[c]
  <2>1. Progress(c) /\ Once(c) /\ Lossless(c) /\ InOrder(c)
    BY DEF IInv, ClientOK
  <2>2. Channel(c)' = Channel(c) /\ (k.pc # "off" => Channel(c) \in Channels)
    BY <1>1, <2>1, Rows DEF Channel, Progress
  <2>3. Progress(c)'
    BY <2>1, <2>2 DEF Progress
  <2>4. CASE Channel(c) # ch
    <3>1. k.pc # "off" => queue'[Channel(c)] = queue[Channel(c)]
      BY <1>3, <2>2, <2>4
    <3>2. Once(c)'
      BY <1>2, <1>7, <2>1, <2>2, <3>1 DEF Once
    <3>3. Lossless(c)'
      BY <1>12, <2>1, <2>2, <2>4, <3>1 DEF Lossless
    <3>4. InOrder(c)'
      BY <1>6, <1>12, <2>1, <2>2, <2>4, <3>1 DEF InOrder
    <3> QED BY <2>3, <3>2, <3>3, <3>4 DEF ClientOK
  <2>5. CASE Channel(c) = ch
    <3>1. Once(c)'
      BY <1>1, <1>2, <1>4, <1>7, <2>1, <2>2, <2>5 DEF Once
    <3>2. Lossless(c)'
      <4>1. \A n, r : Reserves(r, n, ch) => n = e \/ r # p
        BY DEF Reserves
      <4> QED BY <1>4, <1>12, <2>1, <2>2, <2>5, <4>1 DEF Lossless
    <3>3. ASSUME Alone, k.pc # "off"
          PROVE  /\ Consecutive(queue'[ch]) /\ queue'[ch][Len(queue'[ch])] = Len(log)
                 /\ k.pc = "live" => \/ queue'[ch][1] = k.since + 1
                                     \/ queue'[ch][1] <= k.replayed /\ k.since = k.replayed
      <4>1. e = Len(log)
        BY <1>1, <3>3 DEF IInv, SeqInv
      <4>2. q # << >> => q[Len(q)] = Len(log) - 1
        <5>1. q # << >> => q[Len(q)] \in Range(q)
          <6>1. q # << >> => Len(q) \in DOMAIN q
            BY <1>1
          <6> QED BY <6>1 DEF Range
        <5> QED BY <1>10, <2>1, <2>5, <3>3, <4>1, <5>1 DEF InOrder
      <4>3. q = << >> \/ e = q[Len(q)] + 1
        BY <1>1, <4>1, <4>2
      <4>4. ASSUME k.pc = "live", q = << >>
            PROVE  e = k.since + 1 \/ (e <= k.replayed /\ k.since = k.replayed)
        <5>1. /\ k.since \in Nat /\ k.replayed \in Nat /\ k.since <= Len(log) /\ k.replayed <= k.since
              /\ k.since = k.replayed \/ k.since \in Range(k.got)
              /\ k.seen = 1 .. k.since
          BY <1>1, <2>1, <3>3, <4>4, Rows DEF Progress, InOrder
        <5>2. CASE k.since = Len(log)
          <6>1. e > k.replayed => e \notin Range(k.got)
            BY <1>7, <2>1, <2>5, <4>4 DEF Once
          <6>2. e = k.since
            BY <4>1, <5>2
          <6>3. ~(k.since > k.replayed)
            BY <5>1, <6>1, <6>2
          <6>4. k.since = k.replayed
            BY <5>1, <6>3
          <6> QED BY <5>1, <6>2, <6>4
        <5>3. CASE k.since # Len(log)
          <6> DEFINE n == k.since + 1
          <6>0. n \in DOMAIN log /\ ~(n <= k.replayed) /\ n \notin k.seen
            BY <1>1, <5>1, <5>3
          <6>1. n \in DOMAIN log /\ ~(n <= k.replayed) /\ n \notin Range(k.got)
            BY <2>1, <6>0 DEF Progress
          <6>2. n \notin Range(queue[Channel(c)])
            BY <2>5, <4>4 DEF Range
          <6>3. PICK r \in Publishers : Reserves(r, n, Channel(c))
            BY <2>1, <2>5, <4>4, <6>1, <6>2 DEF Lossless
          <6>4. pub[r].seq = n /\ n # 0
            BY <1>1, <6>1, <6>3 DEF Reserves
          <6>5. pub[r].seq \in {0, Len(log)}
            BY <3>3 DEF IInv, SeqInv
          <6> QED BY <4>1, <6>4, <6>5
        <5> QED BY <5>2, <5>3
      <4>5. k.pc = "live" /\ q # << >> => q[1] = k.since + 1 \/ (q[1] <= k.replayed /\ k.since = k.replayed)
        BY <2>1, <2>5, <3>3 DEF InOrder
      <4>6. Consecutive(q)
        BY <2>1, <2>5, <3>3 DEF InOrder
      <4> QED BY <1>4, <4>1, <4>3, <4>4, <4>5, <4>6
    <3>4. InOrder(c)'
      BY <1>6, <2>1, <2>2, <2>5, <3>3 DEF InOrder
    <3> QED BY <2>3, <3>1, <3>2, <3>4 DEF ClientOK
  <2> QED BY <2>4, <2>5
<1> QED BY <1>5, <1>8, <1>9, <1>11, <1>13 DEF IInv

LEMMA SendInv == ASSUME IInv, NEW p \in Publishers, Send(p) PROVE IInv'
<1> DEFINE old == pub[p]
<1>1. old \in PublisherRows /\ subs \subseteq Channels /\ pub \in [Publishers -> PublisherRows]
      /\ closed \subseteq Channels /\ old.todo \subseteq Channels /\ queue \in [Channels -> Seq(DOMAIN log)]
      /\ old.pc = "sending" /\ UNCHANGED <<log, subs, closed, client>>
  BY Rows DEF IInv, Send
<1>2. PICK ch \in old.todo : LET sent == [pub[p] EXCEPT !.todo = pub[p].todo \ {ch}] IN
       /\ pub' = [pub EXCEPT ![p] =
            CASE ch \in closed -> [sent EXCEPT !.pc = "panicked"]
              [] ch \notin closed /\ Len(queue[ch]) < Cap -> sent
              [] OTHER -> [sent EXCEPT !.pc = "closing", !.full = ch]]
       /\ queue' = IF ch \in closed \/ Len(queue[ch]) = Cap THEN queue
                   ELSE [queue EXCEPT ![ch] = Append(queue[ch], pub[p].seq)]
  BY DEF Send
<1>3. ch \in Channels /\ Len(queue[ch]) <= Cap /\ Len(queue[ch]) \in Nat /\ Cap \in Nat
  BY <1>1, StreamAssumption DEF IInv, TypeOK
<1> DEFINE rest == old.todo \ {ch}
<1>4. CASE ch \in closed
  <2> DEFINE row == [old EXCEPT !.todo = rest, !.pc = "panicked"]
  <2>1. pub' = [pub EXCEPT ![p] = row] /\ queue' = queue
    BY <1>2, <1>4
  <2>2. /\ row \in PublisherRows /\ row.seq = old.seq /\ row.script = old.script /\ row.pc = "panicked"
        /\ row.todo = rest
    <3>1. rest \subseteq Channels
      BY <1>1
    <3> HIDE DEF old, rest
    <3> QED BY <1>1, <3>1 DEF PublisherRows
  <2> HIDE DEF row
  <2>3. pub'[p] = row
    BY <1>1, <2>1
  <2>4. \A x \in subs \ closed' : \A n : Reserves(p, n, x) => Reserves(p, n, x)'
    BY <1>1, <1>4, <2>2, <2>3 DEF Reserves
  <2>5. \A x \in Channels : ~MaySend(p, x)'
    BY <2>2, <2>3 DEF MaySend
  <2> QED BY <1>1, <2>1, <2>2, <2>4, <2>5, QuietPublisher
<1>5. CASE ch \notin closed /\ Len(queue[ch]) = Cap
  <2> DEFINE row == [old EXCEPT !.todo = rest, !.pc = "closing", !.full = ch]
  <2>1. pub' = [pub EXCEPT ![p] = row] /\ queue' = queue
    <3>1. ch \notin closed /\ ~(Len(queue[ch]) < Cap) /\ Len(queue[ch]) = Cap
      BY <1>3, <1>5
    <3> QED BY <1>2, <3>1
  <2>2. /\ row \in PublisherRows /\ row.seq = old.seq /\ row.script = old.script /\ row.pc = "closing"
        /\ row.todo = rest /\ row.full = ch
    <3>1. rest \subseteq Channels
      BY <1>1
    <3> HIDE DEF old, rest
    <3> QED BY <1>1, <1>3, <3>1 DEF PublisherRows
  <2> HIDE DEF row
  <2>3. pub'[p] = row
    BY <1>1, <2>1
  <2>4. \A x \in subs \ closed' : \A n : Reserves(p, n, x) => Reserves(p, n, x)'
    BY <1>1, <1>5, <2>2, <2>3 DEF Reserves
  <2>5. \A x \in Channels : MaySend(p, x)' => MaySend(p, x)
    BY <1>1, <2>2, <2>3 DEF MaySend
  <2> QED BY <1>1, <1>3, <2>1, <2>2, <2>4, <2>5, QuietPublisher
<1>6. CASE ch \notin closed /\ Len(queue[ch]) # Cap
  <2> DEFINE row == [old EXCEPT !.todo = rest]
  <2>1. /\ pub' = [pub EXCEPT ![p] = row] /\ Len(queue[ch]) < Cap
        /\ queue' = [queue EXCEPT ![ch] = Append(queue[ch], pub[p].seq)]
    <3>1. Len(queue[ch]) < Cap
      BY <1>3, <1>6
    <3> QED BY <1>2, <1>6, <3>1
  <2>2. /\ row \in PublisherRows /\ row.seq = old.seq /\ row.script = old.script /\ row.pc = "sending"
        /\ row.todo = rest
    <3>1. rest \subseteq Channels
      BY <1>1
    <3> HIDE DEF old, rest
    <3> QED BY <1>1, <3>1 DEF PublisherRows, old
  <2> HIDE DEF row
  <2> QED BY <1>1, <1>6, <2>1, <2>2, SentInv
<1> QED BY <1>4, <1>5, <1>6

(***************************************************************************)
(* The steps of a client and its handler.                                  *)
(***************************************************************************)
\* Such a step is about one client, its channel and its entry in the map.
LEMMA ClientStepInv ==
  ASSUME IInv, NEW c \in Clients, NEW row \in ClientRows, client' = [client EXCEPT ![c] = row],
         UNCHANGED <<log, pub, closed>>, client[c].conn <= row.conn,
         \/ queue' = queue
         \/ /\ Channel(c) \in Channels /\ queue[Channel(c)] # << >>
            /\ queue' = [queue EXCEPT ![Channel(c)] = Tail(queue[Channel(c)])],
         subs' \subseteq Channels, subs' \subseteq subs \cup {<<c, row.conn>>}, subs \ {Channel(c)} \subseteq subs',
         ClientOK(c)'
  PROVE  IInv'
<1>1. /\ client \in [Clients -> ClientRows] /\ queue \in [Channels -> Seq(DOMAIN log)]
      /\ DOMAIN log \in SUBSET Nat /\ Cap \in Nat /\ TypeOK /\ subs \subseteq Channels
      /\ \A d \in Clients : client[d].conn \in Nat
  BY Rows, StreamAssumption DEF IInv
<1>2. client'[c] = row /\ \A d \in Clients : d # c => client'[d] = client[d]
  BY <1>1
<1>3. /\ queue' \in [Channels -> Seq(DOMAIN log)]
      /\ \A ch \in Channels : ch # Channel(c) => queue'[ch] = queue[ch]
      /\ \A ch \in Channels : /\ Range(queue'[ch]) \subseteq Range(queue[ch])
                              /\ IsInjective(queue[ch]) => IsInjective(queue'[ch])
                              /\ Len(queue[ch]) <= Cap => Len(queue'[ch]) <= Cap
                              /\ queue[ch] = << >> => queue'[ch] = << >>
  <2>1. CASE queue' = queue
    BY <1>1, <2>1
  <2>2. CASE queue' # queue
    <3> DEFINE x == Channel(c)
               q == queue[x]
    <3>1. x \in Channels /\ q # << >> /\ queue' = [queue EXCEPT ![x] = Tail(q)] /\ q \in Seq(DOMAIN log)
      BY <1>1, <2>2
    <3> HIDE DEF x, q
    <3>2. /\ Tail(q) \in Seq(DOMAIN log) /\ Len(Tail(q)) = Len(q) - 1 /\ Range(Tail(q)) \subseteq Range(q)
          /\ IsInjective(q) => IsInjective(Tail(q))
      <4> DEFINE D == DOMAIN log
      <4>1. D \in SUBSET Nat /\ q \in Seq(D) /\ q # << >>
        BY <1>1, <3>1
      <4> HIDE DEF D
      <4>2. /\ Tail(q) \in Seq(D) /\ Len(Tail(q)) = Len(q) - 1 /\ Range(q) = Range(Tail(q)) \cup {q[1]}
            /\ IsInjective(q) => IsInjective(Tail(q))
        BY <4>1, TailFacts
      <4> QED BY <4>2 DEF D
    <3>3. Len(q) \in Nat
      BY <3>1
    <3>4. queue'[x] = Tail(q) /\ \A ch \in Channels : ch # x => queue'[ch] = queue[ch]
      BY <1>1, <3>1
    <3>5. queue' \in [Channels -> Seq(DOMAIN log)]
      BY <1>1, <3>1, <3>2
    <3>6. Len(q) <= Cap => Len(queue'[x]) <= Cap
      BY <1>1, <3>2, <3>3, <3>4
    <3>7. \A ch \in Channels : /\ Range(queue'[ch]) \subseteq Range(queue[ch])
                               /\ IsInjective(queue[ch]) => IsInjective(queue'[ch])
                               /\ Len(queue[ch]) <= Cap => Len(queue'[ch]) <= Cap
                               /\ queue[ch] = << >> => queue'[ch] = << >>
      BY <3>1, <3>2, <3>4, <3>6 DEF q
    <3> QED BY <3>4, <3>5, <3>7 DEF x
  <2> QED BY <2>1, <2>2
<1>4. TypeOK'
  BY <1>1, <1>3, ClientTypes DEF TypeOK
<1>5. Alone' <=> Alone
  BY DEF Alone
<1>6. SeqInv'
  BY <1>5 DEF IInv, SeqInv
<1>7. ChannelInv'
  <2>1. \A d \in Clients : client[d].conn <= client'[d].conn /\ client'[d].conn \in Nat
    BY <1>1, <1>2 DEF ClientRows
  <2>2. \A ch \in Channels : ch[1] \in Clients /\ ch[2] \in Nat
    BY StreamAssumption DEF Channels
  <2>3. \A ch \in Channels : ch[2] <= client[ch[1]].conn => ch[2] <= client'[ch[1]].conn
    BY <1>1, <2>1, <2>2
  <2>4. ASSUME NEW ch \in subs' PROVE ch[2] <= client'[ch[1]].conn
    <3>1. CASE ch \in subs
      BY <1>1, <2>3, <3>1 DEF IInv, ChannelInv
    <3>2. CASE ch = <<c, row.conn>>
      BY <1>2, <2>1, <3>2
    <3> QED BY <2>4, <3>1, <3>2
  <2>5. ASSUME NEW p \in Publishers, NEW ch \in pub[p].todo PROVE ch[2] <= client'[ch[1]].conn
    <3>1. ch \in Channels
      BY <1>1, Rows
    <3> QED BY <2>3, <3>1 DEF IInv, ChannelInv
  <2>6. ASSUME NEW ch \in Channels, ch[2] > client'[ch[1]].conn PROVE queue'[ch] = << >>
    <3>1. ch[2] > client[ch[1]].conn
      BY <1>1, <2>1, <2>2, <2>6
    <3> QED BY <1>3, <3>1 DEF IInv, ChannelInv
  <2> QED BY <2>4, <2>5, <2>6 DEF ChannelInv
<1>8. QueueInv'
  BY <1>3 DEF IInv, QueueInv, MaySend
<1>9. ASSUME NEW d \in Clients, d # c PROVE ClientOK(d)'
  <2>1. Progress(d) /\ Once(d) /\ Lossless(d) /\ InOrder(d)
    BY DEF IInv, ClientOK
  <2>2. Channel(d)' = Channel(d) /\ (client[d].pc # "off" => Channel(d) \in Channels)
    BY <1>1, <1>2, <1>9, <2>1, Rows DEF Channel, Progress
  <2>3. Channel(d) # Channel(c)
    BY <1>9 DEF Channel
  <2>4. client[d].pc # "off" => queue'[Channel(d)] = queue[Channel(d)]
    BY <1>3, <2>2, <2>3
  <2>5. Channel(d) \in subs => Channel(d) \in subs'
    BY <2>3
  <2>6. \A p \in Publishers : \A n : Reserves(p, n, Channel(d)) => Reserves(p, n, Channel(d))'
    BY <2>2, <2>5 DEF Reserves
  <2>7. client'[d] = client[d]
    BY <1>2, <1>9
  <2>8. Progress(d)'
    BY <2>1, <2>2, <2>5, <2>7 DEF Progress
  <2>9. Once(d)'
    BY <2>1, <2>2, <2>4, <2>7 DEF Once, MaySend
  <2>10. Lossless(d)'
    BY <2>1, <2>2, <2>4, <2>6, <2>7 DEF Lossless
  <2>11. InOrder(d)'
    BY <1>5, <2>1, <2>2, <2>4, <2>6, <2>7 DEF InOrder
  <2> QED BY <2>8, <2>9, <2>10, <2>11 DEF ClientOK
<1> QED BY <1>4, <1>6, <1>7, <1>8, <1>9 DEF IInv

\* A client without a connection.
LEMMA GoesOffInv ==
  ASSUME IInv, NEW c \in Clients, NEW row \in ClientRows, client' = [client EXCEPT ![c] = row], row.pc = "off",
         row.conn = client[c].conn, row.since = client[c].since, row.replayed = client[c].replayed,
         row.got = client[c].got, row.seen = client[c].seen,
         subs' = subs \ {Channel(c)}, UNCHANGED <<log, pub, queue, closed>>
  PROVE  IInv'
<1>1. client'[c] = row /\ Alone' = Alone /\ client[c].conn \in Nat
  BY Rows DEF IInv, Alone
<1>2. Progress(c) /\ Once(c) /\ InOrder(c) /\ subs \subseteq Channels
  BY Rows DEF IInv, ClientOK
<1>3. Progress(c)' /\ Once(c)' /\ Lossless(c)' /\ InOrder(c)'
  BY <1>1, <1>2 DEF Progress, Once, Lossless, InOrder
<1>4. ClientOK(c)'
  BY <1>3 DEF ClientOK
<1>5. client[c].conn <= row.conn /\ subs' \subseteq Channels
  BY <1>1, <1>2
<1> QED BY <1>4, <1>5, ClientStepInv

LEMMA DisconnectInv == ASSUME IInv, NEW c \in Clients, Disconnect(c) PROVE IInv'
<1> DEFINE k == client[c]
           b == k.breaks + 1
           row == [k EXCEPT !.pc = "off", !.breaks = b]
<1>1. k \in ClientRows /\ client \in [Clients -> ClientRows]
  BY Rows DEF IInv
<1>2. /\ client' = [client EXCEPT ![c] = row] /\ k.breaks < MaxBreaks /\ subs' = subs \ {Channel(c)}
      /\ UNCHANGED <<log, pub, queue, closed>>
  BY <1>1 DEF Disconnect, Unsubscribe
<1>3. b \in 0 .. MaxBreaks
  BY <1>1, <1>2, StreamAssumption DEF ClientRows
<1> HIDE DEF k, b
<1>4. /\ row \in ClientRows /\ row.pc = "off" /\ row.conn = k.conn /\ row.since = k.since
      /\ row.replayed = k.replayed /\ row.got = k.got /\ row.seen = k.seen
  BY <1>1, <1>3 DEF ClientRows
<1> HIDE DEF row
<1> QED BY <1>2, <1>4, GoesOffInv DEF k

LEMMA ReceiveClosedInv == ASSUME IInv, NEW c \in Clients, ReceiveClosed(c) PROVE IInv'
<1> DEFINE k == client[c]
           row == [k EXCEPT !.pc = "off"]
<1>1. k \in ClientRows /\ client \in [Clients -> ClientRows]
  BY Rows DEF IInv
<1>2. /\ client' = [client EXCEPT ![c] = row] /\ subs' = subs \ {Channel(c)}
      /\ UNCHANGED <<log, pub, queue, closed>>
  BY <1>1 DEF ReceiveClosed, Unsubscribe
<1> HIDE DEF k
<1>3. /\ row \in ClientRows /\ row.pc = "off" /\ row.conn = k.conn /\ row.since = k.since
      /\ row.replayed = k.replayed /\ row.got = k.got /\ row.seen = k.seen
  BY <1>1 DEF ClientRows
<1> HIDE DEF row
<1> QED BY <1>2, <1>3, GoesOffInv DEF k

LEMMA ConnectInv == ASSUME IInv, NEW c \in Clients, Connect(c) PROVE IInv'
<1> DEFINE k == client[c]
           m == k.conn + 1
           s == k.since
           row == [k EXCEPT !.pc = "subscribed", !.conn = m, !.from = s, !.replayed = s, !.got = << >>]
<1>1. /\ k \in ClientRows /\ client \in [Clients -> ClientRows] /\ k.conn \in Nat /\ k.since \in Nat
      /\ subs \subseteq Channels /\ queue \in [Channels -> Seq(DOMAIN log)]
  BY Rows DEF IInv
<1>2. /\ client' = [client EXCEPT ![c] = row] /\ k.conn < MaxConnects /\ subs' = subs \cup {<<c, m>>}
      /\ UNCHANGED <<log, pub, queue, closed>> /\ k.pc = "off"
  BY <1>1 DEF Connect
<1>3. m \in 0 .. MaxConnects /\ m # 0 /\ m > k.conn /\ <<c, m>> \in Channels
  BY <1>1, <1>2, StreamAssumption DEF Channels
<1>4. Progress(c) /\ InOrder(c) /\ queue[<<c, m>>] = << >>
  BY <1>3 DEF IInv, ClientOK, ChannelInv
<1> DEFINE none == << >>
<1>0. s = k.since /\ s \in Nat /\ none \in Seq(Nat) /\ none = << >>
  BY <1>1
<1> HIDE DEF k, m, s, none
<1>5. /\ row \in ClientRows /\ row.pc = "subscribed" /\ row.conn = m /\ row.from = s /\ row.since = s
      /\ row.replayed = s /\ row.got = << >> /\ row.seen = k.seen
  <2> DEFINE r == [k EXCEPT !.pc = "subscribed", !.conn = m, !.from = s, !.replayed = s, !.got = none]
  <2>1. /\ r \in ClientRows /\ r.pc = "subscribed" /\ r.conn = m /\ r.from = s /\ r.since = s
        /\ r.replayed = s /\ r.got = none /\ r.seen = k.seen
    BY <1>0, <1>1, <1>3 DEF ClientRows
  <2> QED BY <1>0, <2>1
<1> HIDE DEF row
<1>6. client'[c] = row /\ Alone' = Alone /\ Channel(c)' = <<c, m>>
  BY <1>1, <1>2, <1>5 DEF Alone, Channel
<1>7. Progress(c)'
  BY <1>2, <1>3, <1>4, <1>5, <1>6 DEF Progress, Range, k, s
<1>8. Once(c)' /\ Lossless(c)'
  BY <1>5, <1>6 DEF Once, Lossless, IsInjective
<1>9. InOrder(c)'
  BY <1>2, <1>4, <1>5, <1>6 DEF InOrder, Consecutive, k, s
<1>10. ClientOK(c)'
  BY <1>7, <1>8, <1>9 DEF ClientOK
<1>11. client[c].conn <= row.conn
  BY <1>1, <1>3, <1>5 DEF k
<1> QED BY <1>1, <1>2, <1>3, <1>5, <1>10, <1>11, ClientStepInv

LEMMA ReplayInv == ASSUME IInv, NEW c \in Clients, Replay(c) PROVE IInv'
<1> DEFINE k == client[c]
           fresh == {n \in 1 .. Len(log) : n > k.since}
           ends == {n \in fresh : log[n] = "terminal"}
           last == IF ends # {} THEN Min(ends) ELSE IF fresh # {} THEN Len(log) ELSE k.since
           s == IF ends # {} THEN "off" ELSE "live"
           row == [Received(k, [i \in 1 .. last - k.since |-> k.since + i]) EXCEPT !.replayed = last, !.pc = s]
<1>1. /\ k \in ClientRows /\ client \in [Clients -> ClientRows] /\ k.since \in Nat /\ Len(log) \in Nat
      /\ subs \subseteq Channels /\ queue \in [Channels -> Seq(DOMAIN log)] /\ DOMAIN log = 1 .. Len(log)
      /\ \A p \in Publishers : pub[p].seq \in Nat
  BY Rows DEF IInv
<1>2. Progress(c) /\ Once(c) /\ InOrder(c) /\ k.pc = "subscribed"
  BY DEF IInv, ClientOK, Replay
<1>3. k.since <= Len(log) /\ k.got = << >>
  BY <1>2 DEF Progress
<1>4. client' = [client EXCEPT ![c] = row] /\ UNCHANGED <<log, pub, queue, closed>>
  BY <1>1 DEF Replay
<1>5. subs' = IF s = "off" THEN subs \ {Channel(c)} ELSE subs
  BY DEF Replay, Unsubscribe
<1>6. /\ last \in Nat /\ k.since <= last /\ last <= Len(log) /\ s \in {"off", "live"}
      /\ s = "live" => last = Len(log)
  <2>1. CASE ends # {}
    <3>1. ends \in SUBSET Nat
      OBVIOUS
    <3> HIDE DEF ends
    <3>2. Min(ends) \in ends
      BY <2>1, <3>1, LeastIsThere
    <3>3. Min(ends) \in 1 .. Len(log) /\ Min(ends) > k.since
      BY <3>2 DEF ends
    <3>4. last = Min(ends) /\ s = "off"
      BY <2>1
    <3> HIDE DEF last, s
    <3> QED BY <1>1, <3>3, <3>4
  <2>2. CASE ends = {}
    <3>1. s = "live" /\ last = IF fresh # {} THEN Len(log) ELSE k.since
      BY <2>2
    <3>2. fresh = {} => k.since = Len(log)
      <4>1. k.since # Len(log) => Len(log) \in fresh
        BY <1>1, <1>3
      <4> QED BY <4>1
    <3> HIDE DEF last, s, fresh
    <3>3. last = Len(log)
      BY <3>1, <3>2
    <3> QED BY <1>1, <1>3, <3>1, <3>3
  <2> QED BY <2>1, <2>2
<1> HIDE DEF last, s
<1>7. /\ row \in ClientRows /\ row.pc = s /\ row.conn = k.conn /\ row.from = k.from /\ row.replayed = last /\ row.since = last
      /\ row.seen = k.seen \cup ((k.since + 1) .. last)
      /\ Range(row.got) = (k.since + 1) .. last /\ IsInjective(row.got)
  <2>1. k \in ClientRows /\ k.got = << >> /\ last \in Nat /\ k.since <= last /\ s \in {"off", "live"}
    BY <1>1, <1>3, <1>6
  <2>2. row = Replayed(k, last, s)
    BY DEF Replayed
  <2> HIDE DEF k, row
  <2> QED BY <2>1, <2>2, ReplayFacts
<1> HIDE DEF row
<1>8. client'[c] = row /\ Alone' = Alone /\ Channel(c)' = Channel(c)
  BY <1>1, <1>4, <1>7 DEF Alone, Channel
<1>9. Channel(c) \in Channels
  BY <1>2, Rows DEF IInv, Progress
<1>10. Progress(c)'
  <2>1. (k.since + 1) .. last \subseteq DOMAIN log
    BY <1>1, <1>6, Intervals
  <2>2. row.from = k.since
    BY <1>2, <1>7 DEF Progress
  <2>3. \A n \in DOMAIN log : n <= last => n <= row.from \/ n \in Range(row.got)
    BY <1>1, <1>6, <1>7, <2>2
  <2>4. row.seen \subseteq DOMAIN log /\ Range(row.got) \subseteq row.seen /\ last <= Len(log)
    BY <1>2, <1>6, <1>7, <2>1 DEF Progress
  <2>5. s # "off" => Channel(c) \in subs' \cup closed' /\ row.conn # 0
    BY <1>2, <1>4, <1>5, <1>7 DEF Progress
  <2>6. s = "live" => last = row.since
    BY <1>7
  <2>7. row.since = last /\ row.replayed = last /\ row.pc = s /\ s \in {"off", "live"} /\ last <= last
    BY <1>6, <1>7
  <2> HIDE DEF last, s
  <2> QED BY <1>4, <1>8, <2>3, <2>4, <2>5, <2>7 DEF Progress
<1>11. Once(c)'
  <2>1. \A n \in Range(queue[Channel(c)]) : n \in 1 .. Len(log)
    BY <1>1, <1>9 DEF Range
  <2>2. \A p \in Publishers : pub[p].seq <= Len(log)
    BY DEF IInv, SeqInv
  <2>3. s = "live" => /\ \A n \in Range(queue[Channel(c)]) : ~(n > last)
                      /\ \A p \in Publishers : ~(pub[p].seq > last)
    BY <1>1, <1>6, <2>1, <2>2
  <2> QED BY <1>4, <1>7, <1>8, <2>3 DEF Once
<1>12. Lossless(c)'
  BY <1>1, <1>4, <1>6, <1>7, <1>8 DEF Lossless
<1>13. InOrder(c)'
  <2> DEFINE q == queue[Channel(c)]
  <2>1. SUFFICES ASSUME Alone
                 PROVE  /\ row.seen = 1 .. last
                        /\ s # "off" => Consecutive(q)
                        /\ s # "off" /\ Channel(c) \notin closed /\ q # << >> =>
                             \/ q[Len(q)] = Len(log)
                             \/ /\ q[Len(q)] = Len(log) - 1
                                /\ \E p \in Publishers : Reserves(p, Len(log), Channel(c))'
                        /\ s = "live" /\ q # << >> => q[1] <= last
    BY <1>4, <1>7, <1>8 DEF InOrder
  <2>2. row.seen = 1 .. last
    <3>1. k.seen = 1 .. k.since
      BY <1>2, <2>1 DEF InOrder
    <3>2. (1 .. k.since) \cup ((k.since + 1) .. last) = 1 .. last
      BY <1>1, <1>6, Intervals
    <3> QED BY <1>7, <3>1, <3>2
  <2>3. s # "off" => subs' = subs
    BY <1>5
  <2>4. \A p \in Publishers : \A n : s # "off" /\ Reserves(p, n, Channel(c)) => Reserves(p, n, Channel(c))'
    BY <1>4, <1>8, <2>3 DEF Reserves
  <2>5. s # "off" /\ q # << >> => q[1] <= last
    <3>1. q \in Seq(DOMAIN log)
      BY <1>1, <1>9
    <3> HIDE DEF q
    <3>2. q # << >> => q[1] \in DOMAIN log
      BY <3>1
    <3>3. q # << >> => q[1] <= Len(log)
      BY <1>1, <3>2
    <3> QED BY <1>6, <3>3
  <2> QED BY <1>2, <1>4, <2>1, <2>2, <2>4, <2>5 DEF InOrder
<1>14. ClientOK(c)'
  BY <1>10, <1>11, <1>12, <1>13 DEF ClientOK
<1>15. client[c].conn <= row.conn /\ subs' \subseteq Channels /\ subs' \subseteq subs /\ subs \ {Channel(c)} \subseteq subs'
  BY <1>1, <1>5, <1>7 DEF ClientRows
<1> QED BY <1>4, <1>7, <1>14, <1>15, ClientStepInv

\* Taking the first event of the channel, whether it is new or not.
LEMMA ReceiveInv == ASSUME IInv, NEW c \in Clients, Receive(c) PROVE IInv'
<1> DEFINE k == client[c]
           x == Channel(c)
           q == queue[x]
           n == Head(q)
           rest == Tail(q)
<1>1. /\ k \in ClientRows /\ client \in [Clients -> ClientRows] /\ k.since \in Nat /\ k.replayed \in Nat
      /\ subs \subseteq Channels /\ queue \in [Channels -> Seq(DOMAIN log)] /\ DOMAIN log = 1 .. Len(log)
      /\ Len(log) \in Nat /\ DOMAIN log \in SUBSET Nat /\ \A p \in Publishers : pub[p].seq \in Nat
  BY Rows DEF IInv
<1>2. Progress(c) /\ Once(c) /\ Lossless(c) /\ InOrder(c) /\ k.pc = "live" /\ q # << >>
  BY DEF IInv, ClientOK, Receive
<1>3. x \in Channels
  BY <1>2, Rows DEF IInv, Progress
<1>4. /\ queue' = [queue EXCEPT ![x] = rest] /\ UNCHANGED <<log, pub, closed>>
  BY <1>1 DEF Receive
<1>5. /\ n = q[1] /\ n \in 1 .. Len(log) /\ Range(q) = Range(rest) \cup {n} /\ n \notin Range(rest)
      /\ rest # << >> => rest[Len(rest)] = q[Len(q)]
      /\ Consecutive(q) => Consecutive(rest) /\ (rest # << >> => rest[1] = n + 1)
  <2> DEFINE D == DOMAIN log
  <2>1. D \in SUBSET Nat /\ q \in Seq(D) /\ q # << >>
    BY <1>1, <1>2, <1>3
  <2>2. IsInjective(q)
    BY <1>3 DEF IInv, QueueInv
  <2>3. D = 1 .. Len(log)
    BY <1>1
  <2> HIDE DEF D, q
  <2>4. /\ n = q[1] /\ q[1] \in D /\ Range(q) = Range(rest) \cup {q[1]} /\ q[1] \notin Range(rest)
        /\ rest # << >> => rest[Len(rest)] = q[Len(q)]
        /\ Consecutive(q) => Consecutive(rest) /\ (rest # << >> => rest[1] = q[1] + 1)
    BY <2>1, <2>2, TailFacts
  <2> QED BY <2>3, <2>4
<1>6. queue'[x] = rest
  BY <1>1, <1>3, <1>4
<1>7. k.replayed <= k.since /\ (Alone => k.seen = 1 .. k.since /\ Consecutive(q))
  BY <1>2 DEF Progress, InOrder
<1>8. Alone => q[1] = k.since + 1 \/ (q[1] <= k.replayed /\ k.since = k.replayed)
  BY <1>2 DEF InOrder
<1>9. Alone /\ rest # << >> /\ x \notin closed =>
        \/ rest[Len(rest)] = Len(log)
        \/ rest[Len(rest)] = Len(log) - 1 /\ \E p \in Publishers : Reserves(p, Len(log), x)
  BY <1>2, <1>5 DEF InOrder
<1>10. Alone' = Alone
  BY <1>4 DEF Alone
<1> HIDE DEF n, rest
<1>11. CASE n <= k.replayed
  <2>1. client' = client /\ subs' = subs
    <3>1. n <= k.replayed /\ ~(n > k.replayed)
      BY <1>1, <1>5, <1>11
    <3>2. client' = [client EXCEPT ![c] = k] /\ subs' = subs
      BY <3>1 DEF Receive, n
    <3> QED BY <1>1, <3>2
  <2>2. Channel(c)' = x /\ client'[c] = k /\ client' = [client EXCEPT ![c] = k]
    BY <1>1, <2>1 DEF Channel
  <2>3. Progress(c)'
    BY <1>2, <1>4, <2>1, <2>2 DEF Progress
  <2>4. Once(c)'
    BY <1>2, <1>4, <1>5, <1>6, <2>2 DEF Once, MaySend
  <2>5. Lossless(c)'
    BY <1>2, <1>4, <1>5, <1>6, <1>11, <2>1, <2>2 DEF Lossless, Reserves
  <2>6. Alone /\ rest # << >> => rest[1] = k.since + 1 \/ (rest[1] <= k.replayed /\ k.since = k.replayed)
    BY <1>1, <1>5, <1>7, <1>8, <1>11
  <2>7. \A p \in Publishers : \A m : Reserves(p, m, x) => Reserves(p, m, x)'
    BY <1>4, <2>1, <2>2 DEF Reserves
  <2>8. InOrder(c)'
    BY <1>4, <1>5, <1>6, <1>7, <1>9, <1>10, <2>2, <2>6, <2>7 DEF InOrder
  <2>9. ClientOK(c)' /\ k.conn <= k.conn
    BY <1>1, <2>3, <2>4, <2>5, <2>8 DEF ClientOK, ClientRows
  <2> QED BY <1>1, <1>2, <1>3, <1>4, <2>1, <2>2, <2>9, ClientStepInv DEF rest
<1>12. CASE ~(n <= k.replayed)
  <2> DEFINE s == IF n > k.replayed /\ log[n] = "terminal" THEN "off" ELSE "live"
             row == [Received(k, <<n>>) EXCEPT !.pc = s]
  <2>1. client' = [client EXCEPT ![c] = row]
    BY <1>12 DEF Receive, n
  <2>2. subs' = IF s = "off" THEN subs \ {x} ELSE subs
    BY DEF Receive, Unsubscribe, n
  <2>3. s \in {"off", "live"} /\ n \in Nat
    BY <1>5
  <2> HIDE DEF s
  <2>4. /\ row \in ClientRows /\ row.pc = s /\ row.conn = k.conn /\ row.from = k.from /\ row.replayed = k.replayed
        /\ row.seen = k.seen \cup {n} /\ row.since = n
        /\ Range(row.got) = Range(k.got) \cup {n}
        /\ IsInjective(k.got) /\ n \notin Range(k.got) => IsInjective(row.got)
    <3> DEFINE D == DOMAIN log
    <3>1. k \in ClientRows /\ D \in SUBSET Nat /\ n \in D /\ s \in {"off", "live"}
      BY <1>1, <1>5, <2>3
    <3>2. row = Taken(k, n, s)
      BY DEF Taken
    <3> HIDE DEF k, row, D, n, s
    <3>3. LET new == Taken(k, n, s) IN
          /\ new \in ClientRows /\ new.pc = s /\ new.conn = k.conn /\ new.from = k.from /\ new.replayed = k.replayed
          /\ new.seen = k.seen \cup {n} /\ new.since = n
          /\ Range(new.got) = Range(k.got) \cup {n}
          /\ IsInjective(k.got) /\ n \notin Range(k.got) => IsInjective(new.got)
      BY <3>1, TakeFacts
    <3> QED BY <3>2, <3>3
  <2> HIDE DEF row
  <2>5. client'[c] = row /\ Channel(c)' = x
    BY <1>1, <2>1, <2>4 DEF Channel
  <2>7. Progress(c)'
    <3>1. n \in DOMAIN log /\ n <= Len(log) /\ k.replayed <= n
      BY <1>1, <1>5, <1>12
    <3> QED BY <1>2, <1>4, <2>2, <2>3, <2>4, <2>5, <3>1 DEF Progress
  <2>8. n > k.replayed /\ n \in Range(q)
    BY <1>1, <1>5, <1>12
  <2>9. Once(c)'
    <3>1. IsInjective(k.got) /\ n \notin Range(k.got)
      BY <1>2, <2>8 DEF Once
    <3>2. \A m \in Range(rest) : m > k.replayed => m \notin Range(k.got) \cup {n}
      BY <1>2, <1>5 DEF Once
    <3>3. \A p \in Publishers : MaySend(p, x) => pub[p].seq # n
      BY <1>3, <2>8 DEF IInv, QueueInv
    <3>4. \A p \in Publishers :
            MaySend(p, x) /\ pub[p].seq > k.replayed => pub[p].seq \notin Range(k.got) \cup {n}
      BY <1>2, <3>3 DEF Once
    <3> QED BY <1>4, <1>6, <2>4, <2>5, <3>1, <3>2, <3>4 DEF Once, MaySend
  <2>10. s # "off" => subs' = subs
    BY <2>2
  <2>11. \A p \in Publishers : \A m : s # "off" /\ Reserves(p, m, x) => Reserves(p, m, x)'
    BY <1>4, <2>5, <2>10 DEF Reserves
  <2>12. Lossless(c)'
    BY <1>2, <1>4, <1>5, <1>6, <2>3, <2>4, <2>5, <2>11 DEF Lossless
  <2>13. Alone => n = k.since + 1 /\ k.seen \cup {n} = 1 .. n
    <3>1. Alone => n = k.since + 1
      BY <1>5, <1>8, <1>12
    <3>2. (1 .. k.since) \cup {k.since + 1} = 1 .. k.since + 1
      BY <1>1
    <3> QED BY <1>7, <3>1, <3>2
  <2>14. InOrder(c)'
    BY <1>4, <1>5, <1>6, <1>7, <1>9, <1>10, <2>4, <2>5, <2>11, <2>13 DEF InOrder
  <2>15. ClientOK(c)'
    BY <2>7, <2>9, <2>12, <2>14 DEF ClientOK
  <2>16. k.conn <= row.conn /\ subs' \subseteq Channels /\ subs' \subseteq subs /\ subs \ {x} \subseteq subs'
    BY <1>1, <2>2, <2>4 DEF ClientRows
  <2> QED BY <1>2, <1>3, <1>4, <2>1, <2>4, <2>15, <2>16, ClientStepInv DEF rest
<1> QED BY <1>11, <1>12

(***************************************************************************)
(* The theorems.                                                           *)
(***************************************************************************)
LEMMA InitInv == Init => IInv
<1> SUFFICES ASSUME Init PROVE IInv
  OBVIOUS
<1>1. PICK scripts \in Scenarios : pub = [p \in Publishers |-> NewPublisher(scripts[p])]
  BY DEF Init
<1>2. scripts \in [Publishers -> Seq({"plain", "terminal"})]
  BY StreamAssumption
<1>3. \A p \in Publishers : /\ pub[p] \in PublisherRows /\ pub[p].pc = "idle" /\ pub[p].seq = 0
                            /\ pub[p].todo = {}
  BY <1>1, <1>2 DEF NewPublisher, PublisherRows
<1>4. \A c \in Clients : /\ client[c] \in ClientRows /\ client[c].pc = "off" /\ client[c].conn = 0
                         /\ client[c].since = 0 /\ client[c].from = 0 /\ client[c].replayed = 0 /\ client[c].got = << >>
                         /\ client[c].seen = {}
  BY StreamAssumption DEF Init, NewClient, ClientRows
<1>5. \A ch \in Channels : queue[ch] = << >>
  BY DEF Init
<1>6. log = << >> /\ subs = {} /\ closed = {} /\ Len(log) = 0 /\ DOMAIN log = {}
  BY DEF Init
<1>7. TypeOK
  <2>1. log \in Seq({"plain", "terminal"})
    BY <1>6
  <2>2. pub \in [Publishers -> PublisherRows] /\ client \in [Clients -> ClientRows]
    BY <1>1, <1>3, <1>4 DEF Init
  <2>3. queue \in [Channels -> Seq(DOMAIN log)] /\ \A ch \in Channels : Len(queue[ch]) <= Cap
    BY StreamAssumption DEF Init
  <2> QED BY <1>6, <2>1, <2>2, <2>3 DEF TypeOK, PublisherRows, ClientRows
<1>8. SeqInv
  BY <1>3, <1>6 DEF SeqInv
<1>9. ChannelInv
  BY <1>3, <1>5, <1>6 DEF ChannelInv
<1>10. QueueInv
  BY <1>3, <1>5 DEF QueueInv, MaySend, IsInjective
<1>11. ASSUME NEW c \in Clients PROVE ClientOK(c)
  <2>1. Progress(c) /\ Once(c) /\ Lossless(c)
    BY <1>4, <1>6, <1>11 DEF Progress, Once, Lossless, IsInjective, Range
  <2>2. InOrder(c)
    <3>1. 1 .. 0 = {}
      OBVIOUS
    <3> QED BY <1>4, <1>11, <3>1 DEF InOrder
  <2> QED BY <2>1, <2>2 DEF ClientOK
<1> QED BY <1>7, <1>8, <1>9, <1>10, <1>11 DEF IInv

LEMMA NextInv == IInv /\ [Next]_vars => IInv'
<1> SUFFICES ASSUME IInv, [Next]_vars PROVE IInv'
  OBVIOUS
<1>1. ASSUME NEW p \in Publishers, PublisherStep(p) PROVE IInv'
  BY <1>1, PersistInv, CopyInv, SendInv, CloseSlowInv, PublishedInv DEF PublisherStep
<1>2. ASSUME NEW c \in Clients, ClientStep(c) \/ Disconnect(c) PROVE IInv'
  BY <1>2, ConnectInv, ReplayInv, ReceiveInv, ReceiveClosedInv, DisconnectInv DEF ClientStep
<1>3. CASE UNCHANGED vars
  <2>1. UNCHANGED <<log, pub, subs, queue, closed, client>>
    BY <1>3 DEF vars
  <2>2. Alone' = Alone /\ TypeOK' /\ ChannelInv'
    BY <2>1 DEF Alone, IInv, TypeOK, ChannelInv
  <2>3. SeqInv' /\ QueueInv'
    BY <2>1, <2>2 DEF IInv, SeqInv, QueueInv, MaySend
  <2>4. ASSUME NEW c \in Clients PROVE ClientOK(c)'
    <3>1. Channel(c)' = Channel(c)
      BY <2>1 DEF Channel
    <3>2. Progress(c)' /\ Once(c)'
      BY <2>1, <3>1 DEF IInv, ClientOK, Progress, Once, MaySend
    <3>3. \A q \in Publishers : \A n : Reserves(q, n, Channel(c)) => Reserves(q, n, Channel(c))'
      BY <2>1, <3>1 DEF Reserves
    <3>4. Lossless(c)'
      BY <2>1, <3>1, <3>3 DEF IInv, ClientOK, Lossless
    <3>5. InOrder(c)'
      BY <2>1, <2>2, <3>1, <3>3 DEF IInv, ClientOK, InOrder
    <3> QED BY <3>2, <3>4, <3>5 DEF ClientOK
  <2> QED BY <2>2, <2>3, <2>4 DEF IInv
<1> QED BY <1>1, <1>2, <1>3 DEF Next

LEMMA Inductive == Spec => []IInv
BY InitInv, NextInv, PTL DEF Spec

\* The types of the broker's maps, the channels and the clients; in particular no
\* channel ever holds more than its capacity.
THEOREM TypesCorrect == Spec => []TypeOK
<1>1. IInv => TypeOK
  BY DEF IInv
<1> QED BY <1>1, Inductive, PTL

\* streamEvents never writes an event twice on a connection, however the replay
\* overlaps with the live channel and whoever publishes.
THEOREM NoEventTwice == Spec => []NoDuplicates
<1>1. IInv => NoDuplicates
  BY DEF IInv, ClientOK, Once, NoDuplicates
<1> QED BY <1>1, Inductive, PTL

\* As long as the broker has not closed its channel, a live connection gets every
\* event behind the id it started from, also those that a later one has overtaken,
\* unless their publisher panics first: subscribing before ListEvents leaves no window,
\* dispatch's copy of the subscribers none either, and what is skipped was replayed.
THEOREM LiveStreamsLoseNothing == Spec => []LiveStreamLosesNothing
<1>1. IInv => LiveStreamLosesNothing
  <2> SUFFICES ASSUME IInv, NEW c \in Clients, client[c].pc = "live", Channel(c) \notin closed,
                      NEW n \in DOMAIN log, n > client[c].from
               PROVE  \/ n \in Range(client[c].got) \cup Range(queue[Channel(c)])
                      \/ \E p \in Publishers : Owes(p, n, Channel(c)) \/ LostToPanic(p, n, Channel(c))
    BY DEF LiveStreamLosesNothing
  <2>1. ~(n <= client[c].from)
    BY Rows DEF IInv
  <2>2. n <= client[c].replayed => n \in Range(client[c].got)
    BY <2>1 DEF IInv, ClientOK, Progress
  <2>3. \A p \in Publishers :
          Reserves(p, n, Channel(c)) => Owes(p, n, Channel(c)) \/ LostToPanic(p, n, Channel(c))
    BY DEF Reserves, Owes, LostToPanic
  <2> QED BY <2>2, <2>3 DEF IInv, ClientOK, Lossless
<1> QED BY <1>1, Inductive, PTL

\* With one goroutine publishing, ?since and Last-Event-ID are all a client needs:
\* it has received exactly the events up to its last id, over all its connections.
THEOREM SinglePublisherHasNoGaps == Spec => []NoGaps
<1>1. IInv => NoGaps
  BY DEF IInv, ClientOK, InOrder, NoGaps
<1> QED BY <1>1, Inductive, PTL
=============================================================================
