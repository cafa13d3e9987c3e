--------------------------- MODULE WorkspaceProofs ---------------------------
(***************************************************************************)
(* Proofs about Workspace, for any requests, clients, turns and bounds:    *)
(* what the model is asked with leaves out nothing that a summary renders  *)
(* (Compaction), and what the system prompt tells it stands in the workdir *)
(* (SessionMount).                                                         *)
(*                                                                         *)
(* The conversation.  The context of a thread is made of positions of the  *)
(* log; every position that counts is in it or behind the summary.         *)
(*                                                                         *)
(* The mount.  Whatever a turn has written stands in its workdir, at its   *)
(* own place or behind something else it has written there.  A memory that *)
(* is found untouched has been untouched ever since it was listed, so what *)
(* was read in between is what it still says.                              *)
(***************************************************************************)
EXTENDS Workspace, AgentVersionsProofs, MemoryStoreProofs, FiniteSetTheorems, WellFoundedInduction, TLAPS

(***************************************************************************)
(* Sets of positions and their enumeration.                                *)
(***************************************************************************)
\* How many elements of a set are below i.
Rank(S, i) == Cardinality({j \in S : j < i})

LEMMA OldestThere ==
  ASSUME NEW S \in SUBSET Nat, S # {}
  PROVE  Oldest(S) \in S /\ \A j \in S : Oldest(S) <= j
<1> DEFINE R == OpToRel(<, Nat)
<1>1. IsWellFoundedOn(R, Nat)
  BY NatLessThanWellFounded
<1>2. \A x, y \in Nat : x < y => <<x, y>> \in R
  BY DEF OpToRel
<1> HIDE DEF R
<1>3. PICK x \in S : \A y \in S : <<y, x>> \notin R
  BY <1>1, WFMin
<1>4. \A y \in S : x <= y
  <2>1. S \subseteq Nat /\ x \in Nat
    OBVIOUS
  <2>2. \A y \in S : ~(y < x)
    BY <1>2, <1>3, <2>1
  <2> QED BY <2>1, <2>2
<1> QED BY <1>4 DEF Oldest

LEMMA RankRange ==
  ASSUME NEW S \in SUBSET Nat, IsFiniteSet(S), NEW i \in S
  PROVE  /\ Cardinality(S) \in Nat /\ Rank(S, i) \in 0 .. Cardinality(S) - 1
         /\ \A j \in S : i < j => Rank(S, i) < Rank(S, j)
<1>0. Cardinality(S) \in Nat /\ \A T \in SUBSET S : IsFiniteSet(T) /\ Cardinality(T) \in Nat /\ Cardinality(T) <= Cardinality(S)
  BY FS_CardinalityType, FS_Subset
<1> DEFINE below(j) == {x \in S : x < j}
<1>1. \A j \in S : below(j) \in SUBSET S /\ below(j) # S
  OBVIOUS
<1>2. Cardinality(below(i)) # Cardinality(S)
  BY <1>1, FS_Subset
<1>3. ASSUME NEW j \in S, i < j PROVE Cardinality(below(i)) < Cardinality(below(j))
  <2>0. i \in Nat /\ j \in Nat /\ \A x \in S : x \in Nat
    OBVIOUS
  <2>1. below(i) \in SUBSET below(j) /\ i \in below(j) /\ i \notin below(i)
    <3>1. \A x \in S : x < i => x < j
      BY <1>3, <2>0
    <3>2. ~(i < i) /\ i < j
      BY <1>3, <2>0
    <3> QED BY <3>1, <3>2
  <2>2. IsFiniteSet(below(j)) /\ Cardinality(below(j)) \in Nat /\ Cardinality(below(i)) \in Nat
    BY <1>0, <1>1
  <2> HIDE DEF below
  <2>3. Cardinality(below(i)) <= Cardinality(below(j)) /\ Cardinality(below(j)) # Cardinality(below(i))
    BY <2>1, <2>2, FS_Subset
  <2> QED BY <2>2, <2>3
<1>4. Cardinality(below(i)) \in Nat /\ Cardinality(below(i)) <= Cardinality(S)
  BY <1>0, <1>1
<1> HIDE DEF below
<1>5. \A j \in S : Rank(S, j) = Cardinality(below(j))
  BY DEF Rank, below
<1> QED BY <1>0, <1>2, <1>3, <1>4, <1>5

\* Each rank below the size of the set is taken, by one element.
LEMMA Ranked ==
  ASSUME NEW S \in SUBSET Nat, IsFiniteSet(S), NEW k \in 0 .. Cardinality(S) - 1
  PROVE  /\ \E i \in S : Rank(S, i) = k
         /\ \A i, j \in S : Rank(S, i) = Rank(S, j) => i = j
<1> DEFINE n == Cardinality(S)
           T == 0 .. n - 1
           f == [i \in S |-> Rank(S, i)]
<1>0. n \in Nat
  BY FS_CardinalityType
<1>1. \A i \in S : Rank(S, i) \in T /\ \A j \in S : i < j => Rank(S, i) < Rank(S, j)
  BY RankRange
<1>2. \A i, j \in S : Rank(S, i) = Rank(S, j) => i = j
  <2> SUFFICES ASSUME NEW i \in S, NEW j \in S, i # j PROVE Rank(S, i) # Rank(S, j)
    OBVIOUS
  <2>1. i \in Nat /\ j \in Nat /\ Rank(S, i) \in Int /\ Rank(S, j) \in Int
    BY <1>0, <1>1
  <2>2. CASE i < j
    BY <1>1, <2>1, <2>2
  <2>3. CASE j < i
    BY <1>1, <2>1, <2>3
  <2> QED BY <2>1, <2>2, <2>3
<1>3. f \in Injection(S, T)
  BY <1>1, <1>2 DEF Injection, IsInjective
<1>4. IsFiniteSet(T) /\ Cardinality(T) = n
  BY <1>0, FS_Interval
<1> HIDE DEF T
<1>5. f \in Surjection(S, T)
  <2> HIDE DEF f
  <2> QED BY <1>3, <1>4, FS_Injection
<1>6. \E i \in S : f[i] = k
  <2>1. k \in T
    BY DEF T
  <2> HIDE DEF f
  <2> QED BY <1>5, <2>1 DEF Surjection
<1> QED BY <1>2, <1>6

LEMMA ListOf == ASSUME NEW T, NEW S \in SUBSET T, NEW l \in Seq(S) PROVE l \in Seq(T)
<1>1. Len(l) \in Nat /\ l \in [1 .. Len(l) -> S]
  OBVIOUS
<1>2. l \in [1 .. Len(l) -> T]
  BY <1>1
<1> QED BY <1>1, <1>2

LEMMA NewestThere ==
  ASSUME NEW S \in SUBSET Nat, IsFiniteSet(S), S # {}
  PROVE  \E i \in S : \A j \in S : j <= i
<1>1. Cardinality(S) \in Nat /\ Cardinality(S) # 0
  BY FS_CardinalityType, FS_EmptySet
<1>2. Cardinality(S) - 1 \in 0 .. Cardinality(S) - 1
  BY <1>1
<1>3. PICK i \in S : Rank(S, i) = Cardinality(S) - 1
  BY <1>2, Ranked
<1>4. ASSUME NEW j \in S, ~(j <= i) PROVE FALSE
  <2>1. i < j /\ i \in Nat /\ j \in Nat
    BY <1>4
  <2>2. Rank(S, i) < Rank(S, j) /\ Rank(S, j) \in 0 .. Cardinality(S) - 1
    BY <2>1, RankRange
  <2> QED BY <1>1, <1>3, <2>2
<1> QED BY <1>4

\* InOrder lists the elements of a set, each once and in their order.
LEMMA Enumerates ==
  ASSUME NEW S \in SUBSET Nat, IsFiniteSet(S)
  PROVE  /\ Cardinality(S) \in Nat /\ InOrder(S) \in Seq(S) /\ Len(InOrder(S)) = Cardinality(S)
         /\ {InOrder(S)[k] : k \in DOMAIN InOrder(S)} = S
         /\ \A j, k \in DOMAIN InOrder(S) : j < k => InOrder(S)[j] < InOrder(S)[k]
<1> DEFINE n == Cardinality(S)
           l == InOrder(S)
<1>0. n \in Nat
  BY FS_CardinalityType
<1>1. \A k \in 1 .. n : l[k] \in S /\ Rank(S, l[k]) = k - 1
  <2> SUFFICES ASSUME NEW k \in 1 .. n PROVE l[k] \in S /\ Rank(S, l[k]) = k - 1
    OBVIOUS
  <2>1. k - 1 \in 0 .. n - 1
    BY <1>0
  <2>2. \E i \in S : Rank(S, i) = k - 1
    BY <2>1, Ranked
  <2>3. l[k] = CHOOSE i \in S : Rank(S, i) = k - 1
    BY DEF InOrder, Rank
  <2> HIDE DEF l
  <2> QED BY <2>2, <2>3
<1>2. l \in [1 .. n -> S] /\ DOMAIN l = 1 .. n
  <2> DEFINE e(k) == CHOOSE i \in S : Cardinality({j \in S : j < i}) = k - 1
  <2>1. l = [k \in 1 .. n |-> e(k)]
    BY DEF InOrder
  <2> HIDE DEF l, e, n
  <2> QED BY <1>1, <2>1
<1>3. l \in Seq(S) /\ Len(l) = n
  BY <1>0, <1>2
<1> HIDE DEF l, n
<1>4. \A i \in S : Rank(S, i) \in 0 .. n - 1
  BY RankRange DEF n
<1>5. ASSUME NEW i \in S PROVE i \in {l[k] : k \in DOMAIN l}
  <2>1. Rank(S, i) \in 0 .. n - 1 /\ Rank(S, i) + 1 \in 1 .. n
    BY <1>0, <1>4
  <2>2. Rank(S, l[Rank(S, i) + 1]) = Rank(S, i) /\ l[Rank(S, i) + 1] \in S
    BY <1>0, <1>1, <2>1
  <2>3. \A j \in S : Rank(S, j) = Rank(S, i) => j = i
    BY <2>1, Ranked DEF n
  <2>4. l[Rank(S, i) + 1] = i
    BY <2>2, <2>3
  <2> QED BY <1>2, <2>1, <2>4
<1>6. ASSUME NEW j \in 1 .. n, NEW k \in 1 .. n, j < k PROVE l[j] < l[k]
  <2>1. Rank(S, l[j]) = j - 1 /\ Rank(S, l[k]) = k - 1 /\ l[j] \in S /\ l[k] \in S /\ l[j] \in Nat /\ l[k] \in Nat
    BY <1>1
  <2>2. CASE l[k] < l[j]
    <3>1. Rank(S, l[k]) < Rank(S, l[j])
      BY <2>1, <2>2, RankRange
    <3> QED BY <1>6, <2>1, <3>1, <1>0
  <2>3. CASE l[k] = l[j]
    BY <1>6, <2>1, <2>3, <1>0
  <2> QED BY <2>1, <2>2, <2>3
<1> QED BY <1>0, <1>1, <1>2, <1>3, <1>5, <1>6 DEF l, n

\* At least as many elements are kept as there are recent ones.
LEMMA KeepsRecent ==
  ASSUME NEW B \in SUBSET Nat, IsFiniteSet(B), Cardinality(B) >= KeepRecent + 1
  PROVE  /\ Recent(B) # {} /\ Recent(B) \subseteq B /\ Oldest(Recent(B)) \in B
         /\ Cardinality({m \in B : m >= Oldest(Recent(B))}) >= KeepRecent
<1> DEFINE n == Cardinality(B)
<1>0. n \in Nat /\ KeepRecent \in Nat \ {0} /\ n - KeepRecent \in 0 .. n - 1
  BY FS_CardinalityType, CompactionAssumption
<1>1. PICK i \in B : Rank(B, i) = n - KeepRecent
  BY <1>0, Ranked
<1> DEFINE low == {j \in B : j < i}
           high == {j \in B : j >= i}
           above == {j \in B : j > i}
<1>2. IsFiniteSet(low) /\ IsFiniteSet(high) /\ IsFiniteSet(above)
  <2>1. low \in SUBSET B /\ high \in SUBSET B /\ above \in SUBSET B
    OBVIOUS
  <2> QED BY <2>1, FS_Subset
<1>3. low \cup high = B /\ low \cap high = {} /\ above = high \ {i} /\ i \in high
  <2>1. i \in Nat /\ \A j \in B : j \in Nat
    OBVIOUS
  <2>2. \A j \in B : (j < i \/ j >= i) /\ ~(j < i /\ j >= i) /\ (j > i <=> j >= i /\ j # i)
    BY <2>1
  <2>3. i >= i
    BY <2>1
  <2> QED BY <2>2, <2>3
<1>4. Cardinality(low) = n - KeepRecent
  BY <1>1 DEF Rank
<1>5. Cardinality(high) \in Nat /\ Cardinality(low) \in Nat /\ Cardinality(above) \in Nat
  <2> HIDE DEF low, high, above
  <2> QED BY <1>2, FS_CardinalityType
<1>6. Cardinality(high) = KeepRecent
  <2>0. Cardinality({}) = 0
    BY FS_EmptySet
  <2> HIDE DEF low, high
  <2>1. n = Cardinality(low) + Cardinality(high) - Cardinality(low \cap high)
    BY <1>2, <1>3, FS_Union
  <2>2. n = Cardinality(low) + Cardinality(high)
    <3>1. Cardinality(low \cap high) = 0
      BY <1>3, <2>0
    <3>2. \A x, y \in Nat : x + y - 0 = x + y
      OBVIOUS
    <3> QED BY <1>5, <2>1, <3>1, <3>2
  <2> QED BY <1>0, <1>4, <1>5, <2>2
<1>7. Cardinality(above) < KeepRecent
  <2> HIDE DEF above, high
  <2>1. Cardinality(above) = Cardinality(high) - 1
    BY <1>2, <1>3, FS_RemoveElement
  <2> QED BY <1>0, <1>6, <2>1
<1>8. i \in Recent(B) /\ Recent(B) \subseteq B
  BY <1>7 DEF Recent
<1> DEFINE o == Oldest(Recent(B))
<1>9. o \in B /\ o <= i
  BY <1>8, OldestThere
<1>10. high \in SUBSET {m \in B : m >= o} /\ IsFiniteSet({m \in B : m >= o})
  <2> HIDE DEF o
  <2>1. {m \in B : m >= o} \in SUBSET B
    OBVIOUS
  <2>2. IsFiniteSet({m \in B : m >= o})
    BY <2>1, FS_Subset
  <2>3. i \in Nat /\ o \in Nat /\ \A j \in B : j \in Nat
    BY <1>9
  <2>4. \A j \in B : j >= i => j >= o
    BY <1>9, <2>3
  <2> QED BY <2>2, <2>4
<1>11. Cardinality(high) <= Cardinality({m \in B : m >= o})
  <2> HIDE DEF high, o
  <2> QED BY <1>10, FS_Subset
<1>12. Cardinality({m \in B : m >= o}) \in Nat
  BY <1>10, FS_CardinalityType
<1> QED BY <1>0, <1>6, <1>8, <1>9, <1>11, <1>12

(***************************************************************************)
(* The log of a session and the turn that is inside.                       *)
(***************************************************************************)
Kinds == Conversational \cup {"verdict", "checkpoint"}
Events == [type : Kinds, thread : Threads, use : Nat, through : Nat, covers : SUBSET Nat]
Results == {"result", "mcpResult", "answer"}

\* Where a history is cut: in front of a message, with all that is before in the
\* summary and KeepRecent messages behind.
Cut(thread, through, covers) ==
  /\ through + 1 \in Of(thread, {"message"})
  /\ covers = {i \in Of(thread, Rendered) : i <= through}
  /\ Cardinality({m \in Of(thread, {"message"}) : m > through}) >= KeepRecent

EntryOK(i) ==
  LET e == conversation[i] IN
  /\ e.use < i
  /\ e.type = "checkpoint" => e.through + 1 < i /\ Cut(e.thread, e.through, e.covers)
  /\ e.type # "checkpoint" => e.through = 0 /\ e.covers = {}
  /\ e.type \in Results => e.use \in Of(e.thread, Uses)

LogOK ==
  /\ conversation \in Seq(Events) /\ Len(conversation) <= MaxEvents
  /\ \A i \in DOMAIN conversation : EntryOK(i)

\* What buildMessages makes of the events up to prep.upto.
SentBlocks(t) ==
  LET kept == InOrder({i \in Of(t, Conversational) : i <= prep.upto /\ i > Checkpoint(t).through})
  IN IF Of(t, {"checkpoint"}) = {} THEN kept ELSE <<SummaryBlock>> \o kept

SentFor(t) ==
  /\ prep.upto <= Len(conversation)
  /\ \A i \in Of(t, {"checkpoint"}) : i <= prep.upto
  /\ prep.sent = SentBlocks(t)
  /\ Of(t, {"checkpoint"}) # {} =>
       Cardinality({m \in Of(t, {"message"}) : m > Checkpoint(t).through /\ m <= prep.upto}) >= KeepRecent
SentOK == \A t \in Threads : t = prep.thread => SentFor(t)

Stages == {"off", "compact", "summary", "resolve", "resolving", "build", "model", "said", "tool"}
Preps == [pc : Stages, thread : Threads \cup {""}, through : Nat, covers : SUBSET Nat, todo : Seq(Nat),
          upto : Nat, sent : Seq(Nat)]

PrepOK ==
  /\ prep \in Preps
  /\ prep.pc # "off" => prep.thread \in Threads
  /\ prep.pc = "summary" => Cut(prep.thread, prep.through, prep.covers)
  /\ prep.pc \in {"resolving", "tool"} => \A k \in DOMAIN prep.todo : prep.todo[k] \in Of(prep.thread, Uses)
  /\ prep.pc = "tool" => prep.todo # << >>
  /\ prep.pc = "model" => SentOK

QueuedOK ==
  /\ queued \in [Threads -> Nat] /\ \A t \in Threads : queued[t] <= Len(conversation)
  /\ kinds \subseteq Uses

ContextInv == LogOK /\ PrepOK /\ QueuedOK

LEMMA Positions ==
  ASSUME conversation \in Seq(Events)
  PROVE  /\ Len(conversation) \in Nat /\ DOMAIN conversation = 1 .. Len(conversation)
         /\ \A i \in DOMAIN conversation : conversation[i] \in Events
         /\ \A t, T : Of(t, T) \in SUBSET Nat /\ IsFiniteSet(Of(t, T)) /\ Of(t, T) \subseteq 1 .. Len(conversation)
<1>1. Len(conversation) \in Nat /\ DOMAIN conversation = 1 .. Len(conversation)
  OBVIOUS
<1>2. \A t, T : Of(t, T) \in SUBSET (1 .. Len(conversation))
  BY <1>1 DEF Of
<1>3. IsFiniteSet(1 .. Len(conversation))
  BY <1>1, FS_Interval
<1>4. \A t, T : IsFiniteSet(Of(t, T))
  BY <1>2, <1>3, FS_Subset
<1> QED BY <1>1, <1>2, <1>4

\* What an appended event changes.
LEMMA Grows ==
  ASSUME conversation \in Seq(Events), NEW e \in Events, conversation' = Append(conversation, e)
  PROVE  /\ conversation' \in Seq(Events) /\ Len(conversation') = Len(conversation) + 1
         /\ DOMAIN conversation' = DOMAIN conversation \cup {Len(conversation) + 1}
         /\ \A i \in DOMAIN conversation : conversation'[i] = conversation[i]
         /\ conversation'[Len(conversation) + 1] = e
         /\ \A t, T : Of(t, T)' = IF e.thread = t /\ e.type \in T THEN Of(t, T) \cup {Len(conversation) + 1} ELSE Of(t, T)
<1> DEFINE n == Len(conversation)
<1>1. n \in Nat /\ DOMAIN conversation = 1 .. n /\ n + 1 \notin DOMAIN conversation
  OBVIOUS
<1>2. /\ conversation' \in Seq(Events) /\ Len(conversation') = n + 1
      /\ \A i \in 1 .. n : conversation'[i] = conversation[i]
      /\ conversation'[n + 1] = e
  OBVIOUS
<1>3. DOMAIN conversation' = 1 .. n + 1 /\ DOMAIN conversation' = DOMAIN conversation \cup {n + 1}
  BY <1>1, <1>2
<1> HIDE DEF n
<1>4. ASSUME NEW t, NEW T
      PROVE  Of(t, T)' = IF e.thread = t /\ e.type \in T THEN Of(t, T) \cup {n + 1} ELSE Of(t, T)
  BY <1>1, <1>2, <1>3 DEF Of
<1> QED BY <1>1, <1>2, <1>3, <1>4 DEF n

LEMMA CutStays ==
  ASSUME conversation \in Seq(Events), NEW e \in Events, conversation' = Append(conversation, e),
         NEW t, NEW through \in Nat, NEW covers, Cut(t, through, covers)
  PROVE  Cut(t, through, covers)'
<1> DEFINE n == Len(conversation)
           old == Of(t, {"message"})
           new == Of(t, {"message"})'
           below == {m \in old : m > through}
           above == {m \in new : m > through}
<1>1. n \in Nat /\ old \in SUBSET Nat /\ old \subseteq 1 .. n /\ through + 1 \in old /\ through < n
  BY Positions DEF Cut
<1>2. new = old \/ new = old \cup {n + 1}
  BY Grows
<1>3. Of(t, Rendered)' = Of(t, Rendered) \/ Of(t, Rendered)' = Of(t, Rendered) \cup {n + 1}
  BY Grows
<1>4. {i \in Of(t, Rendered)' : i <= through} = {i \in Of(t, Rendered) : i <= through}
  BY <1>1, <1>3
<1>5. below \in SUBSET above /\ IsFiniteSet(above) /\ IsFiniteSet(below)
  <2>1. conversation' \in Seq(Events)
    BY Grows
  <2>2. IsFiniteSet(new) /\ IsFiniteSet(old)
    <3>1. Len(conversation') \in Nat /\ DOMAIN conversation' = 1 .. Len(conversation')
      BY <2>1
    <3>2. new \subseteq 1 .. Len(conversation')
      BY <3>1 DEF Of
    <3>3. IsFiniteSet(1 .. Len(conversation'))
      BY <3>1, FS_Interval
    <3>4. new \in SUBSET (1 .. Len(conversation'))
      BY <3>2
    <3> HIDE DEF new, old
    <3>5. IsFiniteSet(new)
      BY <3>3, <3>4, FS_Subset
    <3> QED BY <3>5, Positions DEF old
  <2>3. below \in SUBSET above /\ above \in SUBSET new /\ below \in SUBSET old
    BY <1>2
  <2> QED BY <2>2, <2>3, FS_Subset
<1>6. Cardinality(above) >= KeepRecent
  <2> HIDE DEF below, above
  <2>1. Cardinality(below) <= Cardinality(above) /\ Cardinality(below) \in Nat /\ Cardinality(above) \in Nat
    BY <1>5, FS_Subset, FS_CardinalityType
  <2>2. Cardinality(below) >= KeepRecent
    BY DEF Cut, below, old
  <2> QED BY <2>1, <2>2, CompactionAssumption
<1>7. covers = {i \in Of(t, Rendered) : i <= through}
  BY DEF Cut
<1>8. through + 1 \in new
  BY <1>1, <1>2
<1> QED BY <1>4, <1>6, <1>7, <1>8 DEF Cut

\* An event that may be appended.
Fits(e) ==
  /\ e \in Events /\ e.use <= Len(conversation)
  /\ e.type = "checkpoint" => Cut(e.thread, e.through, e.covers)
  /\ e.type # "checkpoint" => e.through = 0 /\ e.covers = {}
  /\ e.type \in Results => e.use \in Of(e.thread, Uses)

LEMMA LogKept ==
  ASSUME LogOK, NEW e, Fits(e), Log(e)
  PROVE  LogOK'
<1> DEFINE n == Len(conversation)
<1>1. /\ conversation \in Seq(Events) /\ n <= MaxEvents /\ \A i \in DOMAIN conversation : EntryOK(i)
      /\ e \in Events /\ conversation' = Append(conversation, e) /\ n < MaxEvents
  BY DEF LogOK, Fits, Log, Room
<1>2. /\ conversation' \in Seq(Events) /\ Len(conversation') = n + 1
      /\ DOMAIN conversation' = DOMAIN conversation \cup {n + 1}
      /\ \A i \in DOMAIN conversation : conversation'[i] = conversation[i]
      /\ conversation'[n + 1] = e
      /\ \A t, T : Of(t, T)' = IF e.thread = t /\ e.type \in T THEN Of(t, T) \cup {n + 1} ELSE Of(t, T)
  BY <1>1, Grows
<1>3. n \in Nat /\ DOMAIN conversation = 1 .. n /\ MaxEvents \in Nat /\ \A t, T : Of(t, T) \subseteq 1 .. n
  BY <1>1, Positions, CompactionAssumption
<1>4. Len(conversation') <= MaxEvents
  BY <1>1, <1>2, <1>3
<1>5. ASSUME NEW i \in DOMAIN conversation PROVE EntryOK(i)'
  <2>1. PICK o : o = conversation[i]
    OBVIOUS
  <2>2. o \in Events /\ conversation'[i] = o
    BY <1>1, <1>2, <2>1, Positions
  <2>3. /\ o.use < i
        /\ o.type = "checkpoint" => o.through + 1 < i /\ Cut(o.thread, o.through, o.covers)
        /\ o.type # "checkpoint" => o.through = 0 /\ o.covers = {}
        /\ o.type \in Results => o.use \in Of(o.thread, Uses)
    BY <1>1, <2>1 DEF EntryOK
  <2>4. o.type = "checkpoint" => Cut(o.thread, o.through, o.covers)'
    BY <1>1, <2>2, <2>3, CutStays DEF Events
  <2>5. o.type \in Results => o.use \in Of(o.thread, Uses)'
    BY <1>2, <2>3
  <2>6. EntryOK(i)' = (/\ o.use < i
                       /\ o.type = "checkpoint" => o.through + 1 < i /\ Cut(o.thread, o.through, o.covers)'
                       /\ o.type # "checkpoint" => o.through = 0 /\ o.covers = {}
                       /\ o.type \in Results => o.use \in Of(o.thread, Uses)')
    BY <2>2 DEF EntryOK, Cut
  <2> QED BY <2>3, <2>4, <2>5, <2>6
<1>6. ASSUME NEW i, i = n + 1 PROVE EntryOK(i)'
  <2>1. /\ e.use <= n /\ e.use \in Nat /\ e.through \in Nat
        /\ e.type = "checkpoint" => Cut(e.thread, e.through, e.covers)
        /\ e.type # "checkpoint" => e.through = 0 /\ e.covers = {}
        /\ e.type \in Results => e.use \in Of(e.thread, Uses)
    BY DEF Fits, Events
  <2>2. e.type = "checkpoint" => Cut(e.thread, e.through, e.covers)'
    BY <1>1, <2>1, CutStays
  <2>3. e.type = "checkpoint" => e.through + 1 < i
    <3>1. e.type = "checkpoint" => e.through + 1 \in 1 .. n
      BY <1>3, <2>1 DEF Cut
    <3> QED BY <1>3, <1>6, <3>1
  <2>4. e.type \in Results => e.use \in Of(e.thread, Uses)'
    BY <1>2, <2>1
  <2>5. conversation'[i] = e
    BY <1>2, <1>6
  <2>6. e.use < i
    BY <1>3, <1>6, <2>1
  <2> QED BY <2>1, <2>2, <2>3, <2>4, <2>5, <2>6 DEF EntryOK, Cut
<1> QED BY <1>2, <1>4, <1>5, <1>6 DEF LogOK

\* The newest checkpoint of a thread, and what is before it.
LEMMA NewestCheckpoint ==
  ASSUME LogOK, NEW t
  PROVE  /\ Checkpoint(t).through \in Nat
         /\ Checkpoint(t).covers = {i \in Of(t, Rendered) : i <= Checkpoint(t).through}
         /\ Of(t, {"checkpoint"}) = {} => Checkpoint(t).through = 0
         /\ Of(t, {"checkpoint"}) # {} => Cut(t, Checkpoint(t).through, Checkpoint(t).covers)
<1> DEFINE all == Of(t, {"checkpoint"})
           newest == CHOOSE i \in all : \A j \in all : j <= i
<1>1. conversation \in Seq(Events) /\ all \in SUBSET Nat /\ IsFiniteSet(all) /\ all \subseteq DOMAIN conversation
      /\ Of(t, Rendered) \subseteq 1 .. Len(conversation) /\ Len(conversation) \in Nat
  BY Positions DEF LogOK
<1>2. CASE all = {}
  <2>1. Checkpoint(t) = [through |-> 0, covers |-> {}]
    BY <1>2 DEF Checkpoint
  <2>2. {i \in Of(t, Rendered) : i <= 0} = {}
    BY <1>1
  <2> QED BY <1>2, <2>1, <2>2
<1>3. CASE all # {}
  <2>1. \E i \in all : \A j \in all : j <= i
    BY <1>1, <1>3, NewestThere
  <2>2. newest \in all
    BY <2>1
  <2>3. Checkpoint(t) = [through |-> conversation[newest].through, covers |-> conversation[newest].covers]
    BY <1>3 DEF Checkpoint
  <2> HIDE DEF newest
  <2>4. EntryOK(newest) /\ conversation[newest] \in Events
    BY <1>1, <2>2, Positions DEF LogOK
  <2>5. conversation[newest].type = "checkpoint" /\ conversation[newest].thread = t
    BY <2>2 DEF Of
  <2>6. Cut(t, conversation[newest].through, conversation[newest].covers) /\ conversation[newest].through \in Nat
    BY <2>4, <2>5 DEF EntryOK, Events
  <2> QED BY <1>3, <2>3, <2>6 DEF Cut
<1> QED BY <1>2, <1>3

(***************************************************************************)
(* The steps keep the invariant.                                           *)
(***************************************************************************)
LEMMA LogSame ==
  ASSUME LogOK, UNCHANGED conversation
  PROVE  /\ LogOK'
         /\ \A t, T : Of(t, T)' = Of(t, T)
         /\ \A t, through, covers : Cut(t, through, covers) => Cut(t, through, covers)'
<1>1. \A t, T : Of(t, T)' = Of(t, T)
  BY DEF Of
<1>2. \A t, through, covers : Cut(t, through, covers)' = Cut(t, through, covers)
  BY <1>1 DEF Cut
<1>3. ASSUME NEW i \in DOMAIN conversation PROVE EntryOK(i)'
  <2>1. EntryOK(i)
    BY DEF LogOK
  <2>2. PICK o : o = conversation[i]
    OBVIOUS
  <2>3. conversation'[i] = o
    BY <2>2
  <2>4. Cut(o.thread, o.through, o.covers) => Cut(o.thread, o.through, o.covers)'
    BY <1>2
  <2>5. Of(o.thread, Uses)' = Of(o.thread, Uses)
    BY <1>1
  <2> QED BY <2>1, <2>2, <2>3, <2>4, <2>5 DEF EntryOK, Cut
<1> QED BY <1>1, <1>2, <1>3 DEF LogOK

LEMMA EntryFits ==
  ASSUME NEW type \in Kinds \ {"checkpoint"}, NEW t \in Threads, NEW use \in Nat, use <= Len(conversation),
         type \in Results => use \in Of(t, Uses)
  PROVE  Fits(Entry(type, t, use))
<1>1. Entry(type, t, use) \in Events
  BY DEF Entry, Events
<1> QED BY <1>1 DEF Entry, Fits

\* The blocks that were sent stay what they were while only clients post.
LEMMA SentKept ==
  ASSUME LogOK, SentOK, prep \in Preps, NEW e, Fits(e), Log(e), e.type # "checkpoint", UNCHANGED prep
  PROVE  SentOK'
<1> DEFINE n == Len(conversation)
<1> SUFFICES ASSUME NEW t \in Threads, t = prep.thread PROVE SentFor(t)'
  BY DEF SentOK
<1>1a. SentFor(t)
  BY DEF SentOK
<1>0. PICK u : u = prep.upto
  OBVIOUS
<1>1. conversation \in Seq(Events) /\ e \in Events /\ conversation' = Append(conversation, e)
  BY DEF LogOK, Fits, Log
<1>2. /\ Len(conversation') = n + 1
      /\ DOMAIN conversation' = DOMAIN conversation \cup {n + 1}
      /\ \A i \in DOMAIN conversation : conversation'[i] = conversation[i]
      /\ \A T : Of(t, T)' = IF e.thread = t /\ e.type \in T THEN Of(t, T) \cup {n + 1} ELSE Of(t, T)
  BY <1>1, Grows
<1>3. n \in Nat /\ DOMAIN conversation = 1 .. n /\ u \in Nat /\ u <= n /\ \A T : Of(t, T) \subseteq 1 .. n
  BY <1>1a, <1>0, <1>1, Positions DEF SentFor, Preps
<1>4. Of(t, {"checkpoint"})' = Of(t, {"checkpoint"})
  BY <1>2
<1>5. Checkpoint(t)' = Checkpoint(t)
  <2> DEFINE all == Of(t, {"checkpoint"})
             newest == CHOOSE i \in all : \A j \in all : j <= i
  <2>1. all # {} => newest \in DOMAIN conversation
    <3>1. all # {} => Cut(t, Checkpoint(t).through, Checkpoint(t).covers)
      BY NewestCheckpoint
    <3>2. all # {} => \E i \in all : \A j \in all : j <= i
      BY <1>1, NewestThere, Positions
    <3>3. all # {} => newest \in all
      BY <3>2
    <3> QED BY <3>3 DEF Of
  <2>2. all # {} => conversation'[newest] = conversation[newest]
    BY <1>2, <2>1
  <2>3. PICK m : m = newest
    OBVIOUS
  <2>4. Checkpoint(t)' = IF all = {} THEN [through |-> 0, covers |-> {}]
                         ELSE [through |-> conversation'[newest].through, covers |-> conversation'[newest].covers]
    BY <1>4 DEF Checkpoint
  <2> QED BY <2>2, <2>4 DEF Checkpoint
<1>6. PICK c : c = Checkpoint(t).through
  OBVIOUS
<1> DEFINE S == {i \in Of(t, Conversational) : i <= u /\ i > c}
           S1 == {i \in Of(t, Conversational)' : i <= u /\ i > c}
<1>7. S1 = S
  <2>1. ~(n + 1 <= u)
    BY <1>3
  <2> QED BY <1>2, <2>1
<1>8. SentBlocks(t) = IF Of(t, {"checkpoint"}) = {} THEN InOrder(S) ELSE <<SummaryBlock>> \o InOrder(S)
  BY <1>0, <1>6 DEF SentBlocks
<1>9. SentBlocks(t)' = IF Of(t, {"checkpoint"})' = {} THEN InOrder(S1) ELSE <<SummaryBlock>> \o InOrder(S1)
  <2>1. prep'.upto = u /\ Checkpoint(t)'.through = c
    BY <1>0, <1>5, <1>6
  <2> QED BY <2>1 DEF SentBlocks
<1>10. prep'.sent = SentBlocks(t)'
  BY <1>1a, <1>4, <1>7, <1>8, <1>9 DEF SentFor
<1>11. prep'.upto <= Len(conversation')
  BY <1>0, <1>2, <1>3
<1>12. (\A i \in Of(t, {"checkpoint"}) : i <= prep.upto)'
  <2>1. \A i \in Of(t, {"checkpoint"}) : i <= u
    BY <1>1a, <1>0 DEF SentFor
  <2> QED BY <1>0, <1>4, <2>1
<1>13. (Of(t, {"checkpoint"}) # {} =>
          Cardinality({m \in Of(t, {"message"}) : m > Checkpoint(t).through /\ m <= prep.upto}) >= KeepRecent)'
  <2> DEFINE old == {m \in Of(t, {"message"}) : m > c /\ m <= u}
             new == {m \in Of(t, {"message"})' : m > c /\ m <= u}
  <2>1. new = old
    <3>1. ~(n + 1 <= u)
      BY <1>3
    <3> QED BY <1>2, <3>1
  <2>2. Of(t, {"checkpoint"}) # {} => Cardinality(old) >= KeepRecent
    BY <1>1a, <1>0, <1>6 DEF SentFor
  <2>3. prep'.upto = u /\ Checkpoint(t)'.through = c
    BY <1>0, <1>5, <1>6
  <2> QED BY <1>4, <2>1, <2>2, <2>3
<1> QED BY <1>10, <1>11, <1>12, <1>13 DEF SentFor

LEMMA Frame ==
  ASSUME LogOK, UNCHANGED conversation \/ \E e : Fits(e) /\ Log(e)
  PROVE  /\ LogOK' /\ \A t, T : Of(t, T) \subseteq Of(t, T)'
         /\ \A t, covers : \A through \in Nat : Cut(t, through, covers) => Cut(t, through, covers)'
         /\ Len(conversation) \in Nat /\ Len(conversation') \in Nat /\ Len(conversation) <= Len(conversation')
<1>0. conversation \in Seq(Events) /\ Len(conversation) \in Nat
  BY DEF LogOK
<1>1. CASE UNCHANGED conversation
  BY <1>0, <1>1, LogSame
<1>2. ASSUME NEW e, Fits(e), Log(e)
      PROVE  /\ LogOK' /\ \A t, T : Of(t, T) \subseteq Of(t, T)'
             /\ \A t, covers : \A through \in Nat : Cut(t, through, covers) => Cut(t, through, covers)'
             /\ Len(conversation') = Len(conversation) + 1
  <2>1. LogOK'
    BY <1>2, LogKept
  <2>2. e \in Events /\ conversation' = Append(conversation, e)
    BY <1>2 DEF Fits, Log
  <2> QED BY <1>0, <2>1, <2>2, Grows, CutStays
<1> QED BY <1>0, <1>1, <1>2

\* The turn that is inside becomes p.
LEMMA PrepMoves ==
  ASSUME NEW p \in Preps, prep' = p,
         p.pc # "off" => p.thread \in Threads,
         p.pc = "summary" => Cut(p.thread, p.through, p.covers)',
         p.pc \in {"resolving", "tool"} => \A k \in DOMAIN p.todo : p.todo[k] \in Of(p.thread, Uses)',
         p.pc = "tool" => p.todo # << >>,
         p.pc = "model" => SentOK'
  PROVE  PrepOK'
<1>1. p.pc = "summary" => Cut(prep.thread, prep.through, prep.covers)'
  BY DEF Cut
<1>2. p.pc \in {"resolving", "tool"} => \A k \in DOMAIN prep'.todo : prep'.todo[k] \in Of(prep.thread, Uses)'
  BY DEF Of
<1> QED BY <1>1, <1>2 DEF PrepOK

\* The turn goes to a step that has nothing to hold.
LEMMA PlainMove ==
  ASSUME NEW p \in Preps, prep' = p, p.pc # "off" => p.thread \in Threads,
         p.pc \notin {"summary", "resolving", "tool", "model"}
  PROVE  PrepOK'
BY PrepMoves

LEMMA QueuedKept ==
  ASSUME QueuedOK, Len(conversation) \in Nat, Len(conversation') \in Nat, Len(conversation) <= Len(conversation'),
         UNCHANGED <<queued, kinds>>
  PROVE  QueuedOK'
BY DEF QueuedOK

LEMMA NoPrepOK == NoPrep \in Preps /\ NoPrep.pc = "off"
<1>1. << >> \in Seq(Nat) /\ "off" \in Stages /\ 0 \in Nat /\ {} \in SUBSET Nat
  BY DEF Stages
<1> QED BY <1>1 DEF NoPrep, Preps

LEMMA PostedInv ==
  ASSUME ContextInv, NEW type \in {"message", "answer", "verdict"}, NEW t \in Threads, NEW use \in Nat,
         use <= Len(conversation), type \in Results => use \in Of(t, Uses), Posted(Entry(type, t, use))
  PROVE  ContextInv'
<1> DEFINE e == Entry(type, t, use)
<1>1. Fits(e) /\ e.type # "checkpoint" /\ e.thread = t
  <2>1. type \in Kinds \ {"checkpoint"}
    BY DEF Kinds, Conversational
  <2>2. Fits(e)
    BY <2>1, EntryFits
  <2> QED BY <2>1, <2>2 DEF Entry
<1>2. Log(e) /\ queued' = [queued EXCEPT ![t] = @ + 1] /\ UNCHANGED <<kinds, prep>>
  BY <1>1 DEF Posted
<1> HIDE DEF e
<1>3. /\ LogOK' /\ \A s, T : Of(s, T) \subseteq Of(s, T)'
      /\ \A s, covers : \A through \in Nat : Cut(s, through, covers) => Cut(s, through, covers)'
  BY <1>1, <1>2, Frame DEF ContextInv
<1>4. Len(conversation') = Len(conversation) + 1 /\ Len(conversation) \in Nat
  <2>1. conversation \in Seq(Events) /\ e \in Events /\ conversation' = Append(conversation, e)
    BY <1>1, <1>2 DEF ContextInv, LogOK, Fits, Log
  <2> QED BY <2>1
<1>5. QueuedOK'
  <2>1. queued \in [Threads -> Nat] /\ kinds \subseteq Uses /\ \A s \in Threads : queued[s] <= Len(conversation)
    BY DEF ContextInv, QueuedOK
  <2>2. queued' \in [Threads -> Nat] /\ \A s \in Threads : queued'[s] <= queued[s] + 1
    BY <1>2, <2>1
  <2>3. \A s \in Threads : queued'[s] <= Len(conversation')
    BY <1>4, <2>1, <2>2
  <2> QED BY <1>2, <2>1, <2>2, <2>3 DEF QueuedOK
<1>6. PrepOK'
  <2>1. PICK p : p = prep
    OBVIOUS
  <2>2. p \in Preps /\ prep' = p /\ (p.pc # "off" => p.thread \in Threads) /\ (p.pc = "tool" => p.todo # << >>)
    BY <1>2, <2>1 DEF ContextInv, PrepOK
  <2>3. p.pc = "summary" => Cut(p.thread, p.through, p.covers)'
    <3>1. p.through \in Nat
      BY <2>2 DEF Preps
    <3>2. p.pc = "summary" => Cut(p.thread, p.through, p.covers)
      BY <2>1 DEF ContextInv, PrepOK
    <3> QED BY <1>3, <3>1, <3>2
  <2>4. p.pc \in {"resolving", "tool"} => \A k \in DOMAIN p.todo : p.todo[k] \in Of(p.thread, Uses)'
    BY <1>3, <2>1 DEF ContextInv, PrepOK
  <2>5. p.pc = "model" => SentOK'
    BY <1>1, <1>2, <2>1, <2>2, SentKept DEF ContextInv, PrepOK
  <2> QED BY <2>2, <2>3, <2>4, <2>5, PrepMoves
<1> QED BY <1>3, <1>5, <1>6 DEF ContextInv

LEMMA ClientsInv ==
  ASSUME ContextInv, NEW t \in Threads, PostMessage(t) \/ PostAnswer(t) \/ PostVerdict(t)
  PROVE  ContextInv'
<1>0. conversation \in Seq(Events) /\ Len(conversation) \in Nat
  BY DEF ContextInv, LogOK
<1>1. CASE PostMessage(t)
  <2>1. 0 \in Nat /\ 0 <= Len(conversation) /\ "message" \notin Results
    BY <1>0 DEF Results
  <2>2. Posted(Entry("message", t, 0))
    BY <1>1 DEF PostMessage
  <2> HIDE DEF ContextInv
  <2> QED BY <2>1, <2>2, PostedInv
<1>2. CASE PostAnswer(t)
  <2>1. PICK i \in Of(t, {"custom"}) : Posted(Entry("answer", t, i))
    BY <1>2 DEF PostAnswer
  <2>2. i \in Nat /\ i <= Len(conversation) /\ i \in Of(t, Uses)
    BY <1>0, <2>1 DEF Of, Uses
  <2> QED BY <2>1, <2>2, PostedInv
<1>3. CASE PostVerdict(t)
  <2>1. PICK i \in Of(t, {"asked"}) : Posted(Entry("verdict", t, i))
    BY <1>3 DEF PostVerdict
  <2>2. i \in Nat /\ i <= Len(conversation) /\ "verdict" \notin Results
    BY <1>0, <2>1 DEF Of, Results
  <2> QED BY <2>1, <2>2, PostedInv
<1> QED BY <1>1, <1>2, <1>3

LEMMA EnterTurnInv == ASSUME ContextInv, NEW t \in Threads, EnterTurn(t) PROVE ContextInv'
<1> DEFINE p == [NoPrep EXCEPT !.pc = "compact", !.thread = t]
<1>0. LogOK' /\ Len(conversation) \in Nat
  BY Frame DEF ContextInv, EnterTurn
<1>1. p \in Preps /\ p.pc = "compact" /\ p.thread = t
  <2>1. "compact" \in Stages /\ t \in Threads \cup {""}
    BY DEF Stages
  <2> QED BY <2>1, NoPrepOK DEF Preps
<1>2. prep' = p
  BY DEF EnterTurn
<1> HIDE DEF p
<1>3. PrepOK'
  BY <1>1, <1>2, PlainMove
<1>4. QueuedOK'
  <2>1. queued \in [Threads -> Nat] /\ kinds \subseteq Uses /\ \A s \in Threads : queued[s] <= Len(conversation)
    BY DEF ContextInv, QueuedOK
  <2>2. queued[t] > 0 /\ queued' = [queued EXCEPT ![t] = @ - 1] /\ UNCHANGED <<conversation, kinds>>
    BY DEF EnterTurn
  <2>3. queued' \in [Threads -> Nat] /\ \A s \in Threads : queued'[s] <= queued[s]
    BY <2>1, <2>2
  <2>4. \A s \in Threads : queued'[s] <= Len(conversation')
    BY <1>0, <2>1, <2>2, <2>3
  <2> QED BY <2>1, <2>2, <2>3, <2>4 DEF QueuedOK
<1> QED BY <1>0, <1>3, <1>4 DEF ContextInv

\* The steps that only say how far the turn is.
LEMMA GoesInv ==
  ASSUME ContextInv, NEW pc \in {"resolve", "build"}, Goes(pc), prep.pc # "off", UNCHANGED <<conversation, queued, kinds>>
  PROVE  ContextInv'
<1> DEFINE p == [prep EXCEPT !.pc = pc]
<1>1. prep \in Preps /\ prep.thread \in Threads /\ pc \in Stages
  BY DEF ContextInv, PrepOK, Stages
<1>2. p \in Preps /\ p.pc = pc /\ p.thread = prep.thread
  BY <1>1 DEF Preps
<1>3. prep' = p
  BY DEF Goes
<1> HIDE DEF p
<1>4. PrepOK'
  BY <1>1, <1>2, <1>3, PlainMove
<1> QED BY <1>4, Frame, QueuedKept DEF ContextInv

LEMMA NoCheckpointInv == ASSUME ContextInv, NoCheckpoint PROVE ContextInv'
BY GoesInv DEF NoCheckpoint

LEMMA AllResolvedInv == ASSUME ContextInv, AllResolved PROVE ContextInv'
BY GoesInv DEF AllResolved, Inside

LEMMA LeaveTurnInv == ASSUME ContextInv, LeaveTurn PROVE ContextInv'
<1>1. PrepOK'
  BY NoPrepOK, PlainMove DEF LeaveTurn
<1> QED BY <1>1, Frame, QueuedKept DEF ContextInv, LeaveTurn

\* A turn that publishes an event and holds nothing, or the calls in todo, after it.
LEMMA PublishInv ==
  ASSUME ContextInv, NEW e, Fits(e), Log(e), NEW p \in Preps, prep' = p, UNCHANGED <<queued, kinds>>,
         p.pc # "off" => p.thread \in Threads, p.pc \notin {"summary", "model"},
         p.pc \in {"resolving", "tool"} => \A k \in DOMAIN p.todo : p.todo[k] \in Of(p.thread, Uses)',
         p.pc = "tool" => p.todo # << >>
  PROVE  ContextInv'
<1>1. LogOK' /\ Len(conversation) \in Nat /\ Len(conversation') \in Nat /\ Len(conversation) <= Len(conversation')
  BY Frame DEF ContextInv
<1>2. PrepOK'
  BY PrepMoves
<1>3. QueuedOK'
  BY <1>1, QueuedKept DEF ContextInv
<1> QED BY <1>1, <1>2, <1>3 DEF ContextInv

LEMMA ListHistoryInv == ASSUME ContextInv, ListHistory PROVE ContextInv'
<1> DEFINE t == prep.thread
           prior == Checkpoint(t)
           B == {i \in Of(t, {"message"}) : i > prior.through}
           keepFrom == Oldest(Recent(B))
           covers == Material(prior, keepFrom)
           p == [prep EXCEPT !.pc = "summary", !.through = keepFrom - 1, !.covers = covers]
<1>0. LogOK /\ prep \in Preps /\ t \in Threads /\ conversation \in Seq(Events) /\ Len(conversation) \in Nat
  BY DEF ContextInv, PrepOK, ListHistory, Inside, LogOK
<1>1. prep' = p /\ Cardinality(B) >= KeepRecent + 1 /\ UNCHANGED <<conversation, queued, kinds>>
  BY DEF ListHistory
<1>2. prior.through \in Nat /\ prior.covers = {i \in Of(t, Rendered) : i <= prior.through}
  BY <1>0, NewestCheckpoint
<1>3. /\ Of(t, {"message"}) \in SUBSET Nat /\ IsFiniteSet(Of(t, {"message"})) /\ Of(t, Rendered) \in SUBSET Nat
      /\ Of(t, {"message"}) \subseteq 1 .. Len(conversation)
  BY <1>0, Positions
<1>4. B \in SUBSET Nat /\ IsFiniteSet(B) /\ B \subseteq Of(t, {"message"}) /\ B \subseteq 1 .. Len(conversation)
  <2>1. B \in SUBSET Of(t, {"message"})
    OBVIOUS
  <2> QED BY <1>3, <2>1, FS_Subset
<1> HIDE DEF prior
<1>5. keepFrom \in B /\ Cardinality({m \in B : m >= keepFrom}) >= KeepRecent
  BY <1>1, <1>4, KeepsRecent
<1>6. keepFrom \in Nat \ {0} /\ keepFrom > prior.through /\ keepFrom \in Of(t, {"message"})
  <2>1. keepFrom \in 1 .. Len(conversation) /\ keepFrom \in Of(t, {"message"})
    BY <1>4, <1>5
  <2>2. keepFrom > prior.through
    BY <1>5
  <2> QED BY <1>0, <2>1, <2>2
<1> HIDE DEF keepFrom
<1>7. covers = {i \in Of(t, Rendered) : i <= keepFrom - 1}
  <2>1. covers = prior.covers \cup {i \in Of(t, Rendered) : prior.through < i /\ i < keepFrom}
    BY DEF Material
  <2>2. \A i \in Of(t, Rendered) :
          (i <= prior.through \/ (prior.through < i /\ i < keepFrom)) <=> i <= keepFrom - 1
    BY <1>2, <1>3, <1>6
  <2> QED BY <1>2, <2>1, <2>2
<1>8. {m \in B : m >= keepFrom} = {m \in Of(t, {"message"}) : m > keepFrom - 1}
  <2>1. \A m \in Of(t, {"message"}) : (m > prior.through /\ m >= keepFrom) <=> m > keepFrom - 1
    BY <1>2, <1>3, <1>6
  <2> QED BY <2>1
<1>9. Cut(t, keepFrom - 1, covers)
  <2>1. keepFrom - 1 + 1 = keepFrom
    BY <1>6
  <2> QED BY <1>5, <1>6, <1>7, <1>8, <2>1 DEF Cut
<1>10. p \in Preps /\ p.pc = "summary" /\ p.thread = t /\ p.through = keepFrom - 1 /\ p.covers = covers
  <2>1. keepFrom - 1 \in Nat /\ covers \in SUBSET Nat /\ "summary" \in Stages
    BY <1>3, <1>6, <1>7 DEF Stages
  <2> HIDE DEF covers
  <2> QED BY <1>0, <2>1 DEF Preps
<1>12. PrepOK'
  <2>1. PICK q, s, th, cv : q = p /\ s = t /\ th = keepFrom - 1 /\ cv = covers
    OBVIOUS
  <2>2. Cut(s, th, cv)'
    BY <1>0, <1>1, <1>9, <2>1, LogSame
  <2>3. q.thread = s /\ q.through = th /\ q.covers = cv
    BY <1>10, <2>1
  <2>4. Cut(q.thread, q.through, q.covers)'
    BY <2>2, <2>3 DEF Cut
  <2> QED BY <1>0, <1>1, <1>10, <2>1, <2>4, PrepMoves
<1> QED BY <1>0, <1>1, <1>12, Frame, QueuedKept DEF ContextInv

LEMMA PublishCheckpointInv == ASSUME ContextInv, PublishCheckpoint PROVE ContextInv'
<1> DEFINE e == [Entry("checkpoint", prep.thread, 0) EXCEPT !.through = prep.through, !.covers = prep.covers]
           p == [prep EXCEPT !.pc = "resolve"]
<1>0. prep \in Preps /\ prep.thread \in Threads /\ Len(conversation) \in Nat
  BY DEF ContextInv, PrepOK, PublishCheckpoint, Inside, LogOK
<1>1. /\ e \in Events /\ e.type = "checkpoint" /\ e.thread = prep.thread /\ e.use = 0
      /\ e.through = prep.through /\ e.covers = prep.covers
  <2> DEFINE b == Entry("checkpoint", prep.thread, 0)
  <2>1. b \in Events /\ b.type = "checkpoint" /\ b.thread = prep.thread /\ b.use = 0
    BY <1>0 DEF Entry, Events, Kinds
  <2>2. prep.through \in Nat /\ prep.covers \in SUBSET Nat
    BY <1>0 DEF Preps
  <2> HIDE DEF b
  <2>3. e = [b EXCEPT !.through = prep.through, !.covers = prep.covers]
    BY DEF b
  <2> HIDE DEF e
  <2> QED BY <2>1, <2>2, <2>3 DEF Events
<1>2. Fits(e)
  <2> HIDE DEF e
  <2>1. "checkpoint" \in Kinds /\ "checkpoint" \notin Results
    BY DEF Kinds, Results
  <2>2. e \in Events
    BY <1>1
  <2>3. Cut(prep.thread, prep.through, prep.covers)
    BY DEF ContextInv, PrepOK, PublishCheckpoint, Inside
  <2> QED BY <1>0, <1>1, <2>1, <2>2, <2>3 DEF Fits
<1>3. Log(e) /\ prep' = p /\ UNCHANGED <<queued, kinds>>
  BY DEF PublishCheckpoint, Goes
<1>4. p \in Preps /\ p.pc = "resolve" /\ p.thread = prep.thread
  <2>1. "resolve" \in Stages
    BY DEF Stages
  <2> QED BY <1>0, <2>1 DEF Preps
<1> HIDE DEF e, p
<1> QED BY <1>0, <1>2, <1>3, <1>4, PublishInv

LEMMA ListConfirmedInv == ASSUME ContextInv, ListConfirmed PROVE ContextInv'
<1> DEFINE waiting == {i \in Of(prep.thread, {"asked"}) : Waits(i, "result") /\ ~Waits(i, "verdict")}
           l == InOrder(waiting)
           p == [prep EXCEPT !.pc = "resolving", !.todo = l]
<1>0. prep \in Preps /\ prep.thread \in Threads /\ conversation \in Seq(Events) /\ Len(conversation) \in Nat /\ LogOK
  BY DEF ContextInv, PrepOK, ListConfirmed, Inside, LogOK
<1>1. prep' = p /\ UNCHANGED <<conversation, queued, kinds>>
  BY DEF ListConfirmed
<1>2. waiting \in SUBSET Nat /\ IsFiniteSet(waiting) /\ waiting \subseteq Of(prep.thread, Uses)
  <2>1. waiting \in SUBSET Of(prep.thread, {"asked"}) /\ Of(prep.thread, {"asked"}) \subseteq Of(prep.thread, Uses)
    BY DEF Of, Uses
  <2> HIDE DEF waiting
  <2> QED BY <1>0, <2>1, Positions, FS_Subset
<1> HIDE DEF waiting
<1>3. l \in Seq(waiting) /\ l \in Seq(Nat)
  BY <1>2, Enumerates, ListOf
<1> HIDE DEF l
<1>4. p \in Preps /\ p.pc = "resolving" /\ p.thread = prep.thread /\ p.todo = l
  <2>1. "resolving" \in Stages
    BY DEF Stages
  <2> QED BY <1>0, <1>3, <2>1 DEF Preps
<1>5. \A k \in DOMAIN l : l[k] \in Of(prep.thread, Uses)
  BY <1>2, <1>3
<1>6. PrepOK'
  <2>1. PICK q : q = p
    OBVIOUS
  <2>2. \A t : Of(t, Uses)' = Of(t, Uses)
    BY <1>0, <1>1, LogSame
  <2>3. \A k \in DOMAIN q.todo : q.todo[k] \in Of(q.thread, Uses)
    BY <1>4, <1>5, <2>1
  <2>4. \A k \in DOMAIN q.todo : q.todo[k] \in Of(q.thread, Uses)'
    BY <2>2, <2>3
  <2> QED BY <1>0, <1>1, <1>4, <2>1, <2>4, PrepMoves
<1> QED BY <1>0, <1>1, <1>6, Frame, QueuedKept DEF ContextInv

LEMMA PublishResolvedInv == ASSUME ContextInv, PublishResolved PROVE ContextInv'
<1> DEFINE use == Head(prep.todo)
           e == Entry("result", prep.thread, use)
           rest == Tail(prep.todo)
           p == [prep EXCEPT !.todo = rest]
<1>0. /\ prep \in Preps /\ prep.thread \in Threads /\ conversation \in Seq(Events) /\ Len(conversation) \in Nat /\ LogOK
      /\ prep.pc = "resolving" /\ prep.todo \in Seq(Nat) /\ prep.todo # << >>
      /\ \A k \in DOMAIN prep.todo : prep.todo[k] \in Of(prep.thread, Uses)
  <2>1. prep.pc = "resolving" /\ prep.todo # << >>
    BY DEF PublishResolved, Inside
  <2>2. PrepOK /\ LogOK
    BY DEF ContextInv
  <2>3. \A k \in DOMAIN prep.todo : prep.todo[k] \in Of(prep.thread, Uses)
    BY <2>1, <2>2 DEF PrepOK
  <2>4. prep \in Preps /\ prep.thread \in Threads /\ prep.todo \in Seq(Nat)
    BY <2>1, <2>2 DEF PrepOK, Preps
  <2> QED BY <2>1, <2>2, <2>3, <2>4 DEF LogOK
<1>1. Log(e) /\ prep' = p /\ UNCHANGED <<queued, kinds>>
  BY DEF PublishResolved
<1>2. PICK todo : todo = prep.todo
  OBVIOUS
<1>3. /\ use = todo[1] /\ 1 \in DOMAIN todo /\ rest \in Seq(Nat)
      /\ \A k \in DOMAIN rest : k + 1 \in DOMAIN todo /\ rest[k] = todo[k + 1]
  BY <1>0, <1>2
<1>4. use \in Nat /\ use \in Of(prep.thread, Uses) /\ use <= Len(conversation)
  <2>1. use \in Of(prep.thread, Uses)
    BY <1>0, <1>2, <1>3
  <2> HIDE DEF use
  <2> QED BY <1>0, <2>1 DEF Of
<1>5. Fits(e)
  <2>1. "result" \in Kinds \ {"checkpoint"}
    BY DEF Kinds, Conversational
  <2> HIDE DEF use
  <2> QED BY <1>0, <1>4, <2>1, EntryFits
<1> HIDE DEF use, rest, e
<1>6. p \in Preps /\ p.pc = "resolving" /\ p.thread = prep.thread /\ p.todo = rest
  BY <1>0, <1>3 DEF Preps
<1>7. \A t : Of(t, Uses) \subseteq Of(t, Uses)'
  BY <1>0, <1>1, <1>5, Frame
<1>8. \A k \in DOMAIN rest : rest[k] \in Of(prep.thread, Uses)
  BY <1>0, <1>2, <1>3
<1>9. PICK q : q = p
  OBVIOUS
<1>10. \A k \in DOMAIN q.todo : q.todo[k] \in Of(q.thread, Uses)'
  <2>1. \A k \in DOMAIN q.todo : q.todo[k] \in Of(q.thread, Uses)
    BY <1>6, <1>8, <1>9
  <2> QED BY <1>7, <2>1
<1>11. q \in Preps /\ q.pc = "resolving" /\ q.thread \in Threads /\ prep' = q
  BY <1>0, <1>1, <1>6, <1>9
<1> QED BY <1>1, <1>5, <1>10, <1>11, PublishInv

LEMMA PublishTextInv == ASSUME ContextInv, PublishText PROVE ContextInv'
<1> DEFINE e == Entry("text", prep.thread, 0)
           p == [prep EXCEPT !.pc = "said", !.upto = 0, !.sent = << >>]
<1>0. prep \in Preps /\ prep.thread \in Threads /\ Len(conversation) \in Nat
  BY DEF ContextInv, PrepOK, PublishText, Inside, LogOK
<1>1. Log(e) /\ prep' = p /\ UNCHANGED <<queued, kinds>>
  BY DEF PublishText, Replied
<1>2. Fits(e)
  <2>1. "text" \in Kinds \ {"checkpoint"} /\ "text" \notin Results /\ 0 <= Len(conversation)
    BY <1>0 DEF Kinds, Conversational, Results
  <2> QED BY <1>0, <2>1, EntryFits
<1>3. p \in Preps /\ p.pc = "said" /\ p.thread = prep.thread
  <2>1. "said" \in Stages /\ << >> \in Seq(Nat)
    BY DEF Stages
  <2> QED BY <1>0, <2>1 DEF Preps
<1> HIDE DEF e, p
<1> QED BY <1>0, <1>1, <1>2, <1>3, PublishInv

LEMMA PublishToolUseInv == ASSUME ContextInv, PublishToolUse PROVE ContextInv'
<1> DEFINE n == Len(conversation)
           p == [prep EXCEPT !.pc = "tool", !.upto = 0, !.sent = << >>, !.todo = <<n + 1>>]
<1>0. /\ prep \in Preps /\ prep.thread \in Threads /\ n \in Nat /\ conversation \in Seq(Events) /\ kinds \subseteq Uses
  BY DEF ContextInv, PrepOK, PublishToolUse, LogOK, QueuedOK
<1>1. PICK kind \in kinds :
        /\ Log(Entry(kind, prep.thread, 0))
        /\ prep' = (IF kind \in {"asked", "custom"} THEN NoPrep ELSE p)
  BY DEF PublishToolUse
<1>2. UNCHANGED <<queued, kinds>>
  BY DEF PublishToolUse
<1> DEFINE e == Entry(kind, prep.thread, 0)
<1>3. Fits(e) /\ e.thread = prep.thread /\ e.type \in Uses
  <2>1. kind \in Kinds \ {"checkpoint"} /\ kind \notin Results /\ 0 <= n /\ kind \in Uses
    BY <1>0 DEF Kinds, Conversational, Results, Uses
  <2>2. Fits(e)
    BY <1>0, <2>1, EntryFits
  <2> QED BY <2>1, <2>2 DEF Entry
<1>4. p \in Preps /\ p.pc = "tool" /\ p.thread = prep.thread /\ p.todo = <<n + 1>>
  <2>1. "tool" \in Stages /\ << >> \in Seq(Nat) /\ <<n + 1>> \in Seq(Nat)
    BY <1>0 DEF Stages
  <2> QED BY <1>0, <2>1 DEF Preps
<1>5. \A t : e.thread = t => n + 1 \in Of(t, Uses)'
  <2>1. e \in Events /\ conversation' = Append(conversation, e)
    BY <1>1, <1>3 DEF Fits, Log
  <2> QED BY <1>0, <1>3, <2>1, Grows
<1> HIDE DEF p, e
<1>6. CASE kind \in {"asked", "custom"}
  <2>1. prep' = NoPrep
    BY <1>1, <1>6
  <2> QED BY <1>1, <1>2, <1>3, <2>1, NoPrepOK, PublishInv DEF e
<1>7. CASE kind \notin {"asked", "custom"}
  <2>1. PICK q : q = p
    OBVIOUS
  <2>2. \A k \in DOMAIN q.todo : q.todo[k] \in Of(q.thread, Uses)'
    BY <1>3, <1>4, <1>5, <2>1
  <2>3. prep' = q
    BY <1>1, <1>7, <2>1
  <2>4. q \in Preps /\ q.pc = "tool" /\ q.thread \in Threads /\ q.todo # << >>
    <3>1. <<n + 1>> # << >>
      OBVIOUS
    <3> HIDE DEF n
    <3> QED BY <1>0, <1>4, <2>1, <3>1
  <2> QED BY <1>1, <1>2, <1>3, <2>2, <2>3, <2>4, PublishInv DEF e
<1> QED BY <1>6, <1>7

LEMMA PublishResultInv == ASSUME ContextInv, PublishResult PROVE ContextInv'
<1> DEFINE use == Head(prep.todo)
           type == IF conversation[use].type = "mcp" THEN "mcpResult" ELSE "result"
<1>0. /\ prep \in Preps /\ prep.thread \in Threads /\ conversation \in Seq(Events) /\ Len(conversation) \in Nat
      /\ prep.todo \in Seq(Nat) /\ prep.todo # << >>
      /\ \A k \in DOMAIN prep.todo : prep.todo[k] \in Of(prep.thread, Uses)
  <2>1. prep.pc = "tool"
    BY DEF PublishResult, Inside
  <2>2. PrepOK /\ LogOK
    BY DEF ContextInv
  <2>3. prep.todo # << >> /\ \A k \in DOMAIN prep.todo : prep.todo[k] \in Of(prep.thread, Uses)
    BY <2>1, <2>2 DEF PrepOK
  <2>4. prep \in Preps /\ prep.thread \in Threads /\ prep.todo \in Seq(Nat)
    BY <2>1, <2>2 DEF PrepOK, Preps
  <2> QED BY <2>2, <2>3, <2>4 DEF LogOK
<1>1. Log(Entry(type, prep.thread, use)) /\ UNCHANGED <<queued, kinds>>
  BY DEF PublishResult
<1>2. PICK pc \in {"said", "build"} : prep' = [prep EXCEPT !.pc = pc, !.todo = << >>]
  BY DEF PublishResult
<1>3. use \in Of(prep.thread, Uses) /\ use \in Nat /\ use <= Len(conversation)
  <2>1. use \in Of(prep.thread, Uses)
    BY <1>0
  <2> HIDE DEF use
  <2> QED BY <1>0, <2>1 DEF Of
<1>4. type \in Kinds \ {"checkpoint"}
  BY DEF Kinds, Conversational
<1> HIDE DEF use, type
<1>5. Fits(Entry(type, prep.thread, use))
  BY <1>0, <1>3, <1>4, EntryFits
<1> DEFINE p == [prep EXCEPT !.pc = pc, !.todo = << >>]
<1>6. p \in Preps /\ p.pc = pc /\ p.thread = prep.thread
  <2>1. pc \in Stages /\ << >> \in Seq(Nat)
    BY DEF Stages
  <2> QED BY <1>0, <2>1 DEF Preps
<1> HIDE DEF p
<1>7. prep' = p
  BY <1>2 DEF p
<1> QED BY <1>0, <1>1, <1>5, <1>6, <1>7, PublishInv

LEMMA InFront ==
  ASSUME NEW S, NEW l \in Seq(S), NEW e
  PROVE  InsertAt(l, 1, e) = <<e>> \o l
<1>1. SubSeq(l, 1, 0) = << >> /\ SubSeq(l, 1, Len(l)) = l
  OBVIOUS
<1>2. InsertAt(l, 1, e) = SubSeq(l, 1, 1 - 1) \o <<e>> \o SubSeq(l, 1, Len(l))
  BY DEF InsertAt
<1>3. 1 - 1 = 0
  OBVIOUS
<1>4. InsertAt(l, 1, e) = << >> \o <<e>> \o l
  BY <1>1, <1>2, <1>3
<1>5. << >> \o <<e>> = <<e>>
  OBVIOUS
<1> QED BY <1>4, <1>5

\* The summary comes first: what is kept after a checkpoint begins with a message.
LEMMA BlocksOf ==
  ASSUME LogOK, NEW t
  PROVE  LET kept == InOrder({i \in Of(t, Conversational) : i > Checkpoint(t).through})
         IN Blocks(t) = IF Of(t, {"checkpoint"}) = {} THEN kept ELSE <<SummaryBlock>> \o kept
<1> DEFINE after == Checkpoint(t).through
           S == {i \in Of(t, Conversational) : i > after}
           kept == InOrder(S)
           I == {k \in 1 .. Len(kept) : conversation[kept[k]].type = "message"}
           first == SelectInSeq(kept, LAMBDA i : conversation[i].type = "message")
<1>1. Blocks(t) = IF Of(t, {"checkpoint"}) = {} \/ first = 0 THEN kept ELSE InsertAt(kept, first, SummaryBlock)
  BY DEF Blocks
<1>2. SUFFICES Of(t, {"checkpoint"}) # {} => first = 1 /\ InsertAt(kept, 1, SummaryBlock) = <<SummaryBlock>> \o kept
  <2> HIDE DEF first
  <2>1. CASE Of(t, {"checkpoint"}) = {}
    BY <1>1, <2>1
  <2>2. CASE Of(t, {"checkpoint"}) # {}
    <3>1. first = 1 /\ first # 0 /\ InsertAt(kept, first, SummaryBlock) = <<SummaryBlock>> \o kept
      BY <1>2, <2>2
    <3> QED BY <1>1, <2>2, <3>1
  <2> QED BY <2>1, <2>2
<1>2a. SUFFICES ASSUME Of(t, {"checkpoint"}) # {} PROVE first = 1 /\ InsertAt(kept, 1, SummaryBlock) = <<SummaryBlock>> \o kept
  OBVIOUS
<1>3. after \in Nat /\ after + 1 \in Of(t, {"message"})
  BY <1>2a, NewestCheckpoint DEF Cut
<1>4. S \in SUBSET Nat /\ IsFiniteSet(S)
  <2>1. S \in SUBSET Of(t, Conversational)
    OBVIOUS
  <2>2. Of(t, Conversational) \in SUBSET Nat /\ IsFiniteSet(Of(t, Conversational))
    BY Positions DEF LogOK
  <2> QED BY <2>1, <2>2, FS_Subset
<1>5. after + 1 \in S /\ conversation[after + 1].type = "message"
  <2>1. after + 1 > after
    BY <1>3
  <2>2. after + 1 \in Of(t, Conversational)
    BY <1>3 DEF Of, Conversational
  <2> QED BY <1>3, <2>1, <2>2 DEF Of
<1>6. /\ kept \in Seq(S) /\ {kept[k] : k \in DOMAIN kept} = S
      /\ \A j, k \in DOMAIN kept : j < k => kept[j] < kept[k]
  BY <1>4, Enumerates
<1>7. \A i \in S : i >= after + 1
  BY <1>3, <1>4
<1> HIDE DEF S, kept, after
<1>8. 1 \in DOMAIN kept /\ kept[1] = after + 1
  <2>1. PICK k \in DOMAIN kept : kept[k] = after + 1
    BY <1>5, <1>6
  <2>2. DOMAIN kept = 1 .. Len(kept) /\ Len(kept) \in Nat
    BY <1>6
  <2>3. 1 \in DOMAIN kept /\ kept[1] \in S
    BY <1>6, <2>1, <2>2
  <2>4. CASE k = 1
    BY <2>1, <2>3, <2>4
  <2>5. CASE k # 1
    <3>1. kept[1] < after + 1
      BY <1>6, <2>1, <2>2, <2>3, <2>5
    <3>2. kept[1] \in Nat /\ kept[1] >= after + 1
      BY <1>4, <1>7, <2>3
    <3> QED BY <1>3, <3>1, <3>2
  <2> QED BY <2>4, <2>5
<1>9. first = 1
  <2>1. 1 \in I /\ I \in SUBSET Nat /\ \A k \in I : 1 <= k
    BY <1>5, <1>6, <1>8
  <2>2. first = IF I # {} THEN Min(I) ELSE 0
    BY DEF SelectInSeq, Min
  <2> HIDE DEF I, first
  <2>3. Min(I) = 1
    <3>1. Min(I) \in I /\ \A k \in I : Min(I) <= k
      BY <2>1 DEF Min
    <3>2. Min(I) <= 1 /\ 1 <= Min(I) /\ Min(I) \in Nat
      BY <2>1, <3>1
    <3> QED BY <3>2
  <2> QED BY <2>1, <2>2, <2>3
<1> QED BY <1>6, <1>9, InFront

LEMMA BuildMessagesInv == ASSUME ContextInv, BuildMessages PROVE ContextInv'
<1> DEFINE t == prep.thread
           n == Len(conversation)
           blocks == Blocks(t)
           S == {i \in Of(t, Conversational) : i > Checkpoint(t).through}
           p == [prep EXCEPT !.pc = "model", !.upto = n, !.sent = blocks]
<1>0. prep \in Preps /\ t \in Threads /\ conversation \in Seq(Events) /\ n \in Nat /\ LogOK
  BY DEF ContextInv, PrepOK, BuildMessages, Inside, LogOK
<1>1. prep' = p /\ UNCHANGED <<conversation, queued, kinds>>
  BY DEF BuildMessages
<1>2. S \in SUBSET Nat /\ IsFiniteSet(S) /\ S \subseteq 1 .. n
  <2>1. S \in SUBSET Of(t, Conversational)
    OBVIOUS
  <2> QED BY <1>0, <2>1, Positions, FS_Subset
<1>3. blocks = IF Of(t, {"checkpoint"}) = {} THEN InOrder(S) ELSE <<SummaryBlock>> \o InOrder(S)
  BY <1>0, BlocksOf
<1>4. blocks \in Seq(Nat)
  <2> DEFINE l == InOrder(S)
  <2>1. l \in Seq(Nat)
    BY <1>2, Enumerates, ListOf
  <2> HIDE DEF l, S
  <2>2. <<SummaryBlock>> \in Seq(Nat)
    BY DEF SummaryBlock
  <2>3. <<SummaryBlock>> \o l \in Seq(Nat)
    BY <2>1, <2>2
  <2> QED BY <1>3, <2>1, <2>3 DEF l
<1> HIDE DEF blocks
<1>5. p \in Preps /\ p.pc = "model" /\ p.thread = t /\ p.upto = n /\ p.sent = blocks
  <2>1. "model" \in Stages
    BY DEF Stages
  <2> QED BY <1>0, <1>4, <2>1 DEF Preps
<1>6. PICK q, s, m, b : q = p /\ s = t /\ m = n /\ b = blocks
  OBVIOUS
<1>7. SentFor(s)'
  <2>1. prep'.upto = m /\ prep'.sent = b /\ Len(conversation') = m
    BY <1>1, <1>5, <1>6
  <2>2. /\ Of(s, {"checkpoint"})' = Of(s, {"checkpoint"}) /\ Of(s, {"checkpoint"}) \subseteq 1 .. m
        /\ Of(s, Conversational)' = Of(s, Conversational) /\ Of(s, Conversational) \subseteq 1 .. m
    BY <1>0, <1>1, <1>6, LogSame, Positions
  <2>3. Checkpoint(s)' = Checkpoint(s)
    BY <1>1 DEF Checkpoint, Of
  <2>4. PICK c : c = Checkpoint(s).through
    OBVIOUS
  <2> DEFINE S1 == {i \in Of(s, Conversational)' : i <= m /\ i > c}
  <2>5. SentBlocks(s)' = IF Of(s, {"checkpoint"})' = {} THEN InOrder(S1) ELSE <<SummaryBlock>> \o InOrder(S1)
    <3>1. Checkpoint(s)'.through = c
      BY <2>3, <2>4
    <3> QED BY <2>1, <3>1 DEF SentBlocks
  <2>6. S1 = S
    <3>1. \A i \in Of(s, Conversational) : i <= m
      BY <2>2, <1>0, <1>6
    <3> QED BY <1>6, <2>2, <2>4, <3>1
  <2>7. \A i \in Of(s, {"checkpoint"}) : i <= m
    BY <2>2, <1>0, <1>6
  <2>8. prep'.sent = SentBlocks(s)'
    BY <1>3, <1>6, <2>1, <2>2, <2>5, <2>6
  <2>9. (\A i \in Of(s, {"checkpoint"}) : i <= prep.upto)'
    BY <2>1, <2>2, <2>7
  <2>10. prep'.upto <= Len(conversation')
    BY <1>0, <1>6, <2>1
  <2>11. (Of(s, {"checkpoint"}) # {} =>
            Cardinality({k \in Of(s, {"message"}) : k > Checkpoint(s).through /\ k <= prep.upto}) >= KeepRecent)'
    <3>1. Of(s, {"message"})' = Of(s, {"message"}) /\ Of(s, {"message"}) \subseteq 1 .. m
      BY <1>0, <1>1, <1>6, LogSame, Positions
    <3> DEFINE old == {k \in Of(s, {"message"}) : k > c}
               new == {k \in Of(s, {"message"})' : k > c /\ k <= m}
    <3>2. new = old
      <4>1. \A k \in Of(s, {"message"}) : k <= m
        BY <3>1, <1>0, <1>6
      <4> QED BY <3>1, <4>1
    <3>3. Of(s, {"checkpoint"}) # {} => Cardinality(old) >= KeepRecent
      BY <1>0, <2>4, NewestCheckpoint DEF Cut
    <3>4. Checkpoint(s)'.through = c
      BY <2>3, <2>4
    <3> QED BY <2>1, <2>2, <3>2, <3>3, <3>4
  <2> QED BY <2>8, <2>9, <2>10, <2>11 DEF SentFor
<1>8. SentOK'
  <2>1. prep'.thread = s
    BY <1>1, <1>5, <1>6
  <2> QED BY <1>7, <2>1 DEF SentOK
<1>9. PrepOK'
  BY <1>0, <1>1, <1>5, <1>6, <1>8, PrepMoves
<1> QED BY <1>0, <1>1, <1>9, Frame, QueuedKept DEF ContextInv

(***************************************************************************)
(* The theorems about conversations.                                       *)
(***************************************************************************)
LEMMA ContextStart == ASSUME NEW tools \in SUBSET Uses, ContextInit(tools) PROVE ContextInv
<1>1. conversation = << >> /\ queued = [t \in Threads |-> 0] /\ kinds = tools /\ prep = NoPrep
  BY DEF ContextInit
<1>2. LogOK
  <2>1. Len(conversation) = 0 /\ conversation \in Seq(Events) /\ DOMAIN conversation = {}
    BY <1>1
  <2> QED BY <2>1, CompactionAssumption DEF LogOK
<1>3. PrepOK
  BY <1>1, NoPrepOK DEF PrepOK
<1>4. QueuedOK
  BY <1>1 DEF QueuedOK
<1> QED BY <1>2, <1>3, <1>4 DEF ContextInv

LEMMA ContextNext == ContextInv /\ [ContextStep]_contextVars => ContextInv'
<1> SUFFICES ASSUME ContextInv, [ContextStep]_contextVars PROVE ContextInv'
  OBVIOUS
<1>1. ASSUME NEW t \in Threads, PostMessage(t) \/ PostAnswer(t) \/ PostVerdict(t) \/ EnterTurn(t) PROVE ContextInv'
  BY <1>1, ClientsInv, EnterTurnInv
<1>2. CASE UNCHANGED contextVars
  <2>1. UNCHANGED <<conversation, queued, kinds>> /\ prep' = prep
    BY <1>2 DEF contextVars
  <2>2. LogOK' /\ QueuedOK'
    BY <2>1, Frame, QueuedKept DEF ContextInv
  <2>3. PrepOK'
    <3>1. Of(prep.thread, Uses)' = Of(prep.thread, Uses) /\ (Cut(prep.thread, prep.through, prep.covers) <=> Cut(prep.thread, prep.through, prep.covers)')
      BY <2>1 DEF Cut, Of
    <3>2. SentOK => SentOK'
      <4>1. ASSUME NEW t, SentFor(t) PROVE SentFor(t)'
        <5>1. \A T : Of(t, T)' = Of(t, T)
          BY <2>1 DEF Of
        <5>2. Checkpoint(t)' = Checkpoint(t)
          BY <2>1 DEF Checkpoint, Of
        <5>3. SentBlocks(t)' = SentBlocks(t)
          BY <2>1, <5>1, <5>2 DEF SentBlocks
        <5>4. {m \in Of(t, {"message"}) : m > Checkpoint(t).through /\ m <= prep.upto}' =
                {m \in Of(t, {"message"}) : m > Checkpoint(t).through /\ m <= prep.upto}
          BY <2>1, <5>1, <5>2
        <5>5. (\A i \in Of(t, {"checkpoint"}) : i <= prep.upto)' = \A i \in Of(t, {"checkpoint"}) : i <= prep.upto
          BY <2>1, <5>1
        <5>6. Of(t, {"checkpoint"})' # {} => Cardinality({m \in Of(t, {"message"}) : m > Checkpoint(t).through /\ m <= prep.upto}') >= KeepRecent
          BY <4>1, <5>1, <5>4 DEF SentFor
        <5>7. prep'.sent = SentBlocks(t)' /\ prep'.upto <= Len(conversation')
          BY <2>1, <4>1, <5>3 DEF SentFor
        <5>8. (\A i \in Of(t, {"checkpoint"}) : i <= prep.upto)'
          BY <4>1, <5>5 DEF SentFor
        <5> QED BY <5>6, <5>7, <5>8 DEF SentFor
      <4> QED BY <2>1, <4>1 DEF SentOK
    <3> QED BY <2>1, <3>1, <3>2 DEF ContextInv, PrepOK
  <2> QED BY <2>2, <2>3 DEF ContextInv
<1>3. CASE NoCheckpoint
  BY <1>3, NoCheckpointInv
<1>4. CASE ListHistory
  BY <1>4, ListHistoryInv
<1>5. CASE PublishCheckpoint
  BY <1>5, PublishCheckpointInv
<1>6. CASE ListConfirmed
  BY <1>6, ListConfirmedInv
<1>7. CASE PublishResolved
  BY <1>7, PublishResolvedInv
<1>8. CASE AllResolved
  BY <1>8, AllResolvedInv
<1>9. CASE BuildMessages
  BY <1>9, BuildMessagesInv
<1>10. CASE PublishText
  BY <1>10, PublishTextInv
<1>11. CASE PublishToolUse
  BY <1>11, PublishToolUseInv
<1>12. CASE PublishResult
  BY <1>12, PublishResultInv
<1>13. CASE LeaveTurn
  BY <1>13, LeaveTurnInv
<1> QED BY <1>1, <1>2, <1>3, <1>4, <1>5, <1>6, <1>7, <1>8, <1>9, <1>10, <1>11, <1>12, <1>13 DEF ContextStep

LEMMA ContextTypes == ContextInv => ContextTypeOK
<1> SUFFICES ASSUME ContextInv PROVE ContextTypeOK
  OBVIOUS
<1>1. LogOK /\ PrepOK /\ QueuedOK /\ Len(conversation) \in Nat
  BY DEF ContextInv, LogOK
<1>2. ASSUME NEW i \in DOMAIN conversation
      PROVE  /\ conversation[i].type \in Conversational \cup {"verdict", "checkpoint"} /\ conversation[i].thread \in Threads
             /\ conversation[i].use < i /\ conversation[i].through < i
             /\ \A j \in conversation[i].covers : j <= conversation[i].through
  <2>1. conversation[i] \in Events /\ EntryOK(i) /\ i \in Nat \ {0}
    BY <1>1 DEF LogOK
  <2>2. PICK e : e = conversation[i]
    OBVIOUS
  <2>3. /\ e.type \in Kinds /\ e.thread \in Threads /\ e.use < i /\ e.through \in Nat
        /\ e.type = "checkpoint" => e.through + 1 < i /\ e.covers = {j \in Of(e.thread, Rendered) : j <= e.through}
        /\ e.type # "checkpoint" => e.through = 0 /\ e.covers = {}
    BY <2>1, <2>2 DEF EntryOK, Events, Cut
  <2>4. e.through < i /\ \A j \in e.covers : j <= e.through
    BY <2>1, <2>3
  <2> QED BY <2>2, <2>3, <2>4 DEF Kinds
<1>3. queued \in [Threads -> 0 .. MaxEvents]
  <2>1. \A t \in Threads : queued[t] \in Nat /\ queued[t] <= Len(conversation) /\ Len(conversation) <= MaxEvents
    BY <1>1 DEF QueuedOK, LogOK
  <2>2. \A t \in Threads : queued[t] \in 0 .. MaxEvents
    BY <1>1, <2>1, CompactionAssumption
  <2> QED BY <1>1, <2>2 DEF QueuedOK
<1>4. prep.pc \in Stages
  BY <1>1 DEF PrepOK, Preps
<1> QED BY <1>1, <1>2, <1>3, <1>4 DEF ContextTypeOK, LogOK, QueuedOK, Stages

LEMMA ContextIsComplete == ContextInv => ContextComplete
<1> SUFFICES ASSUME ContextInv, Inside("model")
             PROVE  /\ NothingForgotten
                    /\ CallsKeepResults
                    /\ Shown \ {SummaryBlock} \subseteq Listed(Conversational)
                    /\ Recent(Listed({"message"})) \subseteq Shown
                    /\ \A j, k \in DOMAIN prep.sent : j < k => prep.sent[j] < prep.sent[k]
  BY DEF ContextComplete
<1> DEFINE t == prep.thread
           u == prep.upto
           c == Checkpoint(t).through
           points == Of(t, {"checkpoint"})
           S == {i \in Of(t, Conversational) : i <= u /\ i > c}
           l == InOrder(S)
<1>0. /\ LogOK /\ t \in Threads /\ u \in Nat /\ conversation \in Seq(Events) /\ Len(conversation) \in Nat /\ SentFor(t)
      /\ c \in Nat /\ Checkpoint(t).covers = {i \in Of(t, Rendered) : i <= c} /\ (points = {} => c = 0)
      /\ points # {} => c + 1 \in Of(t, {"message"})
  <2>1. LogOK /\ t \in Threads /\ u \in Nat /\ SentFor(t)
    BY DEF ContextInv, PrepOK, Preps, Inside, SentOK
  <2>2. Checkpoint(t).through \in Nat /\ Checkpoint(t).covers = {i \in Of(t, Rendered) : i <= Checkpoint(t).through}
    BY <2>1, NewestCheckpoint
  <2>3. (points = {} => c = 0) /\ (points # {} => c + 1 \in Of(t, {"message"}))
    BY <2>1, NewestCheckpoint DEF Cut
  <2> QED BY <2>1, <2>2, <2>3 DEF LogOK
<1>1. \A T : Of(t, T) \in SUBSET (Nat \ {0})
  BY <1>0, Positions
<1>2. S \in SUBSET Nat /\ IsFiniteSet(S) /\ \A i \in S : i > 0
  <2>1. S \in SUBSET Of(t, Conversational)
    OBVIOUS
  <2> QED BY <1>0, <1>1, <2>1, Positions, FS_Subset
<1>3. /\ l \in Seq(S) /\ {l[k] : k \in DOMAIN l} = S
      /\ \A j, k \in DOMAIN l : j < k => l[j] < l[k]
  BY <1>2, Enumerates
<1>4. prep.sent = IF points = {} THEN l ELSE <<SummaryBlock>> \o l
  BY <1>0 DEF SentFor, SentBlocks
<1>5. Listed(Conversational) = {i \in Of(t, Conversational) : i <= u}
  BY DEF Listed
<1>6. \A T : Listed(T) = {i \in Of(t, T) : i <= u}
  BY DEF Listed
<1>7. Rendered \subseteq Conversational /\ SummaryBlock = 0
  BY DEF Rendered, SummaryBlock
<1>8. \A T : \A i \in Of(t, T) : i \in DOMAIN conversation /\ conversation[i].thread = t /\ conversation[i].type \in T
  BY DEF Of
<1> HIDE DEF S, l, c, points
<1>9. /\ (points = {} => Shown = S) /\ (points # {} => Shown = S \cup {SummaryBlock})
      /\ \A j, k \in DOMAIN prep.sent : j < k => prep.sent[j] < prep.sent[k]
  <2>1. l \in Seq(Nat)
    BY <1>2, <1>3, ListOf
  <2>2. CASE points = {}
    <3>1. prep.sent = l
      BY <1>4, <2>2
    <3>2. Shown = S
      BY <1>3, <3>1 DEF Shown, Range
    <3> QED BY <1>3, <2>2, <3>1, <3>2
  <2>3. CASE points # {}
    <3> DEFINE b == <<SummaryBlock>> \o l
    <3>1. prep.sent = b
      BY <1>4, <2>3
    <3>2. /\ DOMAIN l = 1 .. Len(l) /\ Len(l) \in Nat /\ DOMAIN b = 1 .. Len(l) + 1 /\ b[1] = SummaryBlock
          /\ \A k \in 2 .. Len(l) + 1 : b[k] = l[k - 1]
      BY <1>7, <2>1
    <3> HIDE DEF b
    <3>3. \A k \in DOMAIN l : k + 1 \in DOMAIN b /\ b[k + 1] = l[k]
      BY <3>2
    <3>4. \A k \in DOMAIN b : k = 1 \/ (k - 1 \in DOMAIN l /\ b[k] = l[k - 1])
      BY <3>2
    <3>5. \A k \in DOMAIN l : l[k] \in S
      BY <1>3
    <3>6. {b[k] : k \in DOMAIN b} = S \cup {SummaryBlock}
      <4>1. \A k \in DOMAIN b : b[k] \in S \cup {SummaryBlock}
        BY <3>2, <3>4, <3>5
      <4>2. \A i \in S : \E k \in DOMAIN b : b[k] = i
        BY <1>3, <3>3
      <4>3. 1 \in DOMAIN b /\ b[1] = SummaryBlock
        BY <3>2
      <4> QED BY <4>1, <4>2, <4>3
    <3>7. Shown = S \cup {SummaryBlock}
      BY <3>1, <3>6 DEF Shown, Range
    <3>8. ASSUME NEW j \in DOMAIN b, NEW k \in DOMAIN b, j < k PROVE b[j] < b[k]
      <4>1. k # 1 /\ k - 1 \in DOMAIN l /\ b[k] = l[k - 1] /\ l[k - 1] \in S
        BY <3>2, <3>4, <3>5, <3>8
      <4>2. CASE j = 1
        BY <1>2, <1>7, <3>2, <4>1, <4>2
      <4>3. CASE j # 1
        <5>1. j - 1 \in DOMAIN l /\ b[j] = l[j - 1] /\ j - 1 < k - 1
          BY <3>2, <3>4, <3>8, <4>3
        <5> QED BY <1>3, <4>1, <5>1
      <4> QED BY <4>2, <4>3
    <3> QED BY <2>3, <3>1, <3>7, <3>8
  <2> QED BY <2>2, <2>3
<1>10. 0 \notin S /\ Shown \ {SummaryBlock} = S /\ \A i : i # 0 => (i \in Shown <=> i \in S)
  <2>1. 0 \notin S
    BY <1>2
  <2> QED BY <1>7, <1>9, <2>1
<1>11. Summarised = {i \in Of(t, Rendered) : i <= c}
  <2>1. CASE points = {}
    <3>1. {i \in Of(t, Rendered) : i <= c} = {}
      BY <1>0, <1>1, <2>1
    <3>2. SummaryBlock \notin Shown
      BY <1>7, <1>9, <1>10, <2>1
    <3> QED BY <3>1, <3>2 DEF Summarised
  <2>2. CASE points # {}
    <3>1. SummaryBlock \in Shown
      BY <1>9, <2>2
    <3> QED BY <1>0, <3>1 DEF Summarised
  <2> QED BY <2>1, <2>2
<1>12. \A i : i \in S <=> i \in Of(t, Conversational) /\ i <= u /\ i > c
  BY DEF S
<1>13. NothingForgotten
  <2> SUFFICES ASSUME NEW i \in Listed(Conversational)
               PROVE  \/ (i \in Shown) # (i \in Summarised)
                      \/ i \notin Listed(Rendered) /\ i <= Checkpoint(prep.thread).through
    BY DEF NothingForgotten
  <2>1. i \in Of(t, Conversational) /\ i <= u /\ i \in Nat \ {0}
    BY <1>1, <1>6
  <2>2. i \in Shown <=> i > c
    BY <1>10, <1>12, <2>1
  <2>3. i \in Summarised <=> i \in Of(t, Rendered) /\ i <= c
    BY <1>11
  <2>4. i > c <=> ~(i <= c)
    BY <1>0, <2>1
  <2>5. CASE i > c
    BY <2>2, <2>3, <2>4, <2>5
  <2>6. CASE i <= c
    <3>1. i \in Of(t, Rendered) <=> i \in Listed(Rendered)
      BY <1>6, <2>1
    <3> QED BY <2>2, <2>3, <2>4, <2>6, <3>1 DEF c
  <2> QED BY <2>4, <2>5, <2>6
<1>14. CallsKeepResults
  <2> SUFFICES ASSUME NEW i \in Listed(Results) \cap Shown
               PROVE  \/ conversation[i].use \in Shown
                      \/ \E m \in Listed({"message"}) : conversation[i].use < m /\ m < i
    BY DEF CallsKeepResults, Results
  <2>1. i \in Of(t, Results) /\ i <= u /\ i \in Nat \ {0} /\ i \in DOMAIN conversation
    BY <1>1, <1>6, <1>8
  <2>2. i \in S /\ i > c
    BY <1>10, <1>12, <2>1
  <2>3. PICK use : use = conversation[i].use
    OBVIOUS
  <2>4. use \in Of(t, Uses) /\ use < i /\ use \in Nat \ {0}
    <3>1. EntryOK(i) /\ conversation[i].type \in Results /\ conversation[i].thread = t
      BY <1>0, <1>8, <2>1 DEF LogOK
    <3>2. use \in Of(t, Uses) /\ use < i
      BY <2>3, <3>1 DEF EntryOK
    <3> QED BY <1>1, <3>2
  <2>5. CASE use > c
    <3>1. use \in Of(t, Conversational) /\ use <= u
      <4>1. use \in Of(t, Conversational)
        BY <2>4 DEF Of, Conversational
      <4> QED BY <1>0, <2>1, <2>4, <4>1
    <3> QED BY <1>10, <1>12, <2>3, <2>4, <2>5, <3>1
  <2>6. CASE use <= c
    <3>1. points # {}
      BY <1>0, <2>4, <2>6
    <3>2. c + 1 \in Of(t, {"message"}) /\ conversation[c + 1].type = "message"
      BY <1>0, <1>8, <3>1
    <3>3. conversation[i].type # "message"
      BY <1>8, <2>1 DEF Results
    <3>4. i # c + 1
      BY <3>2, <3>3
    <3>5. use < c + 1 /\ c + 1 < i /\ c + 1 <= u
      BY <1>0, <2>1, <2>2, <2>4, <2>6, <3>4
    <3>6. c + 1 \in Listed({"message"})
      BY <1>6, <3>2, <3>5
    <3> QED BY <2>3, <3>5, <3>6
  <2> QED BY <1>0, <2>4, <2>5, <2>6
<1>15. Shown \ {SummaryBlock} \subseteq Listed(Conversational)
  BY <1>5, <1>10, <1>12
<1>16. Recent(Listed({"message"})) \subseteq Shown
  <2> SUFFICES ASSUME NEW m \in Recent(Listed({"message"})) PROVE m \in Shown
    OBVIOUS
  <2> DEFINE later == {j \in Listed({"message"}) : j > m}
             kept == {j \in Of(t, {"message"}) : j > c /\ j <= u}
  <2>1. m \in Of(t, {"message"}) /\ m <= u /\ m \in Nat \ {0} /\ Cardinality(later) < KeepRecent
    BY <1>1, <1>6 DEF Recent
  <2>2. m \in Of(t, Conversational)
    BY <2>1 DEF Of, Conversational
  <2>3. CASE m > c
    BY <1>10, <1>12, <2>1, <2>2, <2>3
  <2>4. CASE m <= c
    <3>1. points # {}
      BY <1>0, <2>1, <2>4
    <3>2. Cardinality(kept) >= KeepRecent
      BY <1>0, <3>1 DEF SentFor, c, points
    <3>3. kept \in SUBSET later
      <4>1. \A j \in Of(t, {"message"}) : j > c => j > m
        BY <1>0, <1>1, <2>1, <2>4
      <4> QED BY <1>6, <4>1
    <3>4. IsFiniteSet(later) /\ IsFiniteSet(kept)
      <4>1. later \in SUBSET Of(t, {"message"}) /\ kept \in SUBSET Of(t, {"message"})
        BY <1>6
      <4> HIDE DEF later, kept
      <4> QED BY <1>0, <4>1, Positions, FS_Subset
    <3> HIDE DEF later, kept
    <3>5. Cardinality(kept) <= Cardinality(later) /\ Cardinality(kept) \in Nat /\ Cardinality(later) \in Nat
      BY <3>3, <3>4, FS_Subset, FS_CardinalityType
    <3> QED BY <2>1, <3>2, <3>5, CompactionAssumption
  <2> QED BY <1>0, <2>1, <2>3, <2>4
<1> QED BY <1>9, <1>13, <1>14, <1>15, <1>16

\* The log and the turn keep their types.
THEOREM ContextTypesCorrect == ContextSpec => []ContextTypeOK
<1>1. ContextSpec => []ContextInv
  <2>1. (\E tools \in SUBSET Uses : ContextInit(tools)) => ContextInv
    BY ContextStart
  <2> QED BY <2>1, ContextNext, PTL DEF ContextSpec
<1> QED BY <1>1, ContextTypes, PTL

\* Whatever is posted to the threads of a session, and however it falls between the
\* steps of the turns, their checkpoints and their tools, when the model is asked each
\* event of its thread that a transcript renders is sent or stands in the summary, not
\* both, in order and once; MCP calls and results are sent until a checkpoint passes
\* them; and a result that is sent has its call, unless a message is between the two.
THEOREM ContextIsAlwaysComplete == ContextSpec => []ContextComplete
<1>1. ContextSpec => []ContextInv
  <2>1. (\E tools \in SUBSET Uses : ContextInit(tools)) => ContextInv
    BY ContextStart
  <2> QED BY <2>1, ContextNext, PTL DEF ContextSpec
<1> QED BY <1>1, ContextIsComplete, PTL


(***************************************************************************)
(* The requests about files, skills and resources keep what is known of    *)
(* the agents and sessions.                                                *)
(***************************************************************************)
MountOps == {"createFile", "deleteFile", "createSkill", "deleteSkill", "addResource", "updateResource", "deleteResource",
             "deleteSession"}

LEMMA MountCallEnds ==
  ASSUME AgentInv, NEW c \in Calls, call[c].ask.op \in MountOps, NEW pc \in {"done", "refused"}, Ends(c, pc),
         UNCHANGED <<agents, versions, environments, sessions, fresh>>
  PROVE  AgentInv'
<1>1. fresh' \subseteq Calls /\ ~call[c].committed /\ call[c].ask.op # "updateAgent"
  BY DEF AgentInv, TablesTyped, CallInv, MountOps
<1> QED BY <1>1, EndsAgentInv

\* The new list of resources is made of the old ones and of new ones of a known type.
LEMMA ResourceChangeKeeps ==
  ASSUME AgentInv, NEW c \in Calls, NEW op \in {"addResource", "updateResource", "deleteResource"}, NEW ok \in BOOLEAN,
         NEW resources, ResourceChange(c, op, ok, resources), NEW more, \A r \in more : r.res.type \in ResourceTypes,
         ok => SessionThere(call[c].ask.session),
         ok => \A attached : sessions[call[c].ask.session].resources \in Seq(attached) => resources \in Seq(attached \cup more)
  PROVE  AgentInv'
<1> DEFINE s == call[c].ask.session
<1>1. /\ UNCHANGED <<agents, versions, environments>> /\ fresh' = fresh /\ fresh' \subseteq Calls
      /\ call[c].ask.op = op /\ call[c].pc = "new"
  BY DEF ResourceChange, AtStep, Asks, AgentInv, TablesTyped
<1>2. CallInv(c) /\ ~call[c].committed
  BY <1>1 DEF AgentInv, CallInv
<1>3. CASE ~ok
  BY <1>1, <1>2, <1>3, MountCallEnds DEF ResourceChange, MountOps
<1>4. CASE ok
  <2> DEFINE row == [sessions[s] EXCEPT !.resources = resources]
  <2>1. Ends(c, "done") /\ sessions' = [sessions EXCEPT ![s] = row] /\ s \in DOMAIN sessions
    BY <1>4 DEF ResourceChange, SessionThere
  <2>2. /\ CallsTyped' /\ \A d \in Calls \ {c} : call'[d] = call[d]
        /\ call'[c].ask = call[c].ask /\ call'[c].pc = "done" /\ call'[c].committed = call[c].committed
    BY <2>1, CallEnds DEF CallSteps, CallEnded
  <2>3. PICK attached : /\ \A r \in attached : r.res.type \in ResourceTypes
                        /\ \A t \in DOMAIN sessions : t \in Calls /\ sessions[t] \in SessionRow(attached)
    BY DEF AgentInv, SessionsTyped, SessionRow
  <2> DEFINE all == attached \cup more
  <2>4. \A r \in all : r.res.type \in ResourceTypes
    BY <2>3
  <2>5. \A t \in DOMAIN sessions : t \in Calls /\ sessions[t] \in SessionRow(all)
    <3>1. Seq(attached) \subseteq Seq(all)
      OBVIOUS
    <3> HIDE DEF all
    <3> QED BY <2>3, <3>1 DEF SessionRow
  <2>6. resources \in Seq(all) /\ sessions[s] \in SessionRow(all)
    <3>1. sessions[s].resources \in Seq(attached)
      BY <2>1, <2>3 DEF SessionRow
    <3> QED BY <1>4, <2>1, <2>5, <3>1
  <2> HIDE DEF all
  <2>7. /\ row \in SessionRow(all) /\ row.agent = sessions[s].agent /\ row.version = sessions[s].version
        /\ row.snapshot = sessions[s].snapshot
    <3> HIDE DEF s
    <3> QED BY <2>6 DEF SessionRow
  <2> HIDE DEF row, s
  <2>8. /\ DOMAIN sessions' = DOMAIN sessions /\ SessionsTyped'
        /\ \A t \in DOMAIN sessions' : IsOf(sessions'[t].snapshot, sessions'[t].version, sessions'[t].agent)
    BY <2>1, <2>4, <2>5, <2>7, SessionKept
  <2> QED BY <1>1, <1>2, <2>2, <2>8, ChangesSessions DEF CallInv
<1> QED BY <1>3, <1>4

LEMMA ResourcesKeep ==
  ASSUME AgentInv, NEW c \in Calls, AddSessionResource(c) \/ UpdateSessionResource(c) \/ DeleteSessionResource(c)
  PROVE  AgentInv'
<1> DEFINE ask == call[c].ask
           list == sessions[ask.session].resources
           typed == ask.res.type \in ResourceTypes
<1>1. CASE AddSessionResource(c)
  <2> DEFINE ok == SessionThere(ask.session) /\ typed
             new == NewResource(<<c, 1>>, ask.res)
             more == IF ok THEN {new} ELSE {}
  <2>1. ResourceChange(c, "addResource", ok, Append(list, new)) /\ ok \in BOOLEAN
    BY <1>1 DEF AddSessionResource
  <2>2. \A r \in more : r.res.type \in ResourceTypes
    BY DEF NewResource
  <2>3. ok => \A attached : list \in Seq(attached) => Append(list, new) \in Seq(attached \cup more)
    <3> HIDE DEF new, list
    <3> QED OBVIOUS
  <2> HIDE DEF new, more
  <2> QED BY <2>1, <2>2, <2>3, ResourceChangeKeeps
<1>2. CASE UpdateSessionResource(c)
  <2> DEFINE ok == HasResource(ask.session, ask.id) /\ typed
             new == NewResource(ask.id, ask.res)
             more == IF ok THEN {new} ELSE {}
             changed == [i \in DOMAIN list |-> IF list[i].id = ask.id THEN new ELSE list[i]]
  <2>1. ResourceChange(c, "updateResource", ok, changed) /\ ok \in BOOLEAN
    BY <1>2 DEF UpdateSessionResource
  <2>2. (\A r \in more : r.res.type \in ResourceTypes) /\ (ok => SessionThere(ask.session))
    BY DEF NewResource, HasResource
  <2>3. ASSUME ok, NEW attached, list \in Seq(attached) PROVE changed \in Seq(attached \cup more)
    <3>1. DOMAIN list = 1 .. Len(list) /\ Len(list) \in Nat /\ \A i \in DOMAIN list : list[i] \in attached
      BY <2>3
    <3>2. \A i \in DOMAIN list : changed[i] \in attached \cup more
      BY <2>3, <3>1
    <3>3. DOMAIN changed = 1 .. Len(list)
      BY <3>1
    <3> HIDE DEF new, more, list
    <3> QED BY <3>1, <3>2, <3>3
  <2> HIDE DEF new, more, changed, ok
  <2>4. ok => \A attached : list \in Seq(attached) => changed \in Seq(attached \cup more)
    BY <2>3
  <2> QED BY <2>1, <2>2, <2>4, ResourceChangeKeeps
<1>3. CASE DeleteSessionResource(c)
  <2> DEFINE ok == HasResource(ask.session, ask.id)
             i == CHOOSE i \in DOMAIN list : list[i].id = ask.id
  <2>1. ResourceChange(c, "deleteResource", ok, RemoveAt(list, i)) /\ ok \in BOOLEAN
    BY <1>3 DEF DeleteSessionResource, HasResource
  <2>2. ok => SessionThere(ask.session) /\ i \in DOMAIN list
    BY DEF HasResource, Attached
  <2>3. ASSUME ok, NEW attached, list \in Seq(attached) PROVE RemoveAt(list, i) \in Seq(attached \cup {})
    <3> HIDE DEF list, i
    <3>1. i \in 1 .. Len(list) /\ Len(list) \in Nat
      BY <2>2, <2>3
    <3>2. SubSeq(list, 1, i - 1) \in Seq(attached) /\ SubSeq(list, i + 1, Len(list)) \in Seq(attached)
      BY <2>3, <3>1
    <3> QED BY <3>2 DEF RemoveAt
  <2> DEFINE more == {}
             removed == RemoveAt(list, i)
  <2>4. (\A r \in more : r.res.type \in ResourceTypes) /\ ResourceChange(c, "deleteResource", ok, removed)
    BY <2>1
  <2> HIDE DEF i, ok
  <2>5. ok => \A attached : list \in Seq(attached) => removed \in Seq(attached \cup more)
    BY <2>3
  <2> HIDE DEF more, removed
  <2> QED BY <2>1, <2>2, <2>4, <2>5, ResourceChangeKeeps
<1> QED BY <1>1, <1>2, <1>3

(***************************************************************************)
(* A memory since it was listed.                                           *)
(***************************************************************************)
\* A request has changed the row of id and has not recorded that yet.
Unwritten(r, id) == request[r].id = id /\ request[r].wrote /\ request[r].pc \in {"reread", "record"}
Pending(id) == \E r \in Requests : Unwritten(r, id)

\* Nothing has happened to id since it was "then".
Steady(id, then) ==
  /\ Known(id) /\ memories[id] = then.row /\ Cardinality(VersionsOf(id)) = then.versions
  /\ ~Pending(id) /\ id \notin unrecorded

\* A memory that was listed had been inserted, and its versions only grow.
SeenInv(id, then) ==
  /\ id \in MemoryIds /\ (id \in Requests => Inserted(id))
  /\ Known(id) => then.versions \in Nat /\ then.versions <= Cardinality(VersionsOf(id))

\* What a step does to a memory that has been inserted.
Follows(id) ==
  /\ Known(id)' => /\ Known(id) /\ VersionsOf(id) \subseteq VersionsOf(id)'
                   /\ memories'[id] # memories[id] => Pending(id)'
                   /\ Pending(id) => Pending(id)' \/ VersionsOf(id)' # VersionsOf(id) \/ id \in unrecorded'
  /\ unrecorded \subseteq unrecorded'

\* The other requests go on as before.
Others(r) == \A d \in Requests \ {r} : request'[d] = request[d]

LEMMA PendingStays ==
  ASSUME NEW r \in Requests, NEW id, Others(r), Pending(id), Unwritten(r, id) => Unwritten(r, id)'
  PROVE  Pending(id)'
BY DEF Pending, Others, Unwritten

\* A step that changes neither a row nor the history.
LEMMA QuietFollows ==
  ASSUME NEW r \in Requests, NEW id, Others(r), UNCHANGED <<stores, memories, history>>, unrecorded \subseteq unrecorded',
         Unwritten(r, id) /\ Known(id) => Unwritten(r, id)' \/ id \in unrecorded'
  PROVE  Follows(id)
<1>1. Known(id)' = Known(id) /\ VersionsOf(id)' = VersionsOf(id)
  BY DEF Known, VersionsOf, Live
<1>2. Known(id) /\ Pending(id) => Pending(id)' \/ id \in unrecorded'
  BY PendingStays
<1> QED BY <1>1, <1>2 DEF Follows

LEMMA ReadersFollow ==
  ASSUME MemoryInv, NEW r \in Requests, NEW id,
         Find(r) \/ ReadRow(r) \/ Reply(r) \/ CheckStore(r)
  PROVE  Follows(id)
<1>1. request[r].pc \notin {"reread", "record"} /\ UNCHANGED <<stores, memories, history, unrecorded>>
  BY DEF Find, ReadRow, Reply, CheckStore, At
<1>2. Others(r)
  <2>1. \/ \E pc : Goto(r, pc)
        \/ \E new, pc, row : Takes(r, new, pc, row)
    BY DEF Find, ReadRow, Reply, CheckStore
  <2>2. \E new : request' = [request EXCEPT ![r] = new]
    BY <2>1 DEF Goto, Takes
  <2> QED BY <2>2 DEF Others
<1> QED BY <1>1, <1>2, QuietFollows DEF Unwritten

LEMMA RereadFollows ==
  ASSUME MemoryInv, NEW r \in Requests, NEW id, Reread(r)
  PROVE  Follows(id)
<1>1. Others(r) /\ UNCHANGED <<stores, memories, history, unrecorded>> /\ RequestsTyped
  BY DEF Reread, Others, MemoryInv, TablesInv
<1>2. ASSUME Unwritten(r, id), Known(id) PROVE Unwritten(r, id)'
  <2>1. RereadsIt(r, memories[id].path) /\ memories[id] \in Row
    BY <1>2 DEF Reread, RereadsIt, Unwritten, MemoryInv, TablesInv, MemoryTypeOK, Known
  <2>2. Others(r)
    BY <1>1
  <2>3. request[r].row \in Row
    BY <1>2 DEF MemoryInv, WorkInv, Works, Working, Unwritten
  <2> QED BY <2>1, <2>3, <1>1, <1>2, RereadSets DEF Sets, Unwritten, Row
<1> QED BY <1>1, <1>2, QuietFollows

LEMMA BreaksOffFollows ==
  ASSUME MemoryInv, NEW r \in Requests, NEW id, NEW pc, BreaksOff(r, pc)
  PROVE  Follows(id)
<1>1. Others(r) /\ UNCHANGED <<stores, memories, history>> /\ unrecorded \subseteq unrecorded'
  BY DEF BreaksOff, Goto, Others
<1>2. Unwritten(r, id) => id \in unrecorded'
  BY DEF Unwritten, BreaksOff
<1> QED BY <1>1, <1>2, QuietFollows

\* The steps that change rows.
LEMMA RowsFollow ==
  ASSUME NEW r \in Requests, NEW id, Others(r), UNCHANGED <<stores, history, unrecorded>>,
         ~Unwritten(r, id), Known(id)' => Known(id) /\ (memories'[id] # memories[id] => Unwritten(r, id)')
  PROVE  Follows(id)
<1>1. VersionsOf(id)' = VersionsOf(id)
  BY DEF VersionsOf, Live
<1>2. Pending(id) => Pending(id)'
  BY PendingStays
<1>3. Unwritten(r, id)' => Pending(id)'
  BY DEF Pending
<1> QED BY <1>1, <1>2, <1>3 DEF Follows

LEMMA InsertRowFollows ==
  ASSUME MemoryInv, NEW r \in Requests, NEW id \in MemoryIds, id \in Requests => Inserted(id), InsertRow(r)
  PROVE  Follows(id)
<1>1. Others(r) /\ UNCHANGED <<stores, history, unrecorded>> /\ ~Unwritten(r, id)
  <2>1. \E new : request' = [request EXCEPT ![r] = new]
    BY DEF InsertRow, Goto
  <2> QED BY <2>1 DEF InsertRow, At, Others, Unwritten
<1>2. id # r
  BY DEF InsertRow, At, MemoryInv, WorkInv, Works, Working, Inserted
<1>3. Known(id)' => Known(id) /\ memories'[id] = memories[id]
  BY <1>2 DEF InsertRow, Known
<1> QED BY <1>1, <1>3, RowsFollow

LEMMA WriteContentFollows ==
  ASSUME MemoryInv, NEW r \in Requests, NEW id, WriteContent(r)
  PROVE  Follows(id)
<1>1. /\ Others(r) /\ UNCHANGED <<stores, history, unrecorded>> /\ ~Unwritten(r, id) /\ RequestsTyped
      /\ WritesIt(r, "reread", Known(request[r].id)) /\ Known(request[r].id) \in BOOLEAN
  BY DEF WriteContent, At, Others, Unwritten, WritesIt, MemoryInv, TablesInv, Known
<1>2. request'[r].id = request[r].id /\ request'[r].pc = "reread" /\ request'[r].wrote = Known(request[r].id)
  BY <1>1, WritesSets DEF Sets, RequestSteps
<1>3. Known(id)' => Known(id) /\ (memories'[id] # memories[id] => id = request[r].id)
  BY DEF WriteContent, Known
<1> QED BY <1>1, <1>2, <1>3, RowsFollow DEF Unwritten

LEMMA WriteRowFollows ==
  ASSUME MemoryInv, NEW r \in Requests, NEW id, WriteRow(r)
  PROVE  Follows(id)
<1> DEFINE x == request[r].id
           row == Patched(r)
           taken == RowsAt(row.store, row.path) \ {x} # {}
<1>1. /\ Others(r) /\ UNCHANGED <<stores, history, unrecorded>> /\ ~Unwritten(r, id) /\ RequestsTyped
      /\ memories' = IF Known(x) /\ ~taken THEN [memories EXCEPT ![x] = row] ELSE memories
      /\ ~(Known(x) /\ taken) => PatchesIt(r, row, Known(x))
  BY DEF WriteRow, At, Others, Unwritten, PatchesIt, MemoryInv, TablesInv
<1>2. row \in Row
  <2>1. WorkInv(r) /\ Works(r) /\ request[r].ask.op = "update" /\ request[r].pc = "write"
    BY DEF WriteRow, At, MemoryInv, Works, Working
  <2> QED BY <2>1, PatchedRow DEF WorkInv
<1>3. Known(x) /\ ~taken => request'[r].id = x /\ request'[r].pc = "record" /\ request'[r].wrote = Known(x)
  BY <1>1, <1>2, PatchesSets DEF Sets, Known
<1>4. Known(id)' => Known(id) /\ (memories'[id] # memories[id] => id = x /\ Known(x) /\ ~taken)
  BY <1>1 DEF Known
<1> QED BY <1>1, <1>3, <1>4, RowsFollow DEF Unwritten

LEMMA DeleteRowFollows ==
  ASSUME MemoryInv, NEW r \in Requests, NEW id, DeleteRow(r)
  PROVE  Follows(id)
<1>1. Others(r) /\ UNCHANGED <<stores, history, unrecorded>> /\ ~Unwritten(r, id)
  BY DEF DeleteRow, At, Goto, Others, Unwritten
<1>2. Known(id)' => Known(id) /\ memories'[id] = memories[id]
  BY DEF DeleteRow, Known
<1> QED BY <1>1, <1>2, RowsFollow

\* The steps that change the history.
LEMMA RecordFollows ==
  ASSUME MemoryInv, NEW r \in Requests, NEW id, Record(r)
  PROVE  Follows(id)
<1> DEFINE k == request[r]
           new == Version(Operation(r), k.id, k.row)
<1>1. k.pc = "record" /\ UNCHANGED <<stores, memories, unrecorded>> /\ history \in Seq(Versions) /\ RequestsTyped
      /\ WorkInv(r) /\ Works(r)
  BY DEF Record, MemoryInv, TablesInv, Works, Working
<1>2. Others(r)
  <2>1. \E pc : Goto(r, pc)
    BY DEF Record
  <2> QED BY <2>1 DEF Goto, Others
<1>3. CASE Live(k.row.store)
  <2>1. history' = Append(history, new) /\ new.id = k.id /\ new.store = k.row.store
    BY <1>3 DEF Record, Version
  <2> HIDE DEF new
  <2>2. /\ Len(history) \in Nat /\ DOMAIN history = 1 .. Len(history) /\ DOMAIN history' = 1 .. Len(history) + 1
        /\ history'[Len(history) + 1] = new /\ \A n \in DOMAIN history : history'[n] = history[n]
    BY <1>1, <2>1
  <2>3. VersionsOf(id) \subseteq VersionsOf(id)'
    BY <1>1, <2>2 DEF VersionsOf, Live
  <2>4. k.id = id => Len(history) + 1 \in VersionsOf(id)' /\ Len(history) + 1 \notin VersionsOf(id)
    BY <1>1, <1>3, <2>1, <2>2 DEF VersionsOf, Live
  <2>5. Pending(id) /\ k.id # id => Pending(id)'
    BY <1>2, PendingStays DEF Unwritten
  <2> QED BY <1>1, <2>3, <2>4, <2>5 DEF Follows, Known
<1>4. CASE ~Live(k.row.store)
  <2>1. UNCHANGED history
    BY <1>4 DEF Record
  <2>2. ~Known(k.id)
    BY <1>1, <1>4 DEF WorkInv, MemoryInv, TablesInv, MemoryTypeOK, Known, Live
  <2> QED BY <1>1, <1>2, <2>1, <2>2, QuietFollows DEF Unwritten
<1> QED BY <1>3, <1>4

LEMMA RedactFollows ==
  ASSUME MemoryInv, NEW r \in Requests, NEW id, Redact(r)
  PROVE  Follows(id)
<1>1. UNCHANGED <<stores, memories, unrecorded>> /\ ~Unwritten(r, id)
  BY DEF Redact, At, Unwritten
<1>2. Others(r)
  <2>1. \E new : request' = [request EXCEPT ![r] = new]
    BY DEF Redact, Goto
  <2> QED BY <2>1 DEF Others
<1>3. DOMAIN history' = DOMAIN history /\ \A n \in DOMAIN history : history'[n].id = history[n].id /\ history'[n].store = history[n].store
  <2> DEFINE n == request[r].ask.n
             new == [history[n] EXCEPT !.path = Keep, !.content = Keep, !.redacted = TRUE]
  <2>1. \A i \in DOMAIN history : history[i] \in Versions
    <3>1. history \in Seq(Versions)
      BY DEF MemoryInv, TablesInv
    <3> QED BY <3>1
  <2>2. n \in DOMAIN history => new.id = history[n].id /\ new.store = history[n].store
    BY <2>1 DEF Versions
  <2>3. history' = history \/ (n \in DOMAIN history /\ history' = [history EXCEPT ![n] = new])
    BY DEF Redact
  <2> HIDE DEF new
  <2> QED BY <2>2, <2>3
<1>4. VersionsOf(id)' = VersionsOf(id)
  BY <1>1, <1>3 DEF VersionsOf, Live
<1>5. Pending(id) => Pending(id)'
  BY <1>1, <1>2, PendingStays
<1> QED BY <1>1, <1>4, <1>5 DEF Follows, Known

\* The steps that change the stores.
LEMMA StoreFollows ==
  ASSUME NEW r \in Requests, NEW id, NEW pc, Goto(r, pc), request[r].pc = "new", UNCHANGED <<history, unrecorded>>,
         Known(id)' => /\ Known(id) /\ memories'[id] = memories[id]
                       /\ \A n \in DOMAIN history : history[n].id = id /\ Live(history[n].store) => Live(history[n].store)'
  PROVE  Follows(id)
<1>1. Others(r) /\ ~Unwritten(r, id)
  BY DEF Goto, Others, Unwritten
<1>2. Pending(id) => Pending(id)'
  BY <1>1, PendingStays
<1>3. Known(id)' => VersionsOf(id) \subseteq VersionsOf(id)'
  BY DEF VersionsOf
<1> QED BY <1>2, <1>3 DEF Follows

LEMMA StoreChangeFollows ==
  ASSUME MemoryInv, NEW r \in Requests, NEW id, NEW op, NEW ok \in BOOLEAN, NEW row, StoreChange(r, op, ok, row),
         ok => row.there = "live"
  PROVE  Follows(id)
<1> DEFINE s == request[r].ask.store
           pc == IF ok THEN "done" ELSE "refused"
<1>1. request[r].pc = "new" /\ Goto(r, pc) /\ UNCHANGED <<memories, history, unrecorded>>
      /\ stores' = IF ok THEN [stores EXCEPT ![s] = row] ELSE stores
  BY DEF StoreChange, At
<1>2. \A t \in Stores : Live(t) => Live(t)'
  <2>1. DOMAIN stores = Stores
    BY DEF MemoryInv, TablesInv, MemoryTypeOK
  <2> QED BY <1>1, <2>1 DEF Live
<1>3. \A n \in DOMAIN history : history[n].store \in Stores
  BY DEF MemoryInv, TablesInv, MemoryTypeOK
<1> HIDE DEF pc
<1> QED BY <1>1, <1>2, <1>3, StoreFollows DEF Known

LEMMA StoreRowFollows ==
  ASSUME MemoryInv, NEW r \in Requests, NEW id, CreateStore(r) \/ RenameStore(r) \/ ArchiveStore(r)
  PROVE  Follows(id)
<1> DEFINE ask == request[r].ask
           s == ask.store
<1>1. DOMAIN stores = Stores /\ \A t \in Stores : DOMAIN stores[t] = {"there", "name", "archived"}
  BY DEF MemoryInv, TablesInv, MemoryTypeOK
<1>2. ask.op \in {"renameStore", "archiveStore"} => s \in Stores
  BY DEF MemoryInv, WorkInv, WellAsked
<1>3. CASE CreateStore(r)
  <2> DEFINE ok == Named(ask) /\ NameFree(s, ask.name)
             row == [there |-> "live", name |-> ask.name, archived |-> FALSE]
  <2>1. StoreChange(r, "createStore", ok, row) /\ ok \in BOOLEAN /\ row.there = "live"
    BY <1>3 DEF CreateStore, Named
  <2> HIDE DEF ok, row
  <2> QED BY <2>1, StoreChangeFollows
<1>4. CASE RenameStore(r)
  <2> DEFINE ok == Named(ask) /\ Live(s) /\ ~stores[s].archived /\ NameFree(s, ask.name)
             row == [stores[s] EXCEPT !.name = ask.name]
  <2>1. StoreChange(r, "renameStore", ok, row) /\ ok \in BOOLEAN
    BY <1>4 DEF RenameStore, Named
  <2>2. ok => row.there = "live"
    BY <2>1, <1>1, <1>2 DEF StoreChange, At, Live
  <2> HIDE DEF ok, row
  <2> QED BY <2>1, <2>2, StoreChangeFollows
<1>5. CASE ArchiveStore(r)
  <2> DEFINE ok == Live(s) /\ ~stores[s].archived
             row == [stores[s] EXCEPT !.archived = TRUE]
  <2>1. StoreChange(r, "archiveStore", ok, row) /\ ok \in BOOLEAN
    BY <1>5 DEF ArchiveStore, Live
  <2>2. ok => row.there = "live"
    BY <2>1, <1>1, <1>2 DEF StoreChange, At, Live
  <2> HIDE DEF ok, row
  <2> QED BY <2>1, <2>2, StoreChangeFollows
<1> QED BY <1>3, <1>4, <1>5

LEMMA DeleteStoreFollows ==
  ASSUME MemoryInv, NEW r \in Requests, NEW id, DeleteStore(r)
  PROVE  Follows(id)
<1> DEFINE s == request[r].ask.store
<1>1. /\ request[r].pc = "new" /\ Goto(r, "done") /\ UNCHANGED <<history, unrecorded>>
      /\ stores' = (IF Live(s) THEN [stores EXCEPT ![s].there = "deleted"] ELSE stores)
      /\ memories' = [i \in {i \in DOMAIN memories : memories[i].store # s} |-> memories[i]]
  BY DEF DeleteStore, At
<1>2. Known(id)' => Known(id) /\ memories'[id] = memories[id] /\ memories[id].store # s
  BY <1>1 DEF Known
<1>3. \A t \in Stores \ {s} : Live(t) => Live(t)'
  <2>1. DOMAIN stores = Stores
    BY DEF MemoryInv, TablesInv, MemoryTypeOK
  <2> QED BY <1>1, <2>1 DEF Live
<1>4. \A n \in DOMAIN history : history[n].store \in Stores /\ (Known(id) /\ history[n].id = id => history[n].store = memories[id].store)
  BY DEF MemoryInv, TablesInv, MemoryTypeOK
<1> QED BY <1>1, <1>2, <1>3, <1>4, StoreFollows

LEMMA StepFollows ==
  ASSUME MemoryInv, NEW r \in Requests, MemoryStep(r), NEW id \in MemoryIds, id \in Requests => Inserted(id)
  PROVE  Follows(id)
BY ReadersFollow, RereadFollows, BreaksOffFollows, InsertRowFollows, WriteContentFollows, WriteRowFollows, DeleteRowFollows,
   RecordFollows, RedactFollows, StoreRowFollows, DeleteStoreFollows DEF MemoryStep, ClientGone, StatementFails

\* What has been inserted stays so, although the row may go.
LEMMA InsertedStays ==
  ASSUME MemoryInv, MemoryInv', NEW r \in Requests, MemoryStep(r), NEW q \in Requests, Inserted(q)
  PROVE  Inserted(q)'
<1>1. request[q].ask.op = "upsert" /\ request[q].id = q /\ request[q].wrote
      /\ request[q].pc \notin {"new", "insert", "write", "check"} /\ RequestsTyped /\ (Works(q) => request[q].row \in Row)
  BY DEF Inserted, MemoryInv, TablesInv, WorkInv, Works, Working
<1>2. CASE r # q
  <2>1. Others(r)
    <3>1. \E new : request' = [request EXCEPT ![r] = new]
      BY DEF MemoryStep, Find, InsertRow, WriteContent, Reread, ReadRow, WriteRow, Record, DeleteRow, Reply, Redact, CheckStore,
             CreateStore, RenameStore, ArchiveStore, DeleteStore, ClientGone, StatementFails, BreaksOff, StoreChange, Takes, Goto
    <3> QED BY <3>1 DEF Others
  <2> QED BY <2>1, <1>1, <1>2 DEF Others, Inserted
<1>3. CASE r = q
  <2>1. Reread(q) \/ Record(q) \/ Reply(q) \/ ClientGone(q) \/ StatementFails(q)
    BY <1>1, <1>3 DEF MemoryStep, Find, InsertRow, WriteContent, ReadRow, WriteRow, DeleteRow, Redact, CheckStore,
                      CreateStore, RenameStore, ArchiveStore, DeleteStore, StoreChange, At
  <2>2. CASE \E pc \in RequestSteps : Goto(q, pc)
    BY <2>2, <1>1, GotoSets DEF Sets, Only, Inserted
  <2>3. CASE Reread(q) /\ Known(q)
    <3>1. RereadsIt(q, memories[q].path) /\ memories[q] \in Row /\ Works(q)
      BY <1>1, <2>3 DEF Reread, RereadsIt, At, MemoryInv, TablesInv, MemoryTypeOK, Known, Works, Working
    <3> QED BY <1>1, <3>1, RereadSets DEF Sets, Only, Inserted, Row
  <2>4. Reread(q) /\ ~Known(q) => Goto(q, "refused")
    BY <1>1 DEF Reread, Goto
  <2>5. Record(q) \/ Reply(q) \/ ClientGone(q) \/ StatementFails(q) => \E pc \in RequestSteps : Goto(q, pc)
    BY DEF Record, Reply, ClientGone, StatementFails, BreaksOff, RequestSteps, Ended, BrokenOff
  <2> QED BY <2>1, <2>2, <2>3, <2>4, <2>5 DEF RequestSteps, Ended
<1> QED BY <1>2, <1>3

LEMMA SomeNumbers ==
  ASSUME NEW n \in Nat, NEW S \in SUBSET (1 .. n)
  PROVE  IsFiniteSet(S) /\ Cardinality(S) \in Nat
<1>1. IsFiniteSet(1 .. n)
  BY FS_Interval
<1>2. IsFiniteSet(S)
  BY <1>1, FS_Subset
<1> QED BY <1>2, FS_CardinalityType

\* What nothing has happened to after a step, nothing had happened to before it.
LEMMA SteadyBack ==
  ASSUME MemoryInv, MemoryInv', NEW r \in Requests, MemoryStep(r), NEW id, NEW then, SeenInv(id, then)
  PROVE  SeenInv(id, then)' /\ (Steady(id, then)' => Steady(id, then))
<1> DEFINE old == VersionsOf(id)
           new == VersionsOf(id)'
<1>1. id \in MemoryIds /\ (id \in Requests => Inserted(id)) /\ Follows(id)
  BY StepFollows DEF SeenInv
<1>2. IsFiniteSet(old) /\ Cardinality(old) \in Nat /\ IsFiniteSet(new) /\ Cardinality(new) \in Nat
  <2>1. history \in Seq(Versions) /\ history' \in Seq(Versions)
    BY DEF MemoryInv, TablesInv, Versions
  <2>2. /\ old \subseteq 1 .. Len(history) /\ Len(history) \in Nat
        /\ new \subseteq 1 .. Len(history') /\ Len(history') \in Nat
    BY <2>1 DEF VersionsOf
  <2> HIDE DEF old, new
  <2> QED BY <2>2, SomeNumbers
<1>3. Known(id)' => Cardinality(old) <= Cardinality(new) /\ (Cardinality(old) = Cardinality(new) => new = old)
  BY <1>1, <1>2, FS_Subset DEF Follows
<1>4. id \in Requests => Inserted(id)'
  BY <1>1, InsertedStays
<1>5. SeenInv(id, then)'
  BY <1>1, <1>2, <1>3, <1>4 DEF SeenInv, Follows
<1>6. ASSUME Steady(id, then)' PROVE Steady(id, then)
  <2>1. Known(id)' /\ Known(id) /\ memories'[id] = memories[id] /\ ~Pending(id)' /\ id \notin unrecorded' /\ unrecorded \subseteq unrecorded'
    BY <1>1, <1>6 DEF Steady, Follows
  <2>2. new = old
    BY <2>1, <1>2, <1>3, <1>6 DEF Steady, SeenInv
  <2> QED BY <1>1, <1>6, <2>1, <2>2 DEF Steady, Follows
<1> QED BY <1>5, <1>6

(***************************************************************************)
(* Sessions that come and go.                                              *)
(***************************************************************************)
\* A session is there since its call inserted it; one that is gone stays so.
Deleted(s) == s \in DOMAIN sessions /\ ~sessions[s].there
Created(c) == c \in DOMAIN sessions => Asks(c, "createSession") /\ call[c].pc \in {"resources"} \cup CallEnded
Destroys(c) == AtStep(c, "deleteSession", "destroy") => Deleted(call[c].ask.session)
Uploads(c) == Asks(c, "createSkill") => IsList(call[c].ask.files)
RequestsInv == \A c \in Calls : Created(c) /\ Destroys(c) /\ Uploads(c)

\* What a step of c does to the requests.
CallMoves(c) ==
  /\ \A d \in Calls \ {c} : call'[d] = call[d]
  /\ call'[c].ask = call[c].ask \/ (call[c].ask.op = "createSession" /\ call'[c].ask.op = "createSession")
SessionsFollow(c) ==
  /\ DOMAIN sessions \subseteq DOMAIN sessions' /\ \A s \in DOMAIN sessions' : s \in DOMAIN sessions \/ s = c
  /\ \A s \in DOMAIN sessions : ~sessions[s].there => ~sessions'[s].there

LEMMA RequestsKeep ==
  ASSUME RequestsInv, NEW c \in Calls, CallMoves(c), SessionsFollow(c), Created(c)', Destroys(c)'
  PROVE  RequestsInv' /\ \A s \in Calls : Deleted(s) => Deleted(s)'
<1>1. \A s : Deleted(s) => Deleted(s)'
  BY DEF SessionsFollow, Deleted
<1>2. ASSUME NEW d \in Calls \ {c} PROVE Created(d)' /\ Destroys(d)' /\ Uploads(d)'
  <2>1. Created(d) /\ Destroys(d) /\ Uploads(d) /\ call'[d] = call[d] /\ (d \in DOMAIN sessions' => d \in DOMAIN sessions)
    BY DEF RequestsInv, CallMoves, SessionsFollow
  <2>2. Destroys(d)'
    BY <1>1, <2>1 DEF Destroys, AtStep, Asks
  <2> QED BY <2>1, <2>2 DEF Created, Uploads, Asks
<1>3. Uploads(c)'
  BY DEF RequestsInv, CallMoves, Uploads, Asks
<1> QED BY <1>1, <1>2, <1>3 DEF RequestsInv

\* A step that leaves the sessions alone.
LEMMA SessionsStay ==
  ASSUME RequestsInv, NEW c \in Calls, CallMoves(c), UNCHANGED sessions, call'[c].ask = call[c].ask,
         call'[c].pc # "destroy", call[c].pc \in {"resources"} \cup CallEnded => call'[c].pc \in CallEnded
  PROVE  RequestsInv' /\ \A s \in Calls : Deleted(s) => Deleted(s)'
<1>1. SessionsFollow(c) /\ Created(c)' /\ Destroys(c)'
  BY DEF SessionsFollow, Created, Destroys, RequestsInv, AtStep, Asks
<1> QED BY <1>1, RequestsKeep

LEMMA EndStays ==
  ASSUME AgentInv, RequestsInv, NEW c \in Calls, UNCHANGED sessions, NEW pc \in CallSteps \ {"destroy"}, Ends(c, pc),
         call[c].pc \in {"resources"} \cup CallEnded => pc \in CallEnded
  PROVE  RequestsInv' /\ \A s \in Calls : Deleted(s) => Deleted(s)'
<1>1. CallMoves(c) /\ call'[c].pc = pc /\ call'[c].ask = call[c].ask
  BY CallEnds DEF CallMoves
<1> QED BY <1>1, SessionsStay

\* A step that keeps something of what it has read or done.
Notes(c, pc) == \E new : call' = [call EXCEPT ![c] = new] /\ new.ask = call[c].ask /\ new.pc = pc
LEMMA NotesStay ==
  ASSUME AgentInv, RequestsInv, NEW c \in Calls, UNCHANGED sessions, NEW pc, Notes(c, pc), pc # "destroy",
         call[c].pc \notin {"resources"} \cup CallEnded
  PROVE  RequestsInv' /\ \A s \in Calls : Deleted(s) => Deleted(s)'
<1>1. CallMoves(c) /\ call'[c].pc = pc /\ call'[c].ask = call[c].ask
  <2>1. DOMAIN call = Calls
    BY DEF AgentInv, CallsTyped
  <2> QED BY <2>1 DEF Notes, CallMoves
<1> QED BY <1>1, SessionsStay

LEMMA CallRecord ==
  ASSUME AgentInv, NEW c \in Calls
  PROVE  DOMAIN call = Calls /\ DOMAIN call[c] = {"ask", "pc", "read", "committed"}
BY DEF AgentInv, CallsTyped

LEMMA AgentsStay ==
  ASSUME AgentInv, RequestsInv, NEW c \in Calls,
         CreateAgent(c) \/ SelectVersion(c) \/ InsertVersion(c) \/ CommitVersion(c) \/ AnswerAgent(c)
           \/ ArchiveAgent(c) \/ DeleteAgent(c) \/ TakeSnapshot(c)
  PROVE  RequestsInv' /\ \A s \in Calls : Deleted(s) => Deleted(s)'
<1>1. UNCHANGED sessions /\ call[c].pc \in {"new", "insert", "update", "reply"}
  BY DEF CreateAgent, SelectVersion, InsertVersion, CommitVersion, AnswerAgent, ArchiveAgent, DeleteAgent, TakeSnapshot, AtStep
<1>2. (\E pc \in CallSteps \ {"destroy"} : Ends(c, pc)) \/ \E pc \in CallSteps \ {"destroy"} : Notes(c, pc)
  <2>1. ASSUME NEW pc \in CallSteps \ {"destroy"}, NEW read, NEW committed,
               call' = [call EXCEPT ![c] = [@ EXCEPT !.pc = pc, !.read = read]]
                 \/ call' = [call EXCEPT ![c] = [@ EXCEPT !.pc = pc, !.committed = committed]]
        PROVE  Notes(c, pc)
    <3> DEFINE reads == [call[c] EXCEPT !.pc = pc, !.read = read]
               commits == [call[c] EXCEPT !.pc = pc, !.committed = committed]
    <3>1. reads.ask = call[c].ask /\ reads.pc = pc /\ commits.ask = call[c].ask /\ commits.pc = pc
      BY CallRecord
    <3>2. call' = [call EXCEPT ![c] = reads] \/ call' = [call EXCEPT ![c] = commits]
      BY <2>1
    <3> HIDE DEF reads, commits
    <3> QED BY <3>1, <3>2 DEF Notes
  <2>2. {"insert", "conflict", "refused", "update", "reply", "done", "environment"} \subseteq CallSteps \ {"destroy"}
    BY DEF CallSteps, CallEnded
  <2>3. CASE CreateAgent(c)
    BY <2>1, <2>2, <2>3 DEF CreateAgent
  <2>4. CASE SelectVersion(c)
    BY <2>2, <2>4 DEF SelectVersion
  <2>5. CASE InsertVersion(c)
    BY <2>2, <2>5 DEF InsertVersion
  <2>6. CASE CommitVersion(c)
    BY <2>1, <2>2, <2>6 DEF CommitVersion
  <2>7. CASE AnswerAgent(c)
    BY <2>1, <2>2, <2>7 DEF AnswerAgent, Ends
  <2>8. CASE ArchiveAgent(c)
    BY <2>2, <2>8 DEF ArchiveAgent
  <2>9. CASE DeleteAgent(c)
    BY <2>2, <2>9 DEF DeleteAgent
  <2>10. CASE TakeSnapshot(c)
    BY <2>1, <2>2, <2>10 DEF TakeSnapshot, Ends
  <2> QED BY <2>3, <2>4, <2>5, <2>6, <2>7, <2>8, <2>9, <2>10
<1> QED BY <1>1, <1>2, EndStays, NotesStay DEF CallEnded

LEMMA EnvironmentsStay ==
  ASSUME AgentInv, RequestsInv, NEW c \in Calls,
         CreateEnvironment(c) \/ UpdateEnvironment(c) \/ ArchiveEnvironment(c) \/ DeleteEnvironment(c) \/ ChooseEnvironment(c)
           \/ CallerGone(c)
  PROVE  RequestsInv' /\ \A s \in Calls : Deleted(s) => Deleted(s)'
<1>1. CASE CallerGone(c)
  BY <1>1, EndStays DEF CallerGone, CallSteps, CallEnded
<1>2. CASE ChooseEnvironment(c)
  <2>1. UNCHANGED sessions /\ call[c].pc = "environment" /\ (Ends(c, "insert") \/ Ends(c, "refused"))
    BY <1>2 DEF ChooseEnvironment, AtStep
  <2> QED BY <2>1, EndStays DEF CallSteps, CallEnded
<1>3. CASE CreateEnvironment(c) \/ UpdateEnvironment(c) \/ ArchiveEnvironment(c) \/ DeleteEnvironment(c)
  <2>1. \E op, ok, row : EnvironmentChange(c, op, ok, row)
    BY <1>3 DEF CreateEnvironment, UpdateEnvironment, ArchiveEnvironment, DeleteEnvironment
  <2>2. UNCHANGED sessions /\ call[c].pc = "new" /\ (Ends(c, "done") \/ Ends(c, "refused"))
    BY <2>1 DEF EnvironmentChange, AtStep
  <2> QED BY <2>2, EndStays DEF CallSteps, CallEnded
<1> QED BY <1>1, <1>2, <1>3

LEMMA InsertSessionStays ==
  ASSUME AgentInv, RequestsInv, NEW c \in Calls, InsertSession(c)
  PROVE  RequestsInv' /\ \A s \in Calls : Deleted(s) => Deleted(s)'
<1>1. AtStep(c, "createSession", "insert") /\ Ends(c, "resources") /\ DOMAIN sessions' = DOMAIN sessions \cup {c}
      /\ \A s \in DOMAIN sessions \ {c} : sessions'[s] = sessions[s]
  BY DEF InsertSession
<1>2. CallMoves(c) /\ call'[c].ask = call[c].ask /\ call'[c].pc = "resources"
  BY <1>1, CallEnds DEF CallMoves, CallSteps
<1>3. c \notin DOMAIN sessions
  BY <1>1 DEF RequestsInv, Created, AtStep, CallEnded
<1>4. SessionsFollow(c) /\ Created(c)' /\ Destroys(c)'
  BY <1>1, <1>2, <1>3 DEF SessionsFollow, Created, Destroys, AtStep, Asks
<1> QED BY <1>2, <1>4, RequestsKeep

\* A step that changes the row of a session.
LEMMA RowStays ==
  ASSUME AgentInv, RequestsInv, NEW c \in Calls, CallMoves(c), NEW s \in DOMAIN sessions, NEW row,
         sessions' = [sessions EXCEPT ![s] = row], row.there => sessions[s].there, call'[c].pc # "destroy",
         c \in DOMAIN sessions => call'[c].pc \in {"resources"} \cup CallEnded /\ Asks(c, "createSession")'
  PROVE  RequestsInv' /\ \A t \in Calls : Deleted(t) => Deleted(t)'
<1>1. SessionsFollow(c) /\ Created(c)' /\ Destroys(c)'
  <2>1. \A t \in DOMAIN sessions : ~sessions[t].there => ~sessions'[t].there
    OBVIOUS
  <2> QED BY <2>1 DEF SessionsFollow, Created, Destroys, AtStep
<1> QED BY <1>1, RequestsKeep

LEMMA SessionRecord ==
  ASSUME AgentInv, NEW s \in DOMAIN sessions
  PROVE  /\ DOMAIN sessions[s] = {"there", "archived", "agent", "version", "snapshot", "resources", "environment"}
         /\ sessions[s].there \in BOOLEAN
BY DEF AgentInv, SessionsTyped

LEMMA AddResourceStays ==
  ASSUME AgentInv, RequestsInv, NEW c \in Calls, AddResource(c)
  PROVE  RequestsInv' /\ \A s \in Calls : Deleted(s) => Deleted(s)'
<1> DEFINE left == call[c].ask.resources
           ok == sessions[c].there /\ Head(left).type \in ResourceTypes
<1>1. AtStep(c, "createSession", "resources")
  BY DEF AddResource
<1>2. CASE left = << >> \/ ~ok
  BY <1>1, <1>2, EndStays DEF AddResource, AtStep, CallSteps, CallEnded
<1>3. CASE left # << >> /\ ok
  <2> DEFINE new == [call[c] EXCEPT !.ask.resources = Tail(left)]
             row == [sessions[c] EXCEPT !.resources = Append(@, NewResource(<<c, Len(left)>>, Head(left)))]
  <2>1. call' = [call EXCEPT ![c] = new] /\ sessions' = [sessions EXCEPT ![c] = row] /\ c \in DOMAIN sessions
    BY <1>1, <1>3 DEF AddResource, AgentInv, CallInv, AtStep
  <2>2. row.there = sessions[c].there
    BY <2>1, SessionRecord
  <2>3. WellFormed(call[c].ask) /\ call[c].ask.op = "createSession"
    BY <1>1 DEF AgentInv, CallInv, AtStep, Asks
  <2>4. new.pc = "resources" /\ new.ask.op = "createSession"
    <3>1. DOMAIN call[c].ask = {"op", "agent", "environment", "resources"}
      BY <2>3 DEF WellFormed
    <3> QED BY <1>1, <2>3, <3>1, CallRecord DEF AtStep
  <2> HIDE DEF new, row
  <2>5. CallMoves(c) /\ call'[c].pc = "resources" /\ Asks(c, "createSession")'
    BY <2>1, <2>3, <2>4, CallRecord DEF CallMoves, Asks
  <2> QED BY <2>1, <2>2, <2>5, RowStays
<1> QED BY <1>2, <1>3

LEMMA SessionChangeStays ==
  ASSUME AgentInv, RequestsInv, NEW c \in Calls, UpdateSession(c) \/ ArchiveSession(c)
  PROVE  RequestsInv' /\ \A s \in Calls : Deleted(s) => Deleted(s)'
<1>1. PICK op \in {"updateSession", "archiveSession"}, archived \in BOOLEAN : SessionChange(c, op, archived)
  BY DEF UpdateSession, ArchiveSession
<1> DEFINE s == call[c].ask.session
           ok == SessionThere(s) /\ ~sessions[s].archived
           row == [sessions[s] EXCEPT !.archived = archived]
<1>2. AtStep(c, op, "new") /\ Ends(c, IF ok THEN "done" ELSE "refused")
      /\ sessions' = IF ok THEN [sessions EXCEPT ![s] = row] ELSE sessions
  BY <1>1 DEF SessionChange
<1>3. CASE ~ok
  BY <1>2, <1>3, EndStays DEF AtStep, CallSteps, CallEnded
<1>4. CASE ok
  <2>1. CallMoves(c) /\ call'[c].pc = "done"
    BY <1>2, <1>4, CallEnds DEF CallMoves, CallSteps, CallEnded
  <2>2. s \in DOMAIN sessions /\ row.there = sessions[s].there
    BY <1>4, SessionRecord DEF SessionThere
  <2>3. c \notin DOMAIN sessions
    BY <1>2 DEF RequestsInv, Created, AtStep, CallEnded
  <2> HIDE DEF row
  <2> QED BY <1>2, <1>4, <2>1, <2>2, <2>3, RowStays
<1> QED BY <1>3, <1>4

LEMMA DeleteSessionStays ==
  ASSUME AgentInv, RequestsInv, NEW c \in Calls, DeleteSession(c)
  PROVE  RequestsInv' /\ \A s \in Calls : Deleted(s) => Deleted(s)'
<1> DEFINE s == call[c].ask.session
           row == [sessions[s] EXCEPT !.there = FALSE, !.resources = << >>]
<1>1. AtStep(c, "deleteSession", "new") /\ Ends(c, IF SessionThere(s) THEN "destroy" ELSE "refused")
      /\ sessions' = IF SessionThere(s) THEN [sessions EXCEPT ![s] = row] ELSE sessions
  BY DEF DeleteSession
<1>2. CASE ~SessionThere(s)
  BY <1>1, <1>2, EndStays DEF AtStep, CallSteps, CallEnded
<1>3. CASE SessionThere(s)
  <2>1. CallMoves(c) /\ call'[c].pc = "destroy" /\ call'[c].ask = call[c].ask
    BY <1>1, <1>3, CallEnds DEF CallMoves, CallSteps, CallEnded
  <2>2. s \in DOMAIN sessions /\ ~row.there
    BY <1>3, SessionRecord DEF SessionThere
  <2>3. c \notin DOMAIN sessions
    BY <1>1 DEF RequestsInv, Created, AtStep, CallEnded
  <2> HIDE DEF row
  <2>4. /\ DOMAIN sessions' = DOMAIN sessions /\ ~sessions'[s].there
        /\ \A t \in DOMAIN sessions : ~sessions[t].there => ~sessions'[t].there
    BY <1>1, <1>3, <2>2
  <2>5. SessionsFollow(c) /\ Created(c)' /\ Destroys(c)'
    BY <2>1, <2>2, <2>3, <2>4 DEF SessionsFollow, Created, Destroys, Deleted
  <2> QED BY <2>1, <2>5, RequestsKeep
<1> QED BY <1>2, <1>3

LEMMA AgentStepStays ==
  ASSUME AgentInv, RequestsInv, NEW c \in Calls, AgentStep(c)
  PROVE  RequestsInv' /\ \A s \in Calls : Deleted(s) => Deleted(s)'
BY AgentsStay, EnvironmentsStay, InsertSessionStays, AddResourceStays, SessionChangeStays, DeleteSessionStays DEF AgentStep

(***************************************************************************)
(* The requests of SessionMount.                                           *)
(***************************************************************************)
LEMMA FilesKeepAgents ==
  ASSUME AgentInv, RequestsInv, NEW c \in Calls,
         CreateFile(c) \/ DeleteFile(c) \/ CreateSkill(c) \/ DeleteSkill(c) \/ DestroySandbox(c)
  PROVE  AgentInv' /\ RequestsInv' /\ \A s \in Calls : Deleted(s) => Deleted(s)'
<1>1. /\ UNCHANGED <<agents, versions, environments, sessions, fresh>> /\ call[c].pc \in {"new", "destroy"}
      /\ call[c].ask.op \in MountOps /\ (Ends(c, "done") \/ Ends(c, "refused"))
  <2>1. CASE CreateFile(c) \/ DeleteFile(c)
    BY <2>1 DEF CreateFile, DeleteFile, FileChange, AtStep, Asks, MountOps
  <2>2. CASE CreateSkill(c) \/ DeleteSkill(c)
    BY <2>2 DEF CreateSkill, DeleteSkill, SkillChange, AtStep, Asks, MountOps
  <2>3. CASE DestroySandbox(c)
    BY <2>3 DEF DestroySandbox, AtStep, Asks, MountOps
  <2> QED BY <2>1, <2>2, <2>3
<1> QED BY <1>1, MountCallEnds, EndStays DEF CallSteps, CallEnded

LEMMA ResourceChangeStays ==
  ASSUME AgentInv, RequestsInv, NEW c \in Calls, NEW op, NEW ok \in BOOLEAN, NEW resources, ResourceChange(c, op, ok, resources),
         ok => SessionThere(call[c].ask.session)
  PROVE  RequestsInv' /\ \A s \in Calls : Deleted(s) => Deleted(s)'
<1> DEFINE s == call[c].ask.session
           row == [sessions[s] EXCEPT !.resources = resources]
<1>1. call[c].pc = "new" /\ Ends(c, IF ok THEN "done" ELSE "refused")
      /\ sessions' = IF ok THEN [sessions EXCEPT ![s] = row] ELSE sessions
  BY DEF ResourceChange, AtStep
<1>2. CASE ~ok
  BY <1>1, <1>2, EndStays DEF CallSteps, CallEnded
<1>3. CASE ok
  <2>1. CallMoves(c) /\ call'[c].pc = "done"
    BY <1>1, <1>3, CallEnds DEF CallMoves, CallSteps, CallEnded
  <2>2. s \in DOMAIN sessions /\ row.there = sessions[s].there
    BY <1>1, <1>3, SessionRecord DEF SessionThere
  <2>3. c \notin DOMAIN sessions
    BY <1>1 DEF RequestsInv, Created, CallEnded
  <2> HIDE DEF row
  <2> QED BY <1>1, <1>3, <2>1, <2>2, <2>3, RowStays
<1> QED BY <1>2, <1>3

LEMMA ResourcesStay ==
  ASSUME AgentInv, RequestsInv, NEW c \in Calls,
         AddSessionResource(c) \/ UpdateSessionResource(c) \/ DeleteSessionResource(c)
  PROVE  RequestsInv' /\ \A s \in Calls : Deleted(s) => Deleted(s)'
<1> DEFINE s == call[c].ask.session
           typed == call[c].ask.res.type \in ResourceTypes
           has == HasResource(s, call[c].ask.id)
<1>1. has => SessionThere(s)
  BY DEF HasResource
<1>2. CASE AddSessionResource(c)
  BY <1>2, ResourceChangeStays DEF AddSessionResource
<1>3. CASE UpdateSessionResource(c)
  <2>1. \E resources : ResourceChange(c, "updateResource", has /\ typed, resources)
    BY <1>3 DEF UpdateSessionResource
  <2> HIDE DEF has, typed
  <2> QED BY <1>1, <2>1, ResourceChangeStays
<1>4. CASE DeleteSessionResource(c)
  <2>1. has \in BOOLEAN
    BY DEF HasResource
  <2>2. \E resources : ResourceChange(c, "deleteResource", has, resources)
    BY <1>4 DEF DeleteSessionResource
  <2> HIDE DEF has
  <2> QED BY <1>1, <2>1, <2>2, ResourceChangeStays
<1> QED BY <1>2, <1>3, <1>4

(***************************************************************************)
(* Files and skills: what is uploaded does not change until it is deleted, *)
(* and its row not even then.                                              *)
(***************************************************************************)
Existence == {"never", "live", "deleted"}
UploadsTyped ==
  /\ \E blobs : files \in [Files -> [there : Existence, blob : blobs]]
  /\ \E names, lists : skills \in [Skills -> [there : Existence, name : names, files : lists]]
  /\ \A k \in Skills : SafePaths(skills[k].files) /\ IsList(skills[k].files)

UploadsKept ==
  /\ \A f \in Files : files[f].there # "never" => files'[f].there # "never" /\ files'[f].blob = files[f].blob
  /\ \A k \in Skills : skills[k].there # "never" =>
       skills'[k].there # "never" /\ skills'[k].name = skills[k].name /\ skills'[k].files = skills[k].files

LEMMA FileRowKeeps ==
  ASSUME UploadsTyped, NEW f, NEW row, files' = [files EXCEPT ![f] = row], UNCHANGED skills,
         f \in Files => row.there \in Existence \ {"never"} /\ row = [there |-> row.there, blob |-> row.blob]
                        /\ (files[f].there # "never" => row.blob = files[f].blob)
  PROVE  UploadsTyped' /\ UploadsKept
<1>1. PICK blobs : files \in [Files -> [there : Existence, blob : blobs]]
  BY DEF UploadsTyped
<1>2. files' \in [Files -> [there : Existence, blob : blobs \cup {row.blob}]]
  BY <1>1
<1>3. \E more : files' \in [Files -> [there : Existence, blob : more]]
  BY <1>2
<1>4. \A g \in Files : files[g].there # "never" => files'[g].there # "never" /\ files'[g].blob = files[g].blob
  BY <1>1
<1> QED BY <1>3, <1>4 DEF UploadsTyped, UploadsKept, SafePaths, IsList

LEMMA FileChangesKeep ==
  ASSUME UploadsTyped, NEW c \in Calls, CreateFile(c) \/ DeleteFile(c)
  PROVE  UploadsTyped' /\ UploadsKept
<1> DEFINE f == call[c].ask.file
<1>1. CASE CreateFile(c)
  <2> DEFINE row == [there |-> "live", blob |-> call[c].ask.blob]
  <2>1. files' = [files EXCEPT ![f] = row] /\ UNCHANGED skills /\ files[f].there = "never"
    BY <1>1 DEF CreateFile, FileChange, AtStep
  <2>2. row.there \in Existence \ {"never"} /\ row = [there |-> row.there, blob |-> row.blob]
    BY DEF Existence
  <2> HIDE DEF row
  <2> QED BY <2>1, <2>2, FileRowKeeps
<1>2. CASE DeleteFile(c)
  <2> DEFINE row == [files[f] EXCEPT !.there = "deleted"]
  <2>1. files' = [files EXCEPT ![f] = row] /\ UNCHANGED skills
    BY <1>2 DEF DeleteFile, FileChange
  <2>2. f \in Files => DOMAIN files[f] = {"there", "blob"} /\ files[f] = [there |-> files[f].there, blob |-> files[f].blob]
    BY DEF UploadsTyped
  <2>3. f \in Files => row.there \in Existence \ {"never"} /\ row = [there |-> row.there, blob |-> row.blob]
                       /\ row.blob = files[f].blob
    BY <2>2 DEF Existence
  <2> HIDE DEF row
  <2> QED BY <2>1, <2>3, FileRowKeeps
<1> QED BY <1>1, <1>2

LEMMA SkillRowKeeps ==
  ASSUME UploadsTyped, NEW k, NEW row, skills' = [skills EXCEPT ![k] = row], UNCHANGED files,
         k \in Skills => /\ row.there \in Existence \ {"never"}
                         /\ row = [there |-> row.there, name |-> row.name, files |-> row.files]
                         /\ SafePaths(row.files) /\ IsList(row.files)
                         /\ skills[k].there # "never" => row.name = skills[k].name /\ row.files = skills[k].files
  PROVE  UploadsTyped' /\ UploadsKept
<1>1. PICK names, lists : skills \in [Skills -> [there : Existence, name : names, files : lists]]
  BY DEF UploadsTyped
<1> DEFINE more == names \cup {row.name}
           others == lists \cup {row.files}
<1>2. skills' \in [Skills -> [there : Existence, name : more, files : others]]
  BY <1>1
<1> HIDE DEF more, others
<1>3. \E n, l : skills' \in [Skills -> [there : Existence, name : n, files : l]]
  BY <1>2
<1>4. ASSUME NEW j \in Skills PROVE SafePaths(skills'[j].files) /\ IsList(skills'[j].files)
  <2>1. SafePaths(skills[j].files) /\ IsList(skills[j].files)
    BY DEF UploadsTyped
  <2>2. skills'[j] = row \/ skills'[j] = skills[j]
    BY <1>1
  <2> QED BY <1>1, <2>1, <2>2
<1>5. \A j \in Skills : skills[j].there # "never" =>
        skills'[j].there # "never" /\ skills'[j].name = skills[j].name /\ skills'[j].files = skills[j].files
  BY <1>1
<1> QED BY <1>3, <1>4, <1>5 DEF UploadsTyped, UploadsKept, SafePaths, IsList

LEMMA SkillChangesKeep ==
  ASSUME UploadsTyped, RequestsInv, NEW c \in Calls, CreateSkill(c) \/ DeleteSkill(c)
  PROVE  UploadsTyped' /\ UploadsKept
<1> DEFINE ask == call[c].ask
           k == ask.skill
<1>1. CASE CreateSkill(c)
  <2> DEFINE row == [there |-> "live", name |-> ask.name, files |-> ask.files]
             ok == ask.name # << >> /\ SafePaths(ask.files)
  <2>1. skills' = (IF ok THEN [skills EXCEPT ![k] = row] ELSE skills) /\ UNCHANGED files /\ skills[k].there = "never"
        /\ IsList(ask.files)
    BY <1>1 DEF CreateSkill, SkillChange, AtStep, RequestsInv, Uploads
  <2>2. row.there \in Existence \ {"never"} /\ row = [there |-> row.there, name |-> row.name, files |-> row.files]
        /\ row.files = ask.files
    BY DEF Existence
  <2>3. CASE ok
    <3> HIDE DEF row
    <3> QED BY <2>1, <2>2, <2>3, SkillRowKeeps
  <2>4. CASE ~ok
    BY <2>1, <2>4 DEF UploadsTyped, UploadsKept, SafePaths, IsList
  <2> QED BY <2>3, <2>4
<1>2. CASE DeleteSkill(c)
  <2> DEFINE row == [skills[k] EXCEPT !.there = "deleted"]
  <2>1. skills' = [skills EXCEPT ![k] = row] /\ UNCHANGED files
    BY <1>2 DEF DeleteSkill, SkillChange
  <2>2. k \in Skills => /\ DOMAIN skills[k] = {"there", "name", "files"} /\ SafePaths(skills[k].files) /\ IsList(skills[k].files)
    BY DEF UploadsTyped
  <2>3. k \in Skills => /\ row.there \in Existence \ {"never"} /\ row.name = skills[k].name /\ row.files = skills[k].files
                        /\ row = [there |-> row.there, name |-> row.name, files |-> row.files]
    BY <2>2 DEF Existence
  <2> HIDE DEF row
  <2> QED BY <2>1, <2>2, <2>3, SkillRowKeeps
<1> QED BY <1>1, <1>2

(***************************************************************************)
(* A turn and its workdir.                                                 *)
(***************************************************************************)
TurnSteps == {"off", "skills", "files", "resources", "reading", "ready"}
TurnFields ==
  {"pc", "left", "next", "specs", "spec", "seen", "read", "ids", "rows", "skillsShown", "shown", "lost", "count"}
IsTurn(t) == t = [f \in TurnFields |-> t[f]]

\* A workdir is a tree of files.
IsTree(wd) ==
  /\ \A p \in DOMAIN wd : InWorkdir(p)
  /\ \A p, q \in DOMAIN wd : ~IsStrictPrefix(p, q)

\* What the turn has written so far for what the prompt tells, or will tell if all
\* goes well, and for what it would have told.
SkillsPut(ks) == UNION {SkillFilesOf(k) : k \in ks}
ItemsPut(items) == UNION {Wrote(item) : item \in items}
FilesPut(t) == IF t.pc = "files" THEN {SkillFiles(Head(t.left))[i] : i \in 1 .. t.next - 1} ELSE {}
RowsPut(t) ==
  IF t.pc = "reading" THEN Placed(t.spec.dir, t.read \ t.rows) ELSE {}
Told(t) == SkillsPut(t.skillsShown) \cup FilesPut(t) \cup ItemsPut(t.shown) \cup RowsPut(t)
Traces(t) == Told(t) \cup ItemsPut(t.lost)

\* The place of w holds it, or another one of W that shares the place.
Stands(wd, w, W) == w[1] \in DOMAIN wd /\ \E v \in W : v[1] = w[1] /\ wd[w[1]] = v[2]
AllStand(wd, t) == \A w \in Told(t) : Stands(wd, w, Traces(t))

\* What the turn has in its hands is there, or has been.
IsFile(item) == "file" \in DOMAIN item
FileKept(item) == IsFile(item) => item.file \in Files /\ files[item.file].there # "never"
SkillKept(k) == k \in Skills /\ skills[k].there # "never"
Holdings(t) ==
  /\ \A item \in t.shown \cup t.lost : FileKept(item)
  /\ \A k \in t.skillsShown : SkillKept(k)
  /\ t.pc = "files" => /\ SkillKept(Head(t.left)) /\ t.next \in Nat \ {0}
                       /\ \A i \in 1 .. t.next - 1 : i \in DOMAIN SkillFiles(Head(t.left))
  /\ t.pc \in {"skills", "files"} => t.shown = {}
  /\ t.pc # "ready" => t.lost = {}

\* The memories of a store that nothing has happened to since they were listed have
\* been read as they are, or are still to be read.
Covered(seen, read, ids) ==
  \A id \in DOMAIN seen : SeenInv(id, seen[id]) /\ (Steady(id, seen[id]) => id \in ids \/ seen[id].row \in read)
Reads(t) ==
  /\ \A item \in t.shown : ~IsFile(item) => Covered(item.seen, item.read, {})
  /\ t.pc = "reading" => /\ Covered(t.seen, t.read, t.ids)
                         /\ t.rows \subseteq t.read /\ (t.ids # {} => t.rows = t.read)

TurnTyped(t) == IsTurn(t) /\ t.pc \in TurnSteps /\ t.count \in 0 .. MaxTurns
TurnInv(t, wd, gone) == TurnTyped(t) /\ IsTree(wd) /\ Holdings(t) /\ Reads(t) /\ (~gone => AllStand(wd, t))

MountInv ==
  /\ AgentInv /\ MemoryInv /\ RequestsInv /\ UploadsTyped
  /\ DOMAIN turn = Calls /\ DOMAIN workdir = Calls
  /\ \A s \in Calls : TurnInv(turn[s], workdir[s], Deleted(s))

(***************************************************************************)
(* What others do while a turn is under way.                               *)
(***************************************************************************)
LEMMA SkillFilesKept ==
  ASSUME UploadsKept, NEW k, SkillKept(k)
  PROVE  SkillKept(k)' /\ SkillFiles(k)' = SkillFiles(k) /\ SkillFilesOf(k)' = SkillFilesOf(k)
<1>1. skills'[k].there # "never" /\ skills'[k].name = skills[k].name /\ skills'[k].files = skills[k].files /\ k \in Skills
  BY DEF UploadsKept, SkillKept
<1>2. SkillFiles(k)' = SkillFiles(k)
  BY <1>1 DEF SkillFiles
<1> QED BY <1>1, <1>2 DEF SkillKept, SkillFilesOf

LEMMA WroteKept ==
  ASSUME UploadsKept, NEW item, FileKept(item)
  PROVE  FileKept(item)' /\ Wrote(item)' = Wrote(item)
BY DEF UploadsKept, FileKept, Wrote, IsFile

LEMMA ToldKept ==
  ASSUME UploadsKept, NEW t, Holdings(t)
  PROVE  Holdings(t)' /\ Told(t)' = Told(t) /\ Traces(t)' = Traces(t)
<1>1. \A k \in t.skillsShown : SkillKept(k)' /\ SkillFilesOf(k)' = SkillFilesOf(k)
  BY SkillFilesKept DEF Holdings
<1>2. \A item \in t.shown \cup t.lost : FileKept(item)' /\ Wrote(item)' = Wrote(item)
  BY WroteKept DEF Holdings
<1>3. t.pc = "files" => SkillKept(Head(t.left))' /\ SkillFiles(Head(t.left))' = SkillFiles(Head(t.left))
  BY SkillFilesKept DEF Holdings
<1>4. Holdings(t)'
  BY <1>1, <1>2, <1>3 DEF Holdings
<1>5. FilesPut(t)' = FilesPut(t) /\ RowsPut(t)' = RowsPut(t)
  BY <1>3 DEF FilesPut, RowsPut
<1>6. SkillsPut(t.skillsShown)' = SkillsPut(t.skillsShown)
  BY <1>1 DEF SkillsPut
<1>7. ItemsPut(t.shown)' = ItemsPut(t.shown) /\ ItemsPut(t.lost)' = ItemsPut(t.lost)
  BY <1>2 DEF ItemsPut
<1>8. Told(t)' = Told(t)
  BY <1>5, <1>6, <1>7 DEF Told
<1> QED BY <1>4, <1>7, <1>8 DEF Traces

\* The memories: any request takes a step, or none does.
MemoryMoves == (\E r \in Requests : MemoryStep(r)) \/ UNCHANGED memoryVars

LEMMA MovesBack ==
  ASSUME MemoryInv, MemoryInv', MemoryMoves, NEW id, NEW then, SeenInv(id, then)
  PROVE  SeenInv(id, then)' /\ (Steady(id, then)' => Steady(id, then))
<1>1. CASE UNCHANGED memoryVars
  BY <1>1 DEF memoryVars, SeenInv, Steady, Inserted, Known, VersionsOf, Live, Pending, Unwritten
<1> QED BY <1>1, SteadyBack DEF MemoryMoves

LEMMA ReadsKept ==
  ASSUME MemoryInv, MemoryInv', MemoryMoves, NEW t, Reads(t)
  PROVE  Reads(t)'
<1>1. ASSUME NEW seen, NEW read, NEW ids, Covered(seen, read, ids) PROVE Covered(seen, read, ids)'
  BY <1>1, MovesBack DEF Covered
<1> QED BY <1>1 DEF Reads, IsFile

LEMMA TurnKept ==
  ASSUME MemoryInv, MemoryInv', MemoryMoves, UploadsKept, NEW t, NEW wd, NEW gone, TurnInv(t, wd, gone)
  PROVE  TurnInv(t, wd, gone)'
<1>1. Holdings(t)' /\ Told(t)' = Told(t) /\ Traces(t)' = Traces(t) /\ Reads(t)'
  BY ToldKept, ReadsKept DEF TurnInv
<1>2. AllStand(wd, t)' <=> AllStand(wd, t)
  BY <1>1 DEF AllStand, Stands
<1> QED BY <1>1, <1>2 DEF TurnInv, TurnTyped, IsTurn, IsTree, InWorkdir

(***************************************************************************)
(* One step of a turn: turn t becomes u, its workdir wd becomes wd2.       *)
(***************************************************************************)
Leads(s, u, wd2) ==
  /\ Becomes(s, u)
  /\ (UNCHANGED workdir /\ wd2 = workdir[s]) \/ workdir' = [workdir EXCEPT ![s] = wd2]

LEMMA StillStands ==
  ASSUME NEW wd, NEW t, NEW u, AllStand(wd, t), Told(u) \subseteq Told(t), Traces(t) \subseteq Traces(u)
  PROVE  AllStand(wd, u)
BY DEF AllStand, Stands

LEMMA PutStands ==
  ASSUME NEW wd, NEW t, NEW u, NEW p, NEW content, AllStand(wd, t),
         \A w \in Told(u) : w \in Told(t) \/ w = <<p, content>>, Traces(t) \subseteq Traces(u), <<p, content>> \in Traces(u)
  PROVE  AllStand(Write(wd, p, content), u)
<1> DEFINE wd2 == Write(wd, p, content)
<1>1. DOMAIN wd2 = DOMAIN wd \cup {p} /\ wd2[p] = content /\ \A q \in DOMAIN wd \ {p} : wd2[q] = wd[q]
  BY DEF Write
<1> HIDE DEF wd2
<1>2. ASSUME NEW w \in Told(u) PROVE Stands(wd2, w, Traces(u))
  <2>1. CASE w[1] = p
    BY <1>1, <2>1 DEF Stands
  <2>2. CASE w[1] # p
    BY <1>1, <1>2, <2>2 DEF Stands, AllStand
  <2> QED BY <2>1, <2>2
<1> QED BY <1>2 DEF AllStand, wd2

LEMMA SameShown ==
  ASSUME NEW t, NEW u, u.skillsShown = t.skillsShown, u.shown = t.shown, u.lost = t.lost
  PROVE  \E A, B : /\ Told(t) = A \cup FilesPut(t) \cup RowsPut(t) /\ Told(u) = A \cup FilesPut(u) \cup RowsPut(u)
                   /\ Traces(t) = Told(t) \cup B /\ Traces(u) = Told(u) \cup B
<1> DEFINE A == SkillsPut(t.skillsShown) \cup ItemsPut(t.shown)
           B == ItemsPut(t.lost)
<1>1. Told(t) = A \cup FilesPut(t) \cup RowsPut(t) /\ Told(u) = A \cup FilesPut(u) \cup RowsPut(u)
  BY DEF Told
<1>2. Traces(t) = Told(t) \cup B /\ Traces(u) = Told(u) \cup B
  BY DEF Traces
<1> HIDE DEF A, B
<1> QED BY <1>1, <1>2

LEMMA PutsOf ==
  /\ \A ks, k : SkillsPut(ks \cup {k}) = SkillsPut(ks) \cup SkillFilesOf(k)
  /\ \A items, item : ItemsPut(items \cup {item}) = ItemsPut(items) \cup Wrote(item)
  /\ SkillsPut({}) = {} /\ ItemsPut({}) = {}
<1>1. ASSUME NEW ks, NEW k PROVE SkillsPut(ks \cup {k}) = SkillsPut(ks) \cup SkillFilesOf(k)
  <2>1. \A w : w \in SkillsPut(ks \cup {k}) <=> w \in SkillsPut(ks) \/ w \in SkillFilesOf(k)
    BY DEF SkillsPut
  <2> QED BY <2>1
<1>2. ASSUME NEW items, NEW item PROVE ItemsPut(items \cup {item}) = ItemsPut(items) \cup Wrote(item)
  <2>1. \A w : w \in ItemsPut(items \cup {item}) <=> w \in ItemsPut(items) \/ w \in Wrote(item)
    BY DEF ItemsPut
  <2> QED BY <2>1
<1> QED BY <1>1, <1>2 DEF SkillsPut, ItemsPut

LEMMA PutTree ==
  ASSUME NEW wd, NEW p, NEW content, IsTree(wd), Writable(wd, p)
  PROVE  IsTree(Write(wd, p, content))
<1>1. DOMAIN Write(wd, p, content) = DOMAIN wd \cup {p} /\ ~IsStrictPrefix(p, p)
  BY DEF Write, IsStrictPrefix
<1> QED BY <1>1 DEF IsTree, Writable

LEMMA BeginTurnGood ==
  ASSUME NEW s \in Calls, NEW gone, TurnInv(turn[s], workdir[s], gone), BeginTurn(s)
  PROVE  \E u, wd2 : Leads(s, u, wd2) /\ TurnInv(u, wd2, gone)
<1> DEFINE t == turn[s]
           u == [NoTurn EXCEPT !.pc = "skills", !.left = sessions[s].snapshot.skills, !.count = t.count + 1]
<1>1. Leads(s, u, workdir[s]) /\ t.count < MaxTurns /\ TurnTyped(t) /\ IsTree(workdir[s])
  BY DEF BeginTurn, Leads, TurnInv
<1>2. IsTurn(u) /\ u.pc = "skills" /\ u.count = t.count + 1 /\ u.skillsShown = {} /\ u.shown = {} /\ u.lost = {}
  BY DEF NoTurn, IsTurn, TurnFields
<1> HIDE DEF u
<1>3. TurnTyped(u)
  BY <1>1, <1>2, MountAssumption DEF TurnTyped, TurnSteps
<1>4. Holdings(u) /\ Reads(u) /\ Told(u) = {}
  BY <1>2 DEF Holdings, Reads, Told, SkillsPut, ItemsPut, FilesPut, RowsPut
<1> QED BY <1>1, <1>3, <1>4 DEF TurnInv, AllStand

\* A turn that goes on with its next step, and nothing new in its hands.
LEMMA SkillsFailGood ==
  ASSUME NEW s \in Calls, NEW gone, TurnInv(turn[s], workdir[s], gone), SkillsFail(s), UNCHANGED workdir,
         turn[s].pc \in {"skills", "files"}
  PROVE  \E u, wd2 : Leads(s, u, wd2) /\ TurnInv(u, wd2, gone)
<1> DEFINE t == turn[s]
           u == [t EXCEPT !.pc = "skills", !.left = << >>, !.skillsShown = {}]
<1>1. Leads(s, u, workdir[s]) /\ TurnTyped(t) /\ IsTree(workdir[s]) /\ Holdings(t)
  BY DEF SkillsFail, Leads, TurnInv
<1>2. IsTurn(u) /\ u.pc = "skills" /\ u.count = t.count /\ u.skillsShown = {} /\ u.shown = t.shown /\ u.lost = t.lost
  BY <1>1 DEF IsTurn, TurnTyped, TurnFields
<1> HIDE DEF u
<1>3. TurnTyped(u)
  BY <1>1, <1>2 DEF TurnTyped, TurnSteps
<1>4. u.shown = {} /\ u.lost = {}
  BY <1>1, <1>2 DEF Holdings
<1>5. Holdings(u) /\ Reads(u) /\ Told(u) = {}
  BY <1>2, <1>4 DEF Holdings, Reads, Told, SkillsPut, ItemsPut, FilesPut, RowsPut
<1> QED BY <1>1, <1>3, <1>5 DEF TurnInv, AllStand

LEMMA ReadSkillGood ==
  ASSUME NEW s \in Calls, NEW gone, TurnInv(turn[s], workdir[s], gone), ReadSkill(s)
  PROVE  \E u, wd2 : Leads(s, u, wd2) /\ TurnInv(u, wd2, gone)
<1> DEFINE t == turn[s]
           u == [t EXCEPT !.pc = "files", !.next = 1]
<1>1. CASE SkillThere(Head(t.left)) /\ Becomes(s, u)
  <2>1. Leads(s, u, workdir[s]) /\ TurnTyped(t) /\ IsTree(workdir[s]) /\ Holdings(t) /\ t.pc = "skills" /\ SkillKept(Head(t.left))
    BY <1>1 DEF ReadSkill, TurnAt, Leads, TurnInv, SkillThere, SkillKept
  <2>2. /\ IsTurn(u) /\ u.pc = "files" /\ u.next = 1 /\ u.left = t.left /\ u.count = t.count
        /\ u.skillsShown = t.skillsShown /\ u.shown = t.shown /\ u.lost = t.lost
    BY <2>1 DEF IsTurn, TurnTyped, TurnFields
  <2> HIDE DEF u
  <2>3. TurnTyped(u)
    BY <2>1, <2>2 DEF TurnTyped, TurnSteps
  <2>4. FilesPut(u) = {} /\ FilesPut(t) = {} /\ RowsPut(u) = {} /\ RowsPut(t) = {}
    BY <2>1, <2>2 DEF FilesPut, RowsPut
  <2>5. Holdings(u) /\ Reads(u)
    BY <2>1, <2>2 DEF Holdings, Reads
  <2>6. Told(u) = Told(t) /\ Traces(u) = Traces(t)
    BY <2>2, <2>4 DEF Told, Traces
  <2> QED BY <2>1, <2>3, <2>5, <2>6, StillStands DEF TurnInv
<1>2. CASE SkillsFail(s)
  BY <1>2, SkillsFailGood DEF ReadSkill, TurnAt
<1> QED BY <1>1, <1>2 DEF ReadSkill

LEMMA WriteSkillFileGood ==
  ASSUME NEW s \in Calls, NEW gone, TurnInv(turn[s], workdir[s], gone), WriteSkillFile(s)
  PROVE  \E u, wd2 : Leads(s, u, wd2) /\ TurnInv(u, wd2, gone)
<1> DEFINE t == turn[s]
           list == SkillFiles(Head(t.left))
           p == list[t.next][1]
           content == list[t.next][2]
           u == [t EXCEPT !.next = @ + 1]
           wd2 == Write(workdir[s], p, content)
<1>1. CASE Writable(workdir[s], p) /\ Puts(s, p, content) /\ Becomes(s, u)
  <2>1. Leads(s, u, wd2) /\ TurnTyped(t) /\ IsTree(workdir[s]) /\ Holdings(t) /\ t.pc = "files" /\ t.next \in DOMAIN list
    BY <1>1 DEF WriteSkillFile, TurnAt, Leads, TurnInv, Puts
  <2>2. /\ IsTurn(u) /\ u.pc = "files" /\ u.next = t.next + 1 /\ u.left = t.left /\ u.count = t.count
        /\ u.skillsShown = t.skillsShown /\ u.shown = t.shown /\ u.lost = t.lost
    BY <2>1 DEF IsTurn, TurnTyped, TurnFields
  <2>3. list[t.next] = <<p, content>> /\ t.next \in Nat \ {0}
    BY <2>1 DEF SkillFiles, Holdings
  <2> HIDE DEF u, wd2, p, content
  <2>4. TurnTyped(u) /\ IsTree(wd2)
    BY <1>1, <2>1, <2>2, PutTree DEF TurnTyped, TurnSteps, wd2
  <2>5. \A i : i \in 1 .. u.next - 1 <=> i \in 1 .. t.next - 1 \/ i = t.next
    BY <2>2, <2>3
  <2>6. RowsPut(u) = {} /\ RowsPut(t) = {} /\ \A w : w \in FilesPut(u) <=> w \in FilesPut(t) \/ w = <<p, content>>
    BY <2>1, <2>2, <2>3, <2>5 DEF FilesPut, RowsPut
  <2>7. Holdings(u) /\ Reads(u)
    <3>1. u.next \in Nat \ {0} /\ \A i \in 1 .. u.next - 1 : i \in DOMAIN SkillFiles(Head(u.left))
      BY <2>1, <2>2, <2>3, <2>5 DEF Holdings
    <3>2. SkillKept(Head(u.left)) /\ u.lost = {} /\ u.shown = {}
      BY <2>1, <2>2 DEF Holdings
    <3> QED BY <2>1, <2>2, <3>1, <3>2 DEF Holdings, Reads
  <2>8. /\ \A w \in Told(u) : w \in Told(t) \/ w = <<p, content>>
        /\ Traces(t) \subseteq Traces(u) /\ <<p, content>> \in Traces(u)
    BY <2>2, <2>6, SameShown
  <2> QED BY <2>1, <2>4, <2>7, <2>8, PutStands DEF TurnInv, wd2
<1>2. CASE SkillsFail(s) /\ UNCHANGED workdir
  BY <1>2, SkillsFailGood DEF WriteSkillFile, TurnAt
<1> QED BY <1>1, <1>2 DEF WriteSkillFile

LEMMA SkillDoneGood ==
  ASSUME UploadsTyped, NEW s \in Calls, NEW gone, TurnInv(turn[s], workdir[s], gone), SkillDone(s)
  PROVE  \E u, wd2 : Leads(s, u, wd2) /\ TurnInv(u, wd2, gone)
<1> DEFINE t == turn[s]
           k == Head(t.left)
           list == SkillFiles(k)
           u == [t EXCEPT !.pc = "skills", !.left = Tail(@), !.skillsShown = @ \cup {k}]
<1>1. Leads(s, u, workdir[s]) /\ TurnTyped(t) /\ IsTree(workdir[s]) /\ Holdings(t) /\ t.pc = "files" /\ t.next \notin DOMAIN list
  BY DEF SkillDone, TurnAt, Leads, TurnInv
<1>2. /\ IsTurn(u) /\ u.pc = "skills" /\ u.count = t.count
      /\ u.skillsShown = t.skillsShown \cup {k} /\ u.shown = t.shown /\ u.lost = t.lost
  BY <1>1 DEF IsTurn, TurnTyped, TurnFields
<1>3. SkillKept(k) /\ t.next \in Nat \ {0} /\ (\A i \in 1 .. t.next - 1 : i \in DOMAIN list)
      /\ t.shown = {} /\ t.lost = {} /\ \A j \in t.skillsShown : SkillKept(j)
  BY <1>1 DEF Holdings
<1>4. SkillFilesOf(k) = FilesPut(t)
  <2>1. \E n \in Nat : DOMAIN list = 1 .. n
    <3>1. IsList(skills[k].files) /\ DOMAIN list = DOMAIN skills[k].files
      BY <1>3 DEF UploadsTyped, SkillKept, SkillFiles
    <3>2. skills[k].files \in Seq(Range(skills[k].files))
      BY <3>1 DEF IsList
    <3>3. Len(skills[k].files) \in Nat /\ DOMAIN skills[k].files = 1 .. Len(skills[k].files)
      BY <3>2
    <3> QED BY <3>1, <3>3
  <2>2. PICK n \in Nat : DOMAIN list = 1 .. n
    BY <2>1
  <2>3. \A i : i \in DOMAIN list <=> i \in 1 .. t.next - 1
    BY <1>1, <1>3, <2>2
  <2>4. SkillFilesOf(k) = {list[i] : i \in DOMAIN list}
    BY DEF SkillFilesOf, Range
  <2> HIDE DEF list
  <2> QED BY <1>1, <2>3, <2>4 DEF FilesPut, list
<1> HIDE DEF u, k, list
<1>5. TurnTyped(u)
  BY <1>1, <1>2 DEF TurnTyped, TurnSteps
<1>6. Holdings(u) /\ Reads(u)
  BY <1>2, <1>3 DEF Holdings, Reads
<1>7. Told(u) = Told(t) /\ Traces(u) = Traces(t)
  <2>1. FilesPut(u) = {} /\ RowsPut(u) = {} /\ RowsPut(t) = {}
    BY <1>1, <1>2 DEF FilesPut, RowsPut
  <2>2. Told(u) = Told(t)
    BY <1>2, <1>4, <2>1, PutsOf DEF Told
  <2> QED BY <1>2, <2>2 DEF Traces
<1> QED BY <1>1, <1>5, <1>6, <1>7, StillStands DEF TurnInv

\* A step that leaves what is shown and written as it is.
HandsKept(t, u) ==
  /\ IsTurn(u) /\ u.pc \in TurnSteps /\ u.count = t.count /\ u.skillsShown = t.skillsShown /\ u.shown = t.shown /\ u.lost = t.lost

LEMMA HandsKeptGood ==
  ASSUME NEW s \in Calls, NEW gone, NEW t, t = turn[s], TurnInv(t, workdir[s], gone), NEW u, Becomes(s, u), UNCHANGED workdir,
         HandsKept(t, u), t.pc # "ready", u.pc # "files", u.pc = "skills" => t.pc = "skills",
         Reads(u), RowsPut(u) = RowsPut(t), t.pc # "files"
  PROVE  \E wd2 : Leads(s, u, wd2) /\ TurnInv(u, wd2, gone)
<1>1. Leads(s, u, workdir[s]) /\ TurnTyped(t) /\ IsTree(workdir[s]) /\ Holdings(t)
  BY DEF Leads, TurnInv
<1>2. TurnTyped(u) /\ Holdings(u)
  BY <1>1 DEF TurnTyped, Holdings, HandsKept
<1>3. FilesPut(u) = {} /\ FilesPut(t) = {}
  BY DEF FilesPut
<1>4. Told(u) = Told(t) /\ Traces(u) = Traces(t)
  BY <1>3 DEF HandsKept, Told, Traces
<1> QED BY <1>1, <1>2, <1>4, StillStands DEF TurnInv

LEMMA ParseStoreGood ==
  ASSUME NEW s \in Calls, NEW gone, TurnInv(turn[s], workdir[s], gone), ParseStore(s)
  PROVE  \E u, wd2 : Leads(s, u, wd2) /\ TurnInv(u, wd2, gone)
<1> DEFINE t == turn[s]
<1>1. t.pc = "resources" /\ TurnTyped(t) /\ Reads(t) /\ UNCHANGED workdir
  BY DEF ParseStore, TurnAt, TurnInv
<1>2. \E left, specs : Becomes(s, [t EXCEPT !.left = left, !.specs = specs]) \/ Becomes(s, [t EXCEPT !.left = left])
  BY DEF ParseStore
<1>3. PICK left, specs : Becomes(s, [t EXCEPT !.left = left, !.specs = specs]) \/ Becomes(s, [t EXCEPT !.left = left])
  BY <1>2
<1> DEFINE a == [t EXCEPT !.left = left, !.specs = specs]
           b == [t EXCEPT !.left = left]
<1>4. a.pc = "resources" /\ b.pc = "resources" /\ HandsKept(t, a) /\ HandsKept(t, b)
  BY <1>1 DEF IsTurn, TurnTyped, TurnFields, HandsKept, TurnSteps
<1>5. Becomes(s, a) \/ Becomes(s, b)
  BY <1>3
<1> HIDE DEF a, b
<1>6. ASSUME NEW u, u.pc = "resources", HandsKept(t, u) PROVE Reads(u) /\ RowsPut(u) = RowsPut(t)
  BY <1>1, <1>6 DEF Reads, RowsPut, HandsKept
<1> QED BY <1>1, <1>4, <1>5, <1>6, HandsKeptGood

LEMMA MountFailsGood ==
  ASSUME NEW s \in Calls, NEW gone, TurnInv(turn[s], workdir[s], gone), MountFails(s), UNCHANGED workdir,
         turn[s].pc \in {"skills", "resources", "reading"}
  PROVE  \E u, wd2 : Leads(s, u, wd2) /\ TurnInv(u, wd2, gone)
<1> DEFINE t == turn[s]
           item == InWork(t)
           u == [t EXCEPT !.pc = "ready", !.shown = {}, !.lost = t.shown \cup {item}]
<1>1. Leads(s, u, workdir[s]) /\ TurnTyped(t) /\ IsTree(workdir[s]) /\ Holdings(t)
  BY DEF MountFails, Leads, TurnInv
<1>2. /\ IsTurn(u) /\ u.pc = "ready" /\ u.count = t.count
      /\ u.skillsShown = t.skillsShown /\ u.shown = {} /\ u.lost = t.shown \cup {item}
  BY <1>1 DEF IsTurn, TurnTyped, TurnFields
<1>3. ~IsFile(item) /\ item.spec = t.spec /\ item.read = t.read
  BY DEF InWork, IsFile
<1> HIDE DEF u, item
<1>4. TurnTyped(u)
  BY <1>1, <1>2 DEF TurnTyped, TurnSteps
<1>5. Holdings(u) /\ Reads(u)
  BY <1>1, <1>2, <1>3 DEF Holdings, Reads, FileKept
<1>6. RowsPut(t) \subseteq Wrote(item)
  BY <1>3 DEF RowsPut, Wrote, IsFile, Placed
<1>7. FilesPut(u) = {} /\ RowsPut(u) = {} /\ FilesPut(t) = {} /\ t.lost = {}
  BY <1>1, <1>2 DEF FilesPut, RowsPut, Holdings
<1>8. ItemsPut(u.lost) = ItemsPut(t.shown) \cup Wrote(item) /\ ItemsPut(u.shown) = {} /\ ItemsPut(t.lost) = {}
  BY <1>2, <1>7, PutsOf
<1>9. Told(u) \subseteq Told(t)
  BY <1>2, <1>7, <1>8 DEF Told
<1>10. Traces(t) \subseteq Traces(u)
  BY <1>2, <1>6, <1>7, <1>8 DEF Told, Traces
<1> QED BY <1>1, <1>4, <1>5, <1>9, <1>10, StillStands DEF TurnInv

LEMMA ListResourcesGood ==
  ASSUME NEW s \in Calls, NEW gone, TurnInv(turn[s], workdir[s], gone), ListResources(s)
  PROVE  \E u, wd2 : Leads(s, u, wd2) /\ TurnInv(u, wd2, gone)
<1> DEFINE t == turn[s]
<1>1. t.pc = "skills" /\ TurnTyped(t) /\ Reads(t) /\ UNCHANGED workdir
  BY DEF ListResources, TurnAt, TurnInv
<1>2. ASSUME NEW order, Becomes(s, [t EXCEPT !.pc = "resources", !.left = order])
      PROVE  \E u, wd2 : Leads(s, u, wd2) /\ TurnInv(u, wd2, gone)
  <2> DEFINE u == [t EXCEPT !.pc = "resources", !.left = order]
  <2>1. u.pc = "resources" /\ HandsKept(t, u)
    BY <1>1 DEF IsTurn, TurnTyped, TurnFields, HandsKept, TurnSteps
  <2>2. Becomes(s, u)
    BY <1>2
  <2> HIDE DEF u
  <2>3. Reads(u) /\ RowsPut(u) = RowsPut(t)
    BY <1>1, <2>1 DEF Reads, RowsPut, HandsKept
  <2> QED BY <1>1, <2>1, <2>2, <2>3, HandsKeptGood
<1>3. CASE MountFails(s)
  BY <1>1, <1>3, MountFailsGood
<1> QED BY <1>2, <1>3 DEF ListResources

LEMMA MountFileGood ==
  ASSUME NEW s \in Calls, NEW gone, TurnInv(turn[s], workdir[s], gone), MountFile(s)
  PROVE  \E u, wd2 : Leads(s, u, wd2) /\ TurnInv(u, wd2, gone)
<1> DEFINE t == turn[s]
           res == Head(t.left).res
           blob == files[res.file].blob
<1>1. t.pc = "resources" /\ TurnTyped(t) /\ Reads(t) /\ IsTree(workdir[s]) /\ Holdings(t)
  BY DEF MountFile, TurnAt, TurnInv
<1>2. CASE ~Mountable(res) /\ Becomes(s, [t EXCEPT !.left = Tail(@)]) /\ UNCHANGED workdir
  <2> DEFINE u == [t EXCEPT !.left = Tail(@)]
  <2>1. Becomes(s, u) /\ UNCHANGED workdir
    BY <1>2
  <2>2. u.pc = "resources" /\ HandsKept(t, u)
    BY <1>1 DEF IsTurn, TurnTyped, TurnFields, HandsKept, TurnSteps
  <2> HIDE DEF u
  <2>3. Reads(u) /\ RowsPut(u) = RowsPut(t)
    BY <1>1, <2>2 DEF Reads, RowsPut, HandsKept
  <2> QED BY <1>1, <2>1, <2>2, <2>3, HandsKeptGood
<1>3. CASE /\ Mountable(res) /\ FileThere(res.file) /\ Writable(workdir[s], res.path)
           /\ Puts(s, res.path, blob)
           /\ Becomes(s, [t EXCEPT !.left = Tail(@), !.shown = @ \cup {[file |-> res.file, path |-> res.path]}])
  <2> DEFINE item == [file |-> res.file, path |-> res.path]
             u == [t EXCEPT !.left = Tail(@), !.shown = @ \cup {item}]
             wd2 == Write(workdir[s], res.path, blob)
  <2>1. Leads(s, u, wd2)
    BY <1>3 DEF Leads, Puts
  <2>2. /\ IsTurn(u) /\ u.pc = "resources" /\ u.count = t.count
        /\ u.skillsShown = t.skillsShown /\ u.shown = t.shown \cup {item} /\ u.lost = t.lost
    BY <1>1 DEF IsTurn, TurnTyped, TurnFields
  <2>3. IsFile(item) /\ FileKept(item) /\ Wrote(item) = {<<res.path, blob>>}
    BY <1>3 DEF IsFile, FileKept, Wrote, FileThere
  <2> HIDE DEF u, wd2, item, blob, res
  <2>4. TurnTyped(u) /\ IsTree(wd2)
    BY <1>1, <1>3, <2>2, PutTree DEF TurnTyped, TurnSteps, wd2
  <2>5. Holdings(u) /\ Reads(u)
    BY <1>1, <2>2, <2>3 DEF Holdings, Reads
  <2>6. FilesPut(u) = {} /\ RowsPut(u) = {} /\ FilesPut(t) = {} /\ RowsPut(t) = {}
    BY <1>1, <2>2 DEF FilesPut, RowsPut
  <2>7. Told(u) = Told(t) \cup {<<res.path, blob>>}
    BY <2>2, <2>3, <2>6, PutsOf DEF Told
  <2>8. Traces(u) = Traces(t) \cup {<<res.path, blob>>}
    BY <2>2, <2>7 DEF Traces
  <2>9. /\ \A w \in Told(u) : w \in Told(t) \/ w = <<res.path, blob>>
        /\ Traces(t) \subseteq Traces(u) /\ <<res.path, blob>> \in Traces(u)
    BY <2>7, <2>8
  <2>10. ~gone => AllStand(wd2, u)
    BY <2>9, PutStands DEF TurnInv, wd2
  <2> QED BY <2>1, <2>4, <2>5, <2>10 DEF TurnInv
<1>4. CASE MountFails(s) /\ UNCHANGED workdir
  BY <1>1, <1>4, MountFailsGood
<1> QED BY <1>2, <1>3, <1>4 DEF MountFile

LEMMA ListIdsGood ==
  ASSUME MemoryInv, NEW s \in Calls, NEW gone, TurnInv(turn[s], workdir[s], gone), ListIds(s)
  PROVE  \E u, wd2 : Leads(s, u, wd2) /\ TurnInv(u, wd2, gone)
<1> DEFINE t == turn[s]
<1>1. t.pc = "resources" /\ TurnTyped(t) /\ Reads(t) /\ UNCHANGED workdir
  BY DEF ListIds, TurnAt, TurnInv
<1>8. CASE MountFails(s)
  BY <1>1, <1>8, MountFailsGood
<1>2. SUFFICES ASSUME NEW ids, ids \subseteq DOMAIN memories,
                      Becomes(s, [t EXCEPT !.pc = "reading", !.specs = Tail(@), !.spec = Head(t.specs),
                                           !.seen = [id \in ids |-> AsListed(id)], !.read = {}, !.ids = ids, !.rows = {}])
               PROVE  \E u, wd2 : Leads(s, u, wd2) /\ TurnInv(u, wd2, gone)
  BY <1>8 DEF ListIds
<1> DEFINE seen == [id \in ids |-> AsListed(id)]
           u == [t EXCEPT !.pc = "reading", !.specs = Tail(@), !.spec = Head(t.specs),
                          !.seen = seen, !.read = {}, !.ids = ids, !.rows = {}]
<1>3. u.pc = "reading" /\ HandsKept(t, u) /\ u.seen = seen /\ u.read = {} /\ u.ids = ids /\ u.rows = {}
  BY <1>1 DEF IsTurn, TurnTyped, TurnFields, HandsKept, TurnSteps
<1>4. Becomes(s, u)
  BY <1>2
<1>5. Covered(seen, {}, ids)
  <2> SUFFICES ASSUME NEW id \in ids PROVE SeenInv(id, AsListed(id))
    BY DEF Covered
  <2>1. Known(id) /\ id \in MemoryIds
    BY <1>2 DEF Known, MemoryInv, TablesInv, MemoryTypeOK
  <2>2. id \in Requests => Inserted(id)
    BY <2>1 DEF MemoryInv, FreshInv
  <2>3. Cardinality(VersionsOf(id)) \in Nat
    <3>1. history \in Seq(Versions)
      BY DEF MemoryInv, TablesInv
    <3>2. Len(history) \in Nat /\ VersionsOf(id) \subseteq 1 .. Len(history)
      BY <3>1 DEF VersionsOf
    <3> QED BY <3>2, SomeNumbers
  <2>4. AsListed(id).versions = Cardinality(VersionsOf(id))
    BY DEF AsListed
  <2> QED BY <2>1, <2>2, <2>3, <2>4 DEF SeenInv
<1> HIDE DEF u, seen
<1>6. RowsPut(u) = {} /\ RowsPut(t) = {}
  BY <1>1, <1>3 DEF RowsPut, Placed
<1>7. Reads(u)
  BY <1>1, <1>3, <1>5 DEF Reads, HandsKept
<1> QED BY <1>1, <1>3, <1>4, <1>6, <1>7, HandsKeptGood

LEMMA ReadMemoryGood ==
  ASSUME NEW s \in Calls, NEW gone, TurnInv(turn[s], workdir[s], gone), ReadMemory(s)
  PROVE  \E u, wd2 : Leads(s, u, wd2) /\ TurnInv(u, wd2, gone)
<1> DEFINE t == turn[s]
<1>1. t.pc = "reading" /\ TurnTyped(t) /\ Reads(t) /\ UNCHANGED workdir
  BY DEF ReadMemory, TurnAt, TurnInv
<1>2. PICK id \in t.ids :
        \/ Known(id) /\ Becomes(s, [t EXCEPT !.ids = @ \ {id}, !.read = @ \cup {memories[id]}, !.rows = @ \cup {memories[id]}])
        \/ MountFails(s)
  BY DEF ReadMemory
<1>3. CASE Known(id) /\ Becomes(s, [t EXCEPT !.ids = @ \ {id}, !.read = @ \cup {memories[id]}, !.rows = @ \cup {memories[id]}])
  <2> DEFINE row == memories[id]
             u == [t EXCEPT !.ids = @ \ {id}, !.read = @ \cup {row}, !.rows = @ \cup {row}]
  <2>1. Becomes(s, u)
    BY <1>2, <1>3
  <2>2. /\ u.pc = "reading" /\ HandsKept(t, u) /\ u.seen = t.seen /\ u.spec = t.spec
        /\ u.ids = t.ids \ {id} /\ u.read = t.read \cup {row} /\ u.rows = t.rows \cup {row}
    BY <1>1 DEF IsTurn, TurnTyped, TurnFields, HandsKept, TurnSteps
  <2>3. t.rows = t.read
    BY <1>1, <1>2 DEF Reads
  <2>4. Covered(t.seen, t.read, t.ids)
    BY <1>1 DEF Reads
  <2>5. Covered(t.seen, t.read \cup {row}, t.ids \ {id})
    BY <2>4 DEF Covered, Steady
  <2> HIDE DEF u, row
  <2>6. Reads(u)
    BY <1>1, <2>2, <2>3, <2>5 DEF Reads, HandsKept
  <2>7. RowsPut(u) = {} /\ RowsPut(t) = {}
    <3>1. u.read \ u.rows = {} /\ t.read \ t.rows = {}
      BY <2>2, <2>3
    <3> QED BY <3>1 DEF RowsPut, Placed
  <2> QED BY <1>1, <2>1, <2>2, <2>6, <2>7, HandsKeptGood
<1>4. CASE MountFails(s)
  BY <1>1, <1>4, MountFailsGood
<1> QED BY <1>2, <1>3, <1>4

\* Of the rows of a store, what one more of them puts into the workdir.
LEMMA PlacedRow ==
  ASSUME NEW dir, NEW rows, NEW more, NEW row, \A x : x \in more <=> x \in rows \/ x = row
  PROVE  \A w : w \in Placed(dir, more) <=>
           w \in Placed(dir, rows) \/ (w = <<Place(dir, row.path), row.content>> /\ InWorkdir(Place(dir, row.path)))
BY DEF Placed

LEMMA WriteMemoryGood ==
  ASSUME NEW s \in Calls, NEW gone, TurnInv(turn[s], workdir[s], gone), WriteMemory(s)
  PROVE  \E u, wd2 : Leads(s, u, wd2) /\ TurnInv(u, wd2, gone)
<1> DEFINE t == turn[s]
<1>1. t.pc = "reading" /\ t.ids = {} /\ TurnTyped(t) /\ Reads(t) /\ IsTree(workdir[s]) /\ Holdings(t)
  BY DEF WriteMemory, TurnAt, TurnInv
<1>2. PICK row \in t.rows :
        LET place == Place(t.spec.dir, row.path)
            written == Becomes(s, [t EXCEPT !.rows = @ \ {row}])
        IN \/ Writable(workdir[s], place) /\ Puts(s, place, row.content) /\ written
           \/ ~InWorkdir(place) /\ written /\ UNCHANGED workdir
           \/ MountFails(s) /\ UNCHANGED workdir
  BY DEF WriteMemory
<1> DEFINE p == Place(t.spec.dir, row.path)
           content == row.content
           u == [t EXCEPT !.rows = @ \ {row}]
<1>3. /\ IsTurn(u) /\ u.pc = "reading" /\ u.count = t.count /\ u.seen = t.seen /\ u.spec = t.spec
      /\ u.ids = t.ids /\ u.read = t.read /\ u.rows = t.rows \ {row}
      /\ u.skillsShown = t.skillsShown /\ u.shown = t.shown /\ u.lost = t.lost
  BY <1>1 DEF IsTurn, TurnTyped, TurnFields
<1>4. t.rows \subseteq t.read /\ Covered(t.seen, t.read, t.ids)
  BY <1>1 DEF Reads
<1>5. \/ Writable(workdir[s], p) /\ Puts(s, p, content) /\ Becomes(s, u)
      \/ ~InWorkdir(p) /\ Becomes(s, u) /\ UNCHANGED workdir
      \/ MountFails(s) /\ UNCHANGED workdir
  BY <1>2
<1> HIDE DEF u
<1>6. TurnTyped(u) /\ Holdings(u) /\ Reads(u)
  BY <1>1, <1>3, <1>4 DEF TurnTyped, TurnSteps, Holdings, Reads
<1>7. \A w : w \in RowsPut(u) <=> w \in RowsPut(t) \/ (w = <<p, content>> /\ InWorkdir(p))
  <2>1. \A r : r \in u.read \ u.rows <=> r \in t.read \ t.rows \/ r = row
    BY <1>2, <1>3, <1>4
  <2>2. RowsPut(u) = Placed(t.spec.dir, u.read \ u.rows) /\ RowsPut(t) = Placed(t.spec.dir, t.read \ t.rows)
    BY <1>1, <1>3 DEF RowsPut
  <2>3. \A w : w \in Placed(t.spec.dir, u.read \ u.rows) <=>
                 w \in Placed(t.spec.dir, t.read \ t.rows) \/ (w = <<p, content>> /\ InWorkdir(p))
    <3> HIDE DEF t
    <3> QED BY <2>1, PlacedRow
  <2> QED BY <2>2, <2>3
<1> HIDE DEF p, content
<1>8. FilesPut(u) = {} /\ FilesPut(t) = {}
  BY <1>1, <1>3 DEF FilesPut
<1>9. CASE Writable(workdir[s], p) /\ Puts(s, p, content) /\ Becomes(s, u)
  <2> DEFINE wd2 == Write(workdir[s], p, content)
  <2>1. Leads(s, u, wd2)
    BY <1>9 DEF Leads, Puts
  <2> HIDE DEF wd2
  <2>2. IsTree(wd2) /\ InWorkdir(p)
    BY <1>1, <1>9, PutTree DEF wd2, Writable
  <2>3. /\ \A w \in Told(u) : w \in Told(t) \/ w = <<p, content>>
        /\ Traces(t) \subseteq Traces(u) /\ <<p, content>> \in Traces(u)
    BY <1>3, <1>7, <1>8, <2>2, SameShown
  <2>4. ~gone => AllStand(wd2, u)
    BY <2>3, PutStands DEF TurnInv, wd2
  <2> QED BY <1>6, <2>1, <2>2, <2>4 DEF TurnInv
<1>10. CASE ~InWorkdir(p) /\ Becomes(s, u) /\ UNCHANGED workdir
  <2>1. RowsPut(u) = RowsPut(t)
    BY <1>7, <1>10
  <2>2. Told(u) = Told(t) /\ Traces(u) = Traces(t)
    BY <1>3, <1>8, <2>1 DEF Told, Traces
  <2>3. Leads(s, u, workdir[s])
    BY <1>10 DEF Leads
  <2> QED BY <1>1, <1>6, <2>2, <2>3, StillStands DEF TurnInv
<1>11. CASE MountFails(s) /\ UNCHANGED workdir
  BY <1>1, <1>11, MountFailsGood
<1> QED BY <1>5, <1>9, <1>10, <1>11

LEMMA StoreDoneGood ==
  ASSUME NEW s \in Calls, NEW gone, TurnInv(turn[s], workdir[s], gone), StoreDone(s)
  PROVE  \E u, wd2 : Leads(s, u, wd2) /\ TurnInv(u, wd2, gone)
<1> DEFINE t == turn[s]
           item == InWork(t)
           u == [t EXCEPT !.pc = "resources", !.shown = @ \cup {item}]
<1>1. Leads(s, u, workdir[s]) /\ TurnTyped(t) /\ IsTree(workdir[s]) /\ Holdings(t) /\ Reads(t)
      /\ t.pc = "reading" /\ t.ids = {} /\ t.rows = {}
  BY DEF StoreDone, TurnAt, Leads, TurnInv
<1>2. /\ IsTurn(u) /\ u.pc = "resources" /\ u.count = t.count
      /\ u.skillsShown = t.skillsShown /\ u.shown = t.shown \cup {item} /\ u.lost = t.lost
  BY <1>1 DEF IsTurn, TurnTyped, TurnFields
<1>3. ~IsFile(item) /\ item.spec = t.spec /\ item.read = t.read /\ item.seen = t.seen
  BY DEF InWork, IsFile
<1> HIDE DEF u, item
<1>4. TurnTyped(u)
  BY <1>1, <1>2 DEF TurnTyped, TurnSteps
<1>5. Holdings(u) /\ Reads(u)
  BY <1>1, <1>2, <1>3 DEF Holdings, Reads, FileKept
<1>6. RowsPut(t) = Wrote(item)
  <2>1. t.read \ t.rows = t.read
    BY <1>1
  <2> QED BY <1>1, <1>3, <2>1 DEF RowsPut, Wrote, IsFile
<1>7. FilesPut(u) = {} /\ RowsPut(u) = {} /\ FilesPut(t) = {}
  BY <1>1, <1>2 DEF FilesPut, RowsPut
<1>8. Told(u) = Told(t)
  BY <1>2, <1>6, <1>7, PutsOf DEF Told
<1>9. Traces(u) = Traces(t)
  BY <1>2, <1>8 DEF Traces
<1> QED BY <1>1, <1>4, <1>5, <1>8, <1>9, StillStands DEF TurnInv

LEMMA MountDoneGood ==
  ASSUME NEW s \in Calls, NEW gone, TurnInv(turn[s], workdir[s], gone), MountDone(s)
  PROVE  \E u, wd2 : Leads(s, u, wd2) /\ TurnInv(u, wd2, gone)
<1> DEFINE t == turn[s]
           u == [t EXCEPT !.pc = "ready"]
<1>1. t.pc = "resources" /\ TurnTyped(t) /\ Reads(t) /\ Becomes(s, u) /\ UNCHANGED workdir
  BY DEF MountDone, TurnAt, TurnInv
<1>2. u.pc = "ready" /\ HandsKept(t, u)
  BY <1>1 DEF IsTurn, TurnTyped, TurnFields, HandsKept, TurnSteps
<1> HIDE DEF u
<1>3. Reads(u) /\ RowsPut(u) = RowsPut(t)
  BY <1>1, <1>2 DEF Reads, RowsPut, HandsKept
<1> QED BY <1>1, <1>2, <1>3, HandsKeptGood

LEMMA EndTurnGood ==
  ASSUME NEW s \in Calls, NEW gone, TurnInv(turn[s], workdir[s], gone), EndTurn(s)
  PROVE  \E u, wd2 : Leads(s, u, wd2) /\ TurnInv(u, wd2, gone)
<1> DEFINE t == turn[s]
           u == [NoTurn EXCEPT !.count = t.count]
<1>1. Becomes(s, u) /\ TurnTyped(t) /\ IsTree(workdir[s])
  BY DEF EndTurn, TurnInv
<1>2. PICK wd2 : Leads(s, u, wd2) /\ IsTree(wd2)
  <2>1. CASE UNCHANGED workdir
    BY <1>1, <2>1 DEF Leads
  <2>2. ASSUME NEW file \in AgentFiles, Writable(workdir[s], file[1]), Puts(s, file[1], file[2])
        PROVE  \E wd2 : Leads(s, u, wd2) /\ IsTree(wd2)
    <3> DEFINE wd2 == Write(workdir[s], file[1], file[2])
    <3>1. Leads(s, u, wd2)
      BY <1>1, <2>2 DEF Leads, Puts
    <3>2. IsTree(wd2)
      BY <1>1, <2>2, PutTree
    <3> QED BY <3>1, <3>2
  <2> QED BY <2>1, <2>2 DEF EndTurn
<1>3. IsTurn(u) /\ u.pc = "off" /\ u.count = t.count /\ u.skillsShown = {} /\ u.shown = {} /\ u.lost = {}
  BY DEF NoTurn, IsTurn, TurnFields
<1> HIDE DEF u
<1>4. TurnTyped(u)
  BY <1>1, <1>3 DEF TurnTyped, TurnSteps
<1>5. Holdings(u) /\ Reads(u) /\ Told(u) = {}
  BY <1>3 DEF Holdings, Reads, Told, SkillsPut, ItemsPut, FilesPut, RowsPut
<1> QED BY <1>2, <1>4, <1>5 DEF TurnInv, AllStand

LEMMA TurnStepGood ==
  ASSUME MemoryInv, UploadsTyped, NEW s \in Calls, NEW gone, TurnInv(turn[s], workdir[s], gone), TurnStep(s)
  PROVE  \E u, wd2 : Leads(s, u, wd2) /\ TurnInv(u, wd2, gone)
BY BeginTurnGood, ReadSkillGood, WriteSkillFileGood, SkillDoneGood, ListResourcesGood, ParseStoreGood, MountFileGood, ListIdsGood,
   ReadMemoryGood, WriteMemoryGood, StoreDoneGood, MountDoneGood, EndTurnGood DEF TurnStep

(***************************************************************************)
(* The invariant.                                                          *)
(***************************************************************************)
\* A session whose turn and workdir a step leaves alone.
LEMMA SessionKeeps ==
  ASSUME MemoryInv, MemoryInv', MemoryMoves, UploadsKept, NEW s \in Calls, TurnInv(turn[s], workdir[s], Deleted(s)),
         Deleted(s) => Deleted(s)', turn'[s] = turn[s], workdir'[s] = workdir[s] \/ (workdir'[s] = << >> /\ Deleted(s)')
  PROVE  TurnInv(turn[s], workdir[s], Deleted(s))'
<1>0. PICK gone \in BOOLEAN : gone = Deleted(s)
  BY DEF Deleted
<1>1. PICK t, wd : t = turn[s] /\ wd = workdir[s] /\ gone = Deleted(s)
  BY <1>0
<1>2. TurnInv(t, wd, gone)
  BY <1>1
<1>3. TurnInv(t, wd, gone)'
  BY <1>2, TurnKept
<1>4. turn'[s] = t /\ (gone => Deleted(s)')
  BY <1>1
<1>5. CASE workdir'[s] = wd
  BY <1>3, <1>4, <1>5 DEF TurnInv
<1>6. CASE workdir'[s] = << >> /\ Deleted(s)'
  <2>1. IsTree(<< >>)'
    BY DEF IsTree
  <2> QED BY <1>3, <1>4, <1>6, <2>1 DEF TurnInv
<1> QED BY <1>1, <1>5, <1>6

LEMMA TurnStepKeeps ==
  ASSUME MountInv, NEW s \in Calls, TurnStep(s)
  PROVE  MountInv'
<1>1. UNCHANGED <<files, skills>> /\ UNCHANGED agentVars /\ UNCHANGED memoryVars
  BY DEF TurnStep, BeginTurn, ReadSkill, WriteSkillFile, SkillDone, ListResources, ParseStore, MountFile, ListIds, ReadMemory,
         WriteMemory, StoreDone, MountDone, EndTurn, TurnUnchanged
<1>2. AgentInv' /\ MemoryInv'
  BY <1>1, NextAgentInv, StutterKeeps DEF MountInv
<1>3. MemoryMoves /\ UploadsKept /\ RequestsInv' /\ UploadsTyped' /\ \A c \in Calls : Deleted(c) <=> Deleted(c)'
  BY <1>1 DEF MemoryMoves, UploadsKept, MountInv, RequestsInv, Created, Destroys, Uploads, Deleted, AtStep, Asks, IsList,
              UploadsTyped, SafePaths, agentVars
<1>4. PICK u, wd2 : Leads(s, u, wd2) /\ TurnInv(u, wd2, Deleted(s))
  BY TurnStepGood DEF MountInv
<1>5. /\ DOMAIN turn' = Calls /\ DOMAIN workdir' = Calls /\ turn'[s] = u /\ workdir'[s] = wd2
      /\ \A c \in Calls \ {s} : turn'[c] = turn[c] /\ workdir'[c] = workdir[c]
  BY <1>4 DEF Leads, Becomes, MountInv
<1>6. ASSUME NEW c \in Calls PROVE TurnInv(turn[c], workdir[c], Deleted(c))'
  <2>1. CASE c # s
    BY <1>2, <1>3, <1>5, <2>1, SessionKeeps DEF MountInv
  <2>2. CASE c = s
    <3>1. PICK gone \in BOOLEAN : gone = Deleted(s)
      BY DEF Deleted
    <3>2. TurnInv(u, wd2, gone)
      BY <1>4, <3>1
    <3>3. TurnInv(u, wd2, gone)'
      BY <1>2, <1>3, <3>2, TurnKept DEF MountInv
    <3> QED BY <1>3, <1>5, <2>2, <3>1, <3>3 DEF TurnInv
  <2> QED BY <2>1, <2>2
<1> QED BY <1>2, <1>3, <1>5, <1>6 DEF MountInv

LEMMA MountStepKeeps ==
  ASSUME MountInv, MountStep
  PROVE  MountInv'
<1>1. ASSUME NEW c \in Calls, AgentInv', RequestsInv', \A s \in Calls : Deleted(s) => Deleted(s)', MemoryMoves, MemoryInv',
             UploadsTyped', UploadsKept, UNCHANGED <<turn, workdir>>
      PROVE  MountInv'
  BY <1>1, SessionKeeps DEF MountInv
<1>2. UNCHANGED memoryVars => MemoryMoves /\ MemoryInv'
  BY StutterKeeps DEF MountInv, MemoryMoves
<1>3. UNCHANGED <<files, skills>> => UploadsTyped' /\ UploadsKept
  <2> SUFFICES ASSUME UNCHANGED <<files, skills>> PROVE UploadsTyped' /\ UploadsKept
    OBVIOUS
  <2>1. UploadsTyped'
    BY DEF MountInv, UploadsTyped, SafePaths, IsList
  <2> QED BY <2>1 DEF UploadsKept
<1>4. ASSUME NEW c \in Calls, CreateFile(c) \/ DeleteFile(c) \/ CreateSkill(c) \/ DeleteSkill(c), UNCHANGED memoryVars
      PROVE  MountInv'
  <2>1. UNCHANGED <<turn, workdir>>
    BY <1>4 DEF CreateFile, DeleteFile, CreateSkill, DeleteSkill, FileChange, SkillChange
  <2>2. UploadsTyped' /\ UploadsKept
    BY <1>4, FileChangesKeep, SkillChangesKeep DEF MountInv
  <2> QED BY <1>1, <1>2, <1>4, <2>1, <2>2, FilesKeepAgents DEF MountInv
<1>5. ASSUME NEW c \in Calls, AddSessionResource(c) \/ UpdateSessionResource(c) \/ DeleteSessionResource(c), UNCHANGED memoryVars
      PROVE  MountInv'
  <2>1. UNCHANGED <<files, skills, turn, workdir>>
    BY <1>5 DEF AddSessionResource, UpdateSessionResource, DeleteSessionResource, ResourceChange, mountVars
  <2> QED BY <1>1, <1>2, <1>3, <1>5, <2>1, ResourcesKeep, ResourcesStay DEF MountInv
<1>6. ASSUME NEW c \in Calls, DestroySandbox(c), UNCHANGED memoryVars
      PROVE  MountInv'
  <2> DEFINE s == call[c].ask.session
  <2>1. /\ UNCHANGED <<files, skills, turn>> /\ workdir' = [workdir EXCEPT ![s] = << >>] /\ Destroys(c)
        /\ AtStep(c, "deleteSession", "destroy")
    BY <1>6 DEF DestroySandbox, MountInv, RequestsInv
  <2>2. AgentInv' /\ RequestsInv' /\ \A t \in Calls : Deleted(t) => Deleted(t)'
    BY <1>6, FilesKeepAgents DEF MountInv
  <2>3. PICK r : r = s
    OBVIOUS
  <2>4. Deleted(r) /\ (r \in Calls => Deleted(r)') /\ workdir' = [workdir EXCEPT ![r] = << >>]
    <3>1. Deleted(r)
      BY <2>1, <2>3 DEF Destroys
    <3> HIDE DEF s
    <3> QED BY <2>1, <2>2, <2>3, <3>1
  <2>5. DOMAIN workdir' = Calls /\ \A t \in Calls : workdir'[t] = workdir[t] \/ (workdir'[t] = << >> /\ Deleted(t)')
    BY <2>4 DEF MountInv
  <2>6. \A t \in Calls : TurnInv(turn[t], workdir[t], Deleted(t))'
    BY <1>2, <1>3, <1>6, <2>1, <2>2, <2>5, SessionKeeps DEF MountInv
  <2> QED BY <1>2, <1>3, <1>6, <2>1, <2>2, <2>5, <2>6 DEF MountInv
<1>7. ASSUME NEW c \in Calls, AgentStep(c), UNCHANGED memoryVars, UNCHANGED mountVars
      PROVE  MountInv'
  <2>1. AgentInv'
    BY <1>7, NextAgentInv DEF MountInv
  <2> QED BY <1>1, <1>2, <1>3, <1>7, <2>1, AgentStepStays DEF MountInv, mountVars
<1>8. ASSUME NEW r \in Requests, MemoryStep(r), UNCHANGED agentVars, UNCHANGED mountVars
      PROVE  MountInv'
  <2>1. AgentInv' /\ MemoryInv' /\ MemoryMoves
    BY <1>8, NextAgentInv, StepKeeps DEF MountInv, MemoryMoves
  <2>2. RequestsInv' /\ \A s \in Calls : Deleted(s) => Deleted(s)'
    BY <1>8 DEF agentVars, MountInv, RequestsInv, Created, Destroys, Uploads, Deleted, AtStep, Asks, IsList
  <2>3. \A s \in Calls : TurnInv(turn[s], workdir[s], Deleted(s))'
    BY <1>3, <1>8, <2>1, <2>2, SessionKeeps DEF MountInv, mountVars
  <2> QED BY <1>3, <1>8, <2>1, <2>2, <2>3 DEF MountInv, mountVars
<1> QED BY <1>4, <1>5, <1>6, <1>7, <1>8, TurnStepKeeps DEF MountStep

LEMMA MountStutters ==
  ASSUME MountInv, UNCHANGED <<agentVars, memoryVars, mountVars>>
  PROVE  MountInv'
<1>1. AgentInv' /\ MemoryInv' /\ MemoryMoves
  BY NextAgentInv, StutterKeeps DEF MountInv, MemoryMoves
<1>2. RequestsInv' /\ \A s \in Calls : Deleted(s) => Deleted(s)'
  BY DEF agentVars, MountInv, RequestsInv, Created, Destroys, Uploads, Deleted, AtStep, Asks, IsList
<1>3. UploadsTyped' /\ UploadsKept
  BY DEF mountVars, MountInv, UploadsTyped, UploadsKept, SafePaths, IsList
<1>4. \A s \in Calls : TurnInv(turn[s], workdir[s], Deleted(s))'
  BY <1>1, <1>2, <1>3, SessionKeeps DEF MountInv, mountVars
<1> QED BY <1>1, <1>2, <1>3, <1>4 DEF MountInv, mountVars

LEMMA MountStarts ==
  ASSUME AgentStart, MemoryStart, MountStart
  PROVE  MountInv
<1>1. AgentInv /\ MemoryInv
  BY InitAgentInv, InitMemoryInv
<1>2. (DOMAIN sessions = {}) /\ \A c \in Calls : call[c].pc = "new"
  <2>1. PICK asks, first, known : AgentInit(asks, first, known)
    BY DEF AgentStart
  <2> QED BY <2>1 DEF AgentInit, NewCall
<1>3. RequestsInv /\ \A s : ~Deleted(s)
  BY <1>2 DEF RequestsInv, Created, Destroys, Uploads, Deleted, AtStep, MountStart
<1>4. PICK F \in SUBSET Files, K \in SUBSET Skills, turns \in 0 .. MaxTurns :
        /\ \A k \in K : SafePaths(skills[k].files) /\ IsList(skills[k].files)
        /\ MountInit([f \in F |-> files[f].blob], [k \in K |-> skills[k]], turns)
  BY DEF MountStart
<1>5. UploadsTyped
  <2>1. \A f \in Files : files[f].there \in Existence /\ files[f] = [there |-> files[f].there, blob |-> files[f].blob]
    BY <1>4 DEF MountInit, Existence
  <2>2. files = [f \in Files |-> files[f]] /\ skills = [k \in Skills |-> skills[k]]
    BY <1>4 DEF MountInit
  <2>3. ASSUME NEW k \in Skills
        PROVE  /\ skills[k].there \in Existence
               /\ skills[k] = [there |-> skills[k].there, name |-> skills[k].name, files |-> skills[k].files]
               /\ SafePaths(skills[k].files) /\ IsList(skills[k].files)
    <3>1. CASE k \in K
      <4>1. /\ skills[k].there = "live"
            /\ skills[k] = [there |-> skills[k].there, name |-> skills[k].name, files |-> skills[k].files]
        BY <1>4, <3>1 DEF MountInit
      <4> QED BY <1>4, <3>1, <4>1 DEF Existence
    <3>2. CASE k \notin K
      <4>1. skills[k] = [there |-> "never", name |-> << >>, files |-> << >>]
        BY <1>4, <3>2 DEF MountInit
      <4>2. SafePaths(<< >>) /\ IsList(<< >>)
        BY DEF SafePaths, IsList
      <4> QED BY <4>1, <4>2 DEF Existence
    <3> QED BY <3>1, <3>2
  <2>4. \E more : files \in [Files -> [there : Existence, blob : more]]
    <3> DEFINE more == {files[f].blob : f \in Files}
    <3>1. ASSUME NEW f \in Files PROVE files[f] \in [there : Existence, blob : more]
      <4>1. files[f].blob \in more
        OBVIOUS
      <4> HIDE DEF more
      <4>2. [there |-> files[f].there, blob |-> files[f].blob] \in [there : Existence, blob : more]
        BY <2>1, <4>1
      <4> QED BY <2>1, <4>2
    <3>2. files \in [Files -> [there : Existence, blob : more]]
      BY <2>2, <3>1
    <3> HIDE DEF more
    <3> QED BY <3>2
  <2>5. \E n, l : skills \in [Skills -> [there : Existence, name : n, files : l]]
    <3> DEFINE n == {skills[k].name : k \in Skills}
               l == {skills[k].files : k \in Skills}
    <3>1. ASSUME NEW k \in Skills PROVE skills[k] \in [there : Existence, name : n, files : l]
      <4>1. skills[k].name \in n /\ skills[k].files \in l
        OBVIOUS
      <4> HIDE DEF n, l
      <4>2. [there |-> skills[k].there, name |-> skills[k].name, files |-> skills[k].files]
              \in [there : Existence, name : n, files : l]
        BY <2>3, <4>1
      <4> QED BY <2>3, <4>2
    <3>2. skills \in [Skills -> [there : Existence, name : n, files : l]]
      BY <2>2, <3>1
    <3> HIDE DEF n, l
    <3> QED BY <3>2
  <2> QED BY <2>3, <2>4, <2>5 DEF UploadsTyped
<1> DEFINE u == [NoTurn EXCEPT !.count = MaxTurns - turns]
<1>6. workdir = [s \in Calls |-> << >>] /\ turn = [s \in Calls |-> u]
  BY <1>4 DEF MountInit
<1>7. IsTurn(u) /\ u.pc = "off" /\ u.count = MaxTurns - turns /\ u.skillsShown = {} /\ u.shown = {} /\ u.lost = {}
  BY DEF NoTurn, IsTurn, TurnFields
<1> HIDE DEF u
<1>8. TurnTyped(u)
  BY <1>4, <1>7, MountAssumption DEF TurnTyped, TurnSteps
<1>9. Holdings(u) /\ Reads(u) /\ Told(u) = {} /\ IsTree(<< >>)
  BY <1>7 DEF Holdings, Reads, Told, SkillsPut, ItemsPut, FilesPut, RowsPut, IsTree
<1> QED BY <1>1, <1>3, <1>5, <1>6, <1>8, <1>9 DEF MountInv, TurnInv, AllStand

LEMMA MountIsTyped ==
  ASSUME MountInv
  PROVE  MountTypeOK
<1>1. \A f \in Files : files[f].there \in {"never", "live", "deleted"}
  BY DEF MountInv, UploadsTyped, Existence
<1>2. \A k \in Skills : skills[k].there \in {"never", "live", "deleted"} /\ SafePaths(skills[k].files)
  BY DEF MountInv, UploadsTyped, Existence
<1>3. ASSUME NEW s \in Calls
      PROVE  /\ \A p \in DOMAIN workdir[s] : InWorkdir(p)
             /\ \A p, q \in DOMAIN workdir[s] : ~IsStrictPrefix(p, q)
             /\ turn[s].pc \in {"off", "skills", "files", "resources", "reading", "ready"}
             /\ turn[s].skillsShown \subseteq Skills
             /\ turn[s].count \in 0 .. MaxTurns
  BY DEF MountInv, TurnInv, IsTree, TurnTyped, TurnSteps, Holdings, SkillKept
<1> QED BY <1>1, <1>2, <1>3 DEF MountTypeOK

\* What nobody has touched since it was listed is as it was read.
LEMMA PromisesWritten ==
  ASSUME NEW item, ~IsFile(item) => Covered(item.seen, item.read, {})
  PROVE  Promises(item) \subseteq Wrote(item)
<1>1. CASE IsFile(item)
  BY <1>1 DEF Promises, IsFile
<1>2. CASE ~IsFile(item)
  <2> SUFFICES ASSUME NEW id \in DOMAIN item.seen, Unchanged(id, item.seen[id])
               PROVE  memories[id] \in item.read
    BY <1>2 DEF Promises, Wrote, IsFile, Placed
  <2>1. Steady(id, item.seen[id])
    BY DEF Unchanged, Steady, Busy, Pending, Unwritten, Ended
  <2> QED BY <1>2, <2>1 DEF Covered, Steady
<1> QED BY <1>1, <1>2

ItemsPromise(items) == UNION {Promises(item) : item \in items}

LEMMA WrittenTraces ==
  ASSUME NEW t
  PROVE  Written(t) = SkillsPut(t.skillsShown) \cup ItemsPut(t.shown \cup t.lost)
BY DEF Written, SkillsPut, ItemsPut

LEMMA MountMatches ==
  ASSUME MountInv
  PROVE  MountMatchesPrompt
<1>1. ASSUME NEW s \in Calls, TurnAt(s, "ready"), SessionThere(s), NEW t, t = turn[s],
             NEW w, w \in SkillsPut(t.skillsShown) \/ w \in ItemsPromise(t.shown)
      PROVE  \E v \in Written(t) : v[1] = w[1] /\ v[1] \in DOMAIN workdir[s] /\ workdir[s][v[1]] = v[2]
  <2>1. t.pc = "ready" /\ Reads(t) /\ AllStand(workdir[s], t)
    BY <1>1 DEF MountInv, TurnInv, TurnAt, Deleted, SessionThere
  <2>2. FilesPut(t) = {} /\ RowsPut(t) = {}
    BY <2>1 DEF FilesPut, RowsPut
  <2>3. \A item \in t.shown : Promises(item) \subseteq Wrote(item)
    BY <2>1, PromisesWritten DEF Reads
  <2>4. w \in SkillsPut(t.skillsShown) \/ w \in ItemsPut(t.shown)
    BY <1>1, <2>3 DEF ItemsPromise, ItemsPut
  <2>5. Stands(workdir[s], w, Traces(t))
    BY <2>1, <2>4 DEF AllStand, Told
  <2>6. ASSUME NEW v \in Traces(t) PROVE v \in Written(t)
    <3>1. v \in SkillsPut(t.skillsShown) \/ v \in ItemsPut(t.shown) \/ v \in ItemsPut(t.lost)
      BY <2>2, <2>6 DEF Traces, Told
    <3>2. v \in ItemsPut(t.shown) \/ v \in ItemsPut(t.lost) => v \in ItemsPut(t.shown \cup t.lost)
      BY DEF ItemsPut
    <3> QED BY <3>1, <3>2, WrittenTraces
  <2> QED BY <2>5, <2>6 DEF Stands
<1>2. ASSUME NEW s \in Calls, TurnAt(s, "ready"), SessionThere(s),
             NEW w \in SkillsPut(turn[s].skillsShown) \cup ItemsPromise(turn[s].shown)
      PROVE  \E v \in Written(turn[s]) : v[1] = w[1] /\ v[1] \in DOMAIN workdir[s] /\ workdir[s][v[1]] = v[2]
  BY <1>1, <1>2
<1> QED BY <1>2 DEF MountMatchesPrompt, SkillsPut, ItemsPromise

(***************************************************************************)
(* The whole workspace.                                                    *)
(***************************************************************************)
WorkspaceInv == MountInv /\ ContextInv

LEMMA WorkspaceAlways == WorkspaceSpec => []WorkspaceInv
<1>1. WorkspaceStart => WorkspaceInv
  BY MountStarts, ContextStart DEF WorkspaceStart, WorkspaceInv
<1>2. WorkspaceInv /\ [WorkspaceStep]_<<agentVars, memoryVars, mountVars, contextVars>> => WorkspaceInv'
  <2>1. ASSUME MountInv, MountStep \/ UNCHANGED <<agentVars, memoryVars, mountVars>>
        PROVE  MountInv'
    BY <2>1, MountStepKeeps, MountStutters
  <2>2. ASSUME ContextInv, ContextStep \/ UNCHANGED contextVars
        PROVE  ContextInv'
    BY <2>2, ContextNext
  <2> QED BY <2>1, <2>2 DEF WorkspaceInv, WorkspaceStep
<1> QED BY <1>1, <1>2, PTL DEF WorkspaceSpec

\* The tables, the turns, the workdirs and the log keep their types; a workdir stays a
\* tree of files, whatever is mounted into it and whoever deletes it (a memory whose
\* path climbs out of the virtual roots is not in it: the script writes it elsewhere).
THEOREM WorkspaceTypesCorrect == WorkspaceSpec => []WorkspaceTypeOK
<1>1. WorkspaceInv => WorkspaceTypeOK
  <2>1. MemoryInv => MemoryTypeOK
    BY DEF MemoryInv, TablesInv
  <2>2. MountInv => AgentInv /\ MemoryInv
    BY DEF MountInv
  <2> QED BY <2>1, <2>2, AgentInvTypes, MountIsTyped, ContextTypes DEF WorkspaceInv, WorkspaceTypeOK
<1> QED BY <1>1, WorkspaceAlways, PTL

\* When a model is asked, what the system prompt tells it about is in the sandbox: the
\* files of its skills, its files, and each memory that nobody has touched since it was
\* listed and whose place is in the workdir; whatever requests ran, and whatever failed,
\* while the turn mounted them one by one.
THEOREM PromptTellsTheWorkdir == WorkspaceSpec => []MountMatchesPrompt
<1>1. WorkspaceInv => MountMatchesPrompt
  BY MountMatches DEF WorkspaceInv
<1> QED BY <1>1, WorkspaceAlways, PTL

\* What agents, sessions, memories and contexts promise by themselves, with the
\* exceptions that RefusedWithoutTrace and ContextComplete name, they keep when turns
\* read them and requests change what a session mounts.
THEOREM PartsHoldTogether ==
  WorkspaceSpec =>
    [](UpdatesSerialise /\ SnapshotIsAVersion /\ HistoryTellsRows /\ RefusedWithoutTrace /\ ContextComplete)
<1>1. WorkspaceInv =>
        UpdatesSerialise /\ SnapshotIsAVersion /\ HistoryTellsRows /\ RefusedWithoutTrace /\ ContextComplete
  <2>1. MountInv => AgentInv /\ MemoryInv
    BY DEF MountInv
  <2> QED BY <2>1, AgentInvSerialises, AgentInvSnapshots, MemoryInvHistory, MemoryInvRefusals, ContextIsComplete DEF WorkspaceInv
<1> QED BY <1>1, WorkspaceAlways, PTL
=============================================================================
