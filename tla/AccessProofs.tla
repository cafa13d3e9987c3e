---------------------------- MODULE AccessProofs ----------------------------
(***************************************************************************)
(* Proofs about Vault, VaultProxy and Auth, for any sets of vaults, hosts, *)
(* sessions, credentials and tasks of jed and je-vault, and any sets of    *)
(* visits, accounts, keys and login sessions: the types and what the       *)
(* tables' constraints say, that a rotated refresh token is kept, that a   *)
(* request carries the right credential or none, that identity is earned.  *)
(***************************************************************************)
EXTENDS Access, TLAPS

(***************************************************************************)
(* Vault and VaultProxy.                                                   *)
(***************************************************************************)

Steps == {"new", "session", "list", "refresh", "count", "write", "done", "refused", "passed", "injected",
          "sent", "badGateway", "dead"}
TaskRows(asks) ==
  [ask : asks, pc : Steps, id : Grants \cup {""}, vaults : SUBSET Vaults, row : CredentialRows \cup {NoRow},
   token : {<< >>} \cup (Grants \X Nat), failed : BOOLEAN]
TasksTyped == \E asks : task \in [Tasks -> TaskRows(asks)]

(***************************************************************************)
(* The inductive invariant.                                                *)
(***************************************************************************)
\* Task c holds a row that it has read or made.
InHand(c) == task[c].pc \in {"refresh", "count", "write"}
Held(c) == task[c].row.secret

\* It has refreshed the token in it.
Holder(c) == Resolver(c) /\ task[c].pc \in {"count", "write"}

\* A grant comes with a credential of the start, or with the task that brings a new
\* secret, once that has succeeded.
Settled(g) == g \in FirstCredentials \/ task[g].pc = "done"
Home(g) == IF g \in Tasks /\ Asked(g).op = "updateCredential" THEN Asked(g).credential ELSE g

TableInv ==
  /\ issued \in [Grants -> Nat] /\ rotates \in BOOLEAN
  /\ \A c \in Tasks : task[c].pc # "done" => issued[c] = 0
  /\ DOMAIN credentials \subseteq Grants
  /\ \A k \in DOMAIN credentials : LET s == credentials[k].secret IN
       Settled(k) /\ Settled(s.grant) /\ Home(s.grant) = k /\ s.refresh <= issued[s.grant]

HandInv(c) ==
  InHand(c) =>
    LET k == task[c]
        s == Held(c)
    IN
    /\ k.row \in CredentialRows /\ k.id \in Grants /\ k.id = Home(s.grant) /\ s.refresh <= issued[s.grant]
    /\ s.grant = c \/ Settled(s.grant)
    /\ s.grant = c => ~Resolver(c) /\ s.refresh \in {0, Absent}
    /\ \/ Asked(c).op = "addCredential" /\ k.id = c /\ s.grant = c /\ ~k.row.archived
       \/ Asked(c).op # "addCredential" /\ Settled(k.id)
    /\ k.pc = "refresh" => Resolver(c)
    /\ Resolver(c) => s.refresh # Absent /\ k.row.host = Asked(c).host /\ k.row.vault \in k.vaults
    /\ Stored(k.id) => credentials[k.id].vault = k.row.vault

\* The newest refresh token of a grant that is not lost is in one hand, or stored.
HolderInv ==
  \A c \in Tasks : Holder(c) /\ Held(c).grant \notin lost =>
    /\ Held(c).refresh = issued[Held(c).grant]
    /\ \A k \in DOMAIN credentials :
         credentials[k].secret.grant = Held(c).grant => credentials[k].secret.refresh < issued[Held(c).grant]
    /\ \A d \in Tasks \ {c} :
         InHand(d) /\ Held(d).grant = Held(c).grant => Held(d).refresh < issued[Held(c).grant]
StoredInv ==
  \A k \in DOMAIN credentials : LET s == credentials[k].secret IN
    s.refresh # Absent /\ s.grant \notin lost =>
      s.refresh = issued[s.grant] \/ \E c \in Tasks : Holder(c) /\ Held(c).grant = s.grant

\* What an update has read is not newer than what is stored.
UpdaterInv ==
  \A c \in Tasks : InHand(c) /\ ~Resolver(c) /\ Held(c).grant \notin lost \cup {c} /\ Stored(task[c].id) =>
    LET s == credentials[task[c].id].secret IN s.grant = Held(c).grant => Held(c).refresh <= s.refresh

VaultInv ==
  /\ TasksTyped /\ VaultTypeOK /\ TableInv /\ \A c \in Tasks : HandInv(c)
  /\ rotates => HolderInv /\ StoredInv /\ UpdaterInv

\* How far a task can have come, by what it asks for.
ProgressInv(c) ==
  /\ task[c].pc \in {"session", "list"} => Resolver(c)
  /\ task[c].pc = "session" => SessionOf(Asked(c)) \in Sessions
  /\ task[c].pc = "done" => ~Resolver(c)

\* What task c carries out is the outcome of its lookup.
SeenInv(c) ==
  /\ task[c].pc \in {"list", "refresh", "count", "write"} => task[c].vaults \in seen[c].had
  /\ task[c].pc = "injected" => task[c].token # << >>
  /\ task[c].token # << >> => task[c].token \in seen[c].tokens
  /\ task[c].pc \in {"passed", "sent"} /\ task[c].token = << >> =>
       task[c].failed \/ seen[c].none \/ (Proxied(c) /\ SessionOf(Asked(c)) = "")
  /\ task[c].pc = "sent" => received[c] = Headers(c)

\* A task that has written, or that needs nothing more of its lookup: it keeps what
\* it holds.
Finished(c) == task[c].pc \in IF Resolver(c) THEN {"injected", "sent", "badGateway", "dead"} ELSE {"done"}

\* What clients have put in last is there, or whoever wrote last had read it before.
IntendedInv ==
  \A k \in DOMAIN credentials :
    /\ credentials[k].secret.grant # intended[k].grant => \E c \in Tasks : WroteBack(c, k) /\ Finished(c)
    /\ credentials[k].host # intended[k].host => \E c \in Tasks : WroteHostBack(c, k) /\ Finished(c)

IInv ==
  /\ IntendedInv
  /\ VaultInv /\ ProxyTypeOK /\ (proxy = "creating" => ca.crt) /\ DOMAIN received = Tasks
  /\ \A c \in Tasks : WellFormed(Asked(c)) /\ ProgressInv(c) /\ (Resolver(c) => SeenInv(c))

(***************************************************************************)
(* The change of one task.                                                 *)
(***************************************************************************)
Only(c) ==
  /\ TasksTyped' /\ \A d \in Tasks : Asked(d)' = Asked(d)
  /\ \A d \in Tasks \ {c} : task'[d] = task[d]
  /\ task[c].pc # "done"

LEMMA Changed ==
  ASSUME TasksTyped, NEW c \in Tasks, task[c].pc # "done", NEW new, task' = [task EXCEPT ![c] = new],
         \A asks : task[c] \in TaskRows(asks) => new \in TaskRows(asks) /\ new.ask = task[c].ask
  PROVE  Only(c) /\ task'[c] = new
<1>1. PICK asks : task \in [Tasks -> TaskRows(asks)]
  BY DEF TasksTyped
<1>2. new \in TaskRows(asks) /\ new.ask = task[c].ask
  BY <1>1
<1>3. task' \in [Tasks -> TaskRows(asks)] /\ task'[c] = new /\ \A d \in Tasks \ {c} : task'[d] = task[d]
  BY <1>1, <1>2
<1> QED BY <1>2, <1>3 DEF Only, TasksTyped, Asked

LEMMA TaskTypes ==
  ASSUME TasksTyped, NEW c \in Tasks
  PROVE  /\ task[c].id \in Grants \cup {""} /\ task[c].vaults \subseteq Vaults /\ task[c].pc \in Steps
         /\ task[c].token \in {<< >>} \cup (Grants \X Nat) /\ DOMAIN task = Tasks
<1>1. PICK asks : task \in [Tasks -> TaskRows(asks)]
  BY DEF TasksTyped
<1> QED BY <1>1 DEF TaskRows

LEMMA MovesFacts ==
  ASSUME TasksTyped, NEW c \in Tasks, NEW pc \in Steps, Moves(c, pc), task[c].pc # "done"
  PROVE  LET new == task'[c] IN
         /\ Only(c) /\ new.pc = pc /\ new.id = task[c].id /\ new.vaults = task[c].vaults /\ new.row = task[c].row
         /\ new.token = task[c].token /\ new.failed = task[c].failed
<1> DEFINE old == task[c]
           new == [old EXCEPT !.pc = pc]
<1>1. task' = [task EXCEPT ![c] = new]
  BY DEF Moves
<1>2. ASSUME NEW asks, old \in TaskRows(asks)
      PROVE  /\ new \in TaskRows(asks) /\ new.ask = old.ask /\ new.pc = pc /\ new.id = old.id
             /\ new.vaults = old.vaults /\ new.row = old.row /\ new.token = old.token /\ new.failed = old.failed
  <2> HIDE DEF old
  <2> QED BY <1>2 DEF TaskRows
<1>3. PICK asks : old \in TaskRows(asks)
  BY DEF TasksTyped
<1> HIDE DEF new
<1>4. Only(c) /\ task'[c] = new
  BY <1>1, <1>2, Changed
<1> QED BY <1>2, <1>3, <1>4

LEMMA FailsFacts ==
  ASSUME TasksTyped, NEW c \in Tasks, Fails(c), task[c].pc # "done"
  PROVE  LET new == task'[c] IN
         /\ Only(c) /\ new.pc = (IF Resolver(c) THEN "passed" ELSE "refused") /\ new.id = task[c].id
         /\ new.vaults = task[c].vaults /\ new.row = task[c].row /\ new.token = task[c].token /\ new.failed
<1> DEFINE old == task[c]
           pc == IF Resolver(c) THEN "passed" ELSE "refused"
           new == [old EXCEPT !.pc = pc, !.failed = TRUE]
<1>1. task' = [task EXCEPT ![c] = new]
  BY DEF Fails, Failed
<1>2. ASSUME NEW asks, old \in TaskRows(asks)
      PROVE  /\ new \in TaskRows(asks) /\ new.ask = old.ask /\ new.pc = pc /\ new.id = old.id
             /\ new.vaults = old.vaults /\ new.row = old.row /\ new.token = old.token /\ new.failed
  <2>1. pc \in Steps
    BY DEF Steps
  <2> HIDE DEF old, pc
  <2> QED BY <1>2, <2>1 DEF TaskRows
<1>3. PICK asks : old \in TaskRows(asks)
  BY DEF TasksTyped
<1> HIDE DEF new
<1>4. Only(c) /\ task'[c] = new
  BY <1>1, <1>2, Changed
<1> QED BY <1>2, <1>3, <1>4

(***************************************************************************)
(* Steps after which no task holds more than before, and no row is new.    *)
(***************************************************************************)
RowsKept ==
  /\ DOMAIN credentials' \subseteq DOMAIN credentials
  /\ \A k \in DOMAIN credentials' :
       /\ credentials'[k] \in CredentialRows
       /\ credentials'[k].vault = credentials[k].vault /\ credentials'[k].host = credentials[k].host
       /\ credentials'[k].secret = credentials[k].secret
       /\ ~credentials'[k].archived => ~credentials[k].archived
       /\ vaults'[credentials[k].vault].there = "live"

\* The rows' types and the partial unique index.
RowsTyped ==
  \A k \in DOMAIN credentials :
    /\ credentials[k] \in CredentialRows
    /\ Open(credentials[k].vault)
    /\ ~credentials[k].archived => HostFree(k, credentials[k])

LEMMA RowsKeptTyped ==
  ASSUME RowsTyped, RowsKept
  PROVE  RowsTyped'
<1> SUFFICES ASSUME NEW k \in DOMAIN credentials'
             PROVE  /\ credentials'[k] \in CredentialRows
                    /\ Open(credentials[k].vault)'
                    /\ ~credentials'[k].archived => HostFree(k, credentials[k])'
  BY DEF RowsTyped
<1>1. credentials'[k] \in CredentialRows /\ Open(credentials[k].vault)'
  BY DEF RowsKept, Open
<1>2. ASSUME ~credentials'[k].archived
      PROVE  HostFree(k, credentials[k])'
  <2>1. HostFree(k, credentials[k]) /\ credentials'[k].vault = credentials[k].vault
        /\ credentials'[k].host = credentials[k].host
    BY <1>2 DEF RowsKept, RowsTyped
  <2>2. ASSUME NEW j \in DOMAIN credentials', credentials'[j].host = credentials[k].host,
               credentials'[j].vault = credentials[k].vault, ~credentials'[j].archived
        PROVE  j = k
    BY <2>1, <2>2 DEF RowsKept, HostFree, Active
  <2> QED BY <2>1, <2>2 DEF HostFree, Active
<1> QED BY <1>1, <1>2

\* A task that changes has nothing in hand afterwards; if it held a new token, that is lost.
LetsGo(d) ==
  task'[d] # task[d] => task[d].pc # "done" /\ ~InHand(d)' /\ (Holder(d) => Held(d).grant \in lost')

LEMMA QuietInv ==
  ASSUME VaultInv, TasksTyped', VaultTypeOK', RowsKept, rotates' = rotates, issued' = issued, lost \subseteq lost',
         \A d \in Tasks : Asked(d)' = Asked(d) /\ LetsGo(d)
  PROVE  VaultInv'
<1>1. \A g \in Grants : (Settled(g) => Settled(g)') /\ Home(g)' = Home(g)
  BY DEF Settled, Home, LetsGo, Grants
<1>2. TableInv'
  <2>1. \A c \in Tasks : task'[c].pc # "done" => issued'[c] = 0
    BY DEF VaultInv, TableInv, LetsGo
  <2>2. ASSUME NEW k \in DOMAIN credentials', NEW g \in {credentials'[k].secret.grant}
        PROVE  Settled(k)' /\ Settled(g)' /\ Home(g)' = k /\ credentials'[k].secret.refresh <= issued'[g]
    <3>1. k \in DOMAIN credentials /\ credentials'[k].secret = credentials[k].secret /\ k \in Grants
          /\ credentials[k].secret.grant = g /\ g \in Grants
      BY DEF RowsKept, VaultInv, TableInv, VaultTypeOK, CredentialRows, Secrets
    <3>2. Settled(k) /\ Settled(g) /\ Home(g) = k /\ credentials[k].secret.refresh <= issued[g]
      BY <3>1 DEF VaultInv, TableInv
    <3> QED BY <3>1, <3>2, <1>1
  <2>3. issued' \in [Grants -> Nat] /\ rotates' \in BOOLEAN /\ DOMAIN credentials' \subseteq Grants
    BY DEF VaultInv, TableInv, RowsKept
  <2> QED BY <2>1, <2>2, <2>3, <1>1 DEF TableInv, Settled, Home
<1>3. ASSUME NEW d \in Tasks, InHand(d)'
      PROVE  InHand(d) /\ task'[d] = task[d] /\ Resolver(d)' = Resolver(d) /\ Holder(d)' = Holder(d) /\ HandInv(d)
  BY <1>3 DEF LetsGo, VaultInv, InHand, Resolver, Holder
<1>4. ASSUME NEW d \in Tasks
      PROVE  HandInv(d)'
  <2> SUFFICES ASSUME InHand(d)' PROVE HandInv(d)'
    BY DEF HandInv
  <2>1. InHand(d) /\ task'[d] = task[d] /\ Resolver(d)' = Resolver(d) /\ HandInv(d) /\ Asked(d)' = Asked(d)
    BY <1>3
  <2>2. Held(d) \in Secrets /\ Held(d).grant \in Grants /\ task[d].id \in Grants /\ Held(d)' = Held(d)
    BY <2>1 DEF HandInv, CredentialRows, Secrets, Held
  <2>3. Settled(task[d].id) => Settled(task[d].id)'
    BY <2>1, <2>2, <1>1 DEF Settled
  <2>4. (Settled(Held(d).grant) => Settled(Held(d).grant)') /\ Home(Held(d).grant)' = Home(Held(d).grant)
    BY <2>2, <1>1 DEF Settled, Home
  <2>5. Stored(task[d].id)' => credentials'[task[d].id].vault = task[d].row.vault
    BY <2>1 DEF HandInv, RowsKept, Stored
  <2> QED BY <2>1, <2>2, <2>3, <2>4, <2>5 DEF HandInv, Held
<1>5. ASSUME rotates
      PROVE  HolderInv' /\ StoredInv' /\ UpdaterInv'
  <2>1. \A d \in Tasks : Holder(d) => InHand(d)
    BY DEF Holder, InHand
  <2>2. \A d \in Tasks : Holder(d)' => InHand(d)'
    BY DEF Holder, InHand
  <2>3. HolderInv'
    BY <1>3, <1>5, <2>2 DEF VaultInv, HolderInv, Held, RowsKept
  <2>4. StoredInv'
    <3> SUFFICES ASSUME NEW k \in DOMAIN credentials', credentials'[k].secret.refresh # Absent,
                        credentials'[k].secret.grant \notin lost'
                 PROVE  \/ credentials'[k].secret.refresh = issued'[credentials'[k].secret.grant]
                        \/ \E c \in Tasks : Holder(c)' /\ Held(c).grant' = credentials'[k].secret.grant
      BY DEF StoredInv
    <3>1. k \in DOMAIN credentials /\ credentials'[k].secret = credentials[k].secret
      BY DEF RowsKept
    <3>2. CASE credentials[k].secret.refresh = issued[credentials[k].secret.grant]
      BY <3>1, <3>2
    <3>3. CASE \E c \in Tasks : Holder(c) /\ Held(c).grant = credentials[k].secret.grant
      <4>1. PICK c \in Tasks : Holder(c) /\ Held(c).grant = credentials[k].secret.grant
        BY <3>3
      <4>2. task'[c] = task[c] /\ Asked(c)' = Asked(c)
        BY <4>1, <3>1 DEF LetsGo
      <4> QED BY <4>1, <4>2, <3>1 DEF Holder, Held, Resolver
    <3> QED BY <3>1, <3>2, <3>3, <1>5 DEF VaultInv, StoredInv
  <2>5. UpdaterInv'
    BY <1>3, <1>5 DEF VaultInv, UpdaterInv, Held, RowsKept, Stored
  <2> QED BY <2>3, <2>4, <2>5
<1> QED BY <1>2, <1>4, <1>5 DEF VaultInv

\* The rest of VaultTypeOK.
OtherTypes ==
  /\ vaults \in [Vaults -> [there : {"never", "live", "gone"}, archived : BOOLEAN]]
  /\ sessionVaults \in [Sessions -> SUBSET Vaults]
  /\ now \in 0..MaxTime /\ faults \in 0..MaxFaults

LEMMA TypeParts == VaultTypeOK <=> OtherTypes /\ RowsTyped
BY DEF VaultTypeOK, OtherTypes, RowsTyped

LEMMA SameRows ==
  ASSUME RowsTyped, UNCHANGED credentials, \A v \in Vaults : Open(v) => Open(v)'
  PROVE  RowsKept
BY DEF RowsKept, RowsTyped, CredentialRows, Open

LEMMA QuietStep ==
  ASSUME VaultInv, NEW c \in Tasks, Only(c), task'[c].pc \notin {"refresh", "count", "write"},
         GivesUp(c) \subseteq lost', OtherTypes', RowsKept, rotates' = rotates, issued' = issued, lost \subseteq lost'
  PROVE  VaultInv'
<1>1. VaultTypeOK'
  BY RowsKeptTyped, TypeParts DEF VaultInv, VaultTypeOK, OtherTypes, RowsTyped
<1>2. ASSUME NEW d \in Tasks
      PROVE  Asked(d)' = Asked(d) /\ LetsGo(d)
  BY DEF Only, LetsGo, InHand, GivesUp, Holder, Held
<1> QED BY <1>1, <1>2, QuietInv DEF Only

\* A task alone moves on.
LEMMA IdleStep ==
  ASSUME VaultInv, NEW c \in Tasks, Only(c), task'[c].pc \notin {"refresh", "count", "write"}, GivesUp(c) \subseteq lost',
         lost \subseteq lost', faults' \in 0..MaxFaults, UNCHANGED <<vaults, credentials, sessionVaults, rotates, issued, now>>
  PROVE  VaultInv'
<1>1. OtherTypes'
  BY DEF VaultInv, VaultTypeOK, OtherTypes
<1>2. RowsKept
  BY SameRows, TypeParts DEF VaultInv, Open
<1> QED BY <1>1, <1>2, QuietStep

LEMMA OnVaultInv ==
  ASSUME VaultInv, NEW c \in Tasks, NEW op, NEW succeeds, NEW v, OnVault(c, op, succeeds, v),
         Asked(c).vault \in Vaults, v \in [there : {"never", "live", "gone"}, archived : BOOLEAN],
         Open(Asked(c).vault) => v.there = "live" \/ \A k \in DOMAIN credentials' : credentials[k].vault # Asked(c).vault,
         UNCHANGED credentials \/ succeeds,
         DOMAIN credentials' \subseteq DOMAIN credentials, \A k \in DOMAIN credentials' : credentials'[k] = credentials[k]
  PROVE  VaultInv'
<1>1. Only(c) /\ task[c].pc = "new" /\ task'[c].pc \in {"done", "refused", "passed"}
  <2>1. TasksTyped /\ task[c].pc = "new"
    BY DEF VaultInv, OnVault, On
  <2>2. CASE succeeds
    BY <2>1, <2>2, MovesFacts DEF OnVault, Steps
  <2>3. CASE ~succeeds
    BY <2>1, <2>3, FailsFacts DEF OnVault
  <2> QED BY <2>1, <2>2, <2>3
<1>2. OtherTypes'
  <2>1. vaults' \in [Vaults -> [there : {"never", "live", "gone"}, archived : BOOLEAN]]
    BY DEF OnVault, VaultInv, VaultTypeOK
  <2> QED BY <2>1 DEF VaultInv, VaultTypeOK, OtherTypes, OnVault
<1>3. RowsKept
  <2> SUFFICES ASSUME NEW k \in DOMAIN credentials'
               PROVE  credentials[k] \in CredentialRows /\ vaults'[credentials[k].vault].there = "live"
    BY DEF RowsKept
  <2>1. credentials[k] \in CredentialRows /\ Open(credentials[k].vault) /\ credentials[k].vault \in Vaults
    BY DEF VaultInv, VaultTypeOK, CredentialRows
  <2> QED BY <2>1 DEF OnVault, Open, VaultInv, VaultTypeOK
<1>4. GivesUp(c) = {}
  BY <1>1 DEF GivesUp
<1> QED BY <1>1, <1>2, <1>3, <1>4, QuietStep DEF OnVault

LEMMA VaultOpsInv ==
  ASSUME VaultInv, NEW c \in Tasks, WellFormed(Asked(c)),
         CreateVault(c) \/ UpdateVault(c) \/ ArchiveVault(c) \/ DeleteVault(c) \/ SetSessionVaults(c)
  PROVE  VaultInv'
<1>1. CASE CreateVault(c) \/ UpdateVault(c) \/ ArchiveVault(c) \/ DeleteVault(c)
  <2> DEFINE v == Asked(c).vault
             row == vaults[v]
  <2>1. v \in Vaults /\ row \in [there : {"never", "live", "gone"}, archived : BOOLEAN] /\ (Open(v) <=> row.there = "live")
    BY <1>1 DEF CreateVault, UpdateVault, ArchiveVault, DeleteVault, OnVault, On, WellFormed, VaultInv, VaultTypeOK, Open
  <2> DEFINE open == [row EXCEPT !.there = "live"]
             archived == [row EXCEPT !.archived = TRUE]
             gone == [row EXCEPT !.there = "gone"]
  <2>2. /\ {open, archived, gone} \subseteq [there : {"never", "live", "gone"}, archived : BOOLEAN]
        /\ open.there = "live" /\ archived.there = row.there
    BY <2>1
  <2> HIDE DEF row, open, archived, gone
  <2>3. CASE CreateVault(c)
    <3>1. OnVault(c, "createVault", Asked(c).named, open) /\ UNCHANGED credentials
      BY <2>3 DEF CreateVault, open, row
    <3> QED BY <3>1, <2>1, <2>2, OnVaultInv
  <2>4. CASE UpdateVault(c)
    <3>1. OnVault(c, "updateVault", Asked(c).named /\ Open(v) /\ ~vaults[v].archived, row) /\ UNCHANGED credentials
      BY <2>4 DEF UpdateVault, row
    <3> QED BY <3>1, <2>1, <2>2, OnVaultInv
  <2>5. CASE ArchiveVault(c)
    <3>1. OnVault(c, "archiveVault", Open(v) /\ ~vaults[v].archived, archived) /\ UNCHANGED credentials
      BY <2>5 DEF ArchiveVault, archived, row
    <3> QED BY <3>1, <2>1, <2>2, OnVaultInv
  <2>6. CASE DeleteVault(c)
    <3>1. OnVault(c, "deleteVault", Open(v), gone)
          /\ credentials' = [k \in {j \in DOMAIN credentials : credentials[j].vault # v} |-> credentials[k]]
      BY <2>6 DEF DeleteVault, gone, row
    <3>2. DOMAIN credentials' \subseteq DOMAIN credentials
          /\ \A k \in DOMAIN credentials' : credentials'[k] = credentials[k] /\ credentials[k].vault # v
      BY <3>1
    <3>3. CASE Open(v)
      BY <3>1, <3>2, <3>3, <2>1, <2>2, OnVaultInv
    <3>4. CASE ~Open(v)
      <4>1. task[c].pc = "new" /\ Fails(c) /\ UNCHANGED <<vaults, sessionVaults, rotates, issued, now, faults, lost>>
        BY <3>1, <3>4 DEF OnVault, On
      <4>2. Only(c) /\ task'[c].pc \in {"passed", "refused"} /\ GivesUp(c) = {}
        BY <4>1, FailsFacts DEF VaultInv, GivesUp
      <4>3. RowsKept
        <5>1. RowsTyped
          BY DEF VaultInv, VaultTypeOK, RowsTyped
        <5> QED BY <5>1, <3>2, <4>1 DEF RowsKept, RowsTyped, Open
      <4>4. OtherTypes'
        BY <4>1 DEF VaultInv, VaultTypeOK, OtherTypes
      <4> QED BY <4>1, <4>2, <4>3, <4>4, QuietStep
    <3> QED BY <3>3, <3>4
  <2> QED BY <1>1, <2>3, <2>4, <2>5, <2>6
<1>2. CASE SetSessionVaults(c)
  <2>1. Only(c) /\ task'[c].pc = "done" /\ GivesUp(c) = {}
    BY <1>2, MovesFacts DEF SetSessionVaults, On, VaultInv, Steps, GivesUp
  <2>2. Asked(c).session \in Sessions /\ Asked(c).vaults \subseteq Vaults
    BY <1>2 DEF SetSessionVaults, On, WellFormed
  <2>3. OtherTypes'
    BY <1>2, <2>2 DEF SetSessionVaults, VaultInv, VaultTypeOK, OtherTypes
  <2>4. RowsKept
    BY <1>2, SameRows, TypeParts DEF SetSessionVaults, VaultInv, Open
  <2> QED BY <1>2, <2>1, <2>3, <2>4, QuietStep DEF SetSessionVaults
<1> QED BY <1>1, <1>2

(***************************************************************************)
(* The operations that leave a task with nothing in its hands.             *)
(***************************************************************************)
TablesAlone == UNCHANGED <<vaults, credentials, sessionVaults, rotates, issued, now>>

LEMMA FailsInv ==
  ASSUME VaultInv, NEW c \in Tasks, Fails(c), task[c].pc # "done", TablesAlone, GivesUp(c) \subseteq lost',
         lost \subseteq lost', faults' \in 0..MaxFaults
  PROVE  VaultInv'
<1>1. Only(c) /\ task'[c].pc \in {"passed", "refused"}
  BY FailsFacts DEF VaultInv
<1> QED BY <1>1, IdleStep DEF TablesAlone

LEMMA MovesInv ==
  ASSUME VaultInv, NEW c \in Tasks, NEW pc \in Steps \ {"refresh", "count", "write"}, Moves(c, pc), task[c].pc # "done",
         TablesAlone, GivesUp(c) \subseteq lost', lost \subseteq lost', faults' \in 0..MaxFaults
  PROVE  VaultInv'
<1>1. Only(c) /\ task'[c].pc = pc
  BY MovesFacts DEF VaultInv
<1> QED BY <1>1, IdleStep DEF TablesAlone

LEMMA FaultsTyped ==
  ASSUME VaultInv
  PROVE  /\ faults \in 0..MaxFaults /\ now \in 0..MaxTime
         /\ faults < MaxFaults /\ faults' = faults + 1 => faults' \in 0..MaxFaults
BY VaultAssumption DEF VaultInv, VaultTypeOK

LEMMA SmallOpsInv ==
  ASSUME VaultInv, NEW c \in Tasks,
         ArchiveCredential(c) \/ DeleteCredential(c) \/ ValidateCredential(c) \/ TurnConnects(c) \/ RefreshRefused(c) \/ Abandon(c)
  PROVE  VaultInv'
<1>1. /\ task[c].pc = "new" => GivesUp(c) = {}
      /\ task[c].pc = "refresh" => GivesUp(c) = {}
  BY DEF GivesUp
<1> DEFINE k == Asked(c).credential
<1>2. CASE ArchiveCredential(c)
  <2>1. task[c].pc = "new" /\ UNCHANGED <<vaults, sessionVaults, rotates, issued, now, faults, lost>>
    BY <1>2 DEF ArchiveCredential, On
  <2>2. CASE Stored(k) /\ ~credentials[k].archived
    <3>1. credentials' = [credentials EXCEPT ![k].archived = TRUE] /\ Moves(c, "done") /\ k \in DOMAIN credentials
      BY <1>2, <2>2 DEF ArchiveCredential, Stored
    <3>2. Only(c) /\ task'[c].pc = "done"
      BY <2>1, <3>1, MovesFacts DEF VaultInv, Steps
    <3>3. RowsTyped
      BY DEF VaultInv, VaultTypeOK, RowsTyped
    <3>4. ASSUME NEW j \in DOMAIN credentials
          PROVE  /\ credentials'[j] \in CredentialRows
                 /\ credentials'[j].vault = credentials[j].vault /\ credentials'[j].host = credentials[j].host
                 /\ credentials'[j].secret = credentials[j].secret
                 /\ ~credentials'[j].archived => ~credentials[j].archived
      <4>1. CASE j = k
        <5> DEFINE old == credentials[j]
        <5>1. old \in CredentialRows /\ credentials'[j] = [old EXCEPT !.archived = TRUE]
          BY <3>1, <3>3, <4>1 DEF RowsTyped
        <5> HIDE DEF old
        <5>2. credentials'[j].vault = old.vault /\ credentials'[j].host = old.host /\ credentials'[j].secret = old.secret
              /\ credentials'[j].archived /\ credentials'[j] \in CredentialRows
          BY <5>1 DEF CredentialRows
        <5> QED BY <5>2 DEF old
      <4>2. CASE j # k
        BY <3>1, <3>3, <4>2 DEF RowsTyped
      <4> QED BY <4>1, <4>2
    <3>5. RowsKept
      BY <2>1, <3>1, <3>3, <3>4 DEF RowsKept, RowsTyped, Open
    <3>6. OtherTypes'
      BY <2>1 DEF VaultInv, VaultTypeOK, OtherTypes
    <3> QED BY <1>1, <2>1, <3>2, <3>5, <3>6, QuietStep
  <2>3. CASE ~(Stored(k) /\ ~credentials[k].archived)
    <3>1. Fails(c) /\ UNCHANGED credentials
      BY <1>2, <2>3 DEF ArchiveCredential
    <3> QED BY <1>1, <2>1, <3>1, FailsInv, FaultsTyped DEF TablesAlone
  <2> QED BY <2>2, <2>3
<1>3. CASE DeleteCredential(c)
  <2>1. task[c].pc = "new" /\ UNCHANGED <<vaults, sessionVaults, rotates, issued, now, faults, lost>>
    BY <1>3 DEF DeleteCredential, On
  <2>2. CASE Stored(k)
    <3>1. credentials' = [j \in DOMAIN credentials \ {k} |-> credentials[j]] /\ Moves(c, "done")
      BY <1>3, <2>2 DEF DeleteCredential
    <3>2. Only(c) /\ task'[c].pc = "done"
      BY <2>1, <3>1, MovesFacts DEF VaultInv, Steps
    <3>3. RowsTyped
      BY DEF VaultInv, VaultTypeOK, RowsTyped
    <3>5. RowsKept
      BY <2>1, <3>1, <3>3 DEF RowsKept, RowsTyped, Open
    <3>6. OtherTypes'
      BY <2>1 DEF VaultInv, VaultTypeOK, OtherTypes
    <3> QED BY <1>1, <2>1, <3>2, <3>5, <3>6, QuietStep
  <2>3. CASE ~Stored(k)
    <3>1. Fails(c) /\ UNCHANGED credentials
      BY <1>3, <2>3 DEF DeleteCredential
    <3> QED BY <1>1, <2>1, <3>1, FailsInv, FaultsTyped DEF TablesAlone
  <2> QED BY <2>2, <2>3
<1>4. CASE ValidateCredential(c)
  <2>1. task[c].pc = "new" /\ TablesAlone /\ UNCHANGED <<faults, lost>> /\ (Moves(c, "done") \/ Fails(c))
    BY <1>4 DEF ValidateCredential, On, TablesAlone
  <2>2. CASE Moves(c, "done")
    BY <1>1, <2>1, <2>2, MovesInv, FaultsTyped DEF Steps
  <2>3. CASE Fails(c)
    BY <1>1, <2>1, <2>3, FailsInv, FaultsTyped
  <2> QED BY <2>1, <2>2, <2>3
<1>5. CASE TurnConnects(c)
  BY <1>1, <1>5, MovesInv, FaultsTyped DEF TurnConnects, On, TablesAlone, Steps
<1>6. CASE RefreshRefused(c)
  BY <1>1, <1>6, FailsInv, FaultsTyped DEF RefreshRefused, TablesAlone
<1>7. CASE Abandon(c)
  <2>1. TablesAlone /\ Moves(c, "dead") /\ lost' = lost \cup GivesUp(c) /\ task[c].pc # "done"
        /\ faults < MaxFaults /\ faults' = faults + 1
    BY <1>7 DEF Abandon, InProgress, TablesAlone
  <2> QED BY <2>1, MovesInv, FaultsTyped DEF Steps
<1> QED BY <1>2, <1>3, <1>4, <1>5, <1>6, <1>7

(***************************************************************************)
(* A task takes a row, or goes on with the one it has.                     *)
(***************************************************************************)
LEMMA SameTables ==
  ASSUME VaultInv, TablesAlone, faults' \in 0..MaxFaults
  PROVE  VaultTypeOK'
<1>1. RowsTyped /\ OtherTypes
  BY TypeParts DEF VaultInv
<1>2. OtherTypes'
  BY <1>1 DEF OtherTypes, TablesAlone
<1>3. RowsTyped'
  BY <1>1, SameRows, RowsKeptTyped DEF TablesAlone, Open
<1> QED BY <1>2, <1>3 DEF VaultTypeOK, OtherTypes, RowsTyped

LEMMA HandTypes ==
  ASSUME VaultInv
  PROVE  /\ \A d \in Tasks : InHand(d) =>
              /\ Held(d) \in Secrets /\ Held(d).grant \in Grants /\ Held(d).refresh \in Nat \cup {Absent}
              /\ task[d].row \in CredentialRows /\ task[d].id \in Grants /\ HandInv(d)
              /\ issued[Held(d).grant] \in Nat /\ Held(d).refresh <= issued[Held(d).grant]
         /\ \A k \in DOMAIN credentials : LET s == credentials[k].secret IN
              /\ k \in Grants /\ credentials[k] \in CredentialRows /\ s \in Secrets /\ s.grant \in Grants
              /\ s.refresh \in Nat \cup {Absent} /\ issued[s.grant] \in Nat /\ s.refresh <= issued[s.grant]
         /\ \A d \in Tasks : Holder(d) => InHand(d)
<1>1. ASSUME NEW d \in Tasks, InHand(d)
      PROVE  /\ Held(d) \in Secrets /\ Held(d).grant \in Grants /\ Held(d).refresh \in Nat \cup {Absent}
             /\ task[d].row \in CredentialRows /\ task[d].id \in Grants /\ HandInv(d)
             /\ issued[Held(d).grant] \in Nat /\ Held(d).refresh <= issued[Held(d).grant]
  BY <1>1 DEF VaultInv, HandInv, TableInv, CredentialRows, Secrets, Held
<1>2. ASSUME NEW k \in DOMAIN credentials
      PROVE  LET s == credentials[k].secret IN
             /\ k \in Grants /\ credentials[k] \in CredentialRows /\ s \in Secrets /\ s.grant \in Grants
             /\ s.refresh \in Nat \cup {Absent} /\ issued[s.grant] \in Nat /\ s.refresh <= issued[s.grant]
  BY <1>2 DEF VaultInv, TableInv, VaultTypeOK, CredentialRows, Secrets
<1> QED BY <1>1, <1>2 DEF Holder, InHand

\* A task that is not done has brought nothing yet.
LEMMA NotYet ==
  ASSUME VaultInv, NEW c \in Tasks, task[c].pc # "done"
  PROVE  /\ ~Settled(c) /\ ~Stored(c) /\ issued[c] = 0 /\ c \in Grants
         /\ \A k \in DOMAIN credentials : credentials[k].secret.grant # c
         /\ \A d \in Tasks \ {c} : InHand(d) => Held(d).grant # c /\ task[d].id # c
<1>1. ~Settled(c)
  BY VaultAssumption DEF Settled
<1> QED BY <1>1 DEF VaultInv, TableInv, HandInv, InHand, Held, Stored, Grants

LEMMA TakeInv ==
  ASSUME VaultInv, NEW c \in Tasks, Only(c), ~InHand(c), ~Holder(c)', HandInv(c)', TablesAlone, UNCHANGED <<faults, lost>>,
         NEW t, t = task'[c], t.row.secret.grant = c \/ (Stored(t.id) /\ t.row.secret = credentials[t.id].secret),
         t.pc # "done"
  PROVE  VaultInv'
<1>1. VaultTypeOK' /\ TasksTyped'
  BY FaultsTyped, SameTables DEF Only
<1>6. \A g \in Grants : (Settled(g)' <=> Settled(g)) /\ Home(g)' = Home(g)
  <2> SUFFICES ASSUME NEW g \in Grants PROVE (Settled(g)' <=> Settled(g)) /\ Home(g)' = Home(g)
    OBVIOUS
  <2>1. g \in FirstCredentials \/ g = c \/ g \in Tasks \ {c}
    BY DEF Grants
  <2> QED BY <2>1 DEF Only, Settled, Home
<1>2. TableInv'
  <2>1. \A g \in Grants : (Settled(g)' <=> Settled(g)) /\ Home(g)' = Home(g)
    BY <1>6
  <2>2. \A d \in Tasks : task'[d].pc # "done" => issued'[d] = 0
    BY DEF Only, VaultInv, TableInv, TablesAlone
  <2>3. TableInv /\ UNCHANGED <<issued, rotates, credentials>>
    BY DEF VaultInv, TablesAlone
  <2>4. ASSUME NEW k \in DOMAIN credentials', NEW g \in {credentials'[k].secret.grant}
        PROVE  Settled(k)' /\ Settled(g)' /\ Home(g)' = k /\ credentials'[k].secret.refresh <= issued'[g]
    BY <2>1, <2>3, HandTypes DEF TableInv
  <2> QED BY <2>2, <2>3, <2>4 DEF TableInv, Settled, Home
<1>3. \A d \in Tasks \ {c} :
        /\ task'[d] = task[d] /\ Asked(d)' = Asked(d) /\ InHand(d)' = InHand(d) /\ Holder(d)' = Holder(d) /\ Held(d)' = Held(d)
        /\ Resolver(d)' = Resolver(d)
  BY DEF Only, InHand, Holder, Held, Resolver
<1>4. ASSUME NEW d \in Tasks
      PROVE  HandInv(d)'
  <2> SUFFICES ASSUME InHand(d)', d # c PROVE HandInv(d)'
    BY DEF HandInv
  <2>1. InHand(d) /\ task'[d] = task[d] /\ Asked(d)' = Asked(d) /\ Held(d)' = Held(d)
    BY <1>3
  <2>2. PICK g \in Grants : g = Held(d).grant
    BY <2>1, HandTypes
  <2>3. PICK id \in Grants : id = task[d].id
    BY <2>1, HandTypes
  <2>4. (Settled(g)' <=> Settled(g)) /\ (Settled(id)' <=> Settled(id)) /\ Home(g)' = Home(g)
    BY <1>6
  <2> QED BY <2>1, <2>2, <2>3, <2>4, <1>3, HandTypes DEF HandInv, TablesAlone, Stored
<1>5. ASSUME rotates
      PROVE  HolderInv' /\ StoredInv' /\ UpdaterInv'
  <2>1. HolderInv /\ StoredInv /\ UpdaterInv /\ Held(c)' = t.row.secret
    BY <1>5 DEF VaultInv, Held
  <2>2. HolderInv'
    <3> SUFFICES ASSUME NEW d \in Tasks, Holder(d)', Held(d)'.grant \notin lost'
                 PROVE  /\ Held(d)'.refresh = issued'[Held(d)'.grant]
                        /\ \A k \in DOMAIN credentials' :
                             credentials'[k].secret.grant = Held(d)'.grant =>
                               credentials'[k].secret.refresh < issued'[Held(d)'.grant]
                        /\ \A e \in Tasks \ {d} :
                             InHand(e)' /\ Held(e)'.grant = Held(d)'.grant => Held(e)'.refresh < issued'[Held(d)'.grant]
      BY DEF HolderInv
    <3>1. d # c /\ Holder(d) /\ InHand(d) /\ Held(d)' = Held(d) /\ Held(d).grant \notin lost
      BY <1>3, HandTypes
    <3>2. /\ Held(d).refresh = issued[Held(d).grant]
          /\ \A k \in DOMAIN credentials :
                             credentials[k].secret.grant = Held(d).grant =>
                               credentials[k].secret.refresh < issued[Held(d).grant]
          /\ \A e \in Tasks \ {d} :
                             InHand(e) /\ Held(e).grant = Held(d).grant => Held(e).refresh < issued[Held(d).grant]
      BY <2>1, <3>1 DEF HolderInv
    <3>3. Held(d).grant # c
      BY <3>1, NotYet DEF Only
    <3>4. ASSUME NEW e \in Tasks \ {d}, InHand(e)', Held(e)'.grant = Held(d).grant
          PROVE  Held(e)'.refresh < issued[Held(d).grant]
      <4>1. CASE e = c
        BY <3>2, <3>3, <3>4, <4>1, <2>1 DEF Stored
      <4>2. CASE e # c
        BY <3>2, <3>4, <4>2, <1>3
      <4> QED BY <4>1, <4>2
    <3> QED BY <3>1, <3>2, <3>4 DEF TablesAlone
  <2>3. StoredInv'
    <3>1. \A d \in Tasks : Holder(d) => d # c
      BY DEF Holder, InHand
    <3> QED BY <1>3, <2>1, <3>1 DEF StoredInv, TablesAlone
  <2>4. UpdaterInv'
    <3> SUFFICES ASSUME NEW d \in Tasks, InHand(d)', ~Resolver(d)', Held(d)'.grant \notin lost \cup {d}, Stored(task'[d].id),
                        credentials[task'[d].id].secret.grant = Held(d)'.grant
                 PROVE  Held(d)'.refresh <= credentials[task'[d].id].secret.refresh
      BY DEF UpdaterInv, TablesAlone, Stored
    <3>1. CASE d = c
      <4>1. Stored(t.id) /\ t.row.secret = credentials[t.id].secret /\ Held(d)' = t.row.secret
        BY <2>1, <3>1
      <4>2. credentials[t.id].secret.refresh \in Nat \cup {Absent}
        BY <4>1, HandTypes DEF Stored
      <4> QED BY <3>1, <4>1, <4>2 DEF Absent
    <3>2. CASE d # c
      BY <2>1, <3>2, <1>3 DEF UpdaterInv
    <3> QED BY <3>1, <3>2
  <2> QED BY <2>2, <2>3, <2>4
<1> QED BY <1>1, <1>2, <1>4, <1>5 DEF VaultInv, TablesAlone

LEMMA SameSettled ==
  ASSUME NEW c \in Tasks, Only(c), task'[c].pc # "done"
  PROVE  \A g \in Grants : (Settled(g)' <=> Settled(g)) /\ Home(g)' = Home(g)
<1> SUFFICES ASSUME NEW g \in Grants PROVE (Settled(g)' <=> Settled(g)) /\ Home(g)' = Home(g)
  OBVIOUS
<1>1. g \in FirstCredentials \/ g = c \/ g \in Tasks \ {c}
  BY DEF Grants
<1> QED BY <1>1 DEF Only, Settled, Home

\* HandInv of a task that has not changed, in the next state.
LEMMA HandKept ==
  ASSUME VaultInv, NEW d \in Tasks, InHand(d), task'[d] = task[d], Asked(d)' = Asked(d),
         \A g \in Grants : (Settled(g) => Settled(g)') /\ Home(g)' = Home(g),
         \A g \in Grants : issued[g] <= issued'[g] /\ issued'[g] \in Nat,
         Stored(task[d].id)' =>
           credentials'[task[d].id].vault = task[d].row.vault
  PROVE  HandInv(d)'
<1>1. InHand(d)' /\ Held(d)' = Held(d) /\ Resolver(d)' = Resolver(d)
  BY DEF InHand, Held, Resolver
<1>2. PICK g \in Grants : g = Held(d).grant
  BY HandTypes
<1>3. PICK id \in Grants : id = task[d].id
  BY HandTypes
<1>4. (Settled(g) => Settled(g)') /\ (Settled(id) => Settled(id)') /\ Home(g)' = Home(g)
  OBVIOUS
<1>5. Held(d).refresh <= issued'[g]
  BY <1>2, HandTypes DEF Absent
<1> QED BY <1>1, <1>2, <1>3, <1>4, <1>5, HandTypes DEF HandInv

LEMMA MoveOnInv ==
  ASSUME VaultInv, NEW c \in Tasks, task[c].pc = "count", Moves(c, "write"), TablesAlone, UNCHANGED <<faults, lost>>
  PROVE  VaultInv'
<1>1. /\ Only(c) /\ task'[c].pc = "write" /\ task'[c].id = task[c].id /\ task'[c].row = task[c].row
      /\ task'[c].vaults = task[c].vaults
  BY MovesFacts DEF VaultInv, Steps
<1>2. \A g \in Grants : (Settled(g)' <=> Settled(g)) /\ Home(g)' = Home(g)
  BY <1>1, SameSettled
<1>3. VaultTypeOK' /\ TasksTyped'
  BY <1>1, FaultsTyped, SameTables DEF Only
<1>4. \A d \in Tasks :
        /\ Asked(d)' = Asked(d) /\ InHand(d)' = InHand(d) /\ Holder(d)' = Holder(d) /\ Held(d)' = Held(d)
        /\ Resolver(d)' = Resolver(d) /\ task'[d].id = task[d].id /\ task'[d].row = task[d].row
        /\ task'[d].vaults = task[d].vaults /\ (task'[d].pc = "refresh" => task[d].pc = "refresh")
  BY <1>1 DEF Only, InHand, Holder, Held, Resolver
<1>5. ASSUME NEW d \in Tasks
      PROVE  HandInv(d)'
  <2> SUFFICES ASSUME InHand(d)' PROVE HandInv(d)'
    BY DEF HandInv
  <2>1. PICK g \in Grants : g = Held(d).grant
    BY <1>4, HandTypes
  <2>2. PICK id \in Grants : id = task[d].id
    BY <1>4, HandTypes
  <2>3. (Settled(g)' <=> Settled(g)) /\ (Settled(id)' <=> Settled(id)) /\ Home(g)' = Home(g)
    BY <1>2
  <2>4. HandInv(d) /\ InHand(d)
    BY <1>4 DEF VaultInv
  <2> QED BY <2>1, <2>2, <2>3, <2>4, <1>4 DEF HandInv, TablesAlone, Stored
<1>6. TableInv'
  <2>2. \A d \in Tasks : task'[d].pc # "done" => issued'[d] = 0
    BY <1>1 DEF Only, VaultInv, TableInv, TablesAlone
  <2>3. TableInv /\ UNCHANGED <<issued, rotates, credentials>>
    BY DEF VaultInv, TablesAlone
  <2>4. ASSUME NEW k \in DOMAIN credentials', NEW g \in {credentials'[k].secret.grant}
        PROVE  Settled(k)' /\ Settled(g)' /\ Home(g)' = k /\ credentials'[k].secret.refresh <= issued'[g]
    BY <1>2, <2>3, HandTypes DEF TableInv
  <2> QED BY <2>2, <2>3, <2>4 DEF TableInv, Settled, Home
<1>7. ASSUME rotates
      PROVE  HolderInv' /\ StoredInv' /\ UpdaterInv'
  <2>1. HolderInv /\ StoredInv /\ UpdaterInv
    BY <1>7 DEF VaultInv
  <2>2. HolderInv'
    BY <1>4, <2>1 DEF HolderInv, TablesAlone
  <2>3. StoredInv'
    BY <1>4, <2>1 DEF StoredInv, TablesAlone
  <2>4. UpdaterInv'
    BY <1>4, <2>1 DEF UpdaterInv, TablesAlone, Stored
  <2> QED BY <2>2, <2>3, <2>4
<1> QED BY <1>3, <1>5, <1>6, <1>7 DEF VaultInv, TablesAlone

\* The provider has refreshed grant g: either the reply is lost, or c has the new token.
LEMMA RefreshInv ==
  ASSUME VaultInv, NEW c \in Tasks, Only(c), task[c].pc = "refresh", Accepts(Held(c)),
         NEW g \in Grants, g = Held(c).grant, issued' = [issued EXCEPT ![g] = @ + 1], faults' \in 0..MaxFaults,
         UNCHANGED <<vaults, credentials, sessionVaults, rotates, now>>, lost \subseteq lost', HandInv(c)',
         NEW t, t = task'[c],
         \/ g \in lost' /\ t.pc = "passed"
         \/ /\ t.pc = "count" /\ t.row.secret.grant = g
            /\ rotates => t.row.secret.refresh = issued[g] + 1
  PROVE  VaultInv'
<1>1. /\ InHand(c) /\ Held(c).grant = g /\ HandInv(c) /\ Resolver(c) /\ Resolver(c)' /\ Settled(g) /\ ~Holder(c)
      /\ issued[g] \in Nat /\ issued \in [Grants -> Nat] /\ t.pc # "done"
  BY HandTypes DEF InHand, HandInv, Held, VaultInv, TableInv, Resolver, Only, Holder
<1>2. \A h \in Grants : (Settled(h)' <=> Settled(h)) /\ Home(h)' = Home(h)
  BY <1>1, SameSettled
<1>3. VaultTypeOK' /\ TasksTyped'
  <2>1. RowsTyped /\ OtherTypes
    BY TypeParts DEF VaultInv
  <2>2. OtherTypes'
    BY <2>1 DEF OtherTypes
  <2>3. RowsTyped'
    BY <2>1, SameRows, RowsKeptTyped DEF Open
  <2> QED BY <2>2, <2>3 DEF VaultTypeOK, OtherTypes, RowsTyped, Only
<1>4. \A d \in Tasks \ {c} :
        /\ task'[d] = task[d] /\ Asked(d)' = Asked(d) /\ InHand(d)' = InHand(d) /\ Holder(d)' = Holder(d) /\ Held(d)' = Held(d)
        /\ Resolver(d)' = Resolver(d)
  BY DEF Only, InHand, Holder, Held, Resolver
<1>5. \A h \in Grants : issued[h] \in Nat /\ issued[h] <= issued'[h] /\ issued'[h] = (IF h = g THEN issued[g] + 1 ELSE issued[h])
  BY <1>1
<1>6. \A d \in Tasks : HandInv(d)'
  <2> SUFFICES ASSUME NEW d \in Tasks \ {c}, InHand(d) PROVE HandInv(d)'
    BY <1>4 DEF HandInv
  <2>1. Stored(task[d].id)' => credentials'[task[d].id].vault = task[d].row.vault
    BY <1>4, HandTypes DEF HandInv, Stored
  <2>2. \A h \in Grants : issued[h] <= issued'[h] /\ issued'[h] \in Nat
    BY <1>5
  <2> QED BY <2>1, <2>2, <1>2, <1>4, HandKept
<1>7. TableInv'
  <2>1. ASSUME NEW d \in Tasks, task'[d].pc # "done" PROVE issued'[d] = 0
    <3>1. task[d].pc # "done" /\ d \in Grants
      BY <2>1, <1>4, <1>1 DEF Only, Grants
    <3>2. d # g /\ issued[d] = 0
      BY <3>1, <1>1, NotYet
    <3> QED BY <3>1, <3>2, <1>5
  <2>2. issued' \in [Grants -> Nat]
    BY <1>1
  <2>3. ASSUME NEW k \in DOMAIN credentials', NEW h \in {credentials'[k].secret.grant}
        PROVE  Settled(k)' /\ Settled(h)' /\ Home(h)' = k /\ credentials'[k].secret.refresh <= issued'[h]
    <3>1. h \in Grants /\ k \in Grants /\ credentials[k].secret.grant = h /\ credentials[k].secret.refresh \in Nat \cup {Absent}
          /\ credentials[k].secret.refresh <= issued[h]
      BY HandTypes
    <3>2. Settled(k) /\ Settled(h) /\ Home(h) = k
      BY <3>1 DEF VaultInv, TableInv
    <3>3. credentials[k].secret.refresh <= issued'[h]
      BY <3>1, <1>5 DEF Absent
    <3> QED BY <3>1, <3>2, <3>3, <1>2
  <2> QED BY <2>1, <2>2, <2>3 DEF TableInv, Settled, Home, VaultInv
<1>8. ASSUME rotates
      PROVE  HolderInv' /\ StoredInv' /\ UpdaterInv'
  <2>1. HolderInv /\ StoredInv /\ UpdaterInv /\ Held(c)' = t.row.secret /\ Held(c).refresh = issued[g]
    BY <1>8, <1>1 DEF VaultInv, Held, Accepts
  <2>2. ASSUME NEW d \in Tasks \ {c}, Holder(d), Held(d).grant \notin lost
        PROVE  Held(d).grant # g
    BY <2>1, <2>2, <1>1 DEF HolderInv
  <2>3. HolderInv'
    <3> SUFFICES ASSUME NEW d \in Tasks, Holder(d)', NEW h, h = Held(d)'.grant, h \notin lost'
                 PROVE  /\ Held(d)'.refresh = issued'[h]
                        /\ \A k \in DOMAIN credentials :
                             credentials[k].secret.grant = h => credentials[k].secret.refresh < issued'[h]
                        /\ \A e \in Tasks \ {d} : InHand(e)' /\ Held(e)'.grant = h => Held(e)'.refresh < issued'[h]
      BY DEF HolderInv
    <3>1. CASE d = c
      <4>1. h = g /\ Held(d)'.refresh = issued[g] + 1
        BY <3>1, <2>1, <1>8 DEF Holder
      <4>2. ASSUME NEW k \in DOMAIN credentials, credentials[k].secret.grant = h
            PROVE  credentials[k].secret.refresh < issued'[h]
        <5>1. credentials[k].secret.refresh \in Nat \cup {Absent} /\ credentials[k].secret.refresh <= issued[g]
          BY <4>1, <4>2, HandTypes
        <5> QED BY <5>1, <4>1, <1>5 DEF Absent
      <4>3. ASSUME NEW e \in Tasks \ {d}, InHand(e)', Held(e)'.grant = h
            PROVE  Held(e)'.refresh < issued'[h]
        <5>1. Held(e)' = Held(e) /\ Held(e).refresh \in Nat \cup {Absent} /\ Held(e).refresh <= issued[g]
          BY <4>1, <4>3, <3>1, <1>4, HandTypes
        <5> QED BY <5>1, <4>1, <1>5 DEF Absent
      <4> QED BY <4>1, <4>2, <4>3, <1>5
    <3>2. CASE d # c
      <4>1. Holder(d) /\ Held(d)' = Held(d) /\ h = Held(d).grant /\ h \notin lost /\ h # g /\ h \in Grants
        BY <3>2, <1>4, <2>2, HandTypes
      <4>2. /\ Held(d).refresh = issued[h] /\ issued'[h] = issued[h]
            /\ \A k \in DOMAIN credentials :
                             credentials[k].secret.grant = h => credentials[k].secret.refresh < issued[h]
            /\ \A e \in Tasks \ {d} : InHand(e) /\ Held(e).grant = h => Held(e).refresh < issued[h]
        BY <4>1, <2>1, <1>5 DEF HolderInv
      <4>3. ASSUME NEW e \in Tasks \ {d}, InHand(e)', Held(e)'.grant = h
            PROVE  Held(e)'.refresh < issued[h]
        <5>1. e # c
          BY <4>3, <4>1, <2>1 DEF InHand
        <5> QED BY <5>1, <4>2, <4>3, <1>4
      <4> QED BY <4>1, <4>2, <4>3
    <3> QED BY <3>1, <3>2
  <2>4. StoredInv'
    <3> SUFFICES ASSUME NEW k \in DOMAIN credentials, NEW h \in Grants, h = credentials[k].secret.grant,
                        credentials[k].secret.refresh # Absent, h \notin lost'
                 PROVE  credentials[k].secret.refresh = issued'[h] \/ \E d \in Tasks : Holder(d)' /\ Held(d)'.grant = h
      BY HandTypes DEF StoredInv
    <3>1. CASE h = g
      <4>1. Holder(c)' /\ Held(c)'.grant = h
        BY <3>1, <1>1, <2>1 DEF Holder
      <4> QED BY <4>1
    <3>2. CASE h # g
      <4>1. credentials[k].secret.refresh = issued[h] \/ \E d \in Tasks : Holder(d) /\ Held(d).grant = h
        BY <2>1 DEF StoredInv
      <4> QED BY <4>1, <3>2, <1>1, <1>4, <1>5
    <3> QED BY <3>1, <3>2
  <2>5. UpdaterInv'
    BY <2>1, <1>1, <1>4 DEF UpdaterInv, Stored
  <2> QED BY <2>3, <2>4, <2>5
<1> QED BY <1>3, <1>6, <1>7, <1>8 DEF VaultInv

(***************************************************************************)
(* A task stores its row.                                                  *)
(***************************************************************************)
\* Row k, active, takes the place of what was there before.
LEMMA StoreTyped ==
  ASSUME RowsTyped, NEW k, NEW row \in CredentialRows, Open(row.vault), ~row.archived, HostFree(k, row),
         UNCHANGED vaults, DOMAIN credentials' = DOMAIN credentials \cup {k}, credentials'[k] = row,
         \A j \in DOMAIN credentials \ {k} : credentials'[j] = credentials[j]
  PROVE  RowsTyped'
<1> SUFFICES ASSUME NEW j \in DOMAIN credentials', NEW r, r = credentials'[j]
             PROVE  /\ r \in CredentialRows /\ Open(r.vault)'
                    /\ ~r.archived => Active(credentials', r.host, {r.vault}) \subseteq {j}
  BY DEF RowsTyped, HostFree
<1>1. j # k => j \in DOMAIN credentials /\ r = credentials[j]
  OBVIOUS
<1>2. r \in CredentialRows /\ Open(r.vault)'
  BY <1>1 DEF RowsTyped, Open
<1>3. ASSUME ~r.archived, NEW i \in DOMAIN credentials', credentials'[i].host = r.host, credentials'[i].vault = r.vault,
             ~credentials'[i].archived
      PROVE  i = j
  <2>1. CASE j = k
    <3>1. r = row
      BY <2>1
    <3> QED BY <2>1, <3>1, <1>3 DEF HostFree, Active
  <2>2. CASE j # k /\ i = k
    <3>1. r = credentials[j] /\ j \in DOMAIN credentials /\ credentials'[i] = row
      BY <2>2, <1>1
    <3>2. j \in Active(credentials, row.host, {row.vault})
      BY <3>1, <1>3 DEF Active
    <3> QED BY <3>2, <2>2 DEF HostFree
  <2>3. CASE j # k /\ i # k
    <3>1. r = credentials[j] /\ j \in DOMAIN credentials /\ i \in DOMAIN credentials /\ credentials'[i] = credentials[i]
      BY <2>3, <1>1
    <3>2. i \in Active(credentials, r.host, {r.vault})
      BY <3>1, <1>3 DEF Active
    <3> QED BY <3>1, <3>2, <1>3 DEF RowsTyped, HostFree
  <2> QED BY <2>1, <2>2, <2>3
<1> QED BY <1>2, <1>3 DEF Active

\* What the step of a task that stores its row does.
Stores(c, k, row) ==
  /\ DOMAIN credentials' = DOMAIN credentials \cup {k} /\ credentials'[k] = row
  /\ \A j \in DOMAIN credentials \ {k} : credentials'[j] = credentials[j]
  /\ Only(c) /\ ~InHand(c)' /\ UNCHANGED <<vaults, sessionVaults, rotates, issued, now, faults>>

LEMMA StoreInv ==
  ASSUME VaultInv, NEW c \in Tasks, task[c].pc = "write", NEW k \in Grants, NEW row \in CredentialRows, Stores(c, k, row),
         Open(row.vault), ~row.archived, HostFree(k, row), k = task[c].id, row.secret = Held(c), lost \subseteq lost',
         row.vault = task[c].row.vault, ~Resolver(c) => task'[c].pc = "done", k = c \/ Stored(k),
         (rotates /\ ~Resolver(c) /\ Held(c).grant \notin {c} \cup lost') =>
           credentials[k].secret.grant = Held(c).grant /\ Held(c).refresh >= credentials[k].secret.refresh,
         NEW g, g = Held(c).grant
  PROVE  VaultInv'
<1>1. /\ HandInv(c) /\ g \in Grants /\ Held(c) \in Secrets /\ Held(c).refresh \in Nat \cup {Absent}
      /\ issued[g] \in Nat /\ Held(c).refresh <= issued[g] /\ k = Home(g) /\ (g = c \/ Settled(g))
      /\ (k = c \/ Settled(k)) /\ (k = c => ~Resolver(c) /\ g = c) /\ (g = c => ~Resolver(c) /\ Held(c).refresh \in {0, Absent})
      /\ task[c].pc # "done" /\ issued[c] = 0
  BY HandTypes, NotYet DEF HandInv, Held, InHand, Stores, Only, Resolver, Resolvers
<1>2. UNCHANGED <<issued, rotates>> /\ issued \in [Grants -> Nat]
  BY DEF Stores, VaultInv, TableInv
<1>3. \A h \in Grants : (Settled(h) => Settled(h)') /\ Home(h)' = Home(h)
  BY <1>1 DEF Stores, Only, Settled, Home, Grants
<1>4. Settled(g)' /\ Settled(k)'
  <2>1. ~Resolver(c) => Settled(c)'
    BY DEF Settled
  <2> QED BY <2>1, <1>1, <1>3 DEF Settled
<1>5. VaultTypeOK' /\ TasksTyped'
  <2>1. RowsTyped /\ OtherTypes
    BY TypeParts DEF VaultInv
  <2>2. OtherTypes'
    BY <2>1 DEF OtherTypes, Stores
  <2>3. RowsTyped'
    BY <2>1, StoreTyped DEF Stores
  <2> QED BY <2>2, <2>3 DEF VaultTypeOK, OtherTypes, RowsTyped, Only, Stores
<1>6. \A d \in Tasks \ {c} :
        /\ task'[d] = task[d] /\ Asked(d)' = Asked(d) /\ InHand(d)' = InHand(d) /\ Holder(d)' = Holder(d) /\ Held(d)' = Held(d)
        /\ Resolver(d)' = Resolver(d)
  BY DEF Stores, Only, InHand, Holder, Held, Resolver
<1>7. \A d \in Tasks \ {c} : InHand(d) => task[d].id # c /\ Held(d).grant # c
  BY <1>1, NotYet
<1>8. \A d \in Tasks : HandInv(d)'
  <2> SUFFICES ASSUME NEW d \in Tasks \ {c}, InHand(d) PROVE HandInv(d)'
    BY <1>6 DEF HandInv, Stores
  <2>1. ASSUME Stored(task[d].id)' PROVE credentials'[task'[d].id].vault = task'[d].row.vault
    <3>1. task'[d] = task[d] /\ HandInv(d) /\ task[d].id # c /\ Stored(task[d].id)
      <4>1. task'[d] = task[d] /\ HandInv(d) /\ task[d].id # c
        BY <1>6, <1>7, HandTypes
      <4> QED BY <4>1, <2>1 DEF Stores, Stored
    <3>2. credentials[task[d].id].vault = task[d].row.vault
      BY <3>1 DEF HandInv
    <3>3. CASE task[d].id = k
      BY <3>1, <3>2, <3>3, <1>1 DEF HandInv, InHand, Stores
    <3>4. CASE task[d].id # k
      BY <3>1, <3>2, <3>4 DEF Stores, Stored
    <3> QED BY <3>3, <3>4
  <2> QED BY <2>1, <1>2, <1>3, <1>6, HandKept
<1>9. TableInv'
  <2>1. \A d \in Tasks : task'[d].pc # "done" => issued'[d] = 0
    BY <1>1, <1>2, <1>6 DEF VaultInv, TableInv
  <2>2. DOMAIN credentials' \subseteq Grants
    BY DEF Stores, VaultInv, TableInv
  <2>3. ASSUME NEW j \in DOMAIN credentials', NEW h \in {credentials'[j].secret.grant}
        PROVE  Settled(j)' /\ Settled(h)' /\ Home(h)' = j /\ credentials'[j].secret.refresh <= issued'[h]
    <3>1. CASE j = k
      <4>1. h = g /\ credentials'[j].secret = Held(c)
        BY <3>1 DEF Stores
      <4> QED BY <3>1, <4>1, <1>1, <1>2, <1>3, <1>4
    <3>2. CASE j # k
      <4>1. j \in DOMAIN credentials /\ credentials'[j] = credentials[j] /\ h \in Grants /\ j \in Grants
        BY <3>2, HandTypes DEF Stores
      <4>2. Settled(j) /\ Settled(h) /\ Home(h) = j /\ credentials[j].secret.refresh <= issued[h]
        BY <4>1 DEF VaultInv, TableInv
      <4> QED BY <4>1, <4>2, <1>2, <1>3
    <3> QED BY <3>1, <3>2
  <2> QED BY <2>1, <2>2, <2>3, <1>2 DEF TableInv, Settled, Home, VaultInv
<1>10. ASSUME rotates
       PROVE  HolderInv' /\ StoredInv' /\ UpdaterInv'
  <2>1. HolderInv /\ StoredInv /\ UpdaterInv /\ credentials'[k].secret = Held(c)
    BY <1>10 DEF VaultInv, Stores
  <2>2. HolderInv'
    <3> SUFFICES ASSUME NEW d \in Tasks, Holder(d)', NEW h, h = Held(d)'.grant, h \notin lost'
                 PROVE  /\ Held(d)'.refresh = issued[h]
                        /\ \A j \in DOMAIN credentials' :
                             credentials'[j].secret.grant = h => credentials'[j].secret.refresh < issued[h]
                        /\ \A e \in Tasks \ {d} : InHand(e)' /\ Held(e)'.grant = h => Held(e)'.refresh < issued[h]
      BY <1>2 DEF HolderInv
    <3>1. d # c
      BY DEF Holder, Stores, InHand
    <3>2. Holder(d) /\ InHand(d) /\ Held(d)' = Held(d) /\ h = Held(d).grant /\ h \notin lost
      BY <3>1, <1>6, HandTypes
    <3>3. /\ Held(d).refresh = issued[h]
          /\ \A j \in DOMAIN credentials : credentials[j].secret.grant = h => credentials[j].secret.refresh < issued[h]
          /\ \A e \in Tasks \ {d} : InHand(e) /\ Held(e).grant = h => Held(e).refresh < issued[h]
      BY <2>1, <3>2 DEF HolderInv
    <3>4. ASSUME NEW j \in DOMAIN credentials', credentials'[j].secret.grant = h
          PROVE  credentials'[j].secret.refresh < issued[h]
      <4>1. CASE j = k
        <5>1. InHand(c)
          BY DEF InHand
        <5> QED BY <5>1, <2>1, <3>1, <3>3, <3>4, <4>1
      <4>2. CASE j # k
        BY <3>3, <3>4, <4>2 DEF Stores
      <4> QED BY <4>1, <4>2
    <3>5. ASSUME NEW e \in Tasks \ {d}, InHand(e)', Held(e)'.grant = h
          PROVE  Held(e)'.refresh < issued[h]
      <4>1. e # c
        BY <3>5 DEF Stores
      <4> QED BY <4>1, <3>3, <3>5, <1>6
    <3> QED BY <3>2, <3>3, <3>4, <3>5
  <2>3. StoredInv'
    <3> SUFFICES ASSUME NEW j \in DOMAIN credentials', NEW h, h = credentials'[j].secret.grant,
                        credentials'[j].secret.refresh # Absent, h \notin lost'
                 PROVE  credentials'[j].secret.refresh = issued[h] \/ \E d \in Tasks : Holder(d)' /\ Held(d)'.grant = h
      BY <1>2 DEF StoredInv
    <3>1. CASE j = k
      <4>1. credentials'[j].secret = Held(c) /\ h = g
        BY <3>1, <2>1
      <4>2. CASE g = c
        BY <4>1, <4>2, <1>1
      <4>3. CASE Resolver(c)
        <5>1. Holder(c)
          BY <4>3 DEF Holder
        <5> QED BY <5>1, <4>1, <2>1 DEF HolderInv
      <4>4. CASE g # c /\ ~Resolver(c)
        <5>1. Stored(k) /\ credentials[k].secret.grant = g /\ Held(c).refresh >= credentials[k].secret.refresh
          BY <4>1, <4>4, <1>1, <1>10
        <5>2. Held(c).refresh <= credentials[k].secret.refresh /\ credentials[k].secret.refresh \in Nat \cup {Absent}
          BY <5>1, <4>1, <4>4, <2>1, HandTypes DEF UpdaterInv, Stored, InHand
        <5>3. Held(c).refresh = credentials[k].secret.refresh
          BY <5>1, <5>2, <1>1 DEF Absent
        <5>4. credentials[k].secret.refresh = issued[h] \/ \E d \in Tasks : Holder(d) /\ Held(d).grant = h
          BY <5>1, <5>3, <4>1, <2>1 DEF StoredInv, Stored
        <5>5. ~Holder(c)
          BY <4>4 DEF Holder
        <5> QED BY <5>3, <5>4, <5>5, <4>1, <1>6
      <4> QED BY <4>2, <4>3, <4>4
    <3>2. CASE j # k
      <4>1. j \in DOMAIN credentials /\ credentials'[j] = credentials[j] /\ Home(h) = j
        BY <3>2 DEF Stores, VaultInv, TableInv
      <4>2. credentials[j].secret.refresh = issued[h] \/ \E d \in Tasks : Holder(d) /\ Held(d).grant = h
        BY <4>1, <2>1 DEF StoredInv
      <4>3. ASSUME NEW d \in Tasks, Holder(d), Held(d).grant = h
            PROVE  d # c
        BY <4>3, <4>1, <3>2, <1>1
      <4> QED BY <4>1, <4>2, <4>3, <1>6
    <3> QED BY <3>1, <3>2
  <2>4. UpdaterInv'
    <3> SUFFICES ASSUME NEW d \in Tasks, InHand(d)', ~Resolver(d)', Held(d)'.grant \notin lost' \cup {d}, Stored(task[d].id)',
                        credentials'[task'[d].id].secret.grant = Held(d)'.grant
                 PROVE  Held(d)'.refresh <= credentials'[task'[d].id].secret.refresh
      BY DEF UpdaterInv, Stored
    <3> DEFINE j == task[d].id
               h == Held(d).grant
    <3>1. d # c /\ task'[d] = task[d] /\ InHand(d) /\ ~Resolver(d) /\ Held(d)' = Held(d) /\ h \notin lost \cup {d}
      BY <1>6 DEF Stores
    <3>2. j # c /\ h # c /\ Stored(j) /\ Held(d).refresh \in Nat \cup {Absent} /\ Held(d).refresh <= issued[h]
      BY <3>1, <1>7, HandTypes DEF Stores, Stored
    <3>3. credentials[j].secret.grant = h => Held(d).refresh <= credentials[j].secret.refresh
      BY <2>1, <3>1, <3>2 DEF UpdaterInv
    <3>4. CASE j # k
      BY <3>1, <3>2, <3>3, <3>4 DEF Stores, Stored
    <3>5. CASE j = k
      <4>1. credentials'[j].secret = Held(c) /\ g = h
        BY <3>5, <3>1, <2>1
      <4>2. CASE Resolver(c)
        <5>1. Held(c).refresh = issued[h]
          BY <4>1, <4>2, <2>1, <3>1 DEF Holder, HolderInv
        <5> QED BY <5>1, <4>1, <3>1, <3>2
      <4>3. CASE ~Resolver(c)
        <5>1. credentials[k].secret.grant = g /\ Held(c).refresh >= credentials[k].secret.refresh
              /\ credentials[k].secret.refresh \in Nat \cup {Absent}
          BY <4>1, <4>3, <3>1, <3>2, <3>5, <1>10, HandTypes DEF Stored
        <5> QED BY <5>1, <4>1, <3>1, <3>2, <3>3, <3>5, <1>1 DEF Absent
      <4> QED BY <4>2, <4>3
    <3> QED BY <3>4, <3>5
  <2> QED BY <2>2, <2>3, <2>4
<1> QED BY <1>5, <1>8, <1>9, <1>10, <1>2 DEF VaultInv

(***************************************************************************)
(* What the steps do to their task.                                        *)
(***************************************************************************)
Takes(c, pc, id, row) == task' = [task EXCEPT ![c] = [task[c] EXCEPT !.pc = pc, !.id = id, !.row = row]]

LEMMA TakesFacts ==
  ASSUME TasksTyped, NEW c \in Tasks, NEW pc \in Steps, NEW id \in Grants, NEW row \in CredentialRows, task[c].pc # "done",
         Takes(c, pc, id, row)
  PROVE  LET new == task'[c] IN
         /\ Only(c) /\ new.pc = pc /\ new.id = id /\ new.vaults = task[c].vaults /\ new.row = row
         /\ new.token = task[c].token /\ new.failed = task[c].failed
<1> DEFINE old == task[c]
           new == [old EXCEPT !.pc = pc, !.id = id, !.row = row]
<1>1. task' = [task EXCEPT ![c] = new]
  BY DEF Takes
<1>2. ASSUME NEW asks, old \in TaskRows(asks)
      PROVE  /\ new \in TaskRows(asks) /\ new.ask = old.ask /\ new.pc = pc /\ new.id = id
             /\ new.vaults = old.vaults /\ new.row = row /\ new.token = old.token /\ new.failed = old.failed
  <2> HIDE DEF old
  <2> QED BY <1>2 DEF TaskRows
<1>3. PICK asks : old \in TaskRows(asks)
  BY DEF TasksTyped
<1> HIDE DEF new
<1>4. Only(c) /\ task'[c] = new
  BY <1>1, <1>2, Changed
<1> QED BY <1>2, <1>3, <1>4

LEMMA FindsFacts ==
  ASSUME TasksTyped, NEW c \in Tasks, NEW id \in Grants, NEW token \in Grants \X Nat, task[c].pc # "done",
         task' = [task EXCEPT ![c] = [task[c] EXCEPT !.pc = "injected", !.id = id, !.token = token]]
  PROVE  LET new == task'[c] IN
         /\ Only(c) /\ new.pc = "injected" /\ new.vaults = task[c].vaults
         /\ new.token = token /\ new.failed = task[c].failed
<1> DEFINE old == task[c]
           new == [old EXCEPT !.pc = "injected", !.id = id, !.token = token]
<1>1. task' = [task EXCEPT ![c] = new]
  OBVIOUS
<1>2. ASSUME NEW asks, old \in TaskRows(asks)
      PROVE  /\ new \in TaskRows(asks) /\ new.ask = old.ask /\ new.pc = "injected"
             /\ new.vaults = old.vaults /\ new.token = token /\ new.failed = old.failed
  <2> HIDE DEF old
  <2> QED BY <1>2 DEF TaskRows, Steps
<1>3. PICK asks : old \in TaskRows(asks)
  BY DEF TasksTyped
<1> HIDE DEF new
<1>4. Only(c) /\ task'[c] = new
  BY <1>1, <1>2, Changed
<1> QED BY <1>2, <1>3, <1>4

LEMMA SessionFacts ==
  ASSUME TasksTyped, NEW c \in Tasks, NEW pc \in Steps, NEW ids \in SUBSET Vaults, task[c].pc # "done",
         task' = [task EXCEPT ![c] = [@ EXCEPT !.vaults = ids, !.pc = pc]]
  PROVE  LET new == task'[c] IN
         Only(c) /\ new.pc = pc /\ new.vaults = ids /\ new.token = task[c].token /\ new.failed = task[c].failed
<1> DEFINE old == task[c]
           new == [old EXCEPT !.vaults = ids, !.pc = pc]
<1>1. task' = [task EXCEPT ![c] = new]
  BY DEF TasksTyped
<1>2. ASSUME NEW asks, old \in TaskRows(asks)
      PROVE  /\ new \in TaskRows(asks) /\ new.ask = old.ask /\ new.pc = pc
             /\ new.vaults = ids /\ new.token = old.token /\ new.failed = old.failed
  <2> HIDE DEF old
  <2> QED BY <1>2 DEF TaskRows
<1>3. PICK asks : old \in TaskRows(asks)
  BY DEF TasksTyped
<1> HIDE DEF new
<1>4. Only(c) /\ task'[c] = new
  BY <1>1, <1>2, Changed
<1> QED BY <1>2, <1>3, <1>4

LEMMA WritesFacts ==
  ASSUME TasksTyped, NEW c \in Tasks, NEW pc \in Steps, NEW token \in {<< >>} \cup (Grants \X Nat), task[c].pc # "done",
         task' = [task EXCEPT ![c] = [@ EXCEPT !.pc = pc, !.token = token]]
  PROVE  LET new == task'[c] IN
         /\ Only(c) /\ new.pc = pc /\ new.vaults = task[c].vaults /\ new.token = token /\ new.failed = task[c].failed
         /\ new.id = task[c].id /\ new.row = task[c].row
<1> DEFINE old == task[c]
           new == [old EXCEPT !.pc = pc, !.token = token]
<1>1. task' = [task EXCEPT ![c] = new]
  BY DEF TasksTyped
<1>2. ASSUME NEW asks, old \in TaskRows(asks)
      PROVE  /\ new \in TaskRows(asks) /\ new.ask = old.ask /\ new.pc = pc
             /\ new.vaults = old.vaults /\ new.token = token /\ new.failed = old.failed
             /\ new.id = old.id /\ new.row = old.row
  <2> HIDE DEF old
  <2> QED BY <1>2 DEF TaskRows
<1>3. PICK asks : old \in TaskRows(asks)
  BY DEF TasksTyped
<1> HIDE DEF new
<1>4. Only(c) /\ task'[c] = new
  BY <1>1, <1>2, Changed
<1> QED BY <1>2, <1>3, <1>4

LEMMA RefreshFacts ==
  ASSUME TasksTyped, NEW c \in Tasks, NEW secret \in Secrets, task[c].pc # "done", task[c].row \in CredentialRows,
         task' = [task EXCEPT ![c] = [@ EXCEPT !.row.secret = secret, !.pc = "count"]]
  PROVE  LET new == task'[c] IN
         /\ Only(c) /\ new.pc = "count" /\ new.id = task[c].id /\ new.vaults = task[c].vaults
         /\ new.token = task[c].token /\ new.failed = task[c].failed
         /\ new.row \in CredentialRows /\ new.row.secret = secret /\ new.row.vault = task[c].row.vault
         /\ new.row.host = task[c].row.host
<1> DEFINE old == task[c]
           held == old.row
           row == [held EXCEPT !.secret = secret]
           new == [old EXCEPT !.row = row, !.pc = "count"]
<1>1. task' = [task EXCEPT ![c] = new]
  BY DEF TasksTyped, TaskRows
<1>2. row \in CredentialRows /\ row.secret = secret /\ row.vault = held.vault /\ row.host = held.host
  <2>1. held \in CredentialRows
    OBVIOUS
  <2> HIDE DEF held
  <2> QED BY <2>1 DEF CredentialRows
<1>3. ASSUME NEW asks, old \in TaskRows(asks)
      PROVE  /\ new \in TaskRows(asks) /\ new.ask = old.ask /\ new.pc = "count" /\ new.id = old.id
             /\ new.vaults = old.vaults /\ new.token = old.token /\ new.failed = old.failed /\ new.row = row
  <2> HIDE DEF old, row
  <2> QED BY <1>2, <1>3 DEF TaskRows, Steps
<1>4. PICK asks : old \in TaskRows(asks)
  BY DEF TasksTyped
<1> HIDE DEF new, row
<1>5. Only(c) /\ task'[c] = new
  BY <1>1, <1>3, Changed
<1> QED BY <1>2, <1>3, <1>4, <1>5

(***************************************************************************)
(* The operations of a task that takes, changes or stores a row.           *)
(***************************************************************************)
LEMMA NewSecretTyped ==
  ASSUME NEW c \in Tasks, NEW type, Asked(c).auth.expires \in Nat \cup {Absent}
  PROVE  NewSecret(c, type) \in Secrets /\ NewSecret(c, type).grant = c /\ NewSecret(c, type).refresh \in {0, Absent}
<1> DEFINE refresh == IF type = "mcp_oauth" /\ Asked(c).auth.refresh THEN 0 ELSE Absent
           expires == IF type = "mcp_oauth" THEN Asked(c).auth.expires ELSE Absent
<1>1. NewSecret(c, type) = [grant |-> c, access |-> 0, refresh |-> refresh, expires |-> expires]
  BY DEF NewSecret
<1>2. refresh \in {0, Absent} /\ expires \in Nat \cup {Absent} /\ c \in Grants
  BY DEF Grants
<1> HIDE DEF refresh, expires
<1> QED BY <1>1, <1>2 DEF Secrets

LEMMA CheckAddInv ==
  ASSUME VaultInv, NEW c \in Tasks, WellFormed(Asked(c)), CheckAdd(c)
  PROVE  VaultInv'
<1> DEFINE ask == Asked(c)
<1>1. task[c].pc = "new" /\ ask.op = "addCredential" /\ TablesAlone /\ UNCHANGED <<faults, lost>> /\ ~Resolver(c)
      /\ ask.auth.expires \in Nat \cup {Absent} /\ ask.vault \in Vaults
  BY DEF CheckAdd, On, TablesAlone, Resolver, Resolvers, WellFormed
<1>2. CASE Fails(c)
  BY <1>1, <1>2, FailsInv, FaultsTyped DEF GivesUp
<1>3. CASE ~Fails(c)
  <2> DEFINE row == [vault |-> ask.vault, host |-> ask.host, type |-> ask.auth.type,
                     secret |-> NewSecret(c, ask.auth.type), archived |-> FALSE, at |-> 0]
  <2>1. /\ task' = [task EXCEPT ![c] = [task[c] EXCEPT !.pc = "count", !.id = c, !.row = row]]
        /\ ask.auth.type \in AuthTypes /\ ask.host \in Hosts
    BY <1>3 DEF CheckAdd
  <2>2. row \in CredentialRows /\ row.secret.grant = c /\ row.secret.refresh \in {0, Absent} /\ ~row.archived
    BY <1>1, <2>1, NewSecretTyped DEF CredentialRows
  <2> HIDE DEF row
  <2>3. c \in Grants /\ "count" \in Steps /\ TasksTyped
    BY DEF Grants, Steps, VaultInv
  <2>4. Only(c) /\ task'[c].pc = "count" /\ task'[c].id = c /\ task'[c].row = row
    <3>1. Takes(c, "count", c, row)
      BY <2>1 DEF Takes
    <3> QED BY <1>1, <2>2, <2>3, <3>1, TakesFacts
  <2>5. Asked(c)' = ask /\ ~Resolver(c)' /\ ~Holder(c)' /\ ~InHand(c)
    BY <1>1, <2>4 DEF Only, Resolver, Resolvers, Holder, InHand
  <2>6. HandInv(c)'
    <3>1. Home(c)' = c
      BY <1>1, <2>5 DEF Home
    <3>2. ~Stored(c)' /\ issued'[c] = 0
      BY <1>1, NotYet DEF TablesAlone, Stored
    <3> QED BY <1>1, <2>2, <2>3, <2>4, <2>5, <3>1, <3>2 DEF HandInv, Held, Absent
  <2>7. task'[c].row.secret.grant = c /\ task'[c].pc # "done"
    BY <2>2, <2>4
  <2> QED BY <1>1, <2>4, <2>5, <2>6, <2>7, TakeInv
<1> QED BY <1>2, <1>3

LEMMA ReadCredentialInv ==
  ASSUME VaultInv, NEW c \in Tasks, WellFormed(Asked(c)), ReadCredential(c)
  PROVE  VaultInv'
<1> DEFINE ask == Asked(c)
           k == ask.credential
           old == credentials[k]
<1>1. task[c].pc = "new" /\ ask.op = "updateCredential" /\ TablesAlone /\ UNCHANGED <<faults, lost>> /\ ~Resolver(c)
      /\ ask.auth.expires \in Nat \cup {Absent}
  BY DEF ReadCredential, On, TablesAlone, Resolver, Resolvers, WellFormed
<1>2. CASE Fails(c)
  BY <1>1, <1>2, FailsInv, FaultsTyped DEF GivesUp
<1>3. CASE ~Fails(c)
  <2> DEFINE type == IF ask.auth.type = "" THEN old.type ELSE ask.auth.type
             replaced == ask.auth.secret # "none" \/ type # old.type
             secret == IF replaced THEN NewSecret(c, type) ELSE old.secret
             row == [old EXCEPT !.host = ask.host, !.type = type, !.secret = secret]
  <2>1. /\ task' = [task EXCEPT ![c] = [task[c] EXCEPT !.pc = "count", !.id = k, !.row = row]]
        /\ ask.auth.type \in AuthTypes \cup {""} /\ ask.host \in Hosts /\ Stored(k)
    BY <1>3 DEF ReadCredential
  <2>2. old \in CredentialRows /\ k \in Grants /\ old.secret \in Secrets
    BY <2>1, HandTypes DEF Stored
  <2>3. type \in AuthTypes
    BY <2>1, <2>2 DEF CredentialRows
  <2>4. secret \in Secrets /\ (secret = old.secret \/ (secret.grant = c /\ secret.refresh \in {0, Absent}))
    BY <1>1, <2>2, NewSecretTyped
  <2> HIDE DEF type, secret
  <2>5. row \in CredentialRows /\ row.secret = secret /\ row.vault = old.vault
    <3> HIDE DEF old
    <3> QED BY <2>1, <2>2, <2>3, <2>4 DEF CredentialRows
  <2> HIDE DEF row
  <2>6. "count" \in Steps /\ TasksTyped
    BY DEF Steps, VaultInv
  <2>7. Only(c) /\ task'[c].pc = "count" /\ task'[c].id = k /\ task'[c].row = row
    <3>1. Takes(c, "count", k, row)
      BY <2>1 DEF Takes
    <3> QED BY <1>1, <2>2, <2>5, <2>6, <3>1, TakesFacts
  <2>8. Asked(c)' = ask /\ ~Resolver(c)' /\ ~Holder(c)' /\ ~InHand(c)
    BY <1>1, <2>7 DEF Only, Resolver, Resolvers, Holder, InHand
  <2>9. \A g \in Grants : (Settled(g)' <=> Settled(g)) /\ Home(g)' = Home(g)
    BY <2>7, SameSettled
  <2>10. HandInv(c)'
    <3>1. PICK g \in Grants : g = secret.grant
      BY <2>4 DEF Secrets
    <3>2. Settled(k) /\ Settled(old.secret.grant) /\ Home(old.secret.grant) = k /\ old.secret.refresh <= issued[old.secret.grant]
      BY <2>1 DEF VaultInv, TableInv, Stored
    <3>3. Home(c) = k
      BY <1>1 DEF Home
    <3>4. issued[c] = 0 /\ ~Settled(c)
      BY <1>1, NotYet
    <3>5. Home(g) = k /\ secret.refresh <= issued[g] /\ (g = c \/ Settled(g)) /\ (g = c => secret.refresh \in {0, Absent})
      BY <2>4, <3>1, <3>2, <3>3, <3>4 DEF Absent
    <3>6. Home(g)' = k /\ (g = c \/ Settled(g)') /\ Settled(k)'
      <4>1. PICK id \in Grants : id = k
        BY <2>2
      <4>2. Settled(id)' /\ Home(g)' = Home(g) /\ (Settled(g)' <=> Settled(g))
        BY <2>9, <3>1, <3>2, <4>1
      <4> QED BY <4>1, <4>2, <2>8, <3>5
    <3>7. Held(c)' = secret /\ (Stored(k)' => credentials'[k].vault = row.vault)
      BY <1>1, <2>5, <2>7 DEF Held, TablesAlone
    <3> QED BY <1>1, <2>2, <2>5, <2>7, <2>8, <3>1, <3>5, <3>6, <3>7 DEF HandInv, TablesAlone
  <2>11. (task'[c].row.secret.grant = c \/ (Stored(task'[c].id) /\ task'[c].row.secret = credentials[task'[c].id].secret))
         /\ task'[c].pc # "done"
    BY <2>1, <2>4, <2>5, <2>7
  <2> QED BY <1>1, <2>7, <2>8, <2>10, <2>11, TakeInv
<1> QED BY <1>2, <1>3

LEMMA ReadSessionInv ==
  ASSUME VaultInv, NEW c \in Tasks, ReadSession(c), SessionOf(Asked(c)) \in Sessions
  PROVE  VaultInv'
<1> DEFINE ids == sessionVaults[SessionOf(Asked(c))]
           pc == IF ids = {} THEN "passed" ELSE "list"
<1>1. task' = [task EXCEPT ![c] = [@ EXCEPT !.vaults = ids, !.pc = pc]] /\ TablesAlone /\ UNCHANGED <<faults, lost>>
      /\ task[c].pc = "session"
  BY DEF ReadSession, TablesAlone
<1>2. ids \in SUBSET Vaults /\ pc \in Steps /\ TasksTyped
  BY DEF VaultInv, VaultTypeOK, Steps
<1>3. pc \notin {"refresh", "count", "write"} /\ GivesUp(c) = {}
  BY <1>1 DEF GivesUp
<1> HIDE DEF ids, pc
<1>4. Only(c) /\ task'[c].pc = pc
  BY <1>1, <1>2, SessionFacts
<1> QED BY <1>1, <1>3, <1>4, IdleStep, FaultsTyped DEF TablesAlone

LEMMA ListInv ==
  ASSUME VaultInv, NEW c \in Tasks, List(c), Resolver(c)
  PROVE  VaultInv'
<1> DEFINE found == Active(credentials, Asked(c).host, task[c].vaults)
<1>1. task[c].pc = "list" /\ TablesAlone /\ UNCHANGED <<faults, lost>> /\ TasksTyped /\ GivesUp(c) = {}
  BY DEF List, TablesAlone, VaultInv, GivesUp
<1>2. CASE Moves(c, "passed")
  BY <1>1, <1>2, MovesInv, FaultsTyped DEF Steps
<1>3. CASE ~Moves(c, "passed")
  <2>1. PICK k \in found :
          task' = [task EXCEPT ![c] = IF NeedsRefresh(credentials[k])
                                      THEN [task[c] EXCEPT !.pc = "refresh", !.id = k, !.row = credentials[k]]
                                      ELSE [task[c] EXCEPT !.pc = "injected", !.id = k,
                                                           !.token = Token(credentials[k].secret)]]
    BY <1>3 DEF List
  <2> DEFINE row == credentials[k]
  <2>2. /\ k \in DOMAIN credentials /\ row.host = Asked(c).host /\ row.vault \in task[c].vaults /\ row \in CredentialRows
        /\ k \in Grants /\ row.secret \in Secrets
    BY HandTypes DEF Active
  <2> HIDE DEF row
  <2>3. CASE ~NeedsRefresh(row)
    <3>1. task' = [task EXCEPT ![c] = [task[c] EXCEPT !.pc = "injected", !.id = k, !.token = Token(row.secret)]]
      BY <2>1, <2>3 DEF row
    <3>2. Token(row.secret) \in Grants \X Nat
      BY <2>2 DEF Token, Secrets
    <3>3. Only(c) /\ task'[c].pc = "injected"
      BY <1>1, <2>2, <3>1, <3>2, FindsFacts
    <3> QED BY <1>1, <3>3, IdleStep, FaultsTyped DEF TablesAlone
  <2>4. CASE NeedsRefresh(row)
    <3>1. Takes(c, "refresh", k, row)
      BY <2>1, <2>4 DEF row, Takes
    <3>2. /\ Only(c) /\ task'[c].pc = "refresh" /\ task'[c].id = k /\ task'[c].row = row /\ task'[c].vaults = task[c].vaults
      BY <1>1, <2>2, <3>1, TakesFacts DEF Steps
    <3>3. Asked(c)' = Asked(c) /\ Resolver(c)' /\ ~Holder(c)' /\ ~InHand(c) /\ Held(c)' = row.secret
      BY <1>1, <3>2 DEF Only, Resolver, Holder, InHand, Held
    <3>4. \A g \in Grants : (Settled(g)' <=> Settled(g)) /\ Home(g)' = Home(g)
      BY <3>2, SameSettled
    <3>5. PICK g \in Grants : g = row.secret.grant
      BY <2>2 DEF Secrets
    <3>6. Settled(k) /\ Settled(g) /\ Home(g) = k /\ row.secret.refresh <= issued[g]
      BY <2>2, <3>5 DEF VaultInv, TableInv, row
    <3>7. g # c
      BY <1>1, <3>6, NotYet
    <3>8. Settled(k)' /\ Settled(g)' /\ Home(g)' = k
      BY <2>2, <3>4, <3>6
    <3>9. row.secret.refresh # Absent /\ (Stored(k)' => credentials'[k].vault = row.vault)
      BY <1>1, <2>4 DEF NeedsRefresh, TablesAlone, row
    <3>10. Asked(c).op # "addCredential"
      BY DEF Resolver, Resolvers
    <3>11. HandInv(c)'
      BY <1>1, <2>2, <3>2, <3>3, <3>5, <3>6, <3>7, <3>8, <3>9, <3>10 DEF HandInv, TablesAlone
    <3>12. Stored(task'[c].id) /\ task'[c].row.secret = credentials[task'[c].id].secret /\ task'[c].pc # "done"
      BY <2>2, <3>2 DEF Stored, row
    <3> QED BY <1>1, <3>2, <3>3, <3>11, <3>12, TakeInv
  <2> QED BY <2>3, <2>4
<1> QED BY <1>2, <1>3

LEMMA CountInv ==
  ASSUME VaultInv, NEW c \in Tasks, CountOthers(c)
  PROVE  VaultInv'
<1> DEFINE free == HostFree(task[c].id, task[c].row)
<1>1. task[c].pc = "count" /\ TablesAlone /\ UNCHANGED faults
  BY DEF CountOthers, TablesAlone
<1>2. CASE free
  BY <1>1, <1>2, MoveOnInv DEF CountOthers
<1>3. CASE ~free
  BY <1>1, <1>3, FailsInv, FaultsTyped DEF CountOthers
<1> QED BY <1>2, <1>3

LEMMA InsertInv ==
  ASSUME VaultInv, NEW c \in Tasks, InsertCredential(c)
  PROVE  VaultInv'
<1> DEFINE held == task[c].row
           succeeds == Open(held.vault) /\ HostFree(c, held)
<1>1. /\ task[c].pc = "write" /\ Asked(c).op = "addCredential" /\ ~Resolver(c) /\ InHand(c) /\ c \in Grants
      /\ UNCHANGED <<vaults, sessionVaults, rotates, issued, now, faults, lost>>
  BY DEF InsertCredential, On, Resolver, Resolvers, InHand, Grants
<1>2. held \in CredentialRows /\ Held(c).grant = c /\ task[c].id = c /\ HandInv(c) /\ held.secret = Held(c)
  BY <1>1, HandTypes DEF HandInv, Held
<1>3. CASE ~succeeds
  <2>1. Fails(c) /\ UNCHANGED credentials
    BY <1>3 DEF InsertCredential
  <2>2. GivesUp(c) = {}
    BY <1>1 DEF GivesUp
  <2> QED BY <1>1, <2>1, <2>2, FailsInv, FaultsTyped DEF TablesAlone
<1>4. CASE succeeds
  <2>1. PICK t \in 1..(Cardinality(DOMAIN credentials) + 1) :
          credentials' = [k \in DOMAIN credentials \cup {c} |-> IF k = c THEN [held EXCEPT !.at = t] ELSE credentials[k]]
    BY <1>4 DEF InsertCredential
  <2>2. Moves(c, "done")
    BY <1>4 DEF InsertCredential
  <2>3. t \in Nat
    OBVIOUS
  <2> DEFINE row == [held EXCEPT !.at = t]
  <2>4. ~held.archived
    <3> QED BY <1>1, <1>2 DEF HandInv
  <2>5. row \in CredentialRows /\ row.vault = held.vault /\ row.host = held.host /\ row.secret = held.secret /\ ~row.archived
    <3> HIDE DEF held
    <3> QED BY <1>2, <2>3, <2>4 DEF CredentialRows
  <2>6. credentials' = [k \in DOMAIN credentials \cup {c} |-> IF k = c THEN row ELSE credentials[k]]
    BY <2>1
  <2> HIDE DEF row
  <2>7. Only(c) /\ task'[c].pc = "done"
    BY <1>1, <2>2, MovesFacts DEF VaultInv, Steps
  <2>8. Stores(c, c, row)
    BY <1>1, <2>6, <2>7 DEF Stores, InHand
  <2>9. Open(row.vault) /\ HostFree(c, row)
    BY <1>4, <2>5 DEF HostFree
  <2> QED BY <1>1, <1>2, <2>5, <2>7, <2>8, <2>9, StoreInv
<1> QED BY <1>3, <1>4

LEMMA UpdateRowInv ==
  ASSUME VaultInv, NEW c \in Tasks, UpdateRow(c)
  PROVE  VaultInv'
<1> DEFINE k == task[c].id
           held == task[c].row
           there == credentials[k].secret
           ok == Stored(k) /\ ~credentials[k].archived /\ HostFree(k, held)
           back == ok /\ ~Resolver(c) /\ held.secret.grant # c
                   /\ (held.secret.grant # there.grant \/ held.secret.refresh < there.refresh)
<1>1. /\ task[c].pc = "write" /\ Asked(c).op # "addCredential" /\ InHand(c) /\ HandInv(c) /\ k \in Grants
      /\ UNCHANGED <<vaults, sessionVaults, rotates, issued, now, faults>> /\ held \in CredentialRows /\ held.secret = Held(c)
      /\ Held(c) \in Secrets /\ Held(c).refresh \in Nat \cup {Absent}
  BY HandTypes DEF UpdateRow, InHand, Held
<1>2. CASE ~ok
  <2>1. Fails(c) /\ UNCHANGED credentials /\ lost' = lost \cup GivesUp(c)
    BY <1>2 DEF UpdateRow
  <2> QED BY <1>1, <2>1, FailsInv, FaultsTyped DEF TablesAlone
<1>3. CASE ok
  <2> DEFINE row == [held EXCEPT !.archived = FALSE]
             pc == IF Resolver(c) THEN "injected" ELSE "done"
             token == IF Resolver(c) THEN Token(held.secret) ELSE task[c].token
  <2>1. /\ credentials' = [credentials EXCEPT ![k] = row] /\ task' = [task EXCEPT ![c] = [@ EXCEPT !.pc = pc, !.token = token]]
        /\ lost' = lost \cup (IF back THEN {held.secret.grant} ELSE {})
    BY <1>3 DEF UpdateRow
  <2>2. row \in CredentialRows /\ row.vault = held.vault /\ row.host = held.host /\ row.secret = held.secret /\ ~row.archived
    <3> HIDE DEF held
    <3> QED BY <1>1 DEF CredentialRows
  <2>3. pc \in Steps /\ token \in {<< >>} \cup (Grants \X Nat) /\ TasksTyped
    BY <1>1, TaskTypes DEF VaultInv, Steps, Token, Secrets
  <2> HIDE DEF row, token
  <2>4. Only(c) /\ task'[c].pc = pc
    <3> HIDE DEF pc
    <3> QED BY <1>1, <2>1, <2>3, WritesFacts
  <2>5. Stores(c, k, row)
    <3>1. Stored(k) /\ DOMAIN credentials' = DOMAIN credentials \cup {k} /\ credentials'[k] = row
          /\ \A j \in DOMAIN credentials \ {k} : credentials'[j] = credentials[j]
      BY <1>3, <2>1 DEF Stored
    <3> QED BY <1>1, <2>4, <3>1 DEF Stores, InHand
  <2>6. Open(row.vault) /\ HostFree(k, row)
    <3>1. credentials[k].vault = held.vault /\ Open(credentials[k].vault)
      BY <1>1, <1>3 DEF HandInv, VaultInv, VaultTypeOK, Stored
    <3> QED BY <1>3, <2>2, <3>1 DEF HostFree
  <2>7. ASSUME ~Resolver(c), Held(c).grant \notin {c} \cup lost'
        PROVE  credentials[k].secret.grant = Held(c).grant /\ Held(c).refresh >= credentials[k].secret.refresh
    <3>1. ~back
      BY <2>1, <2>7, <1>1
    <3>2. there.refresh \in Nat \cup {Absent}
      BY <1>3, HandTypes DEF Stored
    <3> QED BY <1>1, <1>3, <2>7, <3>1, <3>2 DEF Absent
  <2>8. lost \subseteq lost' /\ Stored(k) /\ row.vault = task[c].row.vault /\ row.secret = Held(c)
        /\ (~Resolver(c) => task'[c].pc = "done")
    BY <1>1, <1>3, <2>1, <2>2, <2>4
  <2> HIDE DEF ok, back, pc
  <2> QED BY <1>1, <2>2, <2>5, <2>6, <2>7, <2>8, StoreInv
<1> QED BY <1>2, <1>3

LEMMA RefreshedInv ==
  ASSUME VaultInv, NEW c \in Tasks, Refresh(c) \/ RefreshReplyLost(c)
  PROVE  VaultInv'
<1> DEFINE s == Held(c)
<1>1. /\ task[c].pc = "refresh" /\ InHand(c) /\ HandInv(c) /\ task[c].row \in CredentialRows /\ s \in Secrets
      /\ UNCHANGED <<vaults, credentials, sessionVaults, rotates, now>> /\ Accepts(s) /\ lost \subseteq lost'
      /\ issued' = [issued EXCEPT ![s.grant] = @ + 1] /\ TasksTyped /\ faults' \in 0..MaxFaults
  BY HandTypes, FaultsTyped DEF Refresh, RefreshReplyLost, InHand, Held, VaultInv
<1>2. PICK g \in Grants : g = s.grant
  BY <1>1 DEF Secrets
<1>3. issued[g] \in Nat /\ Resolver(c) /\ g # c /\ Settled(g) /\ Settled(task[c].id) /\ Home(g) = task[c].id
      /\ task[c].id \in Grants /\ s.refresh \in Nat \cup {Absent} /\ s.refresh <= issued[g] /\ s.refresh # Absent
      /\ Asked(c).op # "addCredential"
  BY <1>1, <1>2, HandTypes DEF HandInv, Held, Resolver, Resolvers
<1>4. CASE RefreshReplyLost(c)
  <2>1. Fails(c) /\ g \in lost'
    BY <1>2, <1>4 DEF RefreshReplyLost, Held
  <2>2. Only(c) /\ task'[c].pc = "passed"
    BY <1>1, <1>3, <2>1, FailsFacts
  <2>3. HandInv(c)'
    BY <2>2 DEF HandInv, InHand
  <2> QED BY <1>1, <1>2, <2>1, <2>2, <2>3, RefreshInv
<1>5. CASE Refresh(c)
  <2>1. PICK expires \in {now + 1, Absent} : task' = [task EXCEPT ![c] = [@ EXCEPT !.row.secret = Minted(s, expires), !.pc = "count"]]
    BY <1>5 DEF Refresh, Held
  <2> DEFINE fresh == Minted(s, expires)
             refresh == IF rotates THEN issued[g] + 1 ELSE s.refresh
             access == issued[g] + 1
  <2>2. expires \in Nat \cup {Absent} /\ refresh \in Nat /\ access \in Nat
    BY <1>3, FaultsTyped, VaultAssumption
  <2>3. fresh = [s EXCEPT !.access = access, !.expires = expires, !.refresh = refresh]
    BY <1>2 DEF Minted
  <2> HIDE DEF fresh
  <2>4. fresh \in Secrets /\ fresh.grant = g /\ fresh.refresh = refresh
    <3> HIDE DEF s, refresh, access
    <3> QED BY <1>1, <1>2, <2>2, <2>3 DEF Secrets
  <2>5. task' = [task EXCEPT ![c] = [@ EXCEPT !.row.secret = fresh, !.pc = "count"]]
    BY <2>1 DEF fresh
  <2>6. /\ Only(c) /\ task'[c].pc = "count" /\ task'[c].id = task[c].id /\ task'[c].vaults = task[c].vaults
        /\ task'[c].row \in CredentialRows /\ task'[c].row.secret = fresh /\ task'[c].row.vault = task[c].row.vault
        /\ task'[c].row.host = task[c].row.host
    BY <1>1, <2>4, <2>5, RefreshFacts
  <2>7. Asked(c)' = Asked(c) /\ Resolver(c)' /\ Held(c)' = fresh
    BY <1>3, <2>6 DEF Only, Resolver, Held
  <2>8. \A h \in Grants : (Settled(h)' <=> Settled(h)) /\ Home(h)' = Home(h)
    BY <2>6, SameSettled
  <2>9. HandInv(c)'
    <3>1. PICK id \in Grants : id = task[c].id
      BY <1>3
    <3>2. Settled(g)' /\ Settled(id)' /\ Home(g)' = id
      BY <1>3, <2>8, <3>1
    <3>3. issued \in [Grants -> Nat]
      BY DEF VaultInv, TableInv
    <3>4. issued'[g] = issued[g] + 1
      BY <1>1, <1>2, <3>3
    <3>5. fresh.refresh <= issued'[g] /\ fresh.refresh # Absent
      BY <1>3, <2>2, <2>4, <3>4 DEF Absent
    <3>6. Stored(id)' => credentials'[id].vault = task'[c].row.vault
      BY <1>1, <2>6, <3>1 DEF HandInv, Stored
    <3>7. task'[c].row.host = Asked(c)'.host /\ task'[c].row.vault \in task'[c].vaults
      BY <1>1, <1>3, <2>6, <2>7 DEF HandInv
    <3> QED BY <1>3, <2>4, <2>6, <2>7, <3>1, <3>2, <3>5, <3>6, <3>7 DEF HandInv
  <2>10. task'[c].pc = "count" /\ task'[c].row.secret.grant = g /\ (rotates => task'[c].row.secret.refresh = issued[g] + 1)
    BY <2>4, <2>6
  <2> HIDE DEF s
  <2> QED BY <1>1, <1>2, <2>6, <2>9, <2>10, RefreshInv DEF s
<1> QED BY <1>4, <1>5

(***************************************************************************)
(* je-vault and the clock.                                                 *)
(***************************************************************************)
LEMMA StillInv ==
  ASSUME VaultInv, UNCHANGED <<vaults, credentials, sessionVaults, rotates, issued, task, faults, lost>>, now' \in 0..MaxTime
  PROVE  VaultInv'
<1>1. RowsTyped /\ OtherTypes
  BY TypeParts DEF VaultInv
<1>2. OtherTypes'
  BY <1>1 DEF OtherTypes
<1>3. RowsKept
  BY <1>1, SameRows DEF Open
<1>4. RowsTyped'
  BY <1>1, <1>3, RowsKeptTyped
<1>5. VaultTypeOK'
  BY <1>2, <1>4 DEF VaultTypeOK, OtherTypes, RowsTyped
<1>6. TasksTyped'
  BY DEF VaultInv, TasksTyped
<1>7. \A d \in Tasks : Asked(d)' = Asked(d) /\ LetsGo(d)
  BY DEF LetsGo, Asked
<1> QED BY <1>3, <1>5, <1>6, <1>7, QuietInv

LEMMA CrashInv ==
  ASSUME VaultInv, CrashProxy, \A c \in Tasks : ProgressInv(c)
  PROVE  VaultInv'
<1> DEFINE Dies(c) == Proxied(c) /\ task[c].pc \notin {"new", "sent", "badGateway", "dead"}
<1>1. TablesAlone /\ lost' = lost \cup UNION {GivesUp(c) : c \in {d \in Tasks : Proxied(d) /\ InProgress(d)}}
      /\ faults' \in 0..MaxFaults
      /\ task' = [c \in Tasks |-> IF Dies(c) THEN [task[c] EXCEPT !.pc = "dead"] ELSE task[c]]
  BY FaultsTyped DEF CrashProxy, TablesKept, TablesAlone
<1>2. PICK asks : task \in [Tasks -> TaskRows(asks)]
  BY DEF VaultInv, TasksTyped
<1>3. ASSUME NEW c \in Tasks
      PROVE  /\ task'[c] \in TaskRows(asks) /\ task'[c].ask = task[c].ask
             /\ task'[c] # task[c] => Dies(c) /\ task'[c].pc = "dead"
  <2> DEFINE old == task[c]
             crashed == [old EXCEPT !.pc = "dead"]
  <2>1. old \in TaskRows(asks) /\ task'[c] \in {old, crashed} /\ (task'[c] # old => Dies(c) /\ task'[c] = crashed)
    BY <1>1, <1>2
  <2>2. crashed \in TaskRows(asks) /\ crashed.ask = old.ask /\ crashed.pc = "dead"
    <3> HIDE DEF old, Dies
    <3> QED BY <2>1 DEF TaskRows, Steps
  <2> HIDE DEF old, crashed, Dies
  <2> QED BY <2>1, <2>2 DEF old
<1>4. TasksTyped'
  BY <1>1, <1>3 DEF TasksTyped
<1>5. ASSUME NEW d \in Tasks
      PROVE  Asked(d)' = Asked(d) /\ LetsGo(d)
  <2>1. Asked(d)' = Asked(d)
    BY <1>3 DEF Asked
  <2>2. ASSUME task'[d] # task[d]
        PROVE  task[d].pc # "done" /\ ~InHand(d)' /\ (Holder(d) => Held(d).grant \in lost')
    <3>1. Dies(d) /\ task'[d].pc = "dead"
      BY <1>3, <2>2
    <3>2. Resolver(d) /\ task[d].pc # "done"
      BY <3>1 DEF Proxied, Resolver, Resolvers, ProgressInv
    <3>3. ASSUME Holder(d) PROVE Held(d).grant \in lost'
      <4>1. d \in {e \in Tasks : Proxied(e) /\ InProgress(e)} /\ Held(d).grant \in GivesUp(d)
        BY <3>1, <3>3 DEF Holder, GivesUp, Held, InProgress
      <4> QED BY <4>1, <1>1
    <3> QED BY <3>1, <3>2, <3>3 DEF InHand
  <2> QED BY <2>1, <2>2 DEF LetsGo
<1>6. VaultTypeOK' /\ RowsKept
  <2>1. RowsTyped
    BY TypeParts DEF VaultInv
  <2> QED BY <1>1, <2>1, SameTables, SameRows DEF TablesAlone, Open
<1> QED BY <1>1, <1>4, <1>5, <1>6, QuietInv DEF TablesAlone

LEMMA ProxyInv ==
  ASSUME VaultInv, ProxyStep, \A c \in Tasks : ProgressInv(c)
  PROVE  VaultInv'
<1>1. CASE StartProxy \/ WriteKey
  BY <1>1, StillInv, FaultsTyped DEF StartProxy, WriteKey, TablesKept
<1>2. CASE CrashProxy
  BY <1>2, CrashInv
<1>3. ASSUME NEW c \in Tasks, Connect(c)
      PROVE  VaultInv'
  <2> DEFINE pc == IF SessionOf(Asked(c)) = "" THEN "passed" ELSE "session"
  <2>1. Moves(c, pc) /\ task[c].pc = "new" /\ TablesAlone /\ UNCHANGED <<faults, lost>> /\ GivesUp(c) = {}
    BY <1>3 DEF Connect, On, TablesKept, TablesAlone, GivesUp
  <2>2. pc \in Steps \ {"refresh", "count", "write"}
    BY DEF Steps
  <2> HIDE DEF pc
  <2> QED BY <2>1, <2>2, MovesInv, FaultsTyped
<1>4. ASSUME NEW c \in Tasks, Forward(c)
      PROVE  VaultInv'
  <2>1. PICK pc \in {"sent", "badGateway"} : Moves(c, pc)
    BY <1>4 DEF Forward
  <2>2. task[c].pc \in {"injected", "passed"} /\ TablesAlone /\ UNCHANGED <<faults, lost>> /\ GivesUp(c) = {}
    BY <1>4 DEF Forward, TablesKept, TablesAlone, GivesUp
  <2>3. pc \in Steps \ {"refresh", "count", "write"}
    BY DEF Steps
  <2> QED BY <2>1, <2>2, <2>3, MovesInv, FaultsTyped
<1> QED BY <1>1, <1>2, <1>3, <1>4 DEF ProxyStep

LEMMA VaultStepInv ==
  ASSUME VaultInv, VaultStep, \A c \in Tasks : ProgressInv(c) /\ WellFormed(Asked(c))
  PROVE  VaultInv'
<1>1. CASE Tick
  BY <1>1, StillInv, FaultsTyped, VaultAssumption DEF Tick
<1>2. ASSUME NEW c \in Tasks, TaskStep(c)
      PROVE  VaultInv'
  <2>1. CASE CreateVault(c) \/ UpdateVault(c) \/ ArchiveVault(c) \/ DeleteVault(c) \/ SetSessionVaults(c)
    BY <2>1, VaultOpsInv
  <2>2. CASE CheckAdd(c) \/ ReadCredential(c)
    BY <2>2, CheckAddInv, ReadCredentialInv
  <2>3. CASE CountOthers(c) \/ InsertCredential(c) \/ UpdateRow(c)
    BY <2>3, CountInv, InsertInv, UpdateRowInv
  <2>4. CASE ArchiveCredential(c) \/ DeleteCredential(c) \/ ValidateCredential(c) \/ TurnConnects(c)
             \/ RefreshRefused(c) \/ Abandon(c)
    BY <2>4, SmallOpsInv
  <2>5. CASE ReadSession(c)
    BY <2>5, ReadSessionInv DEF ReadSession, ProgressInv
  <2>6. CASE List(c)
    BY <2>6, ListInv DEF List, ProgressInv
  <2>7. CASE Refresh(c) \/ RefreshReplyLost(c)
    BY <2>7, RefreshedInv
  <2> QED BY <1>2, <2>1, <2>2, <2>3, <2>4, <2>5, <2>6, <2>7 DEF TaskStep
<1> QED BY <1>1, <1>2 DEF VaultStep

(***************************************************************************)
(* What a lookup finds, and what the request carries.                      *)
(***************************************************************************)
LEMMA WatchGrows ==
  ASSUME Watch, NEW c \in Tasks
  PROVE  /\ seen[c].had \subseteq seen'[c].had /\ seen[c].tokens \subseteq seen'[c].tokens
         /\ seen[c].none => seen'[c].none
         /\ Watched(c) =>
              /\ sessionVaults'[SessionOf(Asked(c))] \in seen'[c].had
              /\ \A k \in Active(credentials', Asked(c).host, UNION seen'[c].had) : Token(credentials'[k].secret) \in seen'[c].tokens
              /\ \A ids \in seen'[c].had : Active(credentials', Asked(c).host, ids) = {} => seen'[c].none
<1> DEFINE host == Asked(c).host
           had == seen[c].had \cup {sessionVaults'[SessionOf(Asked(c))]}
           tokens == seen[c].tokens \cup {Token(credentials'[k].secret) : k \in Active(credentials', host, UNION had)}
           none == seen[c].none \/ \E ids \in had : Active(credentials', host, ids) = {}
<1>1. seen'[c] = IF ~Watched(c) THEN seen[c] ELSE [had |-> had, tokens |-> tokens, none |-> none]
  BY DEF Watch, See
<1>2. CASE ~Watched(c)
  BY <1>1, <1>2
<1>3. CASE Watched(c)
  <2>1. seen'[c].had = had /\ seen'[c].tokens = tokens /\ seen'[c].none = none
    <3> HIDE DEF had, tokens, none
    <3> QED BY <1>1, <1>3
  <2> QED BY <2>1
<1> QED BY <1>2, <1>3

LEMMA SeenKept ==
  ASSUME Watch, NEW c \in Tasks, SeenInv(c), task'[c] = task[c], received'[c] = received[c]
  PROVE  SeenInv(c)'
BY WatchGrows DEF SeenInv, Proxied, Headers, Own, Asked

\* c gives up, fails or has no vaults to look into.
LEMMA SeenFails ==
  ASSUME Watch, NEW c \in Tasks, SeenInv(c), NEW t, t = task'[c], t.token = task[c].token,
         t.pc \in {"session", "dead", "refused", "badGateway"} \/ (t.pc = "passed" /\ (t.failed \/ seen'[c].none))
  PROVE  SeenInv(c)'
BY WatchGrows DEF SeenInv

\* c goes on with the row in its hands.
LEMMA SeenGoesOn ==
  ASSUME Watch, NEW c \in Tasks, SeenInv(c), task[c].pc \in {"list", "refresh", "count", "write"},
         NEW t, t = task'[c], t.token = task[c].token, t.vaults = task[c].vaults, t.pc \in {"refresh", "count", "write"}
  PROVE  SeenInv(c)'
BY WatchGrows DEF SeenInv

\* c has found a token of an active row in one of its vaults.
LEMMA SeenFinds ==
  ASSUME Watch, NEW c \in Tasks, SeenInv(c), task[c].pc \in {"list", "refresh", "count", "write"}, Resolver(c),
         NEW t, t = task'[c], t.pc = "injected", NEW k \in Active(credentials', Asked(c).host, task[c].vaults),
         t.token = Token(credentials'[k].secret)
  PROVE  SeenInv(c)'
<1>1. Watched(c) /\ task[c].vaults \in seen'[c].had
  BY WatchGrows DEF SeenInv, Watched, InProgress
<1>2. k \in Active(credentials', Asked(c).host, UNION seen'[c].had)
  BY <1>1 DEF Active
<1>3. t.token \in seen'[c].tokens
  BY <1>1, <1>2, WatchGrows
<1>4. t.token # << >>
  BY DEF Token
<1> QED BY <1>3, <1>4 DEF SeenInv

\* A task of the vaults makes a step.
LEMMA LookupSeen ==
  ASSUME VaultInv, Watch, NEW c \in Tasks, Resolver(c), SeenInv(c), ProgressInv(c), WellFormed(Asked(c)), TaskStep(c)
  PROVE  ProgressInv(c)' /\ SeenInv(c)' /\ Only(c)
<1>1. TasksTyped /\ Asked(c).op \in {"turn", "proxy"}
  BY DEF VaultInv, Resolver, Resolvers
<1>2. ASSUME Fails(c), task[c].pc # "done"
      PROVE  ProgressInv(c)' /\ SeenInv(c)' /\ Only(c)
  <2>1. LET t == task'[c] IN Only(c) /\ t.pc = "passed" /\ t.token = task[c].token /\ t.failed
    BY <1>1, <1>2, FailsFacts
  <2> QED BY <2>1, SeenFails DEF ProgressInv
<1>3. CASE TurnConnects(c)
  <2>1. Only(c) /\ task'[c].pc = "session" /\ task'[c].token = task[c].token
    BY <1>1, <1>3, MovesFacts DEF TurnConnects, On, Steps
  <2>2. SessionOf(Asked(c)) \in Sessions /\ Asked(c)' = Asked(c)
    BY <1>3, <2>1 DEF TurnConnects, On, WellFormed, SessionOf, Resolvers, Only
  <2> QED BY <2>1, <2>2, SeenFails DEF ProgressInv, Resolver
<1>4. CASE ReadSession(c)
  <2> DEFINE ids == sessionVaults[SessionOf(Asked(c))]
             pc == IF ids = {} THEN "passed" ELSE "list"
  <2>1. task[c].pc = "session" /\ task' = [task EXCEPT ![c] = [@ EXCEPT !.vaults = ids, !.pc = pc]]
        /\ UNCHANGED <<sessionVaults, credentials>>
    BY <1>4 DEF ReadSession
  <2>2. ids \in SUBSET Vaults /\ pc \in Steps
    BY <2>1 DEF VaultInv, VaultTypeOK, Steps, ProgressInv
  <2> HIDE DEF pc
  <2>3. Only(c) /\ task'[c].pc = pc /\ task'[c].vaults = ids /\ task'[c].token = task[c].token
    <3> HIDE DEF ids
    <3> QED BY <1>1, <2>1, <2>2, SessionFacts
  <2>4. ids \in seen'[c].had /\ (Active(credentials', Asked(c).host, ids) = {} => seen'[c].none)
    BY <2>1, WatchGrows DEF Watched, InProgress
  <2>5. CASE ids = {}
    <3>1. seen'[c].none
      BY <2>4, <2>5 DEF Active
    <3> QED BY <2>3, <2>5, <3>1, SeenFails DEF ProgressInv, pc
  <2>6. CASE ids # {}
    <3>1. task'[c].pc = "list" /\ Resolver(c)'
      BY <2>3, <2>6 DEF pc, Only, Resolver
    <3>2. SeenInv(c)'
      BY <2>3, <2>4, <3>1, WatchGrows DEF SeenInv
    <3> QED BY <2>3, <3>1, <3>2 DEF ProgressInv
  <2> QED BY <2>5, <2>6
<1>5. CASE List(c)
  <2> DEFINE found == Active(credentials, Asked(c).host, task[c].vaults)
  <2>1. task[c].pc = "list" /\ UNCHANGED credentials
    BY <1>5 DEF List
  <2>2. CASE found = {} /\ Moves(c, "passed")
    <3>1. Only(c) /\ task'[c].pc = "passed" /\ task'[c].token = task[c].token
      BY <1>1, <2>1, <2>2, MovesFacts DEF Steps
    <3>2. seen'[c].none
      BY <2>1, <2>2, WatchGrows DEF Watched, InProgress, SeenInv
    <3> QED BY <3>1, <3>2, SeenFails DEF ProgressInv
  <2>3. CASE ~(found = {} /\ Moves(c, "passed"))
    <3>1. PICK k \in found :
            task' = [task EXCEPT ![c] = IF NeedsRefresh(credentials[k])
                                      THEN [task[c] EXCEPT !.pc = "refresh", !.id = k, !.row = credentials[k]]
                                      ELSE [task[c] EXCEPT !.pc = "injected", !.id = k,
                                                           !.token = Token(credentials[k].secret)]]
      BY <1>5, <2>3 DEF List
    <3> DEFINE row == credentials[k]
    <3>2. k \in DOMAIN credentials /\ row \in CredentialRows /\ k \in Grants /\ row.secret \in Secrets
      BY HandTypes DEF Active
    <3> HIDE DEF row
    <3>3. CASE NeedsRefresh(row)
      <4>1. Takes(c, "refresh", k, row)
        BY <3>1, <3>3 DEF row, Takes
      <4>2. Only(c) /\ task'[c].pc = "refresh" /\ task'[c].token = task[c].token /\ task'[c].vaults = task[c].vaults
        BY <1>1, <2>1, <3>2, <4>1, TakesFacts DEF Steps
      <4> QED BY <2>1, <4>2, SeenGoesOn DEF ProgressInv
    <3>4. CASE ~NeedsRefresh(row)
      <4>1. task' = [task EXCEPT ![c] = [task[c] EXCEPT !.pc = "injected", !.id = k, !.token = Token(row.secret)]]
        BY <3>1, <3>4 DEF row
      <4>2. Token(row.secret) \in Grants \X Nat
        BY <3>2 DEF Token, Secrets
      <4>3. Only(c) /\ task'[c].pc = "injected" /\ task'[c].token = Token(row.secret)
        BY <1>1, <2>1, <3>2, <4>1, <4>2, FindsFacts
      <4>4. k \in Active(credentials', Asked(c).host, task[c].vaults) /\ task'[c].token = Token(credentials'[k].secret)
        BY <2>1, <4>3 DEF row
      <4> QED BY <2>1, <4>3, <4>4, SeenFinds DEF ProgressInv
    <3> QED BY <3>3, <3>4
  <2> QED BY <2>2, <2>3
<1>6. CASE Refresh(c)
  <2>1. task[c].pc = "refresh" /\ Held(c) \in Secrets /\ Held(c).grant \in Grants /\ task[c].row \in CredentialRows
    BY <1>6, HandTypes DEF Refresh, InHand
  <2>2. PICK expires \in {now + 1, Absent} : task' = [task EXCEPT ![c] = [@ EXCEPT !.row.secret = Minted(Held(c), expires), !.pc = "count"]]
    BY <1>6 DEF Refresh, Held
  <2>3. Minted(Held(c), expires) \in Secrets
    <3> DEFINE s == Held(c)
               access == issued[s.grant] + 1
               refresh == IF rotates THEN issued[s.grant] + 1 ELSE s.refresh
    <3>1. s \in Secrets /\ access \in Nat /\ refresh \in Nat \cup {Absent} /\ expires \in Nat \cup {Absent}
      BY <2>1, FaultsTyped, VaultAssumption DEF VaultInv, TableInv, Secrets
    <3>2. Minted(s, expires) = [s EXCEPT !.access = access, !.expires = expires, !.refresh = refresh]
      BY DEF Minted
    <3> HIDE DEF s, access, refresh
    <3>3. Minted(s, expires) \in Secrets
      BY <3>1, <3>2 DEF Secrets
    <3> QED BY <3>3 DEF s
  <2>4. Only(c) /\ task'[c].pc = "count" /\ task'[c].token = task[c].token /\ task'[c].vaults = task[c].vaults
    BY <1>1, <2>1, <2>2, <2>3, RefreshFacts
  <2> QED BY <2>1, <2>4, SeenGoesOn DEF ProgressInv
<1>7. CASE RefreshRefused(c) \/ RefreshReplyLost(c)
  BY <1>2, <1>7 DEF RefreshRefused, RefreshReplyLost
<1>8. CASE CountOthers(c)
  <2>1. task[c].pc = "count" /\ (Fails(c) \/ Moves(c, "write"))
    BY <1>8 DEF CountOthers
  <2>2. CASE Moves(c, "write")
    <3>1. Only(c) /\ task'[c].pc = "write" /\ task'[c].token = task[c].token /\ task'[c].vaults = task[c].vaults
      BY <1>1, <2>1, <2>2, MovesFacts DEF Steps
    <3> QED BY <2>1, <3>1, SeenGoesOn DEF ProgressInv
  <2> QED BY <1>2, <2>1, <2>2
<1>9. CASE UpdateRow(c)
  <2> DEFINE k == task[c].id
             held == task[c].row
             ok == Stored(k) /\ ~credentials[k].archived /\ HostFree(k, held)
  <2>1. task[c].pc = "write" /\ InHand(c) /\ HandInv(c) /\ held \in CredentialRows /\ held.secret \in Secrets
    BY <1>9, HandTypes DEF UpdateRow, InHand, Held
  <2>2. CASE ~ok
    BY <1>2, <1>9, <2>1, <2>2 DEF UpdateRow
  <2>3. CASE ok
    <3> DEFINE row == [held EXCEPT !.archived = FALSE]
    <3>1. /\ credentials' = [credentials EXCEPT ![k] = row] /\ k \in DOMAIN credentials
          /\ task' = [task EXCEPT ![c] = [@ EXCEPT !.pc = "injected", !.token = Token(held.secret)]]
      BY <1>9, <2>3 DEF UpdateRow, Stored
    <3>2. row.vault = held.vault /\ row.host = held.host /\ row.secret = held.secret /\ ~row.archived
      <4>1. held \in CredentialRows
        BY <2>1
      <4> HIDE DEF held
      <4> QED BY <4>1 DEF CredentialRows
    <3> HIDE DEF row
    <3>3. Token(held.secret) \in {<< >>} \cup (Grants \X Nat)
      BY <2>1 DEF Token, Secrets
    <3>4. Only(c) /\ task'[c].pc = "injected" /\ task'[c].token = Token(held.secret)
      <4>1. "injected" \in Steps
        BY DEF Steps
      <4> DEFINE token == Token(held.secret)
      <4>2. token \in {<< >>} \cup (Grants \X Nat) /\ task[c].pc # "done" /\ task' = [task EXCEPT ![c] = [@ EXCEPT !.pc = "injected", !.token = token]]
        BY <2>1, <3>1, <3>3
      <4> HIDE DEF held, token
      <4>3. Only(c) /\ task'[c].pc = "injected" /\ task'[c].token = token
        BY <1>1, <4>1, <4>2, WritesFacts
      <4> QED BY <4>3 DEF token
    <3>5. credentials'[k] = row /\ k \in DOMAIN credentials'
      BY <3>1
    <3>6. PICK j : j = k
      OBVIOUS
    <3>7. j \in Active(credentials', Asked(c).host, task[c].vaults) /\ task'[c].token = Token(credentials'[j].secret)
      BY <2>1, <3>2, <3>4, <3>5, <3>6 DEF Active, HandInv
    <3> QED BY <2>1, <3>4, <3>7, SeenFinds DEF ProgressInv
  <2> QED BY <2>2, <2>3
<1>10. CASE Abandon(c)
  <2>1. Only(c) /\ task'[c].pc = "dead" /\ task'[c].token = task[c].token
    BY <1>1, <1>10, MovesFacts DEF Abandon, InProgress, Steps
  <2> QED BY <2>1, SeenFails DEF ProgressInv
<1> QED BY <1>1, <1>3, <1>4, <1>5, <1>6, <1>7, <1>8, <1>9, <1>10
     DEF TaskStep, CreateVault, UpdateVault, ArchiveVault, DeleteVault, OnVault, SetSessionVaults, CheckAdd, ReadCredential,
         InsertCredential, ArchiveCredential, DeleteCredential, ValidateCredential, On

\* The step of an API request changes only its own task, and not what that asks for.
LEMMA RequestFrame ==
  ASSUME VaultInv, NEW c \in Tasks, TaskStep(c), ~Resolver(c), ProgressInv(c)
  PROVE  /\ \A d \in Tasks \ {c} : task'[d] = task[d]
         /\ \A d \in Tasks : Asked(d)' = Asked(d)
         /\ task'[c].pc \notin {"session", "list"}
<1> DEFINE old == task[c]
           Frame == /\ \A d \in Tasks \ {c} : task'[d] = task[d]
                    /\ task'[c].ask = old.ask
                    /\ task'[c].pc \notin {"session", "list"}
<1>1. PICK asks : task \in [Tasks -> TaskRows(asks)]
  BY DEF VaultInv, TasksTyped
<1>2. old \in TaskRows(asks)
  BY <1>1
<1>3. ASSUME NEW new, task' = [task EXCEPT ![c] = new], new.ask = old.ask, new.pc \notin {"session", "list"}
      PROVE  Frame
  <2> HIDE DEF old
  <2> QED BY <1>1, <1>3
<1> SUFFICES Frame
  BY DEF Asked
<1> HIDE DEF Frame
<1>4. ASSUME NEW pc, Moves(c, pc), pc \notin {"session", "list"}
      PROVE  Frame
  <2> DEFINE new == [old EXCEPT !.pc = pc]
  <2>1. task' = [task EXCEPT ![c] = new]
    BY <1>4 DEF Moves
  <2>2. new.ask = old.ask /\ new.pc = pc
    <3> HIDE DEF old
    <3> QED BY <1>2 DEF TaskRows
  <2> HIDE DEF new
  <2> QED BY <1>3, <1>4, <2>1, <2>2
<1>5. ASSUME Fails(c)
      PROVE  Frame
  <2> DEFINE pc == IF Resolver(c) THEN "passed" ELSE "refused"
             new == [old EXCEPT !.pc = pc, !.failed = TRUE]
  <2>1. task' = [task EXCEPT ![c] = new] /\ pc \in {"passed", "refused"}
    BY <1>5 DEF Fails, Failed
  <2> HIDE DEF pc
  <2>2. new.ask = old.ask /\ new.pc = pc
    <3> HIDE DEF old
    <3> QED BY <1>2 DEF TaskRows
  <2> HIDE DEF new
  <2> QED BY <1>3, <2>1, <2>2
<1>6. ASSUME NEW id, NEW row, Takes(c, "count", id, row)
      PROVE  Frame
  <2> DEFINE new == [old EXCEPT !.pc = "count", !.id = id, !.row = row]
  <2>1. task' = [task EXCEPT ![c] = new]
    BY <1>6 DEF Takes
  <2>2. new.ask = old.ask /\ new.pc = "count"
    <3> HIDE DEF old
    <3> QED BY <1>2 DEF TaskRows
  <2> HIDE DEF new
  <2> QED BY <1>3, <2>1, <2>2
<1>7. CASE \/ CreateVault(c) \/ UpdateVault(c) \/ ArchiveVault(c) \/ DeleteVault(c) \/ SetSessionVaults(c)
           \/ CountOthers(c) \/ InsertCredential(c) \/ ArchiveCredential(c) \/ DeleteCredential(c) \/ ValidateCredential(c)
           \/ RefreshRefused(c) \/ RefreshReplyLost(c) \/ Abandon(c)
  <2>1. Fails(c) \/ Moves(c, "done") \/ Moves(c, "write") \/ Moves(c, "dead")
    BY <1>7 DEF CreateVault, UpdateVault, ArchiveVault, DeleteVault, OnVault, SetSessionVaults, CountOthers, InsertCredential,
                ArchiveCredential, DeleteCredential, ValidateCredential, RefreshRefused, RefreshReplyLost, Abandon
  <2>2. CASE Fails(c)
    BY <1>5, <2>2
  <2>3. CASE Moves(c, "done")
    BY <1>4, <2>3
  <2>4. CASE Moves(c, "write")
    BY <1>4, <2>4
  <2>5. CASE Moves(c, "dead")
    BY <1>4, <2>5
  <2> QED BY <2>1, <2>2, <2>3, <2>4, <2>5
<1>8. CASE CheckAdd(c)
  <2>1. Fails(c) \/ \E row : Takes(c, "count", c, row)
    BY <1>8 DEF CheckAdd, Takes
  <2> QED BY <2>1, <1>5, <1>6
<1>9. CASE ReadCredential(c)
  <2>1. Fails(c) \/ \E row : Takes(c, "count", Asked(c).credential, row)
    BY <1>9 DEF ReadCredential, Takes
  <2> QED BY <2>1, <1>5, <1>6
<1>10. CASE UpdateRow(c)
  <2>1. Fails(c) \/ task' = [task EXCEPT ![c] = [@ EXCEPT !.pc = "done", !.token = task[c].token]]
    BY <1>10 DEF UpdateRow
  <2>2. CASE task' = [task EXCEPT ![c] = [@ EXCEPT !.pc = "done", !.token = task[c].token]]
    <3> DEFINE token == task[c].token
               new == [old EXCEPT !.pc = "done", !.token = token]
    <3>1. task' = [task EXCEPT ![c] = new]
      BY <1>1, <2>2
    <3> HIDE DEF token
    <3>2. new.ask = old.ask /\ new.pc = "done"
      <4> HIDE DEF old
      <4> QED BY <1>2 DEF TaskRows
    <3> HIDE DEF new
    <3> QED BY <1>3, <3>1, <3>2
  <2> QED BY <1>5, <2>1, <2>2
<1>11. ~TurnConnects(c) /\ ~ReadSession(c) /\ ~List(c) /\ ~Refresh(c)
  <2>1. task[c].pc # "refresh"
    BY DEF VaultInv, HandInv, InHand
  <2> QED BY <2>1 DEF TurnConnects, On, ReadSession, List, Refresh, ProgressInv, Resolver, Resolvers
<1> QED BY <1>7, <1>8, <1>9, <1>10, <1>11 DEF TaskStep

(***************************************************************************)
(* The invariant is inductive.                                             *)
(***************************************************************************)
\* What one task has seen, and how je-vault stands.
OutcomeInv(c) == WellFormed(Asked(c)) /\ ProgressInv(c) /\ (Resolver(c) => SeenInv(c))
ProcessInv == ProxyTypeOK /\ (proxy = "creating" => ca.crt) /\ DOMAIN received = Tasks

LEMMA OutcomeKept ==
  ASSUME Watch, NEW c \in Tasks, OutcomeInv(c), task'[c] = task[c], received'[c] = received[c]
  PROVE  OutcomeInv(c)'
<1>1. Asked(c)' = Asked(c)
  BY DEF Asked
<1> QED BY <1>1, SeenKept DEF OutcomeInv, ProgressInv, Resolver

LEMMA VaultStepOutcome ==
  ASSUME VaultInv, Watch, VaultStep, UNCHANGED proxyVars, \A c \in Tasks : OutcomeInv(c)
  PROVE  \A c \in Tasks : OutcomeInv(c)'
<1>1. UNCHANGED received
  BY DEF proxyVars
<1>2. CASE Tick
  BY <1>1, <1>2, OutcomeKept DEF Tick
<1>3. ASSUME NEW d \in Tasks, TaskStep(d), NEW c \in Tasks
      PROVE  OutcomeInv(c)'
  <2>1. CASE Resolver(d)
    <3>1. ProgressInv(d)' /\ SeenInv(d)' /\ Only(d)
      BY <1>3, <2>1, LookupSeen DEF OutcomeInv
    <3>2. CASE c = d
      BY <3>1, <3>2 DEF OutcomeInv, Only
    <3>3. CASE c # d
      BY <3>1, <3>3, <1>1, OutcomeKept DEF Only
    <3> QED BY <3>2, <3>3
  <2>2. CASE ~Resolver(d)
    <3>1. /\ \A e \in Tasks \ {d} : task'[e] = task[e]
          /\ \A e \in Tasks : Asked(e)' = Asked(e)
          /\ task'[d].pc \notin {"session", "list"}
      BY <1>3, <2>2, RequestFrame DEF OutcomeInv
    <3>2. CASE c = d
      BY <3>1, <3>2, <2>2 DEF OutcomeInv, ProgressInv, Resolver
    <3>3. CASE c # d
      BY <3>1, <3>3, <1>1, OutcomeKept
    <3> QED BY <3>2, <3>3
  <2> QED BY <2>1, <2>2
<1> QED BY <1>2, <1>3 DEF VaultStep

LEMMA ProxyStepOutcome ==
  ASSUME VaultInv, Watch, ProxyStep, ProcessInv, \A c \in Tasks : OutcomeInv(c)
  PROVE  \A c \in Tasks : OutcomeInv(c)'
<1>1. CASE StartProxy \/ WriteKey
  BY <1>1, OutcomeKept DEF StartProxy, WriteKey
<1>2. ASSUME CrashProxy, NEW c \in Tasks
      PROVE  OutcomeInv(c)'
  <2> DEFINE old == task[c]
             crashed == [old EXCEPT !.pc = "dead"]
  <2>1. task'[c] \in {old, crashed} /\ UNCHANGED received
    BY <1>2 DEF CrashProxy
  <2>2. PICK asks : old \in TaskRows(asks)
    BY DEF VaultInv, TasksTyped
  <2>3. crashed.pc = "dead" /\ crashed.ask = old.ask /\ crashed.token = old.token
    <3> HIDE DEF old
    <3> QED BY <2>2 DEF TaskRows
  <2>4. CASE task'[c] = old
    BY <2>1, <2>4, OutcomeKept
  <2>5. CASE task'[c] = crashed
    <3> HIDE DEF crashed
    <3>1. task'[c].pc = "dead" /\ Asked(c)' = Asked(c) /\ task'[c].token = task[c].token
      BY <2>3, <2>5 DEF Asked
    <3>2. SeenInv(c) => SeenInv(c)'
      BY <3>1, SeenFails
    <3> QED BY <3>1, <3>2 DEF OutcomeInv, ProgressInv, Resolver
  <2> QED BY <2>1, <2>4, <2>5
<1>3. ASSUME NEW d \in Tasks, Connect(d), NEW c \in Tasks
      PROVE  OutcomeInv(c)'
  <2> DEFINE pc == IF SessionOf(Asked(d)) = "" THEN "passed" ELSE "session"
  <2>1. Moves(d, pc) /\ task[d].pc = "new" /\ UNCHANGED received /\ Proxied(d) /\ Resolver(d)
    BY <1>3 DEF Connect, On, Proxied, Resolver, Resolvers
  <2>2. pc \in Steps
    BY DEF Steps
  <2> HIDE DEF pc
  <2>3. Only(d) /\ task'[d].pc = pc /\ task'[d].token = task[d].token
    BY <2>1, <2>2, MovesFacts DEF VaultInv
  <2>4. CASE c # d
    BY <2>1, <2>3, <2>4, OutcomeKept DEF Only
  <2>5. CASE c = d
    <3>1. Asked(c)' = Asked(c) /\ Proxied(c)' /\ Resolver(c)' /\ SeenInv(c)
      BY <2>1, <2>3, <2>5 DEF Only, Proxied, Resolver, OutcomeInv
    <3>2. CASE SessionOf(Asked(c)) = ""
      BY <2>3, <2>5, <3>1, <3>2, WatchGrows DEF pc, SeenInv, OutcomeInv, ProgressInv
    <3>3. CASE SessionOf(Asked(c)) # ""
      <4>1. task'[c].pc = "session" /\ SessionOf(Asked(c)) \in Sessions
        BY <2>1, <2>3, <2>5, <3>3 DEF pc, OutcomeInv, WellFormed, Resolver
      <4>2. SeenInv(c)'
        BY <2>3, <2>5, <3>1, <4>1, SeenFails
      <4> QED BY <3>1, <4>1, <4>2 DEF OutcomeInv, ProgressInv
    <3> QED BY <3>2, <3>3
  <2> QED BY <2>4, <2>5
<1>4. ASSUME NEW d \in Tasks, Forward(d), NEW c \in Tasks
      PROVE  OutcomeInv(c)'
  <2>1. PICK answered \in BOOLEAN : /\ Moves(d, IF answered THEN "sent" ELSE "badGateway")
                                    /\ received' = [received EXCEPT ![d] = IF answered THEN Headers(d) ELSE @]
    BY <1>4 DEF Forward
  <2> DEFINE pc == IF answered THEN "sent" ELSE "badGateway"
  <2>2. pc \in Steps /\ task[d].pc \in {"injected", "passed"} /\ Resolver(d)
    BY <1>4 DEF Steps, Forward, Proxied, Resolver, Resolvers
  <2>3. Moves(d, pc)
    BY <2>1
  <2> HIDE DEF pc
  <2>4. Only(d) /\ task'[d].pc = pc /\ task'[d].token = task[d].token /\ task'[d].failed = task[d].failed
    BY <2>2, <2>3, MovesFacts DEF VaultInv
  <2>5. CASE c # d
    BY <2>1, <2>4, <2>5, OutcomeKept DEF Only, ProcessInv
  <2>6. CASE c = d
    <3>1. /\ Asked(c)' = Asked(c) /\ Proxied(c)' = Proxied(c) /\ Resolver(c)' /\ SeenInv(c) /\ Headers(c)' = Headers(c)
          /\ WellFormed(Asked(c))
      BY <2>2, <2>4, <2>6 DEF Only, Proxied, Resolver, OutcomeInv, Headers, Own
    <3>2. ProgressInv(c)'
      BY <2>4, <2>6 DEF pc, ProgressInv
    <3>3. CASE ~answered
      BY <2>4, <2>6, <3>1, <3>2, <3>3, SeenFails DEF pc, OutcomeInv
    <3>4. CASE answered
      <4>1. received'[c] = Headers(c) /\ task'[c].pc = "sent"
        BY <2>1, <2>4, <2>6, <3>4 DEF ProcessInv, pc
      <4>2. SeenInv(c)'
        BY <2>2, <2>4, <2>6, <3>1, <4>1, WatchGrows DEF SeenInv
      <4> QED BY <3>1, <3>2, <4>2 DEF OutcomeInv
    <3> QED BY <3>3, <3>4
  <2> QED BY <2>5, <2>6
<1> QED BY <1>1, <1>2, <1>3, <1>4 DEF ProxyStep

LEMMA ProcessKept ==
  ASSUME ProcessInv, ProxyStep \/ UNCHANGED proxyVars, \A c \in Tasks : WellFormed(Asked(c))
  PROVE  ProcessInv'
<1>1. CASE UNCHANGED proxyVars
  BY <1>1 DEF ProcessInv, ProxyTypeOK, proxyVars
<1>2. CASE StartProxy
  BY <1>2 DEF ProcessInv, ProxyTypeOK, StartProxy
<1>3. CASE WriteKey
  BY <1>3 DEF ProcessInv, ProxyTypeOK, WriteKey
<1>4. CASE CrashProxy
  BY <1>4 DEF ProcessInv, ProxyTypeOK, CrashProxy
<1>5. ASSUME NEW c \in Tasks, Connect(c)
      PROVE  ProcessInv'
  <2>1. Asked(c).host \in Hosts
    BY <1>5 DEF Connect, On, WellFormed, Resolvers
  <2> QED BY <1>5, <2>1 DEF ProcessInv, ProxyTypeOK, Connect
<1>6. ASSUME NEW c \in Tasks, Forward(c)
      PROVE  ProcessInv'
  BY <1>6 DEF ProcessInv, ProxyTypeOK, Forward
<1> QED BY <1>1, <1>2, <1>3, <1>4, <1>5, <1>6 DEF ProxyStep

(***************************************************************************)
(* What clients have put into the credentials.                             *)
(***************************************************************************)
LEMMA IntendedAt ==
  ASSUME Watch, NEW k \in DOMAIN credentials'
  PROVE  /\ intended'[k].grant \in {intended[k].grant, credentials'[k].secret.grant}
         /\ intended'[k].host \in {intended[k].host, credentials'[k].host}
         /\ \A c \in Tasks : PutsIn(c, k) =>
              /\ intended'[k].host = credentials'[k].host
              /\ credentials'[k].secret.grant = c => intended'[k].grant = c
<1> DEFINE clients == {c \in Tasks : PutsIn(c, k)}
           host == credentials'[k].host
           there == credentials'[k].secret.grant
           before == intended[k].grant
           grant == IF there \in clients THEN there ELSE before
<1>1. intended'[k] = IF clients = {} THEN intended[k] ELSE [host |-> host, grant |-> grant]
  BY DEF Watch, Intend
<1>2. CASE clients = {}
  BY <1>1, <1>2
<1>3. CASE clients # {}
  <2>1. intended'[k].grant = grant /\ intended'[k].host = host
    <3> HIDE DEF clients, host, grant
    <3> QED BY <1>1, <1>3
  <2> QED BY <2>1
<1> QED BY <1>2, <1>3

\* Tasks that have finished keep what they hold, and the rows their secrets and hosts.
Unchanged(k) ==
  /\ k \in DOMAIN credentials
  /\ credentials'[k].secret = credentials[k].secret /\ credentials'[k].host = credentials[k].host

LEMMA IntendedStays ==
  ASSUME IntendedInv, Watch,
         \A k \in DOMAIN credentials' : Unchanged(k),
         \A c \in Tasks : Finished(c) =>
           /\ Asked(c)' = Asked(c) /\ task'[c].id = task[c].id /\ task'[c].row = task[c].row
           /\ task'[c].token = task[c].token /\ Finished(c)'
  PROVE  IntendedInv'
<1>1. ASSUME NEW k \in DOMAIN credentials', NEW c \in Tasks, Finished(c), WroteBack(c, k)
      PROVE  /\ WroteBack(c, k)' /\ Finished(c)' /\ Resolver(c)' = Resolver(c) /\ task'[c].row = task[c].row
             /\ WroteHostBack(c, k) => WroteHostBack(c, k)'
  BY <1>1 DEF Unchanged, WroteBack, WroteHostBack, Finished, Resolver
<1>2. ASSUME NEW k \in DOMAIN credentials', credentials'[k].secret.grant # intended'[k].grant
      PROVE  \E c \in Tasks : WroteBack(c, k)' /\ Finished(c)'
  <2>1. k \in DOMAIN credentials /\ credentials[k].secret.grant # intended[k].grant
    BY <1>2, IntendedAt DEF Unchanged
  <2>2. PICK c \in Tasks : WroteBack(c, k) /\ Finished(c)
    BY <2>1 DEF IntendedInv
  <2> QED BY <1>1, <2>2
<1>3. ASSUME NEW k \in DOMAIN credentials', credentials'[k].host # intended'[k].host
      PROVE  \E c \in Tasks : WroteHostBack(c, k)' /\ Finished(c)'
  <2>1. k \in DOMAIN credentials /\ credentials[k].host # intended[k].host
    BY <1>3, IntendedAt DEF Unchanged
  <2>2. PICK c \in Tasks : WroteHostBack(c, k) /\ WroteBack(c, k) /\ Finished(c)
    BY <2>1 DEF IntendedInv, WroteHostBack
  <2> QED BY <1>1, <2>2
<1> QED BY <1>2, <1>3 DEF IntendedInv

\* A task that makes a step has not finished.
LEMMA StepsUnfinished ==
  ASSUME NEW c \in Tasks, TaskStep(c)
  PROVE  ~Finished(c) /\ task[c].pc # "done"
BY DEF TaskStep, CreateVault, UpdateVault, ArchiveVault, DeleteVault, OnVault, SetSessionVaults, CheckAdd, ReadCredential,
       CountOthers, InsertCredential, UpdateRow, ArchiveCredential, DeleteCredential, ValidateCredential, TurnConnects,
       ReadSession, List, Refresh, RefreshRefused, RefreshReplyLost, Abandon, InProgress, On, Finished

LEMMA SecretsStay ==
  ASSUME VaultInv, NEW c \in Tasks, TaskStep(c), ~InsertCredential(c), ~UpdateRow(c), NEW k \in DOMAIN credentials'
  PROVE  Unchanged(k)
<1>1. CASE DeleteVault(c)
  BY <1>1 DEF DeleteVault, Unchanged
<1>2. CASE DeleteCredential(c)
  BY <1>2 DEF DeleteCredential, Unchanged
<1>3. CASE ArchiveCredential(c)
  <2> DEFINE j == Asked(c).credential
  <2>1. UNCHANGED credentials \/ (Stored(j) /\ credentials' = [credentials EXCEPT ![j].archived = TRUE])
    BY <1>3 DEF ArchiveCredential
  <2>2. Stored(j) => credentials[j] \in CredentialRows
    BY DEF VaultInv, VaultTypeOK, Stored
  <2> HIDE DEF j
  <2> QED BY <2>1, <2>2 DEF Stored, CredentialRows, Unchanged
<1>4. CASE UNCHANGED credentials
  BY <1>4 DEF Unchanged
<1> QED BY <1>1, <1>2, <1>3, <1>4
     DEF TaskStep, CreateVault, UpdateVault, ArchiveVault, SetSessionVaults, CheckAdd, ReadCredential, CountOthers,
         ValidateCredential, TurnConnects, ReadSession, List, Refresh, RefreshRefused, RefreshReplyLost, Abandon

\* c writes a row: its new secret, or the one that it had read; and a host.
LEMMA IntendedWrites ==
  ASSUME IntendedInv, Watch, NEW c \in Tasks, Only(c), ~Finished(c), Finished(c)', task[c].pc = "write",
         NEW k, k = task[c].id, task'[c].id = k, task'[c].row = task[c].row, task[c].row # NoRow,
         k \in DOMAIN credentials', credentials'[k].secret = task[c].row.secret, credentials'[k].host = task[c].row.host,
         \A j \in DOMAIN credentials' \ {k} : Unchanged(j),
         IF Resolver(c) THEN task'[c].token # << >> /\ task[c].row.secret.grant # c ELSE task'[c].pc = "done"
  PROVE  IntendedInv'
<1>1. \A d \in Tasks : Asked(d)' = Asked(d) /\ Resolver(d)' = Resolver(d)
  BY DEF Only, Resolver
<1>2. \A d \in Tasks \ {c} : task'[d] = task[d]
  BY DEF Only
<1>3. ASSUME NEW j \in DOMAIN credentials', j # k, NEW d \in Tasks, WroteBack(d, j), Finished(d)
      PROVE  WroteBack(d, j)' /\ Finished(d)' /\ (WroteHostBack(d, j) => WroteHostBack(d, j)')
  <2>1. task'[d] = task[d] /\ Resolver(d)' = Resolver(d) /\ Unchanged(j)
    BY <1>1, <1>2, <1>3
  <2> QED BY <1>3, <2>1 DEF WroteBack, WroteHostBack, Finished, Unchanged
<1>4. ASSUME NEW j \in DOMAIN credentials', credentials'[j].secret.grant # intended'[j].grant
      PROVE  \E d \in Tasks : WroteBack(d, j)' /\ Finished(d)'
  <2>1. CASE j # k
    <3>1. j \in DOMAIN credentials /\ credentials[j].secret.grant # intended[j].grant
      BY <1>4, <2>1, IntendedAt DEF Unchanged
    <3>2. PICK d \in Tasks : WroteBack(d, j) /\ Finished(d)
      BY <3>1 DEF IntendedInv
    <3> QED BY <1>3, <2>1, <3>2
  <2>2. CASE j = k
    <3>1. credentials'[k].secret.grant # c
      BY <1>4, <2>2, IntendedAt DEF PutsIn
    <3>2. WroteBack(c, k)'
      BY <1>1, <3>1 DEF WroteBack
    <3> QED BY <2>2, <3>2
  <2> QED BY <2>1, <2>2
<1>5. ASSUME NEW j \in DOMAIN credentials', credentials'[j].host # intended'[j].host
      PROVE  \E d \in Tasks : WroteHostBack(d, j)' /\ Finished(d)'
  <2>1. CASE j # k
    <3>1. j \in DOMAIN credentials /\ credentials[j].host # intended[j].host
      BY <1>5, <2>1, IntendedAt DEF Unchanged
    <3>2. PICK d \in Tasks : WroteHostBack(d, j) /\ WroteBack(d, j) /\ Finished(d)
      BY <3>1 DEF IntendedInv, WroteHostBack
    <3> QED BY <1>3, <2>1, <3>2
  <2>2. CASE j = k
    <3>1. Resolver(c)
      BY <1>5, <2>2, IntendedAt DEF PutsIn
    <3>2. WroteHostBack(c, k)'
      BY <1>1, <3>1 DEF WroteHostBack, WroteBack
    <3> QED BY <2>2, <3>2
  <2> QED BY <2>1, <2>2
<1> QED BY <1>4, <1>5 DEF IntendedInv

LEMMA IntendedStep ==
  ASSUME VaultInv, IntendedInv, Watch, NEW c \in Tasks, TaskStep(c), OutcomeInv(c)
  PROVE  IntendedInv'
<1>1. ~Finished(c) /\ task[c].pc # "done"
  BY StepsUnfinished
<1>2. (\A d \in Tasks \ {c} : task'[d] = task[d]) /\ \A d \in Tasks : Asked(d)' = Asked(d)
  <2>1. CASE Resolver(c)
    BY <2>1, LookupSeen DEF OutcomeInv, Only
  <2>2. CASE ~Resolver(c)
    BY <2>2, RequestFrame DEF OutcomeInv
  <2> QED BY <2>1, <2>2
<1>3. ASSUME NEW d \in Tasks, Finished(d)
      PROVE  /\ Asked(d)' = Asked(d) /\ task'[d].id = task[d].id /\ task'[d].row = task[d].row
             /\ task'[d].token = task[d].token /\ Finished(d)'
  BY <1>1, <1>2, <1>3 DEF Finished, Resolver
<1>4. CASE \A k \in DOMAIN credentials' : Unchanged(k)
  BY <1>3, <1>4, IntendedStays
<1> DEFINE k == task[c].id
           held == task[c].row
<1>5. ASSUME task[c].pc = "write"
      PROVE  InHand(c) /\ HandInv(c) /\ held \in CredentialRows /\ held # NoRow /\ held.secret \in Secrets /\ TasksTyped
  <2>1. InHand(c) /\ HandInv(c) /\ held \in CredentialRows /\ held.secret \in Secrets
    BY <1>5, HandTypes DEF InHand, Held
  <2>2. held.vault \in Vaults
    BY <2>1 DEF CredentialRows
  <2>3. DOMAIN held # DOMAIN NoRow
    <3> HIDE DEF held
    <3> QED BY <2>1 DEF CredentialRows, NoRow
  <2> QED BY <2>1, <2>3 DEF VaultInv
<1>6. CASE InsertCredential(c)
  <2>1. task[c].pc = "write" /\ Asked(c).op = "addCredential" /\ ~Resolver(c) /\ c \in Grants
    BY <1>6 DEF InsertCredential, On, Resolver, Resolvers, Grants
  <2>2. held.secret.grant = c /\ k = c
    BY <1>5, <2>1 DEF HandInv, Held
  <2>3. CASE Open(held.vault) /\ HostFree(c, held)
    <3>1. PICK t \in 1..(Cardinality(DOMAIN credentials) + 1) :
            credentials' = [j \in DOMAIN credentials \cup {c} |-> IF j = c THEN [held EXCEPT !.at = t] ELSE credentials[j]]
      BY <1>6, <2>3 DEF InsertCredential
    <3>2. Moves(c, "done")
      BY <1>6, <2>3 DEF InsertCredential
    <3>3. [held EXCEPT !.at = t].secret = held.secret /\ [held EXCEPT !.at = t].host = held.host
      <4> HIDE DEF held
      <4> QED BY <1>5, <2>1 DEF CredentialRows
    <3>4. LET new == task'[c] IN Only(c) /\ new.pc = "done" /\ new.id = task[c].id /\ new.row = task[c].row
      BY <1>1, <1>5, <2>1, <3>2, MovesFacts DEF Steps
    <3>5. /\ c \in DOMAIN credentials' /\ credentials'[c].secret = held.secret /\ credentials'[c].host = held.host
          /\ \A j \in DOMAIN credentials' \ {c} : Unchanged(j)
      <4> DEFINE row == [held EXCEPT !.at = t]
      <4>1. credentials' = [j \in DOMAIN credentials \cup {c} |-> IF j = c THEN row ELSE credentials[j]]
            /\ row.secret = held.secret /\ row.host = held.host
        BY <3>1, <3>3
      <4> HIDE DEF row, held
      <4> QED BY <4>1 DEF Unchanged
    <3>6. Finished(c)'
      BY <1>2, <2>1, <3>4 DEF Finished, Resolver
    <3> QED BY <1>1, <1>5, <2>1, <2>2, <3>4, <3>5, <3>6, IntendedWrites
  <2>4. CASE ~(Open(held.vault) /\ HostFree(c, held))
    BY <1>4, <1>6, <2>4 DEF InsertCredential, Unchanged
  <2> QED BY <2>3, <2>4
<1>7. CASE UpdateRow(c)
  <2> DEFINE ok == Stored(k) /\ ~credentials[k].archived /\ HostFree(k, held)
             pc == IF Resolver(c) THEN "injected" ELSE "done"
             token == IF Resolver(c) THEN Token(held.secret) ELSE task[c].token
  <2>1. task[c].pc = "write"
    BY <1>7 DEF UpdateRow
  <2>2. CASE ok
    <3> DEFINE row == [held EXCEPT !.archived = FALSE]
    <3>1. /\ credentials' = [credentials EXCEPT ![k] = row] /\ k \in DOMAIN credentials
          /\ task' = [task EXCEPT ![c] = [@ EXCEPT !.pc = pc, !.token = token]]
      BY <1>7, <2>2 DEF UpdateRow, Stored
    <3>2. row.secret = held.secret /\ row.host = held.host
      <4> HIDE DEF held
      <4> QED BY <1>5, <2>1 DEF CredentialRows
    <3>3. pc \in Steps /\ token \in {<< >>} \cup (Grants \X Nat) /\ TasksTyped
      BY <1>5, <2>1, TaskTypes DEF Steps, Token, Secrets
    <3>4. Resolver(c) => token # << >> /\ held.secret.grant # c
      BY <1>5, <2>1 DEF Token, HandInv, Held
    <3> HIDE DEF pc, token, row
    <3>5. /\ Only(c) /\ task'[c].pc = pc /\ task'[c].token = token /\ task'[c].id = task[c].id
          /\ task'[c].row = task[c].row
      BY <1>1, <3>1, <3>3, WritesFacts
    <3>6. /\ k \in DOMAIN credentials' /\ credentials'[k].secret = held.secret /\ credentials'[k].host = held.host
          /\ \A j \in DOMAIN credentials' \ {k} : Unchanged(j)
      BY <3>1, <3>2 DEF Unchanged
    <3>7. Finished(c)' /\ (~Resolver(c) => task'[c].pc = "done")
      BY <1>2, <3>5 DEF Finished, Resolver, pc
    <3> QED BY <1>1, <1>5, <2>1, <3>4, <3>5, <3>6, <3>7, IntendedWrites
  <2>3. CASE ~ok
    BY <1>4, <1>7, <2>3 DEF UpdateRow, Unchanged
  <2> QED BY <2>2, <2>3
<1>8. CASE ~InsertCredential(c) /\ ~UpdateRow(c)
  BY <1>4, <1>8, SecretsStay
<1> QED BY <1>6, <1>7, <1>8

LEMMA IntendedKept ==
  ASSUME VaultInv, IntendedInv, Watch, VaultStep \/ ProxyStep, \A c \in Tasks : OutcomeInv(c)
  PROVE  IntendedInv'
<1> DEFINE Kept(c) == /\ Asked(c)' = Asked(c) /\ task'[c].id = task[c].id /\ task'[c].row = task[c].row
                      /\ task'[c].token = task[c].token /\ Finished(c)'
<1>1. ASSUME UNCHANGED credentials, \A c \in Tasks : Finished(c) => Kept(c)
      PROVE  IntendedInv'
  BY <1>1, IntendedStays DEF Unchanged
<1>2. CASE Tick \/ StartProxy \/ WriteKey
  <2>1. UNCHANGED <<credentials, task>>
    BY <1>2 DEF Tick, StartProxy, WriteKey, TablesKept
  <2> QED BY <1>1, <2>1 DEF Asked, Finished, Resolver
<1>3. CASE \E c \in Tasks : TaskStep(c)
  BY <1>3, IntendedStep
<1>4. CASE CrashProxy
  <2>1. UNCHANGED credentials
    BY <1>4 DEF CrashProxy, TablesKept
  <2>2. ASSUME NEW c \in Tasks, Finished(c)
        PROVE  Kept(c)
    <3> DEFINE old == task[c]
               crashed == [old EXCEPT !.pc = "dead"]
    <3>1. task'[c] = old \/ (task'[c] = crashed /\ Proxied(c))
      BY <1>4 DEF CrashProxy
    <3>2. PICK asks : old \in TaskRows(asks)
      BY DEF VaultInv, TasksTyped
    <3>3. crashed.pc = "dead" /\ crashed.ask = old.ask /\ crashed.token = old.token /\ crashed.id = old.id /\ crashed.row = old.row
      <4> HIDE DEF old
      <4> QED BY <3>2 DEF TaskRows
    <3> HIDE DEF crashed
    <3> QED BY <2>2, <3>1, <3>3 DEF Asked, Finished, Resolver, Resolvers, Proxied
  <2> QED BY <1>1, <2>1, <2>2
<1>5. ASSUME NEW d \in Tasks, Connect(d) \/ Forward(d)
      PROVE  IntendedInv'
  <2>1. UNCHANGED credentials /\ Resolver(d) /\ task[d].pc \in {"new", "injected", "passed"}
    BY <1>5 DEF Connect, Forward, TablesKept, On, Proxied, Resolver, Resolvers
  <2>2. PICK pc \in {"passed", "session", "sent", "badGateway"} :
          Moves(d, pc) /\ (task[d].pc # "new" => pc \in {"sent", "badGateway"})
    <3>1. CASE Connect(d)
      BY <3>1 DEF Connect, On
    <3>2. CASE Forward(d)
      BY <3>2 DEF Forward
    <3> QED BY <1>5, <3>1, <3>2
  <2>3. pc \in Steps
    BY DEF Steps
  <2>4. LET new == task'[d] IN Only(d) /\ new.pc = pc /\ new.id = task[d].id /\ new.row = task[d].row /\ new.token = task[d].token
    BY <2>1, <2>2, <2>3, MovesFacts DEF VaultInv
  <2>5. ASSUME NEW c \in Tasks, Finished(c)
        PROVE  Kept(c)
    BY <2>1, <2>2, <2>4, <2>5 DEF Only, Finished, Resolver
  <2> QED BY <1>1, <2>1, <2>5
<1> QED BY <1>2, <1>3, <1>4, <1>5 DEF VaultStep, ProxyStep

LEMMA InvParts == IInv <=> IntendedInv /\ VaultInv /\ ProcessInv /\ \A c \in Tasks : OutcomeInv(c)
BY DEF IInv, ProcessInv, OutcomeInv

LEMMA InitInv == AccessStart => IInv
<1> SUFFICES ASSUME AccessStart PROVE IInv
  OBVIOUS
<1>1. PICK asks \in [Tasks -> {task[c].ask : c \in Tasks}], open \in SUBSET Vaults,
           rows \in [FirstCredentials -> {credentials[k] : k \in FirstCredentials}],
           ids \in [Sessions -> SUBSET Vaults], crt \in BOOLEAN, key \in BOOLEAN :
       /\ \A c \in Tasks : WellFormed(asks[c])
       /\ \A k \in FirstCredentials :
            /\ rows[k] \in CredentialRows /\ rows[k].vault \in open
            /\ rows[k].secret.grant = k /\ rows[k].secret.refresh \in {0, Absent}
            /\ ~rows[k].archived => Active(rows, rows[k].host, {rows[k].vault}) = {k}
       /\ VaultInit(asks, open, rows, ids)
       /\ ProxyInit(crt, key) /\ (key => crt)
  BY DEF AccessStart
<1>2. task = [c \in Tasks |-> NewTask(asks[c])]
  BY <1>1 DEF VaultInit
<1>3. \A c \in Tasks : LET t == task[c] IN
        t.ask = asks[c] /\ t.pc = "new" /\ t.id = "" /\ t.vaults = {} /\ t.row = NoRow /\ t.token = << >> /\ t.failed = FALSE
  BY <1>2 DEF NewTask
<1>4. TasksTyped
  <2>1. ASSUME NEW c \in Tasks, NEW ask, ask = asks[c]
        PROVE  NewTask(ask) \in TaskRows({asks[d] : d \in Tasks})
    <3> DEFINE all == {asks[d] : d \in Tasks}
               tokens == {<< >>} \cup (Grants \X Nat)
               none == << >>
               nowhere == {}
               new == "new"
               id == ""
    <3>1. /\ ask \in all /\ none \in tokens /\ nowhere \in SUBSET Vaults /\ new \in Steps /\ id \in Grants \cup {""}
          /\ NoRow \in CredentialRows \cup {NoRow}
      BY <2>1 DEF Steps
    <3>2. NewTask(ask) = [ask |-> ask, pc |-> new, id |-> id, vaults |-> nowhere, row |-> NoRow, token |-> none, failed |-> FALSE]
      BY DEF NewTask
    <3>3. TaskRows(all) = [ask : all, pc : Steps, id : Grants \cup {""}, vaults : SUBSET Vaults,
                           row : CredentialRows \cup {NoRow}, token : tokens, failed : BOOLEAN]
      BY DEF TaskRows
    <3> HIDE DEF all, tokens, none, nowhere, new, id
    <3>4. NewTask(ask) \in TaskRows(all)
      BY <3>1, <3>2, <3>3
    <3> QED BY <3>4 DEF all
  <2> QED BY <1>2, <2>1 DEF TasksTyped
<1>5. VaultTypeOK
  <2>1. RowsTyped
    <3>1. credentials = rows /\ \A v \in open : Open(v)
      BY <1>1 DEF VaultInit, Open
    <3> QED BY <1>1, <3>1 DEF RowsTyped, HostFree
  <2>2. OtherTypes
    BY <1>1, VaultAssumption DEF VaultInit, OtherTypes
  <2> QED BY <2>1, <2>2, TypeParts
<1>6. TableInv /\ \A k \in DOMAIN credentials : credentials[k].secret.refresh \in {0, Absent} /\ credentials[k].secret.grant = k
  <2>1. credentials = rows /\ DOMAIN credentials = FirstCredentials /\ issued = [g \in Grants |-> 0] /\ rotates \in BOOLEAN
    BY <1>1 DEF VaultInit
  <2>2. \A k \in FirstCredentials : Settled(k) /\ Home(k) = k /\ k \in Grants
    BY VaultAssumption DEF Settled, Home, Grants
  <2>3. \A k \in FirstCredentials : credentials[k].secret.grant = k /\ credentials[k].secret.refresh \in {0, Absent}
    BY <1>1, <2>1
  <2>4. \A k \in FirstCredentials : credentials[k].secret.refresh <= issued[k]
    BY <2>1, <2>2, <2>3 DEF Absent
  <2>5. \A c \in Tasks : issued[c] = 0
    BY <2>1 DEF Grants
  <2> QED BY <2>1, <2>2, <2>3, <2>4, <2>5 DEF TableInv, Grants
<1>7. \A c \in Tasks : ~InHand(c) /\ ~Holder(c) /\ HandInv(c)
  BY <1>3 DEF InHand, Holder, HandInv
<1>8. HolderInv /\ StoredInv /\ UpdaterInv
  <2>1. \A k \in DOMAIN credentials : issued[k] = 0
    BY <1>1 DEF VaultInit, Grants
  <2> QED BY <1>6, <1>7, <2>1 DEF HolderInv, StoredInv, UpdaterInv
<1>9. VaultInv
  BY <1>4, <1>5, <1>6, <1>7, <1>8 DEF VaultInv
<1>10. ProcessInv
  BY <1>1 DEF ProxyInit, ProcessInv, ProxyTypeOK
<1>11. \A c \in Tasks : OutcomeInv(c)
  BY <1>1, <1>3 DEF OutcomeInv, ProgressInv, SeenInv, Asked
<1>12. IntendedInv
  BY <1>1 DEF VaultInit, IntendedInv
<1> QED BY <1>9, <1>10, <1>11, <1>12, InvParts

LEMMA NextInv == IInv /\ [AccessStep /\ Watch]_<<vaultVars, proxyVars>> => IInv'
<1> SUFFICES ASSUME IInv, [AccessStep /\ Watch]_<<vaultVars, proxyVars>> PROVE IInv'
  OBVIOUS
<1>1. IntendedInv /\ VaultInv /\ ProcessInv /\ (\A c \in Tasks : OutcomeInv(c)) /\ \A c \in Tasks : ProgressInv(c) /\ WellFormed(Asked(c))
  BY InvParts DEF OutcomeInv
<1>2. CASE VaultStep /\ UNCHANGED proxyVars /\ Watch
  BY <1>1, <1>2, IntendedKept, VaultStepInv, VaultStepOutcome, ProcessKept, InvParts DEF IInv, ProcessInv, OutcomeInv
<1>3. CASE ProxyStep /\ Watch
  BY <1>1, <1>3, IntendedKept, ProxyInv, ProxyStepOutcome, ProcessKept, InvParts DEF IInv, ProcessInv, OutcomeInv
<1>4. CASE UNCHANGED <<vaultVars, proxyVars>>
  <2>1. UNCHANGED <<vaults, credentials, sessionVaults, rotates, issued, now, task, faults, lost, seen, intended, ca, proxy, leaves, received>>
    BY <1>4 DEF vaultVars, proxyVars
  <2>2. VaultInv'
    BY <1>1, <2>1, StillInv, FaultsTyped
  <2>3. ProcessInv'
    BY <1>1, <2>1 DEF ProcessInv, ProxyTypeOK
  <2>4. ASSUME NEW c \in Tasks PROVE OutcomeInv(c)'
    BY <1>1, <2>1 DEF OutcomeInv, ProgressInv, SeenInv, Asked, Resolver, Proxied, Headers, Own
  <2>5. IntendedInv'
    BY <1>1, <2>1 DEF IntendedInv, WroteBack, WroteHostBack, Finished, Resolver, Asked
  <2> QED BY <2>2, <2>3, <2>4, <2>5 DEF IInv, ProcessInv, OutcomeInv
<1> QED BY <1>2, <1>3, <1>4 DEF AccessStep

LEMMA Invariance == AccessSpec => []IInv
BY InitInv, NextInv, PTL DEF AccessSpec

(***************************************************************************)
(* The theorems.                                                           *)
(***************************************************************************)
\* The tables, the clock, je-vault's files and process are typed; at most one active
\* credential for a host in a vault, in a vault that is there (the partial unique
\* index and the foreign key of vault_credential), whatever requests, refreshes,
\* crashes and lost replies interleave.
THEOREM VaultTypesCorrect == AccessSpec => [](VaultTypeOK /\ ProxyTypeOK)
<1>1. IInv => VaultTypeOK /\ ProxyTypeOK
  BY DEF IInv, VaultInv
<1> QED BY <1>1, Invariance, PTL

\* For any number of calls of jed and je-vault that refresh and of requests that update
\* a credential: the grant and the host that clients have put in last are in its row,
\* unless a call that had read the row before has written back what it found; and the newest
\* refresh token of the grant in a row is in the row or in the hands of exactly one
\* call that is about to store it, unless it is lost to a known cause (refreshOAuth,
\* persistOAuthSecret, UpdateCredential).
THEOREM RefreshTokensKept == AccessSpec => []RefreshTokenKept
<1>1. IInv => RefreshTokenKept
  <2> DEFINE Holders(k) == {c \in Tasks : /\ Resolver(c) /\ task[c].id = k /\ task[c].pc \in {"count", "write"}
                                          /\ task[c].row.secret.grant = credentials[k].secret.grant}
             Kept(k, s, holders) == IF s.refresh = issued[s.grant] THEN holders = {}
                                    ELSE \E c \in holders : holders = {c} /\ task[c].row.secret.refresh = issued[s.grant]
  <2>7. ASSUME \A k \in DOMAIN credentials : LET s == credentials[k].secret IN
                 rotates /\ s.refresh # Absent /\ s.grant \notin lost => Kept(k, s, Holders(k)),
               IntendedInv
        PROVE  RefreshTokenKept
    BY <2>7 DEF RefreshTokenKept, IntendedInv
  <2> SUFFICES ASSUME IInv PROVE RefreshTokenKept
    OBVIOUS
  <2>8. IntendedInv
    BY DEF IInv
  <2> SUFFICES ASSUME rotates, NEW k \in DOMAIN credentials, NEW s, s = credentials[k].secret,
                      s.refresh # Absent, s.grant \notin lost, NEW holders, holders = Holders(k)
               PROVE  Kept(k, s, holders)
    BY <2>7, <2>8
  <2>1. VaultInv /\ HolderInv /\ StoredInv
    BY DEF IInv, VaultInv
  <2>2. /\ s.grant \in Grants /\ issued[s.grant] \in Nat /\ s.refresh \in Nat \cup {Absent} /\ s.refresh <= issued[s.grant]
        /\ Home(s.grant) = k
    BY <2>1, HandTypes DEF VaultInv, TableInv
  <2>3. ASSUME NEW c \in holders
        PROVE  /\ c \in Tasks /\ Holder(c) /\ InHand(c) /\ Held(c).grant = s.grant /\ Held(c).refresh = issued[s.grant]
               /\ s.refresh < issued[s.grant]
    BY <2>1 DEF Holder, Held, InHand, HolderInv
  <2>4. ASSUME NEW c \in holders, NEW d \in holders
        PROVE  c = d
    <3> SUFFICES ASSUME c # d PROVE FALSE
      OBVIOUS
    <3>1. Held(d).refresh < issued[s.grant]
      BY <2>1, <2>3 DEF HolderInv
    <3> QED BY <2>2, <2>3, <3>1
  <2>5. CASE s.refresh = issued[s.grant]
    BY <2>2, <2>3, <2>5
  <2>6. CASE s.refresh # issued[s.grant]
    <3>1. PICK c \in Tasks : Holder(c) /\ Held(c).grant = s.grant
      BY <2>1, <2>6 DEF StoredInv
    <3>2. InHand(c) /\ HandInv(c) /\ task[c].id = k
      BY <2>1, <2>2, <3>1, HandTypes DEF HandInv, Held
    <3>3. c \in holders
      BY <3>1, <3>2 DEF Holder, Held
    <3>4. holders = {c} /\ task[c].row.secret.refresh = issued[s.grant]
      BY <2>3, <2>4, <3>3 DEF Held
    <3> QED BY <2>6, <3>3, <3>4
  <2> QED BY <2>5, <2>6
<1> QED BY <1>1, Invariance, PTL

\* A request or an MCP connection carries a token that was active for its host, in a
\* vault its session had, while the lookup ran, and nothing of the client's own next to
\* it; it passes as it is only for a known reason (Resolve, inject, applyInjection).
THEOREM CredentialsInjectedRightly == AccessSpec => []InjectedRightly
<1>1. IInv => InjectedRightly
  BY DEF IInv, SeenInv, InjectedRightly, Headers, Own
<1> QED BY <1>1, Invariance, PTL

(***************************************************************************)
(* Auth.                                                                   *)
(***************************************************************************)
People == Emails \cup {Everyone}
Enters == {"signup", "login"}

\* Where a visit can be, by what it asks for.
EntrySteps == {"count", "insert", "lookup", "openSession", "loggedIn", "conflict"}
GuardedSteps == {"key", "served", "done", "notFound"}
CookieSteps == {"user", "forget"}
VisitSteps == EntrySteps \cup GuardedSteps \cup CookieSteps
         \cup {"new", "cookie", "virtual", "badRequest", "unauthorized", "loggedOut", "shown", "dead"}

VisitStates(asks) ==
  [ask : asks, pc : VisitSteps, user : People \cup {NoOne}, by : Credentials, stale : SUBSET Credentials,
   login : Credentials \cup {NoCookie}, owner : People \cup {NoOne}, failed : SUBSET {"key", "cookie"}]
VisitsTyped == \E asks : visit \in [Visits -> VisitStates(asks)]

\* A key belongs to the person the visit that made it was identified as, and a key
\* that is good has never been given up; the same of a login session and its account.
KeysInv ==
  \A k \in DOMAIN keys :
    /\ k \in Visits \cup FirstKeys
    /\ keys[k] \in [user : People, revoked : BOOLEAN]
    /\ ~keys[k].revoked => k \notin refused
    /\ k \in Visits => Wants(k).op = "createKey" /\ Stands(k, "done") /\ keys[k].user = visit[k].user
LoginsInv ==
  \A l \in DOMAIN logins :
    /\ l \in Visits \cup FirstLogins
    /\ logins[l] \in [user : Emails, over : BOOLEAN]
    /\ Account(logins[l].user)
    /\ ~logins[l].over => l \notin refused
    /\ l \in Visits => Wants(l).op \in Enters /\ Stands(l, "loggedIn") /\ logins[l].user = Wants(l).email

\* What is refused has been somebody's: a visit that still makes its key or its
\* login session is not among them.
RefusedInv ==
  /\ refused \subseteq Credentials
  /\ \A x \in refused \cap Visits : visit[x].pc \in {"done", "loggedIn"}

KeyGood(v) == Wants(v).key \in DOMAIN keys /\ ~keys[Wants(v).key].revoked
CookieGood(v) == Wants(v).cookie \in DOMAIN logins /\ ~logins[Wants(v).cookie].over

\* A visit that has begun: what it carries it really has, and what had been refused
\* by then still is.
BegunInv(v) ==
  /\ Wants(v).op \in Guarded \cup Public => Carries(Wants(v))
  /\ ~Stands(v, "new") => Wants(v).op \in Guarded \cup Public /\ Has(v) /\ visit[v].stale \subseteq refused
  /\ visit[v].pc \in EntrySteps => Wants(v).op \in Enters
  /\ visit[v].pc \in GuardedSteps => Wants(v).op \in Guarded
  /\ visit[v].pc = "virtual" => Wants(v).op \in Public
  /\ visit[v].pc \in CookieSteps \cup {"shown"} => Wants(v).op \in Guarded \cup {"session"}
  /\ visit[v].pc = "cookie" => Wants(v).op \in Guarded \cup {"session", "logout"}

\* Before it is identified, a visit is nobody; behind RequireAuth it is somebody.
WhoInv(v) ==
  /\ Identified(v) => visit[v].pc \in {"served", "shown", "done", "notFound", "dead"}
  /\ visit[v].pc \in {"served", "done", "notFound"} => Identified(v)
  /\ ~Identified(v) => visit[v].by = Forged

\* How far a signup or login is: its password is the one of the account.
EntryInv(v) ==
  LET ask == Wants(v) IN
  /\ visit[v].pc \in {"count", "insert"} => ask.email \in Emails /\ ask.password \in Passwords
  /\ visit[v].pc \in {"openSession", "loggedIn"} =>
       ask.email \in Emails /\ Account(ask.email) /\ users[ask.email] = ask.password

\* What a visit has found out about its key and its cookie stays true.
FoundInv(v) ==
  /\ visit[v].pc \in CookieSteps \cup {"cookie"} /\ Wants(v).op \in Guarded => ~KeyGood(v) \/ "key" \in visit[v].failed
  /\ Stands(v, "forget") => ~CookieGood(v)
  /\ visit[v].pc \in CookieSteps => visit[v].login = Wants(v).cookie
  /\ Stands(v, "user") =>
       /\ visit[v].login \in Visits \cup FirstLogins
       /\ visit[v].login \notin visit[v].stale
       /\ visit[v].owner \in Emails
       /\ visit[v].login \in Visits => visit[v].owner = Wants(visit[v].login).email

VisitInv(v) == BegunInv(v) /\ WhoInv(v) /\ EntryInv(v) /\ FoundInv(v)

Earned(v) ==
  /\ OwnsCredential(v) /\ KnowsPassword(v) /\ TurnedAwayRightly(v)
  /\ (Identified(v) /\ ~ByCredential(v)) => mode # "required" /\ Wants(v).op \in Guarded

AuthInv ==
  /\ mode \in {"required", "optional", "bypass"} /\ users \in [Emails -> Passwords \cup {NoAccount}]
  /\ VisitsTyped /\ KeysInv /\ LoginsInv /\ RefusedInv
  /\ \A v \in Visits : VisitInv(v) /\ Earned(v)

(***************************************************************************)
(* What a step may do to the visits outside of V and to the tables.        *)
(***************************************************************************)
OthersStay(V) ==
  /\ VisitsTyped' /\ \A w \in Visits : visit'[w].ask = visit[w].ask
  /\ \A w \in Visits \ V : visit'[w] = visit[w]
  /\ \A w \in V : visit[w].pc \notin {"done", "loggedIn"}
  /\ mode' = mode /\ refused \subseteq refused'
  /\ users' \in [Emails -> Passwords \cup {NoAccount}]
  /\ \A e \in Emails : Account(e) => users'[e] = users[e]
  /\ \A k \in DOMAIN keys' :
       \/ k \in DOMAIN keys /\ (keys[k].revoked => keys'[k].revoked)
       \/ k \in V /\ Stands(k, "served")
  /\ \A l \in DOMAIN logins' :
       \/ l \in DOMAIN logins /\ (logins[l].over => logins'[l].over)
       \/ l \in V /\ Stands(l, "openSession")

\* A key or a cookie that is no good to a visit never becomes good for it again.
LEMMA BadStaysBad ==
  ASSUME AuthInv, NEW V \in SUBSET Visits, OthersStay(V), NEW w \in Visits, ~Stands(w, "new"),
         Wants(w).op \in Guarded \cup Public
  PROVE  (~KeyGood(w) => ~KeyGood(w)') /\ (~CookieGood(w) => ~CookieGood(w)')
<1>1. Has(w)
  BY DEF BegunInv, VisitInv, AuthInv
<1> QED BY <1>1, AuthAssumption DEF Stands, Wants, Has, CookieGood, KeyGood, OthersStay

\* The other visits keep what the invariant says of them.
LEMMA OtherVisit ==
  ASSUME AuthInv, NEW V \in SUBSET Visits, OthersStay(V), NEW w \in Visits \ V
  PROVE  VisitInv(w)' /\ Earned(w)'
<1> USE DEF Wants, Stands, Account
<1>1. VisitInv(w) /\ Earned(w) /\ visit'[w] = visit[w]
  BY DEF AuthInv, OthersStay
<1>2. BegunInv(w)'
  BY <1>1 DEF OthersStay, Has, BegunInv, VisitInv
<1>3. WhoInv(w)'
  BY <1>1 DEF Identified, WhoInv, VisitInv
<1>4. EntryInv(w)'
  BY <1>1 DEF OthersStay, EntryInv, VisitInv
<1>5. FoundInv(w)'
  BY <1>1, BadStaysBad DEF CookieSteps, OthersStay, FoundInv, BegunInv, VisitInv
<1>6. OwnsCredential(w)'
  BY <1>1, AuthAssumption DEF Has, OthersStay, ByCredential, OwnsCredential, Earned, WhoInv, BegunInv, VisitInv
<1>7. KnowsPassword(w)'
  BY <1>1 DEF OthersStay, KnowsPassword, EntryInv, VisitInv
<1>8. TurnedAwayRightly(w)'
  BY <1>1, BadStaysBad
     DEF ByCredential, Identified, CookieGood, KeyGood, TurnedAwayRightly, Earned, WhoInv, BegunInv, VisitInv
<1> QED BY <1>1, <1>2, <1>3, <1>4, <1>5, <1>6, <1>7, <1>8 DEF ByCredential, Identified, OthersStay, Earned, VisitInv

LEMMA StepAuthInv ==
  ASSUME AuthInv, NEW V \in SUBSET Visits, OthersStay(V), KeysInv', LoginsInv', RefusedInv',
         \A v \in V : VisitInv(v)' /\ Earned(v)'
  PROVE  AuthInv'
<1>1. \A w \in Visits : VisitInv(w)' /\ Earned(w)'
  BY OtherVisit
<1> QED BY <1>1 DEF AuthInv, OthersStay

\* A step that leaves the tables of keys and login sessions alone keeps what the
\* invariant says of them: the visits they belong to have not moved.
LEMMA TablesStay ==
  ASSUME AuthInv, NEW v \in Visits, OthersStay({v}), logins' = logins, keys' = keys, refused' = refused
  PROVE  KeysInv' /\ LoginsInv' /\ RefusedInv'
<1> USE DEF Wants, Stands, Account
<1>1. KeysInv'
  BY DEF KeysInv, OthersStay, AuthInv
<1>2. LoginsInv'
  BY DEF LoginsInv, OthersStay, AuthInv
<1>3. RefusedInv'
  BY DEF RefusedInv, OthersStay, AuthInv
<1> QED BY <1>1, <1>2, <1>3

(***************************************************************************)
(* One lemma per action: the step moves one visit, or none.                *)
(***************************************************************************)

\* A visit that goes on with a login session of its own, or as somebody.
LEMMA VisitMoves ==
  ASSUME NEW asks, NEW k \in VisitStates(asks), NEW pc \in VisitSteps
  PROVE  /\ \A l \in Credentials : [k EXCEPT !.pc = pc, !.login = l] \in VisitStates(asks)
         /\ \A u \in People, b \in Credentials : [k EXCEPT !.pc = pc, !.user = u, !.by = b] \in VisitStates(asks)
BY DEF VisitStates

LEMMA BeginAuthInv == ASSUME AuthInv, NEW v \in Visits, Begin(v) PROVE AuthInv'
<1> USE AuthAssumption DEF Stands, Wants, Account, Guarded, Public, Enters
<1> DEFINE ask == visit[v].ask
<1>0. PICK asks : visit \in [Visits -> VisitStates(asks)]
  BY DEF AuthInv, VisitsTyped
<1>1. VisitInv(v) /\ Earned(v) /\ KeysInv /\ LoginsInv /\ RefusedInv
  BY DEF AuthInv
\* Where it goes, by what it asks for.
<1>a. /\ visit[v].pc = "new" /\ ask.op \in Guarded \cup Public /\ Has(v)
      /\ UNCHANGED <<mode, users, logins, keys, dead, refused>>
  BY DEF Begin
<1>b. PICK pc :
        /\ visit' = [visit EXCEPT ![v] = [@ EXCEPT !.stale = refused, !.pc = pc]]
        /\ \/ pc = "key" /\ ask.op \in Guarded
           \/ pc = "virtual" /\ ask.op \in Public
           \/ pc = "count" /\ ask.op = "signup" /\ ask.email \in Emails /\ ask.password \in Passwords
           \/ pc = "badRequest" /\ ask.op = "signup"
           \/ pc = "lookup" /\ ask.op = "login"
           \/ pc = "cookie" /\ ask.op \in {"logout", "session"}
  <2> DEFINE to == IF ask.op \in Guarded THEN "key"
                   ELSE IF mode = "bypass" /\ ask.op # "logout" THEN "virtual"
                   ELSE CASE ask.op = "signup" -> IF ask.email \in Emails /\ ask.password \in Passwords THEN "count" ELSE "badRequest"
                          [] ask.op = "login" -> "lookup"
                          [] OTHER -> "cookie"
  <2>1. visit' = [visit EXCEPT ![v] = [@ EXCEPT !.stale = refused, !.pc = to]]
    BY DEF Begin
  <2>2. \/ to = "key" /\ ask.op \in Guarded
        \/ to = "virtual" /\ ask.op \in Public
        \/ to = "count" /\ ask.op = "signup" /\ ask.email \in Emails /\ ask.password \in Passwords
        \/ to = "badRequest" /\ ask.op = "signup"
        \/ to = "lookup" /\ ask.op = "login"
        \/ to = "cookie" /\ ask.op \in {"logout", "session"}
    BY <1>a
  <2> HIDE DEF to, ask
  <2> QED BY <2>1, <2>2
<1>c. /\ visit'[v].ask = ask /\ visit'[v].stale = refused /\ visit'[v].pc = pc
      /\ visit'[v].user = visit[v].user /\ visit'[v].by = visit[v].by
      /\ \A w \in Visits \ {v} : visit'[w] = visit[w]
  BY <1>0, <1>b DEF VisitStates
<1>2. visit' \in [Visits -> VisitStates(asks)]
  <2>1. pc \in VisitSteps /\ refused \in SUBSET Credentials
    BY <1>1, <1>b DEF VisitSteps, EntrySteps, GuardedSteps, RefusedInv
  <2>2. [visit[v] EXCEPT !.stale = refused, !.pc = pc] \in VisitStates(asks)
    BY <1>0, <2>1 DEF VisitStates
  <2> QED BY <1>0, <1>b, <2>2
<1>3. OthersStay({v})
  BY <1>2, <1>a, <1>c DEF VisitsTyped, OthersStay, AuthInv
<1>4. KeysInv' /\ LoginsInv' /\ RefusedInv'
  BY <1>3, <1>a, TablesStay
<1>d. BegunInv(v) /\ WhoInv(v) /\ ~Identified(v) /\ visit[v].by = Forged
  BY <1>1, <1>a DEF VisitInv, WhoInv
<1> HIDE DEF ask
<1>7. BegunInv(v)'
  <2>1. Has(v)'
    BY <1>a, <1>c DEF Has, ask
  <2>2. Carries(ask)
    BY <1>a, <1>d DEF BegunInv, ask
  <2> QED BY <1>a, <1>b, <1>c, <2>1, <2>2 DEF EntrySteps, GuardedSteps, CookieSteps, BegunInv
<1>8. WhoInv(v)'
  BY <1>b, <1>c, <1>d DEF Identified, WhoInv
<1>9. EntryInv(v)' /\ KnowsPassword(v)'
  BY <1>b, <1>c DEF KnowsPassword, EntryInv
<1>10. FoundInv(v)'
  BY <1>b, <1>c DEF CookieSteps, FoundInv
<1>11. OwnsCredential(v)'
  BY <1>c, <1>d DEF Identified, ByCredential, OwnsCredential
<1>12. TurnedAwayRightly(v)'
  BY <1>b, <1>c, <1>d DEF Identified, TurnedAwayRightly
<1>13. (Identified(v) /\ ~ByCredential(v) => mode # "required" /\ Wants(v).op \in Guarded)'
  BY <1>c, <1>d DEF Identified
<1>14. VisitInv(v)' /\ Earned(v)'
  BY <1>7, <1>8, <1>9, <1>10, <1>11, <1>12, <1>13 DEF VisitInv, Earned
<1> QED BY <1>3, <1>4, <1>14, StepAuthInv

LEMMA CountEmailAuthInv == ASSUME AuthInv, NEW v \in Visits, CountEmail(v) PROVE AuthInv'
<1> USE AuthAssumption DEF CountEmail, Goes, Stands, Wants, Account, Guarded, Public, Enters
<1>0. PICK asks : visit \in [Visits -> VisitStates(asks)]
  BY DEF AuthInv, VisitsTyped
<1>1. VisitInv(v) /\ Earned(v) /\ KeysInv /\ LoginsInv /\ RefusedInv
  BY DEF AuthInv
<1>2. visit' \in [Visits -> VisitStates(asks)]
  BY <1>0 DEF EntrySteps, VisitSteps, VisitStates
<1>3. OthersStay({v})
  BY <1>0, <1>2 DEF VisitsTyped, OthersStay, AuthInv
<1>4. KeysInv' /\ LoginsInv' /\ RefusedInv'
  BY <1>3, TablesStay
<1>7. BegunInv(v)'
  BY <1>0, <1>1 DEF CookieSteps, GuardedSteps, EntrySteps, Has, BegunInv, VisitInv
<1>8. WhoInv(v)'
  BY <1>0, <1>1 DEF Identified, WhoInv, VisitInv
<1>9. EntryInv(v)' /\ KnowsPassword(v)'
  BY <1>0, <1>1 DEF KnowsPassword, EntryInv, VisitInv
<1>10. FoundInv(v)'
  BY <1>0, <1>1 DEF CookieSteps, FoundInv
<1>11. OwnsCredential(v)'
  BY <1>0, <1>1 DEF ByCredential, OwnsCredential, WhoInv, VisitInv
<1>12. TurnedAwayRightly(v)'
  BY <1>0, <1>1 DEF Identified, TurnedAwayRightly, WhoInv, VisitInv
<1>13. (Identified(v) /\ ~ByCredential(v) => mode # "required" /\ Wants(v).op \in Guarded)'
  BY <1>0, <1>1 DEF Identified, WhoInv, VisitInv
<1>14. VisitInv(v)' /\ Earned(v)'
  BY <1>7, <1>8, <1>9, <1>10, <1>11, <1>12, <1>13 DEF VisitInv, Earned
<1> QED BY <1>3, <1>4, <1>14, StepAuthInv

LEMMA InsertUserAuthInv == ASSUME AuthInv, NEW v \in Visits, InsertUser(v) PROVE AuthInv'
<1> USE AuthAssumption DEF InsertUser, Goes, Stands, Wants, Account, Guarded, Public, Enters
<1>0. PICK asks : visit \in [Visits -> VisitStates(asks)]
  BY DEF AuthInv, VisitsTyped
<1>1. VisitInv(v) /\ Earned(v) /\ KeysInv /\ LoginsInv /\ RefusedInv
  BY DEF AuthInv
<1>2. visit' \in [Visits -> VisitStates(asks)]
  BY <1>0 DEF GuardedSteps, EntrySteps, VisitSteps, VisitStates
<1>3. OthersStay({v})
  <2>1. users' \in [Emails -> Passwords \cup {NoAccount}] /\ \A e \in Emails : Account(e) => users'[e] = users[e]
    BY <1>1 DEF EntryInv, VisitInv, AuthInv
  <2>2. /\ visit'[v].ask = visit[v].ask /\ \A w \in Visits \ {v} : visit'[w] = visit[w]
        /\ mode' = mode /\ logins' = logins /\ keys' = keys /\ refused' = refused
        /\ visit[v].pc \notin {"done", "loggedIn"}
    BY <1>0 DEF VisitStates
  <2> QED BY <1>2, <2>1, <2>2 DEF OthersStay, VisitsTyped
<1>4. KeysInv' /\ LoginsInv' /\ RefusedInv'
  BY <1>3, TablesStay
<1>7. BegunInv(v)'
  BY <1>0, <1>1 DEF CookieSteps, GuardedSteps, EntrySteps, Has, BegunInv, VisitInv, VisitStates
<1>8. WhoInv(v)'
  BY <1>0, <1>1 DEF Identified, WhoInv, VisitInv, VisitStates
<1>9. EntryInv(v)' /\ KnowsPassword(v)'
  BY <1>0, <1>1 DEF KnowsPassword, EntryInv, VisitStates
<1>10. FoundInv(v)'
  BY <1>0, <1>1 DEF CookieSteps, FoundInv, VisitStates
<1>11. OwnsCredential(v)'
  BY <1>0, <1>1 DEF ByCredential, OwnsCredential, WhoInv, VisitInv, VisitStates
<1>12. TurnedAwayRightly(v)'
  BY <1>0, <1>1 DEF Identified, TurnedAwayRightly, WhoInv, VisitInv, VisitStates
<1>13. (Identified(v) /\ ~ByCredential(v) => mode # "required" /\ Wants(v).op \in Guarded)'
  BY <1>0, <1>1 DEF Identified, WhoInv, VisitInv, VisitStates
<1>14. VisitInv(v)' /\ Earned(v)'
  BY <1>7, <1>8, <1>9, <1>10, <1>11, <1>12, <1>13 DEF VisitInv, Earned
<1> QED BY <1>3, <1>4, <1>14, StepAuthInv

LEMMA LookupAuthInv == ASSUME AuthInv, NEW v \in Visits, Lookup(v) PROVE AuthInv'
<1> USE AuthAssumption DEF Lookup, Goes, Stands, Wants, Account, Guarded, Public, Enters
<1>0. PICK asks : visit \in [Visits -> VisitStates(asks)]
  BY DEF AuthInv, VisitsTyped
<1>1. VisitInv(v) /\ Earned(v) /\ KeysInv /\ LoginsInv /\ RefusedInv
  BY DEF AuthInv
<1>2. visit' \in [Visits -> VisitStates(asks)]
  BY <1>0 DEF EntrySteps, VisitSteps, VisitStates
<1>3. OthersStay({v})
  BY <1>0, <1>2 DEF VisitsTyped, OthersStay, AuthInv
<1>4. KeysInv' /\ LoginsInv' /\ RefusedInv'
  BY <1>3, TablesStay
<1>7. BegunInv(v)'
  BY <1>0, <1>1 DEF CookieSteps, GuardedSteps, EntrySteps, Has, BegunInv, VisitInv
<1>8. WhoInv(v)'
  BY <1>0, <1>1 DEF Identified, WhoInv, VisitInv
<1>9. EntryInv(v)' /\ KnowsPassword(v)'
  BY <1>0, <1>1 DEF KnowsPassword, EntryInv
<1>10. FoundInv(v)'
  BY <1>0, <1>1 DEF CookieSteps, FoundInv
<1>11. OwnsCredential(v)'
  BY <1>0, <1>1 DEF ByCredential, OwnsCredential, WhoInv, VisitInv
<1>12. TurnedAwayRightly(v)'
  BY <1>0, <1>1 DEF EntrySteps, Identified, TurnedAwayRightly, WhoInv, BegunInv, VisitInv
<1>13. (Identified(v) /\ ~ByCredential(v) => mode # "required" /\ Wants(v).op \in Guarded)'
  BY <1>0, <1>1 DEF Identified, WhoInv, VisitInv
<1>14. VisitInv(v)' /\ Earned(v)'
  BY <1>7, <1>8, <1>9, <1>10, <1>11, <1>12, <1>13 DEF VisitInv, Earned
<1> QED BY <1>3, <1>4, <1>14, StepAuthInv

LEMMA OpenSessionAuthInv == ASSUME AuthInv, NEW v \in Visits, OpenSession(v) PROVE AuthInv'
<1> USE AuthAssumption DEF OpenSession, Goes, Stands, Wants, Account, Guarded, Public, Enters
<1>0. PICK asks : visit \in [Visits -> VisitStates(asks)]
  BY DEF AuthInv, VisitsTyped
<1>1. VisitInv(v) /\ Earned(v) /\ KeysInv /\ LoginsInv /\ RefusedInv
  BY DEF AuthInv
<1>2. visit' \in [Visits -> VisitStates(asks)]
  <2>1. visit' = [visit EXCEPT ![v] = [@ EXCEPT !.pc = "loggedIn", !.login = v]]
    BY <1>0
  <2>2. [visit[v] EXCEPT !.pc = "loggedIn", !.login = v] \in VisitStates(asks)
    <3>1. v \in Credentials /\ "loggedIn" \in VisitSteps /\ visit[v] \in VisitStates(asks)
      BY <1>0 DEF Credentials, EntrySteps, VisitSteps
    <3> QED BY <3>1, VisitMoves
  <2> QED BY <1>0, <2>1, <2>2
<1>3. OthersStay({v})
  BY <1>0, <1>2 DEF VisitsTyped, OthersStay, AuthInv
<1>4. KeysInv'
  BY <1>0, <1>1 DEF KeysInv
<1>5. LoginsInv'
  BY <1>0, <1>1 DEF EntrySteps, RefusedInv, EntryInv, BegunInv, VisitInv, LoginsInv
<1>6. RefusedInv'
  BY <1>0, <1>1 DEF RefusedInv
<1>7. BegunInv(v)'
  BY <1>0, <1>1 DEF CookieSteps, GuardedSteps, EntrySteps, Has, BegunInv, VisitInv
<1>8. WhoInv(v)'
  BY <1>0, <1>1 DEF Identified, WhoInv, VisitInv
<1>9. EntryInv(v)' /\ KnowsPassword(v)'
  BY <1>0, <1>1 DEF KnowsPassword, EntryInv, VisitInv
<1>10. FoundInv(v)'
  BY <1>0, <1>1 DEF CookieSteps, FoundInv
<1>11. OwnsCredential(v)'
  BY <1>0, <1>1 DEF ByCredential, OwnsCredential, WhoInv, VisitInv
<1>12. TurnedAwayRightly(v)'
  BY <1>0, <1>1 DEF Identified, TurnedAwayRightly, WhoInv, VisitInv
<1>13. (Identified(v) /\ ~ByCredential(v) => mode # "required" /\ Wants(v).op \in Guarded)'
  BY <1>0, <1>1 DEF Identified, WhoInv, VisitInv
<1>14. VisitInv(v)' /\ Earned(v)'
  BY <1>7, <1>8, <1>9, <1>10, <1>11, <1>12, <1>13 DEF VisitInv, Earned
<1> QED BY <1>3, <1>4, <1>5, <1>6, <1>14, StepAuthInv

LEMMA LogoutAuthInv == ASSUME AuthInv, NEW v \in Visits, Logout(v) PROVE AuthInv'
<1> USE AuthAssumption DEF Logout, Goes, Stands, Wants, Account, Guarded, Public, Enters
<1>0. PICK asks : visit \in [Visits -> VisitStates(asks)]
  BY DEF AuthInv, VisitsTyped
<1>1. VisitInv(v) /\ Earned(v) /\ KeysInv /\ LoginsInv /\ RefusedInv
  BY DEF AuthInv
<1>2. visit' \in [Visits -> VisitStates(asks)]
  BY <1>0 DEF VisitSteps, VisitStates
<1>3. OthersStay({v})
  BY <1>0, <1>2 DEF VisitsTyped, OthersStay, AuthInv
<1>4. KeysInv'
  BY <1>0, <1>1 DEF Carries, Has, BegunInv, VisitInv, KeysInv
<1>5. LoginsInv'
  BY <1>0, <1>1 DEF LoginsInv
<1>6. RefusedInv'
  BY <1>0, <1>1 DEF Credentials, Carries, Has, RefusedInv, BegunInv, VisitInv
<1>7. BegunInv(v)'
  BY <1>0, <1>1 DEF CookieSteps, GuardedSteps, EntrySteps, Has, BegunInv, VisitInv
<1>8. WhoInv(v)'
  BY <1>0, <1>1 DEF Identified, WhoInv, VisitInv
<1>9. EntryInv(v)' /\ KnowsPassword(v)'
  BY <1>0, <1>1 DEF KnowsPassword, EntryInv
<1>10. FoundInv(v)'
  BY <1>0, <1>1 DEF CookieSteps, FoundInv
<1>11. OwnsCredential(v)'
  BY <1>0, <1>1 DEF ByCredential, OwnsCredential, WhoInv, VisitInv
<1>12. TurnedAwayRightly(v)'
  BY <1>0, <1>1 DEF Identified, TurnedAwayRightly, WhoInv, VisitInv
<1>13. (Identified(v) /\ ~ByCredential(v) => mode # "required" /\ Wants(v).op \in Guarded)'
  BY <1>0, <1>1 DEF Identified, WhoInv, VisitInv
<1>14. VisitInv(v)' /\ Earned(v)'
  BY <1>7, <1>8, <1>9, <1>10, <1>11, <1>12, <1>13 DEF VisitInv, Earned
<1> QED BY <1>3, <1>4, <1>5, <1>6, <1>14, StepAuthInv

\* The key is looked up, or the lookup fails.
FindsKey(v) ==
  LET k == Wants(v).key IN
  /\ Stands(v, "key")
  /\ IF k \in DOMAIN keys /\ ~keys[k].revoked THEN Known(v, keys[k].user, k) ELSE Goes(v, "cookie")
  /\ UNCHANGED <<mode, users, logins, keys, refused>>
MissesKey(v) ==
  /\ Stands(v, "key")
  /\ visit' = [visit EXCEPT ![v] = [visit[v] EXCEPT !.pc = "cookie", !.failed = @ \cup {"key"}]]
  /\ UNCHANGED <<mode, users, logins, keys, refused>>

LEMMA MissesKeyAuthInv == ASSUME AuthInv, NEW v \in Visits, MissesKey(v) PROVE AuthInv'
<1> USE AuthAssumption DEF Stands, Wants, Account, Guarded, Public, Enters
<1>0. PICK asks : visit \in [Visits -> VisitStates(asks)]
  BY DEF AuthInv, VisitsTyped
<1>1. VisitInv(v) /\ Earned(v) /\ KeysInv /\ LoginsInv /\ RefusedInv
  BY DEF AuthInv
<1>a. /\ visit[v].pc = "key" /\ UNCHANGED <<mode, users, logins, keys, refused>>
      /\ visit' = [visit EXCEPT ![v] = [visit[v] EXCEPT !.pc = "cookie", !.failed = @ \cup {"key"}]]
  BY DEF MissesKey
<1>c. /\ visit'[v].ask = visit[v].ask /\ visit'[v].stale = visit[v].stale /\ visit'[v].pc = "cookie"
      /\ visit'[v].user = visit[v].user /\ visit'[v].by = visit[v].by /\ "key" \in visit'[v].failed
      /\ \A w \in Visits \ {v} : visit'[w] = visit[w]
  BY <1>0, <1>a DEF VisitStates
<1>2. visit' \in [Visits -> VisitStates(asks)]
  <2> DEFINE new == [visit[v] EXCEPT !.pc = "cookie", !.failed = @ \cup {"key"}]
  <2>1. visit[v] \in VisitStates(asks) /\ {"cookie"} \subseteq VisitSteps
    BY <1>0 DEF VisitSteps
  <2>2. new \in VisitStates(asks)
    BY <2>1 DEF VisitStates
  <2>3. visit' = [visit EXCEPT ![v] = new]
    BY <1>a
  <2> HIDE DEF new
  <2> QED BY <1>0, <2>2, <2>3
<1>3. OthersStay({v})
  BY <1>2, <1>a, <1>c DEF VisitsTyped, OthersStay, AuthInv
<1>4. KeysInv' /\ LoginsInv' /\ RefusedInv'
  BY <1>3, <1>a, TablesStay
<1>7. BegunInv(v)'
  BY <1>1, <1>a, <1>c DEF GuardedSteps, EntrySteps, CookieSteps, Has, BegunInv, VisitInv
<1>8. WhoInv(v)'
  BY <1>1, <1>a, <1>c DEF Identified, WhoInv, VisitInv
<1>9. EntryInv(v)' /\ KnowsPassword(v)' /\ FoundInv(v)'
  BY <1>c DEF KnowsPassword, EntryInv, FoundInv, CookieSteps
<1>10. OwnsCredential(v)' /\ TurnedAwayRightly(v)'
  BY <1>1, <1>a, <1>c DEF ByCredential, Identified, OwnsCredential, TurnedAwayRightly, WhoInv, VisitInv
<1>13. (Identified(v) /\ ~ByCredential(v) => mode # "required" /\ Wants(v).op \in Guarded)'
  BY <1>1, <1>a, <1>c DEF Identified, WhoInv, VisitInv
<1>14. VisitInv(v)' /\ Earned(v)'
  BY <1>7, <1>8, <1>9, <1>10, <1>13 DEF VisitInv, Earned
<1> QED BY <1>3, <1>4, <1>14, StepAuthInv

LEMMA FindsKeyAuthInv == ASSUME AuthInv, NEW v \in Visits, FindsKey(v) PROVE AuthInv'
<1> USE AuthAssumption DEF Stands, Wants, Account, Guarded, Public, Enters
<1> DEFINE k == visit[v].ask.key
           good == k \in DOMAIN keys /\ ~keys[k].revoked
<1>0. PICK asks : visit \in [Visits -> VisitStates(asks)]
  BY DEF AuthInv, VisitsTyped
<1>1. VisitInv(v) /\ Earned(v) /\ KeysInv /\ LoginsInv /\ RefusedInv
  BY DEF AuthInv
<1>d. BegunInv(v) /\ WhoInv(v) /\ visit[v].pc = "key" /\ visit[v].ask.op \in Guarded /\ Has(v)
  BY <1>1 DEF FindsKey, GuardedSteps, VisitInv, BegunInv
<1>a. /\ UNCHANGED <<mode, users, logins, keys, refused>>
      /\ \/ /\ good
            /\ visit' = [visit EXCEPT ![v] = [@ EXCEPT !.pc = "served", !.user = keys[k].user, !.by = k]]
         \/ /\ ~good
            /\ visit' = [visit EXCEPT ![v].pc = "cookie"]
  BY <1>d DEF FindsKey, Known, Goes
<1>k. good => k \in Visits \cup FirstKeys /\ k \in Credentials \ {Forged} /\ keys[k].user \in People /\ k \notin refused
  BY <1>1 DEF KeysInv, Credentials
<1>c. /\ visit'[v].ask = visit[v].ask /\ visit'[v].stale = visit[v].stale
      /\ \A w \in Visits \ {v} : visit'[w] = visit[w]
      /\ \/ good /\ visit'[v].pc = "served" /\ visit'[v].user = keys[k].user /\ visit'[v].by = k
         \/ ~good /\ visit'[v].pc = "cookie" /\ visit'[v].user = visit[v].user /\ visit'[v].by = visit[v].by
  <2> DEFINE u == keys[k].user
  <2>1. CASE good
    <3>1. visit' = [visit EXCEPT ![v] = [@ EXCEPT !.pc = "served", !.user = u, !.by = k]]
      BY <1>a, <2>1
    <3> HIDE DEF k, good, u
    <3>2. visit'[v].pc = "served" /\ visit'[v].user = u /\ visit'[v].by = k
      BY <1>0, <3>1 DEF VisitStates
    <3>3. /\ visit'[v].ask = visit[v].ask /\ visit'[v].stale = visit[v].stale
          /\ \A w \in Visits \ {v} : visit'[w] = visit[w]
      BY <1>0, <3>1 DEF VisitStates
    <3> QED BY <2>1, <3>2, <3>3 DEF u
  <2>2. CASE ~good
    <3>1. visit' = [visit EXCEPT ![v].pc = "cookie"]
      BY <1>a, <2>2
    <3> HIDE DEF k, good, u
    <3> QED BY <1>0, <2>2, <3>1 DEF VisitStates
  <2> QED BY <2>1, <2>2
<1>2. visit' \in [Visits -> VisitStates(asks)]
  <2>1. {"served", "cookie"} \subseteq VisitSteps /\ visit[v] \in VisitStates(asks)
    BY <1>0 DEF GuardedSteps, VisitSteps
  <2>2. CASE good
    <3>1. [visit[v] EXCEPT !.pc = "served", !.user = keys[k].user, !.by = k] \in VisitStates(asks)
      BY <1>k, <2>1, <2>2, VisitMoves
    <3> HIDE DEF k
    <3> QED BY <1>0, <1>a, <2>2, <3>1
  <2>3. CASE ~good
    <3>1. [visit[v] EXCEPT !.pc = "cookie"] \in VisitStates(asks)
      BY <2>1 DEF VisitStates
    <3> QED BY <1>0, <1>a, <2>3, <3>1
  <2> QED BY <2>2, <2>3
<1>3. OthersStay({v})
  BY <1>2, <1>a, <1>c, <1>d DEF VisitsTyped, OthersStay, AuthInv
<1>4. KeysInv' /\ LoginsInv' /\ RefusedInv'
  BY <1>3, <1>a, TablesStay
<1>7. BegunInv(v)'
  <2>1. Has(v)'
    BY <1>a, <1>c, <1>d DEF Has
  <2> QED BY <1>a, <1>c, <1>d, <2>1 DEF GuardedSteps, EntrySteps, CookieSteps, BegunInv
<1>8. WhoInv(v)'
  <2>1. ~Identified(v) /\ visit[v].by = Forged
    BY <1>d DEF WhoInv
  <2> QED BY <1>c, <1>k, <2>1 DEF People, Identified, WhoInv
<1>9. EntryInv(v)' /\ KnowsPassword(v)'
  BY <1>c DEF KnowsPassword, EntryInv
<1>10. FoundInv(v)'
  BY <1>a, <1>c DEF CookieSteps, KeyGood, FoundInv
<1>11. OwnsCredential(v)'
  <2>1. ~Identified(v) /\ visit[v].stale \subseteq refused
    BY <1>d DEF WhoInv, BegunInv
  <2>2. good /\ k \in Visits => /\ k # v /\ visit[k].ask.op = "createKey" /\ keys[k].user = visit[k].user
                               /\ visit'[k] = visit[k]
    BY <1>1, <1>c, <1>d DEF KeysInv
  <2> QED BY <1>c, <1>k, <2>1, <2>2 DEF Identified, ByCredential, OwnsCredential
<1>12. TurnedAwayRightly(v)'
  BY <1>c, <1>d, <1>k DEF Identified, ByCredential, TurnedAwayRightly, WhoInv
<1>13. (Identified(v) /\ ~ByCredential(v) => mode # "required" /\ Wants(v).op \in Guarded)'
  BY <1>c, <1>d, <1>k DEF Identified, ByCredential, WhoInv
<1>14. VisitInv(v)' /\ Earned(v)'
  BY <1>7, <1>8, <1>9, <1>10, <1>11, <1>12, <1>13 DEF VisitInv, Earned
<1> QED BY <1>3, <1>4, <1>14, StepAuthInv

LEMMA TakeKeyAuthInv == ASSUME AuthInv, NEW v \in Visits, TakeKey(v) PROVE AuthInv'
<1>1. FindsKey(v) \/ MissesKey(v)
  BY DEF TakeKey, FindsKey, MissesKey
<1> QED BY <1>1, FindsKeyAuthInv, MissesKeyAuthInv

\* The cookie is good for nothing when it cannot be looked up.
LEMMA CookieFailsAuthInv ==
  ASSUME AuthInv, NEW v \in Visits, CookieFails(v), visit[v].pc \in {"cookie", "user"}, Wants(v).op # "logout",
         UNCHANGED <<mode, users, logins, keys, refused>>
  PROVE  AuthInv'
<1> USE AuthAssumption DEF Stands, Wants, Account, Guarded, Public, Enters
<1>0. PICK asks : visit \in [Visits -> VisitStates(asks)]
  BY DEF AuthInv, VisitsTyped
<1>1. VisitInv(v) /\ Earned(v) /\ KeysInv /\ LoginsInv /\ RefusedInv
  BY DEF AuthInv
<1> DEFINE new == [Unidentified(v) EXCEPT !.failed = @ \cup {"cookie"}]
<1>a. visit' = [visit EXCEPT ![v] = new] /\ visit[v] \in VisitStates(asks)
  BY <1>0 DEF CookieFails
<1>b. /\ new \in VisitStates(asks)
      /\ new.ask = visit[v].ask /\ new.stale = visit[v].stale /\ new.by = visit[v].by
      /\ new.failed = visit[v].failed \cup {"cookie"}
      /\ \/ visit[v].ask.op \in Guarded /\ mode # "required" /\ new.pc = "served" /\ new.user = Everyone
         \/ new.pc = "unauthorized" /\ new.user = visit[v].user
  BY <1>a DEF Unidentified, VisitStates, VisitSteps, GuardedSteps, People
<1> HIDE DEF new
<1>c. visit'[v] = new /\ \A w \in Visits \ {v} : visit'[w] = visit[w]
  BY <1>0, <1>a
<1>2. visit' \in [Visits -> VisitStates(asks)]
  BY <1>0, <1>a, <1>b
<1>3. OthersStay({v})
  BY <1>2, <1>b, <1>c DEF VisitsTyped, OthersStay, AuthInv
<1>4. KeysInv' /\ LoginsInv' /\ RefusedInv'
  BY <1>3, TablesStay
<1>7. BegunInv(v)'
  BY <1>1, <1>b, <1>c DEF GuardedSteps, EntrySteps, CookieSteps, Has, BegunInv, VisitInv
<1>8. WhoInv(v)'
  BY <1>1, <1>b, <1>c DEF Identified, WhoInv, VisitInv
<1>9. EntryInv(v)' /\ KnowsPassword(v)' /\ FoundInv(v)'
  BY <1>b, <1>c DEF KnowsPassword, EntryInv, FoundInv, CookieSteps
<1>10. OwnsCredential(v)'
  BY <1>1, <1>b, <1>c DEF ByCredential, OwnsCredential, WhoInv, VisitInv
<1>11. TurnedAwayRightly(v)'
  BY <1>1, <1>b, <1>c DEF TurnedAwayRightly, KeyGood, FoundInv, VisitInv, CookieSteps
<1>13. (Identified(v) /\ ~ByCredential(v) => mode # "required" /\ Wants(v).op \in Guarded)'
  BY <1>1, <1>b, <1>c DEF Identified, WhoInv, VisitInv
<1>14. VisitInv(v)' /\ Earned(v)'
  BY <1>7, <1>8, <1>9, <1>10, <1>11, <1>13 DEF VisitInv, Earned
<1> QED BY <1>3, <1>4, <1>14, StepAuthInv

ReadsCookie(v) ==
  LET l == Wants(v).cookie IN
  /\ Stands(v, "cookie") /\ Wants(v).op # "logout"
  /\ IF l \in DOMAIN logins
     THEN visit' = [visit EXCEPT ![v] = [@ EXCEPT !.pc = IF logins[l].over THEN "forget" ELSE "user",
                                        !.login = l, !.owner = logins[l].user]]
     ELSE visit' = [visit EXCEPT ![v] = Unidentified(v)]
  /\ UNCHANGED <<mode, users, logins, keys, refused>>

LEMMA ReadsCookieAuthInv == ASSUME AuthInv, NEW v \in Visits, ReadsCookie(v) PROVE AuthInv'
<1> USE AuthAssumption DEF Stands, Wants, Account, Guarded, Public, Enters
<1> DEFINE l == visit[v].ask.cookie
<1>0. PICK asks : visit \in [Visits -> VisitStates(asks)]
  BY DEF AuthInv, VisitsTyped
<1>1. VisitInv(v) /\ Earned(v) /\ KeysInv /\ LoginsInv /\ RefusedInv
  BY DEF AuthInv
<1>2. visit' \in [Visits -> VisitStates(asks)]
  <2>1. CASE l \in DOMAIN logins
    <3>1. l \in Credentials /\ logins[l].user \in People
      BY <1>1, <2>1 DEF People, Credentials, LoginsInv
    <3>2. \A pc \in CookieSteps :
            [visit[v] EXCEPT !.pc = pc, !.login = l, !.owner = logins[l].user] \in VisitStates(asks)
      BY <1>0, <3>1 DEF VisitStates, VisitSteps
    <3> QED BY <1>0, <2>1, <3>2 DEF ReadsCookie, CookieSteps
  <2>2. CASE l \notin DOMAIN logins
    <3>1. Unidentified(v) \in VisitStates(asks)
      BY <1>0 DEF People, GuardedSteps, VisitSteps, VisitStates, Unidentified
    <3> QED BY <1>0, <2>2, <3>1 DEF ReadsCookie
  <2> QED BY <2>1, <2>2
\* What becomes of the visit if its session is found.
<1>e. l \in DOMAIN logins =>
        /\ visit'[v].pc = IF logins[l].over THEN "forget" ELSE "user"
        /\ visit'[v].login = l /\ visit'[v].owner = logins[l].user
        /\ visit'[v].ask = visit[v].ask /\ visit'[v].stale = visit[v].stale
        /\ visit'[v].by = visit[v].by /\ visit'[v].user = visit[v].user /\ visit'[v].failed = visit[v].failed
        /\ \A w \in Visits \ {v} : visit'[w] = visit[w]
  <2> SUFFICES ASSUME l \in DOMAIN logins PROVE visit'[v].pc = (IF logins[l].over THEN "forget" ELSE "user")
        /\ visit'[v].login = l /\ visit'[v].owner = logins[l].user
        /\ visit'[v].ask = visit[v].ask /\ visit'[v].stale = visit[v].stale
        /\ visit'[v].by = visit[v].by /\ visit'[v].user = visit[v].user /\ visit'[v].failed = visit[v].failed
        /\ \A w \in Visits \ {v} : visit'[w] = visit[w]
    OBVIOUS
  <2> DEFINE to == IF logins[l].over THEN "forget" ELSE "user"
             owner == logins[l].user
  <2>1. visit' = [visit EXCEPT ![v] = [@ EXCEPT !.pc = to, !.login = l, !.owner = owner]]
    BY DEF ReadsCookie
  <2> HIDE DEF to, l, owner
  <2>2. /\ visit'[v].pc = to /\ visit'[v].login = l /\ visit'[v].owner = owner
        /\ visit'[v].ask = visit[v].ask /\ visit'[v].stale = visit[v].stale
        /\ visit'[v].by = visit[v].by /\ visit'[v].user = visit[v].user /\ visit'[v].failed = visit[v].failed
    BY <1>0, <2>1 DEF VisitStates
  <2>3. \A w \in Visits \ {v} : visit'[w] = visit[w]
    BY <1>0, <2>1
  <2> QED BY <2>2, <2>3 DEF to, owner, l
<1>a. /\ visit[v].pc = "cookie" /\ visit[v].ask.op # "logout"
      /\ \A w \in Visits \ {v} : visit'[w] = visit[w]
      /\ visit'[v].ask = visit[v].ask /\ visit'[v].stale = visit[v].stale /\ visit'[v].by = visit[v].by /\ visit'[v].failed = visit[v].failed
      /\ UNCHANGED <<mode, users, logins, keys, refused>>
  <2>1. visit[v].pc = "cookie" /\ visit[v].ask.op # "logout" /\ UNCHANGED <<mode, users, logins, keys, refused>>
    BY DEF ReadsCookie
  <2>2. CASE l \in DOMAIN logins
    BY <1>0, <1>e, <2>1, <2>2
  <2>3. CASE l \notin DOMAIN logins
    <3>1. visit' = [visit EXCEPT ![v] = Unidentified(v)]
      BY <2>3 DEF ReadsCookie
    <3> QED BY <1>0, <2>1, <3>1 DEF Unidentified, VisitStates
  <2> QED BY <2>2, <2>3
\* The session is over, it is good, or there is none.
<1>b. \/ /\ l \in DOMAIN logins /\ logins[l].over
         /\ visit'[v].pc = "forget" /\ visit'[v].user = visit[v].user /\ visit'[v].login = l
      \/ /\ l \in DOMAIN logins /\ ~logins[l].over
         /\ visit'[v].pc = "user" /\ visit'[v].user = visit[v].user /\ visit'[v].login = l
         /\ visit'[v].owner = logins[l].user
      \/ /\ l \notin DOMAIN logins /\ visit[v].ask.op \in Guarded /\ mode # "required"
         /\ visit'[v].pc = "served" /\ visit'[v].user = Everyone
      \/ /\ l \notin DOMAIN logins
         /\ visit'[v].pc = "unauthorized" /\ visit'[v].user = visit[v].user
  <2>1. CASE l \in DOMAIN logins
    BY <1>e, <2>1
  <2>2. CASE l \notin DOMAIN logins
    <3>1. visit' = [visit EXCEPT ![v] = Unidentified(v)]
      BY <2>2 DEF ReadsCookie
    <3> QED BY <1>0, <2>2, <3>1 DEF Unidentified, VisitStates
  <2> QED BY <2>1, <2>2
<1>3. OthersStay({v})
  BY <1>2, <1>a DEF VisitsTyped, OthersStay, AuthInv
<1>4. KeysInv' /\ LoginsInv' /\ RefusedInv'
  BY <1>3, <1>a, TablesStay
<1>7. BegunInv(v)'
  BY <1>1, <1>a, <1>b DEF GuardedSteps, EntrySteps, Has, BegunInv, VisitInv
<1>8. WhoInv(v)'
  BY <1>1, <1>a, <1>b DEF Identified, WhoInv, VisitInv
<1>9. EntryInv(v)' /\ KnowsPassword(v)'
  BY <1>b DEF EntryInv, KnowsPassword
<1>10. FoundInv(v)'
  BY <1>1, <1>a, <1>b DEF CookieSteps, LoginsInv, CookieGood, KeyGood, FoundInv, BegunInv, VisitInv
<1>11. OwnsCredential(v)'
  BY <1>1, <1>a, <1>b DEF ByCredential, OwnsCredential, WhoInv, VisitInv
<1>12. TurnedAwayRightly(v)'
  BY <1>1, <1>a, <1>b DEF Identified, TurnedAwayRightly, KeyGood, FoundInv, WhoInv, VisitInv
<1>13. (Identified(v) /\ ~ByCredential(v) => mode # "required" /\ Wants(v).op \in Guarded)'
  BY <1>1, <1>a, <1>b DEF Identified, WhoInv, VisitInv
<1>14. VisitInv(v)' /\ Earned(v)'
  BY <1>7, <1>8, <1>9, <1>10, <1>11, <1>12, <1>13 DEF VisitInv, Earned
<1> QED BY <1>3, <1>4, <1>14, StepAuthInv

LEMMA TakeCookieAuthInv == ASSUME AuthInv, NEW v \in Visits, TakeCookie(v) PROVE AuthInv'
<1>1. Stands(v, "cookie") /\ Wants(v).op # "logout" /\ UNCHANGED <<mode, users, logins, keys, refused>>
  BY DEF TakeCookie
<1>2. CASE CookieFails(v)
  BY <1>1, <1>2, CookieFailsAuthInv DEF Stands
<1>3. CASE ~CookieFails(v)
  <2>1. ReadsCookie(v)
    BY <1>1, <1>3 DEF TakeCookie, ReadsCookie
  <2> QED BY <2>1, ReadsCookieAuthInv
<1> QED BY <1>2, <1>3

LEMMA ForgetSessionAuthInv == ASSUME AuthInv, NEW v \in Visits, ForgetSession(v) PROVE AuthInv'
<1> USE AuthAssumption DEF ForgetSession, Goes, Stands, Wants, Account, Guarded, Public, Enters, Unidentified
<1>0. PICK asks : visit \in [Visits -> VisitStates(asks)]
  BY DEF AuthInv, VisitsTyped
<1>1. VisitInv(v) /\ Earned(v) /\ KeysInv /\ LoginsInv /\ RefusedInv
  BY DEF AuthInv
<1>2. visit' \in [Visits -> VisitStates(asks)]
  <2>1. visit[v] \in VisitStates(asks)
    BY <1>0
  <2>2. Unidentified(v) \in VisitStates(asks)
    BY <2>1 DEF People, GuardedSteps, VisitSteps, VisitStates
  <2> QED BY <1>0, <2>2
<1>3. OthersStay({v})
  BY <1>0, <1>2 DEF VisitsTyped, OthersStay, AuthInv
<1>4. KeysInv'
  BY <1>0, <1>1 DEF KeysInv
<1>5. LoginsInv'
  BY <1>0, <1>1 DEF LoginsInv
<1>6. RefusedInv'
  BY <1>0, <1>1 DEF RefusedInv
<1>7. BegunInv(v)'
  BY <1>0, <1>1 DEF CookieSteps, GuardedSteps, EntrySteps, Has, BegunInv, VisitInv
<1>8. WhoInv(v)'
  BY <1>0, <1>1 DEF Identified, WhoInv, VisitInv
<1>9. EntryInv(v)' /\ KnowsPassword(v)'
  BY <1>0, <1>1 DEF KnowsPassword, EntryInv
<1>10. FoundInv(v)'
  BY <1>0, <1>1 DEF CookieSteps, FoundInv
<1>11. OwnsCredential(v)'
  BY <1>0, <1>1 DEF ByCredential, OwnsCredential, WhoInv, VisitInv
<1>12. TurnedAwayRightly(v)'
  BY <1>0, <1>1 DEF CookieSteps, TurnedAwayRightly, CookieGood, KeyGood, FoundInv, VisitInv
<1>13. (Identified(v) /\ ~ByCredential(v) => mode # "required" /\ Wants(v).op \in Guarded)'
  BY <1>0, <1>1 DEF Identified, WhoInv, VisitInv
<1>14. VisitInv(v)' /\ Earned(v)'
  BY <1>7, <1>8, <1>9, <1>10, <1>11, <1>12, <1>13 DEF VisitInv, Earned
<1> QED BY <1>3, <1>4, <1>5, <1>6, <1>14, StepAuthInv

ReadsUser(v) ==
  Stands(v, "user") /\ Known(v, visit[v].owner, visit[v].login) /\ UNCHANGED <<mode, users, logins, keys, refused>>

LEMMA ReadsUserAuthInv == ASSUME AuthInv, NEW v \in Visits, ReadsUser(v) PROVE AuthInv'
<1> USE AuthAssumption DEF Stands, Wants, Account, Guarded, Public, Enters
<1> DEFINE l == visit[v].login
           owner == visit[v].owner
           to == IF visit[v].ask.op \in Guarded THEN "served" ELSE "shown"
<1>0. PICK asks : visit \in [Visits -> VisitStates(asks)]
  BY DEF AuthInv, VisitsTyped
<1>1. VisitInv(v) /\ Earned(v) /\ KeysInv /\ LoginsInv /\ RefusedInv
  BY DEF AuthInv
<1>a. /\ visit[v].pc = "user" /\ UNCHANGED <<mode, users, logins, keys, refused>>
      /\ visit' = [visit EXCEPT ![v] = [@ EXCEPT !.pc = to, !.user = owner, !.by = l]]
  BY DEF ReadsUser, Known
<1>d. BegunInv(v) /\ WhoInv(v) /\ FoundInv(v)
  BY <1>1 DEF VisitInv
<1>k. /\ l \in Visits \cup FirstLogins /\ l \in Credentials \ {Forged} /\ l \notin visit[v].stale /\ l = visit[v].ask.cookie
      /\ owner \in People /\ owner # NoOne /\ (l \in Visits => owner = visit[l].ask.email)
      /\ to \in {"served", "shown"} /\ (to = "served" => visit[v].ask.op \in Guarded)
      /\ visit[v].ask.op \in Guarded \cup {"session"} /\ Has(v)
  BY <1>a, <1>d DEF FoundInv, BegunInv, CookieSteps, Credentials, People
<1>c. /\ visit'[v].ask = visit[v].ask /\ visit'[v].stale = visit[v].stale
      /\ visit'[v].pc = to /\ visit'[v].user = owner /\ visit'[v].by = l
      /\ \A w \in Visits \ {v} : visit'[w] = visit[w]
  <2> HIDE DEF l, owner, to
  <2> QED BY <1>0, <1>a DEF VisitStates
<1>2. visit' \in [Visits -> VisitStates(asks)]
  <2>1. {"served", "shown"} \subseteq VisitSteps /\ visit[v] \in VisitStates(asks)
    BY <1>0 DEF GuardedSteps, VisitSteps
  <2>2. [visit[v] EXCEPT !.pc = to, !.user = owner, !.by = l] \in VisitStates(asks)
    BY <1>k, <2>1, VisitMoves
  <2> HIDE DEF l, owner, to
  <2> QED BY <1>0, <1>a, <2>2
<1> HIDE DEF to, owner
<1>3. OthersStay({v})
  BY <1>2, <1>a, <1>c DEF VisitsTyped, OthersStay, AuthInv
<1>4. KeysInv' /\ LoginsInv' /\ RefusedInv'
  BY <1>3, <1>a, TablesStay
<1>7. BegunInv(v)'
  <2>1. Has(v)'
    BY <1>a, <1>c, <1>k DEF Has
  <2> QED BY <1>a, <1>c, <1>d, <1>k, <2>1 DEF CookieSteps, GuardedSteps, EntrySteps, BegunInv
<1>8. WhoInv(v)'
  BY <1>c, <1>k DEF Identified, WhoInv
<1>9. EntryInv(v)' /\ KnowsPassword(v)'
  BY <1>c, <1>k DEF KnowsPassword, EntryInv
<1>10. FoundInv(v)'
  BY <1>c, <1>k DEF CookieSteps, FoundInv
<1>11. OwnsCredential(v)'
  <2>1. l \in Visits => l # v /\ visit[l].pc = "loggedIn" /\ visit[l].ask.op \in Enters
    <3>1. l \in Visits => visit[l].pc = "loggedIn"
      BY <1>k DEF Has
    <3>2. \A w \in Visits : visit[w].pc = "loggedIn" => visit[w].ask.op \in Enters
      BY DEF AuthInv, VisitInv, BegunInv, EntrySteps
    <3> QED BY <1>a, <3>1, <3>2
  <2> QED BY <1>c, <1>k, <2>1 DEF OwnsCredential
<1>12. TurnedAwayRightly(v)'
  BY <1>c, <1>k DEF ByCredential, Identified, TurnedAwayRightly
<1>13. (Identified(v) /\ ~ByCredential(v) => mode # "required" /\ Wants(v).op \in Guarded)'
  BY <1>c, <1>k DEF ByCredential
<1>14. VisitInv(v)' /\ Earned(v)'
  BY <1>7, <1>8, <1>9, <1>10, <1>11, <1>12, <1>13 DEF VisitInv, Earned
<1> QED BY <1>3, <1>4, <1>14, StepAuthInv

LEMMA TakeUserAuthInv == ASSUME AuthInv, NEW v \in Visits, TakeUser(v) PROVE AuthInv'
<1>1. Stands(v, "user") /\ UNCHANGED <<mode, users, logins, keys, refused>>
  BY DEF TakeUser
<1>2. CASE CookieFails(v)
  <2>1. Wants(v).op # "logout"
    BY <1>1 DEF AuthInv, VisitInv, BegunInv, CookieSteps, Stands, Guarded
  <2> QED BY <1>1, <1>2, <2>1, CookieFailsAuthInv DEF Stands
<1>3. CASE ~CookieFails(v)
  <2>1. ReadsUser(v)
    BY <1>1, <1>3 DEF TakeUser, ReadsUser
  <2> QED BY <2>1, ReadsUserAuthInv
<1> QED BY <1>2, <1>3

LEMMA CreateKeyAuthInv == ASSUME AuthInv, NEW v \in Visits, CreateKey(v) PROVE AuthInv'
<1> USE AuthAssumption DEF CreateKey, Goes, Stands, Wants, Account, Guarded, Public, Enters
<1>0. PICK asks : visit \in [Visits -> VisitStates(asks)]
  BY DEF AuthInv, VisitsTyped
<1>1. VisitInv(v) /\ Earned(v) /\ KeysInv /\ LoginsInv /\ RefusedInv
  BY DEF AuthInv
<1>2. visit' \in [Visits -> VisitStates(asks)]
  BY <1>0 DEF GuardedSteps, VisitSteps, VisitStates
<1>3. OthersStay({v})
  BY <1>0, <1>2 DEF VisitsTyped, OthersStay, AuthInv
<1>4. KeysInv'
  BY <1>0, <1>1 DEF RefusedInv, Identified, WhoInv, VisitInv, KeysInv, VisitStates
<1>5. LoginsInv'
  BY <1>0, <1>1 DEF LoginsInv
<1>6. RefusedInv'
  BY <1>0, <1>1 DEF RefusedInv
<1>7. BegunInv(v)'
  BY <1>0, <1>1 DEF EntrySteps, Has, BegunInv, VisitInv
<1>8. WhoInv(v)'
  BY <1>0, <1>1 DEF Identified, WhoInv, VisitInv
<1>9. EntryInv(v)' /\ KnowsPassword(v)'
  BY <1>0, <1>1 DEF KnowsPassword, EntryInv
<1>10. FoundInv(v)'
  BY <1>0, <1>1 DEF CookieSteps, FoundInv
<1>11. OwnsCredential(v)'
  BY <1>0, <1>1 DEF ByCredential, OwnsCredential, Earned, WhoInv, VisitInv
<1>12. TurnedAwayRightly(v)'
  BY <1>0, <1>1 DEF Has, ByCredential, TurnedAwayRightly, Earned, WhoInv, BegunInv, VisitInv
<1>13. (Identified(v) /\ ~ByCredential(v) => mode # "required" /\ Wants(v).op \in Guarded)'
  BY <1>0, <1>1 DEF ByCredential, Earned, WhoInv, VisitInv
<1>14. VisitInv(v)' /\ Earned(v)'
  BY <1>7, <1>8, <1>9, <1>10, <1>11, <1>12, <1>13 DEF VisitInv, Earned
<1> QED BY <1>3, <1>4, <1>5, <1>6, <1>14, StepAuthInv

LEMMA RevokeKeyAuthInv == ASSUME AuthInv, NEW v \in Visits, RevokeKey(v) PROVE AuthInv'
<1> USE AuthAssumption DEF RevokeKey, Goes, Stands, Wants, Account, Guarded, Public, Enters
<1>0. PICK asks : visit \in [Visits -> VisitStates(asks)]
  BY DEF AuthInv, VisitsTyped
<1>1. VisitInv(v) /\ Earned(v) /\ KeysInv /\ LoginsInv /\ RefusedInv
  BY DEF AuthInv
<1>2. visit' \in [Visits -> VisitStates(asks)]
  <2>1. PICK pc \in {"done", "notFound"} : visit' = [visit EXCEPT ![v].pc = pc]
    OBVIOUS
  <2>2. [visit[v] EXCEPT !.pc = pc] \in VisitStates(asks)
    BY <1>0 DEF GuardedSteps, VisitSteps, VisitStates
  <2> QED BY <1>0, <2>1, <2>2
<1>3. OthersStay({v})
  <2>1. /\ visit'[v].ask = visit[v].ask /\ \A w \in Visits \ {v} : visit'[w] = visit[w]
        /\ visit[v].pc \notin {"done", "loggedIn"}
    BY <1>0 DEF VisitStates
  <2>2. refused \subseteq refused' /\ DOMAIN keys' = DOMAIN keys
        /\ \A k \in DOMAIN keys : keys[k].revoked => keys'[k].revoked
    BY <1>1 DEF KeysInv
  <2> QED BY <1>2, <2>1, <2>2 DEF VisitsTyped, OthersStay, AuthInv
<1>4. KeysInv'
  <2>1. \A k \in DOMAIN keys : keys[k] \in [user : People, revoked : BOOLEAN]
    BY <1>1 DEF KeysInv
  <2>2. CASE Wants(v).revoke \in DOMAIN keys /\ ~keys[Wants(v).revoke].revoked
    <3> DEFINE r == Wants(v).revoke
    <3>1. /\ keys' = [keys EXCEPT ![r] = [@ EXCEPT !.revoked = TRUE]] /\ refused' = refused \cup {r}
          /\ \A w \in Visits \ {v} : visit'[w] = visit[w]
          /\ visit[v].pc = "served"
      BY <1>0, <2>2 DEF VisitStates
    <3>2. keys'[r].user = keys[r].user /\ keys'[r] \in [user : People, revoked : BOOLEAN] /\ keys'[r].revoked
      BY <2>1, <2>2, <3>1
    <3>3. \A k \in DOMAIN keys : k # r => keys'[k] = keys[k]
      BY <3>1
    <3> QED BY <1>1, <2>2, <3>1, <3>2, <3>3 DEF KeysInv
  <2>3. CASE ~(Wants(v).revoke \in DOMAIN keys /\ ~keys[Wants(v).revoke].revoked)
    BY <1>0, <1>1, <2>3 DEF VisitStates, KeysInv
  <2> QED BY <2>2, <2>3
<1>5. LoginsInv'
  BY <1>0, <1>1 DEF LoginsInv, KeysInv
<1>6. RefusedInv'
  BY <1>0, <1>1 DEF Credentials, RefusedInv, KeysInv
<1>7. BegunInv(v)'
  BY <1>0, <1>1 DEF EntrySteps, Has, BegunInv, VisitInv, VisitStates
<1>8. WhoInv(v)'
  BY <1>0, <1>1 DEF Identified, WhoInv, VisitInv, VisitStates
<1>9. EntryInv(v)' /\ KnowsPassword(v)'
  BY <1>0, <1>1 DEF KnowsPassword, EntryInv, VisitStates
<1>10. FoundInv(v)'
  BY <1>0, <1>1 DEF CookieSteps, FoundInv, VisitStates
<1>11. OwnsCredential(v)'
  BY <1>0, <1>1 DEF ByCredential, Identified, OwnsCredential, Earned, VisitInv, VisitStates
<1>12. TurnedAwayRightly(v)'
  BY <1>0, <1>1 DEF RefusedInv, ByCredential, TurnedAwayRightly, Earned, WhoInv, VisitInv, VisitStates
<1>13. (Identified(v) /\ ~ByCredential(v) => mode # "required" /\ Wants(v).op \in Guarded)'
  BY <1>0, <1>1 DEF ByCredential, Earned, WhoInv, VisitInv, VisitStates
<1>14. VisitInv(v)' /\ Earned(v)'
  BY <1>7, <1>8, <1>9, <1>10, <1>11, <1>12, <1>13 DEF VisitInv, Earned
<1> QED BY <1>3, <1>4, <1>5, <1>6, <1>14, StepAuthInv

LEMMA ServeOtherAuthInv == ASSUME AuthInv, NEW v \in Visits, ServeOther(v) PROVE AuthInv'
<1> USE AuthAssumption DEF ServeOther, Goes, Stands, Wants, Account, Guarded, Public, Enters
<1>0. PICK asks : visit \in [Visits -> VisitStates(asks)]
  BY DEF AuthInv, VisitsTyped
<1>1. VisitInv(v) /\ Earned(v) /\ KeysInv /\ LoginsInv /\ RefusedInv
  BY DEF AuthInv
<1>2. visit' \in [Visits -> VisitStates(asks)]
  BY <1>0 DEF GuardedSteps, VisitSteps, VisitStates
<1>3. OthersStay({v})
  BY <1>0, <1>2 DEF VisitsTyped, OthersStay, AuthInv
<1>4. KeysInv' /\ LoginsInv' /\ RefusedInv'
  BY <1>3, TablesStay
<1>7. BegunInv(v)'
  BY <1>0, <1>1 DEF EntrySteps, Has, BegunInv, VisitInv
<1>8. WhoInv(v)'
  BY <1>0, <1>1 DEF Identified, WhoInv, VisitInv
<1>9. EntryInv(v)' /\ KnowsPassword(v)'
  BY <1>0, <1>1 DEF KnowsPassword, EntryInv
<1>10. FoundInv(v)'
  BY <1>0, <1>1 DEF CookieSteps, FoundInv
<1>11. OwnsCredential(v)'
  BY <1>0, <1>1 DEF ByCredential, OwnsCredential, Earned, WhoInv, VisitInv
<1>12. TurnedAwayRightly(v)'
  BY <1>0, <1>1 DEF ByCredential, TurnedAwayRightly, Earned, WhoInv, VisitInv
<1>13. (Identified(v) /\ ~ByCredential(v) => mode # "required" /\ Wants(v).op \in Guarded)'
  BY <1>0, <1>1 DEF ByCredential, Earned, WhoInv, VisitInv
<1>14. VisitInv(v)' /\ Earned(v)'
  BY <1>7, <1>8, <1>9, <1>10, <1>11, <1>12, <1>13 DEF VisitInv, Earned
<1> QED BY <1>3, <1>4, <1>14, StepAuthInv

LEMMA DieAuthInv == ASSUME AuthInv, NEW v \in Visits, Die(v) PROVE AuthInv'
<1> USE AuthAssumption DEF Die, Goes, Stands, Wants, Account, Guarded, Public, Enters
<1>0. PICK asks : visit \in [Visits -> VisitStates(asks)]
  BY DEF AuthInv, VisitsTyped
<1>1. VisitInv(v) /\ Earned(v) /\ KeysInv /\ LoginsInv /\ RefusedInv
  BY DEF AuthInv
<1>2. visit' \in [Visits -> VisitStates(asks)]
  BY <1>0 DEF VisitSteps, VisitStates
<1>3. OthersStay({v})
  BY <1>0, <1>2 DEF VisitsTyped, OthersStay, AuthInv
<1>4. KeysInv' /\ LoginsInv' /\ RefusedInv'
  BY <1>3, TablesStay
<1>7. BegunInv(v)'
  BY <1>0, <1>1 DEF CookieSteps, GuardedSteps, EntrySteps, Has, BegunInv, VisitInv
<1>8. WhoInv(v)'
  BY <1>0, <1>1 DEF Identified, WhoInv, VisitInv
<1>9. EntryInv(v)' /\ KnowsPassword(v)'
  BY <1>0, <1>1 DEF KnowsPassword, EntryInv
<1>10. FoundInv(v)'
  BY <1>0, <1>1 DEF CookieSteps, FoundInv
<1>11. OwnsCredential(v)'
  BY <1>0, <1>1 DEF ByCredential, OwnsCredential, Earned, WhoInv, VisitInv
<1>12. TurnedAwayRightly(v)'
  BY <1>0, <1>1 DEF ByCredential, Identified, TurnedAwayRightly, Earned
<1>13. (Identified(v) /\ ~ByCredential(v) => mode # "required" /\ Wants(v).op \in Guarded)'
  BY <1>0, <1>1 DEF ByCredential, Identified, Earned
<1>14. VisitInv(v)' /\ Earned(v)'
  BY <1>7, <1>8, <1>9, <1>10, <1>11, <1>12, <1>13 DEF VisitInv, Earned
<1> QED BY <1>3, <1>4, <1>14, StepAuthInv

\* The life of a login session ends: no visit moves.
LEMMA ExpireAuthInv == ASSUME AuthInv, NEW l \in Visits \cup FirstLogins, Expire(l) PROVE AuthInv'
<1> USE DEF Expire, Wants, Stands, Account
<1>1. KeysInv /\ LoginsInv /\ RefusedInv /\ VisitsTyped
  BY DEF AuthInv
<1>2. DOMAIN logins' = DOMAIN logins /\ logins'[l].over
        /\ \A m \in DOMAIN logins : logins'[m].user = logins[m].user /\ (m # l => logins'[m] = logins[m])
  <2>1. logins[l] \in [user : Emails, over : BOOLEAN]
    BY <1>1 DEF LoginsInv
  <2>2. logins' = [logins EXCEPT ![l] = [@ EXCEPT !.over = TRUE]]
    OBVIOUS
  <2> QED BY <2>1, <2>2
<1>3. OthersStay({})
  <2>1. \A m \in DOMAIN logins' : m \in DOMAIN logins /\ (logins[m].over => logins'[m].over)
    BY <1>2
  <2> QED BY <1>1, <2>1 DEF VisitsTyped, OthersStay, AuthInv
<1>4. LoginsInv'
  <2>1. logins'[l] \in [user : Emails, over : BOOLEAN]
    BY <1>1 DEF LoginsInv
  <2> QED BY <1>1, <1>2, <2>1 DEF LoginsInv
<1>5. KeysInv'
  <2>1. \A k \in DOMAIN keys : k # l
    BY <1>1, AuthAssumption DEF LoginsInv, KeysInv
  <2> QED BY <1>1, <2>1 DEF KeysInv
<1>6. RefusedInv'
  BY <1>1 DEF Credentials, LoginsInv, RefusedInv
<1> QED BY <1>3, <1>4, <1>5, <1>6, StepAuthInv

\* At the start no visit has begun, and nothing has been refused.
LEMMA InitAuthInv == ASSUME AuthStart PROVE AuthInv
<1> USE DEF Wants, Stands, Account
<1>1. PICK m \in {"required", "optional", "bypass"}, asks \in [Visits -> {visit[v].ask : v \in Visits}],
           accounts \in UNION {[A -> Passwords] : A \in SUBSET Emails},
           owners \in [FirstKeys \cup FirstLogins -> Emails \cup {Everyone}] :
             /\ \A v \in Visits : asks[v].op \in Guarded \cup Public => Carries(asks[v])
             /\ \A l \in FirstLogins : owners[l] \in DOMAIN accounts
             /\ AuthInit(m, asks, accounts, owners)
  BY DEF AuthStart
<1>2. DOMAIN accounts \subseteq Emails /\ \A e \in DOMAIN accounts : accounts[e] \in Passwords
  OBVIOUS
<1>3. mode \in {"required", "optional", "bypass"} /\ users \in [Emails -> Passwords \cup {NoAccount}]
  BY <1>1, <1>2 DEF AuthInit
<1>4. VisitsTyped
  <2> DEFINE some == {visit[v].ask : v \in Visits}
  <2>1. \A v \in Visits : NewVisit(asks[v]) \in VisitStates(some)
    BY <1>1 DEF Credentials, VisitSteps, VisitStates, NewVisit
  <2>2. visit \in [Visits -> VisitStates(some)]
    BY <1>1, <2>1 DEF AuthInit
  <2> QED BY <2>2 DEF VisitsTyped
<1>5. KeysInv
  BY <1>1, AuthAssumption DEF People, KeysInv, AuthInit
<1>6. LoginsInv
  BY <1>1, <1>2, AuthAssumption DEF AuthInit, LoginsInv
<1>7. RefusedInv
  BY <1>1 DEF AuthInit, RefusedInv
<1>8. ASSUME NEW v \in Visits PROVE VisitInv(v) /\ Earned(v)
  <2>1. visit[v] = NewVisit(asks[v])
    BY <1>1 DEF AuthInit
  <2>2. visit[v].ask = asks[v] /\ visit[v].pc = "new" /\ visit[v].user = NoOne /\ visit[v].by = Forged
    BY <2>1 DEF NewVisit
  <2>3. VisitInv(v)
    BY <1>1, <2>2
       DEF CookieSteps, GuardedSteps, EntrySteps, Identified, FoundInv, EntryInv, WhoInv, BegunInv, VisitInv
  <2>4. Earned(v)
    BY <2>2 DEF ByCredential, Identified, TurnedAwayRightly, KnowsPassword, OwnsCredential, Earned
  <2> QED BY <2>3, <2>4
<1> QED BY <1>3, <1>4, <1>5, <1>6, <1>7, <1>8 DEF AuthInv

LEMMA NextAuthInv == ASSUME AuthInv, [AuthStep]_authVars PROVE AuthInv'
<1>1. CASE UNCHANGED authVars
  <2> USE <1>1 DEF Account, Stands, Wants, authVars
  <2>1. /\ mode' \in {"required", "optional", "bypass"} /\ users' \in [Emails -> Passwords \cup {NoAccount}]
        /\ VisitsTyped' /\ KeysInv' /\ LoginsInv' /\ RefusedInv'
    BY DEF RefusedInv, LoginsInv, KeysInv, VisitsTyped, AuthInv
  <2>2. ASSUME NEW v \in Visits PROVE VisitInv(v)'
    <3>1. VisitInv(v)
      BY DEF AuthInv
    <3> QED BY <3>1 DEF Has, CookieGood, KeyGood, FoundInv, EntryInv, WhoInv, BegunInv, VisitInv, Identified
  <2>3. ASSUME NEW v \in Visits PROVE Earned(v)'
    <3>1. Earned(v)
      BY DEF AuthInv
    <3> QED BY <3>1 DEF ByCredential, Identified, TurnedAwayRightly, KnowsPassword, OwnsCredential, Earned
  <2> QED BY <2>1, <2>2, <2>3 DEF AuthInv
<1>2. ASSUME NEW v \in Visits, VisitStep(v) PROVE AuthInv'
  BY <1>2, BeginAuthInv, CountEmailAuthInv, InsertUserAuthInv, LookupAuthInv, OpenSessionAuthInv, LogoutAuthInv, TakeKeyAuthInv, TakeCookieAuthInv, ForgetSessionAuthInv, TakeUserAuthInv, CreateKeyAuthInv, RevokeKeyAuthInv, ServeOtherAuthInv, DieAuthInv
     DEF VisitStep
<1>3. ASSUME NEW l \in Visits \cup FirstLogins, Expire(l) PROVE AuthInv'
  BY <1>3, ExpireAuthInv
<1> QED BY <1>1, <1>2, <1>3 DEF AuthStep

\* What the invariant says is enough for the types.
LEMMA AuthInvTypes == AuthInv => AuthTypeOK
BY AuthAssumption DEF People, Credentials, LoginsInv, KeysInv, AuthTypeOK, AuthInv

(***************************************************************************)
(* The theorems.                                                           *)
(***************************************************************************)
\* The three tables keep their types whatever the visits do in between each other's
\* statements: every login session is of an account that is there, every key of
\* somebody (CreateUser, CreateAuthSession, IssueAPIKey, RevokeAPIKey, Logout).
THEOREM AuthTypesCorrect == AuthSpec => []AuthTypeOK
<1> QED BY InitAuthInv, NextAuthInv, AuthInvTypes, PTL DEF AuthSpec

\* Identity is earned, for any number of concurrent visits: who is identified
\* carried a credential that was good when the visit began and is its owner; two
\* signups for one address never share the account; a good key or cookie is passed
\* over only when a statement of its lookup fails (RequireAuth, ResolveSession,
\* ResolveAPIKey, Login, CreateUser).
THEOREM IdentityIsEarned == AuthSpec => []IdentityEarned
<1>1. AuthInv => IdentityEarned
  BY DEF IdentityEarned, Earned, AuthInv
<1> QED BY <1>1, InitAuthInv, NextAuthInv, PTL DEF AuthSpec

(***************************************************************************)
(* Both parts.                                                             *)
(***************************************************************************)
\* The tables of vaults, credentials, accounts, login sessions and keys and the files
\* of je-vault keep their types and constraints, whatever runs next to each other.
THEOREM AccessTypesCorrect == DoorSpec => []AccessTypeOK
<1>1. [DoorStep]_<<vaultVars, proxyVars, authVars>> => [AccessStep /\ Watch]_<<vaultVars, proxyVars>> /\ [AuthStep]_authVars
  BY DEF DoorStep
<1>2. DoorStart => AccessStart /\ AuthStart
  BY DEF DoorStart
<1>3. (VaultTypeOK /\ ProxyTypeOK) /\ AuthTypeOK => AccessTypeOK
  BY DEF AccessTypeOK
<1> QED BY <1>1, <1>2, <1>3, VaultTypesCorrect, AuthTypesCorrect, PTL DEF DoorSpec, AccessSpec, AuthSpec
=============================================================================
