---------------------------- MODULE SessionMount ----------------------------
(***************************************************************************)
(* What a turn finds in its sandbox: AgentVersions (sessions with their    *)
(* resources and skills) composed with MemoryStore, the tables file and    *)
(* skill, and the steps of RunThread that copy all of it into the workdir  *)
(* of the session and tell the model so in the system prompt               *)
(* (internal/harness/skills.go and resources.go, MountToSandbox of         *)
(* internal/memory/service.go, internal/sandbox/subprocess.go).            *)
(*                                                                         *)
(* A path is the sequence of its segments; a place in the workdir is       *)
(* called by its virtual path.  A place outside the virtual roots is on    *)
(* the host, which is not modelled.  File resources have clean paths, no   *)
(* store or skill is called "." or "..", a file is written whole or not at *)
(* all, and the tools of a turn remove nothing.  Any statement and any     *)
(* script of a mount may fail.  The turns of a session run one at a time,  *)
(* everything else next to them.                                           *)
(***************************************************************************)
EXTENDS AgentVersions, MemoryStore, SequencesExt

CONSTANTS
  Files,         \* the ids of files
  Skills,        \* the ids of skills
  PlainChars,    \* the characters that sanitizeName keeps
  VirtualRoots,  \* the directories that lead into the workdir
  AgentFiles,    \* files that the tools of a turn may leave behind: <<path, content>>
  MountLimit,    \* how many memories of a store are mounted
  MaxTurns       \* bound: turns of a session

ASSUME MountAssumption == MountLimit \in Nat /\ MaxTurns \in Nat

VARIABLES
  files,         \* the table file
  skills,        \* the table skill
  workdir,       \* workdir[s]: the files of the sandbox of session s, by path
  turn           \* turn[s]: the goroutine that prepares a turn of s

mountVars == <<files, skills, workdir, turn>>

NoSpec == [store |-> Keep, dir |-> << >>]

\* left: the skills or resources to come; next: the file of a skill that is written
\* next; specs: the stores to come; spec, seen, read, ids, rows: the store in work, its
\* memories when they were listed, the rows read, the ids to read, the rows to write;
\* skillsShown, shown: what the prompt tells; lost: what it would tell, had the mount
\* not failed.
NoTurn == [pc |-> "off", left |-> << >>, next |-> 1, specs |-> << >>,
           spec |-> NoSpec, seen |-> << >>, read |-> {}, ids |-> {}, rows |-> {},
           skillsShown |-> {}, shown |-> {}, lost |-> {}, count |-> 0]

\* The files and skills that are there, and the turns that a session may still have.
MountInit(fileRows, skillRows, turns) ==
  /\ files = [f \in Files |-> IF f \in DOMAIN fileRows THEN [there |-> "live", blob |-> fileRows[f]]
                              ELSE [there |-> "never", blob |-> Keep]]
  /\ skills = [k \in Skills |-> IF k \in DOMAIN skillRows
                                THEN [there |-> "live", name |-> skillRows[k].name, files |-> skillRows[k].files]
                                ELSE [there |-> "never", name |-> << >>, files |-> << >>]]
  /\ workdir = [s \in Calls |-> << >>]
  /\ turn = [s \in Calls |-> [NoTurn EXCEPT !.count = MaxTurns - turns]]

(***************************************************************************)
(* The workdir.                                                            *)
(***************************************************************************)
\* sanitizeName
Sanitized(name) ==
  IF name = << >> THEN <<"store">>
  ELSE [i \in DOMAIN name |-> IF name[i] \in PlainChars THEN name[i] ELSE "_"]

\* rewriteVirtualPaths: the roots that lead into the workdir.
InWorkdir(path) == \E root \in VirtualRoots : IsPrefix(root, path)

\* A place of the workdir that is not below a file nor a directory itself.
\* WriteFile, for files and skills, refuses a path outside the workdir; the
\* script that writes a memory does not.
Writable(wd, path) ==
  /\ InWorkdir(path)
  /\ \A q \in DOMAIN wd : ~IsStrictPrefix(q, path) /\ ~IsStrictPrefix(path, q)

Write(wd, path, content) ==
  [q \in DOMAIN wd \cup {path} |-> IF q = path THEN content ELSE wd[q]]

(***************************************************************************)
(* Files, skills and the resources of a session: one request each.         *)
(***************************************************************************)
FileChange(c, op, row) ==
  /\ AtStep(c, op, "new")
  /\ files' = [files EXCEPT ![call[c].ask.file] = row]
  /\ Ends(c, "done")
  /\ UNCHANGED <<dialect, agents, versions, environments, sessions, fresh, skills, workdir, turn>>

CreateFile(c) ==
  /\ Asks(c, "createFile") => files[call[c].ask.file].there = "never"
  /\ FileChange(c, "createFile", [there |-> "live", blob |-> call[c].ask.blob])

\* A file that is not there is deleted all the same.
DeleteFile(c) == FileChange(c, "deleteFile", [files[call[c].ask.file] EXCEPT !.there = "deleted"])

\* safeUploadPath: a path that climbs out of the skill is refused.
SafePaths(list) == \A i \in DOMAIN list : ".." \notin Range(list[i][1])

SkillChange(c, op, ok, row) ==
  /\ AtStep(c, op, "new")
  /\ skills' = IF ok THEN [skills EXCEPT ![call[c].ask.skill] = row] ELSE skills
  /\ Ends(c, IF ok THEN "done" ELSE "refused")
  /\ UNCHANGED <<dialect, agents, versions, environments, sessions, fresh, files, workdir, turn>>

CreateSkill(c) ==
  LET ask == call[c].ask IN
  /\ Asks(c, "createSkill") => skills[ask.skill].there = "never"
  /\ SkillChange(c, "createSkill", ask.name # << >> /\ SafePaths(ask.files),
                 [there |-> "live", name |-> ask.name, files |-> ask.files])

DeleteSkill(c) == SkillChange(c, "deleteSkill", TRUE, [skills[call[c].ask.skill] EXCEPT !.there = "deleted"])

\* The handlers look the session and the resource up before they write; if either
\* goes in between, the statement finds nothing and the answer is an error too.
Attached(s) == {sessions[s].resources[i].id : i \in DOMAIN sessions[s].resources}
HasResource(s, id) == SessionThere(s) /\ id \in Attached(s)

ResourceChange(c, op, ok, resources) ==
  /\ AtStep(c, op, "new")
  /\ sessions' = IF ok THEN [sessions EXCEPT ![call[c].ask.session].resources = resources] ELSE sessions
  /\ Ends(c, IF ok THEN "done" ELSE "refused")
  /\ UNCHANGED <<dialect, agents, versions, environments, fresh, mountVars>>

AddSessionResource(c) ==
  LET ask == call[c].ask IN
  ResourceChange(c, "addResource", SessionThere(ask.session) /\ ask.res.type \in ResourceTypes,
                 Append(sessions[ask.session].resources, NewResource(<<c, 1>>, ask.res)))

UpdateSessionResource(c) ==
  LET ask == call[c].ask
      list == sessions[ask.session].resources
  IN ResourceChange(c, "updateResource", HasResource(ask.session, ask.id) /\ ask.res.type \in ResourceTypes,
                    [i \in DOMAIN list |-> IF list[i].id = ask.id THEN NewResource(ask.id, ask.res) ELSE list[i]])

DeleteSessionResource(c) ==
  LET ask == call[c].ask
      list == sessions[ask.session].resources
  IN ResourceChange(c, "deleteResource", HasResource(ask.session, ask.id),
                 RemoveAt(list, CHOOSE i \in DOMAIN list : list[i].id = ask.id))

\* The second half of deleteSession: the workdir goes, whatever runs in it.
DestroySandbox(c) ==
  /\ AtStep(c, "deleteSession", "destroy")
  /\ workdir' = [workdir EXCEPT ![call[c].ask.session] = << >>]
  /\ Ends(c, "done")
  /\ UNCHANGED <<dialect, agents, versions, environments, sessions, fresh, files, skills, turn>>

(***************************************************************************)
(* A turn.                                                                 *)
(***************************************************************************)
TurnAt(s, pc) == turn[s].pc = pc
Becomes(s, t) == turn' = [turn EXCEPT ![s] = t]
Puts(s, path, content) == workdir' = [workdir EXCEPT ![s] = Write(@, path, content)]
TurnUnchanged == UNCHANGED <<files, skills>> /\ UNCHANGED agentVars /\ UNCHANGED memoryVars

\* RunThread reads the session and provisions its sandbox, which keeps its files
\* from turn to turn.
BeginTurn(s) ==
  /\ TurnAt(s, "off") /\ turn[s].count < MaxTurns /\ SessionThere(s)
  /\ Becomes(s, [NoTurn EXCEPT !.pc = "skills", !.left = sessions[s].snapshot.skills, !.count = turn[s].count + 1])
  /\ UNCHANGED workdir /\ TurnUnchanged

SkillThere(k) == k \in Skills /\ skills[k].there = "live"
FileThere(f) == f \in Files /\ files[f].there = "live"

SkillFiles(k) ==
  [i \in DOMAIN skills[k].files |-> <<<<"home", "user", ".skills", Sanitized(skills[k].name)>> \o skills[k].files[i][1],
                                      skills[k].files[i][2]>>]

\* An error of mountSkills is only logged: the prompt mentions no skill.
SkillsFail(s) == Becomes(s, [turn[s] EXCEPT !.pc = "skills", !.left = << >>, !.skillsShown = {}])

\* mountSkills, for one skill: GetSkill ...
ReadSkill(s) ==
  /\ TurnAt(s, "skills") /\ turn[s].left # << >>
  /\ \/ SkillThere(Head(turn[s].left)) /\ Becomes(s, [turn[s] EXCEPT !.pc = "files", !.next = 1])
     \/ SkillsFail(s)
  /\ UNCHANGED workdir /\ TurnUnchanged

\* ... its files, one after the other ...
WriteSkillFile(s) ==
  LET t == turn[s]
      list == SkillFiles(Head(t.left))
  IN
  /\ TurnAt(s, "files") /\ t.next \in DOMAIN list
  /\ \/ /\ Writable(workdir[s], list[t.next][1])
        /\ Puts(s, list[t.next][1], list[t.next][2]) /\ Becomes(s, [t EXCEPT !.next = @ + 1])
     \/ SkillsFail(s) /\ UNCHANGED workdir
  /\ TurnUnchanged

\* ... and its part of the prompt.
SkillDone(s) ==
  LET t == turn[s] IN
  /\ TurnAt(s, "files") /\ t.next \notin DOMAIN SkillFiles(Head(t.left))
  /\ Becomes(s, [t EXCEPT !.pc = "skills", !.left = Tail(@), !.skillsShown = @ \cup {Head(t.left)}])
  /\ UNCHANGED workdir /\ TurnUnchanged

\* In the order of created_at: rows that share a millisecond come in any order.
Listings(s) == SetToSeqs(Range(sessions[s].resources))

\* The store that is being mounted, as the prompt will tell it.
InWork(t) == [spec |-> t.spec, seen |-> t.seen, read |-> t.read]

\* An error of mountResources is only logged: the prompt mentions nothing.
MountFails(s) ==
  LET t == turn[s] IN
  Becomes(s, [t EXCEPT !.pc = "ready", !.shown = {}, !.lost = t.shown \cup {InWork(t)}])

\* mountResources: ListSessionResources, of a session that may be gone.
ListResources(s) ==
  /\ TurnAt(s, "skills") /\ turn[s].left = << >>
  /\ \/ \E order \in Listings(s) : Becomes(s, [turn[s] EXCEPT !.pc = "resources", !.left = order])
     \/ MountFails(s)
  /\ UNCHANGED workdir /\ TurnUnchanged

\* parseMemoryResource: a store that is gone, or cannot be read, is left out.
ParseStore(s) ==
  LET t == turn[s]
      store == Head(t.left).res.store
  IN
  /\ TurnAt(s, "resources") /\ t.left # << >> /\ Head(t.left).res.type = "memory_store"
  /\ \/ /\ store \in Stores /\ Live(store)
        /\ Becomes(s, [t EXCEPT !.left = Tail(@),
                       !.specs = Append(@, [store |-> store, dir |-> <<"mnt", "memory", Sanitized(stores[store].name)>>])])
     \/ Becomes(s, [t EXCEPT !.left = Tail(@)])
  /\ UNCHANGED workdir /\ TurnUnchanged

\* A file resource without an id or a path is passed over, like a repository.
Mountable(res) == res.type = "file" /\ res.file # "" /\ res.path # << >>

\* mountFileResource, and the resources that are not looked at.
MountFile(s) ==
  LET t == turn[s]
      res == Head(t.left).res
  IN
  /\ TurnAt(s, "resources") /\ t.left # << >> /\ res.type # "memory_store"
  /\ \/ ~Mountable(res) /\ Becomes(s, [t EXCEPT !.left = Tail(@)]) /\ UNCHANGED workdir
     \/ /\ Mountable(res) /\ FileThere(res.file) /\ Writable(workdir[s], res.path)
        /\ Puts(s, res.path, files[res.file].blob)
        /\ Becomes(s, [t EXCEPT !.left = Tail(@), !.shown = @ \cup {[file |-> res.file, path |-> res.path]}])
     \/ Mountable(res) /\ MountFails(s) /\ UNCHANGED workdir
  /\ TurnUnchanged

AsListed(id) == [row |-> memories[id], versions |-> Cardinality(VersionsOf(id))]

\* MountToSandbox for the next store: ListMemories lists the ids, by path and not more
\* than the limit ...
ListIds(s) ==
  LET t == turn[s]
      all == {id \in DOMAIN memories : memories[id].store = Head(t.specs).store}
  IN
  /\ TurnAt(s, "resources") /\ t.left = << >> /\ t.specs # << >>
  /\ \/ \E ids \in SUBSET all :
          /\ ids = all \/ Cardinality(ids) = MountLimit
          /\ Cardinality(ids) <= MountLimit
          /\ Becomes(s, [t EXCEPT !.pc = "reading", !.specs = Tail(@), !.spec = Head(t.specs),
                                  !.seen = [id \in ids |-> AsListed(id)], !.read = {}, !.ids = ids, !.rows = {}])
     \/ MountFails(s)
  /\ UNCHANGED workdir /\ TurnUnchanged

\* ... and reads each row; one that is gone by then is an error.
ReadMemory(s) ==
  LET t == turn[s] IN
  /\ TurnAt(s, "reading")
  /\ \E id \in t.ids :
       \/ /\ Known(id)
          /\ Becomes(s, [t EXCEPT !.ids = @ \ {id}, !.read = @ \cup {memories[id]}, !.rows = @ \cup {memories[id]}])
       \/ MountFails(s)
  /\ UNCHANGED workdir /\ TurnUnchanged

\* filepath.Join: "." and ".." in the path of a memory are resolved.
Place(dir, path) ==
  FoldLeft(LAMBDA place, part : IF part = "." THEN place
                                ELSE IF part = ".." THEN SubSeq(place, 1, Len(place) - 1)
                                ELSE Append(place, part), dir, path)

\* Fault: a write that fails is passed over.
WriteMemoryOrSkip(s) ==
  LET t == turn[s]
      dir == t.spec.dir
  IN
  /\ TurnAt(s, "reading") /\ t.ids = {}
  /\ \E row \in t.rows :
       /\ IF Writable(workdir[s], Place(dir, row.path)) THEN Puts(s, Place(dir, row.path), row.content)
          ELSE UNCHANGED workdir
       /\ Becomes(s, [t EXCEPT !.rows = @ \ {row}])
  /\ TurnUnchanged

\* Each row is written by a script of its own, which bash runs without looking where
\* the place is: outside the virtual roots the file lands on the host.
WriteMemory(s) ==
  LET t == turn[s]
      dir == t.spec.dir
  IN
  /\ TurnAt(s, "reading") /\ t.ids = {}
  /\ \E row \in t.rows :
       LET place == Place(dir, row.path)
           written == Becomes(s, [t EXCEPT !.rows = @ \ {row}])
       IN
       \/ Writable(workdir[s], place) /\ Puts(s, place, row.content) /\ written
       \/ ~InWorkdir(place) /\ written /\ UNCHANGED workdir
       \/ MountFails(s) /\ UNCHANGED workdir
  /\ TurnUnchanged

StoreDone(s) ==
  LET t == turn[s] IN
  /\ TurnAt(s, "reading") /\ t.ids = {} /\ t.rows = {}
  /\ Becomes(s, [t EXCEPT !.pc = "resources", !.shown = @ \cup {InWork(t)}])
  /\ UNCHANGED workdir /\ TurnUnchanged

MountDone(s) ==
  /\ TurnAt(s, "resources") /\ turn[s].left = << >> /\ turn[s].specs = << >>
  /\ Becomes(s, [turn[s] EXCEPT !.pc = "ready"])
  /\ UNCHANGED workdir /\ TurnUnchanged

\* The turn runs, its tools may leave a file behind, and it ends.
EndTurn(s) ==
  /\ TurnAt(s, "ready")
  /\ Becomes(s, [NoTurn EXCEPT !.count = turn[s].count])
  /\ \/ UNCHANGED workdir
     \/ \E file \in AgentFiles : Writable(workdir[s], file[1]) /\ Puts(s, file[1], file[2])
  /\ TurnUnchanged

TurnStep(s) ==
  \/ BeginTurn(s) \/ ReadSkill(s) \/ WriteSkillFile(s) \/ SkillDone(s) \/ ListResources(s)
  \/ ParseStore(s) \/ MountFile(s) \/ ListIds(s) \/ ReadMemory(s) \/ WriteMemory(s) \/ StoreDone(s)
  \/ MountDone(s) \/ EndTurn(s)

MountStep ==
  \/ \E c \in Calls :
       \/ /\ \/ CreateFile(c) \/ DeleteFile(c) \/ CreateSkill(c) \/ DeleteSkill(c)
             \/ AddSessionResource(c) \/ UpdateSessionResource(c) \/ DeleteSessionResource(c)
             \/ DestroySandbox(c)
          /\ UNCHANGED memoryVars
       \/ TurnStep(c)
  \/ (\E c \in Calls : AgentStep(c)) /\ UNCHANGED memoryVars /\ UNCHANGED mountVars
  \/ (\E r \in Requests : MemoryStep(r)) /\ UNCHANGED agentVars /\ UNCHANGED mountVars

(***************************************************************************)
(* Properties.                                                             *)
(***************************************************************************)
\* The types of the tables and of the turns; a workdir is a tree of files.
MountTypeOK ==
  /\ \A f \in Files : files[f].there \in {"never", "live", "deleted"}
  /\ \A k \in Skills : skills[k].there \in {"never", "live", "deleted"} /\ SafePaths(skills[k].files)
  /\ \A s \in Calls :
       /\ \A p \in DOMAIN workdir[s] : InWorkdir(p)
       /\ \A p, q \in DOMAIN workdir[s] : ~IsStrictPrefix(p, q)
       /\ turn[s].pc \in {"off", "skills", "files", "resources", "reading", "ready"}
       /\ turn[s].skillsShown \subseteq Skills
       /\ turn[s].count \in 0 .. MaxTurns

\* What one thing that the prompt mentions has put into the workdir: a skill its files,
\* a file resource the file, a store the memories that were read and have their place
\* there.
SkillFilesOf(k) == Range(SkillFiles(k))
Placed(dir, rows) == {w \in {<<Place(dir, row.path), row.content>> : row \in rows} : InWorkdir(w[1])}
Wrote(item) ==
  IF "file" \in DOMAIN item THEN {<<item.path, files[item.file].blob>>}
  ELSE Placed(item.spec.dir, item.read)

\* What the prompt promises of a store: the memories nothing has happened to since
\* they were listed.
Unchanged(id, then) ==
  /\ Known(id) /\ memories[id] = then.row /\ Cardinality(VersionsOf(id)) = then.versions
  /\ Busy(id) = {} /\ id \notin unrecorded
Promises(item) ==
  IF "file" \in DOMAIN item THEN Wrote(item)
  ELSE Placed(item.spec.dir, {memories[id] : id \in {id \in DOMAIN item.seen : Unchanged(id, item.seen[id])}})

\* Two of the things may share a place; a mount that failed half-way may have left
\* something at the place of a file of a skill.
Written(t) ==
  (UNION {SkillFilesOf(k) : k \in t.skillsShown}) \cup (UNION {Wrote(item) : item \in t.shown \cup t.lost})

\* When the model is asked, what the system prompt tells it about is in the sandbox:
\* each file of a skill, each file, each memory that nobody has touched since and
\* whose place is in the workdir (a path that climbs out of it with ".." is told of
\* all the same, MountToSandbox writes it on the host); its place holds it, or
\* another one of them that shares the place.
MountMatchesPrompt ==
  \A s \in Calls : TurnAt(s, "ready") /\ SessionThere(s) =>
    LET t == turn[s]
        Holds(w) == w[1] \in DOMAIN workdir[s] /\ workdir[s][w[1]] = w[2]
    IN \A w \in (UNION {SkillFilesOf(k) : k \in t.skillsShown}) \cup (UNION {Promises(item) : item \in t.shown}) :
         Holds(w) \/ \E v \in Written(t) : v[1] = w[1] /\ Holds(v)
=============================================================================
