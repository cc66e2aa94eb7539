------------------------------ MODULE MountNames ------------------------------
(***************************************************************************)
(* The names in one directory of a mount (RemoteFs and InodeMap in         *)
(* crates/bridge/src/fuse_fs.rs).  An operation on a name changes the      *)
(* cache and then the target, and ignores what the target answers; a       *)
(* lookup asks the target and falls back to the cache on any error.  So    *)
(* the cache must not keep names the target does not have.                 *)
(*                                                                         *)
(* Only the mount changes the directory.  The kernel holds its lock during *)
(* a lookup and an operation on a name, so that one is under way at a      *)
(* time; reads and writes of open files and downloads into the cache go on *)
(* meanwhile.  An inode number is one path's for ever (ino_for), so that   *)
(* path stands for it here.                                                *)
(***************************************************************************)
EXTENDS Naturals, FiniteSets

CONSTANTS
  Names,
  MaxTasks,       \* bound: operations on names in a behaviour
  MaxStores,      \* bound: downloads into the cache in a behaviour
  MaxNameFaults   \* bound: failing requests and drains in a behaviour

ASSUME NamesAssumption == MaxTasks \in Nat /\ MaxStores \in Nat /\ MaxNameFaults \in Nat

VARIABLES
  target,       \* name -> the entry at the target
  cached,       \* name -> the entry in the cache
  known,        \* name -> what the kernel knows it by, its inode (path) and kind, or Unknown
  open,         \* inode of the file that is open, or None
  fetched,      \* name and entry of the download under way, or NoFetch
  task,         \* the operation under way
  delayed,      \* requests given up on that may still reach the target
  read_only,
  doubtful,     \* history: names whose entries may differ
  begun, stores, nameFaults   \* see the bounds

nameVars == <<target, cached, known, open, fetched, task, delayed, read_only, doubtful,
              begun, stores, nameFaults>>

\* An entry: none, a directory, a file made here, or the file that a name
\* had at the start.  A symbolic link is a file.
None == "none"
Dir == "dir"
New == "new"
Files == Names \cup {New}
Entries == Files \cup {None, Dir}
Unknown == [ino |-> None, dir |-> FALSE]
NoTask == [step |-> "idle"]
NoFetch == [name |-> None, entry |-> None]

Creating == {"create", "mkdir"}
Removing == {"unlink", "rmdir"}
NameRequests == {r \in [kind : Creating \cup Removing \cup {"rename"}, name : Names, to : Names] :
                   r.kind = "rename" <=> r.name # r.to}
NamesOf(r) == {r.name, r.to}

Busy(n) == task # NoTask /\ n \in NamesOf(task.r)

NamesInit ==
  /\ target \in {t \in [Names -> Entries] : \A n \in Names : t[n] \in {n, None, Dir}}
  /\ cached \in {c \in [Names -> Entries] : \A n \in Names : c[n] \in {n, None}}
  /\ known = [n \in Names |-> Unknown]
  /\ open = None
  /\ fetched = NoFetch
  /\ task = NoTask
  /\ delayed = {}
  /\ read_only \in BOOLEAN
  /\ doubtful = {n \in Names : cached[n] \notin {None, target[n]}}
  /\ begun = 0 /\ stores = 0 /\ nameFaults = 0

NameFault == nameFaults < MaxNameFaults /\ nameFaults' = nameFaults + 1

SameKind(x, y) == (x \in Files) = (y \in Files)

\* Whether the system call of r succeeds in a directory d, and what d becomes.
\* (That create_dir_all, unlike mkdir, may find its directory makes no odds.)
Possible(d, r) ==
  CASE r.kind = "create" -> d[r.name] # Dir
    [] r.kind = "mkdir" -> d[r.name] = None
    [] r.kind = "unlink" -> d[r.name] \in Files
    [] r.kind = "rmdir" -> d[r.name] = Dir
    [] r.kind = "rename" -> d[r.name] # None /\ (d[r.to] = None \/ SameKind(d[r.name], d[r.to]))

Result(d, r) ==
  CASE r.kind = "create" -> [d EXCEPT ![r.name] = New]
    [] r.kind = "mkdir" -> [d EXCEPT ![r.name] = Dir]
    [] r.kind \in Removing -> [d EXCEPT ![r.name] = None]
    [] r.kind = "rename" -> [d EXCEPT ![r.to] = d[r.name], ![r.name] = None]

After(d, r) == IF Possible(d, r) THEN Result(d, r) ELSE d

\* The agent's remove takes files and directories.
AtTarget(r) == IF r.kind \in Removing /\ target[r.name] # None
               THEN [r EXCEPT !.kind = IF target[r.name] = Dir THEN "rmdir" ELSE "unlink"]
               ELSE r

-----------------------------------------------------------------------------
\* A directory D the target reports is made in the cache as well.
WithDirs(D) == [n \in Names |-> IF n \in D /\ target[n] = Dir /\ cached[n] = None THEN Dir ELSE cached[n]]

\* attr_for, of a name the target has, or of one in the cache when the target
\* answers with an error or not at all.
attr_for(n) ==
  \/ /\ target[n] # None
     /\ cached' = WithDirs({n})
     /\ known' = [known EXCEPT ![n] = [ino |-> n, dir |-> target[n] = Dir]]
  \/ /\ cached[n] # None
     /\ known' = [known EXCEPT ![n] = [ino |-> n, dir |-> cached[n] = Dir]]
     /\ UNCHANGED cached

lookup(n) ==
  /\ task = NoTask
  /\ attr_for(n)
  /\ UNCHANGED <<target, open, fetched, task, delayed, read_only, doubtful, begun, stores, nameFaults>>

\* LIST_DIR is answered.
readdir ==
  /\ task = NoTask
  /\ cached' = WithDirs(Names)
  /\ UNCHANGED <<target, known, open, fetched, task, delayed, read_only, doubtful, begun, stores, nameFaults>>

\* The kernel trusts an entry no longer (TTL).
Expire(n) ==
  /\ known[n] # Unknown /\ ~Busy(n)
  /\ known' = [known EXCEPT ![n] = Unknown]
  /\ UNCHANGED <<target, cached, open, fetched, task, delayed, read_only, doubtful, begun, stores, nameFaults>>

\* A file is opened, read or written by its inode, closed.
Open(n) ==
  /\ known[n] # Unknown /\ ~known[n].dir /\ ~Busy(n)
  /\ open' = known[n].ino
  /\ UNCHANGED <<target, cached, known, fetched, task, delayed, read_only, doubtful, begun, stores, nameFaults>>

Close ==
  /\ open # None
  /\ open' = None
  /\ UNCHANGED <<target, cached, known, fetched, task, delayed, read_only, doubtful, begun, stores, nameFaults>>

\* What is stored in the cache for n while an operation on n is under way, or
\* when the target has something else, may be there for ever.
Strays(n, fits) == doubtful' = IF Busy(n) \/ ~fits THEN doubtful \cup {n} ELSE doubtful

\* write makes the cache file; the request it queues makes no file.
Write ==
  /\ open # None /\ ~read_only
  /\ cached[open] = None
  /\ cached' = [cached EXCEPT ![open] = IF target[open] \in Files THEN target[open] ELSE New]
  /\ Strays(open, target[open] \in Files)
  /\ UNCHANGED <<target, known, open, fetched, task, delayed, read_only, begun, stores, nameFaults>>

\* A read miss or the mirror gets an entry and stores it later.
Fetch(n) ==
  /\ fetched = NoFetch /\ stores < MaxStores
  /\ target[n] # None
  /\ fetched' = [name |-> n, entry |-> target[n]]
  /\ UNCHANGED <<target, cached, known, open, task, delayed, read_only, doubtful, begun, stores, nameFaults>>

Store ==
  /\ fetched # NoFetch
  /\ fetched' = NoFetch
  /\ stores' = stores + 1
  /\ LET n == fetched.name
         entry == fetched.entry
     IN  IF cached[n] = None \/ (entry \in Files /\ cached[n] \in Files)
         THEN /\ cached' = [cached EXCEPT ![n] = entry]
              /\ Strays(n, target[n] = entry)
         ELSE UNCHANGED <<cached, doubtful>>
  /\ UNCHANGED <<target, known, open, task, delayed, read_only, begun, nameFaults>>

-----------------------------------------------------------------------------
\* What the kernel lets a program do, having looked the names up: where an
\* entry is to be made, neither the target nor the cache has one.
Free(n) == known[n] = Unknown /\ target[n] = None /\ cached[n] = None

Permitted(r) ==
  CASE r.kind \in Creating -> Free(r.name)
    [] r.kind = "unlink" -> known[r.name] # Unknown /\ ~known[r.name].dir
    [] r.kind = "rmdir" -> known[r.name] # Unknown /\ known[r.name].dir
    [] r.kind = "rename" ->
         /\ known[r.name] # Unknown
         /\ Free(r.to) \/ (known[r.to] # Unknown /\ known[r.to].dir = known[r.name].dir)

\* Names that a change of the cache does not bring to what they should be,
\* because it is impossible there or moves what is doubtful.
Missed(r) ==
  {n \in NamesOf(r) : After(cached, r)[n] # Result(cached, r)[n]}
    \cup (IF r.kind = "rename" /\ r.name \in doubtful THEN {r.to} ELSE {})

\* Mutant: a renamed entry stays under its old name as well.
ChangeCache_copies(r) ==
  /\ cached' = IF r.kind = "rename" THEN [After(cached, r) EXCEPT ![r.name] = cached[r.name]]
              ELSE After(cached, r)
  /\ doubtful' = (doubtful \ NamesOf(r)) \cup Missed(r)

ChangeCache(r) ==
  /\ cached' = After(cached, r)
  /\ doubtful' = (doubtful \ NamesOf(r)) \cup Missed(r)

\* create, mknod, symlink and mkdir begin with the cache; the others wait for
\* queued bytes first.
Begin(r) ==
  /\ task = NoTask /\ ~read_only
  /\ begun < MaxTasks /\ begun' = begun + 1
  /\ Permitted(r)
  /\ IF r.kind \in Creating
     THEN ChangeCache(r) /\ task' = [r |-> r, step |-> "request"]
     ELSE task' = [r |-> r, step |-> "drain"] /\ UNCHANGED <<cached, doubtful>>
  /\ UNCHANGED <<target, known, open, fetched, delayed, read_only, stores, nameFaults>>

Drained ==
  /\ task.step = "drain"
  /\ ChangeCache(task.r)
  /\ task' = [task EXCEPT !.step = "request"]
  /\ UNCHANGED <<target, known, open, fetched, delayed, read_only, begun, stores, nameFaults>>

\* The queued bytes do not leave in time: EIO.
DrainFails ==
  /\ \/ task.step = "drain" /\ UNCHANGED doubtful
     \/ task.step = "request" /\ task.r.kind = "create" /\ doubtful' = doubtful \cup {task.r.name}
  /\ NameFault
  /\ task' = NoTask
  /\ UNCHANGED <<target, cached, known, open, fetched, delayed, read_only, begun, stores>>

\* After its request an operation that makes an entry reports it; the others
\* have succeeded, and the kernel changes its names.
Reply ==
  LET r == task.r
  IN  IF r.kind \in Creating THEN task' = [task EXCEPT !.step = "report"] /\ UNCHANGED known
      ELSE /\ task' = NoTask
           /\ known' = IF r.kind = "rename"
                       THEN [known EXCEPT ![r.to] = known[r.name], ![r.name] = Unknown]
                       ELSE [known EXCEPT ![r.name] = Unknown]

\* The entry that was to be made may be in the cache alone.
Unsure == doubtful' = IF task.r.kind \in Removing THEN doubtful ELSE doubtful \cup {task.r.to}

Succeeds ==
  /\ task.step = "request"
  /\ Possible(target, AtTarget(task.r))
  /\ target' = Result(target, task.r)
  /\ Reply
  /\ UNCHANGED <<cached, open, fetched, delayed, read_only, doubtful, begun, stores, nameFaults>>

\* The agent refuses it, because it is impossible or (permissions, a full
\* disk) for another reason.
IsRefused ==
  /\ task.step = "request"
  /\ IF Possible(target, AtTarget(task.r)) THEN NameFault ELSE UNCHANGED nameFaults
  /\ Unsure
  /\ Reply
  /\ UNCHANGED <<target, cached, open, fetched, delayed, read_only, begun, stores>>

\* No answer comes: the request is lost, or its answer, or it is on its way.
IsGivenUp ==
  /\ task.step = "request"
  /\ NameFault
  /\ \/ target' \in {target, After(target, AtTarget(task.r))} /\ UNCHANGED delayed
     \/ delayed' = delayed \cup {task.r} /\ UNCHANGED target
  /\ Unsure
  /\ Reply
  /\ UNCHANGED <<cached, open, fetched, read_only, begun, stores>>

Lands(r) ==
  /\ r \in delayed
  /\ delayed' = delayed \ {r}
  /\ target' = After(target, AtTarget(r))
  /\ doubtful' = doubtful \cup NamesOf(r) \cup
       (IF \E n \in NamesOf(r) : Busy(n) THEN NamesOf(task.r) ELSE {})
  /\ UNCHANGED <<cached, known, open, fetched, task, read_only, begun, stores, nameFaults>>

Report ==
  /\ task.step = "report"
  /\ task' = NoTask
  /\ \/ attr_for(task.r.name)
     \/ cached[task.r.name] = None /\ UNCHANGED <<cached, known>>
  /\ UNCHANGED <<target, open, fetched, delayed, read_only, doubtful, begun, stores, nameFaults>>

NamesNext ==
  \/ \E n \in Names : lookup(n) \/ Expire(n) \/ Open(n) \/ Fetch(n)
  \/ readdir \/ Close \/ Write \/ Store
  \/ \E r \in NameRequests : Begin(r)
  \/ Drained \/ DrainFails \/ Succeeds \/ IsRefused \/ IsGivenUp \/ Report
  \/ \E r \in delayed : Lands(r)

NamesSpec == NamesInit /\ [][NamesNext]_nameVars

-----------------------------------------------------------------------------
NamesTypeOK ==
  /\ target \in [Names -> Entries] /\ cached \in [Names -> Entries]
  /\ fetched = NoFetch \/ fetched \in [name : Names, entry : Entries]
  /\ known \in [Names -> {Unknown} \cup [ino : Names, dir : BOOLEAN]]
  /\ open \in Names \cup {None} /\ doubtful \subseteq Names
  /\ task = NoTask \/ task \in [r : NameRequests, step : {"drain", "request", "report"}]
  /\ delayed \subseteq NameRequests
  /\ read_only \in BOOLEAN
  /\ begun \in 0 .. MaxTasks /\ stores \in 0 .. MaxStores /\ nameFaults \in 0 .. MaxNameFaults

\* While no operation on a name is under way, the cache has for it what the
\* target has, or nothing, and the kernel knows it as something the target
\* has.  So lookups, with their fallback to the cache (attr_for), report no
\* name that is gone, and a rename brings no old content with it.  The
\* exceptions are the ways in which the code lets the two drift (doubtful):
\* what an earlier mount left in the cache, a request for the name that failed
\* or came late, a store in the cache that an operation on the name had
\* overtaken, a write by an inode whose name is no longer there, and a rename
\* that finds only the other name in the cache.  Removing the name mends it.
NamesTrue ==
  \A n \in Names : ~Busy(n) /\ n \notin doubtful =>
    /\ cached[n] \in {None, target[n]}
    /\ known[n] # Unknown => target[n] # None /\ (target[n] = Dir) = known[n].dir

=============================================================================
