---------------------------- MODULE BridgeProofs ----------------------------
(***************************************************************************)
(* The parts of a bridge process that share no state: its authorization    *)
(* codes, the names of its mounts and its mounts, for every number of      *)
(* codes, names, mount points, calls and faults; and that these and its    *)
(* RPC client and its transfers keep what each promises side by side.      *)
(***************************************************************************)
EXTENDS MCBridge, AgentClientProofs, FileTransferProofs, SequenceTheorems, TLAPS

-----------------------------------------------------------------------------
(* The authorization codes.                                                *)

\* How far the clock can be from the cleanup: a tick is taken when it is due,
\* and one that waits for the lock was taken at most a step ago.
CleanupOnTime ==
  /\ clock <= due /\ due <= clock + Period
  /\ now # Absent => now + Period = due /\ now <= clock /\ clock <= now + 1

\* What the last cleanup has left in the map expires after the tick it was
\* for; while a cleanup waits, that is the tick before.
LeftByCleanup ==
  \A c \in Codes : c \in Waiting =>
    /\ expires_at[c] = born[c] + Lifetime
    /\ IF now = Absent THEN due < expires_at[c] + Period ELSE now < expires_at[c] + Period

\* A code that was used is gone, and one that was not given out is not there.
UsedIsGone ==
  \A c \in Codes :
    /\ tokens[c] <= 1
    /\ tokens[c] = 1 \/ c \notin issued => c \notin Waiting
    /\ c \notin issued => tokens[c] = 0

CodesInv ==
  /\ CodesTypeOK
  /\ late_tokens = {}
  /\ CleanupOnTime /\ LeftByCleanup /\ UsedIsGone

\* A login gives out a code.
LEMMA CodeGivenOut ==
  ASSUME CodesInv, NEW c \in Codes, authorize_submit(c)
  PROVE  CodesInv'
<1> USE CodesAssumption DEF CodesAssumption, Absent
<1>1. CodesTypeOK'
  BY DEF CodesInv, CodesTypeOK, authorize_submit
<1>2. late_tokens' = {} /\ CleanupOnTime'
  BY DEF CodesInv, CleanupOnTime, authorize_submit
<1>3. LeftByCleanup'
  BY DEF CodesInv, CodesTypeOK, CleanupOnTime, LeftByCleanup, Waiting, authorize_submit
<1>4. UsedIsGone'
  BY DEF CodesInv, CodesTypeOK, UsedIsGone, Waiting, authorize_submit
<1> QED
  BY <1>1, <1>2, <1>3, <1>4 DEF CodesInv

\* A code is exchanged: it is gone, and gives a token only if it has not
\* expired.
LEMMA CodeExchanged ==
  ASSUME CodesInv, NEW c \in Codes, token_endpoint(c)
  PROVE  CodesInv'
<1> USE CodesAssumption DEF CodesAssumption, Absent
<1>1. CodesTypeOK /\ c \in issued /\ tokens[c] = 0 /\ expires_at[c] = born[c] + Lifetime
  BY DEF CodesInv, CodesTypeOK, UsedIsGone, LeftByCleanup, token_endpoint
<1>2. /\ expires_at' = [expires_at EXCEPT ![c] = 0]
      /\ tokens' = tokens \/ tokens' = [tokens EXCEPT ![c] = 1]
      /\ UNCHANGED <<clock, issued, late_tokens, born, due, now>>
  BY <1>1 DEF token_endpoint, Taken
<1>3. CodesTypeOK'
  BY <1>1, <1>2 DEF CodesTypeOK
<1>4. late_tokens' = {} /\ CleanupOnTime'
  BY <1>2 DEF CodesInv, CleanupOnTime
<1>5. LeftByCleanup'
  BY <1>1, <1>2 DEF CodesInv, CodesTypeOK, LeftByCleanup, Waiting
<1>6. UsedIsGone'
  BY <1>1, <1>2 DEF CodesInv, CodesTypeOK, UsedIsGone, Waiting
<1> QED
  BY <1>3, <1>4, <1>5, <1>6 DEF CodesInv

\* The cleanup, and the clock.
LEMMA CleanupKeeps ==
  ASSUME CodesInv, CleanupTicks \/ Retains \/ Passes
  PROVE  CodesInv'
<1> USE CodesAssumption DEF CodesAssumption, Absent
<1>1. CodesTypeOK'
  BY DEF CodesInv, CodesTypeOK, CleanupTicks, Retains, Passes
<1>2. late_tokens' = {} /\ CleanupOnTime'
  BY DEF CodesInv, CodesTypeOK, CleanupOnTime, CleanupTicks, Retains, Passes
<1>3. LeftByCleanup'
  <2>1. CASE CleanupTicks
    BY <2>1 DEF CodesInv, CodesTypeOK, CleanupOnTime, LeftByCleanup, Waiting, CleanupTicks
  <2>2. CASE Retains
    BY <2>2 DEF CodesInv, CodesTypeOK, CleanupOnTime, LeftByCleanup, Waiting, Retains
  <2>3. CASE Passes
    BY <2>3 DEF CodesInv, LeftByCleanup, Waiting, Passes
  <2> QED
    BY <2>1, <2>2, <2>3
<1>4. UsedIsGone'
  BY DEF CodesInv, CodesTypeOK, UsedIsGone, Waiting, CleanupTicks, Retains, Passes
<1> QED
  BY <1>1, <1>2, <1>3, <1>4 DEF CodesInv

\* The invariant of the codes.
THEOREM CodesInvariant == CodesSpec => []CodesInv
<1>1. CodesInit => CodesInv
  BY CodesAssumption DEF CodesInit, CodesInv, CodesTypeOK, CleanupOnTime, LeftByCleanup, UsedIsGone, Waiting,
     Absent, CodesAssumption
<1>2. CodesInv /\ [CodesNext]_codeVars => CodesInv'
  <2> SUFFICES ASSUME CodesInv, [CodesNext]_codeVars
               PROVE  CodesInv'
    OBVIOUS
  <2>1. CASE UNCHANGED codeVars
    BY <2>1 DEF codeVars, CodesInv, CodesTypeOK, CleanupOnTime, LeftByCleanup, UsedIsGone, Waiting
  <2>2. CASE CodesNext
    BY <2>2, CodeGivenOut, CodeExchanged, CleanupKeeps DEF CodesNext
  <2> QED
    BY <2>1, <2>2
<1> QED
  BY <1>1, <1>2, PTL DEF CodesSpec

\* A code gives a token at most once and within its lifetime, and one that
\* nobody exchanges leaves the map within a period of its expiry, however
\* logins, exchanges and the cleanup interleave.
THEOREM CodesUsedOnce == CodesSpec => []CodesOnce
<1>1. CodesInv => CodesOnce
  <2> SUFFICES ASSUME CodesInv, NEW c \in Codes
               PROVE  late_tokens = {} /\ tokens[c] <= 1 /\ (tokens[c] = 1 => c \notin Waiting)
                      /\ (c \in Waiting => clock <= expires_at[c] + Period)
    BY DEF CodesOnce, CodesInv
  <2> QED
    BY CodesAssumption DEF CodesAssumption, CodesInv, CodesTypeOK, CleanupOnTime, LeftByCleanup, UsedIsGone
<1> QED
  BY <1>1, CodesInvariant, PTL

-----------------------------------------------------------------------------
(* The names of a mount.                                                   *)

CacheTrue(n) == cached[n] \in {None, target[n]}

KnownTrue(n) == known[n] # Unknown => target[n] # None /\ (target[n] = Dir) = known[n].dir

Made(r) == IF r.kind = "create" THEN New ELSE Dir

\* What holds of the names of request r before its operation has changed the
\* cache, between that and the target's answer, and before the entry it has
\* made is reported: the cache is ahead of the target.
BeforeChange(r) ==
  /\ r.kind \notin Creating
  /\ \A n \in NamesOf(r) : n \notin doubtful => CacheTrue(n) /\ KnownTrue(n)

Ahead(r) ==
  /\ r.kind \in Creating => known[r.name] = Unknown /\ (r.name \notin doubtful => cached[r.name] = Made(r))
  /\ r.kind \notin Creating /\ r.name \notin doubtful => cached[r.name] = None
  /\ r.kind = "rename" /\ r.to \notin doubtful => cached[r.to] \in {None, target[r.name]} /\ KnownTrue(r.name)

BeforeReport(r) ==
  /\ r.kind \in Creating /\ known[r.name] = Unknown
  /\ r.name \notin doubtful => CacheTrue(r.name)

TaskTrue ==
  /\ task.step = "drain" => BeforeChange(task.r)
  /\ task.step = "request" => Ahead(task.r)
  /\ task.step = "report" => BeforeReport(task.r)

\* A download into the cache is counted when it ends.
StoreCounted == fetched # NoFetch => stores < MaxStores

\* The inductive invariant: NamesTrue says nothing of a name while an
\* operation on it is under way, TaskTrue does.
NamesInv ==
  /\ NamesTypeOK /\ StoreCounted
  /\ NamesTrue
  /\ TaskTrue

\* A request on names changes these names and no others.
LEMMA ResultFacts ==
  ASSUME NEW d \in [Names -> Entries], NEW r \in NameRequests
  PROVE  /\ Result(d, r) \in [Names -> Entries] /\ After(d, r) \in [Names -> Entries]
         /\ \A n \in Names \ NamesOf(r) : Result(d, r)[n] = d[n] /\ After(d, r)[n] = d[n]
         /\ NamesOf(r) \subseteq Names
         /\ r.kind \in Creating => r.to = r.name /\ Result(d, r)[r.name] = Made(r)
         /\ r.kind \in Removing => r.to = r.name /\ Result(d, r)[r.name] = None
         /\ r.kind = "rename" => r.to # r.name /\ Result(d, r)[r.name] = None /\ Result(d, r)[r.to] = d[r.name]
         /\ r.kind \in Creating \cup Removing \cup {"rename"}
<1>1. /\ r.kind \in {"create", "mkdir", "unlink", "rmdir", "rename"} /\ r.name \in Names /\ r.to \in Names
      /\ r.kind = "rename" <=> r.name # r.to
  BY DEF NameRequests, Creating, Removing
<1>2. New \in Entries /\ Dir \in Entries /\ None \in Entries /\ d[r.name] \in Entries
  BY <1>1 DEF Entries, Files
<1>3. /\ r.kind = "create" => Result(d, r) = [d EXCEPT ![r.name] = New]
      /\ r.kind = "mkdir" => Result(d, r) = [d EXCEPT ![r.name] = Dir]
      /\ r.kind \in Removing => Result(d, r) = [d EXCEPT ![r.name] = None]
      /\ r.kind = "rename" => Result(d, r) = [d EXCEPT ![r.to] = d[r.name], ![r.name] = None]
  BY <1>1 DEF Result, Removing
<1>4. Result(d, r) \in [Names -> Entries]
  BY <1>1, <1>2, <1>3 DEF Removing
<1>5. \A n \in Names \ NamesOf(r) : Result(d, r)[n] = d[n]
  BY <1>1, <1>3 DEF Removing, NamesOf
<1>6. /\ r.kind \in Creating => Result(d, r)[r.name] = Made(r)
      /\ r.kind \in Removing => Result(d, r)[r.name] = None
      /\ r.kind = "rename" => Result(d, r)[r.name] = None /\ Result(d, r)[r.to] = d[r.name]
  BY <1>1, <1>3 DEF Creating, Removing, Made
<1>7. After(d, r) = Result(d, r) \/ After(d, r) = d
  BY DEF After
<1> QED
  BY <1>1, <1>4, <1>5, <1>6, <1>7 DEF NamesOf, Creating, Removing

\* What the agent makes of a request has the same names.
LEMMA AtTargetFacts ==
  ASSUME NEW r \in NameRequests
  PROVE  AtTarget(r) \in NameRequests /\ NamesOf(AtTarget(r)) = NamesOf(r)
<1>1. /\ r.kind \in {"create", "mkdir", "unlink", "rmdir", "rename"} /\ r.name \in Names /\ r.to \in Names
      /\ r.kind = "rename" <=> r.name # r.to
  BY DEF NameRequests, Creating, Removing
<1>2. CASE r.kind \in Removing
  <2>1. \A k \in Removing : /\ [r EXCEPT !.kind = k] \in NameRequests
                           /\ NamesOf([r EXCEPT !.kind = k]) = NamesOf(r)
    BY <1>1, <1>2 DEF NameRequests, NamesOf, Creating, Removing
  <2> QED
    BY <2>1 DEF AtTarget, Removing
<1>3. CASE r.kind \notin Removing
  BY <1>3 DEF AtTarget
<1> QED
  BY <1>2, <1>3

\* A task under way has a request, and its names are the busy ones.
LEMMA TaskFacts ==
  ASSUME NamesTypeOK, task.step # "idle"
  PROVE  /\ task \in [r : NameRequests, step : {"drain", "request", "report"}]
         /\ task # NoTask /\ task.r \in NameRequests
         /\ \A n : Busy(n) <=> n \in NamesOf(task.r)
BY DEF NamesTypeOK, NoTask, Busy

\* With no operation under way no name is busy.
LEMMA IdleFacts ==
  ASSUME NamesTypeOK
  PROVE  /\ task = NoTask <=> task.step = "idle"
         /\ task.step \in {"idle", "drain", "request", "report"}
         /\ task = NoTask => \A n : ~Busy(n)
BY DEF NamesTypeOK, NoTask, Busy


\* The lookup of a name, which need not be idle: what the kernel then knows is
\* true of the target if the cache was.
LEMMA AttrTrue ==
  ASSUME NamesTypeOK, NEW n \in Names, attr_for(n), target' = target
  PROVE  /\ cached' \in [Names -> Entries] /\ known' \in [Names -> {Unknown} \cup [ino : Names, dir : BOOLEAN]]
         /\ \A m \in Names : CacheTrue(m) => CacheTrue(m)'
         /\ \A m \in Names \ {n} : known'[m] = known[m]
         /\ CacheTrue(n) => KnownTrue(n)'
         /\ \A m \in Names : cached'[m] = cached[m] \/ cached'[m] = target[m]
<1>1. /\ target \in [Names -> Entries] /\ cached \in [Names -> Entries]
      /\ known \in [Names -> {Unknown} \cup [ino : Names, dir : BOOLEAN]]
  BY DEF NamesTypeOK
<1>2. /\ cached' \in [Names -> Entries]
      /\ \A m \in Names : cached'[m] = cached[m] \/ cached'[m] = target[m]
  BY <1>1 DEF attr_for, WithDirs
<1>3. PICK b \in BOOLEAN : known' = [known EXCEPT ![n] = [ino |-> n, dir |-> b]]
                        /\ \/ target[n] # None /\ b = (target[n] = Dir)
                           \/ cached[n] # None /\ b = (cached[n] = Dir)
  BY DEF attr_for
<1>4. known' \in [Names -> {Unknown} \cup [ino : Names, dir : BOOLEAN]] /\ known'[n].dir = b
  BY <1>1, <1>3
<1>5. CacheTrue(n) => KnownTrue(n)'
  BY <1>3, <1>4 DEF CacheTrue, KnownTrue
<1>6. \A m \in Names : CacheTrue(m) => CacheTrue(m)'
  BY <1>2 DEF CacheTrue
<1> QED
  BY <1>1, <1>2, <1>3, <1>4, <1>5, <1>6

\* Names are looked up while no operation is under way.
LEMMA LookupKeeps ==
  ASSUME NamesInv, NEW n \in Names, lookup(n)
  PROVE  NamesInv'
<1>1. NamesTypeOK /\ NamesTrue /\ task = NoTask /\ task.step = "idle" /\ \A m : ~Busy(m)
  BY IdleFacts DEF NamesInv, lookup
<1>2. /\ attr_for(n)
      /\ UNCHANGED <<target, open, fetched, task, delayed, read_only, doubtful, begun, stores, nameFaults>>
  BY DEF lookup
<1>3. NamesTypeOK' /\ StoreCounted'
  BY <1>1, <1>2, AttrTrue DEF NamesTypeOK, NamesInv, StoreCounted
<1>4. \A m \in Names : m \notin doubtful => CacheTrue(m) /\ KnownTrue(m)
  BY <1>1 DEF NamesTrue, CacheTrue, KnownTrue
<1>5. \A m \in Names : m \notin doubtful => CacheTrue(m)' /\ KnownTrue(m)'
  BY <1>1, <1>2, <1>4, AttrTrue DEF KnownTrue
<1>6. NamesTrue'
  BY <1>2, <1>5 DEF NamesTrue, CacheTrue, KnownTrue
<1>7. TaskTrue'
  BY <1>1, <1>2 DEF TaskTrue
<1> QED
  BY <1>3, <1>6, <1>7 DEF NamesInv

\* readdir, which adds the target's directories to the cache.
LEMMA ReaddirKeeps ==
  ASSUME NamesInv, readdir
  PROVE  NamesInv'
<1>1. /\ NamesTypeOK /\ NamesTrue /\ task = NoTask /\ task.step = "idle"
      /\ cached' = WithDirs(Names)
      /\ UNCHANGED <<target, known, open, fetched, task, delayed, read_only, doubtful, begun, stores, nameFaults>>
  BY IdleFacts DEF NamesInv, readdir
<1>2. /\ cached' \in [Names -> Entries]
      /\ \A m \in Names : cached'[m] = cached[m] \/ cached'[m] = target[m]
  BY <1>1 DEF WithDirs, NamesTypeOK
<1>3. NamesTypeOK' /\ StoreCounted' /\ NamesTrue' /\ TaskTrue'
  BY <1>1, <1>2 DEF NamesInv, NamesTypeOK, StoreCounted, NamesTrue, TaskTrue, Busy
<1> QED
  BY <1>3 DEF NamesInv

\* The kernel forgets a name, and files are opened and closed.
LEMMA KernelKeeps ==
  ASSUME NamesInv, NEW n \in Names, Expire(n) \/ Open(n) \/ Close \/ Fetch(n)
  PROVE  NamesInv'
<1>1. /\ NamesTypeOK /\ NamesTrue /\ TaskTrue
      /\ UNCHANGED <<target, cached, task, delayed, read_only, doubtful, begun, stores, nameFaults>>
      /\ known' = known \/ (known' = [known EXCEPT ![n] = Unknown] /\ ~Busy(n))
  BY DEF NamesInv, Expire, Open, Close, Fetch
<1>2. NamesTypeOK'
  <2>1. known' \in [Names -> {Unknown} \cup [ino : Names, dir : BOOLEAN]]
    BY <1>1 DEF NamesTypeOK
  <2>2. open' \in Names \cup {None}
    BY <1>1 DEF NamesTypeOK, Expire, Open, Close, Fetch
  <2>3. fetched' = NoFetch \/ fetched' \in [name : Names, entry : Entries]
    BY <1>1 DEF NamesTypeOK, Expire, Open, Close, Fetch
  <2> QED
    BY <1>1, <2>1, <2>2, <2>3 DEF NamesTypeOK
<1>3. \A m \in Names : known'[m] = known[m] \/ known'[m] = Unknown
  BY <1>1 DEF NamesTypeOK
<1>4. NamesTrue'
  BY <1>1, <1>3 DEF NamesTrue, Busy
<1>5. TaskTrue'
  <2> SUFFICES ASSUME task.step # "idle"
               PROVE  TaskTrue'
    BY <1>1, IdleFacts DEF TaskTrue
  <2>1. task.r \in NameRequests /\ \A m \in NamesOf(task.r) : Busy(m) /\ m \in Names /\ known'[m] = known[m]
    BY <1>1, TaskFacts, ResultFacts DEF NamesTypeOK
  <2>2. task.r.name \in NamesOf(task.r) /\ task.r.to \in NamesOf(task.r)
    BY DEF NamesOf
  <2> QED
    BY <1>1, <2>1, <2>2 DEF TaskTrue, BeforeChange, Ahead, BeforeReport, CacheTrue, KnownTrue
<1>6. StoreCounted'
  BY DEF NamesInv, StoreCounted, Expire, Open, Close, Fetch
<1> QED
  BY <1>2, <1>4, <1>5, <1>6 DEF NamesInv

\* Something is stored in the cache for n: it is what the target has and n is
\* at rest, or n is doubtful from now on.
LEMMA StrayKeeps ==
  ASSUME NamesInv, NamesTypeOK', StoreCounted', NEW n \in Names, NEW entry,
         cached' = [cached EXCEPT ![n] = entry], Strays(n, target[n] = entry),
         UNCHANGED <<target, known, task>>
  PROVE  NamesInv'
<1>1. NamesTypeOK /\ NamesTrue /\ TaskTrue /\ cached \in [Names -> Entries]
  BY DEF NamesInv, NamesTypeOK
<1>2. /\ doubtful \subseteq doubtful'
      /\ n \notin doubtful' => ~Busy(n) /\ target[n] = entry
      /\ cached'[n] = entry /\ \A m \in Names \ {n} : cached'[m] = cached[m]
  BY <1>1 DEF Strays
<1>3. NamesTrue'
  BY <1>1, <1>2 DEF NamesTrue, Busy
<1>4. TaskTrue'
  <2> SUFFICES ASSUME task.step # "idle"
               PROVE  TaskTrue'
    BY <1>1, IdleFacts DEF TaskTrue
  <2>1. /\ task.r \in NameRequests /\ task.r.name \in NamesOf(task.r) /\ task.r.to \in NamesOf(task.r)
        /\ \A m \in NamesOf(task.r) :
             m \in Names /\ (m \notin doubtful' => m \notin doubtful /\ cached'[m] = cached[m])
    BY <1>1, <1>2, TaskFacts, ResultFacts DEF NamesTypeOK, NamesOf
  <2> QED
    BY <1>1, <2>1 DEF TaskTrue, BeforeChange, Ahead, BeforeReport, CacheTrue, KnownTrue
<1> QED
  BY <1>3, <1>4 DEF NamesInv

\* Writes and downloads store in the cache.
LEMMA StoresKeep ==
  ASSUME NamesInv, Write \/ Store
  PROVE  NamesInv'
<1>1. NamesTypeOK /\ NamesTrue /\ TaskTrue
  BY DEF NamesInv
<1>2. CASE Write
  <2> DEFINE entry == IF target[open] \in Files THEN target[open] ELSE New
  <2>1. /\ open \in Names /\ cached' = [cached EXCEPT ![open] = entry]
        /\ Strays(open, target[open] \in Files)
        /\ UNCHANGED <<target, known, open, fetched, task, delayed, read_only, begun, stores, nameFaults>>
    BY <1>1, <1>2 DEF Write, NamesTypeOK
  <2>2. entry \in Entries /\ ((target[open] \in Files) <=> target[open] = entry)
    BY DEF Entries, Files
  <2> HIDE DEF entry
  <2>3. Strays(open, target[open] = entry)
    BY <2>1, <2>2 DEF Strays
  <2>4. NamesTypeOK' /\ StoreCounted'
    BY <1>1, <2>1, <2>2 DEF NamesTypeOK, Strays, NamesInv, StoreCounted
  <2> QED
    BY <2>1, <2>3, <2>4, StrayKeeps
<1>3. CASE Store
  <2>1. /\ fetched \in [name : Names, entry : Entries] /\ fetched' = NoFetch /\ stores' = stores + 1
        /\ UNCHANGED <<target, known, open, task, delayed, read_only, begun, nameFaults>>
    BY <1>1, <1>3 DEF Store, NamesTypeOK
  <2>2. fetched # NoFetch /\ stores' \in 0 .. MaxStores /\ StoreCounted'
    BY <1>1, <1>3, <2>1, NamesAssumption DEF Store, NamesInv, NamesTypeOK, StoreCounted, NamesAssumption
  <2>3. PICK n \in Names, entry \in Entries : n = fetched.name /\ entry = fetched.entry
    BY <2>1
  <2>4. \/ UNCHANGED <<cached, doubtful>>
        \/ cached' = [cached EXCEPT ![n] = entry] /\ Strays(n, target[n] = entry)
    BY <1>3, <2>3 DEF Store
  <2>5. CASE UNCHANGED <<cached, doubtful>>
    <3> QED
      BY <1>1, <2>2, <2>1, <2>5 DEF NamesInv, NamesTypeOK, NamesTrue, TaskTrue, Busy, BeforeChange, Ahead,
         BeforeReport, CacheTrue, KnownTrue
  <2>6. CASE cached' = [cached EXCEPT ![n] = entry] /\ Strays(n, target[n] = entry)
    <3>1. NamesTypeOK'
      BY <1>1, <2>2, <2>1, <2>3, <2>6 DEF NamesTypeOK, Strays
    <3> QED
      BY <2>2, <2>1, <2>6, <3>1, StrayKeeps
  <2> QED
    BY <2>4, <2>5, <2>6
<1> QED
  BY <1>2, <1>3

\* An operation changes the cache.
LEMMA CacheChanged ==
  ASSUME NamesTypeOK, NEW r \in NameRequests, ChangeCache(r), UNCHANGED <<target, known>>,
         BeforeChange(r) \/ (r.kind \in Creating /\ known[r.name] = Unknown)
  PROVE  /\ cached' \in [Names -> Entries] /\ doubtful' \subseteq Names
         /\ \A n \in Names \ NamesOf(r) : cached'[n] = cached[n] /\ (n \in doubtful' <=> n \in doubtful)
         /\ Ahead(r)'
<1>1. cached \in [Names -> Entries] /\ doubtful \subseteq Names
  BY DEF NamesTypeOK
<1>2. cached' = After(cached, r) /\ doubtful' = (doubtful \ NamesOf(r)) \cup Missed(r)
  BY DEF ChangeCache
<1>3. Missed(r) \subseteq NamesOf(r) /\ NamesOf(r) \subseteq Names /\ r.name \in NamesOf(r) /\ r.to \in NamesOf(r)
  BY ResultFacts, <1>1 DEF Missed, NamesOf
<1>4. \A n \in NamesOf(r) : n \notin doubtful' => cached'[n] = Result(cached, r)[n]
  BY <1>2 DEF Missed
<1>5. r.kind = "rename" /\ r.to \notin doubtful' => r.name \notin doubtful
  BY <1>2 DEF Missed
<1>6. r.kind \in Creating => known[r.name] = Unknown
  BY DEF BeforeChange
<1>7. r.kind = "rename" => r.kind \notin Creating \cup Removing
  BY DEF Creating, Removing
<1>8. r.kind = "rename" /\ r.to \notin doubtful' => cached[r.name] \in {None, target[r.name]} /\ KnownTrue(r.name)
  BY <1>3, <1>5, <1>7 DEF BeforeChange, CacheTrue
<1>9. /\ r.kind \in Creating /\ r.name \notin doubtful' => cached'[r.name] = Made(r)
      /\ r.kind \notin Creating /\ r.name \notin doubtful' => cached'[r.name] = None
      /\ r.kind = "rename" /\ r.to \notin doubtful' => cached'[r.to] = cached[r.name]
  BY <1>1, <1>3, <1>4, ResultFacts
<1>10. Ahead(r)'
  BY <1>6, <1>8, <1>9 DEF Ahead, KnownTrue
<1> QED
  BY <1>1, <1>2, <1>3, <1>10, ResultFacts

\* What a step has to show that leaves all names alone but those of request r.
LEMMA NamesOfRequestMove ==
  ASSUME NamesInv, NEW r \in NameRequests,
         \A n \in Names \ NamesOf(r) :
           /\ ~Busy(n)
           /\ target'[n] = target[n] /\ cached'[n] = cached[n] /\ known'[n] = known[n]
           /\ n \notin doubtful' => n \notin doubtful,
         \A n \in NamesOf(r) : ~Busy(n)' /\ n \notin doubtful' => CacheTrue(n)' /\ KnownTrue(n)'
  PROVE  NamesTrue'
<1>1. \A n \in Names \ NamesOf(r) : n \notin doubtful' => CacheTrue(n)' /\ KnownTrue(n)'
  BY DEF NamesInv, NamesTrue, CacheTrue, KnownTrue
<1>2. \A n \in Names : ~Busy(n)' /\ n \notin doubtful' => CacheTrue(n)' /\ KnownTrue(n)'
  BY <1>1
<1> QED
  BY <1>2 DEF NamesTrue, CacheTrue, KnownTrue

\* An operation begins.
LEMMA BeginKeeps ==
  ASSUME NamesInv, NEW r \in NameRequests, Begin(r)
  PROVE  NamesInv'
<1>1. /\ NamesTypeOK /\ NamesTrue /\ StoreCounted /\ task = NoTask /\ \A n : ~Busy(n)
      /\ Permitted(r) /\ begun' \in 0 .. MaxTasks
      /\ UNCHANGED <<target, known, open, fetched, delayed, read_only, stores, nameFaults>>
  BY IdleFacts, NamesAssumption DEF NamesInv, NamesTypeOK, Begin, NamesAssumption
<1>2. StoreCounted' /\ NamesOf(r) \subseteq Names
  BY <1>1, ResultFacts DEF StoreCounted, NamesTypeOK
<1>3. CASE r.kind \in Creating
  <2>1. ChangeCache(r) /\ task' = [r |-> r, step |-> "request"]
    BY <1>3 DEF Begin
  <2>2. known[r.name] = Unknown
    BY <1>1, <1>3 DEF Permitted, Creating, Free
  <2>3. /\ cached' \in [Names -> Entries] /\ doubtful' \subseteq Names /\ Ahead(r)'
        /\ \A n \in Names \ NamesOf(r) : cached'[n] = cached[n] /\ (n \in doubtful' <=> n \in doubtful)
    BY <1>1, <1>3, <2>1, <2>2, CacheChanged
  <2>4. NamesTypeOK'
    BY <1>1, <2>1, <2>3 DEF NamesTypeOK
  <2>5. task'.step = "request" /\ task'.r = r /\ \A n \in NamesOf(r) : Busy(n)'
    BY <2>1 DEF Busy, NoTask
  <2>6. NamesTrue'
    BY <1>1, <2>3, <2>5, NamesOfRequestMove
  <2>7. TaskTrue'
    BY <2>3, <2>5 DEF TaskTrue, Ahead, KnownTrue
  <2> QED
    BY <1>2, <2>4, <2>6, <2>7 DEF NamesInv
<1>4. CASE r.kind \notin Creating
  <2>1. task' = [r |-> r, step |-> "drain"] /\ UNCHANGED <<cached, doubtful>>
    BY <1>4 DEF Begin
  <2>2. NamesTypeOK'
    BY <1>1, <2>1 DEF NamesTypeOK
  <2>3. task'.step = "drain" /\ task'.r = r /\ \A n \in NamesOf(r) : Busy(n)'
    BY <2>1 DEF Busy, NoTask
  <2>4. NamesTrue'
    BY <1>1, <2>1, <2>3, NamesOfRequestMove
  <2>5. BeforeChange(r)
    BY <1>1, <1>2, <1>4 DEF BeforeChange, NamesTrue, CacheTrue, KnownTrue
  <2>6. TaskTrue'
    BY <1>1, <2>1, <2>3, <2>5 DEF TaskTrue, BeforeChange, CacheTrue, KnownTrue
  <2> QED
    BY <1>2, <2>2, <2>4, <2>6 DEF NamesInv
<1> QED
  BY <1>3, <1>4

\* Its queued bytes have left, or not.
LEMMA DrainKeeps ==
  ASSUME NamesInv, Drained \/ DrainFails
  PROVE  NamesInv'
<1>1. /\ NamesTypeOK /\ NamesTrue /\ StoreCounted /\ TaskTrue /\ task.r \in NameRequests
      /\ task \in [r : NameRequests, step : {"drain", "request", "report"}]
      /\ \A n \in Names \ NamesOf(task.r) : ~Busy(n)
      /\ UNCHANGED <<target, known, open, fetched, delayed, read_only, begun, stores>>
  BY TaskFacts DEF NamesInv, Drained, DrainFails
<1>2. PICK r \in NameRequests : r = task.r
  BY <1>1
<1>3. StoreCounted' /\ NamesOf(r) \subseteq Names
  BY <1>1, ResultFacts DEF StoreCounted, NamesTypeOK
<1>4. CASE Drained
  <2>1. /\ ChangeCache(r) /\ BeforeChange(r) /\ task' = [task EXCEPT !.step = "request"]
        /\ UNCHANGED nameFaults
    BY <1>1, <1>2, <1>4 DEF Drained, TaskTrue
  <2>2. /\ cached' \in [Names -> Entries] /\ doubtful' \subseteq Names /\ Ahead(r)'
        /\ \A n \in Names \ NamesOf(r) : cached'[n] = cached[n] /\ (n \in doubtful' <=> n \in doubtful)
    BY <1>1, <2>1, CacheChanged
  <2>3. task' \in [r : NameRequests, step : {"drain", "request", "report"}] /\ task'.step = "request" /\ task'.r = r
    BY <1>1, <1>2, <2>1
  <2>4. NamesTypeOK'
    BY <1>1, <2>1, <2>2, <2>3 DEF NamesTypeOK
  <2>5. NamesTrue'
    <3>1. \A n \in NamesOf(r) : Busy(n)'
      BY <2>3 DEF Busy, NoTask
    <3> QED
      BY <1>1, <1>2, <2>2, <3>1, NamesOfRequestMove
  <2>6. TaskTrue'
    BY <2>2, <2>3 DEF TaskTrue, Ahead, KnownTrue
  <2> QED
    BY <1>3, <2>4, <2>5, <2>6 DEF NamesInv
<1>5. CASE DrainFails
  <2>1. /\ cached' = cached /\ task' = NoTask /\ nameFaults' \in 0 .. MaxNameFaults
        /\ \/ task.step = "drain" /\ UNCHANGED doubtful
           \/ r.kind = "create" /\ doubtful' = doubtful \cup {r.name}
    BY <1>1, <1>2, <1>5, NamesAssumption DEF DrainFails, NameFault, NamesAssumption, NamesTypeOK
  <2>2. NamesTypeOK'
    BY <1>1, <1>3, <2>1 DEF NamesTypeOK, NamesOf
  <2>3. \A n \in NamesOf(r) : n \notin doubtful' => CacheTrue(n)' /\ KnownTrue(n)'
    <3>1. CASE task.step = "drain" /\ UNCHANGED doubtful
      BY <1>1, <1>2, <2>1, <3>1 DEF TaskTrue, BeforeChange, CacheTrue, KnownTrue
    <3>2. CASE r.kind = "create" /\ doubtful' = doubtful \cup {r.name}
      BY <3>2, ResultFacts, <1>1 DEF Creating, NamesOf, NamesTypeOK
    <3> QED
      BY <2>1, <3>1, <3>2
  <2>4. NamesTrue'
    BY <1>1, <1>2, <2>1, <2>3, NamesOfRequestMove
  <2>5. TaskTrue'
    BY <2>1 DEF TaskTrue, NoTask
  <2> QED
    BY <1>3, <2>2, <2>4, <2>5 DEF NamesInv
<1> QED
  BY <1>4, <1>5

\* The operation has its answer: the target did what was asked, or the entry
\* that it was to make is doubtful.
LEMMA AnswerKeeps ==
  ASSUME NamesInv, task.step = "request", NEW r \in NameRequests, r = task.r, Reply, UNCHANGED cached,
         \A n \in Names \ NamesOf(r) : target'[n] = target[n],
         doubtful \subseteq doubtful',
         \/ \A n \in NamesOf(r) : target'[n] = Result(target, r)[n]
         \/ r.kind \notin Removing => r.to \in doubtful'
  PROVE  /\ NamesTrue' /\ TaskTrue'
         /\ task' = NoTask \/ task' \in [r : NameRequests, step : {"drain", "request", "report"}]
         /\ known' \in [Names -> {Unknown} \cup [ino : Names, dir : BOOLEAN]]
<1>1. /\ NamesTypeOK /\ NamesTrue /\ Ahead(r) /\ task \in [r : NameRequests, step : {"drain", "request", "report"}]
      /\ known \in [Names -> {Unknown} \cup [ino : Names, dir : BOOLEAN]]
      /\ target \in [Names -> Entries] /\ NamesOf(r) \subseteq Names /\ r.name \in NamesOf(r) /\ r.to \in NamesOf(r)
      /\ \A n \in Names \ NamesOf(r) : ~Busy(n)
  BY TaskFacts, ResultFacts DEF NamesInv, TaskTrue, NamesTypeOK, NamesOf
<1>2. CASE r.kind \in Creating
  <2>1. task' = [task EXCEPT !.step = "report"] /\ known' = known
    BY <1>2 DEF Reply
  <2>2. task' \in [r : NameRequests, step : {"drain", "request", "report"}] /\ task'.step = "report" /\ task'.r = r
    BY <1>1, <2>1
  <2>3. r.name \notin doubtful' => CacheTrue(r.name)'
    BY <1>1, <1>2, ResultFacts DEF Ahead, CacheTrue, Creating, Removing
  <2>4. TaskTrue'
    BY <1>1, <1>2, <2>1, <2>2, <2>3 DEF TaskTrue, BeforeReport, Ahead, CacheTrue
  <2>5. NamesTrue'
    <3>1. \A n \in NamesOf(r) : Busy(n)'
      BY <2>2 DEF Busy, NoTask
    <3> QED
      BY <1>1, <2>1, <3>1, NamesOfRequestMove
  <2> QED
    BY <1>1, <2>1, <2>2, <2>4, <2>5
<1>3. CASE r.kind \notin Creating
  <2>1. /\ task' = NoTask
        /\ known' = IF r.kind = "rename" THEN [known EXCEPT ![r.to] = known[r.name], ![r.name] = Unknown]
                    ELSE [known EXCEPT ![r.name] = Unknown]
    BY <1>3 DEF Reply
  <2>2. /\ known' \in [Names -> {Unknown} \cup [ino : Names, dir : BOOLEAN]]
        /\ known'[r.name] = Unknown /\ \A n \in Names \ NamesOf(r) : known'[n] = known[n]
        /\ r.kind = "rename" => known'[r.to] = known[r.name]
    BY <1>1, <2>1, ResultFacts DEF NamesOf
  <2>3. r.name \notin doubtful' => CacheTrue(r.name)' /\ KnownTrue(r.name)'
    BY <1>1, <1>3, <2>2 DEF Ahead, CacheTrue, KnownTrue
  <2>4. r.to \notin doubtful' => CacheTrue(r.to)' /\ KnownTrue(r.to)'
    <3>1. CASE r.kind \in Removing
      BY <2>3, <3>1, <1>1, ResultFacts
    <3>2. CASE r.kind = "rename"
      BY <1>1, <2>2, <3>2, ResultFacts DEF Ahead, CacheTrue, KnownTrue, Removing
    <3> QED
      BY <1>1, <1>3, <3>1, <3>2, ResultFacts
  <2>5. \A n \in NamesOf(r) : n \notin doubtful' => CacheTrue(n)' /\ KnownTrue(n)'
    BY <2>3, <2>4 DEF NamesOf
  <2>6. NamesTrue'
    BY <1>1, <2>2, <2>5, NamesOfRequestMove
  <2>7. TaskTrue'
    BY <2>1 DEF TaskTrue, NoTask
  <2> QED
    BY <2>1, <2>2, <2>6, <2>7
<1> QED
  BY <1>2, <1>3

\* The three ways in which a request is answered, or given up.
LEMMA RequestKeeps ==
  ASSUME NamesInv, Succeeds \/ IsRefused \/ IsGivenUp
  PROVE  NamesInv'
<1>1. /\ NamesTypeOK /\ StoreCounted /\ task.step = "request" /\ task.r \in NameRequests /\ Reply
      /\ UNCHANGED <<cached, open, fetched, read_only, begun, stores>>
  BY TaskFacts DEF NamesInv, Succeeds, IsRefused, IsGivenUp
<1>2. PICK r \in NameRequests : r = task.r
  BY <1>1
<1>3. StoreCounted' /\ NamesOf(r) \subseteq Names /\ r.to \in Names /\ AtTarget(r) \in NameRequests
      /\ NamesOf(AtTarget(r)) = NamesOf(r)
  BY <1>1, ResultFacts, AtTargetFacts DEF StoreCounted, NamesTypeOK, NamesOf
<1>4. /\ target' \in [Names -> Entries] /\ \A n \in Names \ NamesOf(r) : target'[n] = target[n]
      /\ delayed' \subseteq NameRequests /\ nameFaults' \in 0 .. MaxNameFaults
  <2>1. target' \in {target, Result(target, r), After(target, AtTarget(r))}
    BY <1>2 DEF Succeeds, IsRefused, IsGivenUp
  <2>2. delayed' \subseteq NameRequests /\ nameFaults' \in 0 .. MaxNameFaults
    BY <1>1, <1>2, NamesAssumption DEF Succeeds, IsRefused, IsGivenUp, NameFault, NamesTypeOK, NamesAssumption
  <2> QED
    BY <1>1, <1>3, <2>1, <2>2, ResultFacts DEF NamesTypeOK
<1>5. /\ doubtful \subseteq doubtful' /\ doubtful' \subseteq Names
      /\ \/ \A n \in NamesOf(r) : target'[n] = Result(target, r)[n]
         \/ r.kind \notin Removing => r.to \in doubtful'
  BY <1>1, <1>2, <1>3 DEF Succeeds, IsRefused, IsGivenUp, Unsure, NamesTypeOK
<1>6. /\ NamesTrue' /\ TaskTrue'
      /\ task' = NoTask \/ task' \in [r : NameRequests, step : {"drain", "request", "report"}]
      /\ known' \in [Names -> {Unknown} \cup [ino : Names, dir : BOOLEAN]]
  BY <1>1, <1>2, <1>4, <1>5, AnswerKeeps
<1>7. NamesTypeOK'
  BY <1>1, <1>4, <1>5, <1>6 DEF NamesTypeOK
<1> QED
  BY <1>3, <1>6, <1>7 DEF NamesInv

\* The entry that was made is looked up and reported.
LEMMA ReportKeeps ==
  ASSUME NamesInv, Report
  PROVE  NamesInv'
<1>1. /\ NamesTypeOK /\ StoreCounted /\ task.r \in NameRequests /\ task' = NoTask
      /\ BeforeReport(task.r) /\ \A n \in Names \ NamesOf(task.r) : ~Busy(n)
      /\ UNCHANGED <<target, open, fetched, delayed, read_only, doubtful, begun, stores, nameFaults>>
  BY TaskFacts DEF NamesInv, Report, TaskTrue
<1>2. PICK r \in NameRequests : r = task.r
  BY <1>1
<1>3. PICK n \in Names : n = r.name /\ NamesOf(r) = {n} /\ known[n] = Unknown /\ (n \notin doubtful => CacheTrue(n))
  BY <1>1, <1>2, ResultFacts DEF BeforeReport, NamesOf, NamesTypeOK
<1>4. /\ cached' \in [Names -> Entries] /\ known' \in [Names -> {Unknown} \cup [ino : Names, dir : BOOLEAN]]
      /\ \A m \in Names \ {n} : known'[m] = known[m] /\ (CacheTrue(m) => CacheTrue(m)')
      /\ n \notin doubtful => CacheTrue(n)' /\ KnownTrue(n)'
  <2>1. CASE attr_for(n)
    BY <1>1, <1>3, <2>1, AttrTrue
  <2>2. CASE UNCHANGED <<cached, known>>
    BY <1>1, <1>3, <2>2 DEF NamesTypeOK, CacheTrue, KnownTrue
  <2> QED
    BY <1>2, <1>3, <2>1, <2>2 DEF Report
<1>5. NamesTypeOK' /\ StoreCounted' /\ TaskTrue'
  BY <1>1, <1>4 DEF NamesTypeOK, StoreCounted, TaskTrue, NoTask
<1>6. \A m \in Names : m \notin doubtful => CacheTrue(m)' /\ KnownTrue(m)'
  <2> SUFFICES ASSUME NEW m \in Names, m \notin doubtful
               PROVE  CacheTrue(m)' /\ KnownTrue(m)'
    OBVIOUS
  <2>1. CASE m = n
    BY <1>4, <2>1
  <2>2. CASE m # n
    <3>1. CacheTrue(m) /\ KnownTrue(m)
      BY <1>1, <1>2, <1>3, <2>2 DEF NamesInv, NamesTrue, CacheTrue, KnownTrue
    <3> QED
      BY <1>1, <1>4, <2>2, <3>1 DEF KnownTrue
  <2> QED
    BY <2>1, <2>2
<1>7. NamesTrue'
  BY <1>1, <1>6 DEF NamesTrue, CacheTrue, KnownTrue
<1> QED
  BY <1>5, <1>7 DEF NamesInv

\* A request that was given up is carried out after all.
LEMMA LandsKeeps ==
  ASSUME NamesInv, NEW r \in delayed, Lands(r)
  PROVE  NamesInv'
<1>1. /\ NamesTypeOK /\ NamesTrue /\ TaskTrue /\ StoreCounted /\ r \in NameRequests
      /\ UNCHANGED <<cached, known, open, fetched, task, read_only, begun, stores, nameFaults>>
  BY DEF NamesInv, Lands, NamesTypeOK
<1>2. /\ target' \in [Names -> Entries] /\ NamesOf(r) \subseteq Names
      /\ \A n \in Names \ NamesOf(r) : target'[n] = target[n]
  BY <1>1, AtTargetFacts, ResultFacts DEF Lands, NamesTypeOK
<1>3. /\ doubtful \subseteq doubtful' /\ NamesOf(r) \subseteq doubtful'
      /\ \A n \in NamesOf(r) : Busy(n) => NamesOf(task.r) \subseteq doubtful'
      /\ doubtful' \subseteq Names
  <2>1. \A n : Busy(n) => task # NoTask /\ NamesOf(task.r) \subseteq Names
    BY <1>1, ResultFacts DEF Busy, NamesTypeOK
  <2> QED
    BY <1>1, <1>2, <2>1 DEF Lands, NamesTypeOK
<1>4. NamesTypeOK' /\ StoreCounted'
  BY <1>1, <1>2, <1>3 DEF NamesTypeOK, StoreCounted, Lands
<1>5. \A n \in Names : n \notin doubtful' => n \notin doubtful /\ target'[n] = target[n]
  BY <1>2, <1>3
<1>6. NamesTrue'
  BY <1>1, <1>5 DEF NamesTrue, Busy
<1>7. TaskTrue'
  <2> SUFFICES ASSUME task.step # "idle"
               PROVE  TaskTrue'
    BY <1>1, IdleFacts DEF TaskTrue
  <2>1. /\ task.r \in NameRequests /\ task.r.name \in NamesOf(task.r) /\ task.r.to \in NamesOf(task.r)
        /\ NamesOf(task.r) \subseteq Names /\ \A n \in NamesOf(task.r) : Busy(n)
    BY <1>1, TaskFacts, ResultFacts DEF NamesOf, NamesTypeOK
  <2>2. CASE NamesOf(task.r) \cap NamesOf(r) = {}
    <3>1. \A n \in NamesOf(task.r) : target'[n] = target[n] /\ (n \notin doubtful' => n \notin doubtful)
      BY <1>2, <1>3, <2>1, <2>2
    <3> QED
      BY <1>1, <2>1, <3>1 DEF TaskTrue, BeforeChange, Ahead, BeforeReport, CacheTrue, KnownTrue
  <2>3. CASE NamesOf(task.r) \cap NamesOf(r) # {}
    <3>1. NamesOf(task.r) \subseteq doubtful'
      BY <1>3, <2>1, <2>3
    <3> QED
      BY <1>1, <2>1, <3>1 DEF TaskTrue, BeforeChange, Ahead, BeforeReport
  <2> QED
    BY <2>2, <2>3
<1> QED
  BY <1>4, <1>6, <1>7 DEF NamesInv

\* The invariant of the names.
THEOREM NamesInvariant == NamesSpec => []NamesInv
<1>1. NamesInit => NamesInv
  <2> SUFFICES ASSUME NamesInit
               PROVE  NamesInv
    OBVIOUS
  <2>1. NamesTypeOK
    BY NamesAssumption DEF NamesInit, NamesTypeOK, NamesAssumption
  <2>2. StoreCounted /\ TaskTrue
    BY DEF NamesInit, StoreCounted, TaskTrue, NoTask
  <2>3. NamesTrue
    BY DEF NamesInit, NamesTrue
  <2> QED
    BY <2>1, <2>2, <2>3 DEF NamesInv
<1>2. NamesInv /\ [NamesNext]_nameVars => NamesInv'
  <2> SUFFICES ASSUME NamesInv, [NamesNext]_nameVars
               PROVE  NamesInv'
    OBVIOUS
  <2>1. CASE UNCHANGED nameVars
    BY <2>1 DEF nameVars, NamesInv, NamesTypeOK, StoreCounted, NamesTrue, Busy, TaskTrue, BeforeChange, Ahead,
       BeforeReport, CacheTrue, KnownTrue
  <2>2. ASSUME NEW n \in Names, lookup(n) \/ Expire(n) \/ Open(n) \/ Fetch(n)
        PROVE  NamesInv'
    BY <2>2, LookupKeeps, KernelKeeps
  <2>3. CASE readdir \/ Write \/ Store
    BY <2>3, ReaddirKeeps, StoresKeep
  <2>4. CASE Close
    <3>1. PICK n : n \in Names
      BY <2>4 DEF Close, NamesInv, NamesTypeOK
    <3> QED
      BY <2>4, <3>1, KernelKeeps
  <2>5. ASSUME NEW r \in NameRequests, Begin(r)
        PROVE  NamesInv'
    BY <2>5, BeginKeeps
  <2>6. CASE Drained \/ DrainFails \/ Succeeds \/ IsRefused \/ IsGivenUp \/ Report
    BY <2>6, DrainKeeps, RequestKeeps, ReportKeeps
  <2>7. ASSUME NEW r \in delayed, Lands(r)
        PROVE  NamesInv'
    BY <2>7, LandsKeeps
  <2> QED
    BY <2>1, <2>2, <2>3, <2>4, <2>5, <2>6, <2>7 DEF NamesNext
<1> QED
  BY <1>1, <1>2, PTL DEF NamesSpec

\* The state of a mount's names is well formed.
THEOREM NamesTypes == NamesSpec => []NamesTypeOK
BY NamesInvariant, PTL DEF NamesInv

\* What the mount says of a name that is not doubtful is what the target has,
\* whatever operations, stores, failures and late requests came before.
THEOREM NamesAreTrue == NamesSpec => []NamesTrue
BY NamesInvariant, PTL DEF NamesInv

-----------------------------------------------------------------------------
(* The mounts.                                                             *)

\* No session of this process is mounted at p; or x is, on top, and no other.
NoneOwn(p) == \A i \in 1 .. Len(stack[p]) : stack[p][i] < first

OnTop(p, x) ==
  /\ stack[p] # <<>> /\ stack[p][Len(stack[p])] = x /\ x >= first
  /\ \A i \in 1 .. Len(stack[p]) - 1 : stack[p][i] < first

Served(p) == IF mounts[p] = NoSession THEN NoneOwn(p) ELSE OnTop(p, mounts[p])

\* A call is at work on its point from when it has taken the point's session
\* out of the map until it has put one in, or has given up.
Working == {"join", "clean", "stat", "spawn", "insert"} \cup Unmounting
Works(c, p) == at[c] \in Working /\ point[c] = p
Mounts(c, p) == at[c] \in Mounting /\ point[c] = p

\* What a call at work has made of its point.
Progress(c, p) ==
  /\ mounts[p] = NoSession
  /\ at[c] \in {"leave", "insert"} => OnTop(p, session[c])
  /\ at[c] = "clean" => NoneOwn(p) \/ \E x \in Leftover .. spawned : OnTop(p, x)
  /\ at[c] \in {"leaving", "join", "stat", "spawn"} => NoneOwn(p)

\* A point has one call at work at most, and one that mounts; while none is at
\* work, the map is right.
PointInv(p) ==
  /\ \A c, d \in Callers : Works(c, p) /\ Works(d, p) => c = d
  /\ \A c, d \in Callers : Mounts(c, p) /\ Mounts(d, p) => c = d
  /\ \A c \in Callers : Works(c, p) => Progress(c, p)
  /\ (\A c \in Callers : ~Works(c, p)) => Served(p)

\* Who waits for a session to end has the lock of the map.
LockHeld == \A c \in Callers : at[c] \in {"join"} \cup Unmounting => holder = c

MountsInv ==
  /\ MountsTypeOK /\ first <= spawned + 1
  /\ \A p \in Points : stack[p] \in Seq(Leftover .. spawned)
  /\ LockHeld
  /\ \A p \in Points : p \notin unsure => PointInv(p)

\* Unmounting takes the last session from a stack.
LEMMA PoppedFacts ==
  ASSUME NEW S, NEW s \in Seq(S)
  PROVE  /\ Popped(s) \in Seq(S) /\ Len(Popped(s)) \in Nat
         /\ s = <<>> => Popped(s) = s
         /\ s # <<>> => /\ Len(Popped(s)) = Len(s) - 1
                        /\ \A i \in 1 .. Len(s) - 1 : Popped(s)[i] = s[i]
<1>1. CASE s = <<>>
  BY <1>1 DEF Popped
<1>2. CASE s # <<>>
  <2>1. Len(s) \in Nat /\ Len(s) # 0 /\ \A i \in 1 .. Len(s) : s[i] \in S
    BY <1>2, EmptySeq, ElementOfSeq
  <2>2. PICK n \in Nat : n = Len(s) - 1
    BY <2>1
  <2>3. Popped(s) = SubSeq(s, 1, n)
    BY <1>2, <2>2 DEF Popped, Front
  <2>4. \A i \in 1 .. n : s[i] \in S
    BY <2>1, <2>2
  <2>5. /\ SubSeq(s, 1, n) \in Seq(S)
        /\ Len(SubSeq(s, 1, n)) = IF 1 <= n THEN n - 1 + 1 ELSE 0
        /\ \A i \in 1 .. n - 1 + 1 : SubSeq(s, 1, n)[i] = s[1 + i - 1]
    BY <2>2, <2>4, SubSeqProperties
  <2>6. Len(SubSeq(s, 1, n)) = n
    BY <2>2, <2>5
  <2>7. \A i \in 1 .. n : SubSeq(s, 1, n)[i] = s[i]
    <3> SUFFICES ASSUME NEW i \in 1 .. n
                 PROVE  SubSeq(s, 1, n)[i] = s[i]
      OBVIOUS
    <3>1. i \in 1 .. n - 1 + 1 /\ 1 + i - 1 = i
      BY <2>2
    <3> QED
      BY <2>5, <3>1
  <2> QED
    BY <1>2, <2>2, <2>3, <2>5, <2>6, <2>7
<1> QED
  BY <1>1, <1>2

\* What is on top of a stack runs.
LEMMA TopRuns ==
  ASSUME MountsInv, NEW p \in Points, NEW x, OnTop(p, x)
  PROVE  x \in Leftover .. spawned /\ Runs(p, x)
<1>1. stack[p] \in Seq(Leftover .. spawned)
  BY DEF MountsInv
<1>2. Len(stack[p]) \in 1 .. Len(stack[p]) /\ DOMAIN stack[p] = 1 .. Len(stack[p])
  BY <1>1, EmptySeq, LenProperties DEF OnTop
<1>3. x \in Leftover .. spawned
  BY <1>1, <1>2, ElementOfSeq DEF OnTop
<1>4. x \in ToSet(stack[p])
  BY <1>2 DEF OnTop, ToSet
<1> QED
  BY <1>3, <1>4 DEF Runs

\* After that no session of this process is left, if there was one at most
\* and it was on top.
LEMMA PoppedOwn ==
  ASSUME MountsInv, NEW p \in Points, NoneOwn(p) \/ \E x \in Leftover .. spawned : OnTop(p, x),
         stack'[p] = Popped(stack[p]), first' = first
  PROVE  NoneOwn(p)'
<1>1. stack[p] \in Seq(Leftover .. spawned) /\ spawned \in Nat /\ first \in Nat
  BY MountAssumption DEF MountsInv, MountsTypeOK, Leftover, MountAssumption
<1>2. \A i \in 1 .. Len(Popped(stack[p])) : Popped(stack[p])[i] < first
  <2>1. CASE stack[p] = <<>>
    BY <1>1, <2>1, PoppedFacts DEF NoneOwn, OnTop
  <2>2. CASE stack[p] # <<>>
    <3>1. Len(stack[p]) \in Nat /\ \A i \in 1 .. Len(stack[p]) - 1 : stack[p][i] < first
      BY <1>1 DEF NoneOwn, OnTop
    <3>2. /\ Len(Popped(stack[p])) = Len(stack[p]) - 1
          /\ \A i \in 1 .. Len(stack[p]) - 1 : Popped(stack[p])[i] = stack[p][i]
      BY <1>1, <2>2, PoppedFacts
    <3> QED
      BY <3>1, <3>2
  <2> QED
    BY <2>1, <2>2
<1> QED
  BY <1>2 DEF NoneOwn

\* What a step of call c, on point p, leaves alone.
CallerMoves(c, p) ==
  /\ first' = first /\ unsure \subseteq unsure'
  /\ point'[c] = p /\ (at[c] = "idle" \/ point[c] = p)
  /\ \A d \in Callers \ {c} : at'[d] = at[d] /\ point'[d] = point[d] /\ session'[d] = session[d]
  /\ \A q \in Points \ {p} : stack'[q] = stack[q] /\ mounts'[q] = mounts[q]
  /\ spawned' \in {spawned, spawned + 1}

\* So the other points are as they were.
LEMMA OtherPoints ==
  ASSUME MountsInv, NEW c \in Callers, NEW p \in Points, CallerMoves(c, p),
         p \notin unsure' => PointInv(p)'
  PROVE  \A q \in Points : q \notin unsure' => PointInv(q)'
<1> SUFFICES ASSUME NEW q \in Points \ {p}, q \notin unsure'
             PROVE  PointInv(q)'
  OBVIOUS
<1>1. PointInv(q) /\ spawned \in Nat
  BY DEF MountsInv, MountsTypeOK, CallerMoves, Leftover
<1>2. \A d \in Callers : Works(d, q)' <=> Works(d, q) /\ d # c
  BY DEF CallerMoves, Works, Working, Unmounting
<1>3. ~Works(c, q)
  BY DEF CallerMoves, Works, Working, Unmounting
<1>4. \A d \in Callers : Mounts(d, q)' => Mounts(d, q)
  BY DEF CallerMoves, Mounts
<1>5. /\ NoneOwn(q)' <=> NoneOwn(q)
      /\ \A x : OnTop(q, x)' <=> OnTop(q, x)
      /\ mounts'[q] = mounts[q]
  BY DEF CallerMoves, NoneOwn, OnTop
<1>6. Served(q) => Served(q)'
  BY <1>5 DEF Served
<1>7. ASSUME NEW d \in Callers, Works(d, q), Progress(d, q)
      PROVE  Progress(d, q)'
  <2>1. at'[d] = at[d] /\ session'[d] = session[d] /\ \A x \in Leftover .. spawned : x \in Leftover .. spawned'
    BY <1>1, <1>3, <1>7 DEF CallerMoves, Leftover
  <2> QED
    BY <1>5, <1>7, <2>1 DEF Progress, OnTop
<1> QED
  BY <1>1, <1>2, <1>3, <1>4, <1>6, <1>7 DEF PointInv

\* The call at work on a point makes progress, or is done.
LEMMA WorkerMoves ==
  ASSUME MountsInv, NEW c \in Callers, NEW p \in Points, CallerMoves(c, p), PointInv(p), Works(c, p),
         at'[c] \in Mounting => at[c] \in Mounting,
         IF at'[c] \in Working THEN Progress(c, p)' ELSE Served(p)'
  PROVE  PointInv(p)'
<1>1. \A d \in Callers : Works(d, p)' => d = c
  BY DEF CallerMoves, PointInv, Works
<1>2. \A d \in Callers : Mounts(d, p)' => Mounts(d, p)
  BY DEF CallerMoves, Mounts, Works
<1>3. Works(c, p)' <=> at'[c] \in Working
  BY DEF CallerMoves, Works
<1> QED
  BY <1>1, <1>2, <1>3 DEF PointInv

\* No session takes more than its stack.
LEMMA SessionSeqs ==
  ASSUME NEW m \in Nat, NEW n \in Nat, m <= n, NEW s \in Seq(Leftover .. m)
  PROVE  s \in Seq(Leftover .. n) /\ (n > 0 => Append(s, n) \in Seq(Leftover .. n))
<1>1. s \in Seq(Leftover .. n)
  <2>1. Leftover .. m \subseteq Leftover .. n
    BY DEF Leftover
  <2> QED
    BY <2>1, SeqMonotonic
<1>2. n > 0 => n \in Leftover .. n
  BY DEF Leftover
<1> QED
  BY <1>1, <1>2

\* The stacks stay stacks of sessions that were spawned.
LEMMA StacksKept ==
  ASSUME MountsInv, MountsNext
  PROVE  \A p \in Points : stack'[p] \in Seq(Leftover .. spawned')
<1>1. /\ stack \in [Points -> Seq(Leftover .. MaxSessions)] /\ spawned \in Nat
      /\ \A p \in Points : stack[p] \in Seq(Leftover .. spawned) /\ Popped(stack[p]) \in Seq(Leftover .. spawned)
      /\ \A p \in Points : Popped(Popped(stack[p])) \in Seq(Leftover .. spawned)
      /\ point \in [Callers -> Points]
  BY PoppedFacts DEF MountsInv, MountsTypeOK, Leftover
<1>2. CASE UNCHANGED stack /\ UNCHANGED spawned
  BY <1>1, <1>2
<1>3. ASSUME NEW q \in Points, Pop(q) \/ UNCHANGED stack, UNCHANGED spawned
      PROVE  \A p \in Points : stack'[p] \in Seq(Leftover .. spawned')
  BY ZenonT(30), <1>1, <1>3 DEF Pop
<1>4. ASSUME NEW c \in Callers, Spawn(c)
      PROVE  \A p \in Points : stack'[p] \in Seq(Leftover .. spawned')
  <2>1. /\ stack' = [stack EXCEPT ![point[c]] = Append(stack[point[c]], spawned')]
        /\ spawned' = spawned + 1 /\ spawned' \in Nat /\ spawned' > 0
    BY <1>1, <1>4 DEF Spawn
  <2>2. \A p \in Points : /\ stack[p] \in Seq(Leftover .. spawned')
                          /\ Append(stack[p], spawned') \in Seq(Leftover .. spawned')
    BY <1>1, <2>1, SessionSeqs
  <2> QED
    BY <1>1, <2>1, <2>2
<1>5. ASSUME NEW c \in Callers, CallerStep(c)
      PROVE  \A p \in Points : stack'[p] \in Seq(Leftover .. spawned')
  <2>1. CASE \E p \in Points : Mount(c, p) \/ Unmount(c, p)
    BY <1>2, <2>1 DEF Mount, Unmount
  <2>2. CASE Retired(c) \/ Stat(c) \/ SpawnFails(c) \/ Activate(c)
    BY <1>2, <2>2 DEF Retired, Stat, SpawnFails, Activate
  <2>3. CASE Retire(c) \/ Clean(c) \/ InsertSession(c) \/ Leave(c) \/ Left(c)
    <3>1. (Pop(point[c]) \/ UNCHANGED stack) /\ UNCHANGED spawned
      BY <2>3 DEF Retire, Clean, InsertSession, Leave, Left, Release
    <3> QED
      BY <1>1, <1>3, <3>1
  <2> QED
    BY <1>4, <1>5, <2>1, <2>2, <2>3 DEF CallerStep
<1>6. CASE (\E p \in Points : Opens(p)) \/ (\E s \in opened : Closes(s)) \/ Crashes
  BY <1>2, <1>6 DEF Opens, Closes, Crashes, Restarts
<1>7. CASE Dropped
  <2>1. UNCHANGED spawned
    BY <1>7 DEF Dropped, Restarts
  <2>2. \A p \in Points : stack'[p] \in {stack[p], Popped(stack[p]), Popped(Popped(stack[p]))}
    BY <1>7 DEF Dropped
  <2> QED
    BY <1>1, <2>1, <2>2
<1> QED
  BY <1>5, <1>6, <1>7 DEF MountsNext

\* The type invariant.
LEMMA MountTypesKept ==
  ASSUME MountsInv, MountsNext
  PROVE  MountsTypeOK' /\ first' <= spawned' + 1
<1>1. MountsTypeOK /\ MaxSessions \in Nat \ {0} /\ MaxMountFaults \in Nat
  BY MountAssumption DEF MountsInv, MountAssumption
<1>2. spawned' \in Leftover .. MaxSessions /\ spawned' >= spawned
  <2>1. spawned' = spawned \/ (spawned' = spawned + 1 /\ spawned < MaxSessions)
    BY DEF MountsNext, CallerStep, Mount, Unmount, Retire, Retired, Clean, Stat, Spawn, SpawnFails, InsertSession,
       Activate, Leave, Left, Opens, Closes, Dropped, Crashes, Restarts
  <2> QED
    BY <1>1, <2>1 DEF MountsTypeOK, Leftover
<1>3. stack' \in [Points -> Seq(Leftover .. MaxSessions)]
  <2>1. stack' = [p \in Points |-> stack'[p]]
    BY <1>1 DEF MountsTypeOK, MountsNext, CallerStep, Mount, Unmount, Retire, Retired, Clean, Stat, Spawn, SpawnFails,
       InsertSession, Activate, Leave, Left, Opens, Closes, Dropped, Crashes, Release, Pop
  <2>2. \A p \in Points : stack'[p] \in Seq(Leftover .. MaxSessions)
    BY <1>1, <1>2, StacksKept, SessionSeqs DEF Leftover
  <2> QED
    BY <2>1, <2>2
<1>4. opened' \subseteq Leftover .. MaxSessions
  <2>1. ASSUME NEW p \in Points, Opens(p)
        PROVE  Last(stack[p]) \in Leftover .. MaxSessions
    <3>1. stack[p] \in Seq(Leftover .. MaxSessions) /\ stack[p] # <<>>
      BY <1>1, <2>1 DEF MountsTypeOK, Opens
    <3>2. Len(stack[p]) \in 1 .. Len(stack[p])
      BY <3>1, EmptySeq
    <3> QED
      BY <3>1, <3>2, ElementOfSeq DEF Last
  <2>2. \/ opened' \subseteq opened
        \/ \E p \in Points : Opens(p)
    BY DEF MountsNext, CallerStep, Mount, Unmount, Retire, Retired, Clean, Stat, Spawn, SpawnFails, InsertSession,
       Activate, Leave, Left, Closes, Dropped, Crashes, Restarts
  <2>3. ASSUME NEW p \in Points, Opens(p)
        PROVE  opened' = opened \cup {Last(stack[p])}
    BY <2>3 DEF Opens
  <2> QED
    BY <1>1, <2>1, <2>2, <2>3 DEF MountsTypeOK
<1>5. mounts' \in [Points -> 0 .. MaxSessions]
  <2>1. ASSUME NEW c \in Callers, CallerStep(c)
        PROVE  \/ mounts' = mounts
               \/ \E q \in Points, x \in 0 .. MaxSessions : mounts' = [mounts EXCEPT ![q] = x]
    <3>1. 0 \in 0 .. MaxSessions /\ point[c] \in Points /\ session[c] \in 0 .. MaxSessions
      BY <1>1 DEF MountsTypeOK
    <3>2. CASE \E p \in Points : Mount(c, p) \/ Unmount(c, p)
      BY <3>1, <3>2 DEF Mount, Unmount, NoSession
    <3>3. CASE Retire(c) \/ InsertSession(c)
      BY <3>1, <3>3 DEF Retire, InsertSession, NoSession
    <3> QED
      BY <2>1, <3>2, <3>3 DEF CallerStep, Retired, Clean, Stat, Spawn, SpawnFails, Activate, Leave, Left
  <2>2. CASE (\E p \in Points : Opens(p)) \/ (\E s \in opened : Closes(s)) \/ Dropped \/ Crashes
    BY <1>1, <2>2 DEF MountsTypeOK, Opens, Closes, Dropped, Crashes, Restarts, NoSession
  <2> QED
    BY <1>1, <2>1, <2>2 DEF MountsTypeOK, MountsNext
<1>6. session' \in [Callers -> 0 .. MaxSessions]
  <2>1. ASSUME NEW c \in Callers, CallerStep(c)
        PROVE  \/ session' = session
               \/ \E x \in 0 .. MaxSessions : session' = [session EXCEPT ![c] = x]
    <3>1. CASE \E p \in Points : Mount(c, p) \/ Unmount(c, p)
      BY <1>1, <3>1 DEF Mount, Unmount, Keep, MountsTypeOK
    <3>2. CASE Retire(c) \/ Spawn(c)
      BY <1>1, <1>2, <3>2 DEF Retire, Spawn, Keep, MountsTypeOK, Leftover
    <3> QED
      BY <2>1, <3>1, <3>2 DEF CallerStep, Retired, Clean, Stat, SpawnFails, InsertSession, Activate, Leave, Left
  <2>2. CASE (\E p \in Points : Opens(p)) \/ (\E s \in opened : Closes(s)) \/ Dropped \/ Crashes
    BY <1>1, <2>2 DEF MountsTypeOK, Opens, Closes, Dropped, Crashes, Restarts, NoSession
  <2> QED
    BY <1>1, <2>1, <2>2 DEF MountsTypeOK, MountsNext
<1>7. point' \in [Callers -> Points] /\ active_paths' \subseteq Points /\ unsure' \subseteq Points
  <2>1. ASSUME NEW c \in Callers, CallerStep(c)
        PROVE  /\ point' = point \/ \E p \in Points : point' = [point EXCEPT ![c] = p]
               /\ \E p \in Points : active_paths' \subseteq active_paths \cup {p}
               /\ \E p \in Points : unsure' \subseteq unsure \cup {p}
    <3>1. point[c] \in Points
      BY <1>1 DEF MountsTypeOK
    <3>2. CASE \E p \in Points : Mount(c, p) \/ Unmount(c, p)
      BY <3>2 DEF Mount, Unmount
    <3>3. CASE ~\E p \in Points : Mount(c, p) \/ Unmount(c, p)
      BY <2>1, <3>1, <3>3 DEF CallerStep, Retire, Retired, Clean, Stat, Spawn, SpawnFails, InsertSession, Activate,
         Leave, Left
    <3> QED
      BY <3>2, <3>3
  <2>2. CASE (\E p \in Points : Opens(p)) \/ (\E s \in opened : Closes(s)) \/ Dropped \/ Crashes
    BY <1>1, <2>2 DEF MountsTypeOK, Opens, Closes, Dropped, Crashes, Restarts
  <2> QED
    BY <1>1, <2>1, <2>2 DEF MountsTypeOK, MountsNext
<1>8. holder' \in Callers \cup {"free"}
  BY <1>1 DEF MountsTypeOK, MountsNext, CallerStep, Mount, Unmount, Retire, Retired, Clean, Stat, Spawn, SpawnFails,
     InsertSession, Activate, Leave, Left, Opens, Closes, Dropped, Crashes, Restarts
<1>9. at' \in [Callers -> Mounting \cup Unmounting \cup {"idle"}]
  <2>1. \/ at' = at
        \/ at' = [c \in Callers |-> "idle"]
        \/ \E c \in Callers, a \in Mounting \cup Unmounting \cup {"idle"} : at' = [at EXCEPT ![c] = a]
    BY DEF MountsNext, CallerStep, Mount, Unmount, Retire, Retired, Clean, Stat, Spawn, SpawnFails, InsertSession,
       Activate, Leave, Left, Opens, Closes, Dropped, Crashes, Restarts, Move, Mounting, Unmounting
  <2> QED
    BY <1>1, <2>1 DEF MountsTypeOK
<1>10. first' \in Leftover + 1 .. MaxSessions + 1 /\ first' <= spawned' + 1 /\ mountFaults' \in 0 .. MaxMountFaults
  <2>1. first' = first \/ first' = spawned + 1
    BY DEF MountsNext, CallerStep, Mount, Unmount, Retire, Retired, Clean, Stat, Spawn, SpawnFails, InsertSession,
       Activate, Leave, Left, Opens, Closes, Dropped, Crashes, Restarts
  <2>2. mountFaults' = mountFaults \/ (mountFaults' = mountFaults + 1 /\ mountFaults < MaxMountFaults)
    BY DEF MountsNext, CallerStep, Mount, Unmount, Retire, Retired, Clean, Stat, Spawn, SpawnFails, InsertSession,
       Activate, Leave, Left, Opens, Closes, Dropped, Crashes, Restarts, MountFault
  <2> QED
    BY <1>1, <1>2, <2>1, <2>2 DEF MountsInv, MountsTypeOK, Leftover
<1> QED
  BY <1>2, <1>3, <1>4, <1>5, <1>6, <1>7, <1>8, <1>9, <1>10 DEF MountsTypeOK

\* The lock of the map passes only from a call that has it to one that asks.
LEMMA LockKept ==
  ASSUME MountsInv, MountsNext
  PROVE  LockHeld'
<1>1. /\ LockHeld /\ "free" \notin Callers
      /\ at \in [Callers -> Mounting \cup Unmounting \cup {"idle"}]
  BY MountAssumption DEF MountsInv, MountAssumption, MountsTypeOK
<1>2. CASE UNCHANGED <<at, holder>>
  BY <1>1, <1>2 DEF LockHeld
<1>3. ASSUME at' = [c \in Callers |-> "idle"]
      PROVE  LockHeld'
  BY <1>3 DEF LockHeld, Unmounting
<1>4. ASSUME NEW c \in Callers, NEW a, at' = [at EXCEPT ![c] = a],
             a \in {"join"} \cup Unmounting => holder' = c,
             \/ holder' = holder
             \/ holder = "free"
             \/ holder = c
      PROVE  LockHeld'
  <2>1. \A d \in Callers \ {c} : at'[d] = at[d] /\ (at[d] \in {"join"} \cup Unmounting => holder = d)
    BY <1>1, <1>4 DEF LockHeld
  <2>2. at'[c] = a
    BY <1>1, <1>4
  <2> QED
    BY <1>1, <1>4, <2>1, <2>2 DEF LockHeld
<1>5. ASSUME NEW c \in Callers, CallerStep(c)
      PROVE  LockHeld'
  <2>1. ASSUME NEW p \in Points, Mount(c, p) \/ Unmount(c, p)
        PROVE  LockHeld'
    <3>1. \E a : /\ at' = [at EXCEPT ![c] = a] /\ (a \in {"join"} \cup Unmounting => holder' = c)
                 /\ holder' = holder \/ holder = "free"
      BY <2>1 DEF Mount, Unmount, Move, Unmounting
    <3> QED
      BY <1>4, <3>1
  <2>2. CASE Retire(c)
    <3>1. \E a : /\ at' = [at EXCEPT ![c] = a] /\ (a \in {"join"} \cup Unmounting => holder' = c) /\ holder = "free"
      BY <2>2 DEF Retire, Move, Unmounting
    <3> QED
      BY <1>4, <3>1
  <2>3. CASE Retired(c) \/ Leave(c) \/ Left(c)
    <3>1. holder = c
      BY <1>1, <2>3 DEF LockHeld, Retired, Leave, Left, Unmounting
    <3>2. \E a : at' = [at EXCEPT ![c] = a] /\ (a \in {"join"} \cup Unmounting => holder' = holder)
      BY <2>3 DEF Retired, Leave, Left, Move, Unmounting
    <3> QED
      BY <1>4, <3>1, <3>2
  <2>4. CASE Clean(c) \/ Stat(c) \/ Spawn(c) \/ SpawnFails(c) \/ InsertSession(c) \/ Activate(c)
    <3>1. \E a : at' = [at EXCEPT ![c] = a] /\ a \notin {"join"} \cup Unmounting /\ holder' = holder
      BY <2>4 DEF Clean, Stat, Spawn, SpawnFails, InsertSession, Activate, Move, Unmounting
    <3> QED
      BY <1>4, <3>1
  <2> QED
    BY <1>5, <2>1, <2>2, <2>3, <2>4 DEF CallerStep
<1>6. CASE (\E p \in Points : Opens(p)) \/ (\E s \in opened : Closes(s))
  BY <1>2, <1>6 DEF Opens, Closes
<1>7. CASE Dropped \/ Crashes
  BY <1>3, <1>7 DEF Dropped, Crashes, Restarts
<1> QED
  BY <1>5, <1>6, <1>7 DEF MountsNext

\* What every step of a call leaves alone.
LEMMA CallerFrame ==
  ASSUME MountsInv, NEW c \in Callers, CallerStep(c)
  PROVE  \E p \in Points :
           /\ CallerMoves(c, p)
           /\ Mount(c, p) \/ Unmount(c, p) \/ (at[c] # "idle" /\ point[c] = p)
<1>1. /\ stack \in [Points -> Seq(Leftover .. MaxSessions)] /\ mounts \in [Points -> 0 .. MaxSessions]
      /\ at \in [Callers -> Mounting \cup Unmounting \cup {"idle"}]
      /\ point \in [Callers -> Points] /\ session \in [Callers -> 0 .. MaxSessions]
  BY DEF MountsInv, MountsTypeOK
<1>2. ASSUME NEW p \in Points, Mount(c, p) \/ Unmount(c, p)
      PROVE  CallerMoves(c, p)
  BY <1>1, <1>2 DEF Mount, Unmount, CallerMoves, Move, Keep
<1>3. CASE ~\E p \in Points : Mount(c, p) \/ Unmount(c, p)
  <2>1. /\ point' = point /\ at[c] # "idle" /\ first' = first
        /\ unsure \subseteq unsure' /\ spawned' \in {spawned, spawned + 1}
    BY <1>3 DEF CallerStep, Retire, Retired, Clean, Stat, Spawn, SpawnFails, InsertSession, Activate, Leave, Left
  <2>2. \A d \in Callers \ {c} : at'[d] = at[d]
    BY <1>1, <1>3 DEF CallerStep, Retire, Retired, Clean, Stat, Spawn, SpawnFails, InsertSession,
       Activate, Leave, Left, Move
  <2>3. \A d \in Callers \ {c} : session'[d] = session[d]
    BY <1>1, <1>3 DEF CallerStep, Retire, Retired, Clean, Stat, Spawn, SpawnFails, InsertSession,
       Activate, Leave, Left, Keep
  <2>4. \A q \in Points \ {point[c]} : stack'[q] = stack[q]
    BY <1>1, <1>3 DEF CallerStep, Retire, Retired, Clean, Stat, Spawn, SpawnFails, InsertSession,
       Activate, Leave, Left, Release, Pop
  <2>5. \A q \in Points \ {point[c]} : mounts'[q] = mounts[q]
    BY <1>1, <1>3 DEF CallerStep, Retire, Retired, Clean, Stat, Spawn, SpawnFails, InsertSession, Activate, Leave,
       Left
  <2>6. CallerMoves(c, point[c])
    BY <2>1, <2>2, <2>3, <2>4, <2>5 DEF CallerMoves
  <2> QED
    BY <1>1, <2>1, <2>6
<1> QED
  BY <1>2, <1>3

\* A call that begins, or has put its session in the map, is not at work.
LEMMA RestingMoves ==
  ASSUME MountsInv, NEW c \in Callers, NEW p \in Points, CallerMoves(c, p), p \notin unsure',
         Mount(c, p) \/ (Activate(c) /\ point[c] = p)
  PROVE  PointInv(p)'
<1>1. /\ PointInv(p) /\ UNCHANGED <<stack, mounts, session, spawned, first>>
      /\ at \in [Callers -> Mounting \cup Unmounting \cup {"idle"}]
  BY DEF MountsInv, MountsTypeOK, CallerMoves, Mount, Activate
<1>2. /\ NoneOwn(p)' <=> NoneOwn(p)
      /\ \A x : OnTop(p, x)' <=> OnTop(p, x)
      /\ Served(p)' <=> Served(p)
  BY <1>1 DEF NoneOwn, OnTop, Served
<1>3. at[c] \in {"idle", "activate"} /\ at'[c] \in {"retire", "idle"}
  BY <1>1 DEF Mount, Activate, Move, Mounting
<1>4. \A d \in Callers : Works(d, p)' <=> Works(d, p)
  BY <1>3 DEF CallerMoves, Works, Working, Unmounting
<1>5. \A d \in Callers : Works(d, p) => (Progress(d, p)' <=> Progress(d, p))
  BY <1>1, <1>2, <1>3 DEF CallerMoves, Works, Working, Unmounting, Progress, OnTop
<1>6. \A d, e \in Callers : Mounts(d, p)' /\ Mounts(e, p)' => d = e
  <2>1. CASE Mount(c, p)
    <3>1. \A d \in Callers : ~Mounts(d, p)
      BY <2>1 DEF Mount, Mounts
    <3> QED
      BY <3>1 DEF CallerMoves, Mounts
  <2>2. CASE Activate(c)
    BY <1>1, <1>3, <2>2 DEF CallerMoves, Mounts, Mounting, PointInv, Activate
  <2> QED
    BY <2>1, <2>2
<1> QED
  BY <1>1, <1>2, <1>4, <1>5, <1>6 DEF PointInv

\* A call takes the session of its point out of the map: nobody else is at
\* work there.
LEMMA TakesSession ==
  ASSUME MountsInv, NEW c \in Callers, NEW p \in Points, CallerMoves(c, p), p \notin unsure',
         Unmount(c, p) \/ (Retire(c) /\ point[c] = p)
  PROVE  PointInv(p)'
<1>1. /\ PointInv(p) /\ LockHeld /\ "free" \notin Callers /\ holder = "free"
      /\ at \in [Callers -> Mounting \cup Unmounting \cup {"idle"}]
      /\ mounts \in [Points -> 0 .. MaxSessions] /\ session \in [Callers -> 0 .. MaxSessions]
      /\ stack \in [Points -> Seq(Leftover .. MaxSessions)]
      /\ stack[p] \in Seq(Leftover .. spawned)
  BY MountAssumption DEF MountsInv, MountAssumption, MountsTypeOK, CallerMoves, Unmount, Retire
<1>2. \A d \in Callers : ~Works(d, p)
  <2> SUFFICES ASSUME NEW d \in Callers, Works(d, p)
               PROVE  FALSE
    OBVIOUS
  <2>1. at[d] \notin {"join"} \cup Unmounting /\ at[d] \in Mounting
    BY <1>1 DEF LockHeld, Works, Working, Mounting, Unmounting
  <2>2. CASE Unmount(c, p)
    BY <1>1, <2>2 DEF PointInv, Progress, Unmount
  <2>3. CASE Retire(c) /\ point[c] = p
    <3>1. Mounts(c, p) /\ Mounts(d, p) /\ ~Works(c, p)
      BY <2>1, <2>3 DEF Retire, Mounts, Works, Working, Mounting, Unmounting
    <3> QED
      BY <1>1, <3>1 DEF PointInv
  <2> QED
    BY <2>2, <2>3
<1>3. Served(p)
  BY <1>1, <1>2 DEF PointInv
<1>4. mounts'[p] = NoSession /\ session'[c] = mounts[p] /\ first' = first
  BY <1>1 DEF Unmount, Retire, Keep, CallerMoves, NoSession
<1>5. at'[c] \in Working /\ Progress(c, p)'
  <2>1. CASE Unmount(c, p)
    <3>1. at'[c] = "leave" /\ stack' = stack /\ mounts[p] # NoSession
      BY <1>1, <2>1 DEF Unmount, Move
    <3>2. OnTop(p, session[c])'
      BY <1>3, <1>4, <3>1 DEF Served, OnTop
    <3> QED
      BY <1>4, <3>1, <3>2 DEF Progress, Working, Unmounting
  <2>2. CASE Release(p, mounts[p]) /\ at'[c] = "join"
    <3>1. NoneOwn(p)'
      <4>1. CASE mounts[p] = NoSession
        BY <1>3, <1>4, <2>2, <4>1 DEF Release, Served, NoneOwn
      <4>2. CASE mounts[p] # NoSession
        <5>1. OnTop(p, mounts[p])
          BY <1>3, <4>2 DEF Served
        <5>2. Runs(p, mounts[p]) /\ mounts[p] \in Leftover .. spawned
          BY <5>1, TopRuns
        <5>3. stack'[p] = Popped(stack[p])
          BY <1>1, <2>2, <4>2, <5>2 DEF Release, Pop
        <5> QED
          BY <1>4, <5>1, <5>2, <5>3, PoppedOwn
      <4> QED
        BY <4>1, <4>2
    <3> QED
      BY <1>4, <2>2, <3>1 DEF Progress, Working
  <2>3. CASE UNCHANGED stack /\ mounts[p] # NoSession /\ at'[c] = "clean"
    <3>1. PICK x : x = mounts[p] /\ OnTop(p, x)
      BY <1>3, <2>3 DEF Served
    <3>2. x \in Leftover .. spawned' /\ OnTop(p, x)'
      <4>1. x \in Leftover .. spawned /\ spawned \in Nat
        BY <3>1, TopRuns DEF MountsInv, MountsTypeOK, Leftover
      <4> QED
        BY <1>4, <2>3, <3>1, <4>1 DEF CallerMoves, OnTop, Leftover
    <3> QED
      BY <1>4, <2>3, <3>2 DEF Progress, Working
  <2> QED
    BY <1>1, <2>1, <2>2, <2>3 DEF Retire, Move
<1>6. \A d \in Callers : Works(d, p)' <=> d = c
  BY <1>2, <1>5 DEF CallerMoves, Works
<1>7. \A d \in Callers : Mounts(d, p)' => Mounts(d, p)
  <2>1. CASE Unmount(c, p)
    BY <1>1, <2>1 DEF Unmount, Move, CallerMoves, Mounts, Mounting
  <2>2. CASE Retire(c) /\ point[c] = p
    BY <1>1, <2>2 DEF Retire, CallerMoves, Mounts, Mounting
  <2> QED
    BY <2>1, <2>2
<1> QED
  BY <1>1, <1>5, <1>6, <1>7 DEF PointInv

\* A call at work on its point.
LEMMA WorkGoesOn ==
  ASSUME MountsInv, NEW c \in Callers, NEW p \in Points, CallerMoves(c, p), p \notin unsure', point[c] = p,
         \/ Retired(c) \/ Clean(c) \/ Stat(c) \/ Spawn(c) \/ SpawnFails(c) \/ InsertSession(c)
         \/ Leave(c) \/ Left(c)
  PROVE  PointInv(p)'
<1>1. /\ PointInv(p) /\ first' = first /\ spawned \in Nat
      /\ at \in [Callers -> Mounting \cup Unmounting \cup {"idle"}]
      /\ mounts \in [Points -> 0 .. MaxSessions] /\ session \in [Callers -> 0 .. MaxSessions]
      /\ stack \in [Points -> Seq(Leftover .. MaxSessions)] /\ stack[p] \in Seq(Leftover .. spawned)
      /\ first \in Nat /\ first > Leftover /\ Leftover > NoSession
  BY DEF MountsInv, MountsTypeOK, CallerMoves, Leftover, NoSession
<1>2. at[c] \in Working \ {"idle"} /\ Works(c, p)
  BY DEF Retired, Clean, Stat, Spawn, SpawnFails, InsertSession, Leave, Left, Works, Working, Unmounting
<1>3. Progress(c, p) /\ mounts[p] = NoSession
  BY <1>1, <1>2 DEF PointInv, Progress
<1>4. SUFFICES /\ at'[c] \in Mounting => at[c] \in Mounting
               /\ IF at'[c] \in Working THEN Progress(c, p)' ELSE Served(p)'
  BY <1>1, <1>2, WorkerMoves
<1>5. CASE Retired(c)
  <2>1. at[c] = "join" /\ at'[c] = "clean" /\ UNCHANGED <<stack, mounts>>
    BY <1>1, <1>5 DEF Retired, Move
  <2>2. NoneOwn(p)'
    BY <1>1, <1>3, <2>1 DEF Progress, NoneOwn
  <2> QED
    BY <1>3, <2>1, <2>2 DEF Progress, Working, Mounting
<1>6. CASE Clean(c)
  <2>1. at[c] = "clean" /\ at'[c] = "stat" /\ stack'[p] = Popped(stack[p]) /\ UNCHANGED mounts
    BY <1>1, <1>6 DEF Clean, Move, Pop
  <2>2. NoneOwn(p)'
    BY <1>1, <1>3, <2>1, PoppedOwn DEF Progress
  <2> QED
    BY <1>3, <2>1, <2>2 DEF Progress, Working, Mounting
<1>7. CASE Stat(c)
  <2>1. at[c] = "stat" /\ at'[c] \in {"spawn", "idle"} /\ UNCHANGED <<stack, mounts>>
    BY <1>1, <1>7 DEF Stat, Move
  <2>2. NoneOwn(p)'
    BY <1>1, <1>3, <2>1 DEF Progress, NoneOwn
  <2> QED
    BY <1>3, <2>1, <2>2 DEF Progress, Served, Working, Unmounting, Mounting
<1>8. CASE Spawn(c)
  <2>1. /\ at[c] = "spawn" /\ at'[c] = "insert" /\ UNCHANGED mounts
        /\ session'[c] = spawned' /\ spawned' = spawned + 1
        /\ stack'[p] = Append(stack[p], spawned')
    BY <1>1, <1>8 DEF Spawn, Move, Keep
  <2>2. NoneOwn(p) /\ first <= spawned'
    BY <1>1, <1>3, <2>1 DEF Progress, MountsInv
  <2>3. /\ stack'[p] # <<>> /\ Len(stack'[p]) = Len(stack[p]) + 1 /\ stack'[p][Len(stack[p]) + 1] = spawned'
        /\ Len(stack[p]) \in Nat /\ \A i \in 1 .. Len(stack[p]) : stack'[p][i] = stack[p][i]
    <3>1. spawned' \in Nat /\ spawned <= spawned' /\ spawned' > 0
      BY <1>1, <2>1
    <3>2. /\ stack[p] \in Seq(Leftover .. spawned') /\ Append(stack[p], spawned') \in Seq(Leftover .. spawned')
          /\ spawned' \in Leftover .. spawned'
      BY <1>1, <3>1, SessionSeqs DEF Leftover
    <3>3. Len(stack[p]) \in Nat
      BY <1>1, LenProperties
    <3> DEFINE longer == Append(stack[p], spawned')
    <3>4. /\ longer # <<>> /\ Len(longer) = Len(stack[p]) + 1 /\ longer[Len(stack[p]) + 1] = spawned'
          /\ \A i \in 1 .. Len(stack[p]) : longer[i] = stack[p][i]
      <4>1. \A seq \in Seq(Leftover .. spawned') : Append(seq, spawned') # <<>>
        BY <3>2, AppendProperties
      <4>2. \A seq \in Seq(Leftover .. spawned') :
               /\ Len(Append(seq, spawned')) = Len(seq) + 1 /\ Append(seq, spawned')[Len(seq) + 1] = spawned'
               /\ \A i \in 1 .. Len(seq) : Append(seq, spawned')[i] = seq[i]
        BY <3>2, AppendProperties
      <4> QED
        BY <3>2, <4>1, <4>2
    <3>5. stack'[p] = longer
      BY <2>1
    <3> HIDE DEF longer
    <3> QED
      BY <3>3, <3>4, <3>5
  <2>4. OnTop(p, session[c])'
    BY <1>1, <2>1, <2>2, <2>3 DEF OnTop, NoneOwn
  <2> QED
    BY <1>3, <2>1, <2>4 DEF Progress, Working, Mounting
<1>9. CASE SpawnFails(c)
  <2>1. at[c] = "spawn" /\ at'[c] = "idle" /\ UNCHANGED <<stack, mounts>>
    BY <1>1, <1>9 DEF SpawnFails, Move
  <2>2. NoneOwn(p)'
    BY <1>1, <1>3, <2>1 DEF Progress, NoneOwn
  <2> QED
    BY <1>3, <2>1, <2>2 DEF Served, Working, Unmounting, Mounting
<1>10. CASE InsertSession(c)
  <2>1. /\ at[c] = "insert" /\ at'[c] = "activate" /\ mounts'[p] = session[c] /\ UNCHANGED stack
    BY <1>1, <1>3, <1>10 DEF InsertSession, Release, Move
  <2>2. OnTop(p, session[c]) /\ session[c] # NoSession
    <3>1. OnTop(p, session[c])
      BY <1>3, <2>1 DEF Progress
    <3>2. session[c] \in Leftover .. spawned
      BY <3>1, TopRuns
    <3> QED
      BY <1>1, <3>1, <3>2 DEF NoSession, Leftover
  <2>3. Served(p)'
    BY <1>1, <2>1, <2>2 DEF Served, OnTop
  <2> QED
    BY <2>1, <2>3 DEF Working, Unmounting, Mounting
<1>11. CASE Leave(c)
  <2>1. /\ at[c] = "leave" /\ at'[c] = "leaving" /\ UNCHANGED mounts
        /\ Release(p, session[c])
    BY <1>1, <1>11 DEF Leave, Move
  <2>2. OnTop(p, session[c]) /\ session[c] # NoSession
    <3>1. OnTop(p, session[c])
      BY <1>3, <2>1 DEF Progress
    <3>2. session[c] \in Leftover .. spawned
      BY <3>1, TopRuns
    <3> QED
      BY <1>1, <3>1, <3>2 DEF NoSession, Leftover
  <2>3. stack'[p] = Popped(stack[p]) /\ session[c] \in Leftover .. spawned
    BY <1>1, <2>1, <2>2, TopRuns DEF Release, Pop
  <2>4. NoneOwn(p)'
    BY <1>1, <2>2, <2>3, PoppedOwn
  <2> QED
    BY <1>3, <2>1, <2>4 DEF Progress, Working, Unmounting, Mounting
<1>12. CASE Left(c)
  <2>1. at[c] = "leaving" /\ at'[c] = "idle" /\ stack'[p] = Popped(stack[p]) /\ UNCHANGED mounts
    BY <1>1, <1>12 DEF Left, Move, Pop
  <2>2. NoneOwn(p)'
    BY <1>1, <1>3, <2>1, PoppedOwn DEF Progress
  <2> QED
    BY <1>3, <2>1, <2>2 DEF Served, Working, Unmounting, Mounting
<1> QED
  BY <1>5, <1>6, <1>7, <1>8, <1>9, <1>10, <1>11, <1>12

\* A new process finds no session of its own.
LEMMA RestartKeeps ==
  ASSUME MountsInv, Dropped \/ Crashes
  PROVE  \A p \in Points : PointInv(p)'
<1> SUFFICES ASSUME NEW p \in Points
             PROVE  PointInv(p)'
  OBVIOUS
<1>1. /\ at' = [c \in Callers |-> "idle"] /\ mounts' = [q \in Points |-> NoSession]
      /\ first' = spawned + 1 /\ spawned' = spawned /\ spawned \in Nat
  BY DEF MountsInv, MountsTypeOK, Leftover, Dropped, Crashes, Restarts
<1>2. stack'[p] \in Seq(Leftover .. spawned)
  BY <1>1, StacksKept DEF MountsNext
<1>3. NoneOwn(p)'
  BY <1>1, <1>2, ElementOfSeq DEF NoneOwn, Leftover
<1>4. \A c \in Callers : ~Works(c, p)' /\ ~Mounts(c, p)'
  BY <1>1 DEF Works, Mounts, Working, Mounting, Unmounting
<1> QED
  BY <1>1, <1>3, <1>4 DEF PointInv, Served

\* The invariant of the mounts.
THEOREM MountsInvariant == MountsSpec => []MountsInv
<1>1. MountsInit => MountsInv
  <2> SUFFICES ASSUME MountsInit
               PROVE  MountsInv
    OBVIOUS
  <2>1. <<>> \in Seq(Leftover .. Leftover) /\ <<Leftover>> \in Seq(Leftover .. Leftover)
    BY DEF Leftover
  <2>2. \A p \in Points : stack[p] \in Seq(Leftover .. Leftover) /\ stack[p] \in Seq(Leftover .. MaxSessions)
    <3>1. Leftover \in Nat /\ MaxSessions \in Nat /\ Leftover <= MaxSessions
      BY MountAssumption DEF MountAssumption, Leftover
    <3>2. \A p \in Points : stack[p] \in Seq(Leftover .. Leftover)
      BY <2>1 DEF MountsInit
    <3> QED
      BY <3>1, <3>2, SessionSeqs
  <2>3. MountsTypeOK
    BY <2>2, MountAssumption DEF MountsInit, MountsTypeOK, MountAssumption, Leftover, NoSession
  <2>4. LockHeld
    BY DEF MountsInit, LockHeld, Unmounting
  <2>5. \A p \in Points : PointInv(p)
    BY <2>2, ElementOfSeq DEF MountsInit, PointInv, Works, Mounts, Working, Mounting, Unmounting, Served, NoneOwn,
       Leftover
  <2> QED
    BY <2>2, <2>3, <2>4, <2>5 DEF MountsInit, MountsInv, Leftover
<1>2. MountsInv /\ [MountsNext]_mountVars => MountsInv'
  <2> SUFFICES ASSUME MountsInv, [MountsNext]_mountVars
               PROVE  MountsInv'
    OBVIOUS
  <2>1. CASE UNCHANGED mountVars
    BY <2>1 DEF mountVars, MountsInv, MountsTypeOK, LockHeld, PointInv, Works, Mounts, Progress, Served, NoneOwn,
       OnTop
  <2>2. CASE MountsNext
    <3>1. ASSUME NEW c \in Callers, CallerStep(c)
          PROVE  \A p \in Points : p \notin unsure' => PointInv(p)'
      <4>1. PICK p \in Points : /\ CallerMoves(c, p)
                                /\ Mount(c, p) \/ Unmount(c, p) \/ (at[c] # "idle" /\ point[c] = p)
        BY <3>1, CallerFrame
      <4>2. CASE Mount(c, p) \/ Activate(c)
        BY <4>1, <4>2, RestingMoves, OtherPoints DEF Activate, Unmount
      <4>3. CASE Unmount(c, p) \/ Retire(c)
        BY <4>1, <4>3, TakesSession, OtherPoints DEF Retire, Mount
      <4>4. CASE at[c] # "idle" /\ point[c] = p
        BY <3>1, <4>1, <4>2, <4>3, <4>4, WorkGoesOn, OtherPoints DEF CallerStep, Mount, Unmount
      <4> QED
        BY <4>1, <4>2, <4>3, <4>4
    <3>2. ASSUME (\E p \in Points : Opens(p)) \/ (\E s \in opened : Closes(s))
          PROVE  \A p \in Points : p \notin unsure' => PointInv(p)'
      <4>1. UNCHANGED <<stack, mounts, at, point, session, spawned, first, unsure>>
        BY <3>2 DEF Opens, Closes
      <4> SUFFICES ASSUME NEW p \in Points, PointInv(p)
                   PROVE  PointInv(p)'
        BY <4>1 DEF MountsInv
      <4> QED
        BY <4>1 DEF PointInv, Works, Mounts, Progress, Served, NoneOwn, OnTop
    <3>3. \A p \in Points : p \notin unsure' => PointInv(p)'
      BY <2>2, <3>1, <3>2, RestartKeeps DEF MountsNext, MountsInv
    <3> QED
      BY <2>2, <3>3, StacksKept, MountTypesKept, LockKept DEF MountsInv
  <2> QED
    BY <2>1, <2>2
<1> QED
  BY <1>1, <1>2, PTL DEF MountsSpec

\* The state of the mounts is well formed.
THEOREM MountTypes == MountsSpec => []MountsTypeOK
BY MountsInvariant, PTL DEF MountsInv

\* list_mounts is right about every point that no call is on, whatever calls
\* overlapped on other points and wherever the process was killed before.
THEOREM ListedIsTrue == MountsSpec => []ListedIsServed
<1>1. MountsInv => ListedIsServed
  <2> SUFFICES ASSUME MountsInv, NEW p \in Points, p \notin unsure,
                      \A c \in Callers : at[c] # "idle" => point[c] # p
               PROVE  LET own == {i \in DOMAIN stack[p] : stack[p][i] >= first}
                      IN  IF mounts[p] = NoSession THEN own = {}
                          ELSE own = {Len(stack[p])} /\ Last(stack[p]) = mounts[p]
    BY DEF ListedIsServed
  <2>1. Served(p)
    BY DEF MountsInv, PointInv, Works, Working, Unmounting
  <2>2. /\ stack[p] \in Seq(Leftover .. spawned) /\ DOMAIN stack[p] = 1 .. Len(stack[p]) /\ Len(stack[p]) \in Nat
        /\ first \in Nat /\ \A i \in 1 .. Len(stack[p]) : stack[p][i] \in Nat
    BY LenProperties, ElementOfSeq DEF MountsInv, MountsTypeOK, Leftover
  <2>3. CASE mounts[p] = NoSession
    BY <2>1, <2>2, <2>3 DEF Served, NoneOwn
  <2>4. CASE mounts[p] # NoSession
    <3>1. OnTop(p, mounts[p]) /\ Len(stack[p]) > 0
      BY <2>1, <2>2, <2>4, EmptySeq DEF Served, OnTop
    <3>2. {i \in 1 .. Len(stack[p]) : stack[p][i] >= first} = {Len(stack[p])}
      BY <2>2, <3>1 DEF OnTop
    <3> QED
      BY <2>2, <2>4, <3>1, <3>2 DEF OnTop, Last
  <2> QED
    BY <2>3, <2>4
<1> QED
  BY <1>1, MountsInvariant, PTL

-----------------------------------------------------------------------------
(* The parts side by side.                                                 *)

\* A behaviour of the bridge's parts side by side is one of each part, so
\* what is proved of a part holds of all of them together.
THEOREM PartsAlone == BridgeSpec => Spec /\ TransferSpec /\ MountsSpec /\ NamesSpec /\ CodesSpec
<1>1. BridgeInit => Init /\ TransferInit /\ MountsInit /\ NamesInit /\ CodesInit
  BY DEF BridgeInit
<1>2. [BridgeNext]_bridgeVars =>
        /\ [Next]_vars /\ [TransferNext]_transferVars /\ [MountsNext]_mountVars
        /\ [NamesNext]_nameVars /\ [CodesNext]_codeVars
  BY DEF BridgeNext, bridgeVars
<1> QED
  BY <1>1, <1>2, PTL DEF BridgeSpec, Spec, TransferSpec, MountsSpec, NamesSpec, CodesSpec

\* Client, transfers, mounts, names and codes keep their types.
THEOREM PartsTypes == BridgeSpec => []PartsTypeOK
<1>1. TypeOK /\ TransferTypeOK /\ MountsTypeOK /\ NamesTypeOK /\ CodesTypeOK => PartsTypeOK
  BY DEF PartsTypeOK
<1>2. CodesInv => CodesTypeOK
  BY DEF CodesInv
<1> QED
  BY <1>1, <1>2, PartsAlone, ClientTypes, TransferTypes, MountTypes, NamesTypes, CodesInvariant, PTL

=============================================================================
