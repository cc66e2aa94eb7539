---------------------------- MODULE WriteBehind ----------------------------
(***************************************************************************)
(* The data path of a mount (crates/bridge/src/fuse_fs.rs, RemoteFs): FUSE *)
(* threads write into the local cache and queue the bytes, the flusher     *)
(* reads them back from the cache and sends them to the target, and close, *)
(* fsync, truncate, create and unlink wait for the queue.  Read misses,    *)
(* the prefetch they start and the mount-time mirror write target bytes    *)
(* into the same cache.                                                    *)
(*                                                                         *)
(* The queue is an instance of UploadQueue.  A byte's value is the number  *)
(* of the write that stored it, so newer bytes are greater: 1 is the       *)
(* target's content when the mount begins, 0 a hole or any other byte of   *)
(* an earlier mount.                                                       *)
(***************************************************************************)
EXTENDS Integers, FiniteSets, Sequences

CONSTANTS
  Paths, FileSize, CHUNK_MAX, WRITE_WINDOW, QUEUE_CAP, MaxWrites, MaxErrors, MaxDrains,
  Threads,   \* the session's FUSE threads
  Allowed,   \* which of Conditions a run lets happen
  MaxFills   \* bound: downloads into the cache in a behaviour

Conditions ==
  {"late",     \* a request the bridge gave up on can still reach the target
   "read",     \* programs read, filling the cache
   "sync",     \* the mount-time mirror is still running
   "disk",     \* the cache disk can refuse a write
   "remove",   \* other programs remove files on the target
   "left"}     \* earlier mounts left files in the cache directory

ASSUME WriteBehindAssumption ==
  /\ FileSize \in Nat /\ CHUNK_MAX \in Nat \ {0}
  /\ WRITE_WINDOW \in Nat \ {0} /\ QUEUE_CAP \in Nat
  /\ MaxWrites \in Nat /\ MaxErrors \in Nat /\ MaxDrains \in Nat
  /\ IsFiniteSet(Paths)
  /\ Allowed \subseteq Conditions
  /\ MaxFills \in Nat

VARIABLES
  dirty, inflight, blocked, dirty_bytes, inflight_bytes, errors, backoff,
  writer, drain, writes, drains,    \* the queue: see UploadQueue
  cache,     \* path -> cached file, Absent or a sequence of values
  remote,    \* path -> the target's file, likewise
  op,        \* thread -> the FUSE operation it is in
  version,   \* number of the last write
  sends,     \* WRITE_AT requests of pieces in flight
  late,      \* requests abandoned by the bridge and still under way
  fill,      \* path -> background download into the cache
  fills,     \* downloads so far (MaxFills)
  acked,     \* history: path -> byte -> newest write reported done
  floor,     \* history: thread -> byte -> acked when its drain began
  undone,    \* history: path -> byte -> newest write that is owed no more
  inherited  \* history: path -> what the cache held when the mount began

queueVars == <<dirty, inflight, blocked, dirty_bytes, inflight_bytes, errors, backoff,
               writer, drain, writes, drains>>
vars == <<queueVars, cache, remote, op, version, sends, late, fill, fills, acked, floor, undone,
          inherited>>

Queue == INSTANCE UploadQueue WITH Writers <- Threads, Drainers <- Threads

Bytes == Queue!Bytes
Value == 0 .. MaxWrites + 1
Absent == <<-1>>
File == UNION {[1 .. n -> Value] : n \in 0 .. FileSize}
Nothing == [b \in Bytes |-> 0]

Idle == [kind |-> "idle"]
NoFill == [kind |-> "none"]

Length(f) == IF f = Absent THEN 0 ELSE Len(f)

\* The bytes of f from offset s, at most to e.
Part(f, s, e) ==
  LET last == IF e < Length(f) THEN e ELSE Length(f)
  IN  [i \in 1 .. (IF last > s THEN last - s ELSE 0) |-> f[s + i]]

\* Mutant: data is appended.
Overlay_append(f, s, data) == (IF f = Absent THEN <<>> ELSE f) \o data

\* f after data is written at offset s; a gap before s reads as zeros.
Overlay(f, s, data) ==
  LET n == Length(f)
      m == IF data = <<>> THEN n ELSE IF s + Len(data) > n THEN s + Len(data) ELSE n
  IN  [i \in 1 .. m |-> IF i \in s + 1 .. s + Len(data) THEN data[i - s]
                        ELSE IF i <= n THEN f[i] ELSE 0]

\* f after set_len(n).
Resize(f, n) == [i \in 1 .. n |-> IF i <= Length(f) THEN f[i] ELSE 0]

ByteAt(f, b) == IF b < Length(f) THEN f[b + 1] ELSE 0

\* The cache directory belongs to the remote folder and the mount point, and
\* outlives mounts and processes: it can hold any part of a file, of any age,
\* holes included, or nothing.
Leftover == {Absent} \cup IF "left" \in Allowed THEN UNION {[1 .. n -> 0 .. 1] : n \in 0 .. FileSize} ELSE {}

Init ==
  /\ Queue!Init
  /\ remote \in [Paths -> {[i \in 1 .. FileSize |-> 1]}]
  /\ inherited \in [Paths -> Leftover]
  /\ cache = inherited
  /\ op = [t \in Threads |-> Idle]
  /\ version = 1
  /\ sends = {}
  /\ late = {}
  /\ fill = [p \in Paths |-> NoFill]
  /\ fills = 0
  /\ acked = [p \in Paths |-> Nothing]
  /\ floor = [t \in Threads |-> Nothing]
  /\ undone = [p \in Paths |-> Nothing]

\* History: the writes to the bytes B of p up to number v are owed no more,
\* because the program or the target's owner discarded them, the target
\* refused them, a late request undid them or they went past the cache.
Forgive(p, B, v) ==
  undone' = [undone EXCEPT ![p] = [b \in Bytes |-> IF b \in B /\ v > @[b] THEN v ELSE @[b]]]

-----------------------------------------------------------------------------
\* The kernel runs the operations that change a file one at a time, under the
\* inode's lock; flush does not take it.
Unlocked(p) ==
  \A t \in Threads : op[t].kind \in {"write", "setattr", "create", "unlink"} => op[t].path # p

\* write, first half: the bytes land in the cache file.
WriteCache(t, p, s, e) ==
  /\ op[t] = Idle /\ Unlocked(p)
  /\ version <= MaxWrites
  /\ s < e
  /\ version' = version + 1
  /\ cache' = [cache EXCEPT ![p] = Overlay(@, s, [i \in 1 .. e - s |-> version + 1])]
  /\ op' = [op EXCEPT ![t] = [kind |-> "write", path |-> p, pc |-> "cached",
                               start |-> s, end |-> e, version |-> version + 1]]
  /\ UNCHANGED <<queueVars, remote, sends, late, fill, fills, acked, floor, undone, inherited>>

\* Mutant: the writer is not registered as waiting for the backlog.
WriteEnqueue_unthrottled(t) ==
  /\ op[t].kind = "write" /\ op[t].pc = "cached"
  /\ Queue!enqueue(op[t].path, op[t].start, op[t].end)
  /\ op' = [op EXCEPT ![t] = Idle]
  /\ UNCHANGED <<writer, drain, writes, drains, cache, remote, version, sends, late, fill, fills,
                  acked, floor, undone, inherited>>

\* write, second half: the range is queued.
WriteEnqueue(t) ==
  /\ op[t].kind = "write" /\ op[t].pc = "cached"
  /\ Queue!enqueue_upload(t, op[t].path, op[t].start, op[t].end)
  /\ op' = [op EXCEPT ![t].pc = "throttled"]
  /\ UNCHANGED <<cache, remote, version, sends, late, fill, fills,
                  acked, floor, undone, inherited>>

Reported(t) ==
  acked' = [acked EXCEPT ![op[t].path] = [b \in Bytes |->
     IF b \in Queue!Interval(op[t].start, op[t].end) THEN op[t].version ELSE @[b]]]

\* write replies once the backlog is within the cap.
WriteReplies(t) ==
  /\ op[t].kind = "write" /\ op[t].pc = "throttled"
  /\ Queue!wait_below(t)
  /\ Reported(t)
  /\ op' = [op EXCEPT ![t] = Idle]
  /\ UNCHANGED <<cache, remote, version, sends, late, fill, fills, floor, undone, inherited>>

\* write when the cache cannot take the bytes: a direct WRITE_AT whose result
\* is ignored, so the target may or may not have the bytes when it replies.
WriteDirect(t, p, s, e) ==
  /\ "disk" \in Allowed
  /\ op[t] = Idle /\ Unlocked(p)
  /\ version <= MaxWrites
  /\ s < e
  /\ version' = version + 1
  /\ op' = [op EXCEPT ![t] = [kind |-> "write", path |-> p, pc |-> "direct",
                               start |-> s, end |-> e, version |-> version + 1]]
  /\ UNCHANGED <<queueVars, cache, remote, sends, late, fill, fills, acked, floor, undone, inherited>>

WriteDirectReplies(t) ==
  /\ op[t].kind = "write" /\ op[t].pc = "direct"
  /\ \/ /\ remote[op[t].path] # Absent
        /\ remote' = [remote EXCEPT ![op[t].path] =
             Overlay(@, op[t].start, [i \in 1 .. op[t].end - op[t].start |-> op[t].version])]
     \/ UNCHANGED remote
  /\ Forgive(op[t].path, Queue!Interval(op[t].start, op[t].end), op[t].version)
  /\ Reported(t)
  /\ op' = [op EXCEPT ![t] = Idle]
  /\ UNCHANGED <<queueVars, cache, version, sends, late, fill, fills, floor, inherited>>

-----------------------------------------------------------------------------
\* drain_uploads, called by thread t for path p as part of operation kind.
DrainFor(t, kind, p, size) ==
  /\ Queue!DrainBegins(t, {p})
  /\ op' = [op EXCEPT ![t] = [kind |-> kind, path |-> p, pc |-> "draining", size |-> size]]

\* flush, fsync and release.
Flush(t, p) ==
  /\ op[t] = Idle
  /\ DrainFor(t, "flush", p, 0)
  /\ floor' = [floor EXCEPT ![t] = acked[p]]
  /\ UNCHANGED <<cache, remote, version, sends, late, fill, fills, acked, undone, inherited>>

\* setattr with a size.
SetSize(t, p, n) ==
  /\ op[t] = Idle /\ Unlocked(p) /\ remote[p] # Absent
  /\ DrainFor(t, "setattr", p, n)
  /\ floor' = [floor EXCEPT ![t] = acked[p]]
  /\ UNCHANGED <<cache, remote, version, sends, late, fill, fills, acked, undone, inherited>>

Unlink(t, p) ==
  /\ op[t] = Idle /\ Unlocked(p) /\ remote[p] # Absent
  /\ DrainFor(t, "unlink", p, 0)
  /\ floor' = [floor EXCEPT ![t] = acked[p]]
  /\ UNCHANGED <<cache, remote, version, sends, late, fill, fills, acked, undone, inherited>>

\* create and mknod empty the cache file before they drain.
Create(t, p) ==
  /\ op[t] = Idle /\ Unlocked(p) /\ remote[p] = Absent
  /\ DrainFor(t, "create", p, 0)
  /\ cache' = [cache EXCEPT ![p] = <<>>]
  /\ Forgive(p, Bytes, version)
  /\ UNCHANGED <<remote, version, sends, late, fill, fills, acked, floor, inherited>>

\* One turn of wait_drain's loop, or its wait.
Draining(t) ==
  /\ Queue!DrainChecks(t) \/ Queue!DrainWakes(t) \/ Queue!DrainTimesOut(t)
  /\ UNCHANGED <<cache, remote, op, version, sends, late, fill, fills, acked, floor, undone, inherited>>

\* The drain is over: flush replies its result, the others reply the error or
\* go on with the request to the target.  unlink removes the cache file first.
DrainOver(t) ==
  /\ op[t].kind \in {"flush", "setattr", "create", "unlink"} /\ op[t].pc = "draining"
  /\ drain[t].status \in {"ok", "eio"}
  /\ LET goesOn == drain[t].status = "ok" /\ op[t].kind # "flush"
     IN  /\ op' = [op EXCEPT ![t] = IF goesOn THEN [@ EXCEPT !.pc = "request"] ELSE Idle]
         /\ cache' = IF goesOn /\ op[t].kind = "unlink" THEN [cache EXCEPT ![op[t].path] = Absent] ELSE cache
         /\ IF goesOn
            THEN Forgive(op[t].path, {b \in Bytes : op[t].kind # "setattr" \/ b >= op[t].size}, version)
            ELSE UNCHANGED undone
  /\ UNCHANGED <<queueVars, remote, version, sends, late, fill, fills, acked, floor, inherited>>

\* What TRUNCATE, WRITE_FILE with no data and REMOVE make of the file f.
Requested(o, f) ==
  CASE o.kind = "setattr" -> IF f = Absent THEN f ELSE Resize(f, o.size)
    [] o.kind = "create" -> <<>>
    [] o.kind = "unlink" -> Absent

\* The request to the target, whose result is ignored: it was carried out or
\* it failed.  setattr then resizes the cache file.
RequestOver(t) ==
  /\ op[t].kind \in {"setattr", "create", "unlink"} /\ op[t].pc = "request"
  /\ LET p == op[t].path
     IN  /\ \/ remote' = [remote EXCEPT ![p] = Requested(op[t], @)]
            \/ UNCHANGED remote
         /\ cache' = IF op[t].kind = "setattr" /\ cache[p] # Absent
                     THEN [cache EXCEPT ![p] = Resize(@, op[t].size)] ELSE cache
  /\ op' = [op EXCEPT ![t] = Idle]
  /\ UNCHANGED <<queueVars, version, sends, late, fill, fills, acked, floor, undone, inherited>>

-----------------------------------------------------------------------------
FlusherTakes ==
  /\ Queue!FlusherTakes
  /\ UNCHANGED <<cache, remote, op, version, sends, late, fill, fills, acked, floor, undone, inherited>>

BackoffEnds ==
  /\ Queue!BackoffEnds
  /\ UNCHANGED <<cache, remote, op, version, sends, late, fill, fills, acked, floor, undone, inherited>>

\* The task of a claimed piece reads its bytes from the cache as they are
\* now; a missing or short cache file is a retry.
FlusherReads(q) ==
  /\ q \in inflight
  /\ \A m \in sends : m.piece # q
  /\ LET data == Part(cache[q.path], q.start, q.end)
     IN  \/ /\ Len(data) = q.end - q.start
            /\ sends' = sends \cup {[piece |-> q, data |-> data, phase |-> "sent"]}
            /\ UNCHANGED queueVars
         \/ /\ Len(data) < q.end - q.start
            /\ Queue!SendEnds(q, "Retry")
            /\ UNCHANGED sends
  /\ UNCHANGED <<cache, remote, op, version, late, fill, fills, acked, floor, undone, inherited>>

\* The target carries out WRITE_AT, which opens the file without creating it.
TargetWrites(m) ==
  /\ m.phase = "sent"
  /\ LET p == m.piece.path
         there == remote[p] # Absent
     IN  /\ remote' = IF there THEN [remote EXCEPT ![p] = Overlay(@, m.piece.start, m.data)] ELSE remote
         /\ sends' = (sends \ {m}) \cup {[m EXCEPT !.phase = IF there THEN "written" ELSE "refused"]}
  /\ UNCHANGED <<queueVars, cache, op, version, late, fill, fills, acked, floor, undone, inherited>>

\* The target's answer arrives: success, or an error send_fatal recognises.
SendAnswered(m) ==
  /\ m.phase \in {"written", "refused"}
  /\ Queue!SendEnds(m.piece, IF m.phase = "written" THEN "Sent" ELSE "Drop")
  /\ sends' = sends \ {m}
  /\ undone' = IF m.phase = "written" THEN undone
               ELSE [undone EXCEPT ![m.piece.path] = [b \in Bytes |->
                       IF b \in Queue!Payload(m.piece) /\ m.data[b - m.piece.start + 1] > @[b]
                       THEN m.data[b - m.piece.start + 1] ELSE @[b]]]
  /\ UNCHANGED <<cache, remote, op, version, late, fill, fills, acked, floor, inherited>>

\* Mutant: every failed send is final.
SendFails_drops(m) ==
  /\ Queue!SendEnds(m.piece, "Drop")
  /\ sends' = sends \ {m}
  /\ UNCHANGED <<cache, remote, op, version, late, fill, fills, acked, floor, undone, inherited>>

\* call_timeout gives up or the connection breaks: the request or its answer
\* is lost, or the request is still on its way.
SendFails(m) ==
  /\ Queue!SendEnds(m.piece, "Retry")
  /\ sends' = sends \ {m}
  /\ \/ UNCHANGED late
     \/ /\ "late" \in Allowed
        /\ m.phase = "sent"
        /\ late' = late \cup {m}
  /\ UNCHANGED <<cache, remote, op, version, fill, fills, acked, floor, undone, inherited>>

\* The target handles an abandoned request; nobody waits for its answer.
LateArrives(m) ==
  /\ late' = late \ {m}
  /\ LET p == m.piece.path
     IN  IF remote[p] = Absent THEN UNCHANGED <<remote, undone>>
         ELSE /\ remote' = [remote EXCEPT ![p] = Overlay(@, m.piece.start, m.data)]
              /\ undone' = [undone EXCEPT ![p] = [b \in Bytes |->
                   IF b \in Queue!Payload(m.piece) /\ ByteAt(remote[p], b) > @[b]
                   THEN ByteAt(remote[p], b) ELSE @[b]]]
  /\ UNCHANGED <<queueVars, cache, op, version, sends, fill, fills, acked, floor, inherited>>

\* Another program removes the file on the target.
TargetRemoves(p) ==
  /\ "remove" \in Allowed
  /\ remote[p] # Absent
  /\ remote' = [remote EXCEPT ![p] = Absent]
  /\ Forgive(p, Bytes, version)
  /\ UNCHANGED <<queueVars, cache, op, version, sends, late, fill, fills, acked, floor, inherited>>

-----------------------------------------------------------------------------
\* read past the end of the cached prefix: READ_FILE returns the target's
\* bytes from offset s.  An empty cache file answers a read at 0 by itself.
ReadMiss(t, p, s) ==
  /\ "read" \in Allowed
  /\ op[t] = Idle /\ remote[p] # Absent
  /\ s >= Length(cache[p]) /\ ~(cache[p] = <<>> /\ s = 0)
  /\ fills < MaxFills
  /\ fills' = fills + 1
  /\ \E e \in s .. FileSize :
       op' = [op EXCEPT ![t] = [kind |-> "read", path |-> p, start |-> s, data |-> Part(remote[p], s, e)]]
  /\ UNCHANGED <<queueVars, cache, remote, version, sends, late, fill, acked, floor, undone, inherited>>

\* Mutant: whatever was fetched is cached.
Extends_any(p, start) == TRUE

\* Bytes fetched from offset start extend the cached prefix.
Extends(p, start) == start <= Length(cache[p])

\* The prefetch of p starts unless one is running.
kick_prefetch(p) ==
  fill' = IF fill[p] = NoFill THEN [fill EXCEPT ![p] = [kind |-> "prefetch", pc |-> "stat"]] ELSE fill

\* The fetched bytes go into the cache if they extend its prefix, and the
\* rest of the file is then prefetched.
ReadStores(t) ==
  /\ op[t].kind = "read"
  /\ LET p == op[t].path
     IN  \/ /\ Extends(p, op[t].start)
            /\ cache' = [cache EXCEPT ![p] = Overlay(@, op[t].start, op[t].data)]
            /\ kick_prefetch(p)
         \/ /\ ~Extends(p, op[t].start)
            /\ UNCHANGED <<cache, fill>>
  /\ op' = [op EXCEPT ![t] = Idle]
  /\ UNCHANGED <<queueVars, remote, version, sends, late, fills, acked, floor, undone, inherited>>

\* prefetch_tail fetches everything past the end of the cache file.
PrefetchFetches(p) ==
  /\ fill[p].kind = "prefetch" /\ fill[p].pc = "stat"
  /\ LET from == Length(cache[p])
         data == Part(remote[p], from, FileSize)
     IN  fill' = [fill EXCEPT ![p] = IF data = <<>> THEN NoFill
                                     ELSE [kind |-> "prefetch", pc |-> "store", start |-> from, data |-> data]]
  /\ UNCHANGED <<queueVars, cache, remote, op, version, sends, late, fills, acked, floor, undone, inherited>>

\* It stores the chunks in order of offset, and stops early on an error.
PrefetchStores(p) ==
  /\ fill[p].kind = "prefetch" /\ fill[p].pc = "store"
  /\ LET rest == Tail(fill[p].data)
     IN  \/ /\ cache' = [cache EXCEPT ![p] = Overlay(@, fill[p].start, <<Head(fill[p].data)>>)]
            /\ fill' = [fill EXCEPT ![p] = IF rest = <<>> THEN NoFill
                                           ELSE [@ EXCEPT !.start = fill[p].start + 1, !.data = rest]]
         \/ /\ fill' = [fill EXCEPT ![p] = NoFill]
            /\ UNCHANGED cache
  /\ UNCHANGED <<queueVars, remote, op, version, sends, late, fills, acked, floor, undone, inherited>>

\* background_sync_folder downloads a file whose size differs from the cached
\* one into a temporary file, and renames that over the cache file.
SyncFetches(p) ==
  /\ "sync" \in Allowed
  /\ fill[p] = NoFill /\ fills < MaxFills
  /\ remote[p] # Absent
  /\ cache[p] = Absent \/ Length(cache[p]) # Length(remote[p])
  /\ fills' = fills + 1
  /\ fill' = [fill EXCEPT ![p] = [kind |-> "sync", data |-> remote[p]]]
  /\ UNCHANGED <<queueVars, cache, remote, op, version, sends, late, acked, floor, undone, inherited>>

SyncStores(p) ==
  /\ fill[p].kind = "sync"
  /\ fill' = [fill EXCEPT ![p] = NoFill]
  /\ \/ cache' = [cache EXCEPT ![p] = fill[p].data]
     \/ UNCHANGED cache
  /\ UNCHANGED <<queueVars, remote, op, version, sends, late, fills, acked, floor, undone, inherited>>

-----------------------------------------------------------------------------
ThreadStep(t) ==
  \/ \E p \in Paths, s \in Bytes, e \in 1 .. FileSize : WriteCache(t, p, s, e) \/ WriteDirect(t, p, s, e)
  \/ WriteEnqueue(t) \/ WriteReplies(t) \/ WriteDirectReplies(t)
  \/ \E p \in Paths : Flush(t, p) \/ Unlink(t, p) \/ Create(t, p)
  \/ \E p \in Paths, n \in 0 .. FileSize : SetSize(t, p, n)
  \/ Draining(t) \/ DrainOver(t) \/ RequestOver(t)
  \/ \E p \in Paths, s \in Bytes : ReadMiss(t, p, s)
  \/ ReadStores(t)

FlusherStep ==
  \/ FlusherTakes
  \/ BackoffEnds
  \/ \E q \in inflight : FlusherReads(q)
  \/ \E m \in sends : TargetWrites(m) \/ SendAnswered(m) \/ SendFails(m)

Next ==
  \/ \E t \in Threads : ThreadStep(t)
  \/ FlusherStep
  \/ \E m \in late : LateArrives(m)
  \/ \E p \in Paths : TargetRemoves(p)
  \/ \E p \in Paths : PrefetchFetches(p) \/ PrefetchStores(p) \/ SyncFetches(p) \/ SyncStores(p)

Spec == Init /\ [][Next]_vars

-----------------------------------------------------------------------------
\* The type invariant.
TypeOK ==
  /\ Queue!TypeOK
  /\ cache \in [Paths -> File \cup {Absent}]
  /\ remote \in [Paths -> File \cup {Absent}]
  /\ version \in 1 .. MaxWrites + 1
  /\ \A m \in sends : m.piece \in inflight /\ Len(m.data) = m.piece.end - m.piece.start
  /\ acked \in [Paths -> [Bytes -> Value]]
  /\ floor \in [Threads -> [Bytes -> Value]]
  /\ undone \in [Paths -> [Bytes -> Value]]
  /\ inherited \in [Paths -> Leftover]

\* The mount uses the queue only as UploadQueue allows, so what holds of every
\* behaviour of the queue holds here.
QueueSpec == Queue!Spec

\* "close() must not return before this file's data reached the target"
\* (fuse_fs.rs:1299): when flush or fsync reports success, the target holds,
\* for every byte, the write reported done before it began or a newer one.
\* Writes the program discarded by truncating or removing the file are not
\* owed, nor bytes the target refused.
FlushDelivers ==
  [][\A t \in Threads :
       op[t].kind = "flush" /\ drain[t].status = "check" /\ drain'[t].status = "ok" =>
         \A b \in Bytes : \/ ByteAt(remote[op[t].path], b) >= floor[t][b]
                         \/ undone[op[t].path][b] >= floor[t][b]]_vars

\* Uploads keep the "byte order for rewrites" (fuse_fs.rs:436): no byte of the
\* target's file goes back to an older write from one that is still owed.  Not
\* owed are the writes that were discarded, and those the code does lose: what
\* a request undid that was given up on and came late, and what was written
\* past a cache that cannot take it.
NeverGoesBack ==
  [][\A p \in Paths, b \in Bytes :
       \/ ByteAt(remote'[p], b) >= ByteAt(remote[p], b)
       \/ undone'[p][b] >= ByteAt(remote[p], b)]_vars

\* "read() trusts the cache file length as a valid prefix" (fuse_fs.rs:742):
\* as long as a file is only read, whatever downloads of it overlap, every
\* byte of its cache file is the target's byte, never a hole of zeros, but
\* for the bytes that an earlier mount left and no download has replaced.
CachedPrefixValid ==
  \A p \in Paths :
    version = 1 /\ drains = 0 /\ remote[p] # Absent =>
      \A b \in Bytes : b < Length(cache[p]) =>
        \/ ByteAt(cache[p], b) = ByteAt(remote[p], b)
        \/ (b < Length(inherited[p]) /\ ByteAt(cache[p], b) = ByteAt(inherited[p], b))

=============================================================================
