---------------------------- MODULE UploadQueue ----------------------------
(***************************************************************************)
(* The write-behind upload queue of a relayfs mount                        *)
(* (crates/bridge/src/fuse_fs.rs, UploadQueue): FUSE writers enqueue dirty *)
(* byte ranges, the flusher claims batches of them and sends each piece in *)
(* a WRITE_AT request, and flush/fsync/release wait for the queue to       *)
(* drain.  Every operation of the queue runs under its one mutex, so each  *)
(* is one action here.                                                     *)
(*                                                                         *)
(* A range list (sorted, disjoint, non-adjacent) is the set of bytes it    *)
(* covers (module ByteRanges); module RangeList checks that the code's     *)
(* loops over lists compute the same.                                      *)
(***************************************************************************)
EXTENDS ByteRanges

CONSTANTS
  Paths,         \* remote paths of the mount
  WRITE_WINDOW,  \* most bytes in flight
  QUEUE_CAP,     \* dirty bytes above which writers wait
  Writers,       \* FUSE threads that write
  Drainers,      \* FUSE threads that flush, fsync or release
  MaxWrites,     \* bound: enqueues in a behaviour
  MaxErrors,     \* bound: failed sends in a behaviour
  MaxDrains      \* bound: drains in a behaviour

ASSUME QueueAssumption ==
  /\ WRITE_WINDOW \in Nat \ {0}
  /\ QUEUE_CAP \in Nat
  /\ MaxWrites \in Nat
  /\ MaxErrors \in Nat
  /\ MaxDrains \in Nat
  /\ IsFiniteSet(Paths)

VARIABLES
  dirty,           \* path -> bytes waiting to be claimed
  inflight,        \* pieces inside a WRITE_AT request
  blocked,         \* paths whose dirty bytes must wait for sends in flight
  dirty_bytes,     \* the queue's own count of dirty bytes
  inflight_bytes,  \* the queue's own count of bytes in flight
  errors,          \* failed sends so far
  backoff,         \* now < retry_after
  writer,          \* writer -> "idle" or "waiting" (inside wait_below)
  drain,           \* drainer -> its call of wait_drain
  writes,          \* enqueues so far (MaxWrites)
  drains           \* drains so far (MaxDrains)

queueVars == <<dirty, inflight, blocked, dirty_bytes, inflight_bytes, errors, backoff>>
clientVars == <<writer, drain, writes, drains>>
vars == <<queueVars, clientVars>>

Piece == {q \in [path : Paths, start : Bytes, end : 1 .. FileSize] : q.start < q.end}

Payload(q) == Interval(q.start, q.end)

\* Mutant: only a range inside the piece counts as a rewrite of it.
Overlap_inside(s, e, q) == q.start <= s /\ e <= q.end

Overlap(s, e, q) == s < q.end /\ q.start < e

SendOutcome == {"Sent", "Retry", "Drop"}

\* The calls of wait_drain: status and, while it runs, its paths and the
\* error count it started from.  lost is a history flag: one of the paths
\* lost a piece to outcome Drop while the drain was waiting.
Drain == [status : {"idle", "check", "wait", "ok", "eio"},
          paths : SUBSET Paths,
          start_errors : 0 .. MaxErrors,
          lost : BOOLEAN]

NoDrain == [status |-> "idle", paths |-> {}, start_errors |-> 0, lost |-> FALSE]

-----------------------------------------------------------------------------
\* Mutant: the counter is not taken down.
saturating_sub_none(m, n) == m

\* The subtraction of unsigned counters that stops at zero.
saturating_sub(m, n) == IF m > n THEN m - n ELSE 0

Init ==
  /\ dirty = [p \in Paths |-> {}]
  /\ inflight = {}
  /\ blocked = {}
  /\ dirty_bytes = 0
  /\ inflight_bytes = 0
  /\ errors = 0
  /\ backoff = FALSE
  /\ writer = [w \in Writers |-> "idle"]
  /\ drain = [d \in Drainers |-> NoDrain]
  /\ writes = 0
  /\ drains = 0

\* enqueue: [s, e) of p becomes dirty; p is blocked if a send in flight
\* overlaps it.
enqueue(p, s, e) ==
  /\ blocked' = IF \E q \in inflight : q.path = p /\ Overlap(s, e, q)
                THEN blocked \cup {p} ELSE blocked
  /\ dirty_bytes' = dirty_bytes + merge_range(dirty[p], s, e)
  /\ dirty' = [dirty EXCEPT ![p] = @ \cup Interval(s, e)]
  /\ UNCHANGED <<inflight, inflight_bytes, errors, backoff>>

\* The bytes claimed when the front of each unblocked path's dirty bytes is
\* taken up to cut.
Claim(cut) ==
  [p \in Paths |-> IF p \in blocked THEN {} ELSE {b \in dirty[p] : b < cut[p]}]

\* Mutant: every piece is taken to be a whole chunk.
Pieces_whole(p, S) == {[path |-> p, start |-> c[1], end |-> c[1] + CHUNK_MAX] : c \in Chunks(S)}

\* The WRITE_AT requests that carry the bytes S of p.
Pieces(p, S) == {[path |-> p, start |-> c[1], end |-> c[2]] : c \in Chunks(S)}

PathBytes(f) == {pb \in Paths \X Bytes : pb[2] \in f[pb[1]]}

\* take_batch: the paths are visited in the order of a hash map, each until
\* its dirty bytes or the window are used up, so at most one path is left
\* with part of its bytes.  Nothing is taken in backoff or with a full window.
take_batch ==
  /\ ~backoff
  /\ UNCHANGED <<blocked, errors, backoff>>
  /\ \E cut \in [Paths -> 0 .. FileSize] :
       LET claim == Claim(cut)
           total == Cardinality(PathBytes(claim))
           window_left == saturating_sub(WRITE_WINDOW, inflight_bytes)
       IN  /\ 0 < total
           /\ total <= window_left
           /\ \/ total = window_left
              \/ \A p \in Paths \ blocked : claim[p] = dirty[p]
           /\ \A p, r \in Paths \ blocked :
                claim[p] \notin {{}, dirty[p]} /\ claim[r] \notin {{}, dirty[r]} => p = r
           /\ dirty' = [p \in Paths |-> dirty[p] \ claim[p]]
           /\ inflight' = inflight \cup UNION {Pieces(p, claim[p]) : p \in Paths}
           /\ dirty_bytes' = saturating_sub(dirty_bytes, total)
           /\ inflight_bytes' = inflight_bytes + total

\* Mutants: the path is unblocked although another piece of it is in flight,
\* or never.
unblock_always(q) == blocked \ {q.path}
unblock_never(q) == blocked

\* What remains blocked when the send of q ends: its path is unblocked once
\* nothing of it is in flight.
unblock(q) ==
  IF \E r \in inflight \ {q} : r.path = q.path THEN blocked ELSE blocked \ {q.path}

\* finish: the outcome of the send of piece q.  A retry puts the piece back
\* and starts the backoff, a drop only counts as an error.
finish(q, outcome) ==
  /\ q \in inflight
  /\ inflight' = inflight \ {q}
  /\ inflight_bytes' = saturating_sub(inflight_bytes, q.end - q.start)
  /\ \/ /\ outcome = "Sent"
        /\ backoff' = FALSE
        /\ UNCHANGED <<dirty, dirty_bytes, errors>>
     \/ /\ outcome = "Retry"
        /\ errors < MaxErrors
        /\ errors' = errors + 1
        /\ backoff' = TRUE
        /\ dirty_bytes' = dirty_bytes + merge_range(dirty[q.path], q.start, q.end)
        /\ dirty' = [dirty EXCEPT ![q.path] = @ \cup Payload(q)]
     \/ /\ outcome = "Drop"
        /\ errors < MaxErrors
        /\ errors' = errors + 1
        /\ UNCHANGED <<dirty, dirty_bytes, backoff>>
  /\ blocked' = unblock(q)

-----------------------------------------------------------------------------
\* A FUSE write hands its range to the queue and then waits in wait_below.
enqueue_upload(w, p, s, e) ==
  /\ writer[w] = "idle"
  /\ writes < MaxWrites
  /\ s < e
  /\ enqueue(p, s, e)
  /\ writer' = [writer EXCEPT ![w] = "waiting"]
  /\ writes' = writes + 1
  /\ UNCHANGED <<drain, drains>>

\* wait_below: the writer goes on once the backlog is within the cap.
wait_below(w) ==
  /\ writer[w] = "waiting"
  /\ dirty_bytes <= QUEUE_CAP
  /\ writer' = [writer EXCEPT ![w] = "idle"]
  /\ UNCHANGED <<queueVars, drain, writes, drains>>

\* The flusher's next batch.
FlusherTakes ==
  /\ UNCHANGED clientVars
  /\ take_batch

\* A send ends.  A drain waiting on a path that loses a piece notes it.
SendEnds(q, outcome) ==
  /\ UNCHANGED <<writer, writes, drains>>
  /\ finish(q, outcome)
  /\ drain' = [d \in Drainers |->
       IF outcome = "Drop" /\ drain[d].status \in {"check", "wait"} /\ q.path \in drain[d].paths
       THEN [drain[d] EXCEPT !.lost = TRUE] ELSE drain[d]]

\* retry_after passes.
BackoffEnds ==
  /\ backoff
  /\ backoff' = FALSE
  /\ UNCHANGED <<dirty, inflight, blocked, dirty_bytes, inflight_bytes, errors, clientVars>>

\* wait_drain notes the error count before its loop.
DrainBegins(d, paths) ==
  /\ drain[d].status \in {"idle", "ok", "eio"}
  /\ drains < MaxDrains
  /\ paths # {}
  /\ drain' = [drain EXCEPT ![d] = [status |-> "check", paths |-> paths,
                                     start_errors |-> errors, lost |-> FALSE]]
  /\ drains' = drains + 1
  /\ UNCHANGED <<queueVars, writer, writes>>

Pending(p) == dirty[p] # {} \/ \E q \in inflight : q.path = p

\* One turn of wait_drain's loop: nothing pending is success, then a send
\* that failed since the start is an error, else wait.
DrainChecks(d) ==
  /\ drain[d].status = "check"
  /\ LET pending == \E p \in drain[d].paths : Pending(p)
         failed == errors > drain[d].start_errors
     IN  drain' = [drain EXCEPT ![d].status =
           IF ~pending THEN "ok" ELSE IF failed THEN "eio" ELSE "wait"]
  /\ UNCHANGED <<queueVars, writer, writes, drains>>

\* Mutant: a drain wakes only while something is pending, so that it misses
\* the notification of the last send.
DrainWakes_pending(d) ==
  /\ drain[d].status = "wait"
  /\ \E p \in drain[d].paths : Pending(p)
  /\ drain' = [drain EXCEPT ![d].status = "check"]
  /\ UNCHANGED <<queueVars, writer, writes, drains>>

\* The select of wait_drain: a notification or the 250 ms poll starts another
\* turn, the deadline ends the drain.
DrainWakes(d) ==
  /\ drain[d].status = "wait"
  /\ drain' = [drain EXCEPT ![d].status = "check"]
  /\ UNCHANGED <<queueVars, writer, writes, drains>>

DrainTimesOut(d) ==
  /\ drain[d].status = "wait"
  /\ drain' = [drain EXCEPT ![d].status = "eio"]
  /\ UNCHANGED <<queueVars, writer, writes, drains>>

Next ==
  \/ \E w \in Writers, p \in Paths, s \in Bytes, e \in 1 .. FileSize : enqueue_upload(w, p, s, e)
  \/ \E w \in Writers : wait_below(w)
  \/ FlusherTakes
  \/ \E q \in inflight, outcome \in SendOutcome : SendEnds(q, outcome)
  \/ BackoffEnds
  \/ \E d \in Drainers, paths \in SUBSET Paths : DrainBegins(d, paths)
  \/ \E d \in Drainers : DrainChecks(d) \/ DrainWakes(d) \/ DrainTimesOut(d)

Spec == Init /\ [][Next]_vars

\* The flusher and the waiters poll at least every 250 ms, retry_after is an
\* instant, and a send ends by its answer or by FUSE_TIMEOUT.  Nothing makes
\* a program write or flush, and no drain is assumed to reach its deadline.
Fairness ==
  /\ WF_vars(FlusherTakes)
  /\ WF_vars(BackoffEnds)
  /\ WF_vars(\E q \in inflight, outcome \in SendOutcome : SendEnds(q, outcome))
  /\ \A w \in Writers : WF_vars(wait_below(w))
  /\ \A d \in Drainers : WF_vars(DrainChecks(d) \/ DrainWakes(d))

FairSpec == Spec /\ Fairness

-----------------------------------------------------------------------------
\* The type invariant.
TypeOK ==
  /\ dirty \in [Paths -> SUBSET Bytes]
  /\ inflight \subseteq Piece
  /\ blocked \subseteq Paths
  /\ dirty_bytes \in Nat
  /\ inflight_bytes \in Nat
  /\ errors \in 0 .. MaxErrors
  /\ backoff \in BOOLEAN
  /\ writer \in [Writers -> {"idle", "waiting"}]
  /\ drain \in [Drainers -> Drain]
  /\ writes \in 0 .. MaxWrites
  /\ drains \in 0 .. MaxDrains

\* At most one WRITE_AT in flight holds a given byte of a file, whatever is
\* rewritten, retried or claimed meanwhile: two sends of one byte could land
\* on the target in either order.
OneSendPerByte ==
  \A q, r \in inflight :
    q.path = r.path /\ Payload(q) \cap Payload(r) # {} => q = r

\* A path whose dirty bytes include a byte in flight is blocked, so the newer
\* bytes are not claimed before the older send has landed.
RewritesWait ==
  \A q \in inflight :
    q.path \notin blocked => dirty[q.path] \cap Payload(q) = {}

\* A path is blocked only while one of its sends is in flight, whose end will
\* unblock it.
BlockedHasSend ==
  \A p \in blocked : \E q \in inflight : q.path = p

InflightBytes == {pb \in Paths \X Bytes : \E q \in inflight : q.path = pb[1] /\ pb[2] \in Payload(q)}

\* The window really bounds the payload bytes in flight: the counter that
\* take_batch and finish keep is the number of those bytes, and stays within
\* WRITE_WINDOW.
WindowHolds ==
  /\ inflight_bytes = Cardinality(InflightBytes)
  /\ inflight_bytes <= WRITE_WINDOW

\* dirty_bytes never falls below the bytes that are really dirty, so writers
\* are held back at least as early as QUEUE_CAP asks.
BacklogNotUnderstated == dirty_bytes >= Cardinality(PathBytes(dirty))

\* Everything queued is eventually sent or dropped once writes and failures
\* stop: no path stays blocked, no byte stays dirty.
EverythingLeaves == <>[](\A p \in Paths : ~Pending(p))

\* A drain returns even if its deadline never comes: what it waits for is
\* sent, dropped, or fails and is counted.
DrainReturns ==
  \A d \in Drainers : drain[d].status \in {"check", "wait"} ~> drain[d].status \in {"ok", "eio"}

-----------------------------------------------------------------------------
\* "Backpressure: block while the dirty backlog exceeds `cap`"
\* (fuse_fs.rs:617): a writer held back goes on once the backlog is sent.
WriterGoesOn == \A w \in Writers : writer[w] = "waiting" ~> writer[w] = "idle"

\* Outcome Drop must "surface the error to any waiting drain"
\* (fuse_fs.rs:381): a drain whose path lost a piece does not succeed.
DropSurfaces == \A d \in Drainers : drain[d].lost => drain[d].status # "ok"

=============================================================================
