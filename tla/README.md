# A verification development for relayfs

relayfs lets a program work on a remote machine: it runs commands there, moves
files, and mounts the machine's file system. Three processes take part. The
*agent* runs on the target and opens a WebSocket to the *relay*; the *bridge*
(the MCP server, which may also mount the target with FUSE) opens another one;
the relay passes requests from bridges to agents and responses back. This
directory models the parts of it with logic of their own, checks the models
with TLC and proves theorems about them with TLAPS. `PROJECT.json` maps every
definition to the lines it models, and lists the runs, the mutants (a plausible
bug for each property, which the property catches), the hazards, the findings
and the theorems.

Run a check with `tlc -workers 2 -config X.cfg M`, a proof with `tlapm M.tla`.

## 1. Inventory

| Component | Source (`src/crates/`) | State it keeps | Operations | What makes it correct |
|---|---|---|---|---|
| Upload queue | `bridge/src/fuse_fs.rs` 366-631 | dirty ranges per path, pieces in flight, blocked paths, two byte counters, error count, backoff | `enqueue`, `take_batch`, `finish`, `wait_drain`, `wait_below` | a byte is never in two sends at once; rewrites wait; the window and the backlog counter are right; everything leaves; drains return |
| Mount data path | `bridge/src/fuse_fs.rs` 120-235, 633-1720; `agent/src/files.rs` | cache files, prefetch set; the target's files | `write`, `flush`, `fsync`, `release`, `setattr`, `create`, `mknod`, `unlink`, `read`, prefetch, mirror, flusher | close delivers; bytes never go back; the cache is a valid prefix |
| Names of a mount | `bridge/src/fuse_fs.rs` 240-360, 830-1160, 1500-1720; `agent/src/files.rs` | the directory in the cache and at the target, inode map, the kernel's entries | `lookup`, `getattr`, `readdir`, `create`, `mknod`, `symlink`, `mkdir`, `unlink`, `rmdir`, `rename` | a lookup reports what the target has |
| Agent commands | `agent/src/commands.rs` | `AgentState.commands`, `results`, one mutex each; the children | `run_command` in two modes, `get_command_result`, deadline, `kill_all` | a tracked command's shell can always be found and killed; done means that it ended; the mutex comes free |
| Agent connection | `agent/src/conn.rs`, `agent/src/lib.rs` | one connection, one task per request | handshake, read loop, `dispatch`, reconnection | the agent comes back after every loss |
| Bridge RPC client | `bridge/src/client.rs` | `pending` map, sink, `agent_id`, id counter | `call`, `call_timeout`, `read_loop`, `supervisor`, `open_connection`, keepalive | no leaked entry, no lost response, timed calls return |
| Relay | `relay/src/lib.rs` | token → agents, token → bridges | registration, ack, routing, broadcast, `list_targets`, cleanup | unique ids, exact maps, every request answered, to the connection of its client that made it |
| Agent file operations | `agent/src/files.rs` | the target's files | `write_at`, `truncate`, `write_file`, `read_file`, `remove`, ... | as the mount uses them |
| Transfer tools | `bridge/src/mcp.rs` 342-540 | a remote and a local temporary file | `upload_file`, `download_file` | a failed transfer leaves the old file, whole as far as nothing was lost from disk |
| MCP tools | `bridge/src/mcp.rs`, the rest | none | one RPC each | none of their own |
| HTTP and OAuth | `bridge/src/http.rs` | authorization codes | login, token exchange, cleanup | a code is used once and expires |
| Backoff and framing | `rpc/src/lib.rs` | attempt count | delay schedule | bounded and monotone |
| Mount manager | `bridge/src/fuse_fs.rs` 1722-1862 | map of mounted sessions, `active_paths`; the kernel's mounts | `mount`, `unmount`, `list`, `drop` | what it lists is what is mounted |
| Protocol types, entry points, skill text | `protocol`, `relayfs`, `skill` | none | none | none |

How they interact: a FUSE thread writes to the cache and enqueues the range;
the flusher claims batches, reads the bytes back from the cache and sends each
piece with `call_timeout(WRITE_AT)`; `call` puts an entry in `pending`, sends a
frame on the one sink and waits on a oneshot channel; the relay looks for the
agent of the bridge's token and forwards the frame; the agent handles each
request in a task of its own and sends the response; the relay broadcasts it to
all bridges of the token; `read_loop` hands it to the call.

All frames of a process go out through one sink with one lock, and a send waits
while the socket is full. `upload_file`, `download_file` and the mount's
operations on names are sequences of such calls; several of them, of several
threads and bridges, meet on the target's files. The kernel caches what a lookup
reported and uses inode numbers later.

Hard behaviours: FUSE threads, flusher tasks, drains, prefetch and mirror share
the cache and the queue; a rewrite meets its own older bytes in flight; sends
fail, are retried, or are given up while still under way; the agent's tasks and
the disconnect handler share one mutex that is held across a wait for a child;
the client's map and sink have a lock each, so three parties interleave between
them; the relay looks up, announces and acknowledges peers in separate steps of
several tasks; connections end at any point, and a request whose call failed may
still be carried out; tools called at the same time meet at one mount point or
authorization code; full sockets make the readers of both peers and the relay
wait for each other. `PROJECT.json` "hazards" lists
these at their lines with the property that watches each.

## 2. Modules

| Module | What it is |
|---|---|
| `ByteRanges` | half-open ranges of one file as sets of bytes: what `merge_range` returns, how a claim is cut into pieces |
| `UploadQueue` | the queue, its writers and drains: one action per operation |
| `RangeList` | the code's two loops over a range list, turn by turn |
| `WriteBehind` | the data path of a mount, which contains an `INSTANCE` of `UploadQueue` |
| `MountNames` | the names of one directory in the cache, at the target and in the kernel |
| `MountManager` | mounting and unmounting, with the kernel's stack of mounts |
| `AgentCommands` | `run_command` tasks, the mutex, deadlines, disconnects |
| `AgentClient` | calls, read loop and supervisor of the bridge, with relay and agent as environment |
| `RelayHub` | the relay's tasks and maps, with the bridge's reading end |
| `Sockets` | the four sockets between bridge, relay and agent, and who waits for room in them |
| `AtomicReplace` | what `upload_file` promises of the file it replaces |
| `FileTransfer` | `upload_file` and `download_file` with the agent's handlers; implements `AtomicReplace` |
| `AuthCodes` | the map of pending authorization codes |
| `ByteRangesProofs`, `UploadQueueProofs`, `WriteBehindProofs`, `AgentCommandsProofs`, `AgentClientProofs`, `RelayHubProofs`, `FileTransferProofs` | the theorems about the module of that name (`UploadQueueProofs` also has those about the code's lists, `RelayHubProofs` those about `Sockets`) |
| `BridgeProofs` | the theorems about `AuthCodes`, `MountNames` and `MountManager`, and about the parts of `MCBridge` side by side |
| `MC*` | instances for TLC |

`MCBridge` puts `AgentClient`, `FileTransfer`, `MountManager`, `MountNames` and
`AuthCodes` side by side, `MCRelayHub` puts `RelayHub` and `Sockets`: what is side
by side shares no state, so a behaviour of the instance is one of one part
(`part`) in which the others stand still. The
parts that do share state are composed in earnest: `WriteBehind` contains the
queue, `RelayHub` has the relay's tasks with both ends of its connections, and
`FileTransfer` the tools with the agent's handlers.

### UploadQueue and ByteRanges

`QueueState` is `dirty`, `inflight`, `blocked`, `dirty_bytes`,
`inflight_bytes`, `errors`; `retry_after` is the Boolean `backoff` (now is
before it). Every operation of the code runs under the queue's one mutex, so
each is one action: `enqueue_upload` (with `enqueue`) and `wait_below` for
writers, `FlusherTakes` (`take_batch`), `SendEnds` (`finish` with each
`SendOutcome`), `DrainBegins`, `DrainChecks`, `DrainWakes`, `DrainTimesOut` for
the turns of `wait_drain`. A sorted, disjoint, non-adjacent list is determined
by the bytes it covers, so `dirty` maps a path to a set of bytes. `merge_range`
keeps what the code *returns*: the length of the merged range less the covered
part of the argument, which is more than the new bytes when ranges join.
`take_batch` may visit the paths in any order (the code iterates a hash map),
so it may claim any amounts in which at most one path is left with part of its
bytes. `MaxErrors` bounds failed sends, `MaxWrites` enqueues, `MaxDrains` drains.

`RangeList` has the loops as they are written, on sequences: a loop is a function
from the number of turns made to its variables. `MergeIsUnion` and `TakeIsChunks`
compare them with the sets of `ByteRanges`, for the list of every dirty path: TLC
on the lists of the run, and the theorems on every list, so that what is proved
of the sets is about the lists.

### WriteBehind

A byte's value is the number of the write that stored it, so "older" and "newer"
are comparisons; 1 is the target's original content, and 0 any other byte that
no write of this mount stored: a hole, or what the file held in an earlier
mount. The cache directory belongs to the pair of remote directory and mount
point and is never emptied, so a mount begins with any cache (`Leftover`, under
the condition `left`), which `inherited` remembers. A FUSE operation is a short
program per thread (`op`): a write lands in the cache, is enqueued, and waits;
`flush`, `setattr`, `create`, `unlink` wait for their drain and then send their
request. The flusher's piece is read from the cache when its task runs
(`FlusherReads`), not when it is claimed. `ReadMiss` and `ReadStores`,
`PrefetchFetches` and `PrefetchStores`, `SyncFetches` and `SyncStores` fetch and
store in two steps each. The constant `Allowed` names the conditions of a run:
`late` (a request given up on may still arrive, and overwrites what is there),
`read`, `sync` (the mirror), `disk` (the cache refuses a write), `remove`
(another program removes the file), `left` (earlier mounts left cache files).
`acked`, `floor`, `undone` are history: what the program was told is written,
when its drain began, and what is owed no more.

### AgentCommands

`pc[c]` is where the task of request `c` is; each await of the code is a
boundary between actions. `lock` is the commands mutex while a task holds it
across `child.wait()`; the short critical sections are single actions with
guard `lock = None`. The child is the shell. What the shell starts (`offspring`)
inherits the pipes and can outlive it; `output[c]` says whether some process of
the command still has them, which is what the end of the stream waits for, and
the task can wait for the exit of a shell that closed them and runs on. `Kill`,
which the deadline and `kill_all` use, reaches shells only. `Forks`, `Exits`,
`OffspringEnds` and `ClosesOutput` are the processes' own steps. A task with input
is in `feeding` until the child has taken it. `Disconnect` ends the connection in
either way of the code: with `kill_all` due, or (a pong cannot be sent) without.

### AgentClient

`call`, `call_timeout`, `read_loop` and `supervisor` with the map and the sink
as separate variables and a boundary wherever a lock is released. `link` is
`dead` from the loss of the connection until the supervisor clears the sink.
`RelayRoutes`, `AgentAnswers`, `AgentRepeats`, `AgentLeaves`, `AgentJoins` are
the environment. The agent answers a waiting `run_command` twice with one id,
first with the result and then, from `dispatch`, with null: `again` holds the
commands whose second response is to come. (`RelayHub` has one response per
request.) An agent that has joined has finished its handshake here; the other
case is in `RelayHub`. A send is one step; that it may have to wait is in
`Sockets`.

### RelayHub

One connection is one task with a `pc`. A frame broadcast to bridges is copied
list first, then delivered one by one (`out`). The suffix a name gets if it is
taken twice is random in the code and taken to be fresh here. `Route` has every
way out of the routing code: `list_targets`, no agent, a forward, a forward to
an agent whose ack is still due (its handshake skips the frame), and a forward
to a connection that is gone. Requests that end unheard in one of the last two
ways are in the history `forgotten`. `ClientOf` says which `AgentClient` opens a
connection. A client has one connection at a time (`Alone`) and counts its
requests from 1 across its connections; a token can have several clients, which
use the same numbers: the unified server opens one of its own beside those of
the bridges. `KindsOf` bounds what each client asks. When a bridge is lost, the
relay still reads what had arrived before the loss (`Drop`). `Casts` says which
connections take part in a behaviour, so that one run covers several small
groups of peers in place of one large one.

### Sockets

`socket[h]` is the queue of frames on a hop, `sending[h]` the frame the reader of
the hop wants to send before it reads again. A hop is full when it holds a frame of
several MiB or `SmallFrames` small ones. The calls are of four kinds: `write` carries
its data in the request, `read` in the response, `run` sends lines of output
before its response (`TaskPrints`), and `list` is answered by the relay itself.
The relay's two tasks forward; the bridge's and the agent's read loops send only
pongs, for requests run in tasks (`tasks`) and responses wake their calls. Ping and
pong frames come from the relay's keepalive.

### FileTransfer and AtomicReplace

A file is a sequence of chunks named after the source they come from. An upload
is at one of its calls (`phase`) and may hold the `answer` to it; each call may
succeed, be refused (a write then perhaps done in part), or lose its connection
(`CallLost`), in which case the request joins `late` and may be carried out at
any later time. `MachineCrashes` ends every transfer of the bridge's machine,
may undo a local rename that was not yet on disk and may lose bytes that were not
synced. `TargetCrashes` is the same on the target, where the agent syncs neither
the file nor its directory: the destination may go back to any content it had
since the last crash (`ondisk`), with any of its chunks replaced by `Lost`, and so
may the temporary file of an upload under way (`exposed`).

`AtomicReplace` is what is promised: a writer replaces the file by its whole content
in one step and at most once, and reports success after that, whatever calls fail
or are carried out late and whatever happens to the bridge's machine. It does not
promise that the content is on the target's disk: its `Crash` may bring back any
content the file had since the crash before and destroy parts of it, and a writer
puts damaged content there only if a crash came after it had begun.

### MountNames

The entries of one directory: `target`, `cached` and `known` (what the kernel
believes, with the inode, which is the path it was made for). An operation is
`Begin` (which changes the cache at once for create, mknod, symlink and mkdir),
`Drained` for those that wait for queued bytes first, then the request with its
three ends `Succeeds`, `IsRefused` and `IsGivenUp`, and for those that make an
entry the `attr_for` of the reply (`Report`). `Lands` is a request given up on that
is carried out later, `Fetch` and `Store` a read miss or the mirror, `Write` a write
by the inode of an open file. The cache may hold what an earlier mount left.
`Permitted` is what the kernel lets through. `doubtful` is history: the names for
which one of the ways the code lets the two directories drift has happened.

### MountManager

The kernel has a stack of mounts at each point. Each step of `mount` and
`unmount` between two awaits is an action; `holder` is who keeps the manager's
lock across `umount_and_join`, which waits while a file is open. Unmounting is by
path, so it takes what is on top. `Dropped` is the orderly end of the process,
`Crashes` the other one, after which mounts stay and a new process starts.

### AuthCodes

`expires_at` is the map; `authorize_submit`, `token_endpoint` and the cleanup
task, which reads the clock before it has the lock. The clock stops for a tick
that is due and for a cleanup that waits, so the cleanup is late by at most a
step.

## 3. Runs

Runs that pass:

| Run | Module, cfg | Shows | Bounds |
|---|---|---|---|
| `queue` | `MCUploadQueue` | type, `OneSendPerByte`, `RewritesWait`, `BlockedHasSend`, `WindowHolds`, `BacklogNotUnderstated`, `MergeIsUnion`, `TakeIsChunks`, `EverythingLeaves`, `DrainReturns` | 2 files of 3 bytes, chunk 2, window 3, 2 writes, 1 failure, 1 drain |
| `write_behind` | `MCWriteBehind` | `FlushDelivers`, `NeverGoesBack` | 1 file of 2 bytes, 2 threads, 2 writes, 1 failure, 2 drains; late requests |
| `write_behind_queue` | `MCWriteBehindQueue.cfg` | the mount implements `UploadQueue` (`QueueSpec`); `CachedPrefixValid` | 1 file of 2 bytes, 2 threads, 1 write, 1 failure, 3 downloads, no drains; all six conditions, a cache of any earlier mount included |
| `commands` | `MCAgentCommands` | `RunningIsTracked`, `DoneMeansEnded`, `OutcomeIsOwn`, `LockHeldByWaiter`, `PanicOnlyAfterDisconnect`, `TasksEnd`, `AgentReturns` | 2 commands (one in the background, one with input), each with one group of processes that outlives the shell, 2 disconnects |
| `bridge`, part client | `MCBridge` | `NoLeak`, `AnswerReachesCall`, `ResultBeforeNull`, `ClientLives` (timed calls return, the client reconnects) | 2 calls of commands, one timed, 3 lost connections, the agent leaves twice |
| part transfer | | `UploadsAtomic` (implements `AtomicReplace`), `DownloadWhole` | 2 uploads of 1 and 2 chunks, 1 download of a file of 2, the last not full; 2 failures or crashes of either machine |
| part mounts | | `ListedIsServed` | 1 mount point, 2 callers, 3 sessions besides a leftover, 1 failing unmount or crash |
| part names | | `NamesTrue` | 2 names, 2 operations, 1 download, 1 failure |
| part codes | | `CodesOnce` | 2 codes of lifetime 4, a cleanup every 3, 14 instants |
| `relay`, part hub | `MCRelayHub` | `UniqueIds`, `RegistryExact`, `OwnResponses`, `StaleOnlyFromAck`, `OthersAnswered` | 2 agents of one name, 1 client that reconnects, 2 clients of one token, 1 with another token; 3 peers at a time, 2 requests of the first client and 1 of the others, 2 losses |
| part sockets | | `StuckOnlyOnPongs` | at a time 2 writes, 2 commands, 1 read and 1 `list_targets`; one small frame fills a socket |

Every passing run also checks a type invariant (in `bridge` and `relay` it is
`PartsTypeOK`, the conjunction of those of the parts) but `write_behind_queue`,
whose states `QueueSpec` relates to those of the queue.

Why the bounds are enough: files of three bytes have lists of two ranges that
stay apart, touch or join in every way, a claim of one whole and one part chunk,
and a window that ends inside a file while another waits; two writes to one byte
are a rewrite; one failure gives a retry or a drop while the other piece is
still in flight. Two threads are a writer and a closer. Two commands are one
that holds the mutex and one that needs it; two disconnects let a task of a lost
connection meet the next. Two calls are one that times out and one that does
not, and three lost connections let each meet a reconnection of its own; both
calls are of commands, so that each has a second response. Two agents of one
name are a collision, and the loss of one and the stay of the other is a stale
cleanup; every group of three of the peers takes part in some behaviour. Two
clients of one token are two that use the same numbers. Two uploads overwrite
each other while a download reads; two failures are a failed call and a failed
or crashed cleanup after it, or a crash of the target and one more fault, and
two chunks give a first, a last and a part. Three downloads of a file are a
read, the prefetch and the mirror at a time; drains while files are read were
left out of that run for its size (`CachedPrefixValid` is about files without
one), and the refinement is proved with them. Mount points share nothing but the
manager's lock, so two callers at one point are the case that matters; three
sessions are a mount, its replacement and a remount. Two names are a rename over
another name, two operations an operation after one that went wrong, and the
names part was also checked alone with three. A lifetime that is no multiple of
the period makes cleanups come at all distances from an expiry, and 14 instants
are more than lifetime and period together. Two writes and two commands let
every hop be full while its reader wants to go on, a socket of two small frames
differs from one of a single frame only in how many calls it takes to fill it
(`sockets` has two), and `list_targets` lets the relay itself wait. The bound of
`KeepAlive` lets one ping and its pong be under way at a time; with more the
sockets fill sooner, but a second pong of the same reader does not change who
waits for whom.

Deadlock is not checked because every one of these systems may stop: programs
need not write, call or connect.

Runs that TLC must find violated: a statement of the code's own comments or docs
against what the code does.

| Run | Statement | What the code does |
|---|---|---|
| `queue_writer` | writers block *while* the backlog exceeds the cap (fuse_fs.rs:617) | `merge_range` counts a joined neighbour again, `dirty_bytes` never returns to zero, and a writer waits on an empty queue |
| `queue_drop` | a drop surfaces to any waiting drain (fuse_fs.rs:381) | the drain of the file's last piece finds nothing pending and succeeds |
| `write_behind_fill` | `close()` delivers the data (fuse_fs.rs:1299) | a read that began before the write stores old bytes over the dirty cache, and those are sent |
| `commands_timeout` | a silent command (its shell) is killed on time (commands.rs:217) | the commands mutex is held across another command's `child.wait()` |
| `sockets` | a call is awaited with a timeout (client.rs:376) | readers that wait to answer a ping or to forward wait for each other with the sinks' locks held, and the timeout begins after the send; small frames suffice |
| `relay_early` | a request is routed or refused (relay lib.rs:265) | an agent is routable before its ack and ignores what comes before the ack |

### Fairness

`UploadQueue`: the flusher and the waits poll at least every 250 ms, a backoff
is an instant, and a send ends by its answer or by `FUSE_TIMEOUT`; so weak
fairness of the flusher, of the end of the backoff, of "some send ends", of each
writer's wait and each drain's turn. No drain is assumed to reach its deadline,
no send to succeed, nobody to write. `AgentCommands`: the runtime schedules
tasks and its mutex is fair, timers fire, and the agent's loop reconnects for
ever; a write to a stdin that no process has any more ends. `TerminatingSpec`
adds that commands end, the shell and what it starts, which `TasksEnd` needs and
the code does not promise (without it the mutex can be held for ever, as
`commands_timeout` shows). It is a real assumption about the program that is
run: one that waits for somebody to read its output while the agent still feeds
it, or for the end of an input that the agent keeps open, does not end (section
5). `AgentClient`: tasks are scheduled, timers fire, the supervisor retries for
ever, the relay handles what it receives and an agent that stays connected
answers; nothing forces a connection to be lost or kept. A send is assumed not
to wait for ever there, which `Sockets` shows to fail only in the halts of
`StuckOnlyOnPongs`. `ClientLives` says `[]<>`: again and again no timed call is
under way, and again and again the client is connected, for the losses are
bounded. The parts of `MCBridge` besides the client have no liveness property:
they wait only for calls, whose return is the client's. `RelayHub`: the relay's
tasks, each bridge's reading and each agent's answers; no peer is forced to
connect, send or leave.

## 4. Proofs

Every safety property of the passing runs is a theorem for every value of the
constants, and so are both refinements. The constants
are constrained by the assumptions the modules state (`RangeAssumption`,
`QueueAssumption`, `WriteBehindAssumption`, `HubAssumption`, ...) and, in two
groups of theorems, by a hypothesis that the theorem itself spells out:

| Hypothesis | Theorems | Why it is there |
|---|---|---|
| `DistinctIds`: requests have different ids | `RunningTracked`, `OutcomesOwn`, `DoneEnded`, `PanicsAfterDisconnect` | two bridges both number from 1 (commands.rs:97); with a shared id TLC finds each of the four violated, while `TaskInv` still holds |
| `NoDownloads`: nothing is read into the cache | `RewritesKeepOrder`, `FlushesDeliver` | with reads a download stores old bytes over a dirty cache: run `write_behind_fill` |

A safety property is seldom inductive. The pattern is the same everywhere: an
inductive invariant of named parts, the larger ones checked with TLC on the
run's instance before they were proved; a lemma per action (or per part, where
each action disturbs one); a step lemma with a case per disjunct of `Next`; the
temporal theorem.

### The upload queue

`UploadQueueProofs` proves, for any set of paths, file size, chunk size, window,
cap and any number of threads (from `RangeAssumption` and `QueueAssumption`
alone), that `Spec => []Inv` for `TypeOK`, `OneSendPerByte`, `RewritesWait`,
`BlockedHasSend`, `WindowHolds` and `BacklogNotUnderstated`.

None of these is inductive alone. The inductive invariant `QueueInv` is their
conjunction, together with the types of the queue's variables; the types of the
clients' variables are a second, smaller invariant (`ClientTypeOK`). Each leans
on the others:

- a claimed byte is not in flight because its path is not blocked, so that
  `RewritesWait` gives `dirty` and the pieces in flight nothing in common:
  this keeps `OneSendPerByte`;
- `enqueue` keeps `RewritesWait` by blocking a path that overlaps; `finish`
  unblocks only a path with nothing left in flight, and a retry puts a piece
  back whose bytes no other send holds, by `OneSendPerByte`;
- the count of bytes in flight is exact because `finish` takes down the length
  of a piece whose bytes no other piece holds (`OneSendPerByte`), and
  `saturating_sub` never cuts anything off because of `WindowHolds`;
- the backlog is not understated because `merge_range` returns at least the
  number of new bytes (`MergeNotUnderstated`), and `take_batch` subtracts
  exactly the bytes it claims, which are no more than the counter by
  `BacklogNotUnderstated` itself.

`ByteRangesProofs` holds what the operators do: `MergeNotUnderstated`, and that
the pieces of a claim are disjoint (`ChunksDisjoint`) and cover it
(`ChunksCover`, by the run that holds a byte and the quotient of its
distance from the run's start). `UploadQueueProofs` has one lemma per operation
(`EnqueueKeeps`, `TakeBatchKeeps`, `FinishKeeps`), the step lemma with one case
per action, and the temporal theorems on top.

The queue has sets of bytes where the code has lists, and `QueueMergeIsUnion` and
`QueueTakeIsChunks` say that this loses nothing: for every sorted, disjoint and
non-adjacent list, `merge_range` yields such a list of the union and returns what
`ByteRanges` says, and the loop of `take_batch` claims the lowest bytes in exactly
the pieces that `Chunks` names. A loop is a recursive function of its turns, about
which the library's induction theorems cannot be used; `LoopExists` and
`LoopInduction` show once, by the least turn at which it would fail, that such a
function has its values and that what a turn keeps holds after all of them. What the
turns of `merge_range` keep is `MergeAt`: the ranges seen so far lie left of the
merged one without touching it or within it (`Sided`), the others are still in the
list (`LeftOver`), and whatever the merged one has grown by was covered before
(`Grown`). What those of `take_batch` keep is `TakeAt`: the pieces taken so far are
the lowest bytes, each a chunk or the end of its range or of the window (`IsPiece`),
cut at multiples of `CHUNK_MAX` from where its range begins (`Aligned`), and the
window has shrunk by as many bytes.

### The data path

`WriteBehindProofs` has three layers.

*Types and refinement.* `TypesInv` is the types together with the queue's own
invariant, about the `INSTANCE` of `UploadQueue` in the mount. Each action of the
mount is shown to be an action of the queue's `Next` or to leave the queue's
variables alone (`QueueStep`), which gives `MountImplementsQueue`: `Spec =>
QueueSpec`. `QP == INSTANCE UploadQueueProofs` then carries the queue's theorems
over, so that the mount's queue has one send per byte and the rest without
another proof.

*Reads.* `CacheIsPrefix`, for mounts of any kind and any cache an earlier mount left,
by `ReadInv`: as long as nothing was written or drained, each byte that is cached is
the original's or was there when the mount began (`inherited`), what a read, the
prefetch or the mirror has fetched and not stored is the original's, and it is
stored where the cache has no byte missing before it. So a mount makes no hole by
reading; that it does not get rid of those it finds is in section 5.

*Writes.* `RewritesKeepOrder` and `FlushesDeliver` by `DataInv`, which orders the
copies of each byte of each path; a byte's value is the number of its write:

- `Newest`: no copy is newer than a write under way or than `version`, and what a
  truncation or removal discards (`undone`) bounds the copies that may come back;
- `Buffered`: the cache is as new as the target, the requests and what is queued;
- `Ordered`: a request still to be carried out is as new as the target and as the
  requests that were given up, so that carrying it out goes forward;
- `Delivered`: what was acknowledged, or what a flush has to deliver, is held by the
  cache and is owed by nobody in vain: it is queued, or in flight in every send
  of its byte, or on the target.

None of them holds by itself. A send reads the cache when its task runs, so
`Ordered` needs `Buffered`; the flusher's claim takes a byte from the queue, so
`Delivered` must follow it into flight and back after a failure; a drain ends
when neither has the byte, which leaves the target. `UseInv` is the use the kernel
makes of the mount: changes of a file exclude each other, and a flush drains its
own file. The proof goes by what a step may do to one byte (`CacheSteps`,
`TargetSteps`, `SendSteps`, `QueueMoves`), then part by part (`NewestKept`, ...).

### Commands

`TaskInv` (`AgentCommandsProofs`) relates a task's `pc` to its child, the mutex and
the maps whether or not ids are shared: an entry is under the id of its command
(`EntriesOwn`), and while a task waits with the mutex there is an entry under its
id (`WaiterTracked`), since nobody else gets at the map. `MutexFree` follows. `OwnInv`
is the part that needs `DistinctIds`: a child that its task still watches is out of
the map only if a disconnect cleared it (`LostAfterDisconnect`), which
`PanicsAfterDisconnect` needs, and a result that says done is of a command with an
outcome (`DoneHasOutcome`), from which `OutcomesOwn` gives `DoneEnded`. All of it is
about shells: that of a command reported as timed out or exited has ended, and what
it started may run on.

### The client

`ClientInv` (`AgentClientProofs`): a call under way has its entry in the map or a
value in its channel (`WaitingHasEntry`), a request that was not sent is nowhere
else (`UnsentIsHere`), and a response given to the connection is ahead in the stream
as long as its entry is in the map (`AnsweredIsAhead`). `AnswersReachCalls` follows from
the first and the last; neither is inductive without `ChannelUsedOnce`, which lets
a call that receives a value return without touching the map (`ChannelsUsedOnce`
says that read loop and drain never fill a oneshot channel twice, although two
responses come with one id).

`NullInv` is on top of it: as long as no connection was lost, a null in the stream
has a response to the same call ahead of it, or finds no entry (`NullFollows`), for
it is only sent for a request that was answered, and what was answered and still
has its entry is in the stream. `NullsComeLast` follows. With a lost connection it is
false: the result goes with the connection, and a call that was sent late on it gets
the null on the next one.

### The relay

`RelayHubProofs` has three invariants, each on top of the one before:

- `RegistryInv`: each list holds each connection of its token at most once
  (`OnceEach`), and exactly those whose task is between registration and cleanup
  (`Members`); a suffixed id is of the connection that took it (`OwnSuffix`), which
  keeps ids unique after its plain namesake left. `IdsUnique` and `RegistryIsExact`
  hold for any peers that come and go in any order;
- `FramesInv`: a broadcast goes to bridges of its token (`Addressees`), an ack says
  what was looked up for it (`Inboxes`), and an id that a bridge holds for the
  agent's is right, or none, or the ack's, or the notification that corrects it is
  to come (`ViewsCorrected`), which is `ViewsStaleOnlyFromAck` when nothing is;
- `RequestsInv`: each request at the relay or an agent, and each response, has a
  number its client has given out, for which no other connection of that client
  waits (`Traced`). That gives `ResponsesAreOwn`: a bridge accepts no response to a
  request of another token, nor one to an earlier connection's request of its own
  client. Between two clients of a token nothing is claimed (section 5).

`list.retain` of the cleanup is `Without`, a recursive function; that it keeps
everything but its argument, once and in a list of the same type, is proved by the
least position at which it would fail, since the library's induction theorems are
out of reach.

### The sockets

`HaltsOnPongs`, for any number of calls of each kind and any number of small frames
that fill a socket: when nobody can go on, the bridge's read loop waits to send a
pong, and either the agent's read loop does so too or the relay waits with an answer
of its own. Its invariant `RingTypes` says which frames a hop can carry (`FramesOn`)
and what the reader at its end can want to send (`SendsFrom`); `HaltShape` follows the
waiting round the ring: a reader that waits finds the next hop full, whose reader
then waits as well, and the readers of the peers only ever wait with pongs.

### Transfers

`FileTransferProofs` proves that `upload_file` with the agent's handlers
implements `AtomicReplace` (`TransferSpec => UploadsAtomic`), for any number of
uploads and downloads, files of any size and any number of faults, from
`TransferAssumption` alone. The steps that map to `Replace` are the agent's
`rename`, in time or late, the ones that map to `Report` are those that end a
call, and `TargetCrashes` maps to `Crash`. What a rename finds is the complete
file, or that with chunks lost if a crash of the target came after the upload's
first call; this needs the invariant `TransferInv` (`TransfersKeepTrack`):

- while an upload waits for a call, its temporary file is the chunks
  acknowledged so far, and one more if the answer to a write is on its way
  (`TempFollows`), so that the file is complete when `rename` is asked for;
- a request can only be late when its upload does no more than clean up, and at
  most one request besides the removal is (`LateIsHarmless`): so no late write
  or truncation meets a late rename;
- a file is renamed at most once (`RenamedOnce`): a rename that was carried out is
  not among the late ones.

The lemmas are one per action, then the step lemma and the temporal theorems.

For downloads, `DownloadInv` says that the target's file is whole, and what the
temporary file holds (`Received`): while chunks are read the first ones of the
target's file, then a whole file, unless the target's was replaced meanwhile
(`mixed`). It also says that the content is on disk before the local rename, so
that a crash of the bridge's machine tears nothing: `DownloadsAreWhole`. What a crash
of the target destroyed is copied as it is found.

### Codes, names, mounts

`BridgeProofs`:

- `CodesInv`: a cleanup that waits was due at most a step ago (`CleanupOnTime`), what
  it left expires after the tick it was for (`LeftByCleanup`), and a code that was
  used is gone (`UsedIsGone`);
- `NamesInv`: `NamesTrue` says nothing of a name that an operation is busy with, so
  `TaskTrue` says what is known of it at each step of the operation, and gives
  `NamesTrue` back at the end. The types alone are not inductive: the number of
  copies fetched must be tied to the counter (`StoreCounted`);
- `MountsInv`: a point has at most one call at work between taking the session out
  of the map and putting one in (`PointInv`), what that call has made of the
  kernel's stack so far (`Progress`), and while none is, what the map says; all of
  this unless something named in `unsure` has happened there. Who waits for a
  session to end has the lock (`LockHeld`).

### Parts side by side

`MCBridge` and `MCRelayHub` run parts that share no state in one instance.
`PartsAlone` of `BridgeProofs` and of `RelayHubProofs` says that a behaviour of the
instance is a behaviour of each part, so that the theorems above hold of what TLC
runs; `PartsTypes` collects their type invariants.

### Only model-checked

The liveness properties `EverythingLeaves`, `DrainReturns`, `TasksEnd`,
`AgentReturns`, `ClientLives` and `OthersAnswered`: fairness is out of the prover's
reach. `NeverGoesBack` and `FlushDelivers` are neither checked nor proved in a mount
that also downloads, where `write_behind_fill` shows the second one violated.

## 5. What is abstracted or left out

- Prefetch fetches the tail in one read and stores it chunk by chunk; prefetch
  and mirror of one path do not run at the same time in the model.
- In `WriteBehind` a late request is a `WRITE_AT`; `TRUNCATE`, `REMOVE` and
  `WRITE_FILE` end or fail with their answer. A cache write happens whole or not
  at all. Names are in `MountNames`, which knows of a file's content only whose it
  is; the two are not composed.
- `MountNames` has one directory; the kernel's revalidation of an entry without
  the directory's lock, `getattr` by a stale inode, `chmod`, `readlink`, `statfs` and
  other programs on the target are left out.
- `Sockets` leaves out the bridge's own pings (the relay reads them and sends
  nothing), calls that time out after they were sent (their frames stay under
  way), and other bridges of the token. `RelayHub` and `AgentClient` have sends
  of one step, so that `list_targets`, which holds a read lock while it sends, is
  harmless there. `RelayHub` has one response per request and no `command_output`.
- In `AgentCommands` the processes that a shell starts are one group, and they hold
  the output pipes together.
- `FileTransfer` has uploads that replace one file and downloads of that file. A chunk
  is `TRANSFER_CHUNK_BYTES`, which one read of the agent is taken to return whole. A
  crash of the target does not bring back temporary files that were renamed or
  removed: nothing asks for them again.
- The OAuth pages and metadata are formatting. The backoff schedule is a
  doubling with a cap and one reset; no property of the system depends on more
  than that it comes to an end. Single file operations of the agent (`stat`,
  `copy`, `chmod`, ...) are one system call each. Argument parsing, formatting and
  start-up keep no state. None of these is modelled.

### Divergences seen in the models and outside the runs

The models contain these behaviours; the passing properties are stated so that
they hold in spite of them, and none of them has a run of its own.

- A `WRITE_AT` that timed out (fuse_fs.rs:706) may land after its successor and
  put older bytes back, against "preserving byte order for rewrites"
  (fuse_fs.rs:436). Hence `NeverGoesBack` and `FlushDelivers` except the bytes that a
  late request overwrote, and no others.
- The direct write when the cache is unusable (fuse_fs.rs:1279) discards its
  result, so data can be lost silently, against "so the data still lands
  remotely" (fuse_fs.rs:1278). Its bytes are owed no more in the model.
- `setattr` changes the length and the mode of a file also in a read-only mount
  (fuse_fs.rs:830).
- Operations on names ignore the target's answer, and `attr_for` falls back to
  the cache on every error, "not found" included (fuse_fs.rs:258): a create or
  mkdir that was refused is reported as done, and a name removed at the target
  comes back when a read or the mirror stores it again, or when an earlier mount's
  cache has it, against skill lib.rs:149. Hence `doubtful` in `NamesTrue`.
- Cached content is never checked against the target's: a read is served from the
  cache (fuse_fs.rs:1143), against "reads always hit the remote" (skill
  lib.rs:151), and the cache directory of a mount is found as the last one of the
  same pair left it (fuse_fs.rs:1574), the mirror skipping files whose size is
  right (fuse_fs.rs:1619). So the holes and the old content of an earlier mount are
  read as data. `WriteBehind` begins with any such cache; `CachedPrefixValid` excepts
  the bytes that were there and no others, and a run that asks for "a read returns
  the target's byte" fails in its first steps.
- `rename` (fuse_fs.rs:1068) leaves the inode map: the kernel goes on with the old
  path's inode, so reads of the new name fail and writes make the old name again
  in the cache, until the entry expires. A rename of what the cache does not have
  keeps the replaced file's cached content. The flags of the call are ignored. A
  name that is removed and made again keeps its inode number.
- A failing `umount_and_join` in `unmount` returns before `fusermount3 -z`: the file
  system stays mounted and is listed no more. While a file is open, `unmount` waits
  with the manager's lock held. Two overlapping `mount` calls of a point unmount
  each other's sessions, against fuse_fs.rs:1735-1738. Hence `unsure` in
  `ListedIsServed`.
- `READ_FILE` opens its file by path for every chunk, so that a download during a
  replacement puts versions together (`mixed` in `DownloadWhole`). It reports the
  end of the file when one read returns less than was asked for, which a short
  read (tokio reads at most 2 MiB at once, a request may ask for 8) also does;
  the transfers ask for 1 MiB. A failed local rename
  leaves the download's temporary file, and a late `WRITE_FILE` or one whose removal
  failed leaves the upload's.
- The agent syncs neither the file it wrote (files.rs:262) nor the directory it
  renamed in (files.rs:231). If the target's machine goes down, an upload that was
  reported as done may be gone or have parts that were never written, against "only
  upon complete sync" and "never left in a corrupted or half-written state" (skill
  lib.rs:138-140). Hence the `Crash` of `AtomicReplace`; the destination without
  destroyed chunks is a property TLC finds violated by `TargetCrashes` alone.
- A bridge whose own socket is full blocks the relay's forwarding to the other
  bridges of its token (relay lib.rs:434).
- A write past the cached prefix (fuse_fs.rs:1266) leaves a hole that reads take
  for data, against fuse_fs.rs:742. Hence `CachedPrefixValid` is about files that
  are only read.
- `kill_all` (commands.rs:347) waits for the mutex that a task holds across
  `child.wait()`, so an agent may not reconnect while a child runs. Hence
  `AgentReturns` assumes that commands end.
- The kills of `timeout_secs` (commands.rs:246) and `kill_all` (commands.rs:348) reach
  the shell. What it started runs on, reported as timed out, against "`timeout_secs`
  kills the command on the target" and "a timed-out command is killed" (skill
  lib.rs:105 and 111). Hence `OutcomeIsOwn` and `DoneMeansEnded` are about the shell;
  "timed out means that nothing of the command runs" is violated in the model.
- `input` is written to its end before any output is read (commands.rs:81-90): a
  command that fills its output pipe first waits for the agent, and the agent for
  it, with no deadline started. Without `input` the pipe of stdin stays open while the
  output lasts, so a command that reads it waits for ever. `TerminatingSpec` assumes
  that both kinds end.
- After a disconnect the task of a background command panics on its missing
  entry (commands.rs:232) and its result is never done, against
  commands.rs:261; a command spawned but not tracked, or a connection ended by
  an unsendable pong (conn.rs:104), leaves commands running, against
  skill lib.rs:104.
- Every `AgentClient` numbers its requests from 1 (client.rs:66) and the responses go
  to all bridges of the token (relay lib.rs:434). Where a token has two clients, a
  call can take the other's response with the same number, against skill lib.rs:91,
  and their commands share entries (commands.rs:105). The unified server is such a
  case: it connects a bridge of its own with the token that other bridges use
  (relayfs main.rs:302), although "one token pairs one mcp client with one target"
  (skill lib.rs:94). `RelayHub` has such clients and the run too (`b4`, `b5`); hence
  `OwnResponses` claims of a response that it is of the token, and of the own
  connection where it is of the own client. `IdOf` is injective in the run `commands`.
- `run_command` in wait mode is answered twice, the second time with null
  (commands.rs:189, against commands.rs:5). After a lost connection the null can be
  what the call gets. Hence `ResultBeforeNull` excepts behaviours with one.
- A call without a timeout never returns when the agent leaves with its request
  (client.rs:283, against skill lib.rs:86); one that enters the map between its
  draining and the clearing of the sink waits without a connection
  (client.rs:155, against skill lib.rs:129). Hence `TimedCallsReturn`.
- The mount's `SYMLINK` has a `target` of its own in its params, which the relay
  takes for an agent's id and refuses (relay lib.rs:269, fuse_fs.rs:1059,
  against skill lib.rs:85).
- A bridge whose ack is being prepared while its agent registers learns of the
  agent by neither the ack nor the notification (relay lib.rs:175), which
  `StaleOnlyFromAck` shows to be the only way to a stale view.

## 6. Plan

Done: the queue with its proofs, the mount's data path as a refinement of its
use, the names of a mount, the mount manager, the agent's commands, the client,
the relay, back pressure between the sockets, file transfers, and the
authorization codes; both refinements, the safety properties of all of them, and the
code's loops over range lists are proved.

Worth proving next: the order of copies (`DataInv`) in a mount that also
downloads, restricted to the files no download has touched since they were written.

Hazards without a property, and what each would take. Most are things the code does,
so that only a statement of its own that says otherwise could be checked against
them, and the models have them: the late `WRITE_AT` (fuse_fs.rs:706), the old bytes
and holes of a cache (fuse_fs.rs:1619), the unheard direct write (fuse_fs.rs:1279),
the drift of names (fuse_fs.rs:258), commands left running (conn.rs:104,
commands.rs:246), the input that is fed first (commands.rs:84), a call that nobody
answers (client.rs:368), two clients with the same numbers (client.rs:66), the hint
in a symlink's params (relay lib.rs:269), and the target's unsynced files
(files.rs:231). The pieces that find their cache emptied by `create` (fuse_fs.rs:1538)
need liveness of the mount, and the read lock of `list_targets` (relay lib.rs:262)
needs `RelayHub` composed with `Sockets`.
