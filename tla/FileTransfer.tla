---------------------------- MODULE FileTransfer ----------------------------
(***************************************************************************)
(* upload_file and download_file (crates/bridge/src/mcp.rs) together with  *)
(* the agent's handlers they call (crates/agent/src/files.rs).  Uploads    *)
(* and downloads of one bridge machine meet on one file of the target.     *)
(*                                                                         *)
(* A transfer makes one call at a time.  A call whose connection is lost   *)
(* returns an error, and the agent may still carry the request out later,  *)
(* also after the requests that follow it.  The agent may refuse a         *)
(* request, a source may fail to be read, and the bridge's machine and the *)
(* target's may crash.  The agent syncs nothing, neither the files it      *)
(* writes nor the directory of those it renames.                           *)
(*                                                                         *)
(* A file is the sequence of its chunks, a chunk the name of the source it *)
(* comes from.                                                             *)
(***************************************************************************)
EXTENDS Naturals, Sequences, FiniteSets

CONSTANTS
  Uploads, Downloads,  \* one call of the tool each
  Old,                 \* the source of the files that are there before
  Size,                \* source -> its number of chunks
  Short,               \* the sources whose last chunk is not a full one
  Torn,                \* a chunk of which only part was written
  Lost,                \* a chunk whose bytes went with a crash of the target
  NoFile,
  MaxFaults            \* bound: things that fail in a behaviour

Sources == Uploads \cup {Old}

ASSUME TransferAssumption ==
  /\ Old \notin Uploads /\ Torn \notin Sources \cup {Lost} /\ Lost \notin Sources
  /\ Size \in [Sources -> Nat]
  /\ Short \subseteq {s \in Sources : Size[s] > 0}
  /\ NoFile \notin Seq(Sources \cup {Torn, Lost})
  /\ MaxFaults \in Nat

VARIABLES
  remote,     \* the target's file, at args.remote_path
  ondisk,     \* what a crash of the target may leave of that file
  exposed,    \* history: uploads that were called before such a crash
  temp,       \* upload -> the file at its remote_temp
  phase,      \* upload -> the call it waits for, or how it ended
  answer,     \* upload -> the agent's answer to that call
  offset,     \* upload -> chunks acknowledged
  late,       \* upload -> calls that returned an error and may still be carried out
  renamed,    \* history: uploads whose RENAME was carried out
  local,      \* download -> the file at args.local_path
  local_temp, \* download -> the file at its local_temp
  stage,      \* download -> where it is
  durable,    \* download -> the bytes it wrote are on disk
  mixed,      \* history: downloads that saw the target's file being replaced
  faults      \* see MaxFaults

destination == <<remote, ondisk, exposed>>
uploading == <<destination, temp, phase, answer, offset, late, renamed>>
downloading == <<local, local_temp, stage, durable>>
transferVars == <<uploading, downloading, mixed, faults>>

Calling == {"create", "write", "truncate", "rename", "remove"}
Ended == {"ok", "error", "dead"}

Complete(s) == [k \in 1 .. Size[s] |-> s]

\* A file that was not synced may lose the bytes of any of its chunks.
Damages(f) == {[k \in DOMAIN f |-> IF k \in gone THEN Lost ELSE f[k]] : gone \in SUBSET DOMAIN f}

TransferInit ==
  /\ remote = Complete(Old) /\ ondisk = {remote}
  /\ exposed = {}
  /\ temp = [u \in Uploads |-> NoFile]
  /\ phase = [u \in Uploads |-> "idle"]
  /\ answer = [u \in Uploads |-> "none"]
  /\ offset = [u \in Uploads |-> 0]
  /\ late = [u \in Uploads |-> {}]
  /\ renamed = {}
  /\ local = [d \in Downloads |-> Complete(Old)]
  /\ local_temp = [d \in Downloads |-> NoFile]
  /\ stage = [d \in Downloads |-> "idle"]
  /\ durable = [d \in Downloads |-> FALSE]
  /\ mixed = {}
  /\ faults = 0

Fault == faults < MaxFaults /\ faults' = faults + 1

-----------------------------------------------------------------------------
(* The agent's handlers, on the file at remote_temp of upload u.           *)

\* The file with chunk k written: chunks up to k - 1 are there.
PutAt(f, k, chunk) == [i \in 1 .. k |-> IF i = k THEN chunk ELSE f[i]]

write_file(u) ==
  /\ temp' = [temp EXCEPT ![u] = <<>>]
  /\ UNCHANGED <<destination, renamed, mixed>>

\* write_at and truncate open the file and do not create it.
write_at(u) ==
  /\ temp[u] # NoFile
  /\ temp' = [temp EXCEPT ![u] = PutAt(@, offset[u] + 1, u)]
  /\ UNCHANGED <<destination, renamed, mixed>>

truncate(u) ==
  /\ temp[u] # NoFile
  /\ temp' = [temp EXCEPT ![u] = SubSeq(@, 1, offset[u])]
  /\ UNCHANGED <<destination, renamed, mixed>>

\* A download that has part of the target's file and not the rest.
Reading(d) == stage[d] = "read" /\ local_temp[d] # <<>>

\* Until the disk has the replacement and its bytes, a crash may undo it or
\* tear it.
rename(u) ==
  /\ temp[u] # NoFile
  /\ remote' = temp[u]
  /\ ondisk' = ondisk \cup Damages(temp[u])
  /\ UNCHANGED exposed
  /\ temp' = [temp EXCEPT ![u] = NoFile]
  /\ renamed' = renamed \cup {u}
  /\ mixed' = mixed \cup {d \in Downloads : Reading(d)}

remove(u) ==
  /\ temp[u] # NoFile
  /\ temp' = [temp EXCEPT ![u] = NoFile]
  /\ UNCHANGED <<destination, renamed, mixed>>

Handle(u, request) ==
  \/ request = "create" /\ write_file(u)
  \/ request = "write" /\ write_at(u)
  \/ request = "truncate" /\ truncate(u)
  \/ request = "rename" /\ rename(u)
  \/ request = "remove" /\ remove(u)

-----------------------------------------------------------------------------
\* The tool is called: it asks for an empty file at a fresh name beside the
\* destination.
upload_file(u) ==
  /\ phase[u] = "idle"
  /\ phase' = [phase EXCEPT ![u] = "create"]
  /\ UNCHANGED <<destination, temp, answer, offset, late, renamed, downloading, mixed, faults>>

Waits(u) == phase[u] \in Calling /\ answer[u] = "none"

\* The agent carries out the request upload u waits for.
AgentServes(u) ==
  /\ Waits(u)
  /\ Handle(u, phase[u])
  /\ answer' = [answer EXCEPT ![u] = "ok"]
  /\ UNCHANGED <<phase, offset, late, downloading, faults>>

\* It refuses, for a file that is gone or for reasons of its own; a write
\* may then have been done in part.
AgentRefuses(u) ==
  /\ Waits(u)
  /\ IF phase[u] # "create" /\ temp[u] = NoFile
     THEN UNCHANGED <<temp, faults>>
     ELSE /\ Fault
          /\ \/ UNCHANGED temp
             \/ phase[u] = "write" /\ temp' = [temp EXCEPT ![u] = PutAt(@, offset[u] + 1, Torn)]
  /\ answer' = [answer EXCEPT ![u] = "error"]
  /\ UNCHANGED <<destination, phase, offset, late, renamed, downloading, mixed>>

\* The call after the one that went well: chunk by chunk until the source has
\* no more, then truncate, rename, done.
AfterOk(u, done) ==
  CASE phase[u] \in {"create", "write"} -> IF done < Size[u] THEN "write" ELSE "truncate"
    [] phase[u] = "truncate" -> "rename"
    [] phase[u] = "rename" -> "ok"
    [] phase[u] = "remove" -> "error"

\* Mutant: a chunk that could not be written is passed over.
AfterError_goes_on(u) ==
  CASE phase[u] = "remove" -> "error"
    [] phase[u] = "write" -> "truncate"
    [] OTHER -> "remove"

\* The call after one that failed: the temporary file is removed, and the
\* result of that is ignored.
AfterError(u) == IF phase[u] = "remove" THEN "error" ELSE "remove"

\* An answer reaches the tool.
GoesOn(u) ==
  /\ answer[u] = "ok"
  /\ LET done == IF phase[u] = "write" THEN offset[u] + 1 ELSE offset[u]
     IN  /\ offset' = [offset EXCEPT ![u] = done]
         /\ phase' = [phase EXCEPT ![u] = AfterOk(u, done)]
  /\ answer' = [answer EXCEPT ![u] = "none"]
  /\ UNCHANGED <<destination, temp, late, renamed, downloading, mixed, faults>>

\* The agent's refusal reaches the tool, or the local source cannot be read
\* on.
GivesUp(u) ==
  /\ \/ answer[u] = "error" /\ UNCHANGED faults
     \/ answer[u] = "ok" /\ phase[u] \in {"create", "write"} /\ Fault
  /\ phase' = [phase EXCEPT ![u] = AfterError(u)]
  /\ answer' = [answer EXCEPT ![u] = "none"]
  /\ UNCHANGED <<destination, temp, offset, late, renamed, downloading, mixed>>

\* The connection is lost before the answer comes; the request may be on its
\* way to the agent.
CallLost(u) ==
  /\ phase[u] \in Calling /\ Fault
  /\ late' = IF answer[u] = "none" THEN [late EXCEPT ![u] = @ \cup {phase[u]}] ELSE late
  /\ phase' = [phase EXCEPT ![u] = AfterError(u)]
  /\ answer' = [answer EXCEPT ![u] = "none"]
  /\ UNCHANGED <<destination, temp, offset, renamed, downloading, mixed>>

\* The agent carries out a request whose call has failed long ago.
AgentServesLate(u, request) ==
  /\ request \in late[u]
  /\ Handle(u, request)
  /\ late' = [late EXCEPT ![u] = @ \ {request}]
  /\ UNCHANGED <<phase, answer, offset, downloading, faults>>

-----------------------------------------------------------------------------
\* The tool is called: it creates a file at a fresh name beside the local
\* destination.
download_file(d) ==
  /\ stage[d] = "idle"
  /\ stage' = [stage EXCEPT ![d] = "read"]
  /\ local_temp' = [local_temp EXCEPT ![d] = <<>>]
  /\ UNCHANGED <<uploading, local, durable, mixed, faults>>

\* read_file's eof: fewer bytes than asked for, which is no chunk or a last
\* one that is not full; a crash leaves full chunks and others.
eof(k) ==
  IF k > Len(remote) THEN {TRUE}
  ELSE {k = Len(remote) /\ short : short \in IF remote[k] = Lost THEN BOOLEAN ELSE {remote[k] \in Short}}

\* READ_FILE at the next offset is answered, by the target's file of now, and
\* the data is written.
ReadChunk(d) ==
  /\ stage[d] = "read"
  /\ LET k == Len(local_temp[d]) + 1
     IN  /\ local_temp' = IF k > Len(remote) THEN local_temp
                          ELSE [local_temp EXCEPT ![d] = Append(@, remote[k])]
         /\ \E end \in eof(k) : stage' = IF end THEN [stage EXCEPT ![d] = "sync"] ELSE stage
  /\ UNCHANGED <<uploading, local, durable, mixed, faults>>

\* Mutant: the data is left to the operating system.
sync_all_not(d) == UNCHANGED durable

\* sync_all: what was written is on disk.
sync_all(d) == durable' = [durable EXCEPT ![d] = TRUE]

SyncsFile(d) ==
  /\ stage[d] = "sync"
  /\ sync_all(d)
  /\ stage' = [stage EXCEPT ![d] = "rename"]
  /\ UNCHANGED <<uploading, local, local_temp, mixed, faults>>

\* Then the destination is replaced.
ReplacesLocal(d) ==
  /\ stage[d] = "rename"
  /\ local' = [local EXCEPT ![d] = local_temp[d]]
  /\ local_temp' = [local_temp EXCEPT ![d] = NoFile]
  /\ stage' = [stage EXCEPT ![d] = "ok"]
  /\ UNCHANGED <<uploading, durable, mixed, faults>>

\* A failed read, write or sync removes the temporary file; a failed rename
\* leaves it.
DownloadFails(d) ==
  /\ stage[d] \in {"read", "sync", "rename"} /\ Fault
  /\ local_temp' = IF stage[d] = "rename" THEN local_temp
                   ELSE [local_temp EXCEPT ![d] = NoFile]
  /\ stage' = [stage EXCEPT ![d] = "error"]
  /\ UNCHANGED <<uploading, local, durable, mixed>>

-----------------------------------------------------------------------------
\* What is left of a file whose bytes may not be on disk.
Torn_of(f) == [k \in DOMAIN f |-> Torn]

\* The bridge's machine goes down with every transfer.  Requests under way
\* may still be carried out; a rename of the last moment may be undone and
\* bytes that were not synced may be lost.
MachineCrashes ==
  /\ Fault
  /\ late' = [u \in Uploads |-> IF Waits(u) THEN late[u] \cup {phase[u]} ELSE late[u]]
  /\ phase' = [u \in Uploads |-> IF phase[u] \in Calling THEN "dead" ELSE phase[u]]
  /\ answer' = [u \in Uploads |-> "none"]
  /\ stage' = [d \in Downloads |-> IF stage[d] \in {"read", "sync", "rename"} THEN "dead" ELSE stage[d]]
  /\ \E undone \in SUBSET {d \in Downloads : stage[d] = "ok"},
        hit \in SUBSET {d \in Downloads : stage[d] = "ok" /\ ~durable[d]} :
       local' = [d \in Downloads |-> IF d \in undone THEN Complete(Old)
                                     ELSE IF d \in hit THEN Torn_of(local[d]) ELSE local[d]]
  /\ UNCHANGED <<destination, temp, offset, renamed, local_temp, durable, mixed>>

\* The target's machine goes down, with the agent, and comes back: its file
\* is what is on disk, and so are the temporary files of uploads under way,
\* where they are still there.  Requests under way may be carried out by the
\* agent that comes back, or be lost: nothing has to serve them.  That a
\* temporary file that was renamed or removed may be there again is left out:
\* nothing but a removal ever asks for it.
TargetCrashes ==
  /\ Fault
  /\ remote' \in ondisk /\ ondisk' = {remote'}
  /\ temp' \in [Uploads -> UNION {Damages(temp[u]) : u \in {v \in Uploads : temp[v] # NoFile}} \cup {NoFile}]
  /\ \A u \in Uploads : temp'[u] # NoFile => temp[u] # NoFile /\ temp'[u] \in Damages(temp[u])
  /\ exposed' = exposed \cup {u \in Uploads : phase[u] # "idle"}
  /\ mixed' = mixed \cup {d \in Downloads : Reading(d)}
  /\ UNCHANGED <<phase, answer, offset, late, renamed, downloading>>

UploadStep(u) ==
  \/ upload_file(u) \/ AgentServes(u) \/ AgentRefuses(u)
  \/ GoesOn(u) \/ GivesUp(u) \/ CallLost(u)
  \/ \E request \in Calling : AgentServesLate(u, request)

DownloadStep(d) ==
  download_file(d) \/ ReadChunk(d) \/ SyncsFile(d) \/ ReplacesLocal(d) \/ DownloadFails(d)

TransferNext ==
  \/ \E u \in Uploads : UploadStep(u)
  \/ \E d \in Downloads : DownloadStep(d)
  \/ MachineCrashes \/ TargetCrashes

TransferSpec == TransferInit /\ [][TransferNext]_transferVars

-----------------------------------------------------------------------------
Content == Seq(Sources \cup {Torn, Lost})

\* The type invariant.
TransferTypeOK ==
  /\ remote \in Content /\ ondisk \subseteq Content
  /\ exposed \subseteq Uploads
  /\ temp \in [Uploads -> Content \cup {NoFile}]
  /\ phase \in [Uploads -> Calling \cup Ended \cup {"idle"}]
  /\ answer \in [Uploads -> {"none", "ok", "error"}]
  /\ offset \in [Uploads -> Nat]
  /\ late \in [Uploads -> SUBSET Calling]
  /\ renamed \subseteq Uploads
  /\ local \in [Downloads -> Content]
  /\ local_temp \in [Downloads -> Content \cup {NoFile}]
  /\ stage \in [Downloads -> {"idle", "read", "sync", "rename"} \cup Ended]
  /\ durable \in [Downloads -> BOOLEAN]
  /\ mixed \subseteq Downloads
  /\ faults \in 0 .. MaxFaults

\* "The target sees either its original file or the complete upload: data is
\* written to a sibling temporary file and renamed only on success"
\* (mcp.rs:340-341), whatever is refused or lost and however late a request is
\* carried out; and what a crash of the target can do to that, AtomicReplace
\* says.
Atomic ==
  INSTANCE AtomicReplace WITH
    Writers <- Uploads,
    Original <- Complete(Old),
    Whole <- [u \in Uploads |-> Complete(u)],
    file <- remote,
    outcome <- [u \in Uploads |-> IF phase[u] \in {"idle", "ok", "error"} THEN phase[u] ELSE "running"],
    replaced <- renamed

UploadsAtomic == Atomic!Spec

\* "The destination is replaced only after the complete transfer has been
\* written and synced locally" (mcp.rs:456-457): also after a crash the local
\* file is the old one or what the target's file was from its first chunk to
\* its end.  Only a download during which the target's file was replaced, or
\* the target crashed, may have put together chunks of several versions.
DownloadWhole ==
  \A d \in Downloads :
    /\ \A k \in DOMAIN local[d] : local[d][k] # Torn
    /\ d \notin mixed => \E s \in Sources : local[d] \in Damages(Complete(s))

=============================================================================
