---------------------------- MODULE MountManager ----------------------------
(***************************************************************************)
(* The mounts of one bridge process (MountManager in                       *)
(* crates/bridge/src/fuse_fs.rs): concurrent mount_remote and              *)
(* unmount_remote tools keep a map from mount point to FUSE session in     *)
(* step with what the kernel has mounted there.                            *)
(*                                                                         *)
(* At a mount point the kernel has a stack of mounts, the last of which    *)
(* serves it; unmounting a path removes the last, lazily: a session goes   *)
(* on while an application has a file of it open.  Unmounting a session    *)
(* (and dropping one) is by path, unless the session has ended already.    *)
(*                                                                         *)
(* The process may crash; its mounts stay in the kernel.                   *)
(***************************************************************************)
EXTENDS Naturals, Sequences, SequencesExt

CONSTANTS
  Points,          \* mount points
  Callers,         \* tool calls at a time
  MaxSessions,     \* bound: sessions spawned in a behaviour
  MaxMountFaults   \* bound: failing unmounts and crashes in a behaviour

ASSUME MountAssumption ==
  MaxSessions \in Nat \ {0} /\ MaxMountFaults \in Nat /\ "free" \notin Callers

VARIABLES
  stack,         \* point -> sessions mounted there, the last on top
  opened,        \* sessions with a file open
  mounts,        \* point -> its session in the map, or NoSession
  active_paths,  \* points for drop to unmount
  holder,        \* the caller that holds the lock of the map, or "free"
  at,            \* caller -> where its call is
  point,         \* caller -> its mount point
  session,       \* caller -> the session it has taken out or spawned
  spawned,       \* sessions so far
  first,         \* history: the first session of this process
  unsure,    \* history: points where two mount calls overlapped or an unmount failed
  mountFaults    \* see MaxMountFaults

mountVars == <<stack, opened, mounts, active_paths, holder, at, point, session,
               spawned, first, unsure, mountFaults>>

\* A session number: 0 for none, 1 for what an earlier run left behind.
NoSession == 0
Leftover == 1
Mounting == {"retire", "join", "clean", "stat", "spawn", "insert", "activate"}
Unmounting == {"leave", "leaving"}

MountsInit ==
  /\ stack \in [Points -> {<<>>, <<Leftover>>}]
  /\ opened = {}
  /\ mounts = [p \in Points |-> NoSession]
  /\ active_paths = {}
  /\ holder = "free"
  /\ at = [c \in Callers |-> "idle"]
  /\ point \in {[c \in Callers |-> p] : p \in Points}
  /\ session = [c \in Callers |-> NoSession]
  /\ spawned = Leftover
  /\ first = Leftover + 1
  /\ unsure = {}
  /\ mountFaults = 0

Move(c, place_) == at' = [at EXCEPT ![c] = place_]
Keep(c, s) == session' = [session EXCEPT ![c] = s]

\* Unmounting a path, which may be no mount point.
Popped(s) == IF s = <<>> THEN s ELSE Front(s)
Pop(p) == stack' = [stack EXCEPT ![p] = Popped(@)]

\* A session goes on while it is mounted or in use.
Runs(p, s) == s \in opened \/ s \in ToSet(stack[p])

\* A session is unmounted or dropped.
Release(p, s) == IF s # NoSession /\ Runs(p, s) THEN Pop(p) ELSE UNCHANGED stack

MountFault == mountFaults < MaxMountFaults /\ mountFaults' = mountFaults + 1

-----------------------------------------------------------------------------
\* mount is called.
Mount(c, p) ==
  /\ at[c] = "idle"
  /\ Move(c, "retire")
  /\ point' = [point EXCEPT ![c] = p]
  /\ unsure' = IF \E d \in Callers : at[d] \in Mounting /\ point[d] = p
                   THEN unsure \cup {p} ELSE unsure
  /\ UNCHANGED <<stack, opened, mounts, active_paths, holder, session, spawned, first, mountFaults>>

\* Mutant: a session that is there is replaced at the end.
Retire_later(c) ==
  /\ at[c] = "retire" /\ holder = "free"
  /\ Move(c, "clean")
  /\ UNCHANGED <<stack, opened, mounts, active_paths, holder, point, session, spawned, first, unsure, mountFaults>>

\* The point's session is taken out of the map and unmounted, under the lock
\* of the map.  Whether that fails is ignored.
Retire(c) ==
  /\ at[c] = "retire" /\ holder = "free"
  /\ LET p == point[c]
         old == mounts[p]
     IN  /\ mounts' = [mounts EXCEPT ![p] = NoSession]
         /\ Keep(c, old)
         /\ \/ Release(p, old) /\ UNCHANGED mountFaults /\ holder' = c /\ Move(c, "join")
            \/ old # NoSession /\ MountFault /\ Move(c, "clean") /\ UNCHANGED <<stack, holder>>
  /\ UNCHANGED <<opened, active_paths, point, spawned, first, unsure>>

\* umount_and_join waits for the end of the session.
Joined(c) == session[c] = NoSession \/ ~Runs(point[c], session[c])

Retired(c) ==
  /\ at[c] = "join" /\ Joined(c)
  /\ holder' = "free"
  /\ Move(c, "clean")
  /\ UNCHANGED <<stack, opened, mounts, active_paths, point, session, spawned, first, unsure, mountFaults>>

\* fusermount3 -u -z, for what an earlier run may have left.
Clean(c) ==
  /\ at[c] = "clean"
  /\ Pop(point[c])
  /\ Move(c, "stat")
  /\ UNCHANGED <<opened, mounts, active_paths, holder, point, session, spawned, first, unsure, mountFaults>>

\* The target has the directory, and the mount point can be made; or not.
Stat(c) ==
  /\ at[c] = "stat"
  /\ \E next \in {"spawn", "idle"} : Move(c, next)
  /\ UNCHANGED <<stack, opened, mounts, active_paths, holder, point, session, spawned, first, unsure, mountFaults>>

Spawn(c) ==
  /\ at[c] = "spawn" /\ spawned < MaxSessions
  /\ spawned' = spawned + 1
  /\ stack' = [stack EXCEPT ![point[c]] = Append(@, spawned')]
  /\ Keep(c, spawned')
  /\ Move(c, "insert")
  /\ UNCHANGED <<opened, mounts, active_paths, holder, point, first, unsure, mountFaults>>

SpawnFails(c) ==
  /\ at[c] = "spawn"
  /\ Move(c, "idle")
  /\ UNCHANGED <<stack, opened, mounts, active_paths, holder, point, session, spawned, first, unsure, mountFaults>>

\* The session goes into the map; one that it replaces is dropped.
InsertSession(c) ==
  /\ at[c] = "insert" /\ holder = "free"
  /\ LET p == point[c]
     IN  /\ mounts' = [mounts EXCEPT ![p] = session[c]]
         /\ Release(p, mounts[p])
  /\ Move(c, "activate")
  /\ UNCHANGED <<opened, active_paths, holder, point, session, spawned, first, unsure, mountFaults>>

Activate(c) ==
  /\ at[c] = "activate"
  /\ active_paths' = active_paths \cup {point[c]}
  /\ Move(c, "idle")
  /\ UNCHANGED <<stack, opened, mounts, holder, point, session, spawned, first, unsure, mountFaults>>

-----------------------------------------------------------------------------
\* unmount of a point in the map: taken out, then unmounted under the lock.
Unmount(c, p) ==
  /\ at[c] = "idle" /\ holder = "free"
  /\ mounts[p] # NoSession
  /\ mounts' = [mounts EXCEPT ![p] = NoSession]
  /\ active_paths' = active_paths \ {p}
  /\ holder' = c
  /\ point' = [point EXCEPT ![c] = p]
  /\ Keep(c, mounts[p])
  /\ Move(c, "leave")
  /\ UNCHANGED <<stack, opened, spawned, first, unsure, mountFaults>>

\* An error returns at once, and the file system may still be mounted.
Leave(c) ==
  /\ at[c] = "leave"
  /\ \/ /\ Release(point[c], session[c])
        /\ Move(c, "leaving")
        /\ UNCHANGED <<holder, unsure, mountFaults>>
     \/ /\ MountFault
        /\ unsure' = unsure \cup {point[c]}
        /\ holder' = "free"
        /\ Move(c, "idle")
        /\ UNCHANGED stack
  /\ UNCHANGED <<opened, mounts, active_paths, point, session, spawned, first>>

\* The session has ended; the path is unmounted once more.
Left(c) ==
  /\ at[c] = "leaving" /\ Joined(c)
  /\ Pop(point[c])
  /\ holder' = "free"
  /\ Move(c, "idle")
  /\ UNCHANGED <<opened, mounts, active_paths, point, session, spawned, first, unsure, mountFaults>>

-----------------------------------------------------------------------------
\* Applications open a file of what is on top, and close it.
Opens(p) ==
  /\ stack[p] # <<>> /\ Last(stack[p]) >= first
  /\ opened' = opened \cup {Last(stack[p])}
  /\ UNCHANGED <<stack, mounts, active_paths, holder, at, point, session, spawned, first, unsure, mountFaults>>

Closes(s) ==
  /\ s \in opened
  /\ opened' = opened \ {s}
  /\ UNCHANGED <<stack, mounts, active_paths, holder, at, point, session, spawned, first, unsure, mountFaults>>

\* The process ends with everything it has in memory, and a new one starts.
Restarts ==
  /\ opened' = {}
  /\ mounts' = [p \in Points |-> NoSession]
  /\ active_paths' = {}
  /\ holder' = "free"
  /\ at' = [c \in Callers |-> "idle"]
  /\ session' = [c \in Callers |-> NoSession]
  /\ first' = spawned + 1
  /\ unsure' = {}
  /\ UNCHANGED <<point, spawned>>

\* drop of the manager unmounts the paths it knows and drops the sessions of
\* the map, a crash does nothing.
Dropped ==
  /\ \A c \in Callers : at[c] = "idle"
  /\ stack' = [p \in Points |->
       LET left == IF p \in active_paths THEN Popped(stack[p]) ELSE stack[p]
       IN  IF mounts[p] \in opened \cup ToSet(left) THEN Popped(left) ELSE left]
  /\ Restarts
  /\ UNCHANGED mountFaults

Crashes ==
  /\ MountFault
  /\ Restarts
  /\ UNCHANGED stack

CallerStep(c) ==
  \/ \E p \in Points : Mount(c, p) \/ Unmount(c, p)
  \/ Retire(c) \/ Retired(c) \/ Clean(c) \/ Stat(c) \/ Spawn(c) \/ SpawnFails(c)
  \/ InsertSession(c) \/ Activate(c) \/ Leave(c) \/ Left(c)

MountsNext ==
  \/ \E c \in Callers : CallerStep(c)
  \/ \E p \in Points : Opens(p)
  \/ \E s \in opened : Closes(s)
  \/ Dropped \/ Crashes

MountsSpec == MountsInit /\ [][MountsNext]_mountVars

-----------------------------------------------------------------------------
\* The type invariant.
MountsTypeOK ==
  /\ stack \in [Points -> Seq(Leftover .. MaxSessions)]
  /\ opened \subseteq Leftover .. MaxSessions
  /\ mounts \in [Points -> 0 .. MaxSessions]
  /\ active_paths \subseteq Points
  /\ holder \in Callers \cup {"free"}
  /\ at \in [Callers -> Mounting \cup Unmounting \cup {"idle"}]
  /\ point \in [Callers -> Points]
  /\ session \in [Callers -> 0 .. MaxSessions]
  /\ spawned \in Leftover .. MaxSessions
  /\ first \in Leftover + 1 .. MaxSessions + 1
  /\ unsure \subseteq Points
  /\ mountFaults \in 0 .. MaxMountFaults

\* list_mounts tells the truth: the session in the map is the one that serves
\* the mount point, and no other session of this process lies beneath it, as
\* "its drop unmounts by path" (fuse_fs.rs:1737) could make it.  Not promised
\* while a call on the point is under way, nor after two mount calls of it
\* overlapped or an unmount failed (unsure).
ListedIsServed ==
  \A p \in Points :
    p \notin unsure /\ (\A c \in Callers : at[c] # "idle" => point[c] # p) =>
      LET own == {i \in DOMAIN stack[p] : stack[p][i] >= first}
      IN  IF mounts[p] = NoSession THEN own = {}
          ELSE own = {Len(stack[p])} /\ Last(stack[p]) = mounts[p]

=============================================================================
