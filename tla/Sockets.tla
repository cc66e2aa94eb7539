------------------------------ MODULE Sockets ------------------------------
(***************************************************************************)
(* Back pressure between a bridge, the relay and an agent: the two         *)
(* connections are four sockets that form a ring, and each end of a        *)
(* socket has one task that reads it and sends on the next socket:         *)
(*                                                                         *)
(*   up1    bridge -> relay    read by the relay, forwards requests to up2 *)
(*                             and answers list_targets on down2           *)
(*   up2    relay -> agent     read by the agent's loop, pongs to down1    *)
(*   down1  agent -> relay     read by the relay, forwards all to down2    *)
(*   down2  relay -> bridge    read by read_loop, pongs to up1             *)
(*                                                                         *)
(* A send waits while the socket is full, holding the lock of the sink; it *)
(* has no timeout, and who wants the lock waits as well, so a send is one  *)
(* step that needs room.  A frame of several MiB fills a socket until its  *)
(* reader has taken it, and so do many small frames.                       *)
(***************************************************************************)
EXTENDS Naturals, Sequences, FiniteSets, SequencesExt

CONSTANTS
  SmallFrames,  \* small frames that fill a socket
  MaxCalls      \* bound: calls of each kind under way at a time

Hops == {"up1", "up2", "down1", "down2"}
Onward == [up1 |-> "up2", up2 |-> "down1", down1 |-> "down2", down2 |-> "up1"]

\* A WRITE_AT or upload carries its data in the request, a READ_FILE in the
\* response; a run_command sends output before its response; the relay
\* answers list_targets, or any request while no agent is there.
Questions == {"write", "read", "run", "list"}
Answers == {"done", "data", "result", "targets"}
AnswerTo == [write |-> "done", read |-> "data", run |-> "result", list |-> "targets"]
Large == {"write", "data"}

ASSUME SocketsAssumption == SmallFrames \in Nat \ {0} /\ MaxCalls \in [Questions -> Nat]

VARIABLES
  socket,   \* hop -> frames in it, in order
  sending,  \* hop -> the frame its reader wants to send onward, or "none"
  tasks     \* answer -> tasks of the agent that have it or will

socketVars == <<socket, sending, tasks>>

SocketsInit ==
  /\ socket = [h \in Hops |-> <<>>]
  /\ sending = [h \in Hops |-> "none"]
  /\ tasks = [k \in Answers |-> 0]

InSocket(frames, kinds) == Cardinality({i \in DOMAIN frames : frames[i] \in kinds})
Carries(h, kinds) == InSocket(socket[h], kinds) + IF sending[h] \in kinds THEN 1 ELSE 0

\* Calls with frames of these kinds under way.
UnderWay(request) ==
  LET ofIt == {request, AnswerTo[request]}
  IN  tasks[AnswerTo[request]]
      + Carries("up1", ofIt) + Carries("up2", ofIt) + Carries("down1", ofIt) + Carries("down2", ofIt)

Room(h) == Len(socket[h]) < SmallFrames /\ ToSet(socket[h]) \cap Large = {}

Send(h, frame) ==
  /\ Room(h)
  /\ socket' = [socket EXCEPT ![h] = Append(@, frame)]

-----------------------------------------------------------------------------
\* call and call_timeout: the frame is sent when the sink is free, and then
\* the response is awaited.
CallSends(k) ==
  /\ UnderWay(k) < MaxCalls[k]
  /\ Send("up1", k)
  /\ UNCHANGED <<sending, tasks>>

\* A task of the agent sends its response.
TaskSends(k) ==
  /\ tasks[k] > 0
  /\ Send("down1", k)
  /\ tasks' = [tasks EXCEPT ![k] = @ - 1]
  /\ UNCHANGED <<sending>>

\* A task that runs a command sends a line of its output as a notification.
TaskPrints ==
  /\ tasks["result"] > 0
  /\ Send("down1", "output")
  /\ UNCHANGED <<sending, tasks>>

\* The relay passes requests to the agent, answers and notifications to the
\* bridge.
Forwards(h, frame) ==
  \/ h = "up1" /\ frame \in Questions \ {"list"}
  \/ h = "down1" /\ frame \in Answers \cup {"output"}

\* Mutant: the agent handles a request in its read loop.
Reaction_inline(h, frame) ==
  IF Forwards(h, frame) THEN frame
  ELSE IF h = "up1" /\ frame = "list" THEN "targets"
  ELSE IF h = "up2" /\ frame \in Questions THEN AnswerTo[frame]
  ELSE IF h \in {"up2", "down2"} /\ frame = "ping" THEN "pong" ELSE "none"

\* What the reader of a hop sends for a frame, before it reads the next one:
\* the relay forwards or answers itself, agent and bridge answer a ping.
Reaction(h, frame) ==
  IF Forwards(h, frame) THEN frame
  ELSE IF h = "up1" /\ frame = "list" THEN "targets"
  ELSE IF h \in {"up2", "down2"} /\ frame = "ping" THEN "pong" ELSE "none"

\* The reader of a hop takes a frame.  The agent spawns a task for a request,
\* the bridge wakes the call a response belongs to.
Reads(h) ==
  /\ sending[h] = "none" /\ socket[h] # <<>>
  /\ LET frame == Head(socket[h])
         reply == Reaction(h, frame)
     IN  /\ sending' = [sending EXCEPT ![h] = reply]
         /\ tasks' = IF h = "up2" /\ frame \in Questions /\ reply = "none"
                     THEN [tasks EXCEPT ![AnswerTo[frame]] = @ + 1] ELSE tasks
  /\ socket' = [socket EXCEPT ![h] = Tail(@)]

\* The hop a reader sends its frame on.
To(h) == IF sending[h] = "targets" THEN "down2" ELSE Onward[h]

ReaderSends(h) ==
  /\ sending[h] # "none"
  /\ Send(To(h), sending[h])
  /\ sending' = [sending EXCEPT ![h] = "none"]
  /\ UNCHANGED tasks

\* The keepalive tasks of the relay ping both peers every 30 seconds.  (The
\* bridge's own pings are left out: the relay reads them and sends nothing.)
\* Bound: the last ping and the pong to it are no longer under way.
PongBack == [up2 |-> {"up2", "down1"}, down2 |-> {"down2", "up1"}]
KeepAlive(h) ==
  /\ Carries(h, {"ping"}) = 0
  /\ \A back \in PongBack[h] : Carries(back, {"pong"}) = 0
  /\ Send(h, "ping")
  /\ UNCHANGED <<sending, tasks>>

SocketsNext ==
  \/ \E k \in Questions : CallSends(k)
  \/ \E k \in Answers : TaskSends(k)
  \/ TaskPrints
  \/ \E h \in Hops : Reads(h) \/ ReaderSends(h)
  \/ \E h \in DOMAIN PongBack : KeepAlive(h)

SocketsSpec == SocketsInit /\ [][SocketsNext]_socketVars

-----------------------------------------------------------------------------
\* The type invariant.
SocketsTypeOK ==
  /\ socket \in [Hops -> Seq(Questions \cup Answers \cup {"output", "ping", "pong"})]
  /\ sending \in [Hops -> Questions \cup Answers \cup {"output", "pong", "none"}]
  /\ tasks \in [Answers -> Nat]

\* Somebody has a frame to send, and nobody can go on who has something to
\* read or to send.
Stuck ==
  /\ \E h \in Hops : sending[h] # "none"
  /\ \A h \in Hops : IF sending[h] = "none" THEN socket[h] = <<>> ELSE ~Room(To(h))
  /\ \A k \in Answers : tasks[k] > 0 => ~Room("down1")

\* "The read loop only parses frames and spawns; it never awaits handler
\* completion" (agent conn.rs): the sockets come to a halt only when the read
\* loop of the bridge waits to answer a ping, and either that of the agent
\* does so too or the relay waits with an answer of its own.
StuckOnlyOnPongs ==
  Stuck => sending["down2"] = "pong" /\ (sending["up2"] = "pong" \/ sending["up1"] = "targets")

-----------------------------------------------------------------------------
\* "Send a request and await the response, with a timeout" (client.rs:376):
\* a call can get as far as its timeout, for the sink will be free again.
NeverStuck == ~Stuck

=============================================================================
