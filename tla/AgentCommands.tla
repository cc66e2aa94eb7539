--------------------------- MODULE AgentCommands ---------------------------
(***************************************************************************)
(* Command execution on the target (crates/agent/src/commands.rs with the  *)
(* connection loop of conn.rs and lib.rs).  Each run_command request is a  *)
(* task of its own; the tasks and the disconnect handler share the map of  *)
(* running commands behind one async mutex, which a task also holds while  *)
(* it waits for its child to exit.  The child is the shell; what the shell *)
(* starts inherits the output pipes, and is killed by nobody.              *)
(***************************************************************************)
EXTENDS Naturals, Sequences

CONSTANTS
  Commands,        \* run_command requests
  Ids,             \* request ids
  IdOf,            \* request -> its id; bridges number their requests from 1
  Background,      \* requests with wait: false
  Timed,           \* requests with timeout_secs
  WithInput,       \* requests with input for stdin
  None,            \* no command
  MaxDisconnects   \* bound: lost connections in a behaviour

ASSUME CommandsAssumption ==
  /\ IdOf \in [Commands -> Ids]
  /\ Background \subseteq Commands
  /\ Timed \subseteq Commands
  /\ WithInput \subseteq Commands
  /\ None \notin Commands
  /\ MaxDisconnects \in Nat

VARIABLES
  pc,         \* request -> where its task is
  child,      \* request -> its shell
  offspring,  \* request -> whether processes that its shell started run
  output,     \* request -> whether one of its processes holds the output pipes
  commands,   \* AgentState.commands: id -> request whose child is tracked, or None
  lock,       \* request that holds the commands mutex while it waits, or None
  results,    \* AgentState.results: id -> [cmd, done], cmd = None if absent
  outcome,    \* request -> how run_to_completion ended
  conn,       \* "up", "killing" (kill_all is due) or "down"
  session,    \* number of the connection
  opened,     \* request -> the connection it came on
  answers     \* request -> responses sent for it

processes == <<child, offspring, output>>
vars == <<pc, processes, commands, lock, results, outcome, conn, session, opened, answers>>

\* The shell runs; some process of the command runs.
Alive(c) == child[c] = "running"
Runs(c) == Alive(c) \/ offspring[c]

\* The shells of the commands C are killed.  What they started goes on, with
\* the output pipes it inherited.
Kill(C) ==
  /\ child' = [c \in Commands |-> IF c \in C /\ Alive(c) THEN "killed" ELSE child[c]]
  /\ output' = [c \in Commands |-> output[c] /\ (c \in C => offspring[c])]
  /\ UNCHANGED offspring

\* A response reaches the bridge only on the connection of the request.
Reply(c, what) ==
  answers' = [answers EXCEPT ![c] = IF conn = "up" /\ opened[c] = session THEN @ \o what ELSE @]

Goto(c, label) == pc' = [pc EXCEPT ![c] = label]

Init ==
  /\ pc = [c \in Commands |-> "new"]
  /\ child = [c \in Commands |-> "none"]
  /\ offspring = [c \in Commands |-> FALSE]
  /\ output = [c \in Commands |-> FALSE]
  /\ commands = [i \in Ids |-> None]
  /\ lock = None
  /\ results = [i \in Ids |-> [cmd |-> None, done |-> FALSE]]
  /\ outcome = [c \in Commands |-> "none"]
  /\ conn = "up"
  /\ session = 0
  /\ opened = [c \in Commands |-> 0]
  /\ answers = [c \in Commands |-> <<>>]

\* The read loop gets the request and starts its task.
Receive(c) ==
  /\ pc[c] = "new" /\ conn = "up"
  /\ opened' = [opened EXCEPT ![c] = session]
  /\ Goto(c, "received")
  /\ UNCHANGED <<processes, commands, lock, results, outcome, conn, session, answers>>

\* The task spawns the shell, maybe after the connection is gone.
Spawn(c) ==
  /\ pc[c] = "received"
  /\ child' = [child EXCEPT ![c] = "running"]
  /\ output' = [output EXCEPT ![c] = TRUE]
  /\ Goto(c, IF c \in WithInput THEN "feeding" ELSE "spawned")
  /\ UNCHANGED <<offspring, commands, lock, results, outcome, conn, session, opened, answers>>

\* The shell cannot be spawned (or the request is invalid): an error response.
SpawnFails(c) ==
  /\ pc[c] = "received"
  /\ Reply(c, <<"error">>)
  /\ Goto(c, "done")
  /\ UNCHANGED <<processes, commands, lock, results, outcome, conn, session, opened>>

\* The input is written to the child's stdin; a write that nobody reads ends
\* only when the child and all that inherited its stdin are gone.
InputFed(c) ==
  /\ pc[c] = "feeding"
  /\ Goto(c, "spawned")
  /\ UNCHANGED <<processes, commands, lock, results, outcome, conn, session, opened, answers>>

\* The child is tracked.  An entry under the same id is replaced.
Track(c) ==
  /\ pc[c] = "spawned" /\ lock = None
  /\ commands' = [commands EXCEPT ![IdOf[c]] = c]
  /\ Goto(c, IF c \in Background THEN "tracked" ELSE "stream")
  /\ UNCHANGED <<processes, lock, results, outcome, conn, session, opened, answers>>

\* wait: false stores an unfinished result and answers with the execution id.
StartBackground(c) ==
  /\ pc[c] = "tracked"
  /\ results' = [results EXCEPT ![IdOf[c]] = [cmd |-> c, done |-> FALSE]]
  /\ Reply(c, <<"execution_id">>)
  /\ Goto(c, "stream")
  /\ UNCHANGED <<processes, commands, lock, outcome, conn, session, opened>>

\* Mutants: the end of the output is taken for the end of the command, or
\* takes it out of the map.
StreamEnds_over(c) ==
  /\ pc[c] = "stream" /\ ~output[c]
  /\ Goto(c, "over")
  /\ UNCHANGED <<processes, commands, lock, results, outcome, conn, session, opened, answers>>
StreamEnds_untracks(c) ==
  /\ pc[c] = "stream" /\ ~output[c] /\ lock = None
  /\ commands' = [commands EXCEPT ![IdOf[c]] = None]
  /\ Goto(c, "exit")
  /\ UNCHANGED <<processes, lock, results, outcome, conn, session, opened, answers>>

\* stream_output ends when the last process that has the output pipes closes
\* them, be it the shell or one it started.
StreamEnds(c) ==
  /\ pc[c] = "stream" /\ ~output[c]
  /\ Goto(c, "exit")
  /\ UNCHANGED <<processes, commands, lock, results, outcome, conn, session, opened, answers>>

\* The task takes the mutex to wait for its child's exit; it panics if the
\* child is no longer tracked.
AwaitExit(c) ==
  /\ pc[c] = "exit" /\ lock = None
  /\ IF commands[IdOf[c]] = None
     THEN Goto(c, "panicked") /\ UNCHANGED lock
     ELSE Goto(c, "waiting") /\ lock' = c
  /\ UNCHANGED <<processes, commands, results, outcome, conn, session, opened, answers>>

\* The tracked child has exited: the task has its status.
Reaped(c) ==
  /\ pc[c] = "waiting" /\ ~Alive(commands[IdOf[c]])
  /\ lock' = None
  /\ outcome' = [outcome EXCEPT ![c] = "exited"]
  /\ Goto(c, "over")
  /\ UNCHANGED <<processes, commands, results, conn, session, opened, answers>>

\* Mutant: the deadline leaves the mutex taken.
Deadline_keeps_lock(c) ==
  /\ c \in Timed
  /\ pc[c] \in {"stream", "exit", "waiting"}
  /\ Goto(c, "expired")
  /\ UNCHANGED <<processes, commands, lock, results, outcome, conn, session, opened, answers>>

\* timeout_secs pass: the wait is dropped, and with it the mutex.
Deadline(c) ==
  /\ c \in Timed
  /\ pc[c] \in {"stream", "exit", "waiting"}
  /\ lock' = IF lock = c THEN None ELSE lock
  /\ Goto(c, "expired")
  /\ UNCHANGED <<processes, commands, results, outcome, conn, session, opened, answers>>

\* Mutant: the command is reported as timed out and not killed.
KillExpired_reports(c) ==
  /\ pc[c] = "expired" /\ lock = None
  /\ outcome' = [outcome EXCEPT ![c] = "timed_out"]
  /\ Goto(c, "over")
  /\ UNCHANGED <<processes, commands, lock, results, conn, session, opened, answers>>

\* The tracked child is killed under the mutex, and reaped.
KillExpired(c) ==
  /\ pc[c] = "expired" /\ lock = None
  /\ LET tracked == commands[IdOf[c]]
     IN  IF tracked = None
         THEN Goto(c, "panicked") /\ UNCHANGED <<processes, outcome>>
         ELSE /\ Kill({tracked})
              /\ outcome' = [outcome EXCEPT ![c] = "timed_out"]
              /\ Goto(c, "over")
  /\ UNCHANGED <<commands, lock, results, conn, session, opened, answers>>

\* Wait mode ends: the entry is removed and the result sent; dispatch then
\* answers the same request once more with the null that run_command returns.
FinishWait(c) ==
  /\ pc[c] = "over" /\ c \notin Background /\ lock = None
  /\ commands' = [commands EXCEPT ![IdOf[c]] = None]
  /\ Reply(c, <<"result", "null">>)
  /\ Goto(c, "done")
  /\ UNCHANGED <<processes, lock, results, outcome, conn, session, opened>>

\* Mutant: the background task also answers the request.
FinishBackground_answers(c) ==
  /\ pc[c] = "over" /\ c \in Background
  /\ Reply(c, <<"result", "null">>)
  /\ Goto(c, "done")
  /\ UNCHANGED <<processes, commands, lock, results, outcome, conn, session, opened>>

\* The background task records the result; the entry in commands stays.
FinishBackground(c) ==
  /\ pc[c] = "over" /\ c \in Background
  /\ results' = [results EXCEPT ![IdOf[c]].done = @ \/ results[IdOf[c]].cmd # None]
  /\ Goto(c, "done")
  /\ UNCHANGED <<processes, commands, lock, outcome, conn, session, opened, answers>>

-----------------------------------------------------------------------------
\* The shell starts a process that can outlive it.
Forks(c) ==
  /\ Alive(c) /\ ~offspring[c]
  /\ offspring' = [offspring EXCEPT ![c] = TRUE]
  /\ UNCHANGED <<pc, child, output, commands, lock, results, outcome, conn, session, opened, answers>>

\* The shell exits; the pipes stay open while what it started holds them.
Exits(c) ==
  /\ Alive(c)
  /\ child' = [child EXCEPT ![c] = "exited"]
  /\ output' = [output EXCEPT ![c] = @ /\ offspring[c]]
  /\ UNCHANGED <<pc, offspring, commands, lock, results, outcome, conn, session, opened, answers>>

\* The processes that the shell started end.
OffspringEnds(c) ==
  /\ offspring[c]
  /\ offspring' = [offspring EXCEPT ![c] = FALSE]
  /\ output' = [output EXCEPT ![c] = @ /\ Alive(c)]
  /\ UNCHANGED <<pc, child, commands, lock, results, outcome, conn, session, opened, answers>>

\* The processes of a command close their output and go on.
ClosesOutput(c) ==
  /\ output[c]
  /\ output' = [output EXCEPT ![c] = FALSE]
  /\ UNCHANGED <<pc, child, offspring, commands, lock, results, outcome, conn, session, opened, answers>>

\* The read loop ends and kill_all is due, or a pong cannot be sent and run
\* returns without it.
Disconnect ==
  /\ conn = "up" /\ session < MaxDisconnects
  /\ conn' \in {"killing", "down"}
  /\ UNCHANGED <<pc, processes, commands, lock, results, outcome, session, opened, answers>>

\* Mutant: the map is cleared and nothing killed.
kill_all_forgets ==
  /\ conn = "killing" /\ lock = None
  /\ commands' = [i \in Ids |-> None]
  /\ conn' = "down"
  /\ UNCHANGED <<pc, processes, lock, results, outcome, session, opened, answers>>

\* Every tracked child is killed and the map cleared.
kill_all ==
  /\ conn = "killing" /\ lock = None
  /\ Kill({c \in Commands : commands[IdOf[c]] = c})
  /\ commands' = [i \in Ids |-> None]
  /\ conn' = "down"
  /\ UNCHANGED <<pc, lock, results, outcome, session, opened, answers>>

\* The agent's loop connects again.
Reconnect ==
  /\ conn = "down"
  /\ conn' = "up"
  /\ session' = session + 1
  /\ UNCHANGED <<pc, processes, commands, lock, results, outcome, opened, answers>>

-----------------------------------------------------------------------------
TaskStep(c) ==
  \/ Spawn(c) \/ SpawnFails(c) \/ Track(c) \/ StartBackground(c) \/ StreamEnds(c) \/ AwaitExit(c) \/ Reaped(c)
  \/ KillExpired(c) \/ FinishWait(c) \/ FinishBackground(c)

Next ==
  \/ \E c \in Commands :
       \/ Receive(c) \/ InputFed(c)
       \/ TaskStep(c) \/ Deadline(c)
       \/ Forks(c) \/ Exits(c) \/ OffspringEnds(c) \/ ClosesOutput(c)
  \/ Disconnect \/ kill_all \/ Reconnect

Spec == Init /\ [][Next]_vars

\* The runtime schedules every task that can run, its mutex is fair, timers
\* fire, and a write to a stdin that no process has any more fails.
Fairness ==
  /\ \A c \in Commands :
       /\ WF_vars(TaskStep(c))
       /\ WF_vars(Deadline(c))
       /\ WF_vars(~Runs(c) /\ InputFed(c))
  /\ WF_vars(kill_all)
  /\ WF_vars(Reconnect)

FairSpec == Spec /\ Fairness

\* As FairSpec, where moreover no command runs forever: neither its shell nor
\* what that starts.
TerminatingSpec == FairSpec /\ \A c \in Commands : WF_vars(Exits(c)) /\ WF_vars(OffspringEnds(c))

-----------------------------------------------------------------------------
\* The type invariant.
TypeOK ==
  /\ pc \in [Commands -> {"new", "received", "feeding", "spawned", "tracked", "stream", "exit", "waiting",
                          "expired", "over", "done", "panicked"}]
  /\ child \in [Commands -> {"none", "running", "exited", "killed"}]
  /\ offspring \in [Commands -> BOOLEAN] /\ output \in [Commands -> BOOLEAN]
  /\ commands \in [Ids -> Commands \cup {None}]
  /\ lock \in Commands \cup {None}
  /\ results \in [Ids -> [cmd : Commands \cup {None}, done : BOOLEAN]]
  /\ outcome \in [Commands -> {"none", "exited", "timed_out"}]
  /\ conn \in {"up", "killing", "down"}
  /\ session \in 0 .. MaxDisconnects
  /\ opened \in [Commands -> 0 .. MaxDisconnects]
  /\ answers \in [Commands -> UNION {[1 .. n -> {"error", "execution_id", "result", "null"}] : n \in 0 .. 2}]

\* While a task still has its child to wait for, a shell that runs is in the
\* map, where the deadline and kill_all find it: no interleaving of tasks and
\* disconnects lets the shell of a tracked command slip out of reach.
RunningIsTracked ==
  \A c \in Commands :
    pc[c] \in {"tracked", "stream", "exit", "waiting", "expired"} /\ Alive(c) => commands[IdOf[c]] = c

\* A result that get_command_result shows as done belongs to a command whose
\* own shell has ended.
DoneMeansEnded ==
  \A i \in Ids : results[i].done => ~Alive(results[i].cmd)

\* The shell of a command reported with an exit status or as timed out has
\* ended: the wait and the kill are applied to the command's own child, though
\* both go through the shared map.  (What the shell started may go on, though
\* "a timed-out command is killed", crates/skill/src/lib.rs:111.)
OutcomeIsOwn == \A c \in Commands : outcome[c] # "none" => ~Alive(c)

\* The mutex is held exactly by the task that waits for a tracked child: no
\* path out of the wait (exit, deadline, panic) leaves it taken.
LockHeldByWaiter ==
  \A c \in Commands : lock = c <=> pc[c] = "waiting"

\* A task panics only because a disconnect cleared the map under it.
PanicOnlyAfterDisconnect ==
  \A c \in Commands : pc[c] = "panicked" => opened[c] < session \/ conn # "up"

\* If no command runs forever, every task ends, and the agent is connected
\* again after every lost connection.
TasksEnd ==
  \A c \in Commands : pc[c] # "new" ~> pc[c] \in {"done", "panicked"}

\* "reconnecting automatically after a dropped connection" (agent lib.rs:37).
AgentReturns == conn # "up" ~> conn = "up"

-----------------------------------------------------------------------------
\* "a silent long-running command (no output) must still be killed on time"
\* (commands.rs:217): the shell of a timed command that is tracked does not
\* run forever.
TimeoutKills ==
  \A c \in Timed : pc[c] = "stream" ~> ~Alive(c)

=============================================================================
