------------------------ MODULE AgentCommandsProofs ------------------------
(***************************************************************************)
(* The safety of command execution for every set of requests, every number *)
(* of lost connections and every assignment of request ids; what depends   *)
(* on the ids being distinct says so in its hypothesis.                    *)
(***************************************************************************)
EXTENDS AgentCommands, TLAPS

Labels == {"new", "received", "feeding", "spawned", "tracked", "stream", "exit", "waiting",
           "expired", "over", "done", "panicked"}

\* Commands whose task still has its child to wait for, or to kill.
Held(c) == pc[c] \in {"tracked", "stream", "exit", "waiting", "expired"}

\* The connection of the request has ended, or is about to.
Gone(c) == opened[c] < session \/ conn # "up"

\* Entries of both maps are under the id of their command.
EntriesOwn ==
  \A i \in Ids :
    /\ commands[i] # None => IdOf[commands[i]] = i
    /\ results[i].cmd # None => IdOf[results[i].cmd] = i
    /\ results[i].done => results[i].cmd # None

\* While a task waits with the mutex, its entry cannot be cleared.
WaiterTracked == \A c \in Commands : pc[c] = "waiting" => commands[IdOf[c]] # None

\* The outcome is known from the end of the wait on.
OutcomeWhenOver ==
  \A c \in Commands :
    /\ pc[c] = "over" => outcome[c] # "none"
    /\ outcome[c] # "none" => pc[c] \in {"over", "done"}

ChildIsSpawned == \A c \in Commands : pc[c] \in {"new", "received"} => child[c] = "none"

SessionsNumbered ==
  /\ \A c \in Commands : opened[c] <= session
  /\ conn # "up" => session < MaxDisconnects

\* Nothing is sent for a request before its one occasion.
AnswersDue ==
  \A c \in Commands :
    /\ pc[c] = "tracked" => c \in Background
    /\ \/ pc[c] \in {"new", "received", "feeding", "spawned", "tracked"}
       \/ c \notin Background /\ pc[c] # "done"
       => answers[c] = <<>>

\* The part of the inductive invariant that holds whatever the ids are.
TaskInv ==
  /\ TypeOK
  /\ LockHeldByWaiter
  /\ EntriesOwn
  /\ WaiterTracked
  /\ OutcomeWhenOver
  /\ ChildIsSpawned
  /\ SessionsNumbered
  /\ AnswersDue

DistinctIds == \A c, d \in Commands : IdOf[c] = IdOf[d] => c = d

\* A child is out of the map only because a disconnect cleared it.
LostAfterDisconnect == \A c \in Commands : Held(c) /\ commands[IdOf[c]] # c => Gone(c)

DoneHasOutcome == \A i \in Ids : results[i].done => outcome[results[i].cmd] # "none"

\* The part that needs distinct ids.
OwnInv ==
  /\ RunningIsTracked
  /\ OutcomeIsOwn
  /\ DoneHasOutcome
  /\ LostAfterDisconnect
  /\ PanicOnlyAfterDisconnect

-----------------------------------------------------------------------------
\* A task that goes to a label.
LEMMA GotoFacts ==
  ASSUME TypeOK, NEW c \in Commands, NEW label \in Labels, Goto(c, label)
  PROVE  /\ pc' \in [Commands -> Labels]
         /\ pc'[c] = label
         /\ \A x \in Commands \ {c} : pc'[x] = pc[x]
BY DEF TypeOK, Goto, Labels

\* The sequences of responses a request can have been sent.
AnswerSeqs == UNION {[1 .. n -> {"error", "execution_id", "result", "null"}] : n \in 0 .. 2}

\* A response goes to a request that has had none.
LEMMA ReplyFacts ==
  ASSUME TypeOK, NEW c \in Commands,
         NEW what \in {<<"error">>, <<"execution_id">>, <<"result", "null">>},
         answers[c] = <<>>, Reply(c, what)
  PROVE  /\ answers' \in [Commands -> AnswerSeqs]
         /\ \A x \in Commands \ {c} : answers'[x] = answers[x]
<1> DEFINE A == {"error", "execution_id", "result", "null"}
<1>1. answers \in [Commands -> AnswerSeqs]
  BY DEF TypeOK, AnswerSeqs
<1>2. <<>> \o what = what
  OBVIOUS
<1>3. what \in AnswerSeqs
  <2>1. CASE what \in {<<"error">>, <<"execution_id">>}
    <3>1. what \in [1 .. 1 -> A]
      BY <2>1
    <3> HIDE DEF A
    <3>2. 1 \in 0 .. 2
      OBVIOUS
    <3> QED
      BY <3>1, <3>2 DEF AnswerSeqs, A
  <2>2. CASE what = <<"result", "null">>
    <3>1. what \in [1 .. 2 -> A]
      BY <2>2
    <3>2. 2 \in 0 .. 2
      OBVIOUS
    <3> QED
      BY <3>1, <3>2 DEF AnswerSeqs
  <2> QED
    BY <2>1, <2>2
<1> QED
  BY <1>1, <1>2, <1>3 DEF Reply

-----------------------------------------------------------------------------
\* A kill ends shells and starts none.
LEMMA KillTypes ==
  ASSUME NEW STATE C, TypeOK, Kill(C)
  PROVE  /\ child' \in [Commands -> {"none", "running", "exited", "killed"}]
         /\ offspring' \in [Commands -> BOOLEAN] /\ output' \in [Commands -> BOOLEAN]
         /\ \A x \in Commands : /\ (child[x] = "none" => child'[x] = "none")
                                /\ (Alive(x)' <=> (Alive(x) /\ x \notin C))
                                /\ (x \notin C => child'[x] = child[x])
<1>1. offspring \in [Commands -> BOOLEAN] /\ output \in [Commands -> BOOLEAN]
  BY DEF TypeOK
<1>2. output' \in [Commands -> BOOLEAN]
  BY <1>1 DEF Kill
<1> QED
  BY <1>1, <1>2 DEF Kill, TypeOK, Alive

\* Before the first request.
LEMMA TaskInit == Init => TaskInv
<1> SUFFICES ASSUME Init PROVE TaskInv
  OBVIOUS
<1>1. <<>> \in AnswerSeqs
  <2>1. <<>> \in [1 .. 0 -> {"error", "execution_id", "result", "null"}] /\ 0 \in 0 .. 2
    OBVIOUS
  <2> QED
    BY <2>1 DEF AnswerSeqs
<1>2. TypeOK
  <2>1. answers \in [Commands -> AnswerSeqs]
    BY <1>1 DEF Init
  <2> QED
    BY <2>1, CommandsAssumption DEF Init, TypeOK, AnswerSeqs
<1> QED
  BY <1>2, CommandsAssumption
     DEF Init, TaskInv, LockHeldByWaiter, EntriesOwn, WaiterTracked, OutcomeWhenOver, ChildIsSpawned,
         SessionsNumbered, AnswersDue

\* The request gets its task, and the number of its connection.
LEMMA ReceiveKeeps ==
  ASSUME TaskInv, NEW c \in Commands, Receive(c)
  PROVE  TaskInv'
<1> USE DEF TaskInv
<1>1. /\ pc' \in [Commands -> Labels] /\ pc'[c] = "received"
      /\ \A x \in Commands \ {c} : pc'[x] = pc[x]
  BY GotoFacts DEF Receive, Labels
<1>2. /\ pc[c] = "new"
      /\ UNCHANGED <<child, offspring, output, commands, lock, results, outcome, conn, session, answers>>
  BY DEF Receive, processes
<1>3. /\ opened' \in [Commands -> 0 .. MaxDisconnects] /\ opened'[c] = session
      /\ \A x \in Commands \ {c} : opened'[x] = opened[x]
  BY DEF Receive, TypeOK
<1>4. TypeOK'
  BY <1>1, <1>2, <1>3, CommandsAssumption DEF TypeOK, Labels, AnswerSeqs
<1>5. LockHeldByWaiter' /\ WaiterTracked'
  BY <1>1, <1>2, <1>3, CommandsAssumption DEF TypeOK, Labels, LockHeldByWaiter, WaiterTracked
<1>6. EntriesOwn'
  BY <1>1, <1>2, <1>3, CommandsAssumption DEF TypeOK, Labels, EntriesOwn
<1>7. OutcomeWhenOver' /\ ChildIsSpawned'
  BY <1>1, <1>2, <1>3, CommandsAssumption DEF TypeOK, Labels, OutcomeWhenOver, ChildIsSpawned
<1>8. SessionsNumbered'
  <2>1. session' = session /\ conn' = conn /\ session \in Nat
    BY <1>2, CommandsAssumption DEF TypeOK
  <2>2. \A x \in Commands : opened'[x] <= session
    BY <1>3, <2>1 DEF SessionsNumbered
  <2> QED
    BY <2>1, <2>2 DEF SessionsNumbered
<1>9. AnswersDue'
  BY <1>1, <1>2, <1>3, CommandsAssumption DEF TypeOK, Labels, AnswersDue
<1> QED
  BY <1>4, <1>5, <1>6, <1>7, <1>8, <1>9

\* The input is written.
LEMMA InputFedKeeps ==
  ASSUME TaskInv, NEW c \in Commands, InputFed(c)
  PROVE  TaskInv'
<1> USE DEF TaskInv
<1>1. /\ pc' \in [Commands -> Labels] /\ pc'[c] = "spawned"
      /\ \A x \in Commands \ {c} : pc'[x] = pc[x]
  BY GotoFacts DEF InputFed, Labels
<1>2. /\ pc[c] = "feeding"
      /\ UNCHANGED <<child, offspring, output, commands, lock, results, outcome, conn, session, opened, answers>>
  BY DEF InputFed, processes
<1>3. TypeOK'
  BY <1>1, <1>2, CommandsAssumption DEF TypeOK, Labels, AnswerSeqs
<1>4. LockHeldByWaiter' /\ WaiterTracked'
  BY <1>1, <1>2, CommandsAssumption DEF TypeOK, Labels, LockHeldByWaiter, WaiterTracked
<1>5. EntriesOwn'
  BY <1>1, <1>2, CommandsAssumption DEF TypeOK, Labels, EntriesOwn
<1>6. OutcomeWhenOver' /\ ChildIsSpawned'
  BY <1>1, <1>2, CommandsAssumption DEF TypeOK, Labels, OutcomeWhenOver, ChildIsSpawned
<1>7. SessionsNumbered' /\ AnswersDue'
  BY <1>1, <1>2, CommandsAssumption DEF TypeOK, Labels, SessionsNumbered, AnswersDue
<1> QED
  BY <1>3, <1>4, <1>5, <1>6, <1>7

\* The shell is spawned.
LEMMA SpawnKeeps ==
  ASSUME TaskInv, NEW c \in Commands, Spawn(c)
  PROVE  TaskInv'
<1> USE DEF TaskInv
<1>1. /\ pc' \in [Commands -> Labels]
      /\ pc'[c] \in {"feeding", "spawned"}
      /\ \A x \in Commands \ {c} : pc'[x] = pc[x]
  BY GotoFacts DEF Spawn, Labels
<1>2. /\ pc[c] = "received"
      /\ UNCHANGED <<offspring, commands, lock, results, outcome, conn, session, opened, answers>>
      /\ output' \in [Commands -> BOOLEAN]
  BY DEF Spawn, TypeOK
<1>3. /\ child' \in [Commands -> {"none", "running", "exited", "killed"}] /\ child'[c] = "running"
      /\ \A x \in Commands \ {c} : child'[x] = child[x]
  BY DEF Spawn, TypeOK
<1>4. TypeOK'
  BY <1>1, <1>2, <1>3, CommandsAssumption DEF TypeOK, Labels, AnswerSeqs
<1>5. LockHeldByWaiter' /\ WaiterTracked'
  BY <1>1, <1>2, <1>3, CommandsAssumption DEF TypeOK, Labels, LockHeldByWaiter, WaiterTracked
<1>6. EntriesOwn'
  BY <1>1, <1>2, <1>3, CommandsAssumption DEF TypeOK, Labels, EntriesOwn
<1>7. OutcomeWhenOver' /\ ChildIsSpawned'
  BY <1>1, <1>2, <1>3, CommandsAssumption DEF TypeOK, Labels, OutcomeWhenOver, ChildIsSpawned
<1>8. SessionsNumbered' /\ AnswersDue'
  BY <1>1, <1>2, <1>3, CommandsAssumption DEF TypeOK, Labels, SessionsNumbered, AnswersDue
<1> QED
  BY <1>4, <1>5, <1>6, <1>7, <1>8

\* The shell is not spawned, and the request gets its one answer.
LEMMA SpawnFailsKeeps ==
  ASSUME TaskInv, NEW c \in Commands, SpawnFails(c)
  PROVE  TaskInv'
<1> USE DEF TaskInv
<1>1. /\ pc' \in [Commands -> Labels] /\ pc'[c] = "done"
      /\ \A x \in Commands \ {c} : pc'[x] = pc[x]
  BY GotoFacts DEF SpawnFails, Labels
<1>2. /\ pc[c] = "received"
      /\ UNCHANGED <<child, offspring, output, commands, lock, results, outcome, conn, session, opened>>
  BY DEF SpawnFails, processes
<1>3. /\ answers' \in [Commands -> AnswerSeqs]
      /\ \A x \in Commands \ {c} : answers'[x] = answers[x]
  BY ReplyFacts DEF SpawnFails, AnswersDue
<1>4. TypeOK'
  BY <1>1, <1>2, <1>3, CommandsAssumption DEF TypeOK, Labels, AnswerSeqs
<1>5. LockHeldByWaiter' /\ WaiterTracked'
  BY <1>1, <1>2, <1>3, CommandsAssumption DEF TypeOK, Labels, LockHeldByWaiter, WaiterTracked
<1>6. EntriesOwn'
  BY <1>1, <1>2, <1>3, CommandsAssumption DEF TypeOK, Labels, EntriesOwn
<1>7. OutcomeWhenOver' /\ ChildIsSpawned'
  BY <1>1, <1>2, <1>3, CommandsAssumption DEF TypeOK, Labels, OutcomeWhenOver, ChildIsSpawned
<1>8. SessionsNumbered' /\ AnswersDue'
  BY <1>1, <1>2, <1>3, CommandsAssumption DEF TypeOK, Labels, SessionsNumbered, AnswersDue
<1> QED
  BY <1>4, <1>5, <1>6, <1>7, <1>8

\* The child is entered under the id of its command.
LEMMA TrackKeeps ==
  ASSUME TaskInv, NEW c \in Commands, Track(c)
  PROVE  TaskInv'
<1> USE DEF TaskInv
<1>1. /\ pc' \in [Commands -> Labels]
      /\ pc'[c] = (IF c \in Background THEN "tracked" ELSE "stream")
      /\ \A x \in Commands \ {c} : pc'[x] = pc[x]
  BY GotoFacts DEF Track, Labels
<1>2. /\ pc[c] = "spawned" /\ lock = None
      /\ UNCHANGED <<child, offspring, output, lock, results, outcome, conn, session, opened, answers>>
  BY DEF Track, processes
<1>3. /\ commands' \in [Ids -> Commands \cup {None}] /\ IdOf[c] \in Ids /\ commands'[IdOf[c]] = c
      /\ \A i \in Ids \ {IdOf[c]} : commands'[i] = commands[i]
  BY CommandsAssumption DEF Track, TypeOK
<1>4. TypeOK'
  BY <1>1, <1>2, <1>3, CommandsAssumption DEF TypeOK, Labels, AnswerSeqs
<1>5. LockHeldByWaiter'
  BY <1>1, <1>2, <1>3, CommandsAssumption DEF TypeOK, Labels, LockHeldByWaiter
<1>6. WaiterTracked'
  <2> SUFFICES ASSUME NEW x \in Commands, pc'[x] = "waiting"
               PROVE  commands'[IdOf[x]] # None
    BY DEF WaiterTracked
  <2>1. x # c
    BY <1>1
  <2>2. commands[IdOf[x]] # None
    BY <1>1, <2>1 DEF WaiterTracked
  <2>3. IdOf[x] \in Ids /\ c # None
    BY CommandsAssumption
  <2> QED
    BY <1>3, <2>2, <2>3
<1>7. EntriesOwn'
  BY <1>1, <1>2, <1>3, CommandsAssumption DEF TypeOK, Labels, EntriesOwn
<1>8. OutcomeWhenOver' /\ ChildIsSpawned'
  BY <1>1, <1>2, <1>3, CommandsAssumption DEF TypeOK, Labels, OutcomeWhenOver, ChildIsSpawned
<1>9. SessionsNumbered' /\ AnswersDue'
  BY <1>1, <1>2, <1>3, CommandsAssumption DEF TypeOK, Labels, SessionsNumbered, AnswersDue
<1> QED
  BY <1>4, <1>5, <1>6, <1>7, <1>8, <1>9

\* A background command stores an unfinished result and answers with its id.
LEMMA StartBackgroundKeeps ==
  ASSUME TaskInv, NEW c \in Commands, StartBackground(c)
  PROVE  TaskInv'
<1> USE DEF TaskInv
<1>1. /\ pc' \in [Commands -> Labels] /\ pc'[c] = "stream"
      /\ \A x \in Commands \ {c} : pc'[x] = pc[x]
  BY GotoFacts DEF StartBackground, Labels
<1>2. /\ pc[c] = "tracked"
      /\ UNCHANGED <<child, offspring, output, commands, lock, outcome, conn, session, opened>>
  BY DEF StartBackground, processes
<1>3. /\ answers' \in [Commands -> AnswerSeqs]
      /\ \A x \in Commands \ {c} : answers'[x] = answers[x]
  BY ReplyFacts DEF StartBackground, AnswersDue
<1>4. /\ c \in Background
      /\ results' \in [Ids -> [cmd : Commands \cup {None}, done : BOOLEAN]]
      /\ IdOf[c] \in Ids /\ results'[IdOf[c]].cmd = c /\ ~results'[IdOf[c]].done
      /\ \A i \in Ids \ {IdOf[c]} : results'[i] = results[i]
  BY CommandsAssumption DEF StartBackground, TypeOK, AnswersDue
<1>5. TypeOK'
  BY <1>1, <1>2, <1>3, <1>4, CommandsAssumption DEF TypeOK, Labels, AnswerSeqs
<1>6. LockHeldByWaiter' /\ WaiterTracked'
  BY <1>1, <1>2, <1>3, <1>4, CommandsAssumption DEF TypeOK, Labels, LockHeldByWaiter, WaiterTracked
<1>7. EntriesOwn'
  <2>1. \A i \in Ids : /\ results'[i].cmd = (IF i = IdOf[c] THEN c ELSE results[i].cmd)
                       /\ results'[i].done => i # IdOf[c] /\ results[i].done
    BY <1>4
  <2>2. commands' = commands /\ c # None
    BY <1>2, CommandsAssumption
  <2> QED
    BY <2>1, <2>2 DEF EntriesOwn
<1>8. OutcomeWhenOver' /\ ChildIsSpawned'
  BY <1>1, <1>2, <1>3, <1>4, CommandsAssumption DEF TypeOK, Labels, OutcomeWhenOver, ChildIsSpawned
<1>9. SessionsNumbered' /\ AnswersDue'
  BY <1>1, <1>2, <1>3, <1>4, CommandsAssumption DEF TypeOK, Labels, SessionsNumbered, AnswersDue
<1> QED
  BY <1>5, <1>6, <1>7, <1>8, <1>9

\* The output of the child is closed.
LEMMA StreamEndsKeeps ==
  ASSUME TaskInv, NEW c \in Commands, StreamEnds(c)
  PROVE  TaskInv'
<1> USE DEF TaskInv
<1>1. /\ pc' \in [Commands -> Labels] /\ pc'[c] = "exit"
      /\ \A x \in Commands \ {c} : pc'[x] = pc[x]
  BY GotoFacts DEF StreamEnds, Labels
<1>2. /\ pc[c] = "stream"
      /\ UNCHANGED <<child, offspring, output, commands, lock, results, outcome, conn, session, opened, answers>>
  BY DEF StreamEnds, processes
<1>3. TypeOK'
  BY <1>1, <1>2, CommandsAssumption DEF TypeOK, Labels, AnswerSeqs
<1>4. LockHeldByWaiter' /\ WaiterTracked'
  BY <1>1, <1>2, CommandsAssumption DEF TypeOK, Labels, LockHeldByWaiter, WaiterTracked
<1>5. EntriesOwn'
  BY <1>1, <1>2, CommandsAssumption DEF TypeOK, Labels, EntriesOwn
<1>6. OutcomeWhenOver' /\ ChildIsSpawned'
  BY <1>1, <1>2, CommandsAssumption DEF TypeOK, Labels, OutcomeWhenOver, ChildIsSpawned
<1>7. SessionsNumbered' /\ AnswersDue'
  BY <1>1, <1>2, CommandsAssumption DEF TypeOK, Labels, SessionsNumbered, AnswersDue
<1> QED
  BY <1>3, <1>4, <1>5, <1>6, <1>7

\* The task takes the mutex only for a child that is tracked.
LEMMA AwaitExitKeeps ==
  ASSUME TaskInv, NEW c \in Commands, AwaitExit(c)
  PROVE  TaskInv'
<1> USE DEF TaskInv
<1>1. /\ pc' \in [Commands -> Labels]
      /\ pc'[c] = (IF commands[IdOf[c]] = None THEN "panicked" ELSE "waiting")
      /\ \A x \in Commands \ {c} : pc'[x] = pc[x]
  BY GotoFacts DEF AwaitExit, Labels
<1>2. /\ pc[c] = "exit" /\ lock = None
      /\ lock' = (IF commands[IdOf[c]] = None THEN None ELSE c)
      /\ UNCHANGED <<child, offspring, output, commands, results, outcome, conn, session, opened, answers>>
  BY DEF AwaitExit, processes
<1>3. TypeOK'
  BY <1>1, <1>2, CommandsAssumption DEF TypeOK, Labels, AnswerSeqs
<1>4. LockHeldByWaiter' /\ WaiterTracked'
  BY <1>1, <1>2, CommandsAssumption DEF TypeOK, Labels, LockHeldByWaiter, WaiterTracked
<1>5. EntriesOwn'
  BY <1>1, <1>2, CommandsAssumption DEF TypeOK, Labels, EntriesOwn
<1>6. OutcomeWhenOver' /\ ChildIsSpawned'
  BY <1>1, <1>2, CommandsAssumption DEF TypeOK, Labels, OutcomeWhenOver, ChildIsSpawned
<1>7. SessionsNumbered' /\ AnswersDue'
  BY <1>1, <1>2, CommandsAssumption DEF TypeOK, Labels, SessionsNumbered, AnswersDue
<1> QED
  BY <1>3, <1>4, <1>5, <1>6, <1>7

\* The wait ends with the child, and the mutex with it.
LEMMA ReapedKeeps ==
  ASSUME TaskInv, NEW c \in Commands, Reaped(c)
  PROVE  TaskInv'
<1> USE DEF TaskInv
<1>1. /\ pc' \in [Commands -> Labels] /\ pc'[c] = "over"
      /\ \A x \in Commands \ {c} : pc'[x] = pc[x]
  BY GotoFacts DEF Reaped, Labels
<1>2. /\ pc[c] = "waiting" /\ lock' = None
      /\ UNCHANGED <<child, offspring, output, commands, results, conn, session, opened, answers>>
  BY DEF Reaped, processes
<1>3. /\ outcome' \in [Commands -> {"none", "exited", "timed_out"}] /\ outcome'[c] = "exited"
      /\ \A x \in Commands \ {c} : outcome'[x] = outcome[x]
  BY DEF Reaped, TypeOK
<1>4. TypeOK'
  BY <1>1, <1>2, <1>3, CommandsAssumption DEF TypeOK, Labels, AnswerSeqs
<1>5. LockHeldByWaiter' /\ WaiterTracked'
  <2>1. lock = c /\ \A x \in Commands : pc[x] = "waiting" => lock = x
    BY <1>2 DEF LockHeldByWaiter
  <2>2. \A x \in Commands : pc'[x] # "waiting"
    BY <1>1, <2>1
  <2>3. \A x \in Commands : lock' # x
    BY <1>2, CommandsAssumption
  <2> QED
    BY <2>2, <2>3 DEF LockHeldByWaiter, WaiterTracked
<1>6. EntriesOwn'
  BY <1>1, <1>2, <1>3, CommandsAssumption DEF TypeOK, Labels, EntriesOwn
<1>7. OutcomeWhenOver' /\ ChildIsSpawned'
  BY <1>1, <1>2, <1>3, CommandsAssumption DEF TypeOK, Labels, OutcomeWhenOver, ChildIsSpawned
<1>8. SessionsNumbered' /\ AnswersDue'
  BY <1>1, <1>2, <1>3, CommandsAssumption DEF TypeOK, Labels, SessionsNumbered, AnswersDue
<1> QED
  BY <1>4, <1>5, <1>6, <1>7, <1>8

\* The deadline drops the wait, and with it the mutex if the task held it.
LEMMA DeadlineKeeps ==
  ASSUME TaskInv, NEW c \in Commands, Deadline(c)
  PROVE  TaskInv'
<1> USE DEF TaskInv
<1>1. /\ pc' \in [Commands -> Labels] /\ pc'[c] = "expired"
      /\ \A x \in Commands \ {c} : pc'[x] = pc[x]
  BY GotoFacts DEF Deadline, Labels
<1>2. /\ pc[c] \in {"stream", "exit", "waiting"} /\ lock' = (IF lock = c THEN None ELSE lock)
      /\ UNCHANGED <<child, offspring, output, commands, results, outcome, conn, session, opened, answers>>
  BY DEF Deadline, processes
<1>3. TypeOK'
  BY <1>1, <1>2, CommandsAssumption DEF TypeOK, Labels, AnswerSeqs
<1>4. LockHeldByWaiter' /\ WaiterTracked'
  BY <1>1, <1>2, CommandsAssumption DEF TypeOK, Labels, LockHeldByWaiter, WaiterTracked
<1>5. EntriesOwn'
  BY <1>1, <1>2, CommandsAssumption DEF TypeOK, Labels, EntriesOwn
<1>6. OutcomeWhenOver' /\ ChildIsSpawned'
  BY <1>1, <1>2, CommandsAssumption DEF TypeOK, Labels, OutcomeWhenOver, ChildIsSpawned
<1>7. SessionsNumbered' /\ AnswersDue'
  BY <1>1, <1>2, CommandsAssumption DEF TypeOK, Labels, SessionsNumbered, AnswersDue
<1> QED
  BY <1>3, <1>4, <1>5, <1>6, <1>7

\* The tracked child is killed, or the task finds none.
LEMMA KillExpiredKeeps ==
  ASSUME TaskInv, NEW c \in Commands, KillExpired(c)
  PROVE  TaskInv'
<1> USE DEF TaskInv
<1>1. /\ pc' \in [Commands -> Labels]
      /\ pc'[c] = (IF commands[IdOf[c]] = None THEN "panicked" ELSE "over")
      /\ \A x \in Commands \ {c} : pc'[x] = pc[x]
  BY GotoFacts DEF KillExpired, Labels
<1>2. /\ pc[c] = "expired"
      /\ UNCHANGED <<commands, lock, results, conn, session, opened, answers>>
  BY DEF KillExpired
<1>3. /\ outcome' \in [Commands -> {"none", "exited", "timed_out"}]
      /\ \A x \in Commands \ {c} : outcome'[x] = outcome[x]
      /\ outcome'[c] = (IF commands[IdOf[c]] = None THEN outcome[c] ELSE "timed_out")
  BY DEF KillExpired, TypeOK
<1>4. /\ child' \in [Commands -> {"none", "running", "exited", "killed"}]
      /\ offspring' \in [Commands -> BOOLEAN] /\ output' \in [Commands -> BOOLEAN]
      /\ \A x \in Commands : child[x] = "none" => child'[x] = "none"
  <2>1. CASE commands[IdOf[c]] = None
    BY <2>1 DEF KillExpired, TypeOK, processes
  <2>2. CASE commands[IdOf[c]] # None
    <3>1. Kill({commands[IdOf[c]]})
      BY <2>2 DEF KillExpired
    <3> QED
      BY <3>1, KillTypes
  <2> QED
    BY <2>1, <2>2
<1>5. TypeOK'
  BY <1>1, <1>2, <1>3, <1>4, CommandsAssumption DEF TypeOK, Labels, AnswerSeqs
<1>6. LockHeldByWaiter' /\ WaiterTracked'
  BY <1>1, <1>2, <1>3, <1>4, CommandsAssumption DEF TypeOK, Labels, LockHeldByWaiter, WaiterTracked
<1>7. EntriesOwn'
  BY <1>1, <1>2, <1>3, <1>4, CommandsAssumption DEF TypeOK, Labels, EntriesOwn
<1>8. OutcomeWhenOver' /\ ChildIsSpawned'
  <2>1. outcome[c] = "none"
    BY <1>2 DEF OutcomeWhenOver
  <2>2. /\ pc'[c] = "over" => outcome'[c] # "none"
        /\ outcome'[c] # "none" => pc'[c] \in {"over", "done"}
    BY <1>1, <1>3, <2>1
  <2>3. OutcomeWhenOver'
    BY <1>1, <1>3, <2>2 DEF OutcomeWhenOver
  <2>4. \A x \in Commands : pc'[x] \in {"new", "received"} => pc[x] \in {"new", "received"}
    BY <1>1
  <2>5. ChildIsSpawned'
    BY <1>4, <2>4 DEF ChildIsSpawned
  <2> QED
    BY <2>3, <2>5
<1>9. SessionsNumbered' /\ AnswersDue'
  BY <1>1, <1>2, <1>3, <1>4, CommandsAssumption DEF TypeOK, Labels, SessionsNumbered, AnswersDue
<1> QED
  BY <1>5, <1>6, <1>7, <1>8, <1>9

\* Wait mode removes the entry and answers, for the first time.
LEMMA FinishWaitKeeps ==
  ASSUME TaskInv, NEW c \in Commands, FinishWait(c)
  PROVE  TaskInv'
<1> USE DEF TaskInv
<1>1. /\ pc' \in [Commands -> Labels] /\ pc'[c] = "done"
      /\ \A x \in Commands \ {c} : pc'[x] = pc[x]
  BY GotoFacts DEF FinishWait, Labels
<1>2. /\ pc[c] = "over" /\ lock = None
      /\ UNCHANGED <<child, offspring, output, lock, results, outcome, conn, session, opened>>
  BY DEF FinishWait, processes
<1>3. /\ answers' \in [Commands -> AnswerSeqs]
      /\ \A x \in Commands \ {c} : answers'[x] = answers[x]
  BY ReplyFacts DEF FinishWait, AnswersDue
<1>4. /\ commands' \in [Ids -> Commands \cup {None}]
      /\ \A i \in Ids : commands'[i] = (IF i = IdOf[c] THEN None ELSE commands[i])
  BY DEF FinishWait, TypeOK
<1>5. TypeOK'
  BY <1>1, <1>2, <1>3, <1>4, CommandsAssumption DEF TypeOK, Labels, AnswerSeqs
<1>6. LockHeldByWaiter' /\ WaiterTracked'
  <2>1. \A x \in Commands : pc[x] # "waiting" /\ lock # x
    BY <1>2, CommandsAssumption DEF LockHeldByWaiter
  <2>2. \A x \in Commands : pc'[x] # "waiting" /\ lock' # x
    BY <1>1, <1>2, <2>1
  <2> QED
    BY <2>2 DEF LockHeldByWaiter, WaiterTracked
<1>7. EntriesOwn'
  BY <1>1, <1>2, <1>3, <1>4, CommandsAssumption DEF TypeOK, Labels, EntriesOwn
<1>8. OutcomeWhenOver' /\ ChildIsSpawned'
  BY <1>1, <1>2, <1>3, <1>4, CommandsAssumption DEF TypeOK, Labels, OutcomeWhenOver, ChildIsSpawned
<1>9. SessionsNumbered' /\ AnswersDue'
  BY <1>1, <1>2, <1>3, <1>4, CommandsAssumption DEF TypeOK, Labels, SessionsNumbered, AnswersDue
<1> QED
  BY <1>5, <1>6, <1>7, <1>8, <1>9

\* The background task marks the result under its id as done, if there is one.
LEMMA FinishBackgroundKeeps ==
  ASSUME TaskInv, NEW c \in Commands, FinishBackground(c)
  PROVE  TaskInv'
<1> USE DEF TaskInv
<1>1. /\ pc' \in [Commands -> Labels] /\ pc'[c] = "done"
      /\ \A x \in Commands \ {c} : pc'[x] = pc[x]
  BY GotoFacts DEF FinishBackground, Labels
<1>2. /\ pc[c] = "over" /\ c \in Background
      /\ UNCHANGED <<child, offspring, output, commands, lock, outcome, conn, session, opened, answers>>
  BY DEF FinishBackground, processes
<1>3. /\ results' \in [Ids -> [cmd : Commands \cup {None}, done : BOOLEAN]]
      /\ \A i \in Ids : /\ results'[i].cmd = results[i].cmd
                        /\ results'[i].done => results[i].done \/ (i = IdOf[c] /\ results[i].cmd # None)
  <2>1. results' = [results EXCEPT ![IdOf[c]].done = @ \/ results[IdOf[c]].cmd # None]
    BY DEF FinishBackground
  <2>2. results \in [Ids -> [cmd : Commands \cup {None}, done : BOOLEAN]]
    BY DEF TypeOK
  <2>3. \A i \in Ids : results'[i] = IF i = IdOf[c]
                                    THEN [results[i] EXCEPT !.done = @ \/ results[i].cmd # None]
                                    ELSE results[i]
    BY <2>1, <2>2
  <2>4. results' \in [Ids -> [cmd : Commands \cup {None}, done : BOOLEAN]]
    BY <2>1, <2>2
  <2> QED
    BY <2>2, <2>3, <2>4
<1>4. TypeOK'
  BY <1>1, <1>2, <1>3, CommandsAssumption DEF TypeOK, Labels, AnswerSeqs
<1>5. LockHeldByWaiter' /\ WaiterTracked'
  BY <1>1, <1>2, <1>3, CommandsAssumption DEF TypeOK, Labels, LockHeldByWaiter, WaiterTracked
<1>6. EntriesOwn'
  BY <1>1, <1>2, <1>3, CommandsAssumption DEF TypeOK, Labels, EntriesOwn
<1>7. OutcomeWhenOver' /\ ChildIsSpawned'
  BY <1>1, <1>2, <1>3, CommandsAssumption DEF TypeOK, Labels, OutcomeWhenOver, ChildIsSpawned
<1>8. SessionsNumbered' /\ AnswersDue'
  BY <1>1, <1>2, <1>3, CommandsAssumption DEF TypeOK, Labels, SessionsNumbered, AnswersDue
<1> QED
  BY <1>4, <1>5, <1>6, <1>7, <1>8

-----------------------------------------------------------------------------
\* What the world does to the children and to the connection keeps TaskInv if
\* it leaves the tasks alone.
LEMMA WorldKeeps ==
  ASSUME TaskInv, UNCHANGED <<pc, lock, results, outcome, opened, answers>>,
         child' \in [Commands -> {"none", "running", "exited", "killed"}],
         offspring' \in [Commands -> BOOLEAN], output' \in [Commands -> BOOLEAN],
         \A c \in Commands : child[c] = "none" => child'[c] = "none",
         \/ commands' = commands
         \/ lock = None /\ commands' = [i \in Ids |-> None],
         conn' \in {"up", "killing", "down"},
         session' \in 0 .. MaxDisconnects, session <= session',
         conn' # "up" => session' < MaxDisconnects
  PROVE  TaskInv'
<1> USE DEF TaskInv
<1>1. commands' \in [Ids -> Commands \cup {None}]
  BY DEF TypeOK
<1>2. TypeOK'
  BY <1>1 DEF TypeOK
<1>3. LockHeldByWaiter' /\ OutcomeWhenOver' /\ ChildIsSpawned'
  BY DEF LockHeldByWaiter, OutcomeWhenOver, ChildIsSpawned
<1>4. WaiterTracked'
  BY CommandsAssumption DEF LockHeldByWaiter, WaiterTracked
<1>5. EntriesOwn'
  <2>1. \A i \in Ids : commands'[i] = commands[i] \/ commands'[i] = None
    OBVIOUS
  <2> QED
    BY <2>1 DEF EntriesOwn
<1>6. SessionsNumbered'
  <2>1. session \in Nat /\ session' \in Nat /\ \A c \in Commands : opened'[c] = opened[c] /\ opened[c] \in Nat
    BY CommandsAssumption DEF TypeOK
  <2> QED
    BY <2>1 DEF SessionsNumbered
<1>7. AnswersDue'
  BY DEF AnswersDue
<1> QED
  BY <1>2, <1>3, <1>4, <1>5, <1>6, <1>7

\* Every step keeps TaskInv.
LEMMA TaskStepKeeps == TaskInv /\ [Next]_vars => TaskInv'
<1> SUFFICES ASSUME TaskInv, [Next]_vars
             PROVE  TaskInv'
  OBVIOUS
<1>1. ASSUME NEW c \in Commands,
             Receive(c) \/ InputFed(c) \/ TaskStep(c) \/ Deadline(c)
      PROVE  TaskInv'
  BY <1>1, ReceiveKeeps, InputFedKeeps, SpawnKeeps, SpawnFailsKeeps, TrackKeeps, StartBackgroundKeeps,
     StreamEndsKeeps, AwaitExitKeeps, ReapedKeeps, DeadlineKeeps, KillExpiredKeeps,
      FinishWaitKeeps, FinishBackgroundKeeps
     DEF TaskStep
<1>2. /\ session \in Nat /\ session \in 0 .. MaxDisconnects /\ session <= session
      /\ conn \in {"up", "killing", "down"}
      /\ conn # "up" => session < MaxDisconnects
      /\ child \in [Commands -> {"none", "running", "exited", "killed"}]
      /\ offspring \in [Commands -> BOOLEAN] /\ output \in [Commands -> BOOLEAN]
  BY CommandsAssumption DEF TaskInv, TypeOK, SessionsNumbered
<1>3. ASSUME NEW c \in Commands, Forks(c) \/ Exits(c) \/ OffspringEnds(c) \/ ClosesOutput(c)
      PROVE  TaskInv'
  <2>1. /\ child' \in [Commands -> {"none", "running", "exited", "killed"}]
        /\ \A x \in Commands : child[x] = "none" => child'[x] = "none"
        /\ UNCHANGED <<pc, commands, lock, results, outcome, conn, session, opened, answers>>
    BY <1>2, <1>3 DEF Forks, Exits, OffspringEnds, ClosesOutput, Alive
  <2>2. offspring' \in [Commands -> BOOLEAN] /\ output' \in [Commands -> BOOLEAN]
    BY <1>2, <1>3 DEF Forks, Exits, OffspringEnds, ClosesOutput, Alive
  <2> QED
    BY <1>2, <2>1, <2>2, WorldKeeps
<1>4. CASE Disconnect
  <2>1. /\ UNCHANGED <<pc, child, offspring, output, commands, lock, results, outcome, session, opened, answers>>
        /\ conn' \in {"up", "killing", "down"} /\ session < MaxDisconnects
    BY <1>4 DEF Disconnect, processes
  <2> QED
    BY <1>2, <2>1, WorldKeeps
<1>5. CASE kill_all
  <2>1. /\ child' \in [Commands -> {"none", "running", "exited", "killed"}]
        /\ offspring' \in [Commands -> BOOLEAN] /\ output' \in [Commands -> BOOLEAN]
        /\ \A x \in Commands : child[x] = "none" => child'[x] = "none"
    BY <1>5, KillTypes DEF kill_all, TaskInv
  <2>2. /\ UNCHANGED <<pc, lock, results, outcome, session, opened, answers>>
        /\ lock = None /\ commands' = [i \in Ids |-> None]
        /\ conn # "up" /\ conn' = "down"
    BY <1>5 DEF kill_all
  <2> QED
    BY <1>2, <2>1, <2>2, WorldKeeps
<1>6. CASE Reconnect
  <2>1. /\ UNCHANGED <<pc, child, offspring, output, commands, lock, results, outcome, opened, answers>>
        /\ conn # "up" /\ conn' = "up" /\ session' = session + 1
    BY <1>6 DEF Reconnect, processes
  <2>2. session' \in 0 .. MaxDisconnects /\ session <= session'
    BY <1>2, <2>1, CommandsAssumption
  <2> QED
    BY <1>2, <2>1, <2>2, WorldKeeps
<1>7. CASE UNCHANGED vars
  BY <1>2, <1>7, WorldKeeps DEF vars, processes
<1> QED
  BY <1>1, <1>3, <1>4, <1>5, <1>6, <1>7 DEF Next

\* TaskInv holds throughout every behaviour.
THEOREM TaskInvariant == Spec => []TaskInv
BY TaskInit, TaskStepKeeps, PTL DEF Spec

\* Every behaviour is within the types, and no request gets more than two
\* responses.
THEOREM CommandTypes == Spec => []TypeOK
<1>1. TaskInv => TypeOK
  BY DEF TaskInv
<1> QED
  BY <1>1, TaskInvariant, PTL

\* The commands mutex is held exactly by the task that waits for its child:
\* the guard that Deadline drops, a panic and the end of the wait all release
\* it.  This does not depend on the ids.
THEOREM MutexFree == Spec => []LockHeldByWaiter
<1>1. TaskInv => LockHeldByWaiter
  BY DEF TaskInv
<1> QED
  BY <1>1, TaskInvariant, PTL

-----------------------------------------------------------------------------
\* With distinct ids an entry under the id of a command is its own.
LEMMA OwnEntry ==
  ASSUME DistinctIds, TaskInv, NEW c \in Commands
  PROVE  /\ IdOf[c] \in Ids
         /\ commands[IdOf[c]] \in {c, None}
         /\ results[IdOf[c]].cmd \in {c, None}
         /\ c # None
<1>1. IdOf[c] \in Ids /\ c # None
  BY CommandsAssumption
<1>2. /\ commands[IdOf[c]] \in Commands \cup {None}
      /\ results[IdOf[c]].cmd \in Commands \cup {None}
  BY <1>1 DEF TaskInv, TypeOK
<1> QED
  BY <1>1, <1>2 DEF TaskInv, EntriesOwn, DistinctIds

\* What a step of c's task, or of its child, keeps of OwnInv: it leaves the
\* other commands alone, revives no child, and leaves c in the map while it is
\* held.
LEMMA OwnTaskKeeps ==
  ASSUME DistinctIds, TaskInv, TaskInv', OwnInv, NEW c \in Commands,
         \A x \in Commands \ {c} :
           /\ pc'[x] = pc[x] /\ outcome'[x] = outcome[x] /\ opened'[x] = opened[x]
           /\ child'[x] = child[x]
           /\ commands'[IdOf[x]] = commands[IdOf[x]],
         Held(c)' => commands'[IdOf[c]] = c \/ Gone(c)',
         Held(c)' /\ Alive(c)' => commands'[IdOf[c]] = c,
         outcome'[c] # "none" => ~Alive(c)',
         pc'[c] = "panicked" => Gone(c)',
         \A i \in Ids : results'[i].done => outcome'[results'[i].cmd] # "none",
         UNCHANGED <<conn, session>>
  PROVE  OwnInv'
<1>1. \A x \in Commands \ {c} :
        /\ Alive(x)' <=> Alive(x)
        /\ Held(x)' <=> Held(x)
        /\ Gone(x)' <=> Gone(x)
  BY DEF Alive, Held, Gone
<1>2. RunningIsTracked'
  <2> SUFFICES ASSUME NEW x \in Commands, Held(x)', Alive(x)'
               PROVE  commands'[IdOf[x]] = x
    BY DEF RunningIsTracked, Held
  <2>1. CASE x = c
    BY <2>1
  <2>2. CASE x # c
    BY <1>1, <2>2 DEF OwnInv, RunningIsTracked, Held
  <2> QED
    BY <2>1, <2>2
<1>3. OutcomeIsOwn'
  BY <1>1 DEF OwnInv, OutcomeIsOwn
<1>4. DoneHasOutcome'
  BY DEF DoneHasOutcome
<1>5. LostAfterDisconnect'
  BY <1>1 DEF OwnInv, LostAfterDisconnect
<1>6. PanicOnlyAfterDisconnect'
  BY <1>1 DEF OwnInv, PanicOnlyAfterDisconnect, Gone
<1> QED
  BY <1>2, <1>3, <1>4, <1>5, <1>6 DEF OwnInv

\* A task that only goes on, with its child and all entries as they are.
LEMMA OwnGoesOn ==
  ASSUME DistinctIds, TaskInv, TaskInv', OwnInv, NEW c \in Commands, NEW label \in Labels,
         Goto(c, label), UNCHANGED <<child, offspring, output, commands, outcome, conn, session>>,
         Held(c)' => Held(c) \/ commands[IdOf[c]] = c,
         label # "panicked",
         opened' = opened \/ (pc[c] = "new" /\ \A x \in Commands \ {c} : opened'[x] = opened[x]),
         \A i \in Ids : results'[i].done => outcome[results'[i].cmd] # "none"
  PROVE  OwnInv'
<1>1. /\ pc'[c] = label
      /\ \A x \in Commands \ {c} : pc'[x] = pc[x]
  BY GotoFacts DEF TaskInv
<1>2. \A x \in Commands : Alive(x)' <=> Alive(x)
  BY DEF Alive
<1>3. outcome'[c] # "none" => ~Alive(c)'
  BY <1>2 DEF OwnInv, OutcomeIsOwn
<1>4. Held(c)' /\ Alive(c)' => commands'[IdOf[c]] = c
  BY <1>2 DEF OwnInv, RunningIsTracked, Held
<1>5. Held(c)' => commands'[IdOf[c]] = c \/ Gone(c)'
  <2>1. CASE commands[IdOf[c]] = c
    BY <2>1
  <2>2. CASE Held(c) /\ commands[IdOf[c]] # c
    <3>1. Gone(c) /\ pc[c] # "new"
      BY <2>2 DEF OwnInv, LostAfterDisconnect, Held
    <3> QED
      BY <3>1 DEF Gone
  <2> QED
    BY <2>1, <2>2
<1>6. \A x \in Commands \ {c} : opened'[x] = opened[x]
  OBVIOUS
<1> QED
  BY <1>1, <1>3, <1>4, <1>5, <1>6, OwnTaskKeeps DEF Alive

-----------------------------------------------------------------------------
\* Steps of a task that move it on and touch neither children nor entries.
LEMMA OwnPlainSteps ==
  ASSUME DistinctIds, TaskInv, TaskInv', OwnInv, NEW c \in Commands,
         Receive(c) \/ InputFed(c) \/ SpawnFails(c) \/ StreamEnds(c) \/ Deadline(c)
  PROVE  OwnInv'
<1>1. \A i \in Ids : results[i].done => outcome[results[i].cmd] # "none"
  BY DEF OwnInv, DoneHasOutcome
<1>2. ASSUME NEW label \in Labels, Goto(c, label)
      PROVE  pc'[c] = label
  BY <1>2, GotoFacts DEF TaskInv
<1>3. CASE Receive(c)
  <2>1. /\ Goto(c, "received") /\ pc[c] = "new"
        /\ UNCHANGED <<child, offspring, output, commands, results, outcome, conn, session>>
    BY <1>3 DEF Receive, processes
  <2>2. pc'[c] = "received" /\ ~Held(c)'
    BY <1>2, <2>1 DEF Labels, Held
  <2>3. \A x \in Commands \ {c} : opened'[x] = opened[x]
    BY <1>3 DEF Receive, TaskInv, TypeOK
  <2> QED
    BY <1>1, <2>1, <2>2, <2>3, OwnGoesOn DEF Labels
<1>4. CASE InputFed(c)
  <2>1. /\ Goto(c, "spawned")
        /\ UNCHANGED <<child, offspring, output, commands, results, outcome, conn, session, opened>>
    BY <1>4 DEF InputFed, processes
  <2>2. pc'[c] = "spawned" /\ ~Held(c)'
    BY <1>2, <2>1 DEF Labels, Held
  <2> QED
    BY <1>1, <2>1, <2>2, OwnGoesOn DEF Labels
<1>5. CASE SpawnFails(c)
  <2>1. Goto(c, "done") /\ UNCHANGED <<child, offspring, output, commands, results, outcome, conn, session, opened>>
    BY <1>5 DEF SpawnFails, processes
  <2>2. pc'[c] = "done" /\ ~Held(c)'
    BY <1>2, <2>1 DEF Labels, Held
  <2> QED
    BY <1>1, <2>1, <2>2, OwnGoesOn DEF Labels
<1>6. CASE StreamEnds(c)
  <2>1. /\ Goto(c, "exit") /\ Held(c)
        /\ UNCHANGED <<child, offspring, output, commands, results, outcome, conn, session, opened>>
    BY <1>6 DEF StreamEnds, Held, processes
  <2> QED
    BY <1>1, <2>1, OwnGoesOn DEF Labels
<1>7. CASE Deadline(c)
  <2>1. /\ Goto(c, "expired") /\ Held(c)
        /\ UNCHANGED <<child, offspring, output, commands, results, outcome, conn, session, opened>>
    BY <1>7 DEF Deadline, Held, processes
  <2> QED
    BY <1>1, <2>1, OwnGoesOn DEF Labels
<1> QED
  BY <1>3, <1>4, <1>5, <1>6, <1>7

\* The child is born untracked, and no outcome is known of it.
LEMMA OwnSpawn ==
  ASSUME DistinctIds, TaskInv, TaskInv', OwnInv, NEW c \in Commands, Spawn(c)
  PROVE  OwnInv'
<1>1. /\ pc[c] = "received" /\ pc'[c] \in {"feeding", "spawned"}
      /\ \A x \in Commands \ {c} : pc'[x] = pc[x]
  BY GotoFacts DEF Spawn, TaskInv, Labels
<1>2. /\ UNCHANGED <<commands, results, outcome, conn, session, opened>>
      /\ \A x \in Commands \ {c} : child'[x] = child[x]
  BY DEF Spawn, TaskInv, TypeOK
<1>3. outcome'[c] = "none" /\ ~Held(c)' /\ pc'[c] # "panicked"
  BY <1>1, <1>2 DEF TaskInv, OutcomeWhenOver, Held
<1>4. \A i \in Ids : results'[i].done => outcome'[results'[i].cmd] # "none"
  BY <1>2 DEF OwnInv, DoneHasOutcome
<1> QED
  BY <1>1, <1>2, <1>3, <1>4, OwnTaskKeeps

\* Entering a child replaces no entry of another command.
LEMMA OwnTrack ==
  ASSUME DistinctIds, TaskInv, TaskInv', OwnInv, NEW c \in Commands, Track(c)
  PROVE  OwnInv'
<1>1. /\ pc[c] = "spawned" /\ pc'[c] \in {"tracked", "stream"}
      /\ \A x \in Commands \ {c} : pc'[x] = pc[x]
  BY GotoFacts DEF Track, TaskInv, Labels
<1>2. UNCHANGED <<child, offspring, output, results, outcome, conn, session, opened>>
  BY DEF Track, processes
<1>3. commands'[IdOf[c]] = c
  BY OwnEntry DEF Track, TaskInv, TypeOK
<1>4. \A x \in Commands \ {c} : commands'[IdOf[x]] = commands[IdOf[x]]
  BY CommandsAssumption DEF Track, TaskInv, TypeOK, DistinctIds
<1>5. outcome'[c] = "none" /\ pc'[c] # "panicked"
  BY <1>1, <1>2 DEF TaskInv, OutcomeWhenOver
<1>6. \A i \in Ids : results'[i].done => outcome'[results'[i].cmd] # "none"
  BY <1>2 DEF OwnInv, DoneHasOutcome
<1> QED
  BY <1>1, <1>2, <1>3, <1>4, <1>5, <1>6, OwnTaskKeeps

\* The new result is not done.
LEMMA OwnStartBackground ==
  ASSUME DistinctIds, TaskInv, TaskInv', OwnInv, NEW c \in Commands, StartBackground(c)
  PROVE  OwnInv'
<1>1. Goto(c, "stream") /\ Held(c) /\ UNCHANGED <<child, offspring, output, commands, outcome, conn, session, opened>>
  BY DEF StartBackground, Held, processes
<1>2. \A i \in Ids : results'[i].done => i # IdOf[c] /\ results'[i] = results[i]
  BY CommandsAssumption DEF StartBackground, TaskInv, TypeOK
<1>3. \A i \in Ids : results'[i].done => outcome[results'[i].cmd] # "none"
  BY <1>2 DEF OwnInv, DoneHasOutcome
<1> QED
  BY <1>1, <1>3, OwnGoesOn DEF Labels

\* A task that finds its child gone from the map has lost its connection.
LEMMA OwnAwaitExit ==
  ASSUME DistinctIds, TaskInv, TaskInv', OwnInv, NEW c \in Commands, AwaitExit(c)
  PROVE  OwnInv'
<1>1. Held(c) /\ UNCHANGED <<child, offspring, output, commands, results, outcome, conn, session, opened>>
  BY DEF AwaitExit, Held, processes
<1>2. \A i \in Ids : results'[i].done => outcome'[results'[i].cmd] # "none"
  BY <1>1 DEF OwnInv, DoneHasOutcome
<1>3. CASE commands[IdOf[c]] = None
  <2>1. /\ pc'[c] = "panicked"
        /\ \A x \in Commands \ {c} : pc'[x] = pc[x]
    BY <1>3, GotoFacts DEF AwaitExit, TaskInv, Labels
  <2>2. Gone(c)'
    BY <1>1, <1>3, OwnEntry DEF OwnInv, LostAfterDisconnect, Gone
  <2>3. ~Held(c)'
    BY <2>1 DEF Held
  <2>4. outcome'[c] # "none" => ~Alive(c)'
    BY <1>1 DEF OwnInv, OutcomeIsOwn, Alive
  <2> QED
    BY <1>1, <1>2, <2>1, <2>2, <2>3, <2>4, OwnTaskKeeps
<1>4. CASE commands[IdOf[c]] # None
  <2>1. Goto(c, "waiting")
    BY <1>4 DEF AwaitExit, processes
  <2> QED
    BY <1>1, <1>2, <2>1, OwnGoesOn DEF Labels
<1> QED
  BY <1>3, <1>4

\* The child waited for is the command's own: its entry cannot be cleared
\* while the task holds the mutex.
LEMMA OwnReaped ==
  ASSUME DistinctIds, TaskInv, TaskInv', OwnInv, NEW c \in Commands, Reaped(c)
  PROVE  OwnInv'
<1>1. /\ pc[c] = "waiting" /\ pc'[c] = "over"
      /\ \A x \in Commands \ {c} : pc'[x] = pc[x]
  BY GotoFacts DEF Reaped, TaskInv, Labels
<1>2. /\ UNCHANGED <<child, offspring, output, commands, results, conn, session, opened>>
      /\ outcome'[c] # "none"
      /\ \A x \in Commands \ {c} : outcome'[x] = outcome[x]
  BY DEF Reaped, TaskInv, TypeOK, processes
<1>3. commands[IdOf[c]] = c
  BY <1>1, OwnEntry DEF TaskInv, WaiterTracked
<1>4. ~Alive(c)'
  BY <1>2, <1>3 DEF Reaped, Alive
<1>5. ~Held(c)' /\ pc'[c] # "panicked"
  BY <1>1 DEF Held
<1>6. \A i \in Ids : results'[i].done => outcome'[results'[i].cmd] # "none"
  <2>1. \A i \in Ids : results[i].done => outcome[results[i].cmd] # "none" /\ results[i].cmd \in Commands
    BY DEF OwnInv, DoneHasOutcome, TaskInv, EntriesOwn, TypeOK
  <2> QED
    BY <1>2, <2>1
<1> QED
  BY <1>1, <1>2, <1>4, <1>5, <1>6, OwnTaskKeeps

\* The deadline kills the command's own child, or finds it cleared by a
\* disconnect.
LEMMA OwnKillExpired ==
  ASSUME DistinctIds, TaskInv, TaskInv', OwnInv, NEW c \in Commands, KillExpired(c)
  PROVE  OwnInv'
<1>1. Held(c) /\ pc[c] = "expired" /\ UNCHANGED <<commands, results, conn, session, opened>>
  BY DEF KillExpired, Held
<1>2. \A i \in Ids : results[i].done => outcome[results[i].cmd] # "none" /\ results[i].cmd \in Commands
  BY DEF OwnInv, DoneHasOutcome, TaskInv, EntriesOwn, TypeOK
<1>3. CASE commands[IdOf[c]] = None
  <2>1. /\ pc'[c] = "panicked" /\ UNCHANGED <<child, offspring, output, outcome>>
        /\ \A x \in Commands \ {c} : pc'[x] = pc[x]
    BY <1>3, GotoFacts DEF KillExpired, TaskInv, Labels, processes
  <2>2. Gone(c)' /\ ~Held(c)'
    BY <1>1, <1>3, <2>1, OwnEntry DEF OwnInv, LostAfterDisconnect, Gone, Held
  <2>3. outcome'[c] # "none" => ~Alive(c)'
    BY <2>1 DEF OwnInv, OutcomeIsOwn, Alive
  <2>4. \A i \in Ids : results'[i].done => outcome'[results'[i].cmd] # "none"
    BY <1>1, <1>2, <2>1
  <2> QED
    BY <1>1, <2>1, <2>2, <2>3, <2>4, OwnTaskKeeps
<1>4. CASE commands[IdOf[c]] # None
  <2>1. commands[IdOf[c]] = c
    BY <1>4, OwnEntry
  <2>2. /\ Kill({c})
        /\ outcome' = [outcome EXCEPT ![c] = "timed_out"]
        /\ Goto(c, "over")
    BY <1>4, <2>1 DEF KillExpired
  <2>3. /\ pc'[c] = "over"
        /\ \A x \in Commands \ {c} : pc'[x] = pc[x]
    BY <2>2, GotoFacts DEF TaskInv, Labels
  <2>4. ~Held(c)' /\ pc'[c] # "panicked"
    BY <2>3 DEF Held
  <2>5. /\ ~Alive(c)'
        /\ \A x \in Commands \ {c} : child'[x] = child[x]
    BY <2>2, KillTypes DEF TaskInv
  <2>6. /\ outcome'[c] # "none"
        /\ \A x \in Commands \ {c} : outcome'[x] = outcome[x]
    BY <2>2 DEF TaskInv, TypeOK
  <2>7. \A i \in Ids : results'[i].done => outcome'[results'[i].cmd] # "none"
    BY <1>1, <1>2, <2>6
  <2> QED
    BY <1>1, <2>3, <2>4, <2>5, <2>6, <2>7, OwnTaskKeeps
<1> QED
  BY <1>3, <1>4

\* Wait mode removes its own entry only.
LEMMA OwnFinishWait ==
  ASSUME DistinctIds, TaskInv, TaskInv', OwnInv, NEW c \in Commands, FinishWait(c)
  PROVE  OwnInv'
<1>1. /\ pc'[c] = "done" /\ pc'[c] # "panicked"
      /\ \A x \in Commands \ {c} : pc'[x] = pc[x]
  BY GotoFacts DEF FinishWait, TaskInv, Labels
<1>2. UNCHANGED <<child, offspring, output, results, outcome, conn, session, opened>>
  BY DEF FinishWait, processes
<1>3. \A x \in Commands \ {c} : commands'[IdOf[x]] = commands[IdOf[x]]
  BY CommandsAssumption DEF FinishWait, TaskInv, TypeOK, DistinctIds
<1>4. ~Held(c)' /\ (outcome'[c] # "none" => ~Alive(c)')
  BY <1>1, <1>2 DEF Held, OwnInv, OutcomeIsOwn, Alive
<1>5. \A i \in Ids : results'[i].done => outcome'[results'[i].cmd] # "none"
  BY <1>2 DEF OwnInv, DoneHasOutcome
<1> QED
  BY <1>1, <1>2, <1>3, <1>4, <1>5, OwnTaskKeeps

\* The result marked as done is the task's own, and its outcome is known.
LEMMA OwnFinishBackground ==
  ASSUME DistinctIds, TaskInv, TaskInv', OwnInv, NEW c \in Commands, FinishBackground(c)
  PROVE  OwnInv'
<1>1. /\ Goto(c, "done") /\ pc[c] = "over"
      /\ UNCHANGED <<child, offspring, output, commands, outcome, conn, session, opened>>
  BY DEF FinishBackground, processes
<1>2. pc'[c] = "done" /\ ~Held(c)'
  BY <1>1, GotoFacts DEF TaskInv, Labels, Held
<1>3. outcome[c] # "none"
  BY <1>1 DEF TaskInv, OutcomeWhenOver
<1>4. ASSUME NEW i \in Ids, results'[i].done
      PROVE  outcome[results'[i].cmd] # "none"
  <2>1. results'[i].cmd = results[i].cmd
    BY DEF FinishBackground, TaskInv, TypeOK
  <2>2. CASE results[i].done
    BY <2>1, <2>2 DEF OwnInv, DoneHasOutcome
  <2>3. CASE i = IdOf[c] /\ results[i].cmd # None
    BY <1>3, <2>1, <2>3, OwnEntry
  <2> QED
    BY <1>4, <2>2, <2>3 DEF FinishBackground, TaskInv, TypeOK
<1> QED
  BY <1>1, <1>2, <1>4, OwnGoesOn DEF Labels

\* A shell is no more alive for what the processes of its command do.
LEMMA OwnChildSteps ==
  ASSUME DistinctIds, TaskInv, TaskInv', OwnInv, NEW c \in Commands,
         Forks(c) \/ Exits(c) \/ OffspringEnds(c) \/ ClosesOutput(c)
  PROVE  OwnInv'
<1>1. UNCHANGED <<pc, commands, results, outcome, conn, session, opened>>
  BY DEF Forks, Exits, OffspringEnds, ClosesOutput
<1>2. /\ \A x \in Commands \ {c} : child'[x] = child[x]
      /\ Alive(c)' => Alive(c)
  BY DEF Forks, Exits, OffspringEnds, ClosesOutput, Alive, TaskInv, TypeOK
<1>3. outcome'[c] # "none" => ~Alive(c)'
  BY <1>1, <1>2 DEF OwnInv, OutcomeIsOwn
<1>4. Held(c)' /\ Alive(c)' => commands'[IdOf[c]] = c
  BY <1>1, <1>2 DEF OwnInv, RunningIsTracked, Held
<1>5. Held(c)' /\ commands'[IdOf[c]] # c => Gone(c)'
  BY <1>1 DEF OwnInv, LostAfterDisconnect, Held, Gone
<1>6. pc'[c] = "panicked" => Gone(c)'
  BY <1>1 DEF OwnInv, PanicOnlyAfterDisconnect, Gone
<1>7. \A i \in Ids : results'[i].done => outcome'[results'[i].cmd] # "none"
  BY <1>1 DEF OwnInv, DoneHasOutcome
<1> QED
  BY <1>1, <1>2, <1>3, <1>4, <1>5, <1>6, <1>7, OwnTaskKeeps

\* From the loss of the connection to the next one every command of the old
\* connection is gone; kill_all leaves none of those it takes from the map
\* running.
LEMMA OwnConnectionSteps ==
  ASSUME DistinctIds, TaskInv, TaskInv', OwnInv, Disconnect \/ kill_all \/ Reconnect
  PROVE  OwnInv'
<1>1. UNCHANGED <<pc, results, outcome, opened>>
  BY DEF Disconnect, kill_all, Reconnect
<1>2. \A c \in Commands : Gone(c)'
  <2>1. CASE Disconnect \/ kill_all
    BY <2>1 DEF Disconnect, kill_all, Gone
  <2>2. CASE Reconnect
    <3>1. session' = session + 1 /\ session \in Nat
      BY <2>2, CommandsAssumption DEF Reconnect, TaskInv, TypeOK
    <3>2. \A c \in Commands : opened'[c] = opened[c] /\ opened[c] \in Nat /\ opened[c] <= session
      BY <1>1, CommandsAssumption DEF TaskInv, TypeOK, SessionsNumbered
    <3> QED
      BY <3>1, <3>2 DEF Gone
  <2> QED
    BY <2>1, <2>2
<1>3. ASSUME NEW c \in Commands, Alive(c)'
      PROVE  Alive(c) /\ (commands[IdOf[c]] = c => commands'[IdOf[c]] = c)
  <2>1. CASE kill_all
    <3>1. Alive(c) /\ c \notin {d \in Commands : commands[IdOf[d]] = d}
      BY <1>3, <2>1, KillTypes DEF kill_all, TaskInv
    <3> QED
      BY <3>1
  <2>2. CASE Disconnect \/ Reconnect
    BY <1>3, <2>2 DEF Disconnect, Reconnect, Alive, processes
  <2> QED
    BY <2>1, <2>2
<1>4. RunningIsTracked'
  BY <1>1, <1>3 DEF OwnInv, RunningIsTracked
<1>5. OutcomeIsOwn'
  BY <1>1, <1>3 DEF OwnInv, OutcomeIsOwn
<1>6. DoneHasOutcome'
  BY <1>1 DEF OwnInv, DoneHasOutcome
<1>7. LostAfterDisconnect'
  BY <1>2 DEF LostAfterDisconnect
<1>8. PanicOnlyAfterDisconnect'
  BY <1>2 DEF PanicOnlyAfterDisconnect, Gone
<1> QED
  BY <1>4, <1>5, <1>6, <1>7, <1>8 DEF OwnInv

\* Before the first request.
LEMMA OwnInit == Init => OwnInv
BY CommandsAssumption
   DEF Init, OwnInv, RunningIsTracked, OutcomeIsOwn, DoneHasOutcome, LostAfterDisconnect, PanicOnlyAfterDisconnect,
       Held, Alive

\* Every step keeps OwnInv.
LEMMA OwnStepKeeps ==
  ASSUME DistinctIds
  PROVE  TaskInv /\ TaskInv' /\ OwnInv /\ [Next]_vars => OwnInv'
<1> SUFFICES ASSUME TaskInv, TaskInv', OwnInv, [Next]_vars
             PROVE  OwnInv'
  OBVIOUS
<1>1. ASSUME NEW c \in Commands,
             Receive(c) \/ InputFed(c) \/ TaskStep(c) \/ Deadline(c)
      PROVE  OwnInv'
  BY <1>1, OwnPlainSteps, OwnSpawn, OwnTrack, OwnStartBackground, OwnAwaitExit, OwnReaped, OwnKillExpired,
     OwnFinishWait, OwnFinishBackground
     DEF TaskStep
<1>2. CASE UNCHANGED vars
  BY <1>2 DEF vars, processes, OwnInv, RunningIsTracked, OutcomeIsOwn, DoneHasOutcome, LostAfterDisconnect,
              PanicOnlyAfterDisconnect, Held, Alive, Gone
<1> QED
  BY <1>1, <1>2, OwnChildSteps, OwnConnectionSteps DEF Next

\* With distinct ids OwnInv holds throughout every behaviour.
THEOREM OwnInvariant == DistinctIds => (Spec => []OwnInv)
<1> SUFFICES ASSUME DistinctIds
             PROVE  Spec => []OwnInv
  OBVIOUS
<1>1. TaskInv /\ TaskInv' /\ OwnInv /\ [Next]_vars => OwnInv'
  BY OwnStepKeeps
<1> QED
  BY <1>1, OwnInit, TaskInvariant, PTL DEF Spec

\* A running shell that its task still has to wait for is in the map, where
\* the deadline and kill_all find it.
THEOREM RunningTracked == DistinctIds => (Spec => []RunningIsTracked)
<1>1. OwnInv => RunningIsTracked
  BY DEF OwnInv
<1> QED
  BY <1>1, OwnInvariant, PTL

\* The shell of a command reported as exited or timed out has ended: Reaped
\* waits for, and the deadline kills, the command's own shell, though both find
\* it through the shared map.  What the shell started may go on.
THEOREM OutcomesOwn == DistinctIds => (Spec => []OutcomeIsOwn)
<1>1. OwnInv => OutcomeIsOwn
  BY DEF OwnInv
<1> QED
  BY <1>1, OwnInvariant, PTL

\* get_command_result shows done only for a command whose shell has ended.
THEOREM DoneEnded == DistinctIds => (Spec => []DoneMeansEnded)
<1>1. TaskInv /\ OwnInv => DoneMeansEnded
  BY DEF TaskInv, TypeOK, EntriesOwn, OwnInv, OutcomeIsOwn, DoneHasOutcome, DoneMeansEnded
<1> QED
  BY <1>1, TaskInvariant, OwnInvariant, PTL

\* The expect("command tracked") of a task fails only after its connection
\* was lost: no other task takes its entry.
THEOREM PanicsAfterDisconnect == DistinctIds => (Spec => []PanicOnlyAfterDisconnect)
<1>1. OwnInv => PanicOnlyAfterDisconnect
  BY DEF OwnInv
<1> QED
  BY <1>1, OwnInvariant, PTL

=============================================================================
