---------------------------- MODULE AgentClient ----------------------------
(***************************************************************************)
(* The bridge's RPC client (crates/bridge/src/client.rs): concurrent calls *)
(* share a map of pending requests and the sink of the one connection to   *)
(* the relay; a read loop hands responses to the calls, and a supervisor   *)
(* replaces a lost connection.  The map and the sink have a lock each, so  *)
(* a call, the read loop and the supervisor interleave between the two.    *)
(*                                                                         *)
(* The relay and the agent are the client's environment: a request is at   *)
(* one of them, and the agent can leave with the requests it holds.  Ids   *)
(* come from one counter, so a request is its own id.                      *)
(***************************************************************************)
EXTENDS Naturals, Sequences

CONSTANTS
  Requests,   \* the calls made
  Timed,      \* those made through call_timeout
  Commands,   \* those that run a command and wait for it
  MaxBreaks,  \* bound: lost connections in a behaviour
  MaxLeaves   \* bound: departures of the agent in a behaviour

ASSUME ClientAssumption ==
  /\ Timed \subseteq Requests /\ Commands \subseteq Requests
  /\ MaxBreaks \in Nat
  /\ MaxLeaves \in Nat

VARIABLES
  call,      \* request -> where call or call_timeout is
  result,    \* request -> what it returned
  pending,   \* requests in the map
  rx,        \* request -> what its oneshot channel holds
  link,      \* the sink: None ("closed"), Some, or Some of a dead connection
  reader,    \* the read loop: none, reading, or drained (pending has been failed)
  place,     \* request -> where it is outside the client
  again,     \* commands whose second response is still to come
  inbox,     \* responses on their way to the read loop, in order
  agent,     \* the paired agent is connected to the relay
  breaks, leaves   \* see the bounds

vars == <<call, result, pending, rx, link, reader, place, again, inbox, agent, breaks, leaves>>
outside == <<place, again, inbox, agent, breaks, leaves>>

Init ==
  /\ call = [r \in Requests |-> "new"]
  /\ result = [r \in Requests |-> "none"]
  /\ pending = {}
  /\ rx = [r \in Requests |-> "empty"]
  /\ link = "closed"
  /\ reader = "none"
  /\ place = [r \in Requests |-> "client"]
  /\ again = {}
  /\ inbox = <<>>
  /\ agent = TRUE
  /\ breaks = 0
  /\ leaves = 0

\* The call ends with outcome, its entry removed from the map.
Returns(r, outcome) ==
  /\ call' = [call EXCEPT ![r] = "returned"]
  /\ result' = [result EXCEPT ![r] = outcome]
  /\ pending' = pending \ {r}

-----------------------------------------------------------------------------
\* Mutant: the entry is not made.
Insert_none(r) ==
  /\ call[r] = "new"
  /\ call' = [call EXCEPT ![r] = "inserted"]
  /\ UNCHANGED <<pending, result, rx, link, reader, outside>>

\* call: the entry is in the map before the frame is sent.
Insert(r) ==
  /\ call[r] = "new"
  /\ call' = [call EXCEPT ![r] = "inserted"]
  /\ pending' = pending \cup {r}
  /\ UNCHANGED <<result, rx, link, reader, outside>>

\* No connection: the call fails at once.
FailsFast(r) ==
  /\ call[r] = "inserted" /\ link = "closed"
  /\ Returns(r, "offline")
  /\ UNCHANGED <<rx, link, reader, outside>>

\* The frame is sent.  On a dead connection the send may still succeed, and
\* the frame may or may not reach the relay.
Sends(r) ==
  /\ call[r] = "inserted" /\ link # "closed"
  /\ call' = [call EXCEPT ![r] = "sent"]
  /\ \/ place' = [place EXCEPT ![r] = "relay"]
     \/ link = "dead" /\ place' = [place EXCEPT ![r] = "lost"]
  /\ UNCHANGED <<result, pending, rx, link, reader, again, inbox, agent, breaks, leaves>>

SendFails(r) ==
  /\ call[r] = "inserted" /\ link = "dead"
  /\ Returns(r, "failed")
  /\ UNCHANGED <<rx, link, reader, outside>>

\* Mutant: the channel is read without waiting.
Receives_early(r) ==
  /\ call[r] = "sent"
  /\ call' = [call EXCEPT ![r] = "returned"]
  /\ result' = [result EXCEPT ![r] = rx[r]]
  /\ UNCHANGED <<pending, rx, link, reader, outside>>

\* The oneshot channel has a value: the call returns it.
Receives(r) ==
  /\ call[r] = "sent" /\ rx[r] # "empty"
  /\ call' = [call EXCEPT ![r] = "returned"]
  /\ result' = [result EXCEPT ![r] = rx[r]]
  /\ UNCHANGED <<pending, rx, link, reader, outside>>

\* call_timeout gives up while the channel is empty, and then removes its
\* entry; the read loop may remove it first.
Expires(r) ==
  /\ r \in Timed
  /\ call[r] = "sent" /\ rx[r] = "empty"
  /\ call' = [call EXCEPT ![r] = "expired"]
  /\ UNCHANGED <<result, pending, rx, link, reader, outside>>

\* Mutants: the entry is left in the map, or has to be there still.
Cancels_leaves(r) ==
  /\ call[r] = "expired"
  /\ call' = [call EXCEPT ![r] = "returned"]
  /\ result' = [result EXCEPT ![r] = "cancelled"]
  /\ UNCHANGED <<pending, rx, link, reader, outside>>
Cancels_own(r) ==
  /\ call[r] = "expired" /\ r \in pending
  /\ Returns(r, "cancelled")
  /\ UNCHANGED <<rx, link, reader, outside>>

Cancels(r) ==
  /\ call[r] = "expired"
  /\ Returns(r, "cancelled")
  /\ UNCHANGED <<rx, link, reader, outside>>

-----------------------------------------------------------------------------
\* read_loop: a response goes to the call with its id, if one still waits.
ReadsResponse ==
  /\ reader = "reading" /\ inbox # <<>>
  /\ LET m == Head(inbox)
     IN  /\ rx' = IF m.id \in pending THEN [rx EXCEPT ![m.id] = m.what] ELSE rx
         /\ pending' = pending \ {m.id}
  /\ inbox' = Tail(inbox)
  /\ UNCHANGED <<call, result, link, reader, place, again, agent, breaks, leaves>>

\* The stream ends: every pending request fails.
ReadEnds ==
  /\ reader = "reading" /\ link = "dead"
  /\ reader' = "drained"
  /\ rx' = [r \in Requests |-> IF r \in pending THEN "offline" ELSE rx[r]]
  /\ pending' = {}
  /\ inbox' = <<>>
  /\ UNCHANGED <<call, result, link, place, again, agent, breaks, leaves>>

\* Mutant: the supervisor first waits for the map to be empty.
SinkCleared_empty ==
  /\ reader = "drained" /\ pending = {}
  /\ link' = "closed"
  /\ reader' = "none"
  /\ UNCHANGED <<call, result, pending, rx, outside>>

\* supervisor: the sink is cleared after the read loop has ended.
SinkCleared ==
  /\ reader = "drained"
  /\ link' = "closed"
  /\ reader' = "none"
  /\ UNCHANGED <<call, result, pending, rx, outside>>

\* open_connection has succeeded.
Connects ==
  /\ link = "closed"
  /\ link' = "open"
  /\ reader' = "reading"
  /\ UNCHANGED <<call, result, pending, rx, outside>>

-----------------------------------------------------------------------------
\* The connection to the relay is lost.
LinkBreaks ==
  /\ link = "open" /\ breaks < MaxBreaks
  /\ link' = "dead"
  /\ breaks' = breaks + 1
  /\ UNCHANGED <<call, result, pending, rx, reader, place, again, inbox, agent, leaves>>

\* A response goes to the client's present connection, if there is one.
Respond(r, what) ==
  /\ place' = [place EXCEPT ![r] = IF link = "open" THEN "answered" ELSE "lost"]
  /\ inbox' = IF link = "open" THEN Append(inbox, [id |-> r, what |-> what]) ELSE inbox

\* The relay forwards the request, or answers it if no agent is connected.
RelayRoutes(r) ==
  /\ place[r] = "relay"
  /\ \/ agent /\ place' = [place EXCEPT ![r] = "agent"] /\ UNCHANGED inbox
     \/ ~agent /\ Respond(r, "offline")
  /\ UNCHANGED <<call, result, pending, rx, link, reader, again, agent, breaks, leaves>>

\* Mutant: a command's handler returns before its result is sent.
AgentAnswers_swapped(r) ==
  /\ place[r] = "agent" /\ agent
  /\ Respond(r, IF r \in Commands THEN "null" ELSE "answer")
  /\ again' = again \cup ({r} \cap Commands)
  /\ UNCHANGED <<call, result, pending, rx, link, reader, agent, breaks, leaves>>

\* The agent answers.
AgentAnswers(r) ==
  /\ place[r] = "agent" /\ agent
  /\ Respond(r, "answer")
  /\ again' = again \cup ({r} \cap Commands)
  /\ UNCHANGED <<call, result, pending, rx, link, reader, agent, breaks, leaves>>

\* The handler of a command has sent the result itself, and the dispatcher
\* sends what it returns, null, as a response with the same id.
AgentRepeats(r) ==
  /\ r \in again
  /\ again' = again \ {r}
  /\ inbox' = IF link = "open" THEN Append(inbox, [id |-> r, what |-> "null"]) ELSE inbox
  /\ UNCHANGED <<call, result, pending, rx, link, reader, place, agent, breaks, leaves>>

\* The agent's connection is lost, and with it the requests it was handling.
AgentLeaves ==
  /\ agent /\ leaves < MaxLeaves
  /\ agent' = FALSE
  /\ leaves' = leaves + 1
  /\ place' = [r \in Requests |-> IF place[r] = "agent" THEN "lost" ELSE place[r]]
  /\ again' = {}
  /\ UNCHANGED <<call, result, pending, rx, link, reader, inbox, breaks>>

AgentJoins ==
  /\ ~agent
  /\ agent' = TRUE
  /\ UNCHANGED <<call, result, pending, rx, link, reader, place, again, inbox, breaks, leaves>>

-----------------------------------------------------------------------------
CallStep(r) == FailsFast(r) \/ Sends(r) \/ SendFails(r) \/ Receives(r) \/ Cancels(r)

ClientStep == ReadsResponse \/ ReadEnds \/ SinkCleared \/ Connects

Next ==
  \/ \E r \in Requests : Insert(r) \/ CallStep(r) \/ Expires(r)
  \/ ClientStep
  \/ LinkBreaks
  \/ \E r \in Requests : RelayRoutes(r) \/ AgentAnswers(r) \/ AgentRepeats(r)
  \/ AgentLeaves \/ AgentJoins

Spec == Init /\ [][Next]_vars

\* Tasks that can run are scheduled, timers fire, the supervisor retries for
\* ever, the relay handles what it receives, and an agent that stays
\* connected answers.
Fairness ==
  /\ \A r \in Requests :
       /\ WF_vars(CallStep(r))
       /\ WF_vars(Expires(r))
       /\ WF_vars(RelayRoutes(r))
       /\ WF_vars(AgentAnswers(r)) /\ WF_vars(AgentRepeats(r))
  /\ WF_vars(ReadsResponse \/ ReadEnds)
  /\ WF_vars(SinkCleared)
  /\ WF_vars(Connects)

FairSpec == Spec /\ Fairness

-----------------------------------------------------------------------------
\* The type invariant.
TypeOK ==
  /\ call \in [Requests -> {"new", "inserted", "sent", "expired", "returned"}]
  /\ result \in [Requests -> {"none", "answer", "null", "offline", "failed", "cancelled"}]
  /\ pending \subseteq Requests
  /\ rx \in [Requests -> {"empty", "answer", "null", "offline"}]
  /\ link \in {"closed", "open", "dead"}
  /\ reader \in {"none", "reading", "drained"}
  /\ place \in [Requests -> {"client", "relay", "agent", "answered", "lost"}]
  /\ again \subseteq Requests
  /\ inbox \in Seq([id : Requests, what : {"answer", "null", "offline"}])
  /\ agent \in BOOLEAN
  /\ breaks \in 0 .. MaxBreaks
  /\ leaves \in 0 .. MaxLeaves

\* No call that has returned leaves its entry in the map, by whatever way it
\* returned: responses, failed sends, timeouts and a lost connection race to
\* remove it.
NoLeak == \A r \in pending : call[r] \notin {"new", "returned"}

\* A response that arrives finds its call, however early it comes: a call
\* that still waits for one that was given to the connection has it ahead in
\* the stream.
AnswerReachesCall ==
  \A r \in Requests :
    place[r] = "answered" /\ call[r] = "sent" /\ rx[r] = "empty" =>
      \E i \in 1 .. Len(inbox) : inbox[i].id = r

\* A value is put in a channel at most once: an entry still in the map has an
\* empty channel.
ChannelUsedOnce == \A r \in pending : rx[r] = "empty"

\* A command's call gets the result and not the null that the agent sends
\* after it with the same id, unless a connection was lost: the result can go
\* with it, and the null then finds the entry of a call that was sent late on
\* the lost connection.
ResultBeforeNull == \A r \in Requests : rx[r] = "null" => breaks > 0

\* call_timeout always returns, whatever is lost meanwhile: again and again
\* none is under way.
TimedCallsReturn == []<>(\A r \in Timed : call[r] \in {"new", "returned"})

\* The client is connected again after every lost connection.
ClientReconnects == []<>(link = "open")

=============================================================================
