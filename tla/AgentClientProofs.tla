------------------------- MODULE AgentClientProofs -------------------------
(***************************************************************************)
(* The safety of the bridge's RPC client for every set of calls and every  *)
(* number of lost connections and departures of the agent.                 *)
(***************************************************************************)
EXTENDS AgentClient, SequenceTheorems, TLAPS

\* A call that has not begun has left no trace, and one whose frame is not
\* sent is nowhere else.
UnsentIsHere ==
  \A r \in Requests :
    /\ call[r] = "new" => rx[r] = "empty"
    /\ call[r] \in {"new", "inserted"} => place[r] = "client"

\* A call under way has its entry in the map or a value in its channel.
WaitingHasEntry ==
  \A r \in Requests : call[r] \in {"inserted", "sent"} /\ rx[r] = "empty" => r \in pending

InInbox(r) == \E i \in 1 .. Len(inbox) : inbox[i].id = r

\* A response given to the connection is ahead in the stream as long as the
\* entry it is for is in the map.
AnsweredIsAhead == \A r \in pending : place[r] = "answered" => InInbox(r)

\* The inductive invariant.  AnswerReachesCall follows from its last two
\* parts; neither is inductive without ChannelUsedOnce, which is what lets a
\* call that receives a value return without touching the map.
ClientInv ==
  /\ TypeOK
  /\ NoLeak
  /\ ChannelUsedOnce
  /\ UnsentIsHere
  /\ WaitingHasEntry
  /\ AnsweredIsAhead

-----------------------------------------------------------------------------
\* What a step keeps if it leaves alone everything the invariant's parts other
\* than the type invariant speak of.
LEMMA OthersKeep ==
  ASSUME ClientInv, TypeOK', UNCHANGED <<call, pending, rx, place, inbox>>
  PROVE  ClientInv'
BY DEF ClientInv, NoLeak, ChannelUsedOnce, UnsentIsHere, WaitingHasEntry, AnsweredIsAhead, InInbox

\* The invariant holds before the first call.
LEMMA ClientInit == Init => ClientInv
BY ClientAssumption
   DEF Init, ClientInv, TypeOK, NoLeak, ChannelUsedOnce, UnsentIsHere, WaitingHasEntry, AnsweredIsAhead

\* A call makes its entry before anything of it can be answered.
LEMMA InsertKeeps ==
  ASSUME ClientInv, NEW r \in Requests, Insert(r)
  PROVE  ClientInv'
<1> USE DEF ClientInv
<1>1. /\ call' \in [Requests -> {"new", "inserted", "sent", "expired", "returned"}]
      /\ call'[r] = "inserted"
      /\ \A x \in Requests \ {r} : call'[x] = call[x]
  BY DEF Insert, TypeOK
<1>2. /\ call[r] = "new" /\ pending' = pending \cup {r}
      /\ UNCHANGED <<result, rx, link, reader, place, again, inbox, agent, breaks, leaves>>
  BY DEF Insert, outside
<1>3. TypeOK'
  BY <1>1, <1>2 DEF TypeOK
<1>4. NoLeak' /\ ChannelUsedOnce' /\ UnsentIsHere' /\ WaitingHasEntry'
  BY <1>1, <1>2 DEF TypeOK, NoLeak, ChannelUsedOnce, UnsentIsHere, WaitingHasEntry
<1>5. AnsweredIsAhead'
  BY <1>2 DEF AnsweredIsAhead, UnsentIsHere, InInbox
<1> QED
  BY <1>3, <1>4, <1>5

\* A call that fails or gives up removes its entry as it returns.
LEMMA ReturnsKeeps ==
  ASSUME ClientInv, NEW r \in Requests, NEW outcome \in {"offline", "failed", "cancelled"},
         Returns(r, outcome), call[r] # "new",
         UNCHANGED <<rx, link, reader, outside>>
  PROVE  ClientInv'
<1> USE DEF ClientInv
<1>1. /\ call' \in [Requests -> {"new", "inserted", "sent", "expired", "returned"}]
      /\ call'[r] = "returned"
      /\ \A x \in Requests \ {r} : call'[x] = call[x]
  BY DEF Returns, TypeOK
<1>2. result' \in [Requests -> {"none", "answer", "null", "offline", "failed", "cancelled"}]
  BY DEF Returns, TypeOK
<1>3. UNCHANGED <<rx, link, reader, place, again, inbox, agent, breaks, leaves>> /\ pending' = pending \ {r}
  BY DEF Returns, outside
<1>4. TypeOK'
  BY <1>1, <1>2, <1>3 DEF TypeOK
<1>5. NoLeak' /\ ChannelUsedOnce' /\ UnsentIsHere' /\ WaitingHasEntry'
  BY <1>1, <1>3 DEF TypeOK, NoLeak, ChannelUsedOnce, UnsentIsHere, WaitingHasEntry
<1>6. AnsweredIsAhead'
  BY <1>3 DEF AnsweredIsAhead, InInbox
<1> QED
  BY <1>4, <1>5, <1>6

\* The frame leaves the client.
LEMMA SendsKeeps ==
  ASSUME ClientInv, NEW r \in Requests, Sends(r)
  PROVE  ClientInv'
<1> USE DEF ClientInv
<1>1. /\ call' \in [Requests -> {"new", "inserted", "sent", "expired", "returned"}]
      /\ call[r] = "inserted" /\ call'[r] = "sent"
      /\ \A x \in Requests \ {r} : call'[x] = call[x]
  BY DEF Sends, TypeOK
<1>2. /\ place' \in [Requests -> {"client", "relay", "agent", "answered", "lost"}]
      /\ place'[r] \in {"relay", "lost"}
      /\ \A x \in Requests \ {r} : place'[x] = place[x]
  BY DEF Sends, TypeOK
<1>3. UNCHANGED <<result, pending, rx, link, reader, again, inbox, agent, breaks, leaves>>
  BY DEF Sends
<1>4. TypeOK'
  BY <1>1, <1>2, <1>3 DEF TypeOK
<1>5. NoLeak' /\ ChannelUsedOnce' /\ UnsentIsHere' /\ WaitingHasEntry'
  BY <1>1, <1>2, <1>3 DEF TypeOK, NoLeak, ChannelUsedOnce, UnsentIsHere, WaitingHasEntry
<1>6. AnsweredIsAhead'
  BY <1>2, <1>3 DEF TypeOK, AnsweredIsAhead, InInbox
<1> QED
  BY <1>4, <1>5, <1>6

\* A call that receives a value returns without touching the map: its entry
\* is gone, since the channel is not empty.
LEMMA ReceivesKeeps ==
  ASSUME ClientInv, NEW r \in Requests, Receives(r)
  PROVE  ClientInv'
<1> USE DEF ClientInv
<1>1. /\ call' \in [Requests -> {"new", "inserted", "sent", "expired", "returned"}]
      /\ call[r] = "sent" /\ call'[r] = "returned"
      /\ \A x \in Requests \ {r} : call'[x] = call[x]
  BY DEF Receives, TypeOK
<1>2. rx[r] \in {"answer", "null", "offline"}
  BY DEF Receives, TypeOK
<1>3. result' \in [Requests -> {"none", "answer", "null", "offline", "failed", "cancelled"}]
  BY <1>2 DEF Receives, TypeOK
<1>4. UNCHANGED <<pending, rx, link, reader, place, again, inbox, agent, breaks, leaves>>
  BY DEF Receives, outside
<1>5. r \notin pending
  BY <1>2 DEF ChannelUsedOnce
<1>6. TypeOK'
  BY <1>1, <1>3, <1>4 DEF TypeOK
<1>7. NoLeak' /\ ChannelUsedOnce' /\ UnsentIsHere' /\ WaitingHasEntry'
  BY <1>1, <1>4, <1>5 DEF TypeOK, NoLeak, ChannelUsedOnce, UnsentIsHere, WaitingHasEntry
<1>8. AnsweredIsAhead'
  BY <1>4 DEF AnsweredIsAhead, InInbox
<1> QED
  BY <1>6, <1>7, <1>8

\* The timer of call_timeout fires while the entry may still be there.
LEMMA ExpiresKeeps ==
  ASSUME ClientInv, NEW r \in Requests, Expires(r)
  PROVE  ClientInv'
<1> USE DEF ClientInv
<1>1. /\ call' \in [Requests -> {"new", "inserted", "sent", "expired", "returned"}]
      /\ call[r] = "sent" /\ call'[r] = "expired"
      /\ \A x \in Requests \ {r} : call'[x] = call[x]
  BY DEF Expires, TypeOK
<1>2. UNCHANGED <<result, pending, rx, link, reader, place, again, inbox, agent, breaks, leaves>>
  BY DEF Expires, outside
<1>3. TypeOK'
  BY <1>1, <1>2 DEF TypeOK
<1>4. NoLeak' /\ ChannelUsedOnce' /\ UnsentIsHere' /\ WaitingHasEntry'
  BY <1>1, <1>2 DEF TypeOK, NoLeak, ChannelUsedOnce, UnsentIsHere, WaitingHasEntry
<1>5. AnsweredIsAhead'
  BY <1>2 DEF AnsweredIsAhead, InInbox
<1> QED
  BY <1>3, <1>4, <1>5

-----------------------------------------------------------------------------
\* The read loop hands the response at the head of the stream to its call and
\* removes the entry; those behind it move one place forward.
LEMMA ReadsResponseKeeps ==
  ASSUME ClientInv, ReadsResponse
  PROVE  ClientInv'
<1> USE DEF ClientInv
<1> DEFINE Msg == [id : Requests, what : {"answer", "null", "offline"}]
           m == Head(inbox)
<1>1. /\ inbox \in Seq(Msg) /\ inbox # <<>>
      /\ m = inbox[1] /\ m \in Msg
      /\ inbox' = Tail(inbox) /\ inbox' \in Seq(Msg)
      /\ Len(inbox') = Len(inbox) - 1 /\ Len(inbox) \in Nat
      /\ \A i \in 1 .. Len(inbox') : inbox'[i] = inbox[i + 1]
  <2>1. inbox \in Seq(Msg) /\ inbox # <<>> /\ inbox' = Tail(inbox)
    BY DEF ReadsResponse, TypeOK
  <2>2. Len(inbox) \in Nat /\ Len(inbox) # 0
    BY <2>1, EmptySeq, LenProperties
  <2>3. inbox[1] \in Msg /\ m = inbox[1]
    <3>1. 1 \in 1 .. Len(inbox) /\ Head(inbox) = inbox[1]
      BY <2>1, <2>2
    <3> HIDE DEF Msg
    <3> QED
      BY <2>1, <3>1, ElementOfSeq
  <2>4. /\ Tail(inbox) \in Seq(Msg)
        /\ Len(Tail(inbox)) = Len(inbox) - 1
        /\ \A i \in 1 .. Len(Tail(inbox)) : Tail(inbox)[i] = inbox[i + 1]
    <3> HIDE DEF Msg
    <3> QED
      BY <2>1, HeadTailProperties
  <2> QED
    BY <2>1, <2>2, <2>3, <2>4
<1>2. m.id \in Requests /\ m.what \in {"answer", "null", "offline"}
  BY <1>1
<1>3. /\ pending' = pending \ {m.id}
      /\ UNCHANGED <<call, result, link, reader, place, again, agent, breaks, leaves>>
  BY DEF ReadsResponse
<1>4. /\ rx' \in [Requests -> {"empty", "answer", "null", "offline"}]
      /\ \A x \in Requests \ {m.id} : rx'[x] = rx[x]
      /\ rx'[m.id] = "empty" => rx[m.id] = "empty" /\ m.id \notin pending
      /\ m.id \notin pending => rx' = rx
  <2>1. rx' = IF m.id \in pending THEN [rx EXCEPT ![m.id] = m.what] ELSE rx
    BY DEF ReadsResponse
  <2> QED
    BY <1>2, <2>1 DEF TypeOK
<1> HIDE DEF m
<1>5. TypeOK'
  BY <1>1, <1>3, <1>4 DEF TypeOK
<1>6. NoLeak' /\ ChannelUsedOnce' /\ UnsentIsHere' /\ WaitingHasEntry'
  BY <1>2, <1>3, <1>4 DEF TypeOK, NoLeak, ChannelUsedOnce, UnsentIsHere, WaitingHasEntry
<1>7. AnsweredIsAhead'
  <2> SUFFICES ASSUME NEW r \in pending', place'[r] = "answered"
               PROVE  InInbox(r)'
    BY DEF AnsweredIsAhead
  <2>1. r \in pending /\ r # m.id /\ place[r] = "answered"
    BY <1>3
  <2>2. PICK i \in 1 .. Len(inbox) : inbox[i].id = r
    BY <2>1 DEF AnsweredIsAhead, InInbox
  <2>3. i # 1
    BY <1>1, <2>1, <2>2
  <2>4. i - 1 \in 1 .. Len(inbox') /\ inbox'[i - 1] = inbox[i]
    BY <1>1, <2>3
  <2> QED
    BY <2>2, <2>4 DEF InInbox
<1> QED
  BY <1>5, <1>6, <1>7

\* The stream ends: every entry's call gets its value.
LEMMA ReadEndsKeeps ==
  ASSUME ClientInv, ReadEnds
  PROVE  ClientInv'
<1> USE DEF ClientInv
<1>1. /\ pending' = {} /\ inbox' = <<>> /\ reader' = "drained"
      /\ UNCHANGED <<call, result, link, place, again, agent, breaks, leaves>>
  BY DEF ReadEnds
<1>2. /\ rx' \in [Requests -> {"empty", "answer", "null", "offline"}]
      /\ \A x \in Requests : rx'[x] = IF x \in pending THEN "offline" ELSE rx[x]
  BY DEF ReadEnds, TypeOK
<1>3. TypeOK'
  BY <1>1, <1>2, EmptySeq DEF TypeOK
<1>4. NoLeak' /\ ChannelUsedOnce' /\ AnsweredIsAhead'
  BY <1>1 DEF NoLeak, ChannelUsedOnce, AnsweredIsAhead
<1>5. UnsentIsHere' /\ WaitingHasEntry'
  BY <1>1, <1>2 DEF TypeOK, NoLeak, UnsentIsHere, WaitingHasEntry
<1> QED
  BY <1>3, <1>4, <1>5

\* A response goes into the stream of the present connection, or is lost.
LEMMA RespondKeeps ==
  ASSUME ClientInv, NEW r \in Requests, NEW what \in {"answer", "null", "offline"},
         place[r] \in {"relay", "agent"}, Respond(r, what), again' \subseteq Requests,
         UNCHANGED <<call, result, pending, rx, link, reader, agent, breaks, leaves>>
  PROVE  ClientInv'
<1> USE DEF ClientInv
<1> DEFINE Msg == [id : Requests, what : {"answer", "null", "offline"}]
           m == [id |-> r, what |-> what]
<1>1. /\ place' \in [Requests -> {"client", "relay", "agent", "answered", "lost"}]
      /\ place'[r] \in {"answered", "lost"}
      /\ place'[r] = "answered" => link = "open"
      /\ \A x \in Requests \ {r} : place'[x] = place[x]
  BY DEF Respond, TypeOK
<1>2. CASE link # "open"
  <2>1. inbox' = inbox
    BY <1>2 DEF Respond
  <2>2. TypeOK'
    BY <1>1, <2>1 DEF TypeOK
  <2>3. NoLeak' /\ ChannelUsedOnce' /\ UnsentIsHere' /\ WaitingHasEntry'
    BY <1>1 DEF TypeOK, NoLeak, ChannelUsedOnce, UnsentIsHere, WaitingHasEntry
  <2>4. AnsweredIsAhead'
    BY <1>1, <1>2, <2>1 DEF TypeOK, AnsweredIsAhead, InInbox
  <2> QED
    BY <2>2, <2>3, <2>4
<1>3. CASE link = "open"
  <2>1. inbox' = Append(inbox, m)
    BY <1>3 DEF Respond
  <2>2. inbox \in Seq(Msg) /\ m \in Msg /\ Len(inbox) \in Nat
    BY LenProperties DEF TypeOK
  <2>3. /\ inbox' \in Seq(Msg) /\ Len(inbox') = Len(inbox) + 1
        /\ \A i \in 1 .. Len(inbox) : inbox'[i] = inbox[i]
        /\ inbox'[Len(inbox) + 1] = m
    BY <2>1, <2>2, AppendProperties
  <2>4. TypeOK'
    BY <1>1, <2>3 DEF TypeOK
  <2>5. NoLeak' /\ ChannelUsedOnce' /\ UnsentIsHere' /\ WaitingHasEntry'
    BY <1>1 DEF TypeOK, NoLeak, ChannelUsedOnce, UnsentIsHere, WaitingHasEntry
  <2>6. ASSUME NEW x \in pending', place'[x] = "answered" PROVE InInbox(x)'
    <3>1. CASE x = r
      <4>1. Len(inbox) + 1 \in 1 .. Len(inbox') /\ inbox'[Len(inbox) + 1].id = r
        BY <2>2, <2>3
      <4> QED
        BY <3>1, <4>1 DEF InInbox
    <3>2. CASE x # r
      <4>1. InInbox(x)
        BY <1>1, <2>6, <3>2 DEF AnsweredIsAhead, TypeOK
      <4>2. PICK i \in 1 .. Len(inbox) : inbox[i].id = x
        BY <4>1 DEF InInbox
      <4>3. i \in 1 .. Len(inbox') /\ inbox'[i].id = x
        BY <2>2, <2>3, <4>2
      <4> QED
        BY <4>3 DEF InInbox
    <3> QED
      BY <3>1, <3>2
  <2>7. AnsweredIsAhead'
    BY <2>6 DEF AnsweredIsAhead
  <2> QED
    BY <2>4, <2>5, <2>7
<1> QED
  BY <1>2, <1>3

\* The relay forwards a request, or answers for an agent that is not there.
LEMMA RelayRoutesKeeps ==
  ASSUME ClientInv, NEW r \in Requests, RelayRoutes(r)
  PROVE  ClientInv'
<1>1. /\ place[r] = "relay"
      /\ UNCHANGED <<call, result, pending, rx, link, reader, again, agent, breaks, leaves>>
  BY DEF RelayRoutes
<1>2. CASE place' = [place EXCEPT ![r] = "agent"] /\ UNCHANGED inbox
  <2>1. /\ place' \in [Requests -> {"client", "relay", "agent", "answered", "lost"}]
        /\ place'[r] = "agent"
        /\ \A x \in Requests \ {r} : place'[x] = place[x]
    BY <1>2 DEF ClientInv, TypeOK
  <2>2. TypeOK'
    BY <1>1, <1>2, <2>1 DEF ClientInv, TypeOK
  <2>3. NoLeak' /\ ChannelUsedOnce' /\ UnsentIsHere' /\ WaitingHasEntry'
    BY <1>1, <2>1 DEF ClientInv, TypeOK, NoLeak, ChannelUsedOnce, UnsentIsHere, WaitingHasEntry
  <2>4. AnsweredIsAhead'
    BY <1>1, <1>2, <2>1 DEF ClientInv, TypeOK, AnsweredIsAhead, InInbox
  <2> QED
    BY <2>2, <2>3, <2>4 DEF ClientInv
<1>3. CASE Respond(r, "offline")
  BY <1>1, <1>3, RespondKeeps DEF ClientInv, TypeOK
<1> QED
  BY <1>2, <1>3 DEF RelayRoutes

\* The second response to a command goes behind what is in the stream.
LEMMA AgentRepeatsKeeps ==
  ASSUME ClientInv, NEW r \in Requests, AgentRepeats(r)
  PROVE  ClientInv'
<1> USE DEF ClientInv
<1> DEFINE Msg == [id : Requests, what : {"answer", "null", "offline"}]
           m == [id |-> r, what |-> "null"]
<1>1. /\ UNCHANGED <<call, result, pending, rx, link, reader, place, agent, breaks, leaves>>
      /\ again' = again \ {r}
      /\ inbox' = inbox \/ inbox' = Append(inbox, m)
  BY DEF AgentRepeats
<1>2. inbox \in Seq(Msg) /\ m \in Msg /\ Len(inbox) \in Nat
  BY LenProperties DEF TypeOK
<1>3. /\ inbox' \in Seq(Msg) /\ Len(inbox') \in Nat /\ Len(inbox') >= Len(inbox)
      /\ \A i \in 1 .. Len(inbox) : inbox'[i] = inbox[i]
  <2> HIDE DEF Msg, m
  <2>1. CASE inbox' = inbox
    BY <1>2, <2>1
  <2>2. CASE inbox' = Append(inbox, m)
    BY <1>2, <2>2, AppendProperties
  <2> QED
    BY <1>1, <2>1, <2>2
<1>4. TypeOK'
  BY <1>1, <1>3 DEF TypeOK
<1>5. NoLeak' /\ ChannelUsedOnce' /\ UnsentIsHere' /\ WaitingHasEntry'
  BY <1>1 DEF NoLeak, ChannelUsedOnce, UnsentIsHere, WaitingHasEntry
<1>6. AnsweredIsAhead'
  <2> SUFFICES ASSUME NEW x \in pending', place'[x] = "answered"
               PROVE  InInbox(x)'
    BY DEF AnsweredIsAhead
  <2>1. PICK i \in 1 .. Len(inbox) : inbox[i].id = x
    BY <1>1 DEF AnsweredIsAhead, InInbox
  <2>2. i \in 1 .. Len(inbox') /\ inbox'[i].id = x
    BY <1>2, <1>3, <2>1
  <2> QED
    BY <2>2 DEF InInbox
<1> QED
  BY <1>4, <1>5, <1>6

\* The agent leaves with the requests it was handling; none that is answered
\* already is among them.
LEMMA AgentLeavesKeeps ==
  ASSUME ClientInv, AgentLeaves
  PROVE  ClientInv'
<1> USE DEF ClientInv
<1>1. /\ place' \in [Requests -> {"client", "relay", "agent", "answered", "lost"}]
      /\ \A x \in Requests : place'[x] = place[x] \/ (place[x] = "agent" /\ place'[x] = "lost")
  BY DEF AgentLeaves, TypeOK
<1>2. /\ UNCHANGED <<call, result, pending, rx, link, reader, inbox, breaks>>
      /\ agent' = FALSE /\ leaves' \in 0 .. MaxLeaves /\ again' = {}
  BY ClientAssumption DEF AgentLeaves, TypeOK
<1>3. TypeOK'
  BY <1>1, <1>2 DEF TypeOK
<1>4. NoLeak' /\ ChannelUsedOnce' /\ UnsentIsHere' /\ WaitingHasEntry'
  BY <1>1, <1>2 DEF TypeOK, NoLeak, ChannelUsedOnce, UnsentIsHere, WaitingHasEntry
<1>5. AnsweredIsAhead'
  BY <1>1, <1>2 DEF TypeOK, AnsweredIsAhead, InInbox
<1> QED
  BY <1>3, <1>4, <1>5

-----------------------------------------------------------------------------
\* Every step of the client and of its environment keeps the invariant.
LEMMA ClientStepKeeps == ClientInv /\ [Next]_vars => ClientInv'
<1> SUFFICES ASSUME ClientInv, [Next]_vars
             PROVE  ClientInv'
  OBVIOUS
<1>1. ASSUME NEW r \in Requests, Insert(r) \/ CallStep(r) \/ Expires(r)
      PROVE  ClientInv'
  <2>1. CASE FailsFast(r)
    BY <2>1, ReturnsKeeps DEF FailsFast
  <2>2. CASE SendFails(r)
    BY <2>2, ReturnsKeeps DEF SendFails
  <2>3. CASE Cancels(r)
    BY <2>3, ReturnsKeeps DEF Cancels
  <2> QED
    BY <1>1, <2>1, <2>2, <2>3, InsertKeeps, SendsKeeps, ReceivesKeeps, ExpiresKeeps DEF CallStep
<1>2. CASE SinkCleared
  BY <1>2, OthersKeep DEF SinkCleared, outside, ClientInv, TypeOK
<1>3. CASE Connects
  BY <1>3, OthersKeep DEF Connects, outside, ClientInv, TypeOK
<1>4. CASE LinkBreaks
  <2>1. breaks' \in 0 .. MaxBreaks
    BY <1>4, ClientAssumption DEF LinkBreaks, ClientInv, TypeOK
  <2> QED
    BY <1>4, <2>1, OthersKeep DEF LinkBreaks, ClientInv, TypeOK
<1>5. ASSUME NEW r \in Requests, AgentAnswers(r)
      PROVE  ClientInv'
  BY <1>5, RespondKeeps DEF AgentAnswers, ClientInv, TypeOK
<1>6. CASE AgentJoins
  BY <1>6, OthersKeep DEF AgentJoins, ClientInv, TypeOK
<1>7. CASE UNCHANGED vars
  BY <1>7, OthersKeep DEF vars, ClientInv, TypeOK
<1> QED
  BY <1>1, <1>2, <1>3, <1>4, <1>5, <1>6, <1>7, ReadsResponseKeeps, ReadEndsKeeps, RelayRoutesKeeps,
     AgentRepeatsKeeps, AgentLeavesKeeps
     DEF Next, ClientStep

\* The invariant holds throughout every behaviour.
THEOREM ClientInvariant == Spec => []ClientInv
BY ClientInit, ClientStepKeeps, PTL DEF Spec

\* Every behaviour is within the types: calls, entries, channels and frames
\* are in the states the code has for them.
THEOREM ClientTypes == Spec => []TypeOK
<1>1. ClientInv => TypeOK
  BY DEF ClientInv
<1> QED
  BY <1>1, ClientInvariant, PTL

\* The map of pending requests holds no entry of a call that has returned:
\* call, call_timeout, the read loop and the end of the stream race to remove
\* it, and one of them always does.
THEOREM EntriesRemoved == Spec => []NoLeak
<1>1. ClientInv => NoLeak
  BY DEF ClientInv
<1> QED
  BY <1>1, ClientInvariant, PTL

\* read_loop and the drain of the map never send twice on a oneshot channel.
THEOREM ChannelsUsedOnce == Spec => []ChannelUsedOnce
<1>1. ClientInv => ChannelUsedOnce
  BY DEF ClientInv
<1> QED
  BY <1>1, ClientInvariant, PTL

\* A response cannot overtake its call: the entry is made before the frame is
\* sent, so a call that waits for a response the relay has sent on its
\* connection has it ahead in the stream, whatever connections were lost.
THEOREM AnswersReachCalls == Spec => []AnswerReachesCall
<1>1. ClientInv => AnswerReachesCall
  BY DEF ClientInv, AnswerReachesCall, WaitingHasEntry, AnsweredIsAhead, InInbox
<1> QED
  BY <1>1, ClientInvariant, PTL

-----------------------------------------------------------------------------
\* A stream s has, up to its place n, a response to r that is not a null.
ResultAhead(s, r, n) == \E j \in 1 .. n : s[j].id = r /\ s[j].what # "null"

\* As long as no connection was lost, a null in the stream follows another
\* response to its call or finds no entry.  A null is only sent for a request
\* that was answered, and what was answered and has its entry is in the stream.
NullFollows ==
  /\ link # "dead" /\ reader # "drained"
  /\ link = "closed" => \A r \in Requests : place[r] = "client"
  /\ \A r \in again : place[r] = "answered"
  /\ \A i \in 1 .. Len(inbox) :
       /\ place[inbox[i].id] = "answered"
       /\ inbox[i].what = "null" /\ inbox[i].id \in pending => ResultAhead(inbox, inbox[i].id, i - 1)
  /\ \A r \in pending : place[r] = "answered" => ResultAhead(inbox, r, Len(inbox))
  /\ \A r \in Requests : rx[r] # "null"

NullInv == breaks = 0 => NullFollows

\* What a step keeps that adds nothing to the stream and makes no entry for a
\* request that was answered.
LEMMA NullKept ==
  ASSUME ClientInv, NullFollows, pending' \subseteq Requests,
         UNCHANGED <<inbox, rx>>, link' # "dead", reader' # "drained",
         link' = "closed" => link = "closed" /\ place' = place,
         again' \subseteq again,
         \A r \in Requests : place'[r] = "answered" <=> place[r] = "answered",
         \A r \in pending' : r \in pending \/ place[r] # "answered"
  PROVE  NullFollows'
<1>1. \A i \in 1 .. Len(inbox) : inbox[i].id \in Requests
  <2> DEFINE Msg == [id : Requests, what : {"answer", "null", "offline"}]
  <2>1. inbox \in Seq(Msg)
    BY DEF ClientInv, TypeOK
  <2>2. \A i \in 1 .. Len(inbox) : inbox[i] \in Msg
    <3> HIDE DEF Msg
    <3> QED
      BY <2>1, ElementOfSeq
  <2> QED
    BY <2>2
<1>2. again \subseteq Requests /\ pending \subseteq Requests
  BY DEF ClientInv, TypeOK
<1>3. \A r, n : ResultAhead(inbox', r, n) <=> ResultAhead(inbox, r, n)
  BY DEF ResultAhead
<1>4. \A i \in 1 .. Len(inbox') :
        /\ place'[inbox'[i].id] = "answered"
        /\ inbox'[i].what = "null" /\ inbox'[i].id \in pending' => ResultAhead(inbox', inbox'[i].id, i - 1)
  <2>1. ASSUME NEW i \in 1 .. Len(inbox')
        PROVE  /\ place'[inbox'[i].id] = "answered"
               /\ inbox'[i].what = "null" /\ inbox'[i].id \in pending' =>
                    ResultAhead(inbox', inbox'[i].id, i - 1)
    <3>1. /\ place[inbox[i].id] = "answered" /\ inbox[i].id \in Requests
          /\ inbox[i].what = "null" /\ inbox[i].id \in pending => ResultAhead(inbox, inbox[i].id, i - 1)
      BY <1>1 DEF NullFollows
    <3>2. place'[inbox[i].id] = "answered" /\ (inbox[i].id \in pending' => inbox[i].id \in pending)
      BY <3>1
    <3> QED
      BY <3>1, <3>2
  <2> QED
    BY <2>1
<1>5. \A r \in pending' : place'[r] = "answered" => ResultAhead(inbox', r, Len(inbox'))
  BY DEF NullFollows
<1> QED
  BY <1>2, <1>3, <1>4, <1>5 DEF NullFollows

\* A frame for r goes behind the stream: a null if r was answered already.
LEMMA NullAppended ==
  ASSUME ClientInv, NullFollows, NEW r \in Requests, NEW what \in {"answer", "null", "offline"},
         inbox' = Append(inbox, [id |-> r, what |-> what]),
         link = "open", UNCHANGED <<pending, rx, link, reader>>,
         \A x \in again' : x \in again \/ x = r,
         place'[r] = "answered",
         \A x \in Requests \ {r} : place'[x] = place[x],
         what = "null" => place[r] = "answered"
  PROVE  NullFollows'
<1> DEFINE Msg == [id : Requests, what : {"answer", "null", "offline"}]
           m == [id |-> r, what |-> what]
<1>1. inbox \in Seq(Msg) /\ m \in Msg /\ Len(inbox) \in Nat
  BY LenProperties DEF ClientInv, TypeOK
<1>2. /\ Len(inbox') = Len(inbox) + 1
      /\ \A i \in 1 .. Len(inbox) : inbox'[i] = inbox[i]
      /\ inbox'[Len(inbox) + 1] = m
  BY <1>1, AppendProperties
<1>3. \A i \in 1 .. Len(inbox) : inbox[i].id \in Requests
  <2>1. \A i \in 1 .. Len(inbox) : inbox[i] \in Msg
    <3> HIDE DEF Msg
    <3> QED
      BY <1>1, ElementOfSeq
  <2> QED
    BY <2>1
<1>4. m.id = r /\ m.what = what
  OBVIOUS
<1> HIDE DEF m, Msg
<1>5. \A x : \A n \in 0 .. Len(inbox) : ResultAhead(inbox, x, n) => ResultAhead(inbox', x, n)
  BY <1>1, <1>2 DEF ResultAhead
<1>6. \A x : ResultAhead(inbox', x, Len(inbox)) => ResultAhead(inbox', x, Len(inbox'))
  BY <1>1, <1>2 DEF ResultAhead
<1>7. what # "null" => ResultAhead(inbox', r, Len(inbox'))
  <2>1. Len(inbox) + 1 \in 1 .. Len(inbox')
    BY <1>1, <1>2
  <2> QED
    BY <1>2, <1>4, <2>1 DEF ResultAhead
<1>8. ASSUME NEW i \in 1 .. Len(inbox')
      PROVE  /\ place'[inbox'[i].id] = "answered"
             /\ inbox'[i].what = "null" /\ inbox'[i].id \in pending' => ResultAhead(inbox', inbox'[i].id, i - 1)
  <2>1. CASE i \in 1 .. Len(inbox)
    <3>1. inbox'[i] = inbox[i] /\ inbox[i].id \in Requests /\ i - 1 \in 0 .. Len(inbox)
      BY <1>1, <1>2, <1>3, <2>1
    <3>2. /\ place[inbox[i].id] = "answered"
          /\ inbox[i].what = "null" /\ inbox[i].id \in pending => ResultAhead(inbox, inbox[i].id, i - 1)
      BY <2>1 DEF NullFollows
    <3> QED
      BY <1>5, <3>1, <3>2
  <2>2. CASE i = Len(inbox) + 1
    <3>1. inbox'[i].id = r /\ inbox'[i].what = what
      BY <1>2, <1>4, <2>2
    <3>2. what = "null" /\ r \in pending => ResultAhead(inbox, r, Len(inbox))
      BY DEF NullFollows
    <3>3. Len(inbox) \in 0 .. Len(inbox) /\ i - 1 = Len(inbox)
      BY <1>1, <2>2
    <3>4. what = "null" /\ r \in pending => ResultAhead(inbox', r, Len(inbox))
      BY <1>5, <3>2, <3>3
    <3> QED
      BY <3>1, <3>3, <3>4 DEF ResultAhead
  <2> QED
    BY <1>1, <1>2, <2>1, <2>2
<1>9. ASSUME NEW x \in pending', place'[x] = "answered"
      PROVE  ResultAhead(inbox', x, Len(inbox'))
  <2>1. x \in Requests /\ Len(inbox) \in 0 .. Len(inbox)
    BY <1>1 DEF ClientInv, TypeOK
  <2>2. place[x] = "answered" => ResultAhead(inbox, x, Len(inbox))
    BY <1>9 DEF NullFollows
  <2>3. place[x] = "answered" => ResultAhead(inbox', x, Len(inbox'))
    BY <1>5, <1>6, <2>1, <2>2
  <2> QED
    BY <1>7, <1>9, <2>1, <2>3
<1>10. \A x \in again' : place'[x] = "answered"
  BY DEF NullFollows, ClientInv, TypeOK
<1> QED
  BY <1>8, <1>9, <1>10 DEF NullFollows

\* The head of the stream goes to its call; a null there finds no entry.
LEMMA NullRead ==
  ASSUME ClientInv, NullFollows, ReadsResponse
  PROVE  NullFollows'
<1> DEFINE Msg == [id : Requests, what : {"answer", "null", "offline"}]
           m == Head(inbox)
<1>1. inbox \in Seq(Msg) /\ inbox # <<>> /\ inbox' = Tail(inbox)
  BY DEF ReadsResponse, ClientInv, TypeOK
<1>2. Len(inbox) \in Nat /\ Len(inbox) # 0 /\ m = inbox[1]
  BY <1>1, EmptySeq, LenProperties
<1>3. /\ Len(inbox') = Len(inbox) - 1
      /\ \A i \in 1 .. Len(inbox') : inbox'[i] = inbox[i + 1]
  <2> HIDE DEF Msg
  <2> QED
    BY <1>1, HeadTailProperties
<1>4. \A i \in 1 .. Len(inbox) : inbox[i].id \in Requests
  <2>1. \A i \in 1 .. Len(inbox) : inbox[i] \in Msg
    <3> HIDE DEF Msg
    <3> QED
      BY <1>1, ElementOfSeq
  <2> QED
    BY <2>1
<1>5. /\ pending' = pending \ {m.id}
      /\ rx' = IF m.id \in pending THEN [rx EXCEPT ![m.id] = m.what] ELSE rx
      /\ UNCHANGED <<link, reader, place, again>>
  BY DEF ReadsResponse
<1> HIDE DEF m, Msg
<1>6. ~(m.what = "null" /\ m.id \in pending)
  <2>1. 1 \in 1 .. Len(inbox)
    BY <1>2
  <2>2. m.what = "null" /\ m.id \in pending => ResultAhead(inbox, m.id, 1 - 1)
    BY <1>2, <2>1 DEF NullFollows
  <2> QED
    BY <2>2 DEF ResultAhead
<1>7. \A r \in Requests : rx'[r] # "null"
  BY <1>5, <1>6 DEF NullFollows, ClientInv, TypeOK
<1>8. ASSUME NEW r, r # m.id, NEW n \in 0 .. Len(inbox'), ResultAhead(inbox, r, n + 1)
      PROVE  ResultAhead(inbox', r, n)
  <2>1. PICK j \in 1 .. n + 1 : inbox[j].id = r /\ inbox[j].what # "null"
    BY <1>8 DEF ResultAhead
  <2>2. j # 1
    BY <1>2, <1>8, <2>1
  <2>3. j - 1 \in 1 .. n /\ j - 1 \in 1 .. Len(inbox') /\ inbox'[j - 1] = inbox[j]
    BY <1>2, <1>3, <2>2
  <2> QED
    BY <2>1, <2>3 DEF ResultAhead
<1>9. ASSUME NEW i \in 1 .. Len(inbox')
      PROVE  /\ place'[inbox'[i].id] = "answered"
             /\ inbox'[i].what = "null" /\ inbox'[i].id \in pending' => ResultAhead(inbox', inbox'[i].id, i - 1)
  <2>1. inbox'[i] = inbox[i + 1] /\ i + 1 \in 1 .. Len(inbox) /\ (i - 1) + 1 = (i + 1) - 1
    BY <1>2, <1>3
  <2>2. /\ place[inbox[i + 1].id] = "answered"
        /\ inbox[i + 1].what = "null" /\ inbox[i + 1].id \in pending =>
             ResultAhead(inbox, inbox[i + 1].id, (i + 1) - 1)
    BY <2>1 DEF NullFollows
  <2>3. i - 1 \in 0 .. Len(inbox')
    BY <1>2, <1>3
  <2> QED
    BY <1>5, <1>8, <2>1, <2>2, <2>3
<1>10. ASSUME NEW r \in pending', place'[r] = "answered"
       PROVE  ResultAhead(inbox', r, Len(inbox'))
  <2>1. r \in pending /\ r # m.id /\ ResultAhead(inbox, r, Len(inbox))
    BY <1>5, <1>10 DEF NullFollows
  <2>2. Len(inbox) = Len(inbox') + 1 /\ Len(inbox') \in 0 .. Len(inbox')
    BY <1>2, <1>3
  <2> QED
    BY <1>8, <2>1, <2>2
<1> QED
  BY <1>5, <1>7, <1>9, <1>10 DEF NullFollows

\* Every step of the client and of its environment keeps it.
LEMMA NullStep == ClientInv /\ NullInv /\ [Next]_vars => NullInv'
<1> SUFFICES ASSUME ClientInv, NullInv, [Next]_vars, breaks' = 0
             PROVE  NullFollows'
  BY DEF NullInv
<1>0. /\ breaks \in Nat /\ pending \subseteq Requests
      /\ place \in [Requests -> {"client", "relay", "agent", "answered", "lost"}]
      /\ again \subseteq Requests
  BY DEF ClientInv, TypeOK
<1>1. CASE LinkBreaks
  BY <1>0, <1>1 DEF LinkBreaks
<1>2. CASE ~LinkBreaks
  <2>1. breaks' = breaks
    BY <1>2 DEF Next, CallStep, ClientStep, Insert, FailsFast, Sends, SendFails, Receives, Cancels, Expires,
                Returns, ReadsResponse, ReadEnds, SinkCleared, Connects, RelayRoutes, AgentAnswers,
                AgentRepeats, AgentLeaves, AgentJoins, outside, vars
  <2>2. NullFollows
    BY <2>1 DEF NullInv
  <2>3. link # "dead" /\ reader # "drained"
    BY <2>2 DEF NullFollows
  <2>4. ASSUME NEW r \in Requests, Insert(r)
        PROVE  NullFollows'
    <3>1. place[r] = "client" /\ pending' = pending \cup {r} /\ UNCHANGED <<inbox, rx, link, reader, place, again>>
      BY <2>4 DEF Insert, outside, ClientInv, UnsentIsHere
    <3> QED
      BY <1>0, <2>2, <2>3, <3>1, NullKept
  <2>5. ASSUME NEW r \in Requests, FailsFast(r) \/ SendFails(r) \/ Cancels(r) \/ Receives(r) \/ Expires(r)
        PROVE  NullFollows'
    <3>1. pending' \subseteq pending /\ UNCHANGED <<inbox, rx, link, reader, place, again>>
      BY <2>5 DEF FailsFast, SendFails, Cancels, Receives, Expires, Returns, outside
    <3> QED
      BY <1>0, <2>2, <2>3, <3>1, NullKept
  <2>6. ASSUME NEW r \in Requests, Sends(r)
        PROVE  NullFollows'
    <3>1. /\ place[r] = "client" /\ place'[r] = "relay" /\ link = "open"
          /\ \A x \in Requests \ {r} : place'[x] = place[x]
          /\ UNCHANGED <<inbox, rx, link, reader, pending, again>>
      BY <1>0, <2>3, <2>6 DEF Sends, ClientInv, UnsentIsHere, TypeOK
    <3> QED
      BY <1>0, <2>2, <2>3, <3>1, NullKept
  <2>7. CASE ReadEnds \/ SinkCleared
    BY <2>3, <2>7 DEF ReadEnds, SinkCleared
  <2>8. CASE Connects
    <3>1. UNCHANGED <<inbox, rx, pending, place, again>> /\ link' = "open" /\ reader' = "reading"
      BY <2>8 DEF Connects, outside
    <3> QED
      BY <1>0, <2>2, <3>1, NullKept
  <2>9. ASSUME NEW r \in Requests, NEW what \in {"answer", "offline"}, place[r] \in {"relay", "agent"},
               Respond(r, what), \A x \in again' : x \in again \/ x = r,
               UNCHANGED <<pending, rx, link, reader>>
        PROVE  NullFollows'
    <3>1. link = "open"
      BY <2>2, <2>3, <2>9 DEF NullFollows, ClientInv, TypeOK
    <3>2. /\ inbox' = Append(inbox, [id |-> r, what |-> what])
          /\ place'[r] = "answered"
          /\ \A x \in Requests \ {r} : place'[x] = place[x]
      BY <1>0, <2>9, <3>1 DEF Respond
    <3> QED
      BY <2>2, <2>9, <3>1, <3>2, NullAppended
  <2>10. ASSUME NEW r \in Requests, RelayRoutes(r)
         PROVE  NullFollows'
    <3>1. place[r] = "relay" /\ UNCHANGED <<pending, rx, link, reader, again>>
      BY <2>10 DEF RelayRoutes
    <3>2. CASE Respond(r, "offline")
      BY <2>9, <3>1, <3>2
    <3>3. CASE place' = [place EXCEPT ![r] = "agent"] /\ UNCHANGED inbox
      <4>1. /\ place'[r] = "agent"
            /\ \A x \in Requests \ {r} : place'[x] = place[x]
        BY <1>0, <3>3
      <4>2. link # "closed"
        BY <2>2, <3>1 DEF NullFollows
      <4> QED
        BY <1>0, <2>2, <2>3, <3>1, <3>3, <4>1, <4>2, NullKept
    <3> QED
      BY <2>10, <3>2, <3>3 DEF RelayRoutes
  <2>11. ASSUME NEW r \in Requests, AgentAnswers(r)
         PROVE  NullFollows'
    <3>1. /\ place[r] = "agent" /\ Respond(r, "answer") /\ UNCHANGED <<pending, rx, link, reader>>
          /\ \A x \in again' : x \in again \/ x = r
      BY <2>11 DEF AgentAnswers
    <3> QED
      BY <2>9, <3>1
  <2>12. ASSUME NEW r \in Requests, AgentRepeats(r)
         PROVE  NullFollows'
    <3>1. place[r] = "answered"
      BY <2>2, <2>12 DEF AgentRepeats, NullFollows
    <3>2. link = "open"
      BY <2>2, <2>3, <3>1 DEF NullFollows, ClientInv, TypeOK
    <3>3. /\ inbox' = Append(inbox, [id |-> r, what |-> "null"])
          /\ UNCHANGED <<pending, rx, link, reader, place>> /\ again' \subseteq again
      BY <2>12, <3>2 DEF AgentRepeats
    <3> QED
      BY <2>2, <3>1, <3>2, <3>3, NullAppended
  <2>13. CASE AgentLeaves
    <3>1. /\ UNCHANGED <<pending, rx, link, reader, inbox>> /\ again' = {}
          /\ place' = [r \in Requests |-> IF place[r] = "agent" THEN "lost" ELSE place[r]]
      BY <2>13 DEF AgentLeaves
    <3>2. \A r \in Requests : place'[r] = "answered" <=> place[r] = "answered"
      BY <3>1
    <3>3. link = "closed" => place' = place
      BY <1>0, <2>2, <3>1 DEF NullFollows
    <3> QED
      BY <1>0, <2>2, <2>3, <3>1, <3>2, <3>3, NullKept
  <2>14. CASE AgentJoins \/ UNCHANGED vars
    <3>1. UNCHANGED <<pending, rx, link, reader, inbox, place, again>>
      BY <2>14 DEF AgentJoins, vars
    <3> QED
      BY <1>0, <2>2, <2>3, <3>1, NullKept
  <2> QED
    BY <1>2, <2>2, <2>4, <2>5, <2>6, <2>7, <2>8, <2>10, <2>11, <2>12, <2>13, <2>14, NullRead
       DEF Next, CallStep, ClientStep
<1> QED
  BY <1>1, <1>2

\* As long as no connection was lost, the call of a command gets its result
\* and not the null that dispatch sends after it with the same id.
THEOREM NullsComeLast == Spec => []ResultBeforeNull
<1>1. Init => NullInv
  BY DEF Init, NullInv, NullFollows
<1>2. NullInv /\ ClientInv => ResultBeforeNull
  BY DEF NullInv, NullFollows, ResultBeforeNull, ClientInv, TypeOK
<1> QED
  BY <1>1, <1>2, NullStep, ClientInvariant, PTL DEF Spec

=============================================================================
