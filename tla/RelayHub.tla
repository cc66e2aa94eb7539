------------------------------ MODULE RelayHub ------------------------------
(***************************************************************************)
(* The relay (crates/relay/src/lib.rs): one task per connection registers  *)
(* the peer under its token, tells bridges which agent is there, forwards  *)
(* requests to an agent and responses to bridges, and cleans up when the   *)
(* connection ends.  The tasks share two maps, token -> agents and token   *)
(* -> bridges, each behind a lock that is not held while frames are sent.  *)
(*                                                                         *)
(* The bridge's end of a connection is modelled as far as the relay's      *)
(* frames decide it (crates/bridge/src/client.rs, open_connection and      *)
(* read_loop): its view of the agent and the responses it accepts.         *)
(***************************************************************************)
EXTENDS Naturals, Sequences, SequencesExt, FiniteSets

CONSTANTS
  Agents, Bridges,   \* connections; a peer that reconnects uses another one
  Tokens, TokenOf,   \* connection -> the token it presents
  Required,          \* the token the relay insists on, or None
  HelloId,           \* agent connection -> the id its agent chose
  ClientOf,          \* bridge connection -> the AgentClient that opens it
  Seconds,           \* clock readings used as suffixes
  LinkTarget,        \* what a symlink points at: text that is no agent's id
  Mortal,            \* connections that may be lost
  MaxRequests,       \* bound: requests of an AgentClient
  KindsOf,           \* AgentClient -> number of its request -> the possible kinds
  Casts,             \* sets of connections, one of which takes part in a behaviour
  None

Conns == Agents \cup Bridges
Clients == {ClientOf[b] : b \in Bridges}

RequestKinds ==
  {"call",      \* a request for whichever agent is there
   "targeted",  \* run_command with a target
   "symlink",   \* the mount's symlink, whose params also have a "target"
   "list"}      \* list_targets

ASSUME HubAssumption ==
  /\ TokenOf \in [Conns -> Tokens]
  /\ Required \in Tokens \cup {None}
  /\ Mortal \subseteq Conns
  /\ MaxRequests \in Nat
  /\ KindsOf \in [Clients -> [1 .. MaxRequests -> SUBSET RequestKinds]]
  /\ Casts \subseteq SUBSET Conns
  /\ Agents \cap Bridges = {}

VARIABLES
  agents, bridges,   \* AppState: token -> sequence of connections
  pc,                \* connection -> where its task is
  alive,             \* connection -> its socket works
  agent_name,        \* agent connection -> the id it is registered under
  out,               \* agent connection -> frame being broadcast and who is left
  found,             \* bridge connection -> agent id looked up for its ack
  uplink,            \* bridge connection -> requests on their way to the relay
  work,              \* agent connection -> requests its agent is handling
  inbox,             \* bridge connection -> frames on their way to the bridge
  agent_id,          \* bridge connection -> AgentClient.agent_id, Unset before the ack
  next_id,           \* AgentClient -> its request counter
  waiting,           \* bridge connection -> its requests that wait for a response
  forgotten,         \* history: requests ignored in an agent's handshake or lost with the agent
  accepted           \* bridge connection -> history: responses matched, with their request

hub == <<agents, bridges, pc, alive, agent_name, out, found>>
frames == <<uplink, work, inbox>>
ends == <<agent_id, next_id, waiting, forgotten, accepted>>
vars == <<hub, frames, ends>>

Unset == <<>>
NoFrame == [frame |-> None, to |-> <<>>]

Registered(t) == ToSet(agents[t])
AllAgents == UNION {Registered(t) : t \in Tokens}
NameTaken(name) == \E a \in AllAgents : agent_name[a] = name

Init ==
  /\ agents = [t \in Tokens |-> <<>>]
  /\ bridges = [t \in Tokens |-> <<>>]
  /\ \E cast \in Casts : alive = [c \in Conns |-> c \in cast]
  /\ pc = [c \in Conns |-> IF alive[c] THEN "new" ELSE "closed"]
  /\ agent_name = [a \in Agents |-> None]
  /\ out = [a \in Agents |-> NoFrame]
  /\ found = [b \in Bridges |-> None]
  /\ uplink = [b \in Bridges |-> <<>>]
  /\ work = [a \in Agents |-> {}]
  /\ inbox = [b \in Bridges |-> <<>>]
  /\ agent_id = [b \in Bridges |-> Unset]
  /\ next_id = [k \in Clients |-> 1]
  /\ waiting = [b \in Bridges |-> {}]
  /\ forgotten = {}
  /\ accepted = [b \in Bridges |-> {}]

Goto(c, label) == pc' = [pc EXCEPT ![c] = label]

\* A frame sent to a lost connection is lost.
SendTo(b, m) == inbox' = [inbox EXCEPT ![b] = IF alive[b] THEN Append(@, m) ELSE @]

\* Mutant: the last bridge of the list is missed.
Broadcast_short(a, m) ==
  LET list == bridges[TokenOf[a]]
  IN  out' = [out EXCEPT ![a] = [frame |-> m, to |-> IF list = <<>> THEN list ELSE Front(list)]]

\* forward_to_bridges: the list of bridges is copied, then served one by one.
Broadcast(a, m) == out' = [out EXCEPT ![a] = [frame |-> m, to |-> bridges[TokenOf[a]]]]

Deliver(a) ==
  /\ out[a].to # <<>>
  /\ SendTo(Head(out[a].to), out[a].frame)
  /\ out' = [out EXCEPT ![a].to = Tail(@)]
  /\ UNCHANGED <<agents, bridges, pc, alive, agent_name, found, uplink, work, ends>>

-----------------------------------------------------------------------------
\* A peer with another token than the required one is turned away.
Reject(c) ==
  /\ pc[c] = "new" /\ Required # None /\ TokenOf[c] # Required
  /\ Goto(c, "closed")
  /\ UNCHANGED <<agents, bridges, alive, agent_name, out, found, frames, ends>>

Admitted(c) == pc[c] = "new" /\ Required \in {None, TokenOf[c]}

\* Mutant: the id is taken as the agent asks for it.
AssignedId_asked(a, now) == <<HelloId[a]>>

\* The id an agent is registered under.
AssignedId(a, now) ==
  IF ~NameTaken(<<HelloId[a]>>) THEN <<HelloId[a]>>
  ELSE IF ~NameTaken(<<HelloId[a], now>>) THEN <<HelloId[a], now>> ELSE <<HelloId[a], now, a>>

\* register_agent: the id gets a suffix if an agent has it, the clock's
\* seconds, or if that is taken too also a random number (taken to be fresh).
register_agent(a, now) ==
  /\ Admitted(a)
  /\ agent_name' = [agent_name EXCEPT ![a] = AssignedId(a, now)]
  /\ agents' = [agents EXCEPT ![TokenOf[a]] = Append(@, a)]
  /\ Goto(a, "registered")
  /\ UNCHANGED <<bridges, alive, out, found, frames, ends>>

\* Then the bridges are told, and the agent gets its ack.
AnnounceAgent(a) ==
  /\ pc[a] = "registered"
  /\ Broadcast(a, [type |-> "agent_connected", id |-> agent_name[a]])
  /\ Goto(a, "announced")
  /\ UNCHANGED <<agents, bridges, alive, agent_name, found, frames, ends>>

AckAgent(a) ==
  /\ pc[a] = "announced" /\ out[a].to = <<>>
  /\ Goto(a, "open")
  /\ UNCHANGED <<agents, bridges, alive, agent_name, out, found, frames, ends>>

\* An AgentClient has one connection: the next follows the loss of the last.
\* A bridge makes a new AgentClient whenever its MCP session ends, and the
\* unified server has one besides, so a token may have several at a time.
Alone(b) == \A c \in Bridges \ {b} : ClientOf[c] = ClientOf[b] => pc[c] = "new" \/ ~alive[c]

\* Mutant: the bridge counts its requests anew on every connection.
register_bridge_anew(b) ==
  /\ Admitted(b) /\ Alone(b)
  /\ bridges' = [bridges EXCEPT ![TokenOf[b]] = Append(@, b)]
  /\ Goto(b, "registered")
  /\ next_id' = [next_id EXCEPT ![ClientOf[b]] = 1]
  /\ UNCHANGED <<agents, alive, agent_name, out, found, frames, agent_id, waiting, forgotten, accepted>>

register_bridge(b) ==
  /\ Admitted(b) /\ Alone(b)
  /\ bridges' = [bridges EXCEPT ![TokenOf[b]] = Append(@, b)]
  /\ Goto(b, "registered")
  /\ UNCHANGED <<agents, alive, agent_name, out, found, frames, ends>>

\* The ack's agent id is read after the bridge is registered, and sent later.
LookUpAgent(b) ==
  /\ pc[b] = "registered"
  /\ LET list == agents[TokenOf[b]]
     IN  found' = [found EXCEPT ![b] = IF list = <<>> THEN None ELSE agent_name[Last(list)]]
  /\ Goto(b, "found")
  /\ UNCHANGED <<agents, bridges, alive, agent_name, out, frames, ends>>

AckBridge(b) ==
  /\ pc[b] = "found"
  /\ SendTo(b, [type |-> "hello_ack", id |-> found[b]])
  /\ Goto(b, "open")
  /\ UNCHANGED <<agents, bridges, alive, agent_name, out, found, uplink, work, ends>>

-----------------------------------------------------------------------------
\* Whether agent a is the one a request's target or session names.
Matches(a, hint) == hint \in {agent_name[a], a}

\* The relay handles a bridge's next request: list_targets itself, another by
\* forwarding it to the agent that params.target names, or without one to
\* the last agent of the token.  If there is none it answers AGENT_OFFLINE; a
\* forward to a lost connection fails or goes nowhere.  An agent is in the
\* map before its ack is sent, and ignores every frame until the ack comes
\* (crates/agent/src/conn.rs, the handshake of run).
Route(b) ==
  /\ pc[b] = "open" /\ uplink[b] # <<>>
  /\ LET r == Head(uplink[b])
         list == agents[TokenOf[b]]
         able == IF r.hint = None THEN (IF list = <<>> THEN {} ELSE {Last(list)})
                 ELSE {a \in ToSet(list) : Matches(a, r.hint)}
         answer(what) == SendTo(b, [type |-> "response", id |-> r.id, of |-> r, what |-> what])
     IN  \/ /\ r.kind = "list"
            /\ answer("targets")
            /\ UNCHANGED <<work, forgotten>>
         \/ /\ r.kind # "list" /\ able = {}
            /\ answer("offline")
            /\ UNCHANGED <<work, forgotten>>
         \/ /\ r.kind # "list"
            /\ \E a \in able :
                 \/ /\ alive[a] /\ pc[a] = "open"
                    /\ work' = [work EXCEPT ![a] = @ \cup {r}]
                    /\ UNCHANGED <<inbox, forgotten>>
                 \/ /\ alive[a] /\ pc[a] # "open"
                    /\ forgotten' = forgotten \cup {r}
                    /\ UNCHANGED <<inbox, work>>
                 \/ ~alive[a] /\ answer("failed") /\ UNCHANGED <<work, forgotten>>
                 \/ ~alive[a] /\ forgotten' = forgotten \cup {r} /\ UNCHANGED <<inbox, work>>
  /\ uplink' = [uplink EXCEPT ![b] = Tail(@)]
  /\ UNCHANGED <<hub, agent_id, next_id, waiting, accepted>>

\* The agent answers one of its requests and the relay starts to pass the
\* response to every bridge of the token.
ForwardResponse(a, r) ==
  /\ pc[a] = "open" /\ alive[a] /\ out[a].to = <<>>
  /\ r \in work[a]
  /\ work' = [work EXCEPT ![a] = @ \ {r}]
  /\ Broadcast(a, [type |-> "response", id |-> r.id, of |-> r, what |-> "result"])
  /\ UNCHANGED <<agents, bridges, pc, alive, agent_name, found, uplink, inbox, ends>>

-----------------------------------------------------------------------------
\* A connection is lost, with what was on its way to the peer.  The relay
\* still reads the requests that had come before the loss.
Drop(c) ==
  /\ c \in Mortal /\ alive[c] /\ pc[c] # "new"
  /\ alive' = [alive EXCEPT ![c] = FALSE]
  /\ IF c \in Agents
     THEN /\ work' = [work EXCEPT ![c] = {}]
          /\ forgotten' = forgotten \cup work[c]
          /\ UNCHANGED <<uplink, inbox, waiting>>
     ELSE /\ \E n \in 0 .. Len(uplink[c]) : uplink' = [uplink EXCEPT ![c] = SubSeq(@, 1, n)]
          /\ inbox' = [inbox EXCEPT ![c] = <<>>]
          /\ waiting' = [waiting EXCEPT ![c] = {}]
          /\ UNCHANGED <<work, forgotten>>
  /\ UNCHANGED <<agents, bridges, pc, agent_name, out, found, agent_id, next_id, accepted>>

\* retain: the list without connection c.
Without(list, c) ==
  LET kept[i \in 0 .. Len(list)] ==
        IF i = 0 THEN <<>>
        ELSE IF list[i] = c THEN kept[i - 1]
        ELSE Append(kept[i - 1], list[i])
  IN  kept[Len(list)]

\* Mutant: the agents that asked for the same id are taken out.
CleanupAgent_by_id(a) ==
  /\ pc[a] = "open" /\ ~alive[a] /\ out[a].to = <<>>
  /\ agents' = [agents EXCEPT ![TokenOf[a]] = SelectSeq(@, LAMBDA c : HelloId[c] # HelloId[a])]
  /\ Goto(a, "removed")
  /\ UNCHANGED <<bridges, alive, agent_name, out, found, frames, ends>>

\* The read loop ends: the peer is taken out of its list, and the bridges of
\* the token are told that an agent left.
CleanupAgent(a) ==
  /\ pc[a] = "open" /\ ~alive[a] /\ out[a].to = <<>>
  /\ agents' = [agents EXCEPT ![TokenOf[a]] = Without(@, a)]
  /\ Goto(a, "removed")
  /\ UNCHANGED <<bridges, alive, agent_name, out, found, frames, ends>>

\* Mutant: the bridges are told when the last agent has left.
notify_bridges_agent_gone_last(a) ==
  /\ pc[a] = "removed"
  /\ IF agents[TokenOf[a]] = <<>>
     THEN Broadcast(a, [type |-> "agent_disconnected", id |-> agent_name[a]])
     ELSE UNCHANGED out
  /\ Goto(a, "closed")
  /\ UNCHANGED <<agents, bridges, alive, agent_name, found, frames, ends>>

notify_bridges_agent_gone(a) ==
  /\ pc[a] = "removed"
  /\ Broadcast(a, [type |-> "agent_disconnected", id |-> agent_name[a]])
  /\ Goto(a, "closed")
  /\ UNCHANGED <<agents, bridges, alive, agent_name, found, frames, ends>>

CleanupBridge(b) ==
  /\ pc[b] = "open" /\ ~alive[b] /\ uplink[b] = <<>>
  /\ bridges' = [bridges EXCEPT ![TokenOf[b]] = Without(@, b)]
  /\ Goto(b, "closed")
  /\ UNCHANGED <<agents, alive, agent_name, out, found, frames, ends>>

-----------------------------------------------------------------------------
\* Mutant: the counter is read and not advanced.
fetch_add_none(n) == n

\* The counter after a request took its id.
fetch_add(n) == n + 1

\* The bridge: a request takes the next id of its AgentClient.  A "targeted" one
\* names an agent by an id seen before; a symlink's "target" is its own.
BridgeSends(b, kind, hint) ==
  /\ alive[b] /\ agent_id[b] # Unset
  /\ hint \in CASE kind = "targeted" -> {agent_name[a] : a \in Agents} \ {None}
                [] kind = "symlink" -> {LinkTarget}
                [] OTHER -> {None}
  /\ LET n == next_id[ClientOf[b]]
     IN  /\ n <= MaxRequests /\ kind \in KindsOf[ClientOf[b]][n]
         /\ next_id' = [next_id EXCEPT ![ClientOf[b]] = fetch_add(n)]
         /\ waiting' = [waiting EXCEPT ![b] = @ \cup {n}]
         /\ uplink' = [uplink EXCEPT ![b] =
              Append(@, [id |-> n, from |-> b, kind |-> kind, hint |-> hint])]
  /\ UNCHANGED <<hub, work, inbox, agent_id, forgotten, accepted>>

\* The bridge reads a frame.  Until the ack everything else is skipped; then
\* notifications change agent_id and a response ends the wait for its id.
BridgeReads(b) ==
  /\ inbox[b] # <<>>
  /\ LET m == Head(inbox[b])
         acked == agent_id[b] # Unset
         matched == acked /\ m.type = "response" /\ m.id \in waiting[b]
     IN  /\ agent_id' = [agent_id EXCEPT ![b] =
              IF m.type = "hello_ack" \/ (acked /\ m.type = "agent_connected") THEN m.id
              ELSE IF m.type = "agent_disconnected" /\ m.id = @ THEN None ELSE @]
         /\ waiting' = [waiting EXCEPT ![b] = IF matched THEN @ \ {m.id} ELSE @]
         /\ accepted' = [accepted EXCEPT ![b] =
              IF matched THEN @ \cup {[of |-> m.of, what |-> m.what]} ELSE @]
  /\ inbox' = [inbox EXCEPT ![b] = Tail(@)]
  /\ UNCHANGED <<hub, uplink, work, next_id, forgotten>>

-----------------------------------------------------------------------------
Hints == {agent_name[a] : a \in Agents} \cup {None, LinkTarget}

AgentTask(a) ==
  \/ AnnounceAgent(a) \/ AckAgent(a) \/ Deliver(a)
  \/ \E r \in work[a] : ForwardResponse(a, r)
  \/ CleanupAgent(a) \/ notify_bridges_agent_gone(a)

BridgeTask(b) == LookUpAgent(b) \/ AckBridge(b) \/ Route(b) \/ CleanupBridge(b)

Next ==
  \/ \E c \in Conns : Reject(c) \/ Drop(c)
  \/ \E a \in Agents : AgentTask(a) \/ \E now \in Seconds : register_agent(a, now)
  \/ \E b \in Bridges : register_bridge(b) \/ BridgeTask(b) \/ BridgeReads(b)
  \/ \E b \in Bridges, kind \in RequestKinds, hint \in Hints : BridgeSends(b, kind, hint)

Spec == Init /\ [][Next]_vars

\* The relay schedules its tasks, a bridge reads what it gets and an agent
\* answers what it was asked.
Fairness ==
  /\ \A a \in Agents : WF_vars(AgentTask(a))
  /\ \A b \in Bridges : WF_vars(BridgeTask(b)) /\ WF_vars(BridgeReads(b))

FairSpec == Spec /\ Fairness

-----------------------------------------------------------------------------
Names == {<<HelloId[a]>> : a \in Agents} \cup {<<HelloId[a], s>> : a \in Agents, s \in Seconds}
         \cup {<<HelloId[a], s, c>> : a \in Agents, s \in Seconds, c \in Agents}

\* The type invariant.
TypeOK ==
  /\ \A t \in Tokens : Registered(t) \subseteq Agents /\ ToSet(bridges[t]) \subseteq Bridges
  /\ pc \in [Conns -> {"new", "registered", "announced", "found", "open", "removed", "closed"}]
  /\ alive \in [Conns -> BOOLEAN]
  /\ agent_name \in [Agents -> Names \cup {None}]
  /\ \A a \in Agents : ToSet(out[a].to) \subseteq Bridges
  /\ found \in [Bridges -> Names \cup {None}]
  /\ \A a \in Agents : \A r \in work[a] : r.from \in Bridges /\ r.id \in 1 .. next_id[ClientOf[r.from]] - 1
  /\ agent_id \in [Bridges -> Names \cup {None, Unset}]
  /\ next_id \in [Clients -> 1 .. MaxRequests + 1]
  /\ waiting \in [Bridges -> SUBSET (1 .. MaxRequests)]

\* "Unique id of a connected agent" (protocol lib.rs:10): no two registered
\* agents have the same id, also of different tokens and however many share
\* the id they asked for.
UniqueIds ==
  \A a, c \in AllAgents : agent_name[a] = agent_name[c] => a = c

\* The maps hold exactly the peers between registration and cleanup, each
\* once, under its token: the cleanup of a stale connection never takes out
\* another one of the same peer.
RegistryExact ==
  \A t \in Tokens :
    /\ Registered(t) = {a \in Agents : TokenOf[a] = t /\ pc[a] \in {"registered", "announced", "open"}}
    /\ ToSet(bridges[t]) = {b \in Bridges : TokenOf[b] = t /\ pc[b] \in {"registered", "found", "open"}}
    /\ Len(agents[t]) = Cardinality(Registered(t))
    /\ Len(bridges[t]) = Cardinality(ToSet(bridges[t]))

\* What a bridge accepts comes from its own token, and of the requests of one
\* AgentClient it is the response to the one it made on this connection: the
\* counter goes on from connection to connection (client.rs:40), so that the
\* late answer to a request of an earlier connection meets nobody.
OwnResponses ==
  \A b \in Bridges : \A m \in accepted[b] :
    /\ TokenOf[m.of.from] = TokenOf[b]
    /\ ClientOf[m.of.from] = ClientOf[b] => m.of.from = b

\* Nothing is on its way to bridge b, and no agent of its token comes or goes.
Quiet(b) ==
  /\ pc[b] = "open" /\ alive[b] /\ inbox[b] = <<>>
  /\ \A a \in Agents : TokenOf[a] = TokenOf[b] =>
       /\ out[a].to = <<>>
       /\ pc[a] \in {"new", "announced", "closed"} \/ (pc[a] = "open" /\ alive[a])

\* What a bridge takes for the connected agent, when nothing is on its way, is
\* an agent that is there, none, or what its ack said: an agent that leaves
\* between the lookup for the ack and the ack stays in view, for the
\* notification comes first and is skipped.
StaleOnlyFromAck ==
  \A b \in Bridges : Quiet(b) =>
    agent_id[b] \in {None, found[b]} \cup {agent_name[a] : a \in Registered(TokenOf[b])}

Forgotten(b, n) == \E r \in forgotten : r.from = b /\ r.id = n

\* Again and again no bridge waits for anything but a request that an agent
\* still in its handshake ignored, or that was lost with its agent: whatever
\* other agents and bridges come and go, each request gets its answer.
OthersAnswered == []<>(\A b \in Bridges : \A n \in waiting[b] : Forgotten(b, n))

-----------------------------------------------------------------------------
\* "Request: route to the agent; if offline, answer with an error"
\* (relay lib.rs:265): every request is answered as long as the connections
\* stay.
RequestsAnswered == []<>(\A b \in Bridges : waiting[b] = {})

=============================================================================
