----------------------------- MODULE MCRelayHub -----------------------------
(***************************************************************************)
(* The relay on small instances: its maps and tasks (RelayHub), and the    *)
(* sockets between it and its peers.  A behaviour is one of one part; the  *)
(* other stands still.                                                     *)
(***************************************************************************)
EXTENDS RelayHub, Sockets

CONSTANTS Parts, a1, a2, b1, b2, b3, b4, b5, tok1, tok2

\* The third bridge presents token tok2, every other peer tok1.
ThirdApart == [c \in Conns |-> IF c = b3 THEN tok2 ELSE tok1]

\* All agents ask for the same id.
SameId == [a \in Agents |-> "agent"]

\* One client, which reconnects, and three with one connection each, the
\* first of them of another token.
ClientsOf ==
  [b \in Bridges |->
     CASE b = b3 -> "other" [] b = b4 -> "server-bridge" [] b = b5 -> "second" [] OTHER -> "first"]

\* A request of any kind and then a plain call, of the other clients one plain
\* call; or plain calls only.
AnyThenCalls ==
  [k \in Clients |-> [n \in 1 .. MaxRequests |->
     IF k = "first" THEN (IF n = 1 THEN RequestKinds ELSE {"call"})
     ELSE IF n = 1 THEN {"call"} ELSE {}]]
OnlyCalls == [k \in Clients |-> [n \in 1 .. MaxRequests |-> {"call"}]]

\* Two agents and a bridge; an agent and a bridge that reconnects; an agent
\* and the bridges of two tokens; two clients of one token and their agent.
ThreePeers == {{a1, a2, b1}, {a1, b1, b2}, {a1, b1, b3}, {a1, b4, b5}}
OnePair == {{a1, b1}}

\* Calls of every kind.
FewCalls == [k \in Questions |-> IF k \in {"write", "run"} THEN 2 ELSE 1]

VARIABLE part

relayVars == <<vars, socketVars, part>>

RelayInit ==
  /\ part \in Parts
  /\ Init /\ SocketsInit
  /\ part = "sockets" => \A c \in CHOOSE cast \in Casts : TRUE : pc[c] = "new"

RelayNext ==
  /\ UNCHANGED part
  /\ \/ part = "hub" /\ Next /\ UNCHANGED socketVars
     \/ part = "sockets" /\ SocketsNext /\ UNCHANGED vars

RelaySpec == RelayInit /\ [][RelayNext]_relayVars /\ (part = "hub" => Fairness)

\* The type invariants of the parts.
PartsTypeOK == TypeOK /\ SocketsTypeOK

=============================================================================
