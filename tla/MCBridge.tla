------------------------------ MODULE MCBridge ------------------------------
(***************************************************************************)
(* The parts of a bridge process that share no state, on small instances:  *)
(* its RPC client, file transfers, mounts, names and authorization codes.  *)
(* A behaviour is one of one part; the others stand still.                 *)
(***************************************************************************)
EXTENDS AgentClient, FileTransfer, MountManager, MountNames, AuthCodes

CONSTANT Parts

\* The original is of two chunks and ends with one that is not full; one upload
\* is of one chunk, the others are of two.
FileSizes == CHOOSE f \in [Sources -> 1 .. 2] : f[Old] = 2 /\ Cardinality({s \in Sources : f[s] = 1}) = 1

VARIABLE part

bridgeVars == <<vars, transferVars, mountVars, nameVars, codeVars, part>>

BridgeInit ==
  /\ part \in Parts
  /\ Init /\ TransferInit /\ CodesInit
  /\ IF part = "names" THEN NamesInit
     ELSE NamesInit /\ ~read_only /\ \A n \in Names : target[n] = None /\ cached[n] = None
  /\ IF part = "mounts" THEN MountsInit
     ELSE MountsInit /\ \A p \in Points : stack[p] = <<>>

BridgeNext ==
  /\ UNCHANGED part
  /\ \/ part = "client" /\ Next /\ UNCHANGED <<transferVars, mountVars, nameVars, codeVars>>
     \/ part = "transfer" /\ TransferNext /\ UNCHANGED <<vars, mountVars, nameVars, codeVars>>
     \/ part = "mounts" /\ MountsNext /\ UNCHANGED <<vars, transferVars, nameVars, codeVars>>
     \/ part = "names" /\ NamesNext /\ UNCHANGED <<vars, transferVars, mountVars, codeVars>>
     \/ part = "codes" /\ CodesNext /\ UNCHANGED <<vars, transferVars, mountVars, nameVars>>

BridgeSpec == BridgeInit /\ [][BridgeNext]_bridgeVars /\ (part = "client" => Fairness)

-----------------------------------------------------------------------------
\* The type invariants of the parts.
PartsTypeOK == TypeOK /\ TransferTypeOK /\ MountsTypeOK /\ NamesTypeOK /\ CodesTypeOK

\* In the client's behaviours: call_timeout always returns, whatever is lost
\* meanwhile, and the client is connected again after every lost connection.
ClientLives == part = "client" => TimedCallsReturn /\ ClientReconnects

=============================================================================
