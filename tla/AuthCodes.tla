----------------------------- MODULE AuthCodes -----------------------------
(***************************************************************************)
(* The pending OAuth codes of the HTTP server (crates/bridge/src/http.rs): *)
(* a login puts a fresh code into a map, the token endpoint exchanges it,  *)
(* and a task cleans up periodically.  Handlers run concurrently; each     *)
(* takes the lock of the map for its whole update, but the cleanup reads   *)
(* the clock before it has the lock.                                       *)
(***************************************************************************)
EXTENDS Naturals

CONSTANTS
  Codes,       \* the codes of the logins that succeed; random, so distinct
  Lifetime,    \* 600 seconds, in steps of the clock
  Period,      \* 60 seconds, in steps of the clock
  MaxClock     \* bound

ASSUME CodesAssumption ==
  Lifetime \in Nat \ {0} /\ Period \in Nat \ {0} /\ MaxClock \in Nat \ {0}

VARIABLES
  clock,
  issued,      \* codes given out so far
  expires_at,  \* code -> when the entry in the map expires, Absent if there is none
  tokens,      \* code -> tokens given for it
  late_tokens, \* history: codes that were exchanged after their lifetime
  born,        \* history: code -> when it was issued
  due,         \* when the cleanup is due
  now          \* what a cleanup that waits for the lock has read, or Absent

codeVars == <<clock, issued, expires_at, tokens, late_tokens, born, due, now>>

\* No time: the clock starts at 1.
Absent == 0

Waiting == {c \in Codes : expires_at[c] # Absent}

CodesInit ==
  /\ clock = 1
  /\ issued = {}
  /\ expires_at = [c \in Codes |-> Absent]
  /\ tokens = [c \in Codes |-> 0]
  /\ late_tokens = {}
  /\ born = [c \in Codes |-> Absent]
  /\ due = 1
  /\ now = Absent

-----------------------------------------------------------------------------
\* A login with the right token and a redirect_uri.
authorize_submit(c) ==
  /\ c \notin issued
  /\ issued' = issued \cup {c}
  /\ expires_at' = [expires_at EXCEPT ![c] = clock + Lifetime]
  /\ born' = [born EXCEPT ![c] = clock]
  /\ UNCHANGED <<clock, tokens, late_tokens, due, now>>

\* Mutant: a code is looked up and left in the map.
Taken_get(c) == expires_at

\* The map after code c was taken out.
Taken(c) == [expires_at EXCEPT ![c] = Absent]

\* token_endpoint, authorization_code: whatever comes of it, the code is used
\* up.  (For a code that is not in the map nothing changes.)
token_endpoint(c) ==
  /\ c \in Waiting
  /\ expires_at' = Taken(c)
  /\ IF expires_at[c] > clock
     THEN /\ tokens' = [tokens EXCEPT ![c] = IF @ < 2 THEN @ + 1 ELSE @]
          /\ late_tokens' = IF clock < born[c] + Lifetime THEN late_tokens
                            ELSE late_tokens \cup {c}
     ELSE UNCHANGED <<tokens, late_tokens>>
  /\ UNCHANGED <<clock, issued, born, due, now>>

\* The cleanup's interval ticks, and it reads the clock.
CleanupTicks ==
  /\ clock >= due /\ now = Absent
  /\ now' = clock
  /\ due' = due + Period
  /\ UNCHANGED <<clock, issued, expires_at, tokens, late_tokens, born>>

\* It has the lock, and keeps what had not expired by then.
Retains ==
  /\ now # Absent
  /\ expires_at' = [c \in Codes |-> IF expires_at[c] > now THEN expires_at[c] ELSE Absent]
  /\ now' = Absent
  /\ UNCHANGED <<clock, issued, tokens, late_tokens, born, due>>

\* Time passes, but not past a tick; the lock is had within a step.
Passes ==
  /\ clock < MaxClock
  /\ clock < due /\ (now # Absent => clock = now)
  /\ clock' = clock + 1
  /\ UNCHANGED <<issued, expires_at, tokens, late_tokens, born, due, now>>

CodesNext ==
  \/ \E c \in Codes : authorize_submit(c) \/ token_endpoint(c)
  \/ CleanupTicks \/ Retains \/ Passes

CodesSpec == CodesInit /\ [][CodesNext]_codeVars

-----------------------------------------------------------------------------
\* The type invariant.
CodesTypeOK ==
  /\ clock \in 1 .. MaxClock
  /\ issued \subseteq Codes
  /\ expires_at \in [Codes -> Nat]
  /\ tokens \in [Codes -> 0 .. 2]
  /\ late_tokens \subseteq Codes
  /\ born \in [Codes -> Nat]
  /\ due \in Nat \ {0}
  /\ now \in Nat

\* "Pending OAuth authorization codes" (http.rs:30): a code yields a token at
\* most once and within its lifetime, and one that nobody exchanges is out of
\* the map soon after, however its expiry, the exchange and the cleanup fall
\* together: within a period, though the cleanup reads the clock before it
\* has the lock.
CodesOnce ==
  /\ late_tokens = {}
  /\ \A c \in Codes :
       /\ tokens[c] <= 1
       /\ tokens[c] = 1 => c \notin Waiting
       /\ c \in Waiting => clock <= expires_at[c] + Period

=============================================================================
