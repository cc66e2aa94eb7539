--------------------------- MODULE RelayHubProofs ---------------------------
(***************************************************************************)
(* The relay's safety for every set of agents, bridges and tokens, every   *)
(* choice of ids and every number of requests.                             *)
(***************************************************************************)
EXTENDS MCRelayHub, SequenceTheorems, FunctionTheorems, FiniteSetTheorems, WellFoundedInduction, TLAPS

-----------------------------------------------------------------------------
\* A set of naturals has a least element.
LEMMA LeastElement ==
  ASSUME NEW T, T \subseteq Nat, T # {}
  PROVE  \E m \in T : \A k \in T : m <= k
<1> DEFINE R == {ss \in Nat \X Nat : ss[1] < ss[2]}
<1>1. IsWellFoundedOn(R, Nat)
  BY NatLessThanWellFounded DEF OpToRel
<1>2. PICK x \in T : \A y \in T : ~ (<<y, x>> \in R)
  BY <1>1, WFMin
<1>3. \A y \in T : x <= y
  <2> SUFFICES ASSUME NEW y \in T, ~(x <= y) PROVE FALSE
    OBVIOUS
  <2>1. x \in Nat /\ y \in Nat /\ y < x
    OBVIOUS
  <2>2. <<y, x>> \in R
    BY <2>1
  <2> QED
    BY <1>2, <2>2
<1> QED
  BY <1>3

\* Induction, for a set of naturals.
LEMMA NatSet ==
  ASSUME NEW T, 0 \in T, \A n \in Nat : n \in T => n + 1 \in T
  PROVE  Nat \subseteq T
<1> DEFINE U == Nat \ T
<1> SUFFICES ASSUME U # {}
             PROVE  FALSE
  OBVIOUS
<1>1. PICK m \in U : \A k \in U : m <= k
  <2>1. U \subseteq Nat
    OBVIOUS
  <2> HIDE DEF U
  <2> QED
    BY <2>1, LeastElement
<1>2. m \in Nat /\ m # 0 /\ m \notin T
  OBVIOUS
<1>3. m - 1 \in Nat /\ m - 1 \notin U /\ (m - 1) + 1 = m
  BY <1>1, <1>2
<1> QED
  BY <1>2, <1>3

\* One step of Without: what is kept of the first i elements of list.
KeptStep(f, list, c, i) ==
  IF i = 0 THEN <<>> ELSE IF list[i] = c THEN f[i - 1] ELSE Append(f[i - 1], list[i])

\* Without's recursive function exists.
LEMMA KeptExists ==
  ASSUME NEW s, NEW c, Len(s) \in Nat
  PROVE  \E f : f = [i \in 0 .. Len(s) |-> KeptStep(f, s, c, i)]
<1> DEFINE D(n) == \E f : f = [i \in 0 .. n |-> KeptStep(f, s, c, i)]
           T == {n \in Nat : D(n)}
<1>1. D(0)
  <2>1. [i \in 0 .. 0 |-> <<>>] = [i \in 0 .. 0 |-> KeptStep([j \in 0 .. 0 |-> <<>>], s, c, i)]
    BY DEF KeptStep
  <2> QED
    BY <2>1
<1>2. ASSUME NEW n \in Nat, D(n) PROVE D(n + 1)
  <2>1. PICK f : f = [i \in 0 .. n |-> KeptStep(f, s, c, i)]
    BY <1>2
  <2> DEFINE g == [i \in 0 .. n + 1 |-> IF i = n + 1 THEN KeptStep(f, s, c, n + 1) ELSE f[i]]
  <2>2. ASSUME NEW i \in 0 .. n + 1 PROVE g[i] = KeptStep(g, s, c, i)
    <3>1. CASE i = n + 1
      <4>1. g[i] = KeptStep(f, s, c, n + 1) /\ g[n] = f[n] /\ (n + 1) - 1 = n /\ n + 1 # 0
        BY <3>1
      <4> QED
        BY <3>1, <4>1 DEF KeptStep
    <3>2. CASE i # n + 1
      <4>1. i \in 0 .. n /\ g[i] = f[i]
        BY <3>2
      <4>2. f[i] = KeptStep(f, s, c, i)
        BY <2>1, <4>1
      <4>3. CASE i = 0
        BY <4>1, <4>2, <4>3 DEF KeptStep
      <4>4. CASE i # 0
        <5>1. i - 1 \in 0 .. n /\ i - 1 \in 0 .. n + 1 /\ i - 1 # n + 1
          BY <4>1, <4>4
        <5>2. g[i - 1] = f[i - 1]
          BY <5>1
        <5> HIDE DEF g
        <5> QED
          BY <4>1, <4>2, <4>4, <5>2 DEF KeptStep
      <4> QED
        BY <4>3, <4>4
    <3> QED
      BY <3>1, <3>2
  <2>3. g = [i \in 0 .. n + 1 |-> KeptStep(g, s, c, i)]
    BY <2>2
  <2> QED
    BY <2>3
<1>3. Nat \subseteq T
  <2>1. 0 \in T
    BY <1>1
  <2>2. \A n \in Nat : n \in T => n + 1 \in T
    BY <1>2
  <2> HIDE DEF T
  <2> QED
    BY <2>1, <2>2, NatSet
<1>4. D(Len(s))
  BY <1>3
<1> QED
  BY <1>4

\* Without unfolded.
LEMMA WithoutIs ==
  ASSUME NEW s, NEW c, Len(s) \in Nat
  PROVE  \E f : f = [i \in 0 .. Len(s) |-> KeptStep(f, s, c, i)] /\ Without(s, c) = f[Len(s)]
<1> DEFINE k == CHOOSE f : f = [i \in 0 .. Len(s) |-> KeptStep(f, s, c, i)]
<1>1. k = [i \in 0 .. Len(s) |-> KeptStep(k, s, c, i)]
  BY KeptExists
<1>2. Without(s, c) = k[Len(s)]
  BY DEF Without, KeptStep
<1> QED
  BY <1>1, <1>2

\* No element is twice in s.
Distinct(s) == \A i, j \in 1 .. Len(s) : s[i] = s[j] => i = j

\* Without takes out c, all of it, and nothing else, and duplicates nothing.
LEMMA WithoutFacts ==
  ASSUME NEW S, NEW s \in Seq(S), NEW c
  PROVE  /\ Without(s, c) \in Seq(S)
         /\ ToSet(Without(s, c)) = ToSet(s) \ {c}
         /\ Distinct(s) => Distinct(Without(s, c))
<1>1. /\ Len(s) \in Nat /\ DOMAIN s = 1 .. Len(s)
      /\ \A i \in 1 .. Len(s) : s[i] \in S
  BY ElementOfSeq, LenProperties
<1>2. PICK f : f = [i \in 0 .. Len(s) |-> KeptStep(f, s, c, i)] /\ Without(s, c) = f[Len(s)]
  BY <1>1, WithoutIs
<1> DEFINE Kept(q, n) ==
             /\ q \in Seq(S)
             /\ \A j \in 1 .. Len(q) : \E i \in 1 .. n : q[j] = s[i] /\ s[i] # c
             /\ \A i \in 1 .. n : s[i] # c => \E j \in 1 .. Len(q) : q[j] = s[i]
             /\ Distinct(s) => Distinct(q)
           T == {n \in Nat : n <= Len(s) => Kept(f[n], n)}
<1>3. 0 \in T
  <2>1. f[0] = <<>>
    BY <1>1, <1>2 DEF KeptStep
  <2>2. Kept(<<>>, 0)
    BY EmptySeq DEF Distinct
  <2> HIDE DEF Kept
  <2> QED
    BY <2>1, <2>2
<1>4. ASSUME NEW n \in Nat, n \in T
      PROVE  n + 1 \in T
  <2> SUFFICES ASSUME n + 1 <= Len(s)
               PROVE  Kept(f[n + 1], n + 1)
    OBVIOUS
  <2> DEFINE q == f[n]
             x == s[n + 1]
  <2>1. Kept(q, n)
    BY <1>1, <1>4
  <2>2. n + 1 \in 1 .. Len(s) /\ x \in S
    BY <1>1
  <2>3. f[n + 1] = IF x = c THEN q ELSE Append(q, x)
    <3>1. n + 1 \in 0 .. Len(s) /\ n + 1 # 0 /\ (n + 1) - 1 = n
      BY <1>1
    <3>2. f[n + 1] = KeptStep(f, s, c, n + 1)
      BY <1>2, <3>1
    <3> QED
      BY <3>1, <3>2 DEF KeptStep
  <2>4. CASE x = c
    <3>1. \A i \in 1 .. n + 1 : s[i] # c => i \in 1 .. n
      BY <2>4
    <3>2. \A i \in 1 .. n : i \in 1 .. n + 1
      OBVIOUS
    <3> HIDE DEF q, x
    <3> QED
      BY <2>1, <2>3, <2>4, <3>1, <3>2
  <2>5. CASE x # c
    <3> DEFINE r == Append(q, x)
    <3>1. /\ r \in Seq(S) /\ Len(q) \in Nat /\ Len(r) = Len(q) + 1
          /\ \A j \in 1 .. Len(q) : r[j] = q[j]
          /\ r[Len(q) + 1] = x
      <4> HIDE DEF q, x
      <4> QED
        BY <2>1, <2>2, AppendProperties, LenProperties
    <3>2. ASSUME NEW j \in 1 .. Len(r)
          PROVE  \E i \in 1 .. n + 1 : r[j] = s[i] /\ s[i] # c
      <4>1. CASE j = Len(q) + 1
        BY <2>5, <3>1, <4>1
      <4>2. CASE j # Len(q) + 1
        <5>1. j \in 1 .. Len(q) /\ r[j] = q[j]
          BY <3>1, <4>2
        <5>2. PICK i \in 1 .. n : q[j] = s[i] /\ s[i] # c
          BY <2>1, <5>1
        <5>3. i \in 1 .. n + 1
          OBVIOUS
        <5> QED
          BY <5>1, <5>2, <5>3
      <4> QED
        BY <4>1, <4>2
    <3>3. ASSUME NEW i \in 1 .. n + 1, s[i] # c
          PROVE  \E j \in 1 .. Len(r) : r[j] = s[i]
      <4>1. CASE i = n + 1
        <5>1. Len(q) + 1 \in 1 .. Len(r)
          BY <3>1
        <5> QED
          BY <3>1, <4>1, <5>1
      <4>2. CASE i # n + 1
        <5>1. i \in 1 .. n
          BY <4>2
        <5>2. PICK j \in 1 .. Len(q) : q[j] = s[i]
          BY <2>1, <3>3, <5>1
        <5>3. j \in 1 .. Len(r) /\ r[j] = q[j]
          BY <3>1
        <5> QED
          BY <5>2, <5>3
      <4> QED
        BY <4>1, <4>2
    <3>4. ASSUME Distinct(s)
          PROVE  Distinct(r)
      <4>1. \A j \in 1 .. Len(q) : q[j] # x
        <5> SUFFICES ASSUME NEW j \in 1 .. Len(q), q[j] = x
                     PROVE  FALSE
          OBVIOUS
        <5>1. PICK i \in 1 .. n : q[j] = s[i]
          BY <2>1
        <5>2. i \in 1 .. Len(s) /\ i # n + 1
          BY <1>1
        <5> QED
          BY <2>2, <3>4, <5>1, <5>2 DEF Distinct
      <4>2. Distinct(q)
        BY <2>1, <3>4
      <4> HIDE DEF q, x, r
      <4> QED
        BY <3>1, <4>1, <4>2 DEF Distinct
    <3> HIDE DEF q, x, r
    <3>5. Kept(r, n + 1)
      BY <3>1, <3>2, <3>3, <3>4
    <3> QED
      BY <2>3, <2>5, <3>5 DEF r
  <2> QED
    BY <2>4, <2>5
<1>5. Kept(f[Len(s)], Len(s))
  <2>1. Nat \subseteq T
    <3> HIDE DEF T
    <3> QED
      BY <1>3, <1>4, NatSet
  <2> HIDE DEF Kept
  <2>2. Len(s) \in T /\ Len(s) <= Len(s)
    <3> HIDE DEF T
    <3> QED
      BY <1>1, <2>1
  <2> QED
    BY <2>2
<1>6. ToSet(Without(s, c)) = ToSet(s) \ {c}
  <2> DEFINE w == Without(s, c)
  <2>1. Kept(w, Len(s)) /\ DOMAIN w = 1 .. Len(w)
    BY <1>2, <1>5, LenProperties
  <2> HIDE DEF w
  <2>2. ASSUME NEW x \in ToSet(w)
        PROVE  x \in ToSet(s) \ {c}
    <3>1. PICK j \in 1 .. Len(w) : x = w[j]
      BY <2>1 DEF ToSet
    <3>2. PICK i \in 1 .. Len(s) : w[j] = s[i] /\ s[i] # c
      BY <2>1
    <3> QED
      BY <1>1, <3>1, <3>2 DEF ToSet
  <2>3. ASSUME NEW x \in ToSet(s), x # c
        PROVE  x \in ToSet(w)
    <3>1. PICK i \in 1 .. Len(s) : x = s[i]
      BY <1>1 DEF ToSet
    <3>2. PICK j \in 1 .. Len(w) : w[j] = s[i]
      BY <2>1, <2>3, <3>1
    <3> QED
      BY <2>1, <3>1, <3>2 DEF ToSet
  <2> QED
    BY <2>2, <2>3 DEF w
<1> QED
  BY <1>2, <1>5, <1>6

\* What Append, Tail, Head and Last do to the set of elements.
LEMMA AppendFacts ==
  ASSUME NEW S, NEW s \in Seq(S), NEW x \in S
  PROVE  /\ Append(s, x) \in Seq(S) /\ Append(s, x) # <<>>
         /\ ToSet(Append(s, x)) = ToSet(s) \cup {x}
         /\ Distinct(s) /\ x \notin ToSet(s) => Distinct(Append(s, x))
<1> DEFINE r == Append(s, x)
<1>1. /\ r \in Seq(S) /\ Len(s) \in Nat /\ Len(r) = Len(s) + 1
      /\ \A j \in 1 .. Len(s) : r[j] = s[j]
      /\ r[Len(s) + 1] = x
  BY AppendProperties, LenProperties
<1>2. DOMAIN s = 1 .. Len(s) /\ DOMAIN r = 1 .. Len(r)
  BY <1>1, LenProperties
<1> HIDE DEF r
<1>3. r # <<>>
  BY <1>1
<1>4. ToSet(r) = ToSet(s) \cup {x}
  <2>1. \A j \in 1 .. Len(r) : j \in 1 .. Len(s) \/ j = Len(s) + 1
    BY <1>1
  <2>2. \A j \in 1 .. Len(s) : j \in 1 .. Len(r)
    BY <1>1
  <2>3. Len(s) + 1 \in 1 .. Len(r)
    BY <1>1
  <2> QED
    BY <1>1, <1>2, <2>1, <2>2, <2>3 DEF ToSet
<1>5. ASSUME Distinct(s), x \notin ToSet(s)
      PROVE  Distinct(r)
  <2>1. \A j \in 1 .. Len(s) : s[j] # x
    BY <1>2, <1>5 DEF ToSet
  <2> QED
    BY <1>1, <1>5, <2>1 DEF Distinct
<1> QED
  BY <1>1, <1>3, <1>4, <1>5 DEF r

\* What is at the front of a queue, and what is left of it.
LEMMA HeadFacts ==
  ASSUME NEW S, NEW s \in Seq(S), s # <<>>
  PROVE  /\ Len(s) \in Nat \ {0}
         /\ Head(s) = s[1] /\ Head(s) \in S /\ Head(s) \in ToSet(s)
         /\ Tail(s) \in Seq(S) /\ Len(Tail(s)) = Len(s) - 1
         /\ \A i \in 1 .. Len(s) - 1 : Tail(s)[i] = s[i + 1]
         /\ ToSet(s) = {Head(s)} \cup ToSet(Tail(s))
         /\ Last(s) \in ToSet(s)
<1>1. Len(s) \in Nat \ {0} /\ DOMAIN s = 1 .. Len(s)
  BY EmptySeq, LenProperties
<1>2. 1 \in 1 .. Len(s) /\ Len(s) \in 1 .. Len(s) /\ Head(s) = s[1]
  BY <1>1
<1>3. /\ Head(s) \in S /\ Tail(s) \in Seq(S) /\ Len(Tail(s)) = Len(s) - 1
      /\ \A i \in 1 .. Len(s) - 1 : Tail(s)[i] = s[i + 1]
  BY HeadTailProperties
<1>4. Head(s) \in ToSet(s) /\ Last(s) \in ToSet(s)
  BY <1>1, <1>2 DEF ToSet, Last
<1>5. DOMAIN Tail(s) = 1 .. Len(s) - 1
  BY <1>3, LenProperties
<1>6. ToSet(s) = {Head(s)} \cup ToSet(Tail(s))
  <2>1. \A i \in 1 .. Len(s) : i = 1 \/ (i - 1 \in 1 .. Len(s) - 1 /\ Tail(s)[i - 1] = s[i])
    BY <1>1, <1>3
  <2>2. ASSUME NEW x \in ToSet(s)
        PROVE  x = Head(s) \/ x \in ToSet(Tail(s))
    <3>1. PICK i \in 1 .. Len(s) : x = s[i]
      BY <1>1 DEF ToSet
    <3> QED
      BY <1>2, <1>5, <2>1, <3>1 DEF ToSet
  <2>3. ASSUME NEW x \in ToSet(Tail(s))
        PROVE  x \in ToSet(s)
    <3>1. PICK i \in 1 .. Len(s) - 1 : x = s[i + 1]
      BY <1>3, <1>5 DEF ToSet
    <3>2. i + 1 \in 1 .. Len(s)
      BY <1>1
    <3> QED
      BY <1>1, <3>1, <3>2 DEF ToSet
  <2> QED
    BY <1>4, <2>2, <2>3
<1> QED
  BY <1>1, <1>2, <1>3, <1>4, <1>6

\* The elements of a list are values of its type; only the empty list has none.
LEMMA ToSetFacts ==
  ASSUME NEW S, NEW s \in Seq(S)
  PROVE  /\ ToSet(s) \subseteq S
         /\ ToSet(s) = {} <=> s = <<>>
<1>1. Len(s) \in Nat /\ DOMAIN s = 1 .. Len(s) /\ \A i \in 1 .. Len(s) : s[i] \in S
  BY ElementOfSeq, LenProperties
<1>2. s # <<>> => ToSet(s) # {}
  BY HeadFacts
<1>3. s = <<>> => ToSet(s) = {}
  BY DEF ToSet
<1> QED
  BY <1>1, <1>2, <1>3 DEF ToSet

\* The first elements of a list are elements of it.
LEMMA FirstOf ==
  ASSUME NEW S, NEW s \in Seq(S), NEW n \in 0 .. Len(s)
  PROVE  SubSeq(s, 1, n) \in Seq(S) /\ ToSet(SubSeq(s, 1, n)) \subseteq ToSet(s)
<1> DEFINE q == SubSeq(s, 1, n)
<1>1. Len(s) \in Nat /\ DOMAIN s = 1 .. Len(s) /\ \A i \in 1 .. Len(s) : s[i] \in S
  BY ElementOfSeq, LenProperties
<1>2. n \in Int /\ 1 \in Int /\ \A i \in 1 .. n : i \in 1 .. Len(s)
  BY <1>1
<1>3. /\ q \in Seq(S)
      /\ Len(q) = IF 1 <= n THEN n - 1 + 1 ELSE 0
      /\ \A i \in 1 .. n - 1 + 1 : q[i] = s[1 + i - 1]
  BY <1>1, <1>2, SubSeqProperties
<1>4. Len(q) = n /\ \A i \in 1 .. n : q[i] = s[i]
  <2>1. n \in Nat /\ n - 1 + 1 = n /\ \A i \in 1 .. n : 1 + i - 1 = i
    BY <1>1
  <2> HIDE DEF q
  <2> QED
    BY <1>3, <2>1
<1>5. DOMAIN q = 1 .. n
  <2> HIDE DEF q
  <2> QED
    BY <1>3, <1>4, LenProperties
<1> HIDE DEF q
<1>6. ToSet(q) \subseteq ToSet(s)
  BY <1>1, <1>2, <1>4, <1>5 DEF ToSet
<1> QED
  BY <1>3, <1>6 DEF q

-----------------------------------------------------------------------------
\* The registry: who is in the two maps.

AgentListed(a) == pc[a] \in {"registered", "announced", "open"}
BridgeListed(b) == pc[b] \in {"registered", "found", "open"}

RegistryTypes ==
  /\ agents \in [Tokens -> Seq(Agents)]
  /\ bridges \in [Tokens -> Seq(Bridges)]
  /\ pc \in [Conns -> {"new", "registered", "announced", "found", "open", "removed", "closed"}]
  /\ alive \in [Conns -> BOOLEAN]
  /\ agent_name \in [Agents -> Names \cup {None}]

Members ==
  \A t \in Tokens :
    /\ Registered(t) = {a \in Agents : TokenOf[a] = t /\ AgentListed(a)}
    /\ ToSet(bridges[t]) = {b \in Bridges : TokenOf[b] = t /\ BridgeListed(b)}

OnceEach == \A t \in Tokens : Distinct(agents[t]) /\ Distinct(bridges[t])

\* An id with a random suffix is the agent's own.
OwnSuffix ==
  \A a, c \in Agents : AgentListed(a) => \A h, s : agent_name[a] = <<h, s, c>> => c = a

RegistryInv ==
  /\ RegistryTypes
  /\ Members
  /\ OnceEach
  /\ UniqueIds
  /\ OwnSuffix

\* In the initial states nobody is listed.
LEMMA RegistryInit ==
  ASSUME HubAssumption, Init
  PROVE  RegistryInv
<1> USE DEF Init
<1>1. RegistryTypes
  <2>1. \A S : <<>> \in Seq(S)
    BY EmptySeq
  <2>2. agents \in [Tokens -> Seq(Agents)] /\ bridges \in [Tokens -> Seq(Bridges)]
    BY <2>1
  <2> QED
    BY <2>2 DEF RegistryTypes
<1>2. \A c \in Conns : pc[c] \in {"new", "closed"}
  OBVIOUS
<1>3. /\ \A a \in Agents : ~AgentListed(a)
      /\ \A b \in Bridges : ~BridgeListed(b)
  BY <1>2 DEF AgentListed, BridgeListed, Conns
<1>4. \A t \in Tokens : ToSet(agents[t]) = {} /\ ToSet(bridges[t]) = {}
  BY DEF ToSet
<1>5. Members
  BY <1>3, <1>4 DEF Members, Registered
<1>6. OnceEach
  BY DEF OnceEach, Distinct
<1>7. UniqueIds
  BY <1>4 DEF UniqueIds, AllAgents, Registered
<1> QED
  BY <1>1, <1>3, <1>5, <1>6, <1>7 DEF RegistryInv, OwnSuffix

\* A step keeps the registry's invariant when it changes neither a list, nor
\* an id, nor who should be listed.
LEMMA SameRegistry ==
  ASSUME RegistryInv,
         UNCHANGED <<agents, bridges, agent_name>>,
         pc' \in [Conns -> {"new", "registered", "announced", "found", "open", "removed", "closed"}],
         alive' \in [Conns -> BOOLEAN],
         \A a \in Agents : AgentListed(a)' <=> AgentListed(a),
         \A b \in Bridges : BridgeListed(b)' <=> BridgeListed(b)
  PROVE  RegistryInv'
<1> USE DEF RegistryInv
<1>1. RegistryTypes'
  BY DEF RegistryTypes
<1>2. Members'
  BY DEF Members, Registered
<1>3. OnceEach'
  BY DEF OnceEach
<1>4. UniqueIds'
  BY DEF UniqueIds, AllAgents, Registered
<1>5. OwnSuffix'
  BY DEF OwnSuffix
<1> QED
  BY <1>1, <1>2, <1>3, <1>4, <1>5

\* The steps of the tasks that only move on, or touch no registry at all.
LEMMA RegistryKept ==
  ASSUME HubAssumption, RegistryInv,
         \/ UNCHANGED <<agents, bridges, pc, alive, agent_name>>
         \/ \E c \in Conns : Reject(c) \/ Drop(c)
         \/ \E a \in Agents : AnnounceAgent(a) \/ AckAgent(a) \/ notify_bridges_agent_gone(a)
         \/ \E b \in Bridges : LookUpAgent(b) \/ AckBridge(b)
  PROVE  RegistryInv'
<1> USE DEF HubAssumption, Conns, AgentListed, BridgeListed
<1>1. /\ pc \in [Conns -> {"new", "registered", "announced", "found", "open", "removed", "closed"}]
      /\ alive \in [Conns -> BOOLEAN]
  BY DEF RegistryInv, RegistryTypes
<1>2. CASE UNCHANGED <<agents, bridges, pc, alive, agent_name>>
  BY <1>1, <1>2, SameRegistry
<1>3. ASSUME NEW c \in Conns, Reject(c)
      PROVE  RegistryInv'
  <2>1. /\ UNCHANGED <<agents, bridges, agent_name, alive>>
        /\ pc[c] = "new" /\ pc' = [pc EXCEPT ![c] = "closed"]
    BY <1>3 DEF Reject, Goto
  <2> QED
    BY <1>1, <2>1, SameRegistry
<1>4. ASSUME NEW c \in Conns, Drop(c)
      PROVE  RegistryInv'
  <2>1. /\ UNCHANGED <<agents, bridges, agent_name, pc>>
        /\ alive' = [alive EXCEPT ![c] = FALSE]
    BY <1>4 DEF Drop
  <2>2. alive' \in [Conns -> BOOLEAN]
    BY <1>1, <2>1
  <2> QED
    BY <1>1, <2>1, <2>2, SameRegistry
<1>5. ASSUME NEW a \in Agents, AnnounceAgent(a) \/ AckAgent(a)
      PROVE  RegistryInv'
  <2>1. /\ UNCHANGED <<agents, bridges, agent_name, alive>>
        /\ AgentListed(a)
        /\ \/ pc' = [pc EXCEPT ![a] = "announced"]
           \/ pc' = [pc EXCEPT ![a] = "open"]
    BY <1>5 DEF AnnounceAgent, AckAgent, Goto
  <2> QED
    BY <1>1, <2>1, SameRegistry
<1>6. ASSUME NEW a \in Agents, notify_bridges_agent_gone(a)
      PROVE  RegistryInv'
  <2>1. /\ UNCHANGED <<agents, bridges, agent_name, alive>>
        /\ pc[a] = "removed" /\ pc' = [pc EXCEPT ![a] = "closed"]
    BY <1>6 DEF notify_bridges_agent_gone, Goto
  <2> QED
    BY <1>1, <2>1, SameRegistry
<1>7. ASSUME NEW b \in Bridges, LookUpAgent(b) \/ AckBridge(b)
      PROVE  RegistryInv'
  <2>1. /\ UNCHANGED <<agents, bridges, agent_name, alive>>
        /\ BridgeListed(b)
        /\ \/ pc' = [pc EXCEPT ![b] = "found"]
           \/ pc' = [pc EXCEPT ![b] = "open"]
    BY <1>7 DEF LookUpAgent, AckBridge, Goto
  <2> QED
    BY <1>1, <2>1, SameRegistry
<1> QED
  BY <1>2, <1>3, <1>4, <1>5, <1>6, <1>7

\* The id an agent gets is no listed agent's.
LEMMA FreshId ==
  ASSUME HubAssumption, RegistryInv, NEW a \in Agents, ~AgentListed(a), NEW now \in Seconds
  PROVE  /\ ~NameTaken(AssignedId(a, now))
         /\ AssignedId(a, now) \in Names
         /\ \A c \in Agents : \A h, s : AssignedId(a, now) = <<h, s, c>> => c = a
<1> DEFINE id == AssignedId(a, now)
<1>1. ~NameTaken(<<HelloId[a], now, a>>)
  <2> SUFFICES ASSUME NEW c \in AllAgents, agent_name[c] = <<HelloId[a], now, a>>
               PROVE  FALSE
    BY DEF NameTaken
  <2>1. c \in Agents /\ AgentListed(c)
    BY DEF AllAgents, RegistryInv, Members
  <2>2. a = c
    BY <2>1 DEF RegistryInv, OwnSuffix
  <2> QED
    BY <2>1, <2>2
<1>2. ~NameTaken(id)
  BY <1>1 DEF AssignedId
<1>3. id \in Names
  BY DEF AssignedId, Names
<1>4. ASSUME NEW c \in Agents, NEW h, NEW s, id = <<h, s, c>>
      PROVE  c = a
  <2>1. id = <<HelloId[a]>> \/ id = <<HelloId[a], now>> \/ id = <<HelloId[a], now, a>>
    BY DEF AssignedId
  <2> HIDE DEF id
  <2> QED
    BY <1>4, <2>1
<1> QED
  BY <1>2, <1>3, <1>4

\* An agent registers: its id is one that no agent of the token has.
LEMMA RegisterAgentRegistry ==
  ASSUME HubAssumption, RegistryInv, NEW a \in Agents, NEW now \in Seconds, register_agent(a, now)
  PROVE  RegistryInv'
<1> DEFINE T == TokenOf[a]
           id == AssignedId(a, now)
<1>1. /\ pc[a] = "new" /\ pc' = [pc EXCEPT ![a] = "registered"]
      /\ agents' = [agents EXCEPT ![T] = Append(@, a)]
      /\ agent_name' = [agent_name EXCEPT ![a] = id]
      /\ UNCHANGED <<bridges, alive>>
  BY DEF register_agent, Admitted, Goto
<1>2. RegistryTypes /\ Members /\ OnceEach /\ UniqueIds /\ OwnSuffix
  BY DEF RegistryInv
<1>3. a \in Conns /\ T \in Tokens /\ ~AgentListed(a) /\ a \notin Bridges
  BY <1>1 DEF HubAssumption, Conns, AgentListed
<1>4. /\ ~NameTaken(id) /\ id \in Names
      /\ \A c \in Agents : \A h, s : id = <<h, s, c>> => c = a
  BY <1>3, FreshId
<1> HIDE DEF T, id
<1>5. /\ \A c \in Agents : AgentListed(c)' <=> AgentListed(c) \/ c = a
      /\ \A b \in Bridges : BridgeListed(b)' <=> BridgeListed(b)
  BY <1>1, <1>2, <1>3 DEF RegistryTypes, AgentListed, BridgeListed, Conns
<1>6. /\ agents[T] \in Seq(Agents) /\ a \notin ToSet(agents[T]) /\ Distinct(agents[T])
      /\ agents'[T] = Append(agents[T], a)
      /\ \A t \in Tokens : t # T => agents'[t] = agents[t]
  BY <1>1, <1>2, <1>3 DEF RegistryTypes, Members, Registered, OnceEach
<1>7. agents'[T] \in Seq(Agents) /\ ToSet(agents'[T]) = ToSet(agents[T]) \cup {a} /\ Distinct(agents'[T])
  BY <1>6, AppendFacts
<1>8. RegistryTypes'
  <2>1. agents' \in [Tokens -> Seq(Agents)]
    BY <1>1, <1>2, <1>6, <1>7 DEF RegistryTypes
  <2> QED
    BY <1>1, <1>2, <1>4, <2>1 DEF RegistryTypes
<1>9. Members'
  <2> SUFFICES ASSUME NEW t \in Tokens
               PROVE  /\ ToSet(agents'[t]) = {c \in Agents : TokenOf[c] = t /\ AgentListed(c)'}
                      /\ ToSet(bridges'[t]) = {b \in Bridges : TokenOf[b] = t /\ BridgeListed(b)'}
    BY DEF Members, Registered
  <2>1. /\ ToSet(agents[t]) = {c \in Agents : TokenOf[c] = t /\ AgentListed(c)}
        /\ ToSet(bridges[t]) = {b \in Bridges : TokenOf[b] = t /\ BridgeListed(b)}
    BY <1>2 DEF Members, Registered
  <2>2. CASE t = T
    BY <1>1, <1>5, <1>7, <2>1, <2>2 DEF T
  <2>3. CASE t # T
    BY <1>1, <1>5, <1>6, <2>1, <2>3 DEF T
  <2> QED
    BY <2>2, <2>3
<1>10. OnceEach'
  <2> SUFFICES ASSUME NEW t \in Tokens
               PROVE  Distinct(agents'[t]) /\ Distinct(bridges'[t])
    BY DEF OnceEach, Distinct
  <2>1. Distinct(agents[t]) /\ Distinct(bridges[t]) /\ bridges' = bridges
    BY <1>1, <1>2 DEF OnceEach
  <2>2. CASE t = T
    BY <1>7, <2>1, <2>2
  <2>3. CASE t # T
    BY <1>6, <2>1, <2>3
  <2> QED
    BY <2>2, <2>3
<1>11. \A c \in AllAgents' : c = a \/ (c # a /\ c \in AllAgents)
  <2>1. ASSUME NEW t \in Tokens, NEW c \in ToSet(agents'[t]), c # a
        PROVE  c \in ToSet(agents[t])
    <3>1. CASE t = T
      BY <1>7, <2>1, <3>1
    <3>2. CASE t # T
      BY <1>6, <2>1, <3>2
    <3> QED
      BY <3>1, <3>2
  <2>2. ASSUME NEW c \in AllAgents', c # a
        PROVE  c \in AllAgents
    <3>1. PICK t \in Tokens : c \in ToSet(agents'[t])
      BY <2>2 DEF AllAgents, Registered
    <3>2. c \in ToSet(agents[t])
      BY <2>1, <2>2, <3>1
    <3> QED
      BY <3>2 DEF AllAgents, Registered
  <2> QED
    BY <2>2
<1>12. AllAgents \subseteq Agents
  BY <1>2 DEF AllAgents, Members
<1>13. /\ agent_name'[a] = id
       /\ \A c \in Agents : c # a => agent_name'[c] = agent_name[c]
  BY <1>1, <1>2 DEF RegistryTypes
<1>14. UniqueIds'
  <2> SUFFICES ASSUME NEW c \in AllAgents', NEW d \in AllAgents', agent_name'[c] = agent_name'[d]
               PROVE  c = d
    BY DEF UniqueIds
  <2>1. \A x \in AllAgents : agent_name[x] # id
    BY <1>4 DEF NameTaken
  <2> QED
    BY <1>2, <1>11, <1>12, <1>13, <2>1 DEF UniqueIds
<1>15. OwnSuffix'
  BY <1>2, <1>4, <1>5, <1>13 DEF OwnSuffix
<1> QED
  BY <1>8, <1>9, <1>10, <1>14, <1>15 DEF RegistryInv

\* A bridge registers: it was on no list before.
LEMMA RegisterBridgeRegistry ==
  ASSUME HubAssumption, RegistryInv, NEW b \in Bridges, register_bridge(b)
  PROVE  RegistryInv'
<1> DEFINE T == TokenOf[b]
<1>1. /\ pc[b] = "new" /\ pc' = [pc EXCEPT ![b] = "registered"]
      /\ bridges' = [bridges EXCEPT ![T] = Append(@, b)]
      /\ UNCHANGED <<agents, alive, agent_name>>
  BY DEF register_bridge, Admitted, Goto
<1>2. RegistryTypes /\ Members /\ OnceEach /\ UniqueIds /\ OwnSuffix
  BY DEF RegistryInv
<1>3. b \in Conns /\ T \in Tokens /\ ~BridgeListed(b) /\ b \notin Agents
  BY <1>1 DEF HubAssumption, Conns, BridgeListed
<1> HIDE DEF T
<1>5. /\ \A c \in Bridges : BridgeListed(c)' <=> BridgeListed(c) \/ c = b
      /\ \A a \in Agents : AgentListed(a)' <=> AgentListed(a)
  BY <1>1, <1>2, <1>3 DEF RegistryTypes, AgentListed, BridgeListed, Conns
<1>6. /\ bridges[T] \in Seq(Bridges) /\ b \notin ToSet(bridges[T]) /\ Distinct(bridges[T])
      /\ bridges'[T] = Append(bridges[T], b)
      /\ \A t \in Tokens : t # T => bridges'[t] = bridges[t]
  BY <1>1, <1>2, <1>3 DEF RegistryTypes, Members, Registered, OnceEach
<1>7. bridges'[T] \in Seq(Bridges) /\ ToSet(bridges'[T]) = ToSet(bridges[T]) \cup {b} /\ Distinct(bridges'[T])
  BY <1>6, AppendFacts
<1>8. RegistryTypes'
  <2>1. bridges' \in [Tokens -> Seq(Bridges)]
    BY <1>1, <1>2, <1>6, <1>7 DEF RegistryTypes
  <2> QED
    BY <1>1, <1>2, <2>1 DEF RegistryTypes
<1>9. Members'
  <2> SUFFICES ASSUME NEW t \in Tokens
               PROVE  /\ ToSet(agents'[t]) = {c \in Agents : TokenOf[c] = t /\ AgentListed(c)'}
                      /\ ToSet(bridges'[t]) = {c \in Bridges : TokenOf[c] = t /\ BridgeListed(c)'}
    BY DEF Members, Registered
  <2>1. /\ ToSet(agents[t]) = {c \in Agents : TokenOf[c] = t /\ AgentListed(c)}
        /\ ToSet(bridges[t]) = {c \in Bridges : TokenOf[c] = t /\ BridgeListed(c)}
    BY <1>2 DEF Members, Registered
  <2>2. CASE t = T
    BY <1>1, <1>5, <1>7, <2>1, <2>2 DEF T
  <2>3. CASE t # T
    BY <1>1, <1>5, <1>6, <2>1, <2>3 DEF T
  <2> QED
    BY <2>2, <2>3
<1>10. OnceEach'
  <2> SUFFICES ASSUME NEW t \in Tokens
               PROVE  Distinct(agents'[t]) /\ Distinct(bridges'[t])
    BY DEF OnceEach, Distinct
  <2> QED
    BY <1>1, <1>2, <1>6, <1>7 DEF OnceEach
<1>11. UniqueIds' /\ OwnSuffix'
  BY <1>1, <1>2, <1>5 DEF UniqueIds, AllAgents, Registered, OwnSuffix
<1> QED
  BY <1>8, <1>9, <1>10, <1>11 DEF RegistryInv

\* The task of an agent's connection takes that agent, and no other, off its list.
LEMMA CleanupAgentRegistry ==
  ASSUME HubAssumption, RegistryInv, NEW a \in Agents, CleanupAgent(a)
  PROVE  RegistryInv'
<1> DEFINE T == TokenOf[a]
<1>1. /\ pc[a] = "open" /\ pc' = [pc EXCEPT ![a] = "removed"]
      /\ agents' = [agents EXCEPT ![T] = Without(@, a)]
      /\ UNCHANGED <<bridges, alive, agent_name>>
  BY DEF CleanupAgent, Goto
<1>2. RegistryTypes /\ Members /\ OnceEach /\ UniqueIds /\ OwnSuffix
  BY DEF RegistryInv
<1>3. a \in Conns /\ T \in Tokens /\ a \notin Bridges
  BY DEF HubAssumption, Conns
<1> HIDE DEF T
<1>5. /\ \A c \in Agents : AgentListed(c)' <=> AgentListed(c) /\ c # a
      /\ \A b \in Bridges : BridgeListed(b)' <=> BridgeListed(b)
  BY <1>1, <1>2, <1>3 DEF RegistryTypes, AgentListed, BridgeListed, Conns
<1>6. /\ agents[T] \in Seq(Agents) /\ Distinct(agents[T])
      /\ agents'[T] = Without(agents[T], a)
      /\ \A t \in Tokens : t # T => agents'[t] = agents[t]
  BY <1>1, <1>2, <1>3 DEF RegistryTypes, OnceEach
<1>7. agents'[T] \in Seq(Agents) /\ ToSet(agents'[T]) = ToSet(agents[T]) \ {a} /\ Distinct(agents'[T])
  BY <1>6, WithoutFacts
<1>8. RegistryTypes'
  <2>1. agents' \in [Tokens -> Seq(Agents)]
    BY <1>1, <1>2, <1>6, <1>7 DEF RegistryTypes
  <2> QED
    BY <1>1, <1>2, <2>1 DEF RegistryTypes
<1>9. Members'
  <2> SUFFICES ASSUME NEW t \in Tokens
               PROVE  /\ ToSet(agents'[t]) = {c \in Agents : TokenOf[c] = t /\ AgentListed(c)'}
                      /\ ToSet(bridges'[t]) = {b \in Bridges : TokenOf[b] = t /\ BridgeListed(b)'}
    BY DEF Members, Registered
  <2>1. /\ ToSet(agents[t]) = {c \in Agents : TokenOf[c] = t /\ AgentListed(c)}
        /\ ToSet(bridges[t]) = {b \in Bridges : TokenOf[b] = t /\ BridgeListed(b)}
    BY <1>2 DEF Members, Registered
  <2>2. CASE t = T
    BY <1>1, <1>5, <1>7, <2>1, <2>2 DEF T
  <2>3. CASE t # T
    BY <1>1, <1>5, <1>6, <2>1, <2>3 DEF T
  <2> QED
    BY <2>2, <2>3
<1>10. OnceEach'
  <2> SUFFICES ASSUME NEW t \in Tokens
               PROVE  Distinct(agents'[t]) /\ Distinct(bridges'[t])
    BY DEF OnceEach, Distinct
  <2> QED
    BY <1>1, <1>2, <1>6, <1>7 DEF OnceEach
<1>11. AllAgents' \subseteq AllAgents
  <2> SUFFICES ASSUME NEW t \in Tokens, NEW c \in ToSet(agents'[t])
               PROVE  c \in ToSet(agents[t])
    BY DEF AllAgents, Registered
  <2> QED
    BY <1>6, <1>7
<1>12. UniqueIds' /\ OwnSuffix'
  BY <1>1, <1>2, <1>5, <1>11 DEF UniqueIds, OwnSuffix
<1> QED
  BY <1>8, <1>9, <1>10, <1>12 DEF RegistryInv

\* The task of a bridge's connection takes that bridge, and no other, off its list.
LEMMA CleanupBridgeRegistry ==
  ASSUME HubAssumption, RegistryInv, NEW b \in Bridges, CleanupBridge(b)
  PROVE  RegistryInv'
<1> DEFINE T == TokenOf[b]
<1>1. /\ pc[b] = "open" /\ pc' = [pc EXCEPT ![b] = "closed"]
      /\ bridges' = [bridges EXCEPT ![T] = Without(@, b)]
      /\ UNCHANGED <<agents, alive, agent_name>>
  BY DEF CleanupBridge, Goto
<1>2. RegistryTypes /\ Members /\ OnceEach /\ UniqueIds /\ OwnSuffix
  BY DEF RegistryInv
<1>3. b \in Conns /\ T \in Tokens /\ b \notin Agents
  BY DEF HubAssumption, Conns
<1> HIDE DEF T
<1>5. /\ \A c \in Bridges : BridgeListed(c)' <=> BridgeListed(c) /\ c # b
      /\ \A a \in Agents : AgentListed(a)' <=> AgentListed(a)
  BY <1>1, <1>2, <1>3 DEF RegistryTypes, AgentListed, BridgeListed, Conns
<1>6. /\ bridges[T] \in Seq(Bridges) /\ Distinct(bridges[T])
      /\ bridges'[T] = Without(bridges[T], b)
      /\ \A t \in Tokens : t # T => bridges'[t] = bridges[t]
  BY <1>1, <1>2, <1>3 DEF RegistryTypes, OnceEach
<1>7. bridges'[T] \in Seq(Bridges) /\ ToSet(bridges'[T]) = ToSet(bridges[T]) \ {b} /\ Distinct(bridges'[T])
  BY <1>6, WithoutFacts
<1>8. RegistryTypes'
  <2>1. bridges' \in [Tokens -> Seq(Bridges)]
    BY <1>1, <1>2, <1>6, <1>7 DEF RegistryTypes
  <2> QED
    BY <1>1, <1>2, <2>1 DEF RegistryTypes
<1>9. Members'
  <2> SUFFICES ASSUME NEW t \in Tokens
               PROVE  /\ ToSet(agents'[t]) = {c \in Agents : TokenOf[c] = t /\ AgentListed(c)'}
                      /\ ToSet(bridges'[t]) = {c \in Bridges : TokenOf[c] = t /\ BridgeListed(c)'}
    BY DEF Members, Registered
  <2>1. /\ ToSet(agents[t]) = {c \in Agents : TokenOf[c] = t /\ AgentListed(c)}
        /\ ToSet(bridges[t]) = {c \in Bridges : TokenOf[c] = t /\ BridgeListed(c)}
    BY <1>2 DEF Members, Registered
  <2>2. CASE t = T
    BY <1>1, <1>5, <1>7, <2>1, <2>2 DEF T
  <2>3. CASE t # T
    BY <1>1, <1>5, <1>6, <2>1, <2>3 DEF T
  <2> QED
    BY <2>2, <2>3
<1>10. OnceEach'
  <2> SUFFICES ASSUME NEW t \in Tokens
               PROVE  Distinct(agents'[t]) /\ Distinct(bridges'[t])
    BY DEF OnceEach, Distinct
  <2> QED
    BY <1>1, <1>2, <1>6, <1>7 DEF OnceEach
<1>11. UniqueIds' /\ OwnSuffix'
  BY <1>1, <1>2, <1>5 DEF UniqueIds, AllAgents, Registered, OwnSuffix
<1> QED
  BY <1>8, <1>9, <1>10, <1>11 DEF RegistryInv

\* Every step of the relay and its peers keeps the registry's invariant.
LEMMA RegistryStep ==
  ASSUME HubAssumption, RegistryInv, [Next]_vars
  PROVE  RegistryInv'
<1>1. CASE UNCHANGED vars
  BY <1>1, RegistryKept DEF vars, hub
<1>2. ASSUME NEW c \in Conns, Reject(c) \/ Drop(c)
      PROVE  RegistryInv'
  BY <1>2, RegistryKept
<1>3. ASSUME NEW a \in Agents, AgentTask(a)
      PROVE  RegistryInv'
  <2>1. CASE AnnounceAgent(a) \/ AckAgent(a) \/ notify_bridges_agent_gone(a)
    BY <2>1, RegistryKept
  <2>2. CASE Deliver(a)
    BY <2>2, RegistryKept DEF Deliver
  <2>3. CASE \E r \in work[a] : ForwardResponse(a, r)
    BY <2>3, RegistryKept DEF ForwardResponse
  <2>4. CASE CleanupAgent(a)
    BY <2>4, CleanupAgentRegistry
  <2> QED
    BY <1>3, <2>1, <2>2, <2>3, <2>4 DEF AgentTask
<1>4. ASSUME NEW a \in Agents, NEW now \in Seconds, register_agent(a, now)
      PROVE  RegistryInv'
  BY <1>4, RegisterAgentRegistry
<1>5. ASSUME NEW b \in Bridges, register_bridge(b) \/ BridgeTask(b) \/ BridgeReads(b)
      PROVE  RegistryInv'
  <2>1. CASE register_bridge(b)
    BY <2>1, RegisterBridgeRegistry
  <2>2. CASE LookUpAgent(b) \/ AckBridge(b)
    BY <2>2, RegistryKept
  <2>3. CASE Route(b)
    BY <2>3, RegistryKept DEF Route, hub
  <2>4. CASE CleanupBridge(b)
    BY <2>4, CleanupBridgeRegistry
  <2>5. CASE BridgeReads(b)
    BY <2>5, RegistryKept DEF BridgeReads, hub
  <2> QED
    BY <1>5, <2>1, <2>2, <2>3, <2>4, <2>5 DEF BridgeTask
<1>6. ASSUME NEW b \in Bridges, NEW kind \in RequestKinds, NEW hint \in Hints, BridgeSends(b, kind, hint)
      PROVE  RegistryInv'
  BY <1>6, RegistryKept DEF BridgeSends, hub
<1> QED
  BY <1>1, <1>2, <1>3, <1>4, <1>5, <1>6 DEF Next

\* The maps and the ids in them: what every state of the relay satisfies.
THEOREM RegistryInvariant == Spec => []RegistryInv
<1>1. Init => RegistryInv
  BY HubAssumption, RegistryInit
<1>2. RegistryInv /\ [Next]_vars => RegistryInv'
  BY HubAssumption, RegistryStep
<1> QED
  BY <1>1, <1>2, PTL DEF Spec

\* No two registered agents have the same id, whatever ids they ask for and
\* however many ask for the same (register_agent's suffixes).
THEOREM IdsUnique == Spec => []UniqueIds
<1>1. RegistryInv => UniqueIds
  BY DEF RegistryInv
<1> QED
  BY <1>1, RegistryInvariant, PTL

\* A list without duplicates is as long as its set of elements is large.
LEMMA DistinctLength ==
  ASSUME NEW S, NEW s \in Seq(S), Distinct(s)
  PROVE  Len(s) = Cardinality(ToSet(s))
<1>1. Len(s) \in Nat /\ DOMAIN s = 1 .. Len(s) /\ s = [i \in 1 .. Len(s) |-> s[i]]
  BY LenProperties, SeqDef
<1>2. s \in Bijection(1 .. Len(s), ToSet(s))
  <2>1. s \in [1 .. Len(s) -> ToSet(s)]
    BY <1>1 DEF ToSet
  <2>2. s \in Injection(1 .. Len(s), ToSet(s))
    BY <2>1 DEF Injection, Distinct, IsInjective
  <2>3. s \in Surjection(1 .. Len(s), ToSet(s))
    BY <1>1, <2>1 DEF Surjection, ToSet
  <2> QED
    BY <2>2, <2>3 DEF Bijection
<1>3. ExistsBijection(1 .. Len(s), ToSet(s))
  BY <1>2 DEF ExistsBijection
<1> QED
  BY <1>1, <1>3, FS_CountingElements

\* The maps hold exactly the peers between registration and cleanup, each once.
THEOREM RegistryIsExact == Spec => []RegistryExact
<1>1. RegistryInv => RegistryExact
  <2> SUFFICES ASSUME RegistryInv, NEW t \in Tokens
               PROVE  /\ Len(agents[t]) = Cardinality(Registered(t))
                      /\ Len(bridges[t]) = Cardinality(ToSet(bridges[t]))
    BY DEF RegistryExact, RegistryInv, Members, AgentListed, BridgeListed
  <2>1. /\ agents[t] \in Seq(Agents) /\ Distinct(agents[t])
        /\ bridges[t] \in Seq(Bridges) /\ Distinct(bridges[t])
    BY DEF RegistryInv, RegistryTypes, OnceEach
  <2> QED
    BY <2>1, DistinctLength DEF Registered
<1> QED
  BY <1>1, RegistryInvariant, PTL

-----------------------------------------------------------------------------
\* The frames: what is on its way to a bridge.

Requests == [id : Nat, from : Bridges, kind : RequestKinds, hint : Names \cup {None, LinkTarget}]
Frames ==
  [type : {"hello_ack", "agent_connected", "agent_disconnected"}, id : Names \cup {None}]
    \cup [type : {"response"}, id : Nat, of : Requests, what : {"targets", "offline", "failed", "result"}]

FrameTypes ==
  /\ out \in [Agents -> [frame : Frames \cup {None}, to : Seq(Bridges)]]
  /\ \A a \in Agents : out[a].to # <<>> => out[a].frame \in Frames
  /\ found \in [Bridges -> Names \cup {None}]
  /\ uplink \in [Bridges -> Seq(Requests)]
  /\ work \in [Agents -> SUBSET Requests]
  /\ inbox \in [Bridges -> Seq(Frames)]
  /\ agent_id \in [Bridges -> Names \cup {None, Unset}]
  /\ next_id \in [Clients -> 1 .. MaxRequests + 1]
  /\ waiting \in [Bridges -> SUBSET (1 .. MaxRequests)]

\* A bridge that is registered, or whose connection is lost; it stays so.
Joined(b) == BridgeListed(b) \/ ~alive[b]

\* Frames go to bridges of the agent's token that have joined.
Addressees ==
  \A a \in Agents : \A b \in ToSet(out[a].to) : TokenOf[b] = TokenOf[a] /\ Joined(b)

\* While agent_connected is broadcast, the agent waits for its ack; an agent
\* that is about to broadcast has nothing left to deliver.
Broadcasts ==
  \A a \in Agents :
    /\ pc[a] \in {"new", "registered", "removed"} => out[a].to = <<>>
    /\ out[a].to # <<>> /\ out[a].frame.type = "agent_connected" =>
         pc[a] = "announced" /\ out[a].frame.id = agent_name[a]
    /\ out[a].to # <<>> => out[a].frame.type # "hello_ack"

\* An ack says what was looked up for it, and is on its way only to an open
\* connection; to a lost one nothing is on its way.
Inboxes ==
  \A b \in Bridges :
    /\ pc[b] \in {"new", "registered"} => found[b] = None
    /\ inbox[b] # <<>> => BridgeListed(b) /\ alive[b]
    /\ \A i \in 1 .. Len(inbox[b]) :
         inbox[b][i].type = "hello_ack" => pc[b] = "open" /\ inbox[b][i].id = found[b]

Leaves(n) == [type |-> "agent_disconnected", id |-> n]

\* An agent that has registered and has not announced that it leaves.
Here(a) == AgentListed(a) \/ pc[a] = "removed"

\* An id that bridge b holds for the agent's is right, or none or the ack's, or
\* a notification that corrects it is to come: from a task that will
\* broadcast, in a broadcast, or in the stream after position k.
Corrected(b, n, k) ==
  \/ n \in {None, found[b]}
  \/ \E a \in Agents : TokenOf[a] = TokenOf[b] /\ agent_name[a] = n /\ Here(a)
  \/ \E a \in Agents : b \in ToSet(out[a].to) /\ out[a].frame = Leaves(n)
  \/ \E i \in 1 .. Len(inbox[b]) : i > k /\ inbox[b][i] = Leaves(n)

ViewsCorrected ==
  \A b \in Bridges :
    /\ \A k \in 1 .. Len(inbox[b]) :
         inbox[b][k].type = "agent_connected" => Corrected(b, inbox[b][k].id, k)
    /\ pc[b] = "open" /\ alive[b] =>
         \/ \E i \in 1 .. Len(inbox[b]) : inbox[b][i].type = "hello_ack"
         \/ Corrected(b, agent_id[b], 0)
    /\ pc[b] \in {"new", "registered", "found"} => agent_id[b] = Unset

FramesInv ==
  /\ FrameTypes
  /\ Addressees
  /\ Broadcasts
  /\ Inboxes
  /\ ViewsCorrected

\* What Broadcast does to out.
LEMMA BroadcastFacts ==
  ASSUME HubAssumption, RegistryInv, FrameTypes, NEW a \in Agents, NEW m \in Frames, Broadcast(a, m)
  PROVE  /\ out' \in [Agents -> [frame : Frames \cup {None}, to : Seq(Bridges)]]
         /\ \A c \in Agents : out'[c].to # <<>> => out'[c].frame \in Frames
         /\ out'[a].frame = m /\ out'[a].to = bridges[TokenOf[a]]
         /\ \A c \in Agents : c # a => out'[c] = out[c]
<1>1. bridges[TokenOf[a]] \in Seq(Bridges)
  BY DEF HubAssumption, Conns, RegistryInv, RegistryTypes
<1> DEFINE o == [frame |-> m, to |-> bridges[TokenOf[a]]]
<1>2. o \in [frame : Frames \cup {None}, to : Seq(Bridges)] /\ o.frame = m /\ o.to = bridges[TokenOf[a]]
  BY <1>1
<1>3. out' = [out EXCEPT ![a] = o]
  BY DEF Broadcast
<1> HIDE DEF o
<1>4. /\ out \in [Agents -> [frame : Frames \cup {None}, to : Seq(Bridges)]]
      /\ \A c \in Agents : out[c].to # <<>> => out[c].frame \in Frames
  BY DEF FrameTypes
<1>5. out'[a] = o /\ \A c \in Agents : c # a => out'[c] = out[c]
  BY <1>3, <1>4
<1> QED
  BY <1>2, <1>3, <1>4, <1>5

\* What SendTo does to the inboxes.
LEMMA SendFacts ==
  ASSUME FrameTypes, NEW b \in Bridges, NEW m \in Frames, SendTo(b, m)
  PROVE  /\ inbox' \in [Bridges -> Seq(Frames)]
         /\ \A c \in Bridges : c # b => inbox'[c] = inbox[c]
         /\ \A c \in Bridges : ~alive[c] => inbox'[c] = inbox[c]
         /\ Len(inbox[b]) \in Nat
         /\ alive[b] =>
              /\ Len(inbox'[b]) = Len(inbox[b]) + 1
              /\ inbox'[b][Len(inbox[b]) + 1] = m
              /\ \A i \in 1 .. Len(inbox[b]) : inbox'[b][i] = inbox[b][i]
<1> DEFINE q == inbox[b]
<1>1. inbox \in [Bridges -> Seq(Frames)] /\ q \in Seq(Frames)
  BY DEF FrameTypes
<1>2. inbox' = [inbox EXCEPT ![b] = IF alive[b] THEN Append(q, m) ELSE q]
  BY DEF SendTo
<1> HIDE DEF q
<1>3. /\ Len(q) \in Nat /\ Append(q, m) \in Seq(Frames) /\ Len(Append(q, m)) = Len(q) + 1
      /\ Append(q, m)[Len(q) + 1] = m
      /\ \A i \in 1 .. Len(q) : Append(q, m)[i] = q[i]
  BY <1>1, AppendProperties, LenProperties
<1>4. inbox'[b] = (IF alive[b] THEN Append(q, m) ELSE q) /\ \A c \in Bridges : c # b => inbox'[c] = inbox[c]
  BY <1>1, <1>2
<1>5. inbox' \in [Bridges -> Seq(Frames)]
  BY <1>1, <1>2, <1>3
<1> QED
  BY <1>3, <1>4, <1>5 DEF q

\* The frames a task sends are frames.
LEMMA FrameIs ==
  /\ \A id \in Names \cup {None} :
       /\ [type |-> "hello_ack", id |-> id] \in Frames
       /\ [type |-> "agent_connected", id |-> id] \in Frames
       /\ Leaves(id) \in Frames
  /\ \A r \in Requests, what \in {"targets", "offline", "failed", "result"} :
       [type |-> "response", id |-> r.id, of |-> r, what |-> what] \in Frames
BY DEF Frames, Requests, Leaves

\* What BridgeSends puts on the way is a request.
LEMMA RequestIs ==
  ASSUME HubAssumption, RegistryInv, FrameTypes, NEW b \in Bridges, NEW kind \in RequestKinds, NEW hint,
         BridgeSends(b, kind, hint)
  PROVE  [id |-> next_id[ClientOf[b]], from |-> b, kind |-> kind, hint |-> hint] \in Requests
<1>1. hint \in Names \cup {None, LinkTarget}
  <2>1. \A a \in Agents : agent_name[a] \in Names \cup {None}
    BY DEF RegistryInv, RegistryTypes
  <2>2. hint \in {agent_name[a] : a \in Agents} \cup {LinkTarget, None}
    BY DEF BridgeSends
  <2> QED
    BY <2>1, <2>2
<1>2. next_id[ClientOf[b]] \in Nat
  <2>1. ClientOf[b] \in Clients
    BY DEF Clients
  <2>2. next_id[ClientOf[b]] \in 1 .. MaxRequests + 1
    BY <2>1 DEF FrameTypes
  <2> QED
    BY <2>2
<1> QED
  BY <1>1, <1>2 DEF Requests

\* Every step keeps the types of what is on the way.
LEMMA FrameTypesStep ==
  ASSUME HubAssumption, RegistryInv, FrameTypes, [Next]_vars
  PROVE  FrameTypes'
<1>0. /\ out \in [Agents -> [frame : Frames \cup {None}, to : Seq(Bridges)]]
      /\ \A a \in Agents : out[a].to # <<>> => out[a].frame \in Frames
      /\ found \in [Bridges -> Names \cup {None}]
      /\ uplink \in [Bridges -> Seq(Requests)]
      /\ work \in [Agents -> SUBSET Requests]
      /\ inbox \in [Bridges -> Seq(Frames)]
      /\ agent_id \in [Bridges -> Names \cup {None, Unset}]
      /\ next_id \in [Clients -> 1 .. MaxRequests + 1]
      /\ waiting \in [Bridges -> SUBSET (1 .. MaxRequests)]
      /\ \A a \in Agents : agent_name[a] \in Names \cup {None}
  BY DEF FrameTypes, RegistryInv, RegistryTypes
<1>1. CASE UNCHANGED <<out, found, frames, agent_id, next_id, waiting>>
  BY <1>0, <1>1 DEF FrameTypes, frames
<1>2. ASSUME NEW c \in Conns, Drop(c)
      PROVE  FrameTypes'
  <2>1. UNCHANGED <<out, found, agent_id, next_id>>
    BY <1>2 DEF Drop
  <2>2. CASE c \in Agents
    <3>1. work' = [work EXCEPT ![c] = {}] /\ UNCHANGED <<uplink, inbox, waiting>>
      BY <1>2, <2>2 DEF Drop
    <3> QED
      BY <1>0, <2>1, <3>1 DEF FrameTypes
  <2>3. CASE c \notin Agents
    <3>0. c \in Bridges /\ uplink[c] \in Seq(Requests)
      BY <1>0, <2>3 DEF Conns
    <3>1. PICK n \in 0 .. Len(uplink[c]) :
            /\ uplink' = [uplink EXCEPT ![c] = SubSeq(uplink[c], 1, n)]
            /\ inbox' = [inbox EXCEPT ![c] = <<>>]
            /\ waiting' = [waiting EXCEPT ![c] = {}] /\ UNCHANGED work
      BY <1>2, <2>3 DEF Drop
    <3>2. SubSeq(uplink[c], 1, n) \in Seq(Requests) /\ <<>> \in Seq(Frames)
      BY <3>0, EmptySeq, FirstOf
    <3> QED
      BY <1>0, <2>1, <3>1, <3>2 DEF FrameTypes
  <2> QED
    BY <2>2, <2>3
<1>3. ASSUME NEW a \in Agents, AnnounceAgent(a) \/ notify_bridges_agent_gone(a)
      PROVE  FrameTypes'
  <2>1. PICK m \in Frames : Broadcast(a, m)
    BY <1>0, <1>3, FrameIs DEF AnnounceAgent, notify_bridges_agent_gone, Leaves
  <2>2. UNCHANGED <<found, uplink, work, inbox, agent_id, next_id, waiting>>
    BY <1>3 DEF AnnounceAgent, notify_bridges_agent_gone, frames, ends
  <2> QED
    BY <1>0, <2>1, <2>2, BroadcastFacts DEF FrameTypes
<1>4. ASSUME NEW a \in Agents, Deliver(a)
      PROVE  FrameTypes'
  <2> DEFINE s == out[a].to
  <2>1. /\ s # <<>> /\ SendTo(Head(s), out[a].frame)
        /\ out' = [out EXCEPT ![a].to = Tail(s)]
        /\ UNCHANGED <<found, uplink, work, agent_id, next_id, waiting>>
    BY <1>4 DEF Deliver, ends
  <2>2. s \in Seq(Bridges) /\ out[a] \in [frame : Frames \cup {None}, to : Seq(Bridges)]
    BY <1>0
  <2>3. Head(s) \in Bridges /\ Tail(s) \in Seq(Bridges) /\ out[a].frame \in Frames
    BY <1>0, <2>1, <2>2, HeadFacts
  <2>4. inbox' \in [Bridges -> Seq(Frames)]
    BY <2>1, <2>3, SendFacts
  <2>5. /\ out'[a] = [out[a] EXCEPT !.to = Tail(s)]
        /\ \A c \in Agents : c # a => out'[c] = out[c]
    BY <1>0, <2>1
  <2>6. out'[a] \in [frame : Frames \cup {None}, to : Seq(Bridges)] /\ out'[a].frame = out[a].frame
    BY <2>2, <2>3, <2>5
  <2>7. out' \in [Agents -> [frame : Frames \cup {None}, to : Seq(Bridges)]]
    BY <1>0, <2>1, <2>6
  <2>8. \A c \in Agents : out'[c].to # <<>> => out'[c].frame \in Frames
    BY <1>0, <2>3, <2>5, <2>6
  <2> QED
    BY <1>0, <2>1, <2>4, <2>7, <2>8 DEF FrameTypes
<1>5. ASSUME NEW a \in Agents, NEW r \in work[a], ForwardResponse(a, r)
      PROVE  FrameTypes'
  <2>1. r \in Requests
    BY <1>0
  <2>2. PICK m \in Frames : Broadcast(a, m)
    BY <1>5, <2>1, FrameIs DEF ForwardResponse
  <2>3. /\ UNCHANGED <<found, uplink, inbox, agent_id, next_id, waiting>>
        /\ work' = [work EXCEPT ![a] = @ \ {r}]
    BY <1>5 DEF ForwardResponse, ends
  <2> QED
    BY <1>0, <2>2, <2>3, BroadcastFacts DEF FrameTypes
<1>6. ASSUME NEW b \in Bridges, LookUpAgent(b)
      PROVE  FrameTypes'
  <2> DEFINE list == agents[TokenOf[b]]
  <2>1. /\ found' = [found EXCEPT ![b] = IF list = <<>> THEN None ELSE agent_name[Last(list)]]
        /\ UNCHANGED <<out, uplink, work, inbox, agent_id, next_id, waiting>>
    BY <1>6 DEF LookUpAgent, frames, ends
  <2>2. list \in Seq(Agents)
    BY DEF HubAssumption, Conns, RegistryInv, RegistryTypes
  <2>3. list # <<>> => Last(list) \in Agents
    <3> HIDE DEF list
    <3>1. ToSet(list) \subseteq Agents
      BY <2>2, ToSetFacts
    <3> QED
      BY <2>2, <3>1, HeadFacts
  <2> HIDE DEF list
  <2> QED
    BY <1>0, <2>1, <2>3 DEF FrameTypes
<1>7. ASSUME NEW b \in Bridges, AckBridge(b)
      PROVE  FrameTypes'
  <2>1. PICK m \in Frames : SendTo(b, m)
    BY <1>0, <1>7, FrameIs DEF AckBridge
  <2>2. UNCHANGED <<out, found, uplink, work, agent_id, next_id, waiting>>
    BY <1>7 DEF AckBridge, ends
  <2> QED
    BY <1>0, <2>1, <2>2, SendFacts DEF FrameTypes
<1>8. ASSUME NEW b \in Bridges, Route(b)
      PROVE  FrameTypes'
  <2> DEFINE q == uplink[b]
             r == Head(q)
  <2>1. /\ q # <<>> /\ uplink' = [uplink EXCEPT ![b] = Tail(q)]
        /\ UNCHANGED <<out, found, agent_id, next_id, waiting>>
    BY <1>8 DEF Route, hub
  <2>2. r \in Requests /\ Tail(q) \in Seq(Requests)
    <3>1. q \in Seq(Requests)
      BY <1>0
    <3> HIDE DEF q
    <3> QED
      BY <2>1, <3>1, HeadFacts
  <2>3. \/ inbox' = inbox
        \/ \E what \in {"targets", "offline", "failed", "result"} :
             SendTo(b, [type |-> "response", id |-> r.id, of |-> r, what |-> what])
    BY <1>8 DEF Route
  <2>4. \/ work' = work
        \/ \E a \in Agents : work' = [work EXCEPT ![a] = @ \cup {r}]
    <3>1. \A a \in ToSet(agents[TokenOf[b]]) : a \in Agents
      BY DEF HubAssumption, Conns, RegistryInv, Members, Registered
    <3>2. agents[TokenOf[b]] \in Seq(Agents)
      BY DEF HubAssumption, Conns, RegistryInv, RegistryTypes
    <3>3. agents[TokenOf[b]] # <<>> => Last(agents[TokenOf[b]]) \in Agents
      BY <3>1, <3>2, HeadFacts
    <3> QED
      BY <1>8, <3>1, <3>3 DEF Route
  <2> HIDE DEF q, r
  <2>5. inbox' \in [Bridges -> Seq(Frames)]
    <3>1. CASE inbox' = inbox
      BY <1>0, <3>1
    <3>2. CASE \E m \in Frames : SendTo(b, m)
      BY <3>2, SendFacts
    <3> QED
      BY <2>2, <2>3, <3>1, <3>2, FrameIs
  <2>6. work' \in [Agents -> SUBSET Requests]
    <3>1. \A a \in Agents : work[a] \cup {r} \in SUBSET Requests
      BY <1>0, <2>2
    <3>2. ASSUME NEW a \in Agents, work' = [work EXCEPT ![a] = @ \cup {r}]
          PROVE  work' \in [Agents -> SUBSET Requests]
      BY <1>0, <3>1, <3>2
    <3> QED
      BY <1>0, <2>4, <3>2
  <2>7. uplink' \in [Bridges -> Seq(Requests)]
    BY <1>0, <2>1, <2>2
  <2> QED
    BY <1>0, <2>1, <2>5, <2>6, <2>7 DEF FrameTypes
<1>9. ASSUME NEW b \in Bridges, NEW kind \in RequestKinds, NEW hint \in Hints, BridgeSends(b, kind, hint)
      PROVE  FrameTypes'
  <2> DEFINE k == ClientOf[b]
             n == next_id[k]
             r == [id |-> n, from |-> b, kind |-> kind, hint |-> hint]
  <2>1. /\ n <= MaxRequests
        /\ next_id' = [next_id EXCEPT ![k] = n + 1]
        /\ waiting' = [waiting EXCEPT ![b] = @ \cup {n}]
        /\ uplink' = [uplink EXCEPT ![b] = Append(@, r)]
        /\ UNCHANGED <<out, found, work, inbox, agent_id>>
    BY <1>9 DEF BridgeSends, fetch_add, hub
  <2>2. r \in Requests
    BY <1>9, RequestIs
  <2>3. k \in Clients /\ n \in 1 .. MaxRequests + 1 /\ MaxRequests \in Nat
    BY <1>0 DEF Clients, HubAssumption
  <2> HIDE DEF k, n, r
  <2>4. next_id' \in [Clients -> 1 .. MaxRequests + 1]
    BY <1>0, <2>1, <2>3
  <2>5. waiting' \in [Bridges -> SUBSET (1 .. MaxRequests)]
    BY <1>0, <2>1, <2>3
  <2>6. Append(uplink[b], r) \in Seq(Requests)
    BY <1>0, <2>2, AppendProperties
  <2>7. uplink' \in [Bridges -> Seq(Requests)]
    BY <1>0, <2>1, <2>6
  <2> QED
    BY <1>0, <2>1, <2>4, <2>5, <2>7 DEF FrameTypes
<1>10. ASSUME NEW b \in Bridges, BridgeReads(b)
       PROVE  FrameTypes'
  <2> DEFINE q == inbox[b]
             m == Head(q)
  <2>1. /\ q # <<>> /\ inbox' = [inbox EXCEPT ![b] = Tail(q)]
        /\ UNCHANGED <<out, found, uplink, work, next_id>>
        /\ \/ agent_id' = agent_id
           \/ /\ m.type \in {"hello_ack", "agent_connected"}
              /\ agent_id' = [agent_id EXCEPT ![b] = m.id]
           \/ agent_id' = [agent_id EXCEPT ![b] = None]
        /\ waiting' = waiting \/ waiting' = [waiting EXCEPT ![b] = @ \ {m.id}]
    BY <1>0, <1>10 DEF BridgeReads, hub
  <2>2. m \in Frames /\ Tail(q) \in Seq(Frames)
    <3>1. q \in Seq(Frames)
      BY <1>0
    <3> HIDE DEF q
    <3> QED
      BY <2>1, <3>1, HeadFacts
  <2> HIDE DEF q, m
  <2>3. m.type \in {"hello_ack", "agent_connected"} => m.id \in Names \cup {None}
    BY <2>2 DEF Frames
  <2>4. agent_id' \in [Bridges -> Names \cup {None, Unset}]
    BY <1>0, <2>1, <2>3
  <2>5. inbox' \in [Bridges -> Seq(Frames)]
    BY <1>0, <2>1, <2>2
  <2>6. waiting' \in [Bridges -> SUBSET (1 .. MaxRequests)]
    <3>1. waiting[b] \ {m.id} \in SUBSET (1 .. MaxRequests)
      BY <1>0
    <3> QED
      BY ZenonT(30), <1>0, <2>1, <3>1
  <2> QED
    BY <1>0, <2>1, <2>4, <2>5, <2>6 DEF FrameTypes
<1>11. CASE UNCHANGED vars
  BY <1>1, <1>11 DEF vars, hub, ends
<1>12. ASSUME NEW c \in Conns, Reject(c)
       PROVE  FrameTypes'
  BY <1>1, <1>12 DEF Reject, ends
<1>13. ASSUME NEW a \in Agents, NEW now \in Seconds, register_agent(a, now)
       PROVE  FrameTypes'
  BY <1>1, <1>13 DEF register_agent, ends
<1>14. ASSUME NEW a \in Agents, AckAgent(a) \/ CleanupAgent(a)
       PROVE  FrameTypes'
  BY <1>1, <1>14 DEF AckAgent, CleanupAgent, ends
<1>15. ASSUME NEW b \in Bridges, register_bridge(b) \/ CleanupBridge(b)
       PROVE  FrameTypes'
  BY <1>1, <1>15 DEF register_bridge, CleanupBridge, ends
<1> QED
  BY <1>2, <1>3, <1>4, <1>5, <1>6, <1>7, <1>8, <1>9, <1>10, <1>11, <1>12, <1>13, <1>14, <1>15
  DEF Next, AgentTask, BridgeTask

\* A bridge that has joined stays so: only a lost one is taken out.
LEMMA JoinedKept ==
  ASSUME HubAssumption, RegistryInv, [Next]_vars, NEW b \in Bridges, Joined(b)
  PROVE  Joined(b)'
<1> USE DEF Joined, BridgeListed
<1>0. /\ pc \in [Conns -> {"new", "registered", "announced", "found", "open", "removed", "closed"}]
      /\ alive \in [Conns -> BOOLEAN]
      /\ b \in Conns /\ b \notin Agents /\ Conns = Agents \cup Bridges
  BY DEF RegistryInv, RegistryTypes, HubAssumption, Conns
<1>1. CASE UNCHANGED <<pc, alive>>
  BY <1>1
<1>2. ASSUME NEW c \in Conns, Reject(c) \/ Drop(c)
      PROVE  Joined(b)'
  BY <1>0, <1>2 DEF Reject, Drop, Goto
<1>3. ASSUME NEW a \in Agents, AgentTask(a) \/ \E now \in Seconds : register_agent(a, now)
      PROVE  Joined(b)'
  <2>1. alive' = alive /\ (pc' = pc \/ \E l : pc' = [pc EXCEPT ![a] = l])
    BY <1>3 DEF AgentTask, AnnounceAgent, AckAgent, Deliver, ForwardResponse, CleanupAgent,
                notify_bridges_agent_gone, register_agent, Goto
  <2>2. pc'[b] = pc[b]
    BY <1>0, <2>1
  <2> QED
    BY <2>1, <2>2
<1>4. ASSUME NEW c \in Bridges, register_bridge(c)
      PROVE  Joined(b)'
  BY <1>0, <1>4 DEF register_bridge, Admitted, Goto
<1>5. ASSUME NEW c \in Bridges, BridgeTask(c)
      PROVE  Joined(b)'
  <2>1. CASE LookUpAgent(c) \/ AckBridge(c)
    BY <1>0, <2>1 DEF LookUpAgent, AckBridge, Goto
  <2>2. CASE Route(c)
    BY <1>1, <2>2 DEF Route, hub
  <2>3. CASE CleanupBridge(c)
    BY <1>0, <2>3 DEF CleanupBridge, Goto
  <2> QED
    BY <1>5, <2>1, <2>2, <2>3 DEF BridgeTask
<1>6. ASSUME NEW c \in Bridges, BridgeReads(c)
      PROVE  Joined(b)'
  BY <1>1, <1>6 DEF BridgeReads, hub
<1>7. ASSUME NEW c \in Bridges, NEW kind \in RequestKinds, NEW hint \in Hints, BridgeSends(c, kind, hint)
      PROVE  Joined(b)'
  BY <1>1, <1>7 DEF BridgeSends, hub
<1> QED
  BY <1>1, <1>2, <1>3, <1>4, <1>5, <1>6, <1>7 DEF Next, vars, hub

\* An id stays corrected as long as the agents stay and no frame is lost.
LEMMA CorrectedKept ==
  ASSUME NEW b \in Bridges, NEW n, NEW k, Corrected(b, n, k),
         found[b] = None \/ found'[b] = found[b],
         \A a \in Agents : Here(a) => Here(a)' /\ agent_name'[a] = agent_name[a],
         \A a \in Agents : b \in ToSet(out[a].to) =>
           b \in ToSet(out'[a].to) /\ out'[a].frame = out[a].frame,
         \A i \in 1 .. Len(inbox[b]) : i \in 1 .. Len(inbox'[b]) /\ inbox'[b][i] = inbox[b][i]
  PROVE  Corrected(b, n, k)'
<1>1. CASE n \in {None, found[b]}
  BY <1>1 DEF Corrected
<1>2. CASE \E a \in Agents : TokenOf[a] = TokenOf[b] /\ agent_name[a] = n /\ Here(a)
  BY <1>2 DEF Corrected
<1>3. CASE \E a \in Agents : b \in ToSet(out[a].to) /\ out[a].frame = Leaves(n)
  BY <1>3 DEF Corrected
<1>4. CASE \E i \in 1 .. Len(inbox[b]) : i > k /\ inbox[b][i] = Leaves(n)
  BY <1>4 DEF Corrected
<1> QED
  BY <1>1, <1>2, <1>3, <1>4 DEF Corrected

\* In the initial states nothing is on its way.
LEMMA FramesInit ==
  ASSUME HubAssumption, Init
  PROVE  FramesInv
<1> USE DEF Init
<1>1. FrameTypes
  <2>1. \A S : <<>> \in Seq(S)
    BY EmptySeq
  <2>2. /\ out \in [Agents -> [frame : Frames \cup {None}, to : Seq(Bridges)]]
        /\ \A a \in Agents : out[a].to = <<>>
    BY <2>1 DEF NoFrame
  <2>3. next_id \in [Clients -> 1 .. MaxRequests + 1]
    BY DEF HubAssumption
  <2>4. uplink \in [Bridges -> Seq(Requests)] /\ inbox \in [Bridges -> Seq(Frames)]
    BY <2>1
  <2> QED
    BY <2>2, <2>3, <2>4 DEF FrameTypes
<1>2. \A a \in Agents : out[a].to = <<>>
  BY DEF NoFrame
<1>3. Addressees /\ Broadcasts
  BY <1>2 DEF Addressees, Broadcasts, ToSet
<1>4. /\ \A b \in Bridges : inbox[b] = <<>> /\ found[b] = None /\ agent_id[b] = Unset
      /\ \A b \in Bridges : pc[b] \in {"new", "closed"}
  BY DEF Conns
<1>5. Inboxes /\ ViewsCorrected
  <2> USE <1>4
  <2> HIDE DEF Init
  <2> QED
    BY DEF Inboxes, ViewsCorrected
<1> QED
  BY <1>1, <1>3, <1>5 DEF FramesInv

\* A step keeps the frames' invariant when it changes no frame, no id and no
\* view, and the tasks it moves have nothing to deliver and nothing in flight.
LEMMA FramesSame ==
  ASSUME FramesInv, FrameTypes',
         UNCHANGED <<inbox, out, found, agent_id>>,
         \A b \in Bridges : Joined(b) => Joined(b)',
         \A a \in Agents : Here(a) => Here(a)' /\ agent_name'[a] = agent_name[a],
         \A a \in Agents : pc'[a] = pc[a] \/ out[a].to = <<>>,
         \A b \in Bridges : inbox[b] # <<>> => BridgeListed(b)' /\ alive'[b],
         \A b \in Bridges : \/ pc'[b] = pc[b]
                            \/ pc[b] = "new" /\ pc'[b] = "registered"
                            \/ pc'[b] = "closed",
         \A b \in Bridges : alive'[b] => alive[b]
  PROVE  FramesInv'
<1>1. FrameTypes /\ Addressees /\ Broadcasts /\ Inboxes /\ ViewsCorrected
  BY DEF FramesInv
<1>2. Addressees'
  <2> SUFFICES ASSUME NEW a \in Agents, NEW b \in ToSet(out[a].to)
               PROVE  TokenOf[b] = TokenOf[a] /\ Joined(b)'
    BY DEF Addressees
  <2>1. out[a].to \in Seq(Bridges)
    BY <1>1 DEF FrameTypes
  <2>2. b \in Bridges
    BY <2>1, ToSetFacts
  <2> QED
    BY <1>1, <2>2 DEF Addressees
<1>3. Broadcasts'
  <2> SUFFICES ASSUME NEW a \in Agents, out[a].to # <<>>
               PROVE  /\ pc'[a] \notin {"new", "registered", "removed"}
                      /\ out[a].frame.type = "agent_connected" =>
                           pc'[a] = "announced" /\ out[a].frame.id = agent_name'[a]
                      /\ out[a].frame.type # "hello_ack"
    BY DEF Broadcasts
  <2>1. pc'[a] = pc[a]
    OBVIOUS
  <2>2. pc[a] = "announced" => agent_name'[a] = agent_name[a]
    BY DEF Here, AgentListed
  <2> QED
    BY <1>1, <2>1, <2>2 DEF Broadcasts
<1>4. Inboxes'
  <2> SUFFICES ASSUME NEW b \in Bridges
               PROVE  /\ pc'[b] \in {"new", "registered"} => found[b] = None
                      /\ inbox[b] # <<>> => BridgeListed(b)' /\ alive'[b]
                      /\ \A i \in 1 .. Len(inbox[b]) :
                           inbox[b][i].type = "hello_ack" => pc'[b] = "open" /\ inbox[b][i].id = found[b]
    BY DEF Inboxes
  <2>1. pc'[b] \in {"new", "registered"} => found[b] = None
    BY <1>1 DEF Inboxes
  <2>2. ASSUME NEW i \in 1 .. Len(inbox[b]), inbox[b][i].type = "hello_ack"
        PROVE  pc'[b] = "open" /\ inbox[b][i].id = found[b]
    <3>1. pc[b] = "open" /\ inbox[b][i].id = found[b]
      BY <1>1, <2>2 DEF Inboxes
    <3>2. inbox[b] # <<>>
      OBVIOUS
    <3>3. pc'[b] # "closed"
      BY <3>2 DEF BridgeListed
    <3> QED
      BY <3>1, <3>3
  <2> QED
    BY <2>1, <2>2
<1>5. ASSUME NEW b \in Bridges, NEW n, NEW k, Corrected(b, n, k)
      PROVE  Corrected(b, n, k)'
  BY <1>5, CorrectedKept
<1>6. ViewsCorrected'
  <2> SUFFICES ASSUME NEW b \in Bridges
               PROVE  /\ \A k \in 1 .. Len(inbox[b]) :
                           inbox[b][k].type = "agent_connected" => Corrected(b, inbox[b][k].id, k)'
                      /\ pc'[b] = "open" /\ alive'[b] =>
                           \/ \E i \in 1 .. Len(inbox[b]) : inbox[b][i].type = "hello_ack"
                           \/ Corrected(b, agent_id[b], 0)'
                      /\ pc'[b] \in {"new", "registered", "found"} => agent_id[b] = Unset
    BY DEF ViewsCorrected
  <2>1. ASSUME NEW k \in 1 .. Len(inbox[b]), inbox[b][k].type = "agent_connected"
        PROVE  Corrected(b, inbox[b][k].id, k)'
    <3>1. PICK n : n = inbox[b][k].id
      OBVIOUS
    <3>2. Corrected(b, n, k)
      BY <1>1, <2>1, <3>1 DEF ViewsCorrected
    <3>3. Corrected(b, n, k)'
      BY <1>5, <3>2
    <3> QED
      BY <3>1, <3>3 DEF Corrected
  <2>2. ASSUME pc'[b] = "open", alive'[b], ~ \E i \in 1 .. Len(inbox[b]) : inbox[b][i].type = "hello_ack"
        PROVE  Corrected(b, agent_id[b], 0)'
    <3>1. PICK n : n = agent_id[b]
      OBVIOUS
    <3>2. Corrected(b, n, 0)
      BY <1>1, <2>2, <3>1 DEF ViewsCorrected
    <3>3. Corrected(b, n, 0)'
      BY <1>5, <3>2
    <3> QED
      BY <3>1, <3>3 DEF Corrected
  <2>3. pc'[b] \in {"new", "registered", "found"} => agent_id[b] = Unset
    BY <1>1 DEF ViewsCorrected
  <2> QED
    BY <2>1, <2>2, <2>3
<1> QED
  BY <1>2, <1>3, <1>4, <1>6 DEF FramesInv

\* A broadcast by a task with nothing left to deliver keeps the frames'
\* invariant: it goes to every bridge of the token, and if it ends the
\* agent's stay it says so.
LEMMA BroadcastFrames ==
  ASSUME HubAssumption, RegistryInv, FramesInv, FrameTypes',
         NEW a \in Agents, NEW m \in Frames, Broadcast(a, m), out[a].to = <<>>,
         UNCHANGED <<inbox, found, agent_id, alive, agent_name>>,
         \A c \in Conns : c # a => pc'[c] = pc[c],
         pc'[a] \notin {"new", "registered", "removed"},
         m.type # "hello_ack",
         m.type = "agent_connected" => pc'[a] = "announced" /\ m.id = agent_name[a],
         Here(a)' \/ m = Leaves(agent_name[a])
  PROVE  FramesInv'
<1>1. FrameTypes /\ Addressees /\ Broadcasts /\ Inboxes /\ ViewsCorrected
  BY DEF FramesInv
<1>2. /\ out'[a].frame = m /\ out'[a].to = bridges[TokenOf[a]]
      /\ \A c \in Agents : c # a => out'[c] = out[c]
  BY <1>1, BroadcastFacts
<1>3. \A b \in Bridges : b \in ToSet(bridges[TokenOf[a]]) <=> TokenOf[b] = TokenOf[a] /\ BridgeListed(b)
  BY DEF RegistryInv, Members, HubAssumption, Conns
<1>4. /\ \A b \in Bridges : b \in Conns /\ pc'[b] = pc[b]
      /\ \A c \in Agents : c # a => pc'[c] = pc[c]
  BY DEF HubAssumption, Conns
<1>5. \A b \in Bridges : Joined(b)' <=> Joined(b)
  BY <1>4 DEF Joined, BridgeListed
<1>6. Addressees'
  <2> SUFFICES ASSUME NEW c \in Agents, NEW b \in ToSet(out'[c].to)
               PROVE  TokenOf[b] = TokenOf[c] /\ Joined(b)'
    BY DEF Addressees
  <2>1. b \in Bridges
    <3>1. out'[c].to \in Seq(Bridges)
      BY DEF FrameTypes
    <3> QED
      BY <3>1, ToSetFacts
  <2>2. CASE c = a
    BY <1>2, <1>3, <1>5, <2>1, <2>2 DEF Joined
  <2>3. CASE c # a
    BY <1>1, <1>2, <1>5, <2>1, <2>3 DEF Addressees
  <2> QED
    BY <2>2, <2>3
<1>7. Broadcasts'
  BY <1>1, <1>2, <1>4 DEF Broadcasts
<1>8. Inboxes'
  BY <1>1, <1>4 DEF Inboxes, BridgeListed
<1>9. ASSUME NEW b \in Bridges, BridgeListed(b), NEW n, NEW k, Corrected(b, n, k)
      PROVE  Corrected(b, n, k)'
  <2>1. CASE n \in {None, found[b]} \/ \E i \in 1 .. Len(inbox[b]) : i > k /\ inbox[b][i] = Leaves(n)
    BY <2>1 DEF Corrected
  <2>2. ASSUME NEW c \in Agents, TokenOf[c] = TokenOf[b], agent_name[c] = n, Here(c)
        PROVE  Corrected(b, n, k)'
    <3>1. CASE Here(c)'
      BY <2>2, <3>1 DEF Corrected
    <3>2. CASE ~Here(c)'
      <4>1. c = a
        BY <1>4, <2>2, <3>2 DEF Here, AgentListed
      <4>2. b \in ToSet(out'[a].to) /\ out'[a].frame = Leaves(n)
        BY <1>2, <1>3, <1>9, <2>2, <3>2, <4>1
      <4> QED
        BY <4>2 DEF Corrected
    <3> QED
      BY <3>1, <3>2
  <2>3. ASSUME NEW c \in Agents, b \in ToSet(out[c].to), out[c].frame = Leaves(n)
        PROVE  Corrected(b, n, k)'
    <3>1. c # a
      BY <2>3 DEF ToSet
    <3> QED
      BY <1>2, <2>3, <3>1 DEF Corrected
  <2> QED
    BY <1>9, <2>1, <2>2, <2>3 DEF Corrected
<1>10. ViewsCorrected'
  <2> SUFFICES ASSUME NEW b \in Bridges
               PROVE  /\ \A k \in 1 .. Len(inbox[b]) :
                           inbox[b][k].type = "agent_connected" => Corrected(b, inbox[b][k].id, k)'
                      /\ pc[b] = "open" /\ alive[b] =>
                           \/ \E i \in 1 .. Len(inbox[b]) : inbox[b][i].type = "hello_ack"
                           \/ Corrected(b, agent_id[b], 0)'
                      /\ pc[b] \in {"new", "registered", "found"} => agent_id[b] = Unset
    BY <1>4 DEF ViewsCorrected
  <2>1. ASSUME NEW k \in 1 .. Len(inbox[b]), inbox[b][k].type = "agent_connected"
        PROVE  Corrected(b, inbox[b][k].id, k)'
    <3>1. PICK n : n = inbox[b][k].id
      OBVIOUS
    <3>2. Corrected(b, n, k)
      BY <1>1, <2>1, <3>1 DEF ViewsCorrected
    <3>3. inbox[b] # <<>>
      OBVIOUS
    <3>4. BridgeListed(b)
      BY <1>1, <3>3 DEF Inboxes
    <3>5. Corrected(b, n, k)'
      BY <1>9, <3>2, <3>4
    <3> QED
      BY <3>1, <3>5 DEF Corrected
  <2>2. ASSUME pc[b] = "open", alive[b], ~ \E i \in 1 .. Len(inbox[b]) : inbox[b][i].type = "hello_ack"
        PROVE  Corrected(b, agent_id[b], 0)'
    <3>1. PICK n : n = agent_id[b]
      OBVIOUS
    <3>2. Corrected(b, n, 0)
      BY <1>1, <2>2, <3>1 DEF ViewsCorrected
    <3>3. BridgeListed(b)
      BY <2>2 DEF BridgeListed
    <3>4. Corrected(b, n, 0)'
      BY <1>9, <3>2, <3>3
    <3> QED
      BY <3>1, <3>4 DEF Corrected
  <2>3. pc[b] \in {"new", "registered", "found"} => agent_id[b] = Unset
    BY <1>1 DEF ViewsCorrected
  <2> QED
    BY <2>1, <2>2, <2>3
<1> QED
  BY <1>6, <1>7, <1>8, <1>10 DEF FramesInv

\* A frame sent to bridge b, from a broadcast or on its own, keeps what is on
\* the way to every bridge right: a frame leaves a broadcast for an inbox, or
\* is lost with the connection.
LEMMA SendFrames ==
  ASSUME FramesInv, NEW b \in Bridges, NEW m \in Frames, SendTo(b, m),
         UNCHANGED <<found, agent_id, alive, agent_name>>,
         \A a \in Agents : pc'[a] = pc[a],
         \A c \in Bridges : c # b => pc'[c] = pc[c],
         pc'[b] = pc[b] \/ (pc[b] = "found" /\ pc'[b] = "open" /\ m.type = "hello_ack"),
         alive[b] => BridgeListed(b),
         m.type = "hello_ack" => pc'[b] = "open" /\ m.id = found[b],
         m.type = "agent_connected" =>
           \E a \in Agents : TokenOf[a] = TokenOf[b] /\ agent_name[a] = m.id /\ Here(a),
         \A a \in Agents : out'[a] = out[a] \/ ( /\ out[a].frame = m /\ out'[a].frame = m
                                                /\ ToSet(out[a].to) \subseteq {b} \cup ToSet(out'[a].to) )
  PROVE  Inboxes' /\ ViewsCorrected'
<1>1. FrameTypes /\ Inboxes /\ ViewsCorrected
  BY DEF FramesInv
<1>2. /\ \A c \in Bridges : c # b => inbox'[c] = inbox[c]
      /\ \A c \in Bridges : ~alive[c] => inbox'[c] = inbox[c]
      /\ Len(inbox[b]) \in Nat
      /\ alive[b] =>
           /\ Len(inbox'[b]) = Len(inbox[b]) + 1
           /\ inbox'[b][Len(inbox[b]) + 1] = m
           /\ \A i \in 1 .. Len(inbox[b]) : inbox'[b][i] = inbox[b][i]
  BY <1>1, SendFacts
<1>3. \A c \in Bridges : Len(inbox[c]) \in Nat
  BY <1>1, LenProperties DEF FrameTypes
<1>4. \A c \in Bridges : BridgeListed(c) => BridgeListed(c)'
  BY DEF BridgeListed
<1>5. \A c \in Bridges : \A i \in 1 .. Len(inbox[c]) : i \in 1 .. Len(inbox'[c]) /\ inbox'[c][i] = inbox[c][i]
  BY <1>2
<1>6. \A c \in Bridges : \A i \in 1 .. Len(inbox'[c]) :
        \/ i \in 1 .. Len(inbox[c]) /\ inbox'[c][i] = inbox[c][i]
        \/ c = b /\ alive[b] /\ i = Len(inbox[b]) + 1 /\ inbox'[c][i] = m
  BY <1>2
<1>7. Inboxes'
  <2> SUFFICES ASSUME NEW c \in Bridges
               PROVE  /\ pc'[c] \in {"new", "registered"} => found[c] = None
                      /\ inbox'[c] # <<>> => BridgeListed(c)' /\ alive[c]
                      /\ \A i \in 1 .. Len(inbox'[c]) :
                           inbox'[c][i].type = "hello_ack" => pc'[c] = "open" /\ inbox'[c][i].id = found[c]
    BY DEF Inboxes
  <2>1. pc'[c] \in {"new", "registered"} => found[c] = None
    BY <1>1 DEF Inboxes
  <2>2. inbox'[c] # <<>> => BridgeListed(c)' /\ alive[c]
    <3>1. CASE inbox'[c] = inbox[c]
      BY <1>1, <1>4, <3>1 DEF Inboxes
    <3>2. CASE inbox'[c] # inbox[c]
      BY <1>2, <1>4, <3>2
    <3> QED
      BY <3>1, <3>2
  <2>3. ASSUME NEW i \in 1 .. Len(inbox'[c]), inbox'[c][i].type = "hello_ack"
        PROVE  pc'[c] = "open" /\ inbox'[c][i].id = found[c]
    <3>1. CASE i \in 1 .. Len(inbox[c]) /\ inbox'[c][i] = inbox[c][i]
      BY <1>1, <2>3, <3>1 DEF Inboxes
    <3>2. CASE c = b /\ inbox'[c][i] = m
      BY <2>3, <3>2
    <3> QED
      BY <1>6, <3>1, <3>2
  <2> QED
    BY <2>1, <2>2, <2>3
<1>8. ASSUME NEW c \in Bridges, alive[c], NEW n, NEW k \in Nat, k <= Len(inbox[c]), Corrected(c, n, k)
      PROVE  Corrected(c, n, k)'
  <2>1. CASE n \in {None, found[c]}
    BY <2>1 DEF Corrected
  <2>2. CASE \E a \in Agents : TokenOf[a] = TokenOf[c] /\ agent_name[a] = n /\ Here(a)
    BY <2>2 DEF Corrected, Here, AgentListed
  <2>3. ASSUME NEW a \in Agents, c \in ToSet(out[a].to), out[a].frame = Leaves(n)
        PROVE  Corrected(c, n, k)'
    <3>1. CASE c \in ToSet(out'[a].to)
      <4>1. out'[a].frame = Leaves(n)
        BY <2>3
      <4> QED
        BY <3>1, <4>1 DEF Corrected
    <3>2. CASE c \notin ToSet(out'[a].to)
      <4>1. c = b /\ m = Leaves(n)
        BY <2>3, <3>2
      <4>2. /\ Len(inbox[b]) + 1 \in 1 .. Len(inbox'[c]) /\ Len(inbox[b]) + 1 > k
            /\ inbox'[c][Len(inbox[b]) + 1] = Leaves(n)
        BY <1>2, <1>8, <4>1
      <4> QED
        BY <4>2 DEF Corrected
    <3> QED
      BY <3>1, <3>2
  <2>4. ASSUME NEW i \in 1 .. Len(inbox[c]), i > k, inbox[c][i] = Leaves(n)
        PROVE  Corrected(c, n, k)'
    <3>1. i \in 1 .. Len(inbox'[c]) /\ inbox'[c][i] = Leaves(n)
      BY <1>5, <2>4
    <3> QED
      BY <2>4, <3>1 DEF Corrected
  <2> QED
    BY <1>8, <2>1, <2>2, <2>3, <2>4 DEF Corrected
<1>9. ViewsCorrected'
  <2> SUFFICES ASSUME NEW c \in Bridges
               PROVE  /\ \A k \in 1 .. Len(inbox'[c]) :
                           inbox'[c][k].type = "agent_connected" => Corrected(c, inbox[c][k].id, k)'
                      /\ pc'[c] = "open" /\ alive[c] =>
                           \/ \E i \in 1 .. Len(inbox'[c]) : inbox'[c][i].type = "hello_ack"
                           \/ Corrected(c, agent_id[c], 0)'
                      /\ pc'[c] \in {"new", "registered", "found"} => agent_id[c] = Unset
    BY DEF ViewsCorrected
  <2>1. ASSUME NEW k \in 1 .. Len(inbox'[c]), inbox'[c][k].type = "agent_connected"
        PROVE  Corrected(c, inbox[c][k].id, k)'
    <3>1. PICK n : n = inbox'[c][k].id
      OBVIOUS
    <3>2. CASE k \in 1 .. Len(inbox[c]) /\ inbox'[c][k] = inbox[c][k]
      <4>1. Corrected(c, n, k)
        BY <1>1, <2>1, <3>1, <3>2 DEF ViewsCorrected
      <4>2. inbox[c] # <<>> /\ k \in Nat /\ k <= Len(inbox[c])
        BY <1>3, <3>2
      <4>3. alive[c]
        BY <1>1, <4>2 DEF Inboxes
      <4>4. Corrected(c, n, k)'
        BY <1>8, <4>1, <4>2, <4>3
      <4> QED
        BY <3>1, <4>4 DEF Corrected
    <3>3. CASE c = b /\ inbox'[c][k] = m
      <4>1. PICK a \in Agents : TokenOf[a] = TokenOf[b] /\ agent_name[a] = m.id /\ Here(a)
        BY <2>1, <3>3
      <4>2. Here(a)' /\ agent_name'[a] = n
        BY <3>1, <3>3, <4>1 DEF Here, AgentListed
      <4> QED
        BY <3>1, <3>3, <4>1, <4>2 DEF Corrected
    <3> QED
      BY <1>6, <3>2, <3>3
  <2>2. ASSUME pc'[c] = "open", alive[c], ~ \E i \in 1 .. Len(inbox'[c]) : inbox'[c][i].type = "hello_ack"
        PROVE  Corrected(c, agent_id[c], 0)'
    <3>1. pc[c] = "open"
      <4> SUFFICES ASSUME c = b, m.type = "hello_ack"
                   PROVE  FALSE
        BY <2>2
      <4>1. Len(inbox[b]) + 1 \in 1 .. Len(inbox'[c]) /\ inbox'[c][Len(inbox[b]) + 1] = m
        BY <1>2, <2>2
      <4> QED
        BY <2>2, <4>1
    <3>2. ~ \E i \in 1 .. Len(inbox[c]) : inbox[c][i].type = "hello_ack"
      BY <1>5, <2>2
    <3>3. PICK n : n = agent_id[c]
      OBVIOUS
    <3>4. Corrected(c, n, 0)
      BY <1>1, <2>2, <3>1, <3>2, <3>3 DEF ViewsCorrected
    <3>5. Corrected(c, n, 0)'
      BY <1>3, <1>8, <2>2, <3>4
    <3> QED
      BY <3>3, <3>5 DEF Corrected
  <2>3. pc'[c] \in {"new", "registered", "found"} => agent_id[c] = Unset
    BY <1>1 DEF ViewsCorrected
  <2> QED
    BY <2>1, <2>2, <2>3
<1> QED
  BY <1>7, <1>9

\* What a task still has to deliver goes to its bridges one by one.
LEMMA DeliverFrames ==
  ASSUME HubAssumption, RegistryInv, FramesInv, FrameTypes', NEW a \in Agents, Deliver(a)
  PROVE  FramesInv'
<1> DEFINE s == out[a].to
           m == out[a].frame
<1>1. FrameTypes /\ Addressees /\ Broadcasts
  BY DEF FramesInv
<1>2. /\ s # <<>> /\ SendTo(Head(s), m)
      /\ out' = [out EXCEPT ![a].to = Tail(s)]
      /\ UNCHANGED <<bridges, pc, alive, agent_name, found, agent_id>>
  BY DEF Deliver, ends
<1>3. s \in Seq(Bridges) /\ m \in Frames /\ out[a] \in [frame : Frames \cup {None}, to : Seq(Bridges)]
  BY <1>1, <1>2 DEF FrameTypes
<1>4. /\ Head(s) \in Bridges /\ Head(s) \in ToSet(s)
      /\ ToSet(s) = {Head(s)} \cup ToSet(Tail(s))
  <2> HIDE DEF s
  <2> QED
    BY <1>2, <1>3, HeadFacts
<1>5. /\ out'[a].to = Tail(s) /\ out'[a].frame = m
      /\ \A c \in Agents : c # a => out'[c] = out[c]
  BY <1>1, <1>2, <1>3 DEF FrameTypes
<1>6. Addressees'
  <2> SUFFICES ASSUME NEW c \in Agents, NEW b \in ToSet(out'[c].to)
               PROVE  TokenOf[b] = TokenOf[c] /\ Joined(b)
    BY <1>2 DEF Addressees, Joined, BridgeListed
  <2>1. b \in ToSet(out[c].to)
    BY <1>4, <1>5
  <2> QED
    BY <1>1, <2>1 DEF Addressees
<1>7. Broadcasts'
  <2> SUFFICES ASSUME NEW c \in Agents, out'[c].to # <<>>
               PROVE  /\ pc[c] \notin {"new", "registered", "removed"}
                      /\ out'[c].frame.type = "agent_connected" =>
                           pc[c] = "announced" /\ out'[c].frame.id = agent_name[c]
                      /\ out'[c].frame.type # "hello_ack"
    BY <1>2 DEF Broadcasts
  <2>1. out[c].to # <<>> /\ out'[c].frame = out[c].frame
    BY <1>2, <1>5
  <2> QED
    BY <1>1, <2>1 DEF Broadcasts
<1>8. Inboxes' /\ ViewsCorrected'
  <2> DEFINE b == Head(s)
  <2>1. TokenOf[b] = TokenOf[a] /\ Joined(b)
    BY <1>1, <1>4 DEF Addressees
  <2>2. m.type # "hello_ack" /\ (m.type = "agent_connected" => pc[a] = "announced" /\ m.id = agent_name[a])
    BY <1>1, <1>2 DEF Broadcasts
  <2>3. m.type = "agent_connected" =>
          \E c \in Agents : TokenOf[c] = TokenOf[b] /\ agent_name[c] = m.id /\ Here(c)
    BY <2>1, <2>2 DEF Here, AgentListed
  <2>4. alive[b] => BridgeListed(b)
    BY <2>1 DEF Joined
  <2>5. \A c \in Agents : out'[c] = out[c] \/ ( /\ out[c].frame = m /\ out'[c].frame = m
                                               /\ ToSet(out[c].to) \subseteq {b} \cup ToSet(out'[c].to) )
    BY <1>4, <1>5
  <2>6. b \in Bridges /\ SendTo(b, m)
    BY <1>2, <1>4
  <2> HIDE DEF b, s, m
  <2> QED
    BY <1>2, <1>3, <2>2, <2>3, <2>4, <2>5, <2>6, SendFrames
<1> QED
  BY <1>6, <1>7, <1>8 DEF FramesInv

\* The ack follows the lookup, and opens the connection.
LEMMA AckBridgeFrames ==
  ASSUME HubAssumption, RegistryInv, FramesInv, FrameTypes', NEW b \in Bridges, AckBridge(b)
  PROVE  FramesInv'
<1> DEFINE m == [type |-> "hello_ack", id |-> found[b]]
<1>1. FrameTypes /\ Addressees /\ Broadcasts
  BY DEF FramesInv
<1>2. /\ pc[b] = "found" /\ pc' = [pc EXCEPT ![b] = "open"] /\ SendTo(b, m)
      /\ UNCHANGED <<bridges, out, alive, agent_name, found, agent_id>>
  BY DEF AckBridge, Goto, ends
<1>3. m \in Frames /\ m.type = "hello_ack" /\ m.id = found[b]
  BY <1>1, FrameIs DEF FrameTypes
<1>4. /\ pc'[b] = "open"
      /\ \A c \in Bridges : c # b => pc'[c] = pc[c]
      /\ \A a \in Agents : pc'[a] = pc[a]
  BY <1>2 DEF RegistryInv, RegistryTypes, HubAssumption, Conns
<1>5. Addressees'
  <2>1. \A a \in Agents : ToSet(out[a].to) \subseteq Bridges
    BY <1>1, ToSetFacts DEF FrameTypes
  <2>2. \A c \in Bridges : Joined(c) => Joined(c)'
    BY <1>2, <1>4 DEF Joined, BridgeListed
  <2> QED
    BY <1>1, <1>2, <2>1, <2>2 DEF Addressees
<1>6. Broadcasts'
  BY <1>1, <1>2, <1>4 DEF Broadcasts
<1>7. Inboxes' /\ ViewsCorrected'
  <2>1. BridgeListed(b)
    BY <1>2 DEF BridgeListed
  <2> HIDE DEF m
  <2> QED
    BY <1>2, <1>3, <1>4, <2>1, SendFrames
<1> QED
  BY <1>5, <1>6, <1>7 DEF FramesInv

\* The relay's own answers go to the bridge that asked.
LEMMA RouteFrames ==
  ASSUME HubAssumption, RegistryInv, FramesInv, FrameTypes', NEW b \in Bridges, Route(b)
  PROVE  FramesInv'
<1> DEFINE r == Head(uplink[b])
<1>1. FrameTypes /\ Addressees /\ Broadcasts
  BY DEF FramesInv
<1>2. /\ pc[b] = "open" /\ uplink[b] # <<>>
      /\ UNCHANGED <<pc, bridges, out, alive, agent_name, found, agent_id>>
      /\ \/ inbox' = inbox
         \/ \E what \in {"targets", "offline", "failed", "result"} :
              SendTo(b, [type |-> "response", id |-> r.id, of |-> r, what |-> what])
  BY DEF Route, hub
<1>3. r \in Requests
  <2>1. uplink[b] \in Seq(Requests)
    BY <1>1 DEF FrameTypes
  <2> QED
    BY <1>2, <2>1, HeadFacts
<1>4. CASE inbox' = inbox
  <2>1. \A c \in Bridges : inbox[c] # <<>> => BridgeListed(c) /\ alive[c]
    BY DEF FramesInv, Inboxes
  <2>2. /\ \A c \in Bridges : BridgeListed(c)' <=> BridgeListed(c)
        /\ \A c \in Bridges : Joined(c)' <=> Joined(c)
        /\ \A a \in Agents : Here(a)' <=> Here(a)
    BY <1>2 DEF BridgeListed, Joined, Here, AgentListed
  <2> QED
    BY <1>2, <1>4, <2>1, <2>2, FramesSame
<1>5. ASSUME NEW m \in Frames, m.type = "response", SendTo(b, m)
      PROVE  FramesInv'
  <2>1. Addressees' /\ Broadcasts'
    BY <1>1, <1>2 DEF Addressees, Broadcasts, Joined, BridgeListed
  <2>2. BridgeListed(b)
    BY <1>2 DEF BridgeListed
  <2>3. Inboxes' /\ ViewsCorrected'
    BY <1>2, <1>5, <2>2, SendFrames
  <2> QED
    BY <2>1, <2>3 DEF FramesInv
<1> QED
  BY <1>2, <1>3, <1>4, <1>5, FrameIs

\* The agent looked up for the ack takes the place of none.
LEMMA LookUpFrames ==
  ASSUME HubAssumption, RegistryInv, FramesInv, FrameTypes', NEW b \in Bridges, LookUpAgent(b)
  PROVE  FramesInv'
<1>1. FrameTypes /\ Addressees /\ Broadcasts /\ Inboxes /\ ViewsCorrected
  BY DEF FramesInv
<1>2. /\ pc[b] = "registered" /\ pc' = [pc EXCEPT ![b] = "found"]
      /\ \E n : found' = [found EXCEPT ![b] = n]
      /\ UNCHANGED <<bridges, out, alive, agent_name, inbox, agent_id>>
  BY DEF LookUpAgent, Goto, frames, ends
<1>3. /\ pc'[b] = "found"
      /\ \A c \in Bridges : c # b => pc'[c] = pc[c] /\ found'[c] = found[c]
      /\ \A a \in Agents : pc'[a] = pc[a]
  BY <1>1, <1>2 DEF RegistryInv, RegistryTypes, HubAssumption, Conns, FrameTypes
<1>4. found[b] = None
  BY <1>1, <1>2 DEF Inboxes
<1>5. \A c \in Bridges : BridgeListed(c)' <=> BridgeListed(c)
  BY <1>2, <1>3 DEF BridgeListed
<1>6. Addressees'
  <2>1. \A a \in Agents : ToSet(out[a].to) \subseteq Bridges
    BY <1>1, ToSetFacts DEF FrameTypes
  <2> QED
    BY <1>1, <1>2, <1>5, <2>1 DEF Addressees, Joined
<1>7. Broadcasts'
  BY <1>1, <1>2, <1>3 DEF Broadcasts
<1>8. Inboxes'
  <2> SUFFICES ASSUME NEW c \in Bridges
               PROVE  /\ pc'[c] \in {"new", "registered"} => found'[c] = None
                      /\ inbox[c] # <<>> => BridgeListed(c)' /\ alive[c]
                      /\ \A i \in 1 .. Len(inbox[c]) :
                           inbox[c][i].type = "hello_ack" => pc'[c] = "open" /\ inbox[c][i].id = found'[c]
    BY <1>2 DEF Inboxes
  <2>1. CASE c = b
    BY <1>1, <1>2, <1>3, <1>5, <2>1 DEF Inboxes
  <2>2. CASE c # b
    BY <1>1, <1>2, <1>3, <1>5, <2>2 DEF Inboxes
  <2> QED
    BY <2>1, <2>2
<1>9. ASSUME NEW c \in Bridges, NEW n, NEW k, Corrected(c, n, k)
      PROVE  Corrected(c, n, k)'
  BY <1>2, <1>3, <1>4, <1>9, CorrectedKept DEF Here, AgentListed
<1>10. ViewsCorrected'
  <2> SUFFICES ASSUME NEW c \in Bridges
               PROVE  /\ \A k \in 1 .. Len(inbox[c]) :
                           inbox[c][k].type = "agent_connected" => Corrected(c, inbox[c][k].id, k)'
                      /\ pc'[c] = "open" /\ alive[c] =>
                           \/ \E i \in 1 .. Len(inbox[c]) : inbox[c][i].type = "hello_ack"
                           \/ Corrected(c, agent_id[c], 0)'
                      /\ pc'[c] \in {"new", "registered", "found"} => agent_id[c] = Unset
    BY <1>2 DEF ViewsCorrected
  <2>1. ASSUME NEW k \in 1 .. Len(inbox[c]), inbox[c][k].type = "agent_connected"
        PROVE  Corrected(c, inbox[c][k].id, k)'
    <3>1. PICK n : n = inbox[c][k].id
      OBVIOUS
    <3>2. Corrected(c, n, k)
      BY <1>1, <2>1, <3>1 DEF ViewsCorrected
    <3>3. Corrected(c, n, k)'
      BY <1>9, <3>2
    <3> QED
      BY <1>2, <3>1, <3>3 DEF Corrected
  <2>2. ASSUME pc'[c] = "open", alive[c], ~ \E i \in 1 .. Len(inbox[c]) : inbox[c][i].type = "hello_ack"
        PROVE  Corrected(c, agent_id[c], 0)'
    <3>1. PICK n : n = agent_id[c]
      OBVIOUS
    <3>2. pc[c] = "open"
      BY <1>3, <2>2
    <3>3. Corrected(c, n, 0)
      BY <1>1, <2>2, <3>1, <3>2 DEF ViewsCorrected
    <3>4. Corrected(c, n, 0)'
      BY <1>9, <3>3
    <3> QED
      BY <1>2, <3>1, <3>4 DEF Corrected
  <2>3. pc'[c] \in {"new", "registered", "found"} => agent_id[c] = Unset
    BY <1>1, <1>2, <1>3 DEF ViewsCorrected
  <2> QED
    BY <2>1, <2>2, <2>3
<1> QED
  BY <1>6, <1>7, <1>8, <1>10 DEF FramesInv

\* A lost connection takes what was on its way with it.
LEMMA DropFrames ==
  ASSUME HubAssumption, RegistryInv, FramesInv, FrameTypes', NEW c \in Conns, Drop(c)
  PROVE  FramesInv'
<1>1. FrameTypes /\ Addressees /\ Broadcasts /\ Inboxes /\ ViewsCorrected
  BY DEF FramesInv
<1>2. /\ alive' = [alive EXCEPT ![c] = FALSE]
      /\ inbox' = inbox \/ (c \notin Agents /\ inbox' = [inbox EXCEPT ![c] = <<>>])
      /\ c \in Agents => inbox' = inbox
      /\ c \notin Agents => inbox' = [inbox EXCEPT ![c] = <<>>]
      /\ UNCHANGED <<pc, bridges, out, found, agent_name, agent_id>>
  BY DEF Drop
<1>3. /\ \A b \in Conns : alive'[b] => alive[b]
      /\ \A b \in Conns : alive[b] => alive'[b] \/ b = c
      /\ \A b \in Bridges : b # c => inbox'[b] = inbox[b] /\ alive'[b] = alive[b]
      /\ \A b \in Bridges : b = c => inbox'[b] = <<>>
      /\ \A b \in Bridges : b \in Conns /\ b \notin Agents
  BY <1>1, <1>2 DEF RegistryInv, RegistryTypes, HubAssumption, Conns, FrameTypes
<1>4. Addressees'
  <2>1. \A a \in Agents : ToSet(out[a].to) \subseteq Bridges
    BY <1>1, ToSetFacts DEF FrameTypes
  <2>2. \A b \in Bridges : Joined(b) => Joined(b)'
    BY <1>2, <1>3 DEF Joined, BridgeListed
  <2> QED
    BY <1>1, <1>2, <2>1, <2>2 DEF Addressees
<1>5. Broadcasts'
  BY <1>1, <1>2 DEF Broadcasts
<1>6. \A b \in Bridges : inbox'[b] # <<>> => b # c /\ inbox'[b] = inbox[b] /\ alive'[b] = alive[b]
  BY <1>3
<1>7. Inboxes'
  <2> SUFFICES ASSUME NEW b \in Bridges
               PROVE  /\ pc[b] \in {"new", "registered"} => found[b] = None
                      /\ inbox'[b] # <<>> => BridgeListed(b)' /\ alive'[b]
                      /\ \A i \in 1 .. Len(inbox'[b]) :
                           inbox'[b][i].type = "hello_ack" => pc[b] = "open" /\ inbox'[b][i].id = found[b]
    BY <1>2 DEF Inboxes
  <2>1. CASE inbox'[b] = <<>>
    BY <1>1, <2>1 DEF Inboxes
  <2>2. CASE inbox'[b] # <<>>
    <3>1. inbox'[b] = inbox[b] /\ alive'[b] = alive[b] /\ (BridgeListed(b)' <=> BridgeListed(b))
      BY <1>2, <1>6, <2>2 DEF BridgeListed
    <3> QED
      BY <1>1, <3>1 DEF Inboxes
  <2> QED
    BY <2>1, <2>2
<1>8. ASSUME NEW b \in Bridges, b # c, NEW n, NEW k, Corrected(b, n, k)
      PROVE  Corrected(b, n, k)'
  <2>1. inbox'[b] = inbox[b]
    BY <1>3, <1>8
  <2> QED
    BY <1>2, <1>8, <2>1, CorrectedKept DEF Here, AgentListed
<1>9. ViewsCorrected'
  <2> SUFFICES ASSUME NEW b \in Bridges
               PROVE  /\ \A k \in 1 .. Len(inbox'[b]) :
                           inbox'[b][k].type = "agent_connected" => Corrected(b, inbox[b][k].id, k)'
                      /\ pc[b] = "open" /\ alive'[b] =>
                           \/ \E i \in 1 .. Len(inbox'[b]) : inbox'[b][i].type = "hello_ack"
                           \/ Corrected(b, agent_id[b], 0)'
                      /\ pc[b] \in {"new", "registered", "found"} => agent_id[b] = Unset
    BY <1>2 DEF ViewsCorrected
  <2>1. ASSUME NEW k \in 1 .. Len(inbox'[b]), inbox'[b][k].type = "agent_connected"
        PROVE  Corrected(b, inbox[b][k].id, k)'
    <3>1. PICK n : n = inbox'[b][k].id
      OBVIOUS
    <3>2. b # c /\ inbox'[b] = inbox[b]
      BY <1>6
    <3>3. Corrected(b, n, k)
      BY <1>1, <2>1, <3>1, <3>2 DEF ViewsCorrected
    <3>4. Corrected(b, n, k)'
      BY <1>8, <3>2, <3>3
    <3> QED
      BY <3>1, <3>4 DEF Corrected
  <2>2. ASSUME pc[b] = "open", alive'[b], ~ \E i \in 1 .. Len(inbox'[b]) : inbox'[b][i].type = "hello_ack"
        PROVE  Corrected(b, agent_id[b], 0)'
    <3>1. PICK n : n = agent_id[b]
      OBVIOUS
    <3>2. b # c /\ inbox'[b] = inbox[b] /\ alive[b]
      BY <1>2, <1>3, <2>2 DEF RegistryInv, RegistryTypes
    <3>3. Corrected(b, n, 0)
      BY <1>1, <2>2, <3>1, <3>2 DEF ViewsCorrected
    <3>4. Corrected(b, n, 0)'
      BY <1>8, <3>2, <3>3
    <3> QED
      BY <1>2, <3>1, <3>4 DEF Corrected
  <2>3. pc[b] \in {"new", "registered", "found"} => agent_id[b] = Unset
    BY <1>1 DEF ViewsCorrected
  <2> QED
    BY <2>1, <2>2, <2>3
<1> QED
  BY <1>4, <1>5, <1>7, <1>9 DEF FramesInv

\* A bridge reads its frames in order, so what it takes for the agent's id is
\* corrected by the frames behind it.
LEMMA ReadsFrames ==
  ASSUME HubAssumption, RegistryInv, FramesInv, FrameTypes', NEW b \in Bridges, BridgeReads(b)
  PROVE  FramesInv'
<1> DEFINE q == inbox[b]
           m == Head(q)
           view == IF m.type = "hello_ack" \/ (agent_id[b] # Unset /\ m.type = "agent_connected") THEN m.id
                   ELSE IF m.type = "agent_disconnected" /\ m.id = agent_id[b] THEN None ELSE agent_id[b]
<1>1. FrameTypes /\ Addressees /\ Broadcasts /\ Inboxes /\ ViewsCorrected
  BY DEF FramesInv
<1>2. /\ q # <<>> /\ inbox' = [inbox EXCEPT ![b] = Tail(q)]
      /\ agent_id' = [agent_id EXCEPT ![b] = view]
      /\ UNCHANGED <<pc, bridges, out, found, alive, agent_name>>
  BY DEF BridgeReads, hub
<1>3. q \in Seq(Frames)
  BY <1>1 DEF FrameTypes
<1>4. /\ Len(q) \in Nat \ {0} /\ m = q[1] /\ m \in Frames
      /\ Len(Tail(q)) = Len(q) - 1
      /\ \A i \in 1 .. Len(q) - 1 : Tail(q)[i] = q[i + 1]
  <2> HIDE DEF q
  <2> QED
    BY <1>2, <1>3, HeadFacts
<1>5. /\ inbox'[b] = Tail(q) /\ agent_id'[b] = view
      /\ \A c \in Bridges : c # b => inbox'[c] = inbox[c] /\ agent_id'[c] = agent_id[c]
  BY <1>1, <1>2 DEF FrameTypes
<1>6. /\ Len(inbox'[b]) = Len(q) - 1
      /\ \A i \in 1 .. Len(inbox'[b]) : i + 1 \in 1 .. Len(q) /\ inbox'[b][i] = q[i + 1]
  BY <1>4, <1>5
<1> HIDE DEF m, view
<1>7. Addressees' /\ Broadcasts'
  BY <1>1, <1>2 DEF Addressees, Broadcasts, Joined, BridgeListed
<1>8. BridgeListed(b) /\ alive[b]
  BY <1>1, <1>2 DEF Inboxes
<1>9. Inboxes'
  <2> SUFFICES ASSUME NEW c \in Bridges
               PROVE  /\ pc'[c] \in {"new", "registered"} => found'[c] = None
                      /\ inbox'[c] # <<>> => BridgeListed(c)' /\ alive'[c]
                      /\ \A i \in 1 .. Len(inbox'[c]) :
                           inbox'[c][i].type = "hello_ack" => pc'[c] = "open" /\ inbox'[c][i].id = found'[c]
    BY DEF Inboxes
  <2>0. /\ pc' = pc /\ found' = found /\ alive' = alive
        /\ BridgeListed(c)' <=> BridgeListed(c)
    BY <1>2 DEF BridgeListed
  <2>1. CASE c = b
    <3>1. pc[b] \in {"new", "registered"} => found[b] = None
      BY <1>1 DEF Inboxes
    <3>2. ASSUME NEW i \in 1 .. Len(inbox'[b]), inbox'[b][i].type = "hello_ack"
          PROVE  pc[b] = "open" /\ inbox'[b][i].id = found[b]
      <4>1. i + 1 \in 1 .. Len(inbox[b]) /\ inbox[b][i + 1] = inbox'[b][i]
        BY <1>6
      <4> QED
        BY <1>1, <3>2, <4>1 DEF Inboxes
    <3> QED
      BY <1>8, <2>0, <2>1, <3>1, <3>2
  <2>2. CASE c # b
    BY <1>1, <1>5, <2>0, <2>2 DEF Inboxes
  <2> QED
    BY <2>1, <2>2
\* What is corrected after a position of the inbox still is, one to the front.
<1>10. ASSUME NEW n, NEW k \in Nat, NEW j \in Nat, Corrected(b, n, k),
              (k = j + 1 \/ (k = 0 /\ j = 0 /\ m # Leaves(n)))
       PROVE  Corrected(b, n, j)'
  <2>1. CASE n \in {None, found[b]}
    BY <1>2, <2>1 DEF Corrected
  <2>2. CASE \E a \in Agents : TokenOf[a] = TokenOf[b] /\ agent_name[a] = n /\ Here(a)
    BY <1>2, <2>2 DEF Corrected, Here, AgentListed
  <2>3. CASE \E a \in Agents : b \in ToSet(out[a].to) /\ out[a].frame = Leaves(n)
    BY <1>2, <2>3 DEF Corrected
  <2>4. ASSUME NEW i \in 1 .. Len(q), i > k, q[i] = Leaves(n)
        PROVE  Corrected(b, n, j)'
    <3>1. i # 1
      BY <1>4, <1>10, <2>4
    <3>2. i - 1 \in 1 .. Len(inbox'[b]) /\ i - 1 > j
      BY <1>4, <1>6, <1>10, <2>4, <3>1
    <3>3. inbox'[b][i - 1] = Leaves(n)
      <4>1. (i - 1) + 1 = i
        OBVIOUS
      <4> QED
        BY <1>6, <2>4, <3>2, <4>1
    <3> QED
      BY <3>2, <3>3 DEF Corrected
  <2> QED
    BY <1>10, <2>1, <2>2, <2>3, <2>4 DEF Corrected
<1>11. ASSUME NEW c \in Bridges, c # b, NEW n, NEW k, Corrected(c, n, k)
       PROVE  Corrected(c, n, k)'
  <2>1. inbox'[c] = inbox[c]
    BY <1>5, <1>11
  <2> QED
    BY <1>2, <1>11, <2>1, CorrectedKept DEF Here, AgentListed
<1>12. ASSUME NEW k \in 1 .. Len(inbox'[b]), inbox'[b][k].type = "agent_connected"
       PROVE  Corrected(b, inbox[b][k].id, k)'
  <2>1. PICK n : n = inbox'[b][k].id
    OBVIOUS
  <2>2. k + 1 \in 1 .. Len(q) /\ q[k + 1].type = "agent_connected" /\ q[k + 1].id = n
    BY <1>6, <1>12, <2>1
  <2>3. Corrected(b, n, k + 1)
    BY <1>1, <2>2 DEF ViewsCorrected
  <2>4. k \in Nat /\ k + 1 \in Nat
    OBVIOUS
  <2>5. Corrected(b, n, k)'
    BY <1>10, <2>3, <2>4
  <2> QED
    BY <2>1, <2>5 DEF Corrected
<1>13. ASSUME pc[b] = "open", ~ \E i \in 1 .. Len(inbox'[b]) : inbox'[b][i].type = "hello_ack"
       PROVE  Corrected(b, agent_id[b], 0)'
  <2>1. PICK n : n = view
    OBVIOUS
  <2>2. CASE m.type = "hello_ack"
    <3>1. 1 \in 1 .. Len(q)
      BY <1>4
    <3>2. n = found'[b]
      BY <1>1, <1>2, <1>4, <2>1, <2>2, <3>1 DEF Inboxes, view
    <3> QED
      BY <1>5, <2>1, <3>2 DEF Corrected
  <2>3. CASE m.type = "agent_connected" /\ agent_id[b] # Unset
    <3>1. 1 \in 1 .. Len(q) /\ n = q[1].id /\ q[1].type = "agent_connected"
      BY <1>4, <2>1, <2>3 DEF view
    <3>2. Corrected(b, n, 1)
      BY <1>1, <3>1 DEF ViewsCorrected
    <3>3. Corrected(b, n, 0)'
      BY <1>10, <3>2
    <3> QED
      BY <1>5, <2>1, <3>3 DEF Corrected
  <2>4. CASE m.type # "hello_ack" /\ ~(m.type = "agent_connected" /\ agent_id[b] # Unset)
    <3>1. ~ \E i \in 1 .. Len(q) : q[i].type = "hello_ack"
      <4> SUFFICES ASSUME NEW i \in 1 .. Len(q), q[i].type = "hello_ack"
                   PROVE  FALSE
        OBVIOUS
      <4>1. i # 1
        BY <1>4, <2>4
      <4>2. i - 1 \in 1 .. Len(inbox'[b]) /\ (i - 1) + 1 = i
        BY <1>4, <1>6, <4>1
      <4> QED
        BY <1>6, <1>13, <4>2
    <3>2. PICK v : v = agent_id[b]
      OBVIOUS
    <3>3. Corrected(b, v, 0)
      BY <1>1, <1>8, <1>13, <3>1, <3>2 DEF ViewsCorrected
    <3>4. CASE m = Leaves(v)
      <4>1. m.type = "agent_disconnected" /\ m.id = v
        BY <3>4 DEF Leaves
      <4>2. n = None
        BY <2>1, <2>4, <3>2, <4>1 DEF view
      <4> QED
        BY <1>5, <2>1, <4>2 DEF Corrected
    <3>5. CASE m # Leaves(v)
      <4>1. Corrected(b, v, 0)'
        BY <1>10, <3>3, <3>5
      <4>2. n = v \/ n = None
        BY <2>1, <2>4, <3>2 DEF view
      <4> QED
        BY <1>5, <2>1, <4>1, <4>2 DEF Corrected
    <3> QED
      BY <3>4, <3>5
  <2> QED
    BY <2>2, <2>3, <2>4
<1>14. ViewsCorrected'
  <2> SUFFICES ASSUME NEW c \in Bridges
               PROVE  /\ \A k \in 1 .. Len(inbox'[c]) :
                           inbox'[c][k].type = "agent_connected" => Corrected(c, inbox[c][k].id, k)'
                      /\ pc[c] = "open" /\ alive[c] =>
                           \/ \E i \in 1 .. Len(inbox'[c]) : inbox'[c][i].type = "hello_ack"
                           \/ Corrected(c, agent_id[c], 0)'
                      /\ pc[c] \in {"new", "registered", "found"} => agent_id'[c] = Unset
    BY <1>2 DEF ViewsCorrected
  <2>1. CASE c = b
    <3>1. pc[b] \in {"new", "registered", "found"} => agent_id'[b] = Unset
      <4> SUFFICES ASSUME pc[b] \in {"new", "registered", "found"}
                   PROVE  view = Unset
        BY <1>5
      <4>1. agent_id[b] = Unset
        BY <1>1 DEF ViewsCorrected
      <4>2. m.type # "hello_ack"
        <5>1. 1 \in 1 .. Len(q)
          BY <1>4
        <5> QED
          BY <1>1, <1>4, <5>1 DEF Inboxes
      <4>3. m.type = "agent_disconnected" /\ m.id = Unset => None = Unset
        <5>1. Unset \notin Names
          BY DEF Unset, Names
        <5>2. m.type = "agent_disconnected" => m.id \in Names \cup {None}
          BY <1>4 DEF Frames
        <5> QED
          BY <5>1, <5>2
      <4> QED
        BY <4>1, <4>2, <4>3 DEF view
    <3> QED
      BY <1>12, <1>13, <2>1, <3>1
  <2>2. CASE c # b
    <3>1. inbox'[c] = inbox[c] /\ agent_id'[c] = agent_id[c]
      BY <1>5, <2>2
    <3>2. ASSUME NEW k \in 1 .. Len(inbox'[c]), inbox'[c][k].type = "agent_connected"
          PROVE  Corrected(c, inbox[c][k].id, k)'
      <4>1. PICK n : n = inbox'[c][k].id
        OBVIOUS
      <4>2. Corrected(c, n, k)
        BY <1>1, <3>1, <3>2, <4>1 DEF ViewsCorrected
      <4>3. Corrected(c, n, k)'
        BY <1>11, <2>2, <4>2
      <4> QED
        BY <4>1, <4>3 DEF Corrected
    <3>3. ASSUME pc[c] = "open", alive[c], ~ \E i \in 1 .. Len(inbox'[c]) : inbox'[c][i].type = "hello_ack"
          PROVE  Corrected(c, agent_id[c], 0)'
      <4>1. PICK n : n = agent_id[c]
        OBVIOUS
      <4>2. Corrected(c, n, 0)
        BY <1>1, <3>1, <3>3, <4>1 DEF ViewsCorrected
      <4>3. Corrected(c, n, 0)'
        BY <1>11, <2>2, <4>2
      <4> QED
        BY <3>1, <4>1, <4>3 DEF Corrected
    <3>4. pc[c] \in {"new", "registered", "found"} => agent_id'[c] = Unset
      BY <1>1, <3>1 DEF ViewsCorrected
    <3> QED
      BY <3>2, <3>3, <3>4
  <2> QED
    BY <2>1, <2>2
<1> QED
  BY <1>7, <1>9, <1>14 DEF FramesInv

\* The other steps change no frame: only tasks with nothing left to deliver
\* move on, and only lost bridges are taken out.
LEMMA MovesFrames ==
  ASSUME HubAssumption, RegistryInv, FramesInv, FrameTypes', [Next]_vars,
         \/ UNCHANGED vars
         \/ \E c \in Conns : Reject(c)
         \/ \E a \in Agents : AckAgent(a) \/ CleanupAgent(a) \/ \E now \in Seconds : register_agent(a, now)
         \/ \E b \in Bridges : register_bridge(b) \/ CleanupBridge(b)
         \/ \E b \in Bridges, kind \in RequestKinds, hint \in Hints : BridgeSends(b, kind, hint)
  PROVE  FramesInv'
<1>1. \A b \in Bridges : Joined(b) => Joined(b)'
  BY JoinedKept
<1>2. /\ UNCHANGED <<inbox, out, found, agent_id, alive>>
  BY DEF vars, hub, frames, ends, Reject, AckAgent, CleanupAgent, register_agent, register_bridge,
         CleanupBridge, BridgeSends
<1>3. /\ FrameTypes /\ Broadcasts /\ Inboxes
      /\ pc \in [Conns -> {"new", "registered", "announced", "found", "open", "removed", "closed"}]
      /\ Agents \cap Bridges = {} /\ Conns = Agents \cup Bridges
      /\ agent_name \in [Agents -> Names \cup {None}]
  BY DEF FramesInv, RegistryInv, RegistryTypes, HubAssumption, Conns
<1>4. \A b \in Bridges : inbox[b] # <<>> => BridgeListed(b) /\ alive[b]
  BY <1>3 DEF Inboxes
<1>5. \A a \in Agents : pc[a] = "new" => out[a].to = <<>>
  BY <1>3 DEF Broadcasts
<1>6. CASE UNCHANGED <<pc, agent_name>>
  BY <1>1, <1>2, <1>4, <1>6, FramesSame DEF Here, AgentListed, BridgeListed
<1>7. ASSUME NEW c \in Conns, Reject(c)
      PROVE  FramesInv'
  <2>1. pc[c] = "new" /\ pc' = [pc EXCEPT ![c] = "closed"] /\ agent_name' = agent_name
    BY <1>7 DEF Reject, Goto
  <2>2. \A a \in Agents : Here(a) => Here(a)'
    BY <1>3, <2>1 DEF Here, AgentListed
  <2>3. \A a \in Agents : pc'[a] = pc[a] \/ out[a].to = <<>>
    BY <1>3, <1>5, <2>1
  <2>4. \A b \in Bridges : BridgeListed(b) => BridgeListed(b)'
    BY <1>3, <2>1 DEF BridgeListed
  <2>5. \A b \in Bridges : pc'[b] = pc[b] \/ pc'[b] = "closed"
    BY <1>3, <2>1
  <2> QED
    BY <1>1, <1>2, <1>4, <2>1, <2>2, <2>3, <2>4, <2>5, FramesSame
<1>8. ASSUME NEW a \in Agents, AckAgent(a) \/ CleanupAgent(a)
      PROVE  FramesInv'
  <2>1. /\ out[a].to = <<>> /\ agent_name' = agent_name
        /\ Here(a)
        /\ pc' = [pc EXCEPT ![a] = "open"] \/ pc' = [pc EXCEPT ![a] = "removed"]
    BY <1>8 DEF AckAgent, CleanupAgent, Goto, Here, AgentListed
  <2>2. \A c \in Agents : Here(c) => Here(c)'
    BY <1>3, <2>1 DEF Here, AgentListed
  <2>3. \A b \in Bridges : pc'[b] = pc[b]
    BY <1>3, <2>1
  <2>4. \A c \in Agents : pc'[c] = pc[c] \/ out[c].to = <<>>
    BY <1>3, <2>1
  <2> QED
    BY <1>1, <1>2, <1>4, <2>1, <2>2, <2>3, <2>4, FramesSame DEF BridgeListed
<1>9. ASSUME NEW a \in Agents, NEW now \in Seconds, register_agent(a, now)
      PROVE  FramesInv'
  <2>1. /\ pc[a] = "new" /\ pc' = [pc EXCEPT ![a] = "registered"]
        /\ agent_name' = [agent_name EXCEPT ![a] = AssignedId(a, now)]
    BY <1>9 DEF register_agent, Admitted, Goto
  <2>2. \A c \in Agents : Here(c) => Here(c)' /\ agent_name'[c] = agent_name[c]
    BY <1>3, <2>1 DEF Here, AgentListed
  <2>3. \A b \in Bridges : pc'[b] = pc[b]
    BY <1>3, <2>1
  <2>4. \A c \in Agents : pc'[c] = pc[c] \/ out[c].to = <<>>
    BY <1>3, <1>5, <2>1
  <2> QED
    BY <1>1, <1>2, <1>4, <2>2, <2>3, <2>4, FramesSame DEF BridgeListed
<1>10. ASSUME NEW b \in Bridges, register_bridge(b) \/ CleanupBridge(b)
       PROVE  FramesInv'
  <2>1. /\ agent_name' = agent_name
        /\ \/ pc[b] = "new" /\ pc' = [pc EXCEPT ![b] = "registered"]
           \/ ~alive[b] /\ pc' = [pc EXCEPT ![b] = "closed"]
    BY <1>10 DEF register_bridge, CleanupBridge, Admitted, Goto
  <2>2. \A a \in Agents : pc'[a] = pc[a]
    BY <1>3, <2>1
  <2>3. \A c \in Bridges : \/ pc'[c] = pc[c]
                           \/ pc[c] = "new" /\ pc'[c] = "registered"
                           \/ pc'[c] = "closed" /\ ~alive[c]
    BY <1>3, <2>1
  <2>4. \A c \in Bridges : BridgeListed(c) /\ alive[c] => BridgeListed(c)'
    BY <2>3 DEF BridgeListed
  <2> QED
    BY <1>1, <1>2, <1>4, <2>1, <2>2, <2>3, <2>4, FramesSame DEF Here, AgentListed
<1>11. ASSUME NEW b \in Bridges, NEW kind \in RequestKinds, NEW hint \in Hints, BridgeSends(b, kind, hint)
       PROVE  FramesInv'
  BY <1>6, <1>11 DEF BridgeSends, hub
<1> QED
  BY <1>6, <1>7, <1>8, <1>9, <1>10, <1>11 DEF vars, hub

\* Every step of the relay and its peers keeps the invariant of the frames under way.
LEMMA FramesStep ==
  ASSUME HubAssumption, RegistryInv, FramesInv, [Next]_vars
  PROVE  FramesInv'
<1>1. FrameTypes'
  BY FrameTypesStep DEF FramesInv
<1>2. FrameTypes /\ Broadcasts /\ \A a \in Agents : agent_name[a] \in Names \cup {None}
  BY DEF FramesInv, RegistryInv, RegistryTypes
<1>3. ASSUME NEW a \in Agents, AnnounceAgent(a) \/ notify_bridges_agent_gone(a)
      PROVE  FramesInv'
  <2>1. /\ out[a].to = <<>>
        /\ UNCHANGED <<inbox, found, agent_id, alive, agent_name>>
        /\ \A c \in Conns : c # a => pc'[c] = pc[c]
    BY <1>2, <1>3
    DEF AnnounceAgent, notify_bridges_agent_gone, Broadcasts, Goto, frames, ends, RegistryInv, RegistryTypes
  <2>2. CASE AnnounceAgent(a)
    <3> DEFINE m == [type |-> "agent_connected", id |-> agent_name[a]]
    <3>1. Broadcast(a, m) /\ pc'[a] = "announced"
      BY <2>2 DEF AnnounceAgent, Goto, RegistryInv, RegistryTypes, Conns
    <3>2. m \in Frames /\ m.type = "agent_connected" /\ m.id = agent_name[a]
      BY <1>2, FrameIs
    <3>3. Here(a)'
      BY <3>1 DEF Here, AgentListed
    <3> HIDE DEF m
    <3> QED
      BY <1>1, <2>1, <3>1, <3>2, <3>3, BroadcastFrames
  <2>3. CASE notify_bridges_agent_gone(a)
    <3> DEFINE m == Leaves(agent_name[a])
    <3>1. Broadcast(a, m) /\ pc'[a] = "closed"
      BY <2>3 DEF notify_bridges_agent_gone, Goto, RegistryInv, RegistryTypes, Conns, Leaves
    <3>2. m \in Frames /\ m.type = "agent_disconnected"
      BY <1>2, FrameIs DEF Leaves
    <3>3. m = Leaves(agent_name[a])
      OBVIOUS
    <3> HIDE DEF m
    <3> QED
      BY <1>1, <2>1, <3>1, <3>2, <3>3, BroadcastFrames
  <2> QED
    BY <1>3, <2>2, <2>3
<1>4. ASSUME NEW a \in Agents, NEW r \in work[a], ForwardResponse(a, r)
      PROVE  FramesInv'
  <2> DEFINE m == [type |-> "response", id |-> r.id, of |-> r, what |-> "result"]
  <2>1. /\ Broadcast(a, m) /\ pc[a] = "open" /\ out[a].to = <<>>
        /\ UNCHANGED <<pc, inbox, found, agent_id, alive, agent_name>>
    BY <1>4 DEF ForwardResponse, ends
  <2>2. m \in Frames /\ m.type = "response"
    <3>1. r \in Requests
      BY <1>2 DEF FrameTypes
    <3> QED
      BY <3>1, FrameIs
  <2>3. Here(a)'
    BY <2>1 DEF Here, AgentListed
  <2> HIDE DEF m
  <2> QED
    BY <1>1, <2>1, <2>2, <2>3, BroadcastFrames
<1>5. ASSUME NEW a \in Agents, Deliver(a)
      PROVE  FramesInv'
  BY <1>1, <1>5, DeliverFrames
<1>6. ASSUME NEW b \in Bridges, LookUpAgent(b) \/ AckBridge(b) \/ Route(b) \/ BridgeReads(b)
      PROVE  FramesInv'
  BY <1>1, <1>6, LookUpFrames, AckBridgeFrames, RouteFrames, ReadsFrames
<1>7. ASSUME NEW c \in Conns, Drop(c)
      PROVE  FramesInv'
  BY <1>1, <1>7, DropFrames
<1> QED
  BY <1>1, <1>3, <1>4, <1>5, <1>6, <1>7, MovesFrames DEF Next, AgentTask, BridgeTask

\* What is on its way to the bridges: what every state of the relay satisfies.
THEOREM FramesInvariant == Spec => []FramesInv
<1>1. Init => FramesInv
  BY HubAssumption, FramesInit
<1>2. RegistryInv /\ FramesInv /\ [Next]_vars => FramesInv'
  BY HubAssumption, FramesStep
<1> QED
  BY <1>1, <1>2, RegistryInvariant, PTL DEF Spec

\* A bridge to which nothing is on its way knows an agent that is there, or
\* none, or what its ack said.
THEOREM ViewsStaleOnlyFromAck == Spec => []StaleOnlyFromAck
<1>1. RegistryInv /\ FramesInv => StaleOnlyFromAck
  <2> SUFFICES ASSUME RegistryInv, FramesInv, NEW b \in Bridges, Quiet(b)
               PROVE  agent_id[b] \in {None, found[b]} \cup {agent_name[a] : a \in Registered(TokenOf[b])}
    BY DEF StaleOnlyFromAck
  <2>1. /\ pc[b] = "open" /\ alive[b] /\ inbox[b] = <<>>
        /\ \A a \in Agents : TokenOf[a] = TokenOf[b] =>
             /\ out[a].to = <<>>
             /\ pc[a] \in {"new", "announced", "closed"} \/ (pc[a] = "open" /\ alive[a])
    BY DEF Quiet
  <2>2. Corrected(b, agent_id[b], 0)
    BY <2>1 DEF FramesInv, ViewsCorrected
  <2>3. CASE agent_id[b] \in {None, found[b]}
    BY <2>3
  <2>4. ASSUME NEW a \in Agents, TokenOf[a] = TokenOf[b], agent_name[a] = agent_id[b], Here(a)
        PROVE  agent_id[b] \in {agent_name[c] : c \in Registered(TokenOf[b])}
    <3>1. AgentListed(a)
      BY <2>1, <2>4 DEF Here
    <3>2. TokenOf[b] \in Tokens
      BY HubAssumption DEF HubAssumption, Conns
    <3>3. a \in Registered(TokenOf[b])
      BY <2>4, <3>1, <3>2 DEF RegistryInv, Members
    <3> QED
      BY <2>4, <3>3
  <2>5. ASSUME NEW a \in Agents, b \in ToSet(out[a].to)
        PROVE  FALSE
    <3>1. TokenOf[a] = TokenOf[b] /\ out[a].to # <<>>
      BY <2>5 DEF FramesInv, Addressees, ToSet
    <3> QED
      BY <2>1, <3>1
  <2> QED
    BY <2>1, <2>2, <2>3, <2>4, <2>5 DEF Corrected
<1> QED
  BY <1>1, RegistryInvariant, FramesInvariant, PTL

-----------------------------------------------------------------------------
\* The requests: ids tell them apart.

\* A request that is somewhere has an id its client has given out, for which
\* no other connection of that client waits.
Traced(r) ==
  /\ r.id \in 1 .. next_id[ClientOf[r.from]] - 1
  /\ \A b \in Bridges : ClientOf[b] = ClientOf[r.from] /\ r.id \in waiting[b] => b = r.from

\* A response is to a request of the token it is sent for.
Response(m, t) == m.type = "response" => TokenOf[m.of.from] = t /\ m.of.id = m.id /\ Traced(m.of)

WaitingGiven == \A b \in Bridges : \A n \in waiting[b] : n < next_id[ClientOf[b]]

RequestsTraced ==
  /\ \A b \in Bridges : \A r \in ToSet(uplink[b]) : r.from = b /\ Traced(r)
  /\ \A a \in Agents : \A r \in work[a] : TokenOf[r.from] = TokenOf[a] /\ Traced(r)

ResponsesTraced ==
  /\ \A a \in Agents, m \in Frames : out[a].to # <<>> /\ out[a].frame = m => Response(m, TokenOf[a])
  /\ \A b \in Bridges : \A m \in ToSet(inbox[b]) : Response(m, TokenOf[b])

RequestsInv ==
  /\ WaitingGiven
  /\ RequestsTraced
  /\ ResponsesTraced

\* No request is under way at the start.
LEMMA RequestsInit ==
  ASSUME HubAssumption, Init
  PROVE  RequestsInv
<1>1. /\ \A b \in Bridges : uplink[b] = <<>> /\ inbox[b] = <<>> /\ waiting[b] = {}
      /\ \A a \in Agents : work[a] = {} /\ out[a].to = <<>>
  BY DEF Init, NoFrame
<1> QED
  BY <1>1 DEF RequestsInv, WaitingGiven, RequestsTraced, ResponsesTraced, ToSet

\* A request stays traced: the counter of its process only grows, and what
\* that process waits for anew has the counter's value.
LEMMA TracedKept ==
  ASSUME HubAssumption, FrameTypes, WaitingGiven, [Next]_vars
  PROVE  /\ WaitingGiven'
         /\ \A r \in Requests : Traced(r) => Traced(r)'
<1>0. /\ next_id \in [Clients -> 1 .. MaxRequests + 1] /\ MaxRequests \in Nat
      /\ waiting \in [Bridges -> SUBSET (1 .. MaxRequests)]
      /\ \A b \in Bridges : ClientOf[b] \in Clients
  BY DEF FrameTypes, HubAssumption, Clients
<1>1. ASSUME NEW b \in Bridges, NEW kind \in RequestKinds, NEW hint \in Hints, BridgeSends(b, kind, hint)
      PROVE  /\ WaitingGiven'
             /\ \A r \in Requests : Traced(r) => Traced(r)'
  <2> DEFINE n == next_id[ClientOf[b]]
  <2>1. /\ next_id' = [next_id EXCEPT ![ClientOf[b]] = n + 1]
        /\ waiting' = [waiting EXCEPT ![b] = @ \cup {n}]
    BY <1>1 DEF BridgeSends, fetch_add
  <2>2. n \in 1 .. MaxRequests + 1
    BY <1>0
  <2> HIDE DEF n
  <2>3. /\ next_id'[ClientOf[b]] = n + 1
        /\ \A k \in Clients : k # ClientOf[b] => next_id'[k] = next_id[k]
        /\ \A c \in Bridges : \A x \in waiting'[c] : x \in waiting[c] \/ (c = b /\ x = n)
    BY <1>0, <2>1
  <2>4. WaitingGiven'
    <3> SUFFICES ASSUME NEW c \in Bridges, NEW x \in waiting'[c]
                 PROVE  x < next_id'[ClientOf[c]]
      BY DEF WaitingGiven
    <3>1. CASE c = b /\ x = n
      BY <2>2, <2>3, <3>1
    <3>2. CASE x \in waiting[c]
      <4>1. x < next_id[ClientOf[c]] /\ x \in Nat
        BY <1>0, <3>2 DEF WaitingGiven
      <4>2. CASE ClientOf[c] = ClientOf[b]
        BY <2>2, <2>3, <4>1, <4>2 DEF n
      <4>3. CASE ClientOf[c] # ClientOf[b]
        BY <1>0, <2>3, <4>1, <4>3
      <4> QED
        BY <4>2, <4>3
    <3> QED
      BY <2>3, <3>1, <3>2
  <2>5. ASSUME NEW r \in Requests, Traced(r)
        PROVE  Traced(r)'
    <3>1. /\ r.id \in Nat /\ r.from \in Bridges
          /\ r.id \in 1 .. next_id[ClientOf[r.from]] - 1
          /\ \A c \in Bridges : ClientOf[c] = ClientOf[r.from] /\ r.id \in waiting[c] => c = r.from
      BY <2>5 DEF Traced, Requests
    <3>2. next_id[ClientOf[r.from]] \in 1 .. MaxRequests + 1
      BY <1>0, <3>1
    <3>3. CASE ClientOf[r.from] = ClientOf[b]
      <4>1. r.id < n /\ r.id \in 1 .. next_id'[ClientOf[r.from]] - 1
        BY <2>2, <2>3, <3>1, <3>3 DEF n
      <4>2. \A c \in Bridges : r.id \in waiting'[c] => r.id \in waiting[c]
        BY <2>2, <2>3, <3>1, <4>1
      <4> QED
        BY <3>1, <4>1, <4>2 DEF Traced
    <3>4. CASE ClientOf[r.from] # ClientOf[b]
      <4>1. next_id'[ClientOf[r.from]] = next_id[ClientOf[r.from]]
        BY <1>0, <2>3, <3>1, <3>4
      <4>2. \A c \in Bridges : ClientOf[c] = ClientOf[r.from] /\ r.id \in waiting'[c] => r.id \in waiting[c]
        BY <2>3, <3>4
      <4> QED
        BY <3>1, <4>1, <4>2 DEF Traced
    <3> QED
      BY <3>3, <3>4
  <2> QED
    BY <2>4, <2>5
<1>2. CASE next_id' = next_id /\ \A c \in Bridges : waiting'[c] \subseteq waiting[c]
  <2>1. WaitingGiven'
    BY <1>2 DEF WaitingGiven
  <2>2. ASSUME NEW r \in Requests, Traced(r)
        PROVE  Traced(r)'
    BY <1>2, <2>2 DEF Traced
  <2> QED
    BY <2>1, <2>2
<1>3. ASSUME NEW c \in Conns, Drop(c)
      PROVE  next_id' = next_id /\ \A b \in Bridges : waiting'[b] \subseteq waiting[b]
  <2>1. next_id' = next_id /\ (waiting' = waiting \/ waiting' = [waiting EXCEPT ![c] = {}])
    BY <1>3 DEF Drop
  <2> QED
    BY <1>0, <2>1
<1>4. ASSUME NEW c \in Bridges, BridgeReads(c)
      PROVE  next_id' = next_id /\ \A b \in Bridges : waiting'[b] \subseteq waiting[b]
  <2>1. /\ next_id' = next_id
        /\ waiting' = waiting \/ waiting' = [waiting EXCEPT ![c] = @ \ {Head(inbox[c]).id}]
    BY <1>0, <1>4 DEF BridgeReads
  <2> QED
    BY <1>0, <2>1
<1>5. ASSUME UNCHANGED <<next_id, waiting>>
      PROVE  next_id' = next_id /\ \A b \in Bridges : waiting'[b] \subseteq waiting[b]
  BY <1>5
<1>6. CASE UNCHANGED vars \/ \E c \in Conns : Reject(c)
  BY <1>2, <1>5, <1>6 DEF vars, ends, Reject
<1>7. ASSUME NEW a \in Agents, AgentTask(a) \/ \E now \in Seconds : register_agent(a, now)
      PROVE  UNCHANGED <<next_id, waiting>>
  BY <1>7 DEF AgentTask, AnnounceAgent, AckAgent, Deliver, ForwardResponse, CleanupAgent,
              notify_bridges_agent_gone, register_agent, ends
<1>8. ASSUME NEW b \in Bridges, register_bridge(b) \/ BridgeTask(b)
      PROVE  UNCHANGED <<next_id, waiting>>
  BY <1>8 DEF register_bridge, BridgeTask, LookUpAgent, AckBridge, Route, CleanupBridge, ends
<1> QED
  BY <1>1, <1>2, <1>3, <1>4, <1>5, <1>6, <1>7, <1>8 DEF Next

\* A response stays traced.
LEMMA ResponseKept ==
  ASSUME \A r \in Requests : Traced(r) => Traced(r)', NEW m \in Frames, NEW t, Response(m, t)
  PROVE  Response(m, t)'
<1>1. m.type = "response" => m.of \in Requests
  BY DEF Frames
<1> QED
  BY <1>1 DEF Response

\* Requests move from a bridge to the relay and on to an agent of the token,
\* each with the id and the connection it came with.
LEMMA RequestsTracedStep ==
  ASSUME HubAssumption, RegistryInv, FrameTypes, RequestsInv, [Next]_vars
  PROVE  RequestsTraced'
<1>0. /\ uplink \in [Bridges -> Seq(Requests)]
      /\ work \in [Agents -> SUBSET Requests]
      /\ next_id \in [Clients -> 1 .. MaxRequests + 1] /\ MaxRequests \in Nat
      /\ WaitingGiven
      /\ \A b \in Bridges : \A r \in ToSet(uplink[b]) : r.from = b /\ Traced(r)
      /\ \A a \in Agents : \A r \in work[a] : TokenOf[r.from] = TokenOf[a] /\ Traced(r)
  BY DEF FrameTypes, RequestsInv, RequestsTraced, HubAssumption
<1>1. \A r \in Requests : Traced(r) => Traced(r)'
  BY <1>0, TracedKept
<1>2. \A b \in Bridges : ToSet(uplink[b]) \subseteq Requests
  BY <1>0, ToSetFacts
\* It is enough that no request comes to a list or a set that did not belong there.
<1>3. ASSUME \A b \in Bridges : ToSet(uplink'[b]) \subseteq ToSet(uplink[b]),
             \A a \in Agents : \A r \in work'[a] :
               r \in work[a] \/ \E b \in Bridges : r \in ToSet(uplink[b]) /\ TokenOf[b] = TokenOf[a]
      PROVE  RequestsTraced'
  <2>1. ASSUME NEW b \in Bridges, NEW r \in ToSet(uplink'[b])
        PROVE  r.from = b /\ Traced(r)'
    BY <1>0, <1>1, <1>2, <1>3
  <2>2. ASSUME NEW a \in Agents, NEW r \in work'[a]
        PROVE  TokenOf[r.from] = TokenOf[a] /\ Traced(r)'
    BY <1>0, <1>1, <1>2, <1>3
  <2> QED
    BY <2>1, <2>2 DEF RequestsTraced
<1>4. CASE UNCHANGED <<uplink, work>>
  BY <1>3, <1>4
<1>5. ASSUME NEW b \in Bridges, NEW kind \in RequestKinds, NEW hint \in Hints, BridgeSends(b, kind, hint)
      PROVE  RequestsTraced'
  <2> DEFINE n == next_id[ClientOf[b]]
  <2>0. PICK q \in Requests : q = [id |-> n, from |-> b, kind |-> kind, hint |-> hint]
    BY <1>5, RequestIs
  <2>1. /\ uplink' = [uplink EXCEPT ![b] = Append(@, q)]
        /\ next_id' = [next_id EXCEPT ![ClientOf[b]] = n + 1]
        /\ waiting' = [waiting EXCEPT ![b] = @ \cup {n}]
        /\ work' = work
    BY <1>5, <2>0 DEF BridgeSends, fetch_add
  <2>2. q.id = n /\ q.from = b
    BY <2>0
  <2>3. ClientOf[b] \in Clients /\ n \in 1 .. MaxRequests + 1
    BY <1>0 DEF Clients
  <2>4. Traced(q)'
    <3>1. next_id'[ClientOf[b]] = n + 1
      BY <1>0, <2>1, <2>3
    <3>2. \A c \in Bridges : c # b => waiting'[c] = waiting[c]
      BY <2>1 DEF FrameTypes
    <3>3. \A c \in Bridges : ClientOf[c] = ClientOf[b] => n \notin waiting[c]
      <4> SUFFICES ASSUME NEW c \in Bridges, ClientOf[c] = ClientOf[b], n \in waiting[c]
                   PROVE  FALSE
        OBVIOUS
      <4>1. n < n
        BY <1>0 DEF WaitingGiven
      <4> QED
        BY <2>3, <4>1
    <3>4. n \in 1 .. (n + 1) - 1
      BY <2>3
    <3> HIDE DEF n
    <3> QED
      BY <2>2, <3>1, <3>2, <3>3, <3>4 DEF Traced
  <2> HIDE DEF n
  <2>5. ToSet(uplink'[b]) = ToSet(uplink[b]) \cup {q}
    BY <1>0, <2>1, <2>2, AppendFacts
  <2>6. \A c \in Bridges : c # b => uplink'[c] = uplink[c]
    BY <1>0, <2>1
  <2>7. ASSUME NEW c \in Bridges, NEW r \in ToSet(uplink'[c])
        PROVE  r.from = c /\ Traced(r)'
    <3>1. CASE r = q /\ c = b
      BY <2>2, <2>4, <3>1
    <3>2. CASE r \in ToSet(uplink[c])
      BY <1>0, <1>1, <1>2, <3>2
    <3> QED
      BY <2>5, <2>6, <3>1, <3>2
  <2>8. ASSUME NEW a \in Agents, NEW r \in work'[a]
        PROVE  TokenOf[r.from] = TokenOf[a] /\ Traced(r)'
    BY <1>0, <1>1, <2>1
  <2> QED
    BY <2>7, <2>8 DEF RequestsTraced
<1>6. ASSUME NEW b \in Bridges, Route(b)
      PROVE  RequestsTraced'
  <2> DEFINE q == uplink[b]
             r == Head(q)
             list == agents[TokenOf[b]]
  <2>1. q # <<>> /\ uplink' = [uplink EXCEPT ![b] = Tail(q)]
    BY <1>6 DEF Route
  <2>2. r \in ToSet(q) /\ ToSet(Tail(q)) \subseteq ToSet(q)
    <3>1. q \in Seq(Requests)
      BY <1>0
    <3> HIDE DEF q
    <3> QED
      BY <2>1, <3>1, HeadFacts
  <2>3. \/ work' = work
        \/ \E a \in Agents : TokenOf[a] = TokenOf[b] /\ work' = [work EXCEPT ![a] = @ \cup {r}]
    <3>1. \A a \in ToSet(list) : a \in Agents /\ TokenOf[a] = TokenOf[b]
      BY DEF HubAssumption, Conns, RegistryInv, Members, Registered
    <3>2. list \in Seq(Agents)
      BY DEF HubAssumption, Conns, RegistryInv, RegistryTypes
    <3>3. list # <<>> => Last(list) \in ToSet(list)
      BY <3>2, HeadFacts
    <3> QED
      BY <1>6, <3>1, <3>3 DEF Route
  <2> HIDE DEF q, r, list
  <2>4. \A c \in Bridges : ToSet(uplink'[c]) \subseteq ToSet(uplink[c])
    <3>1. uplink'[b] = Tail(q) /\ \A c \in Bridges : c # b => uplink'[c] = uplink[c]
      BY <1>0, <2>1
    <3> QED
      BY <2>2, <3>1 DEF q
  <2>5. ASSUME NEW a \in Agents, NEW x \in work'[a]
        PROVE  x \in work[a] \/ \E c \in Bridges : x \in ToSet(uplink[c]) /\ TokenOf[c] = TokenOf[a]
    <3>1. ASSUME NEW c \in Agents, TokenOf[c] = TokenOf[b], work' = [work EXCEPT ![c] = @ \cup {r}]
          PROVE  x \in work[a] \/ (x = r /\ TokenOf[a] = TokenOf[b])
      BY <1>0, <2>5, <3>1
    <3>2. x \in work[a] \/ (x = r /\ TokenOf[a] = TokenOf[b])
      BY <2>3, <2>5, <3>1
    <3> QED
      BY <2>2, <3>2 DEF q
  <2> QED
    BY <1>3, <2>4, <2>5
<1>7. ASSUME NEW a \in Agents, NEW r \in work[a], ForwardResponse(a, r)
      PROVE  RequestsTraced'
  <2>1. uplink' = uplink /\ work' = [work EXCEPT ![a] = @ \ {r}]
    BY <1>7 DEF ForwardResponse
  <2>2. \A c \in Agents : work'[c] \subseteq work[c]
    BY <1>0, <2>1
  <2> QED
    BY <1>3, <2>1, <2>2
<1>8. ASSUME NEW c \in Conns, Drop(c)
      PROVE  RequestsTraced'
  <2>1. work' = work \/ work' = [work EXCEPT ![c] = {}]
    BY <1>8 DEF Drop
  <2>2. \/ uplink' = uplink
        \/ \E n \in 0 .. Len(uplink[c]) : c \in Bridges /\ uplink' = [uplink EXCEPT ![c] = SubSeq(uplink[c], 1, n)]
    BY <1>8 DEF Drop, Conns
  <2>3. \A b \in Bridges : ToSet(uplink'[b]) \subseteq ToSet(uplink[b])
    <3>1. CASE uplink' = uplink
      BY <3>1
    <3>2. ASSUME c \in Bridges, NEW n \in 0 .. Len(uplink[c]),
                 uplink' = [uplink EXCEPT ![c] = SubSeq(uplink[c], 1, n)]
          PROVE  \A b \in Bridges : ToSet(uplink'[b]) \subseteq ToSet(uplink[b])
      <4>1. uplink[c] \in Seq(Requests)
        BY <1>0, <3>2
      <4>2. ToSet(SubSeq(uplink[c], 1, n)) \subseteq ToSet(uplink[c])
        BY <4>1, FirstOf
      <4> QED
        BY <1>0, <3>2, <4>2
    <3> QED
      BY <2>2, <3>1, <3>2
  <2>4. \A a \in Agents : work'[a] \subseteq work[a]
    BY <1>0, <2>1
  <2> QED
    BY <1>3, <2>3, <2>4
<1>9. CASE UNCHANGED vars \/ \E c \in Conns : Reject(c)
  BY <1>4, <1>9 DEF vars, frames, Reject
<1>10. ASSUME NEW a \in Agents,
              \/ AnnounceAgent(a) \/ AckAgent(a) \/ Deliver(a) \/ CleanupAgent(a)
              \/ notify_bridges_agent_gone(a) \/ \E now \in Seconds : register_agent(a, now)
       PROVE  UNCHANGED <<uplink, work>>
  BY <1>10 DEF AnnounceAgent, AckAgent, Deliver, CleanupAgent, notify_bridges_agent_gone, register_agent,
               frames
<1>11. ASSUME NEW b \in Bridges,
              register_bridge(b) \/ LookUpAgent(b) \/ AckBridge(b) \/ CleanupBridge(b) \/ BridgeReads(b)
       PROVE  UNCHANGED <<uplink, work>>
  BY <1>11 DEF register_bridge, LookUpAgent, AckBridge, CleanupBridge, BridgeReads, frames
<1> QED
  BY <1>4, <1>5, <1>6, <1>7, <1>8, <1>9, <1>10, <1>11 DEF Next, AgentTask, BridgeTask

\* Responses go from the agent, or from the relay itself, to bridges of the
\* token the request came with.
LEMMA ResponsesTracedStep ==
  ASSUME HubAssumption, RegistryInv, FramesInv, RequestsInv, [Next]_vars
  PROVE  ResponsesTraced'
<1>0. /\ out \in [Agents -> [frame : Frames \cup {None}, to : Seq(Bridges)]]
      /\ inbox \in [Bridges -> Seq(Frames)]
      /\ uplink \in [Bridges -> Seq(Requests)]
      /\ work \in [Agents -> SUBSET Requests]
      /\ WaitingGiven /\ RequestsTraced /\ FrameTypes /\ FrameTypes'
      /\ \A a \in Agents, m \in Frames : out[a].to # <<>> /\ out[a].frame = m => Response(m, TokenOf[a])
      /\ \A b \in Bridges : \A m \in ToSet(inbox[b]) : Response(m, TokenOf[b])
  BY FrameTypesStep DEF FramesInv, FrameTypes, RequestsInv, ResponsesTraced
<1>1. \A r \in Requests : Traced(r) => Traced(r)'
  BY <1>0, TracedKept
<1>2. \A m \in Frames : \A t : Response(m, t) => Response(m, t)'
  BY <1>1, ResponseKept
<1>3. \A b \in Bridges : ToSet(inbox[b]) \subseteq Frames
  BY <1>0, ToSetFacts
\* It is enough that what is new in an inbox or a broadcast is traced.
<1>4. ASSUME \A b \in Bridges : \A m \in ToSet(inbox'[b]) : m \in ToSet(inbox[b]) \/ Response(m, TokenOf[b]),
             \A a \in Agents, m \in Frames : out'[a].to # <<>> /\ out'[a].frame = m =>
               (out[a].to # <<>> /\ out[a].frame = m) \/ Response(m, TokenOf[a])
      PROVE  ResponsesTraced'
  <2>1. ASSUME NEW b \in Bridges, NEW m \in ToSet(inbox'[b])
        PROVE  Response(m, TokenOf[b])'
    <3>1. m \in Frames
      <4>1. inbox'[b] \in Seq(Frames)
        BY <1>0 DEF FrameTypes
      <4> QED
        BY <4>1, ToSetFacts
    <3>2. Response(m, TokenOf[b])
      BY <1>0, <1>4
    <3> QED
      BY <1>2, <3>1, <3>2
  <2>2. ASSUME NEW a \in Agents, NEW m \in Frames, out'[a].to # <<>>, out'[a].frame = m
        PROVE  Response(m, TokenOf[a])'
    BY <1>0, <1>2, <1>4, <2>2
  <2> QED
    BY <2>1, <2>2 DEF ResponsesTraced
<1>5. CASE UNCHANGED <<out, inbox>>
  BY <1>4, <1>5
<1>6. ASSUME NEW b \in Bridges, NEW m \in Frames, SendTo(b, m)
      PROVE  /\ ToSet(inbox'[b]) \subseteq ToSet(inbox[b]) \cup {m}
             /\ \A c \in Bridges : c # b => inbox'[c] = inbox[c]
  <2>1. inbox' = [inbox EXCEPT ![b] = IF alive[b] THEN Append(@, m) ELSE @]
    BY <1>6 DEF SendTo
  <2>2. ToSet(Append(inbox[b], m)) = ToSet(inbox[b]) \cup {m}
    BY <1>0, AppendFacts
  <2>3. inbox'[b] = (IF alive[b] THEN Append(inbox[b], m) ELSE inbox[b])
    BY <1>0, <2>1
  <2>4. \A c \in Bridges : c # b => inbox'[c] = inbox[c]
    BY <1>0, <2>1
  <2> QED
    BY <2>2, <2>3, <2>4
<1>7. ASSUME NEW a \in Agents, NEW m \in Frames, Broadcast(a, m), inbox' = inbox, Response(m, TokenOf[a])
      PROVE  ResponsesTraced'
  <2>1. out'[a].frame = m /\ \A c \in Agents : c # a => out'[c] = out[c]
    BY <1>0, <1>7, BroadcastFacts
  <2> QED
    BY <1>4, <1>7, <2>1
<1>8. ASSUME NEW a \in Agents, AnnounceAgent(a) \/ notify_bridges_agent_gone(a)
      PROVE  ResponsesTraced'
  <2>1. agent_name[a] \in Names \cup {None}
    BY DEF RegistryInv, RegistryTypes
  <2>2. PICK m \in Frames : Broadcast(a, m) /\ m.type # "response"
    BY <1>8, <2>1, FrameIs DEF AnnounceAgent, notify_bridges_agent_gone, Leaves
  <2>3. inbox' = inbox
    BY <1>8 DEF AnnounceAgent, notify_bridges_agent_gone, frames
  <2> QED
    BY <1>7, <2>2, <2>3 DEF Response
<1>9. ASSUME NEW a \in Agents, NEW r \in work[a], ForwardResponse(a, r)
      PROVE  ResponsesTraced'
  <2> DEFINE m == [type |-> "response", id |-> r.id, of |-> r, what |-> "result"]
  <2>1. Broadcast(a, m) /\ inbox' = inbox
    BY <1>9 DEF ForwardResponse
  <2>2. m \in Frames /\ m.of = r /\ m.id = r.id
    <3>1. r \in Requests
      BY <1>0
    <3> QED
      BY <3>1, FrameIs
  <2>3. TokenOf[r.from] = TokenOf[a] /\ Traced(r)
    BY <1>0 DEF RequestsTraced
  <2> HIDE DEF m
  <2>4. Response(m, TokenOf[a])
    BY <2>2, <2>3 DEF Response
  <2> QED
    BY <1>7, <2>1, <2>2, <2>4
<1>10. ASSUME NEW a \in Agents, Deliver(a)
       PROVE  ResponsesTraced'
  <2> DEFINE q == out[a].to
             m == out[a].frame
  <2>1. /\ q # <<>> /\ SendTo(Head(q), m)
        /\ out' = [out EXCEPT ![a].to = Tail(q)]
    BY <1>10 DEF Deliver
  <2>2. q \in Seq(Bridges) /\ m \in Frames
    BY <1>0, <2>1 DEF FrameTypes
  <2>3. Head(q) \in Bridges /\ TokenOf[Head(q)] = TokenOf[a]
    <3>1. Head(q) \in ToSet(q) /\ Head(q) \in Bridges
      <4> HIDE DEF q
      <4> QED
        BY <2>1, <2>2, HeadFacts
    <3> QED
      BY <3>1 DEF FramesInv, Addressees
  <2>4. Response(m, TokenOf[a])
    BY <1>0, <2>1, <2>2
  <2>5. /\ out'[a].frame = m
        /\ \A c \in Agents : c # a => out'[c] = out[c]
    BY <1>0, <2>1
  <2>6. \A c \in Agents, x \in Frames : out'[c].to # <<>> /\ out'[c].frame = x =>
          (out[c].to # <<>> /\ out[c].frame = x) \/ Response(x, TokenOf[c])
    BY <2>4, <2>5
  <2> HIDE DEF q, m
  <2>7. \A b \in Bridges : \A x \in ToSet(inbox'[b]) : x \in ToSet(inbox[b]) \/ Response(x, TokenOf[b])
    <3> DEFINE h == Head(q)
    <3>1. h \in Bridges /\ m \in Frames /\ SendTo(h, m) /\ Response(m, TokenOf[h])
      BY <2>1, <2>2, <2>3, <2>4
    <3> HIDE DEF h
    <3>2. /\ ToSet(inbox'[h]) \subseteq ToSet(inbox[h]) \cup {m}
          /\ \A c \in Bridges : c # h => inbox'[c] = inbox[c]
      BY <1>6, <3>1
    <3>3. ASSUME NEW b \in Bridges, NEW x \in ToSet(inbox'[b])
          PROVE  x \in ToSet(inbox[b]) \/ Response(x, TokenOf[b])
      <4>1. CASE b = h
        BY <3>1, <3>2, <3>3, <4>1
      <4>2. CASE b # h
        BY <3>2, <3>3, <4>2
      <4> QED
        BY <4>1, <4>2
    <3> QED
      BY <3>3
  <2> QED
    BY <1>4, <2>6, <2>7
<1>11. ASSUME NEW b \in Bridges, AckBridge(b)
       PROVE  ResponsesTraced'
  <2>1. PICK m \in Frames : SendTo(b, m) /\ m.type # "response"
    <3>1. found[b] \in Names \cup {None}
      BY <1>0 DEF FrameTypes
    <3> QED
      BY <1>11, <3>1, FrameIs DEF AckBridge
  <2>2. out' = out
    BY <1>11 DEF AckBridge
  <2>3. \A c \in Bridges : \A x \in ToSet(inbox'[c]) : x \in ToSet(inbox[c]) \/ Response(x, TokenOf[c])
    BY <1>6, <2>1 DEF Response
  <2> QED
    BY <1>4, <2>2, <2>3
<1>12. ASSUME NEW b \in Bridges, Route(b)
       PROVE  ResponsesTraced'
  <2> DEFINE r == Head(uplink[b])
  <2>1. /\ uplink[b] # <<>> /\ out' = out
        /\ \/ inbox' = inbox
           \/ \E what \in {"targets", "offline", "failed", "result"} :
                SendTo(b, [type |-> "response", id |-> r.id, of |-> r, what |-> what])
    BY <1>12 DEF Route, hub
  <2>2. r \in ToSet(uplink[b]) /\ r \in Requests
    BY <1>0, <2>1, HeadFacts
  <2>3. r.from = b /\ Traced(r)
    BY <1>0, <2>2 DEF RequestsTraced
  <2>4. CASE inbox' = inbox
    BY <1>5, <2>1, <2>4
  <2> HIDE DEF r
  <2>5. ASSUME NEW what \in {"targets", "offline", "failed", "result"}, NEW m \in Frames,
               m = [type |-> "response", id |-> r.id, of |-> r, what |-> what],
               SendTo(b, m)
        PROVE  ResponsesTraced'
    <3>1. Response(m, TokenOf[b])
      BY <2>3, <2>5 DEF Response
    <3>2. \A c \in Bridges : \A x \in ToSet(inbox'[c]) : x \in ToSet(inbox[c]) \/ Response(x, TokenOf[c])
      BY <1>6, <2>5, <3>1
    <3> QED
      BY <1>4, <2>1, <3>2
  <2> QED
    BY <2>1, <2>2, <2>4, <2>5, FrameIs
<1>13. ASSUME NEW b \in Bridges, BridgeReads(b)
       PROVE  ResponsesTraced'
  <2>1. inbox[b] # <<>> /\ inbox' = [inbox EXCEPT ![b] = Tail(@)] /\ out' = out
    BY <1>13 DEF BridgeReads, hub
  <2>2. ToSet(Tail(inbox[b])) \subseteq ToSet(inbox[b])
    BY <1>0, <2>1, HeadFacts
  <2>3. \A c \in Bridges : ToSet(inbox'[c]) \subseteq ToSet(inbox[c])
    <3>1. inbox'[b] = Tail(inbox[b]) /\ \A c \in Bridges : c # b => inbox'[c] = inbox[c]
      BY <1>0, <2>1
    <3> QED
      BY <2>2, <3>1
  <2> QED
    BY <1>4, <2>1, <2>3
<1>14. ASSUME NEW c \in Conns, Drop(c)
       PROVE  ResponsesTraced'
  <2>1. out' = out /\ (inbox' = inbox \/ inbox' = [inbox EXCEPT ![c] = <<>>])
    BY <1>14 DEF Drop
  <2>2. \A b \in Bridges : inbox'[b] = inbox[b] \/ inbox'[b] = <<>>
    BY <1>0, <2>1
  <2>3. \A b \in Bridges : ToSet(inbox'[b]) \subseteq ToSet(inbox[b])
    BY <2>2 DEF ToSet
  <2> QED
    BY <1>4, <2>1, <2>3
<1>15. CASE UNCHANGED vars \/ \E c \in Conns : Reject(c)
  BY <1>5, <1>15 DEF vars, hub, frames, Reject
<1>16. ASSUME NEW a \in Agents, AckAgent(a) \/ CleanupAgent(a) \/ \E now \in Seconds : register_agent(a, now)
       PROVE  UNCHANGED <<out, inbox>>
  BY <1>16 DEF AckAgent, CleanupAgent, register_agent, frames
<1>17. ASSUME NEW b \in Bridges, register_bridge(b) \/ LookUpAgent(b) \/ CleanupBridge(b)
       PROVE  UNCHANGED <<out, inbox>>
  BY <1>17 DEF register_bridge, LookUpAgent, CleanupBridge, frames
<1>18. ASSUME NEW b \in Bridges, NEW kind \in RequestKinds, NEW hint \in Hints, BridgeSends(b, kind, hint)
       PROVE  UNCHANGED <<out, inbox>>
  BY <1>18 DEF BridgeSends, hub
<1> QED
  BY <1>5, <1>8, <1>9, <1>10, <1>11, <1>12, <1>13, <1>14, <1>15, <1>16, <1>17, <1>18
  DEF Next, AgentTask, BridgeTask

\* The requests and the responses on their way: what every state of the relay
\* satisfies.
THEOREM RequestsInvariant == Spec => []RequestsInv
<1>1. Init => RequestsInv
  BY HubAssumption, RequestsInit
<1>2. RegistryInv /\ FramesInv /\ RequestsInv /\ [Next]_vars => RequestsInv'
  <2> SUFFICES ASSUME RegistryInv, FramesInv, RequestsInv, [Next]_vars
               PROVE  RequestsInv'
    OBVIOUS
  <2>1. FrameTypes /\ WaitingGiven
    BY DEF FramesInv, RequestsInv
  <2>2. WaitingGiven'
    BY <2>1, HubAssumption, TracedKept
  <2>3. RequestsTraced'
    BY <2>1, HubAssumption, RequestsTracedStep
  <2>4. ResponsesTraced'
    BY HubAssumption, ResponsesTracedStep
  <2> QED
    BY <2>2, <2>3, <2>4 DEF RequestsInv
<1> QED
  BY <1>1, <1>2, RegistryInvariant, FramesInvariant, PTL DEF Spec

\* The relay's type invariant.
THEOREM HubTypes == Spec => []TypeOK
<1>1. RegistryInv /\ FramesInv /\ RequestsInv => TypeOK
  <2> SUFFICES ASSUME RegistryInv, FramesInv, RequestsInv
               PROVE  TypeOK
    OBVIOUS
  <2> USE DEF RegistryInv, RegistryTypes, FramesInv, FrameTypes
  <2>1. \A t \in Tokens : Registered(t) \subseteq Agents /\ ToSet(bridges[t]) \subseteq Bridges
    BY DEF Members
  <2>2. \A a \in Agents : ToSet(out[a].to) \subseteq Bridges
    BY ToSetFacts
  <2>3. \A a \in Agents : \A r \in work[a] : r.from \in Bridges /\ r.id \in 1 .. next_id[ClientOf[r.from]] - 1
    BY DEF RequestsInv, RequestsTraced, Traced, Requests
  <2> QED
    BY <2>1, <2>2, <2>3 DEF TypeOK
<1> QED
  BY <1>1, RegistryInvariant, FramesInvariant, RequestsInvariant, PTL

Accepted == [of : Requests, what : {"targets", "offline", "failed", "result"}]

OwnInv ==
  /\ accepted \in [Bridges -> SUBSET Accepted]
  /\ OwnResponses

\* A response that a bridge accepts is to a request of its token, and of its
\* own connection if its client made the request.
LEMMA OwnStep ==
  ASSUME HubAssumption, FramesInv, RequestsInv, OwnInv, [Next]_vars
  PROVE  OwnInv'
<1>0. /\ inbox \in [Bridges -> Seq(Frames)]
      /\ \A b \in Bridges : \A m \in ToSet(inbox[b]) : Response(m, TokenOf[b])
  BY DEF FramesInv, FrameTypes, RequestsInv, ResponsesTraced
<1>1. ASSUME NEW b \in Bridges, BridgeReads(b)
      PROVE  OwnInv'
  <2> DEFINE m == Head(inbox[b])
  <2>1. m \in ToSet(inbox[b]) /\ m \in Frames
    <3>1. inbox[b] # <<>>
      BY <1>1 DEF BridgeReads
    <3> QED
      BY <1>0, <3>1, HeadFacts
  <2>2. \/ accepted' = accepted
        \/ /\ m.type = "response" /\ m.id \in waiting[b]
           /\ accepted' = [accepted EXCEPT ![b] = @ \cup {[of |-> m.of, what |-> m.what]}]
    BY <1>1 DEF BridgeReads, OwnInv
  <2> HIDE DEF m
  <2>3. CASE accepted' = accepted
    BY <2>3 DEF OwnInv, OwnResponses
  <2>4. CASE /\ m.type = "response" /\ m.id \in waiting[b]
             /\ accepted' = [accepted EXCEPT ![b] = @ \cup {[of |-> m.of, what |-> m.what]}]
    <3> DEFINE x == [of |-> m.of, what |-> m.what]
    <3>1. m.of \in Requests /\ x \in Accepted /\ x.of = m.of
      BY <2>1, <2>4 DEF Frames, Accepted
    <3>2. TokenOf[m.of.from] = TokenOf[b] /\ m.of.id = m.id /\ Traced(m.of)
      BY <1>0, <2>1, <2>4 DEF Response
    <3>3. TokenOf[m.of.from] = TokenOf[b] /\ (ClientOf[m.of.from] = ClientOf[b] => m.of.from = b)
      BY <2>4, <3>1, <3>2 DEF Traced, Requests
    <3> HIDE DEF x
    <3>4. accepted' = [accepted EXCEPT ![b] = @ \cup {x}]
      BY <2>4 DEF x
    <3>5. accepted' \in [Bridges -> SUBSET Accepted]
      BY <3>1, <3>4 DEF OwnInv
    <3>6. \A c \in Bridges : \A y \in accepted'[c] : y \in accepted[c] \/ (c = b /\ y = x)
      BY <3>4 DEF OwnInv
    <3>7. OwnResponses'
      BY <3>1, <3>3, <3>6 DEF OwnInv, OwnResponses
    <3> QED
      BY <3>5, <3>7 DEF OwnInv
  <2> QED
    BY <2>2, <2>3, <2>4
<1>2. CASE accepted' = accepted
  BY <1>2 DEF OwnInv, OwnResponses
<1>3. CASE UNCHANGED vars \/ \E c \in Conns : Reject(c) \/ Drop(c)
  BY <1>2, <1>3 DEF vars, ends, Reject, Drop
<1>4. ASSUME NEW a \in Agents, AgentTask(a) \/ \E now \in Seconds : register_agent(a, now)
      PROVE  accepted' = accepted
  BY <1>4 DEF AgentTask, AnnounceAgent, AckAgent, Deliver, ForwardResponse, CleanupAgent,
              notify_bridges_agent_gone, register_agent, ends
<1>5. ASSUME NEW b \in Bridges, register_bridge(b) \/ BridgeTask(b)
      PROVE  accepted' = accepted
  BY <1>5 DEF register_bridge, BridgeTask, LookUpAgent, AckBridge, Route, CleanupBridge, ends
<1>6. ASSUME NEW b \in Bridges, NEW kind \in RequestKinds, NEW hint \in Hints, BridgeSends(b, kind, hint)
      PROVE  accepted' = accepted
  BY <1>6 DEF BridgeSends
<1> QED
  BY <1>1, <1>2, <1>3, <1>4, <1>5, <1>6 DEF Next

\* What a bridge accepts answers a request of its token, and of all the
\* requests of its AgentClient one of its own connection, however late the
\* answer to an earlier connection's request comes: the counter never repeats.
\* Of another client's requests nothing is claimed: each counts from 1, and a
\* response goes to every bridge of the token.
THEOREM ResponsesAreOwn == Spec => []OwnResponses
<1>1. Init => OwnInv
  BY DEF Init, OwnInv, OwnResponses
<1>2. FramesInv /\ RequestsInv /\ OwnInv /\ [Next]_vars => OwnInv'
  BY HubAssumption, OwnStep
<1>3. OwnInv => OwnResponses
  BY DEF OwnInv
<1> QED
  BY <1>1, <1>2, <1>3, FramesInvariant, RequestsInvariant, PTL DEF Spec

-----------------------------------------------------------------------------
(* The sockets.  Full ones halt them: which frames can be on which hop     *)
(* makes the shape of a halt.                                              *)

\* The frames of each hop, and what its reader sends onward.
Returned == {"done", "data", "result", "output"}
FramesOn ==
  [up1 |-> Questions \cup {"pong"}, up2 |-> (Questions \ {"list"}) \cup {"ping"},
   down1 |-> Returned \cup {"pong"}, down2 |-> Returned \cup {"targets", "ping"}]
SendsFrom ==
  [up1 |-> (Questions \ {"list"}) \cup {"targets", "none"}, up2 |-> {"pong", "none"},
   down1 |-> Returned \cup {"none"}, down2 |-> {"pong", "none"}]
SocketFrames == Questions \cup Answers \cup {"output", "ping", "pong"}

RingTypes ==
  /\ socket \in [Hops -> Seq(SocketFrames)]
  /\ sending \in [Hops -> Questions \cup Answers \cup {"output", "pong", "none"}]
  /\ tasks \in [Answers -> Nat] /\ tasks["targets"] = 0
  /\ \A h \in Hops : socket[h] \in Seq(FramesOn[h]) /\ sending[h] \in SendsFrom[h]

\* What the reader of each hop does with a frame.
LEMMA Reacts ==
  ASSUME NEW h \in Hops, NEW frame \in FramesOn[h]
  PROVE  /\ Reaction(h, frame) \in SendsFrom[h]
         /\ Reaction(h, frame) \in {frame, "targets", "pong", "none"}
         /\ frame \in Questions /\ Reaction(h, frame) = "none" => h = "up2"
         /\ h = "up2" => frame # "list"
  BY DEF Hops, FramesOn, SendsFrom, Reaction, Forwards, Questions, Answers, Returned

\* The kinds of frame on each hop after a step.
LEMMA RingTypesStep ==
  ASSUME RingTypes, [SocketsNext]_socketVars
  PROVE  RingTypes'
<1> USE DEF RingTypes
<1>0. \A h \in Hops : FramesOn[h] \subseteq SocketFrames
  BY DEF Hops, FramesOn, SocketFrames, Returned, Answers
<1>1. ASSUME NEW k \in Questions, CallSends(k)
      PROVE  RingTypes'
  <2>1. k \in FramesOn["up1"] /\ k \in SocketFrames /\ "up1" \in Hops
    BY DEF FramesOn, SocketFrames, Hops
  <2>2. /\ socket' = [socket EXCEPT !["up1"] = Append(socket["up1"], k)]
        /\ sending' = sending /\ tasks' = tasks
    BY <1>1 DEF CallSends, Send
  <2>3. /\ Append(socket["up1"], k) \in Seq(FramesOn["up1"])
        /\ Append(socket["up1"], k) \in Seq(SocketFrames)
    BY <2>1, AppendProperties
  <2> QED
    BY <2>1, <2>2, <2>3
<1>2. ASSUME NEW k \in Answers, TaskSends(k)
      PROVE  RingTypes'
  <2>0. k # "targets"
    BY <1>2 DEF TaskSends
  <2>1. k \in FramesOn["down1"] /\ k \in SocketFrames /\ "down1" \in Hops
    BY <2>0 DEF FramesOn, SocketFrames, Hops, Returned, Answers
  <2>2. /\ socket' = [socket EXCEPT !["down1"] = Append(socket["down1"], k)]
        /\ sending' = sending /\ tasks' = [tasks EXCEPT ![k] = tasks[k] - 1] /\ tasks[k] > 0
    BY <1>2 DEF TaskSends, Send
  <2>3. /\ Append(socket["down1"], k) \in Seq(FramesOn["down1"])
        /\ Append(socket["down1"], k) \in Seq(SocketFrames)
    BY <2>1, AppendProperties
  <2>4. tasks' \in [Answers -> Nat] /\ tasks'["targets"] = 0
    BY <2>0, <2>2 DEF Answers
  <2> QED
    BY <2>1, <2>2, <2>3, <2>4
<1>3. ASSUME NEW h \in Hops, Reads(h)
      PROVE  RingTypes'
  <2> DEFINE frame == Head(socket[h])
  <2>1. /\ socket[h] # <<>>
        /\ socket' = [socket EXCEPT ![h] = Tail(socket[h])]
        /\ sending' = [sending EXCEPT ![h] = Reaction(h, frame)]
        /\ tasks' = IF h = "up2" /\ frame \in Questions /\ Reaction(h, frame) = "none"
                    THEN [tasks EXCEPT ![AnswerTo[frame]] = tasks[AnswerTo[frame]] + 1] ELSE tasks
    BY <1>3 DEF Reads
  <2>2. /\ frame \in FramesOn[h]
        /\ Tail(socket[h]) \in Seq(FramesOn[h])
        /\ Tail(socket[h]) \in Seq(SocketFrames)
    BY <2>1, HeadTailProperties
  <2>3. Reaction(h, frame) \in SendsFrom[h]
    BY <2>2, Reacts
  <2>4. SendsFrom[h] \subseteq Questions \cup Answers \cup {"output", "pong", "none"}
    BY DEF Hops, SendsFrom, Returned, Answers
  <2>5. tasks' \in [Answers -> Nat] /\ tasks'["targets"] = 0
    <3>1. frame \in Questions => AnswerTo[frame] \in Answers
      BY DEF Questions, Answers, AnswerTo
    <3>2. h = "up2" /\ frame \in Questions => AnswerTo[frame] # "targets"
      <4>1. h = "up2" => frame # "list"
        BY <2>2, Reacts
      <4> HIDE DEF frame
      <4> QED
        BY <4>1 DEF Questions, AnswerTo
    <3> HIDE DEF frame
    <3> QED
      BY <2>1, <3>1, <3>2 DEF Answers
  <2> HIDE DEF frame
  <2>6. /\ sending' \in [Hops -> Questions \cup Answers \cup {"output", "pong", "none"}]
        /\ \A g \in Hops : sending'[g] \in SendsFrom[g]
    BY <2>1, <2>3, <2>4
  <2>7. /\ socket' \in [Hops -> Seq(SocketFrames)]
        /\ \A g \in Hops : socket'[g] \in Seq(FramesOn[g])
    BY <2>1, <2>2
  <2> QED
    BY <2>5, <2>6, <2>7
<1>4. ASSUME NEW h \in Hops, ReaderSends(h)
      PROVE  RingTypes'
  <2> DEFINE on == To(h)
             frame == sending[h]
  <2>1. /\ frame # "none"
        /\ socket' = [socket EXCEPT ![on] = Append(socket[on], frame)]
        /\ sending' = [sending EXCEPT ![h] = "none"]
        /\ tasks' = tasks
    BY <1>4 DEF ReaderSends, Send
  <2>2. on \in Hops /\ frame \in FramesOn[on]
    BY <2>1 DEF To, Hops, Onward, FramesOn, SendsFrom, Returned, Questions
  <2>3. "none" \in SendsFrom[h]
    BY DEF Hops, SendsFrom
  <2> HIDE DEF on, frame
  <2>4. /\ Append(socket[on], frame) \in Seq(FramesOn[on])
        /\ Append(socket[on], frame) \in Seq(SocketFrames)
    BY <1>0, <2>2, AppendProperties
  <2> QED
    BY <2>1, <2>2, <2>3, <2>4
<1>5. ASSUME NEW h \in DOMAIN PongBack, KeepAlive(h)
      PROVE  RingTypes'
  <2>1. h \in Hops /\ "ping" \in FramesOn[h] /\ "ping" \in SocketFrames
    BY DEF PongBack, Hops, FramesOn, SocketFrames
  <2>2. /\ socket' = [socket EXCEPT ![h] = Append(socket[h], "ping")]
        /\ sending' = sending /\ tasks' = tasks
    BY <1>5 DEF KeepAlive, Send
  <2>3. /\ Append(socket[h], "ping") \in Seq(FramesOn[h])
        /\ Append(socket[h], "ping") \in Seq(SocketFrames)
    BY <2>1, AppendProperties
  <2> QED
    BY <2>1, <2>2, <2>3
<1>6. ASSUME TaskPrints
      PROVE  RingTypes'
  <2>1. "down1" \in Hops /\ "output" \in FramesOn["down1"] /\ "output" \in SocketFrames
    BY DEF Hops, FramesOn, SocketFrames, Returned
  <2>2. /\ socket' = [socket EXCEPT !["down1"] = Append(socket["down1"], "output")]
        /\ sending' = sending /\ tasks' = tasks
    BY <1>6 DEF TaskPrints, Send
  <2>3. /\ Append(socket["down1"], "output") \in Seq(FramesOn["down1"])
        /\ Append(socket["down1"], "output") \in Seq(SocketFrames)
    BY <2>1, AppendProperties
  <2> QED
    BY <2>1, <2>2, <2>3
<1>7. CASE UNCHANGED socketVars
  BY <1>7 DEF socketVars
<1> QED
  BY <1>1, <1>2, <1>3, <1>4, <1>5, <1>6, <1>7 DEF SocketsNext

\* The sockets begin empty.
LEMMA RingInit ==
  ASSUME SocketsInit
  PROVE  RingTypes
<1>1. \A S : <<>> \in Seq(S)
  BY EmptySeq
<1>2. \A h \in Hops : "none" \in SendsFrom[h]
  BY DEF Hops, SendsFrom
<1>3. "targets" \in Answers
  BY DEF Answers
<1> QED
  BY <1>1, <1>2, <1>3 DEF RingTypes, SocketsInit

\* A full socket is not empty.
LEMMA FullHop ==
  ASSUME SocketsAssumption, NEW h \in Hops, ~Room(h)
  PROVE  socket[h] # <<>>
<1> SUFFICES ASSUME socket[h] = <<>>
             PROVE  FALSE
  OBVIOUS
<1>1. Len(socket[h]) = 0 /\ ToSet(socket[h]) = {}
  BY EmptySeq DEF ToSet
<1>2. 0 < SmallFrames
  BY DEF SocketsAssumption
<1> QED
  BY <1>1, <1>2 DEF Room

\* At a halt who has something to send waits for a reader that has, too, so
\* that the waiting goes on to the bridge's read loop, and from there to the
\* relay's task of the bridge and, unless the relay answers itself, round the
\* ring: only pongs are sent by the two read loops.
LEMMA HaltShape ==
  ASSUME SocketsAssumption, RingTypes
  PROVE  StuckOnlyOnPongs
<1> SUFFICES ASSUME Stuck
             PROVE  sending["down2"] = "pong" /\ (sending["up2"] = "pong" \/ sending["up1"] = "targets")
  BY DEF StuckOnlyOnPongs
<1>1. /\ Hops = {"up1", "up2", "down1", "down2"}
      /\ Onward["up1"] = "up2" /\ Onward["up2"] = "down1"
      /\ Onward["down1"] = "down2" /\ Onward["down2"] = "up1"
  BY DEF Hops, Onward
<1>2. /\ sending["up2"] \in {"pong", "none"} /\ sending["down2"] \in {"pong", "none"}
      /\ sending["down1"] # "targets"
  BY <1>1 DEF RingTypes, SendsFrom, Returned
<1>3. \A h \in Hops : sending[h] # "none" => ~Room(To(h))
  BY DEF Stuck
<1>4. \A h \in Hops : ~Room(h) => sending[h] # "none"
  <2>1. \A h \in Hops : sending[h] = "none" => socket[h] = <<>>
    BY DEF Stuck
  <2> QED
    BY <2>1, FullHop
<1>5. To("up2") = "down1" \/ sending["up2"] = "none"
  BY <1>1, <1>2 DEF To
<1>6. To("down1") = "down2"
  BY <1>1, <1>2 DEF To
<1>7. To("down2") = "up1" \/ sending["down2"] = "none"
  BY <1>1, <1>2 DEF To
<1>8. To("up1") = IF sending["up1"] = "targets" THEN "down2" ELSE "up2"
  BY <1>1 DEF To
<1>9. sending["down2"] # "none"
  <2>1. sending["down1"] # "none" => sending["down2"] # "none"
    BY <1>1, <1>3, <1>4, <1>6
  <2>2. sending["up2"] # "none" => sending["down1"] # "none"
    BY <1>1, <1>3, <1>4, <1>5
  <2>3. sending["up1"] # "none" => sending["up2"] # "none" \/ sending["down2"] # "none"
    BY <1>1, <1>3, <1>4, <1>8
  <2>4. \E h \in Hops : sending[h] # "none"
    BY DEF Stuck
  <2> QED
    BY <1>1, <2>1, <2>2, <2>3, <2>4
<1>10. sending["up1"] # "none"
  BY <1>1, <1>3, <1>4, <1>7, <1>9
<1>11. sending["up1"] = "targets" \/ sending["up2"] # "none"
  BY <1>1, <1>3, <1>4, <1>8, <1>10
<1> QED
  BY <1>2, <1>9, <1>11

\* The frames of the ring, each hop with its own kinds, for every number of
\* calls: requests run from the bridge to the agent, answers and output back,
\* and a peer's read loop sends pongs only.
THEOREM RingInvariant == SocketsSpec => []RingTypes
<1>1. SocketsInit => RingTypes
  BY RingInit
<1>2. RingTypes /\ [SocketsNext]_socketVars => RingTypes'
  BY RingTypesStep
<1> QED
  BY <1>1, <1>2, PTL DEF SocketsSpec

\* The read loops never await a handler (conn.rs), so the sockets halt in two
\* shapes only, for every number of calls and every size of the sockets: the
\* bridge's read loop waits to answer a ping, and either the agent's does so
\* too or the relay waits with an answer of its own.
THEOREM HaltsOnPongs == SocketsSpec => []StuckOnlyOnPongs
<1>1. RingTypes => StuckOnlyOnPongs
  BY SocketsAssumption, HaltShape
<1> QED
  BY <1>1, RingInvariant, PTL

\* Either part of the relay's specification is a behaviour of the part alone,
\* so what is proved of the maps and tasks (Spec) or of the sockets
\* (SocketsSpec) holds of both side by side.
THEOREM PartsAlone == RelaySpec => Spec /\ SocketsSpec
<1>1. RelayInit => Init /\ SocketsInit
  BY DEF RelayInit
<1>2. [RelayNext]_relayVars => [Next]_vars /\ [SocketsNext]_socketVars
  BY DEF RelayNext, relayVars
<1> QED
  BY <1>1, <1>2, PTL DEF RelaySpec, Spec, SocketsSpec

\* The relay's maps, tasks and frames, and the sockets, keep their types.
THEOREM PartsTypes == RelaySpec => []PartsTypeOK
<1>1. SocketsSpec => []SocketsTypeOK
  <2>1. RingTypes => SocketsTypeOK
    BY DEF RingTypes, SocketsTypeOK, SocketFrames
  <2> QED
    BY <2>1, RingInvariant, PTL
<1>2. TypeOK /\ SocketsTypeOK => PartsTypeOK
  BY DEF PartsTypeOK
<1> QED
  BY <1>1, <1>2, HubTypes, PartsAlone, PTL

=============================================================================
