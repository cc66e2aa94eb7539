------------------------- MODULE FileTransferProofs -------------------------
(***************************************************************************)
(* upload_file replaces its file at once or not at all, as far as crashes  *)
(* of the target leave it whole, for any number of uploads and downloads,  *)
(* files of any size and any number of faults and crashes.                 *)
(***************************************************************************)
EXTENDS FileTransfer, TLAPS

UploadTypeOK ==
  /\ remote \in Content /\ ondisk \subseteq Content
  /\ exposed \subseteq Uploads
  /\ temp \in [Uploads -> Content \cup {NoFile}]
  /\ phase \in [Uploads -> Calling \cup Ended \cup {"idle"}]
  /\ answer \in [Uploads -> {"none", "ok", "error"}]
  /\ offset \in [Uploads -> Nat]
  /\ late \in [Uploads -> SUBSET Calling]
  /\ renamed \subseteq Uploads

\* The first n chunks of u.
Begun(u, n) == [k \in 1 .. n |-> u]

\* The files that may hold the first n chunks of u, if the uploads e were
\* called before a crash.
Stored(e, u, n) == IF u \in e THEN Damages(Begun(u, n)) \cup {NoFile} ELSE {Begun(u, n)}

\* What the file at remote_temp is while a request of u is waited for: the
\* chunks acknowledged, and the chunk written before its answer comes.
TempFollows(u) ==
  /\ phase[u] = "create" /\ answer[u] = "ok" => temp[u] \in Stored(exposed, u, 0)
  /\ phase[u] = "write" /\ answer[u] = "none" => temp[u] \in Stored(exposed, u, offset[u])
  /\ phase[u] = "write" /\ answer[u] = "ok" => temp[u] \in Stored(exposed, u, offset[u] + 1)
  /\ phase[u] = "truncate" /\ answer[u] # "error" => temp[u] \in Stored(exposed, u, offset[u])
  /\ phase[u] = "rename" /\ answer[u] = "none" => temp[u] \in Stored(exposed, u, Size[u])

OffsetFollows(u) ==
  /\ phase[u] \in {"idle", "create"} => offset[u] = 0
  /\ phase[u] = "write" => offset[u] < Size[u]
  /\ phase[u] \in {"truncate", "rename"} => offset[u] = Size[u]

\* The file is replaced at most once, and before success is reported.
RenamedOnce(u) ==
  /\ phase[u] \in {"idle", "create", "write", "truncate"} => u \notin renamed
  /\ phase[u] = "rename" => (u \in renamed <=> answer[u] = "ok")
  /\ phase[u] = "ok" => u \in renamed
  /\ u \in renamed => "rename" \notin late[u]

\* Requests are late only when the upload does no more than clean up, and
\* then a rename finds the complete file or none.
LateIsHarmless(u) ==
  /\ late[u] # {} => phase[u] \in {"remove", "error", "dead"}
  /\ \E q \in Calling : late[u] \subseteq {q, "remove"}
  /\ "rename" \in late[u] => temp[u] \in Stored(exposed, u, Size[u]) \cup {NoFile}
  /\ late[u] \cap {"write", "truncate"} # {} => temp[u] = NoFile \/ Len(temp[u]) >= offset[u]

AnswerIsAwaited(u) == answer[u] # "none" => phase[u] \in Calling

UploadInv(u) ==
  /\ TempFollows(u) /\ OffsetFollows(u) /\ RenamedOnce(u)
  /\ LateIsHarmless(u) /\ AnswerIsAwaited(u)

TransferInv == UploadTypeOK /\ \A u \in Uploads : UploadInv(u)

-----------------------------------------------------------------------------
\* Files are sequences, and a file is there only if it is not NoFile.
LEMMA FileFacts ==
  ASSUME NEW u \in Uploads, NEW n \in Nat
  PROVE  /\ Begun(u, n) \in Content /\ Len(Begun(u, n)) = n
         /\ Begun(u, n) # NoFile
         /\ <<>> \in Content /\ Begun(u, 0) = <<>>
         /\ Complete(u) = Begun(u, Size[u]) /\ Size[u] \in Nat
<1>1. Begun(u, n) \in Content /\ Len(Begun(u, n)) = n
  BY DEF Begun, Content, Sources
<1>2. Begun(u, n) # NoFile
  BY <1>1, TransferAssumption DEF Content
<1>3. <<>> \in Content /\ Begun(u, 0) = <<>>
  BY DEF Begun, Content
<1>4. Complete(u) = Begun(u, Size[u]) /\ Size[u] \in Nat
  BY TransferAssumption DEF Complete, Begun, Sources
<1> QED
  BY <1>1, <1>2, <1>3, <1>4

\* What is left of a file of n chunks is one of n chunks.
LEMMA DamageFacts ==
  ASSUME NEW S, NEW f \in Seq(S), NEW g \in Damages(f)
  PROVE  /\ g \in Seq(S \cup {Lost}) /\ Len(g) = Len(f)
         /\ \A k \in 1 .. Len(f) : g[k] \in {f[k], Lost}
         /\ f \in Damages(f)
         /\ Damages(g) \subseteq Damages(f)
<1>1. PICK gone \in SUBSET DOMAIN f : g = [k \in DOMAIN f |-> IF k \in gone THEN Lost ELSE f[k]]
  BY DEF Damages
<1>2. DOMAIN f = 1 .. Len(f) /\ Len(f) \in Nat /\ \A k \in 1 .. Len(f) : f[k] \in S
  OBVIOUS
<1>3. /\ g \in Seq(S \cup {Lost}) /\ Len(g) = Len(f)
      /\ \A k \in 1 .. Len(f) : g[k] \in {f[k], Lost}
  BY <1>1, <1>2
<1>4. f \in Damages(f)
  <2>1. f = [k \in DOMAIN f |-> IF k \in {} THEN Lost ELSE f[k]]
    BY <1>2
  <2>2. {} \in SUBSET DOMAIN f
    OBVIOUS
  <2>3. \E none \in SUBSET DOMAIN f : f = [k \in DOMAIN f |-> IF k \in none THEN Lost ELSE f[k]]
    BY <2>1, <2>2
  <2> QED
    BY <2>3 DEF Damages
<1>5. ASSUME NEW h \in Damages(g) PROVE h \in Damages(f)
  <2>1. PICK more \in SUBSET DOMAIN g : h = [k \in DOMAIN g |-> IF k \in more THEN Lost ELSE g[k]]
    BY DEF Damages
  <2>2. DOMAIN g = DOMAIN f
    BY <1>1
  <2>3. gone \cup more \in SUBSET DOMAIN f
    BY <2>2
  <2>4. h = [k \in DOMAIN f |-> IF k \in gone \cup more THEN Lost ELSE f[k]]
    BY <1>1, <2>1, <2>2
  <2> QED
    BY <2>3, <2>4 DEF Damages
<1> QED
  BY <1>3, <1>4, <1>5

\* A file of u's chunks: there it has n of them.
LEMMA StoredFacts ==
  ASSUME NEW e, NEW u \in Uploads, NEW n \in Nat, NEW f \in Stored(e, u, n)
  PROVE  /\ f \in Content \cup {NoFile}
         /\ f # NoFile => /\ f \in Content /\ Len(f) = n
                          /\ f \in Damages(Begun(u, n))
                          /\ Damages(f) \subseteq Damages(Begun(u, n))
         /\ u \notin e => f = Begun(u, n) /\ f # NoFile
<1>1. Begun(u, n) \in Seq(Sources \cup {Torn}) /\ Len(Begun(u, n)) = n /\ Begun(u, n) # NoFile
  BY FileFacts DEF Begun, Sources
<1>2. Begun(u, n) \in Damages(Begun(u, n))
  <2>1. PICK g : g \in Damages(Begun(u, n))
    BY DEF Damages
  <2> QED
    BY <1>1, <2>1, DamageFacts
<1>3. f # NoFile => f \in Damages(Begun(u, n))
  BY <1>2 DEF Stored
<1>4. f # NoFile => /\ f \in Seq((Sources \cup {Torn}) \cup {Lost}) /\ Len(f) = n
                    /\ Damages(f) \subseteq Damages(Begun(u, n))
  BY <1>1, <1>3, DamageFacts
<1>5. (Sources \cup {Torn}) \cup {Lost} = Sources \cup {Torn, Lost}
  OBVIOUS
<1>6. u \notin e => f = Begun(u, n)
  BY DEF Stored
<1> QED
  BY <1>1, <1>3, <1>4, <1>5, <1>6 DEF Content

\* Files are damaged to files of the same length.
LEMMA ContentDamages ==
  ASSUME NEW f \in Content
  PROVE  /\ Damages(f) \subseteq Content
         /\ \A g \in Damages(f) : Len(g) = Len(f)
<1>1. (Sources \cup {Torn, Lost}) \cup {Lost} = Sources \cup {Torn, Lost}
  OBVIOUS
<1> QED
  BY <1>1, DamageFacts DEF Content

\* An empty file is what an upload begins with.
LEMMA EmptyStored ==
  ASSUME NEW e, NEW u \in Uploads
  PROVE  <<>> \in Stored(e, u, 0)
<1>1. Begun(u, 0) = <<>>
  BY FileFacts
<1>2. <<>> \in Damages(<<>>)
  <2>1. PICK g : g \in Damages(<<>>)
    BY DEF Damages
  <2>2. <<>> \in Seq(Sources)
    OBVIOUS
  <2> QED
    BY <2>1, <2>2, DamageFacts
<1> QED
  BY <1>1, <1>2 DEF Stored

\* A stored file that is there.
LEMMA StoredLength ==
  ASSUME NEW e, NEW u \in Uploads, NEW n \in Nat, NEW f \in Stored(e, u, n), f # NoFile
  PROVE  f \in Content /\ Len(f) = n
BY StoredFacts

\* The file of an upload that has sent everything.
LEMMA StoredComplete ==
  ASSUME NEW e, NEW u \in Uploads, NEW f \in Stored(e, u, Size[u]), f # NoFile
  PROVE  f \in Damages(Complete(u))
<1>1. Size[u] \in Nat /\ Complete(u) = Begun(u, Size[u])
  BY TransferAssumption DEF Complete, Begun, Sources
<1>2. \A n \in Nat : f \in Stored(e, u, n) => f \in Damages(Begun(u, n))
  BY StoredFacts
<1> QED
  BY <1>1, <1>2

\* Writing chunk k of a file that has those before it.
LEMMA PutFacts ==
  ASSUME NEW f \in Content, NEW k \in Nat \ {0}, Len(f) >= k - 1,
         NEW c \in Sources \cup {Torn}
  PROVE  PutAt(f, k, c) \in Content /\ Len(PutAt(f, k, c)) = k
<1>1. \A i \in 1 .. k : (IF i = k THEN c ELSE f[i]) \in Sources \cup {Torn, Lost}
  BY DEF Content
<1> QED
  BY <1>1 DEF PutAt, Content

\* The chunk after those an upload has sent makes its file one chunk longer.
LEMMA PutStored ==
  ASSUME NEW e, NEW u \in Uploads, NEW n \in Nat, NEW f \in Stored(e, u, n), f # NoFile
  PROVE  PutAt(f, n + 1, u) \in Stored(e, u, n + 1)
<1>1. PutAt(Begun(u, n), n + 1, u) = Begun(u, n + 1)
  BY DEF PutAt, Begun
<1>2. CASE u \notin e
  BY <1>1, <1>2 DEF Stored
<1>3. CASE u \in e
  <2>1. PICK gone \in SUBSET (1 .. n) : f = [k \in 1 .. n |-> IF k \in gone THEN Lost ELSE u]
    BY <1>3 DEF Stored, Damages, Begun
  <2>2. PutAt(f, n + 1, u) = [k \in 1 .. n + 1 |-> IF k \in gone THEN Lost ELSE u]
    BY <2>1 DEF PutAt
  <2>3. gone \in SUBSET (1 .. n + 1)
    BY <2>1
  <2>4. /\ DOMAIN Begun(u, n + 1) = 1 .. n + 1
        /\ PutAt(f, n + 1, u) = [k \in 1 .. n + 1 |-> IF k \in gone THEN Lost ELSE Begun(u, n + 1)[k]]
    BY <2>2 DEF Begun
  <2>5. PutAt(f, n + 1, u) \in Damages(Begun(u, n + 1))
    BY <2>3, <2>4 DEF Damages
  <2> QED
    BY <1>3, <2>5 DEF Stored
<1> QED
  BY <1>2, <1>3

\* A file cut to a length it has.
LEMMA CutFacts ==
  ASSUME NEW f \in Content, NEW n \in Nat, Len(f) >= n
  PROVE  SubSeq(f, 1, n) \in Content /\ Len(SubSeq(f, 1, n)) = n
BY DEF Content

\* Cutting an upload's file to the chunks it has sent leaves it as it is.
LEMMA CutStored ==
  ASSUME NEW e, NEW u \in Uploads, NEW n \in Nat, NEW f \in Stored(e, u, n), f # NoFile
  PROVE  SubSeq(f, 1, n) = f
<1>1. f \in Content /\ Len(f) = n
  BY StoredFacts
<1> QED
  BY <1>1 DEF Content

-----------------------------------------------------------------------------
\* Nothing changes for an upload that does not move.
LEMMA OtherUploadsKeep ==
  ASSUME NEW v, UploadInv(v),
         temp'[v] = temp[v], phase'[v] = phase[v], answer'[v] = answer[v],
         offset'[v] = offset[v], late'[v] = late[v], v \in renamed' <=> v \in renamed,
         exposed' = exposed
  PROVE  UploadInv(v)'
BY DEF UploadInv, TempFollows, OffsetFollows, RenamedOnce, LateIsHarmless, AnswerIsAwaited

\* The agent carries out the request that is waited for.
LEMMA AgentServesKeeps ==
  ASSUME TransferInv, NEW u \in Uploads, AgentServes(u)
  PROVE  TransferInv'
<1> USE DEF TransferInv
<1>1. /\ phase[u] \in Calling /\ answer[u] = "none" /\ late[u] \subseteq Calling
      /\ offset[u] \in Nat /\ Size[u] \in Nat
  BY FileFacts DEF AgentServes, Waits, UploadTypeOK
<1>2. /\ answer' = [answer EXCEPT ![u] = "ok"] /\ answer'[u] = "ok"
      /\ UNCHANGED <<phase, offset, late>>
  BY DEF AgentServes, UploadTypeOK
<1>3. UploadInv(u)
  OBVIOUS
<1>4. CASE phase[u] = "create"
  <2>1. temp' = [temp EXCEPT ![u] = <<>>] /\ UNCHANGED <<remote, ondisk, exposed, renamed>>
    BY <1>4 DEF AgentServes, Handle, write_file, destination
  <2>2. UploadTypeOK'
    BY <1>2, <2>1, FileFacts DEF UploadTypeOK
  <2>3. UploadInv(u)'
    BY <1>1, <1>2, <1>3, <1>4, <2>1, EmptyStored
    DEF UploadInv, TempFollows, OffsetFollows, RenamedOnce, LateIsHarmless, AnswerIsAwaited, UploadTypeOK
  <2>4. \A v \in Uploads \ {u} : UploadInv(v)'
    BY <1>2, <2>1, OtherUploadsKeep DEF UploadTypeOK
  <2> QED
    BY <2>2, <2>3, <2>4
<1>5. CASE phase[u] = "write"
  <2>1. temp' = [temp EXCEPT ![u] = PutAt(@, offset[u] + 1, u)] /\ UNCHANGED <<remote, ondisk, exposed, renamed>>
    BY <1>5 DEF AgentServes, Handle, write_at, destination
  <2>2. temp[u] \in Stored(exposed, u, offset[u]) /\ temp[u] # NoFile
    BY <1>1, <1>3, <1>5 DEF UploadInv, TempFollows, AgentServes, Handle, write_at
  <2>3. temp'[u] \in Stored(exposed, u, offset[u] + 1) /\ temp'[u] \in Content
    <3>1. temp'[u] = PutAt(temp[u], offset[u] + 1, u)
      BY <2>1 DEF UploadTypeOK
    <3>2. temp[u] \in Content /\ Len(temp[u]) = offset[u]
      BY <1>1, <2>2, StoredLength
    <3> QED
      BY <1>1, <2>2, <3>1, <3>2, PutStored, PutFacts DEF Sources
  <2>4. UploadTypeOK'
    BY <1>2, <2>1, <2>3 DEF UploadTypeOK
  <2>5. UploadInv(u)'
    BY <1>1, <1>2, <1>3, <1>5, <2>1, <2>3
    DEF UploadInv, TempFollows, OffsetFollows, RenamedOnce, LateIsHarmless, AnswerIsAwaited
  <2>6. \A v \in Uploads \ {u} : UploadInv(v)'
    BY <1>2, <2>1, OtherUploadsKeep DEF UploadTypeOK
  <2> QED
    BY <2>4, <2>5, <2>6
<1>6. CASE phase[u] = "truncate"
  <2>1. temp' = [temp EXCEPT ![u] = SubSeq(@, 1, offset[u])] /\ UNCHANGED <<remote, ondisk, exposed, renamed>>
    BY <1>6 DEF AgentServes, Handle, truncate, destination
  <2>2. temp[u] \in Stored(exposed, u, offset[u]) /\ temp[u] # NoFile
    BY <1>1, <1>3, <1>6 DEF UploadInv, TempFollows, AgentServes, Handle, truncate
  <2>3. temp'[u] \in Stored(exposed, u, offset[u]) /\ temp'[u] \in Content
    <3>1. temp'[u] = SubSeq(temp[u], 1, offset[u])
      BY <2>1 DEF UploadTypeOK
    <3>2. temp'[u] = temp[u]
      BY <1>1, <2>2, <3>1, CutStored
    <3> QED
      BY <1>1, <2>2, <3>2, StoredFacts
  <2>4. UploadTypeOK'
    BY <1>2, <2>1, <2>3 DEF UploadTypeOK
  <2>5. UploadInv(u)'
    BY <1>1, <1>2, <1>3, <1>6, <2>1, <2>3
    DEF UploadInv, TempFollows, OffsetFollows, RenamedOnce, LateIsHarmless, AnswerIsAwaited
  <2>6. \A v \in Uploads \ {u} : UploadInv(v)'
    BY <1>2, <2>1, OtherUploadsKeep DEF UploadTypeOK
  <2> QED
    BY <2>4, <2>5, <2>6
<1>7. CASE phase[u] = "rename"
  <2>1. /\ temp' = [temp EXCEPT ![u] = NoFile] /\ remote' = temp[u] /\ temp[u] # NoFile
        /\ renamed' = renamed \cup {u} /\ ondisk' = ondisk \cup Damages(temp[u]) /\ UNCHANGED exposed
    BY <1>7 DEF AgentServes, Handle, rename
  <2>2. UploadTypeOK'
    <3>1. temp[u] \in Content /\ Damages(temp[u]) \subseteq Content
      BY <2>1, ContentDamages DEF UploadTypeOK
    <3> QED
      BY <1>2, <2>1, <3>1 DEF UploadTypeOK
  <2>3. late[u] = {}
    BY <1>3, <1>7 DEF UploadInv, LateIsHarmless
  <2>4. UploadInv(u)'
    BY <1>1, <1>2, <1>3, <1>7, <2>1, <2>3
    DEF UploadInv, TempFollows, OffsetFollows, RenamedOnce, LateIsHarmless, AnswerIsAwaited, UploadTypeOK
  <2>5. \A v \in Uploads \ {u} : UploadInv(v)'
    BY <1>2, <2>1, OtherUploadsKeep DEF UploadTypeOK
  <2> QED
    BY <2>2, <2>4, <2>5
<1>8. CASE phase[u] = "remove"
  <2>1. temp' = [temp EXCEPT ![u] = NoFile] /\ UNCHANGED <<remote, ondisk, exposed, renamed>>
    BY <1>8 DEF AgentServes, Handle, remove, destination
  <2>2. UploadTypeOK'
    BY <1>2, <2>1 DEF UploadTypeOK
  <2>3. UploadInv(u)'
    BY <1>1, <1>2, <1>3, <1>8, <2>1
    DEF UploadInv, TempFollows, OffsetFollows, RenamedOnce, LateIsHarmless, AnswerIsAwaited, UploadTypeOK
  <2>4. \A v \in Uploads \ {u} : UploadInv(v)'
    BY <1>2, <2>1, OtherUploadsKeep DEF UploadTypeOK
  <2> QED
    BY <2>2, <2>3, <2>4
<1> QED
  BY <1>1, <1>4, <1>5, <1>6, <1>7, <1>8 DEF Calling

\* The tool is called.
LEMMA UploadStartsKeeps ==
  ASSUME TransferInv, NEW u \in Uploads, upload_file(u)
  PROVE  TransferInv'
<1>1. /\ phase[u] = "idle" /\ phase' = [phase EXCEPT ![u] = "create"] /\ phase'[u] = "create"
      /\ UNCHANGED <<remote, ondisk, exposed, temp, answer, offset, late, renamed>>
  BY DEF upload_file, TransferInv, UploadTypeOK, destination
<1>2. UploadTypeOK'
  BY <1>1 DEF TransferInv, UploadTypeOK, Calling
<1>3. UploadInv(u)'
  BY <1>1 DEF TransferInv, UploadInv, TempFollows, OffsetFollows, RenamedOnce, LateIsHarmless,
              AnswerIsAwaited, Calling
<1>4. \A v \in Uploads \ {u} : UploadInv(v)'
  BY <1>1, OtherUploadsKeep DEF TransferInv, UploadTypeOK
<1> QED
  BY <1>2, <1>3, <1>4 DEF TransferInv

\* The agent refuses the request that is waited for.
LEMMA AgentRefusesKeeps ==
  ASSUME TransferInv, NEW u \in Uploads, AgentRefuses(u)
  PROVE  TransferInv'
<1> USE DEF TransferInv
<1>1. /\ phase[u] \in Calling /\ answer[u] = "none"
      /\ answer' = [answer EXCEPT ![u] = "error"] /\ answer'[u] = "error"
      /\ UNCHANGED <<remote, ondisk, exposed, phase, offset, late, renamed>>
  BY DEF AgentRefuses, Waits, UploadTypeOK, destination
<1>2. UploadInv(u)
  OBVIOUS
<1>5. phase[u] = "write" => UNCHANGED temp \/ temp[u] # NoFile
  BY DEF AgentRefuses
<1>3. CASE UNCHANGED temp
  <2>1. UploadTypeOK'
    BY <1>1, <1>3 DEF UploadTypeOK
  <2>2. UploadInv(u)'
    BY <1>1, <1>2, <1>3
    DEF UploadInv, TempFollows, OffsetFollows, RenamedOnce, LateIsHarmless, AnswerIsAwaited
  <2>3. \A v \in Uploads \ {u} : UploadInv(v)'
    BY <1>1, <1>3, OtherUploadsKeep DEF UploadTypeOK
  <2> QED
    BY <2>1, <2>2, <2>3
<1>4. CASE temp' # temp /\ phase[u] = "write" /\ temp' = [temp EXCEPT ![u] = PutAt(@, offset[u] + 1, Torn)]
  <2>1. /\ temp[u] \in Stored(exposed, u, offset[u]) /\ temp[u] # NoFile
        /\ offset[u] \in Nat /\ late[u] = {}
    BY <1>1, <1>2, <1>4, <1>5 DEF UploadTypeOK, UploadInv, TempFollows, LateIsHarmless
  <2>2. temp[u] \in Content /\ Len(temp[u]) = offset[u]
    BY <2>1, StoredLength
  <2>3. PutAt(temp[u], offset[u] + 1, Torn) \in Content
    BY <2>1, <2>2, PutFacts
  <2>4. UploadTypeOK'
    BY <1>1, <1>4, <2>3 DEF UploadTypeOK
  <2>5. UploadInv(u)'
    BY <1>1, <1>2, <1>4, <2>1
    DEF UploadInv, TempFollows, OffsetFollows, RenamedOnce, LateIsHarmless, AnswerIsAwaited, Calling
  <2>6. \A v \in Uploads \ {u} : UploadInv(v)'
    BY <1>1, <1>4, OtherUploadsKeep DEF UploadTypeOK
  <2> QED
    BY <2>4, <2>5, <2>6
<1> QED
  BY <1>3, <1>4 DEF AgentRefuses

\* An answer reaches the tool.
LEMMA GoesOnKeeps ==
  ASSUME TransferInv, NEW u \in Uploads, GoesOn(u)
  PROVE  TransferInv'
<1> USE DEF TransferInv
<1> DEFINE done == IF phase[u] = "write" THEN offset[u] + 1 ELSE offset[u]
<1>1. /\ answer[u] = "ok" /\ phase[u] \in Calling /\ offset[u] \in Nat /\ Size[u] \in Nat
      /\ UploadInv(u)
  BY FileFacts DEF GoesOn, UploadInv, AnswerIsAwaited, UploadTypeOK
<1>2. done \in Nat /\ AfterOk(u, done) \in Calling \cup Ended
  BY <1>1 DEF AfterOk, Calling, Ended
<1>3. /\ offset' = [offset EXCEPT ![u] = done] /\ phase' = [phase EXCEPT ![u] = AfterOk(u, done)]
      /\ answer' = [answer EXCEPT ![u] = "none"] /\ UNCHANGED <<remote, ondisk, exposed, temp, late, renamed>>
  BY DEF GoesOn, destination
<1>4. /\ offset'[u] = done /\ phase'[u] = AfterOk(u, done) /\ answer'[u] = "none"
      /\ temp'[u] = temp[u] /\ late'[u] = late[u]
  BY <1>3 DEF UploadTypeOK
<1>5. UploadTypeOK'
  BY <1>2, <1>3 DEF UploadTypeOK
<1>6. UploadInv(u)'
  <2>1. CASE phase[u] \in {"create", "write"}
    <3>1. temp[u] \in Stored(exposed, u, done) /\ done <= Size[u] /\ late[u] = {} /\ u \notin renamed
      BY <1>1, <2>1, FileFacts
      DEF UploadInv, TempFollows, OffsetFollows, RenamedOnce, LateIsHarmless
    <3>2. phase'[u] = IF done < Size[u] THEN "write" ELSE "truncate"
      BY <1>4, <2>1 DEF AfterOk
    <3> QED
      BY <1>1, <1>2, <1>3, <1>4, <3>1, <3>2
      DEF UploadInv, TempFollows, OffsetFollows, RenamedOnce, LateIsHarmless, AnswerIsAwaited
  <2>2. CASE phase[u] = "truncate"
    <3>1. temp[u] \in Stored(exposed, u, Size[u]) /\ done = Size[u] /\ late[u] = {} /\ u \notin renamed
      BY <1>1, <2>2, FileFacts
      DEF UploadInv, TempFollows, OffsetFollows, RenamedOnce, LateIsHarmless
    <3>2. phase'[u] = "rename"
      BY <1>4, <2>2 DEF AfterOk
    <3> QED
      BY <1>1, <1>3, <1>4, <3>1, <3>2
      DEF UploadInv, TempFollows, OffsetFollows, RenamedOnce, LateIsHarmless, AnswerIsAwaited
  <2>3. CASE phase[u] = "rename"
    <3>1. u \in renamed /\ late[u] = {}
      BY <1>1, <2>3 DEF UploadInv, RenamedOnce, LateIsHarmless
    <3>2. phase'[u] = "ok"
      BY <1>4, <2>3 DEF AfterOk
    <3> QED
      BY <1>1, <1>3, <1>4, <3>1, <3>2
      DEF UploadInv, TempFollows, OffsetFollows, RenamedOnce, LateIsHarmless, AnswerIsAwaited
  <2>4. CASE phase[u] = "remove"
    <3>1. phase'[u] = "error" /\ offset'[u] = offset[u]
      BY <1>4, <2>4 DEF AfterOk
    <3> QED
      BY <1>1, <1>3, <1>4, <3>1
      DEF UploadInv, TempFollows, OffsetFollows, RenamedOnce, LateIsHarmless, AnswerIsAwaited
  <2> QED
    BY <1>1, <2>1, <2>2, <2>3, <2>4 DEF Calling
<1>7. \A v \in Uploads \ {u} : UploadInv(v)'
  BY <1>3, OtherUploadsKeep DEF UploadTypeOK
<1> QED
  BY <1>5, <1>6, <1>7

\* The call failed: from here on the upload only cleans up.
LEMMA GivesUpKeeps ==
  ASSUME TransferInv, NEW u \in Uploads, GivesUp(u)
  PROVE  TransferInv'
<1> USE DEF TransferInv
<1>1. phase[u] \in Calling /\ answer[u] # "none" /\ UploadInv(u)
  BY DEF GivesUp, UploadInv, AnswerIsAwaited
<1>2. /\ phase' = [phase EXCEPT ![u] = AfterError(u)] /\ answer' = [answer EXCEPT ![u] = "none"]
      /\ UNCHANGED <<remote, ondisk, exposed, temp, offset, late, renamed>>
  BY DEF GivesUp, destination
<1>3. AfterError(u) \in {"remove", "error"} /\ phase'[u] = AfterError(u) /\ answer'[u] = "none"
  BY <1>2 DEF AfterError, UploadTypeOK
<1>4. UploadTypeOK'
  BY <1>2, <1>3 DEF UploadTypeOK, Calling, Ended
<1>5. UploadInv(u)'
  BY <1>1, <1>2, <1>3
  DEF UploadInv, TempFollows, OffsetFollows, RenamedOnce, LateIsHarmless, AnswerIsAwaited
<1>6. \A v \in Uploads \ {u} : UploadInv(v)'
  BY <1>2, OtherUploadsKeep DEF UploadTypeOK
<1> QED
  BY <1>4, <1>5, <1>6

\* A request that becomes late is the first one of its upload, or follows
\* one that was late when the upload cleaned up.
LEMMA BecomesLate ==
  ASSUME NEW u \in Uploads, UploadTypeOK, UploadInv(u), Waits(u)
  PROVE  /\ \E q \in Calling : late[u] \cup {phase[u]} \subseteq {q, "remove"}
         /\ "rename" \in late[u] \cup {phase[u]} =>
              temp[u] \in Stored(exposed, u, Size[u]) \cup {NoFile} /\ (phase[u] = "rename" => u \notin renamed)
         /\ (late[u] \cup {phase[u]}) \cap {"write", "truncate"} # {} =>
              temp[u] = NoFile \/ Len(temp[u]) >= offset[u]
<1>1. offset[u] \in Nat /\ phase[u] \in Calling /\ answer[u] = "none"
  BY DEF UploadTypeOK, Waits
<1>2. CASE phase[u] = "remove"
  BY <1>2 DEF UploadInv, LateIsHarmless, Calling
<1>3. CASE phase[u] # "remove"
  <2>1. late[u] = {}
    BY <1>1, <1>3 DEF UploadInv, LateIsHarmless, Calling
  <2>2. phase[u] \in {"write", "truncate"} => temp[u] \in Stored(exposed, u, offset[u])
    BY <1>1 DEF UploadInv, TempFollows
  <2>3. phase[u] = "rename" => temp[u] \in Stored(exposed, u, Size[u]) /\ u \notin renamed
    BY <1>1 DEF UploadInv, TempFollows, RenamedOnce
  <2> QED
    BY <1>1, <2>1, <2>2, <2>3, StoredFacts
<1> QED
  BY <1>2, <1>3

\* The connection is lost.
LEMMA CallLostKeeps ==
  ASSUME TransferInv, NEW u \in Uploads, CallLost(u)
  PROVE  TransferInv'
<1> USE DEF TransferInv
<1>1. phase[u] \in Calling /\ UploadInv(u)
  BY DEF CallLost, destination
<1>2. /\ phase' = [phase EXCEPT ![u] = AfterError(u)] /\ answer' = [answer EXCEPT ![u] = "none"]
      /\ late' = IF answer[u] = "none" THEN [late EXCEPT ![u] = @ \cup {phase[u]}] ELSE late
      /\ UNCHANGED <<remote, ondisk, exposed, temp, offset, renamed>>
  BY DEF CallLost, destination
<1>3. /\ AfterError(u) \in {"remove", "error"} /\ phase'[u] = AfterError(u) /\ answer'[u] = "none"
      /\ late'[u] = IF answer[u] = "none" THEN late[u] \cup {phase[u]} ELSE late[u]
  BY <1>2 DEF AfterError, UploadTypeOK
<1>4. UploadTypeOK'
  BY <1>1, <1>2, <1>3 DEF UploadTypeOK, Calling, Ended
<1>5. UploadInv(u)'
  <2>1. CASE answer[u] = "none"
    BY <1>1, <1>2, <1>3, <2>1, BecomesLate
    DEF UploadInv, TempFollows, OffsetFollows, RenamedOnce, LateIsHarmless, AnswerIsAwaited, Waits
  <2>2. CASE answer[u] # "none"
    BY <1>1, <1>2, <1>3, <2>2
    DEF UploadInv, TempFollows, OffsetFollows, RenamedOnce, LateIsHarmless, AnswerIsAwaited
  <2> QED
    BY <2>1, <2>2
<1>6. \A v \in Uploads \ {u} : UploadInv(v)'
  BY <1>2, OtherUploadsKeep DEF UploadTypeOK
<1> QED
  BY <1>4, <1>5, <1>6

\* The agent carries out a request whose call has failed.
LEMMA AgentServesLateKeeps ==
  ASSUME TransferInv, NEW u \in Uploads, NEW request \in Calling, AgentServesLate(u, request)
  PROVE  TransferInv'
<1> USE DEF TransferInv
<1>1. /\ request \in late[u] /\ UploadInv(u) /\ phase[u] \in {"remove", "error", "dead"}
      /\ offset[u] \in Nat
  BY DEF AgentServesLate, UploadInv, LateIsHarmless, UploadTypeOK
<1>2. /\ late' = [late EXCEPT ![u] = @ \ {request}] /\ late'[u] = late[u] \ {request}
      /\ UNCHANGED <<phase, answer, offset>>
  BY DEF AgentServesLate, UploadTypeOK
<1>3. late' \in [Uploads -> SUBSET Calling]
  BY <1>2 DEF UploadTypeOK
<1>4. request # "remove" => late'[u] \subseteq {"remove"}
  BY <1>1, <1>2 DEF UploadInv, LateIsHarmless
<1>6. ASSUME NEW f \in Content, temp' = [temp EXCEPT ![u] = f],
             request \in {"create", "write", "truncate"}, UNCHANGED <<remote, ondisk, exposed, renamed>>
      PROVE  TransferInv'
  <2>1. UploadTypeOK'
    BY <1>2, <1>3, <1>6 DEF UploadTypeOK
  <2>2. UploadInv(u)'
    BY <1>1, <1>2, <1>4, <1>6
    DEF UploadInv, TempFollows, OffsetFollows, RenamedOnce, LateIsHarmless, AnswerIsAwaited
  <2>3. \A v \in Uploads \ {u} : UploadInv(v)'
    BY <1>2, <1>6, OtherUploadsKeep DEF UploadTypeOK
  <2> QED
    BY <2>1, <2>2, <2>3
<1>7. CASE request = "rename" /\ rename(u)
  <2>1. temp[u] \in Content /\ Damages(temp[u]) \subseteq Content
    BY <1>7, ContentDamages DEF rename, UploadTypeOK
  <2>2. /\ remote' = temp[u] /\ temp' = [temp EXCEPT ![u] = NoFile] /\ temp'[u] = NoFile
        /\ renamed' = renamed \cup {u} /\ ondisk' = ondisk \cup Damages(temp[u]) /\ UNCHANGED exposed
    BY <1>7 DEF rename, UploadTypeOK
  <2>3. UploadTypeOK'
    BY <1>2, <1>3, <2>1, <2>2 DEF UploadTypeOK
  <2>4. UploadInv(u)'
    <3>1. late'[u] \subseteq {"remove"} /\ "remove" \in Calling
      BY <1>4, <1>7 DEF Calling
    <3>2. UNCHANGED <<phase[u], answer[u], offset[u]>>
      BY <1>2
    <3> QED
      BY <1>1, <2>2, <3>1, <3>2
      DEF UploadInv, TempFollows, OffsetFollows, RenamedOnce, LateIsHarmless, AnswerIsAwaited
  <2>5. \A v \in Uploads \ {u} : UploadInv(v)'
    BY <1>2, <2>2, OtherUploadsKeep DEF UploadTypeOK
  <2> QED
    BY <2>3, <2>4, <2>5
<1>8. CASE request = "remove" /\ remove(u)
  <2>1. temp' = [temp EXCEPT ![u] = NoFile] /\ temp'[u] = NoFile /\ UNCHANGED <<remote, ondisk, exposed, renamed>>
    BY <1>8 DEF remove, UploadTypeOK, destination
  <2>2. UploadTypeOK'
    BY <1>2, <1>3, <2>1 DEF UploadTypeOK
  <2>3. UploadInv(u)'
    BY <1>1, <1>2, <2>1
    DEF UploadInv, TempFollows, OffsetFollows, RenamedOnce, LateIsHarmless, AnswerIsAwaited
  <2>4. \A v \in Uploads \ {u} : UploadInv(v)'
    BY <1>2, <2>1, OtherUploadsKeep DEF UploadTypeOK
  <2> QED
    BY <2>2, <2>3, <2>4
<1>9. CASE request = "create" /\ write_file(u)
  BY <1>6, <1>9, <<>> \in Content DEF write_file, Content, destination
<1>10. CASE request = "write" /\ write_at(u)
  <2>1. temp[u] \in Content /\ Len(temp[u]) >= offset[u]
    BY <1>1, <1>10 DEF write_at, UploadInv, LateIsHarmless, UploadTypeOK
  <2>2. PutAt(temp[u], offset[u] + 1, u) \in Content
    BY <1>1, <2>1, PutFacts DEF Sources
  <2> QED
    BY <1>6, <1>10, <2>2 DEF write_at, destination
<1>11. CASE request = "truncate" /\ truncate(u)
  <2>1. temp[u] \in Content /\ Len(temp[u]) >= offset[u]
    BY <1>1, <1>11 DEF truncate, UploadInv, LateIsHarmless, UploadTypeOK
  <2>2. SubSeq(temp[u], 1, offset[u]) \in Content
    BY <1>1, <2>1, CutFacts
  <2> QED
    BY <1>6, <1>11, <2>2 DEF truncate, destination
<1> QED
  BY <1>7, <1>8, <1>9, <1>10, <1>11 DEF AgentServesLate, Handle

\* The bridge's machine goes down: every upload that runs is dead.
LEMMA MachineCrashesKeeps ==
  ASSUME TransferInv, MachineCrashes
  PROVE  TransferInv'
<1> USE DEF TransferInv
<1>1. /\ late' = [u \in Uploads |-> IF Waits(u) THEN late[u] \cup {phase[u]} ELSE late[u]]
      /\ phase' = [u \in Uploads |-> IF phase[u] \in Calling THEN "dead" ELSE phase[u]]
      /\ answer' = [u \in Uploads |-> "none"]
      /\ UNCHANGED <<remote, ondisk, exposed, temp, offset, renamed>>
  BY DEF MachineCrashes, destination
<1>2. UploadTypeOK'
  BY <1>1 DEF UploadTypeOK, Ended, Waits
<1>3. ASSUME NEW u \in Uploads PROVE UploadInv(u)'
  <2>1. UploadInv(u) /\ phase[u] \in Calling \cup Ended \cup {"idle"}
    BY DEF UploadTypeOK
  <2>2. CASE Waits(u)
    <3>1. late'[u] = late[u] \cup {phase[u]} /\ phase'[u] = "dead" /\ answer'[u] = "none"
      BY <1>1, <2>2 DEF Waits
    <3> QED
      BY <1>1, <2>1, <2>2, <3>1, BecomesLate
      DEF UploadInv, TempFollows, OffsetFollows, RenamedOnce, LateIsHarmless, AnswerIsAwaited
  <2>3. CASE ~Waits(u) /\ phase[u] \in Calling
    <3>1. late'[u] = late[u] /\ phase'[u] = "dead" /\ answer'[u] = "none"
      BY <1>1, <2>3
    <3> QED
      BY <1>1, <2>1, <3>1
      DEF UploadInv, TempFollows, OffsetFollows, RenamedOnce, LateIsHarmless, AnswerIsAwaited
  <2>4. CASE phase[u] \notin Calling
    <3>1. late'[u] = late[u] /\ phase'[u] = phase[u] /\ answer'[u] = answer[u]
      BY <1>1, <2>1, <2>4 DEF Waits, UploadInv, AnswerIsAwaited, UploadTypeOK
    <3> QED
      BY <1>1, <2>1, <3>1, OtherUploadsKeep DEF UploadTypeOK
  <2> QED
    BY <2>2, <2>3, <2>4
<1> QED
  BY <1>2, <1>3

\* The target goes down: what is left of the files of uploads under way is
\* what they stored, damaged.
LEMMA TargetCrashesKeeps ==
  ASSUME TransferInv, TargetCrashes
  PROVE  TransferInv'
<1> USE DEF TransferInv
<1>1. /\ remote' \in ondisk /\ ondisk' = {remote'}
      /\ exposed' = exposed \cup {u \in Uploads : phase[u] # "idle"}
      /\ temp' = [u \in Uploads |-> temp'[u]]
      /\ \A u \in Uploads : temp'[u] = NoFile \/ (temp[u] # NoFile /\ temp'[u] \in Damages(temp[u]))
      /\ UNCHANGED <<phase, answer, offset, late, renamed>>
  BY DEF TargetCrashes
<1>2. \A u \in Uploads : temp'[u] \in Content \cup {NoFile}
  <2> SUFFICES ASSUME NEW u \in Uploads, temp[u] # NoFile, temp'[u] \in Damages(temp[u])
               PROVE  temp'[u] \in Content
    BY <1>1
  <2>1. temp[u] \in Content
    BY DEF UploadTypeOK
  <2> QED
    BY <2>1, ContentDamages
<1>3. UploadTypeOK'
  BY <1>1, <1>2 DEF UploadTypeOK
<1>4. ASSUME NEW u \in Uploads PROVE UploadInv(u)'
  <2>1. UploadInv(u)
    OBVIOUS
  <2>2. CASE phase[u] = "idle"
    BY <1>1, <2>1, <2>2
    DEF UploadInv, TempFollows, OffsetFollows, RenamedOnce, LateIsHarmless, AnswerIsAwaited, Calling
  <2>3. CASE phase[u] # "idle"
    <3>1. u \in exposed'
      BY <1>1, <2>3
    <3>2. ASSUME NEW n \in Nat, temp[u] \in Stored(exposed, u, n) \cup {NoFile}
          PROVE  temp'[u] \in Stored(exposed', u, n)
      BY <1>1, <3>1, <3>2, StoredFacts DEF Stored
    <3>3. temp'[u] # NoFile => temp[u] # NoFile /\ Len(temp'[u]) = Len(temp[u])
      <4> SUFFICES ASSUME temp[u] # NoFile, temp'[u] \in Damages(temp[u])
                   PROVE  Len(temp'[u]) = Len(temp[u])
        BY <1>1
      <4>1. temp[u] \in Content
        BY DEF UploadTypeOK
      <4> QED
        BY <4>1, ContentDamages
    <3>4. TempFollows(u)'
      <4>1. offset[u] \in Nat /\ Size[u] \in Nat
        BY FileFacts DEF UploadTypeOK
      <4>2. \A n \in Nat : temp[u] \in Stored(exposed, u, n) => temp'[u] \in Stored(exposed', u, n)
        BY <3>2
      <4>3. 0 \in Nat /\ offset[u] + 1 \in Nat
        BY <4>1
      <4> QED
        BY <1>1, <2>1, <4>1, <4>2, <4>3 DEF UploadInv, TempFollows
    <3>5. LateIsHarmless(u)'
      <4>1. Size[u] \in Nat
        BY FileFacts
      <4>2. "rename" \in late[u] => temp'[u] \in Stored(exposed', u, Size[u])
        BY <2>1, <3>2, <4>1 DEF UploadInv, LateIsHarmless
      <4> QED
        BY <1>1, <2>1, <3>3, <4>2 DEF UploadInv, LateIsHarmless
    <3> QED
      BY <1>1, <2>1, <3>4, <3>5 DEF UploadInv, OffsetFollows, RenamedOnce, AnswerIsAwaited
  <2> QED
    BY <2>2, <2>3
<1> QED
  BY <1>3, <1>4

\* Downloads only read the target's file.
LEMMA DownloadsKeep ==
  ASSUME TransferInv, NEW d \in Downloads, DownloadStep(d)
  PROVE  TransferInv' /\ UNCHANGED uploading
<1>1. UNCHANGED uploading
  BY DEF DownloadStep, download_file, ReadChunk, SyncsFile, ReplacesLocal, DownloadFails
<1>2. UploadTypeOK'
  BY <1>1 DEF TransferInv, UploadTypeOK, uploading, destination
<1>3. \A u \in Uploads : UploadInv(u)'
  BY <1>1, OtherUploadsKeep DEF TransferInv, uploading, destination
<1> QED
  BY <1>1, <1>2, <1>3 DEF TransferInv

\* Where every upload is (upload_file, mcp.rs:334, with the agent's handlers):
\* which chunks its temporary file holds, and which of its failed requests
\* may still be carried out.
THEOREM TransfersKeepTrack == TransferSpec => []TransferInv
<1>1. TransferInit => TransferInv
  <2> SUFFICES ASSUME TransferInit PROVE TransferInv
    OBVIOUS
  <2>1. UploadTypeOK
    BY TransferAssumption DEF TransferInit, UploadTypeOK, Complete, Content, Sources
  <2>2. ASSUME NEW u \in Uploads PROVE UploadInv(u)
    BY DEF TransferInit, UploadInv, TempFollows, OffsetFollows, RenamedOnce, LateIsHarmless,
           AnswerIsAwaited, Calling
  <2> QED
    BY <2>1, <2>2 DEF TransferInv
<1>2. TransferInv /\ [TransferNext]_transferVars => TransferInv'
  <2> SUFFICES ASSUME TransferInv, [TransferNext]_transferVars PROVE TransferInv'
    OBVIOUS
  <2>1. ASSUME NEW u \in Uploads, UploadStep(u) PROVE TransferInv'
    BY <2>1, UploadStartsKeeps, AgentServesKeeps, AgentRefusesKeeps, GoesOnKeeps, GivesUpKeeps,
       CallLostKeeps, AgentServesLateKeeps DEF UploadStep
  <2>2. ASSUME NEW d \in Downloads, DownloadStep(d) PROVE TransferInv'
    BY <2>2, DownloadsKeep
  <2>3. CASE MachineCrashes \/ TargetCrashes
    BY <2>3, MachineCrashesKeeps, TargetCrashesKeeps
  <2>4. CASE UNCHANGED transferVars
    <3>1. UploadTypeOK'
      BY <2>4 DEF TransferInv, UploadTypeOK, transferVars, uploading, destination
    <3>2. \A u \in Uploads : UploadInv(u)'
      BY <2>4, OtherUploadsKeep DEF TransferInv, transferVars, uploading, destination
    <3> QED
      BY <3>1, <3>2 DEF TransferInv
  <2> QED
    BY <2>1, <2>2, <2>3, <2>4 DEF TransferNext
<1> QED
  BY <1>1, <1>2, PTL DEF TransferSpec

-----------------------------------------------------------------------------
\* What upload u reported, as AtomicReplace sees it.
Reported(u) == IF phase[u] \in {"idle", "ok", "error"} THEN phase[u] ELSE "running"

\* A request other than RENAME leaves the target's file alone.
LEMMA OnlyRenameReplaces ==
  ASSUME NEW u \in Uploads, NEW request \in Calling, Handle(u, request), request # "rename"
  PROVE  UNCHANGED <<remote, ondisk, exposed, renamed>>
BY DEF Handle, write_file, write_at, truncate, remove, destination

\* A step after which every upload has reported what it had before.
LEMMA Silent ==
  ASSUME \A u \in Uploads : Reported(u)' = Reported(u), UNCHANGED <<remote, ondisk, exposed, renamed>>
  PROVE  UNCHANGED Atomic!vars
BY DEF Atomic!vars, Reported

\* RENAME is carried out, in time or late: the file is replaced at once.
LEMMA RenameReplaces ==
  ASSUME TransferInv, NEW u \in Uploads, rename(u), UNCHANGED phase,
         (phase[u] = "rename" /\ answer[u] = "none") \/ "rename" \in late[u]
  PROVE  Atomic!Replace(u)
<1>1. UploadInv(u)
  BY DEF TransferInv
<1>2. /\ temp[u] \in Stored(exposed, u, Size[u]) /\ temp[u] # NoFile /\ u \notin renamed
      /\ phase[u] # "idle"
  BY <1>1 DEF UploadInv, TempFollows, RenamedOnce, LateIsHarmless, rename
<1>3. temp[u] \in IF u \in exposed THEN Damages(Complete(u)) ELSE {Complete(u)}
  BY <1>2, StoredFacts, FileFacts
<1>4. Damages(temp[u]) = Atomic!Damages(temp[u]) /\ Damages(Complete(u)) = Atomic!Damages(Complete(u))
  BY DEF Damages, Atomic!Damages
<1>5. remote' = temp[u] /\ ondisk' = ondisk \cup Damages(temp[u]) /\ renamed' = renamed \cup {u}
  BY DEF rename
<1>6. [v \in Uploads |-> Complete(v)][u] = Complete(u)
  OBVIOUS
<1>7. [v \in Uploads |-> Reported(v)][u] # "idle"
  BY <1>2 DEF Reported
<1> HIDE DEF Reported
<1>8. UNCHANGED <<exposed, [v \in Uploads |-> Reported(v)]>>
  BY DEF rename, Reported
<1> QED
  BY <1>2, <1>3, <1>4, <1>5, <1>6, <1>7, <1>8 DEF Atomic!Replace, Reported

\* An upload begins.
LEMMA BeginIsBegin ==
  ASSUME TransferInv, NEW u \in Uploads, upload_file(u)
  PROVE  Atomic!Begin(u)
<1>1. /\ phase[u] = "idle" /\ UNCHANGED <<remote, ondisk, exposed, renamed>>
      /\ \A v \in Uploads : phase'[v] = IF v = u THEN "create" ELSE phase[v]
  BY DEF upload_file, TransferInv, UploadTypeOK, destination
<1>2. Reported(u) = "idle"
  BY <1>1 DEF Reported
<1>3. [v \in Uploads |-> Reported(v)]' = [[v \in Uploads |-> Reported(v)] EXCEPT ![u] = "running"]
  BY <1>1 DEF Reported
<1> QED
  BY <1>1, <1>2, <1>3 DEF Atomic!Begin, Reported

\* The target goes down.
LEMMA CrashIsCrash ==
  ASSUME TransferInv, TargetCrashes
  PROVE  Atomic!Crash
<1>1. /\ remote' \in ondisk /\ ondisk' = {remote'} /\ UNCHANGED <<phase, renamed>>
      /\ exposed' = exposed \cup {u \in Uploads : phase[u] # "idle"}
  BY DEF TargetCrashes
<1>2. \A u \in Uploads : Reported(u)' = Reported(u) /\ (Reported(u) # "idle" <=> phase[u] # "idle")
  BY <1>1 DEF Reported
<1>3. [v \in Uploads |-> Reported(v)]' = [v \in Uploads |-> Reported(v)]
  BY <1>2
<1>4. exposed' = exposed \cup {u \in Uploads : [v \in Uploads |-> Reported(v)][u] # "idle"}
  BY <1>1, <1>2
<1> QED
  BY <1>1, <1>3, <1>4 DEF Atomic!Crash, Reported

\* One upload reports how it ended.
LEMMA ReportIsReport ==
  ASSUME NEW u \in Uploads, NEW what \in {"ok", "error"}, TransferInv, phase[u] \in Calling,
         what = "ok" => u \in renamed, phase' = [phase EXCEPT ![u] = what],
         UNCHANGED <<remote, ondisk, exposed, renamed>>
  PROVE  Atomic!Report(u, what)
<1>1. Reported(u) = "running"
  BY DEF Reported, Calling
<1>2. \A v \in Uploads : phase'[v] = IF v = u THEN what ELSE phase[v]
  BY DEF TransferInv, UploadTypeOK
<1>3. [v \in Uploads |-> Reported(v)]' = [[v \in Uploads |-> Reported(v)] EXCEPT ![u] = what]
  BY <1>2 DEF Reported
<1> QED
  BY <1>1, <1>3 DEF Atomic!Report, Reported

\* Every step of an upload is one of AtomicReplace or none.
LEMMA UploadStepMaps ==
  ASSUME TransferInv, NEW u \in Uploads, UploadStep(u)
  PROVE  [Atomic!Next]_(Atomic!vars)
<1> USE DEF TransferInv
<1>1. UploadInv(u) /\ phase \in [Uploads -> Calling \cup Ended \cup {"idle"}]
  BY DEF UploadTypeOK
<1>2. ASSUME phase[u] \notin {"idle", "ok", "error"}, NEW p, p \notin {"idle", "ok", "error"},
             phase' = [phase EXCEPT ![u] = p], UNCHANGED <<remote, ondisk, exposed, renamed>>
      PROVE  UNCHANGED Atomic!vars
  BY <1>1, <1>2, Silent DEF Reported
<1>3. ASSUME phase[u] \in Calling, NEW what \in {"ok", "error"}, what = "ok" => u \in renamed,
             phase' = [phase EXCEPT ![u] = what], UNCHANGED <<remote, ondisk, exposed, renamed>>
      PROVE  Atomic!Next
  BY <1>3, ReportIsReport DEF Atomic!Next
<1>4. CASE upload_file(u)
  BY <1>4, BeginIsBegin DEF Atomic!Next
<1>5. CASE AgentServes(u)
  <2>1. CASE phase[u] = "rename"
    BY <1>5, <2>1, RenameReplaces DEF AgentServes, Waits, Handle, Atomic!Next
  <2>2. CASE phase[u] # "rename"
    BY <1>5, <2>2, OnlyRenameReplaces, Silent DEF AgentServes, Waits, Reported
  <2> QED
    BY <2>1, <2>2
<1>6. CASE AgentRefuses(u)
  BY <1>6, Silent DEF AgentRefuses, Reported, destination
<1>7. CASE GoesOn(u)
  <2> DEFINE done == IF phase[u] = "write" THEN offset[u] + 1 ELSE offset[u]
  <2>1. /\ phase[u] \in Calling /\ answer[u] = "ok"
        /\ phase' = [phase EXCEPT ![u] = AfterOk(u, done)] /\ UNCHANGED <<remote, ondisk, exposed, renamed>>
    BY <1>1, <1>7 DEF GoesOn, UploadInv, AnswerIsAwaited, destination
  <2>2. CASE AfterOk(u, done) \notin {"ok", "error"}
    <3>1. AfterOk(u, done) # "idle" /\ phase[u] \notin {"idle", "ok", "error"}
      BY <2>1 DEF AfterOk, Calling
    <3> HIDE DEF done
    <3> QED
      BY <1>2, <2>1, <2>2, <3>1
  <2>3. CASE AfterOk(u, done) \in {"ok", "error"}
    <3>1. AfterOk(u, done) = "ok" => u \in renamed
      BY <1>1, <2>1 DEF AfterOk, Calling, UploadInv, RenamedOnce
    <3> QED
      BY <1>3, <2>1, <2>3, <3>1
  <2> QED
    BY <2>2, <2>3
<1>8. CASE GivesUp(u) \/ CallLost(u)
  <2>1. /\ phase[u] \in Calling /\ phase' = [phase EXCEPT ![u] = AfterError(u)]
        /\ UNCHANGED <<remote, ondisk, exposed, renamed>>
    BY <1>1, <1>8 DEF GivesUp, CallLost, UploadInv, AnswerIsAwaited, destination
  <2>2. CASE phase[u] = "remove"
    BY <1>3, <2>1, <2>2 DEF AfterError
  <2>3. CASE phase[u] # "remove"
    BY <1>2, <2>1, <2>3 DEF AfterError, Calling
  <2> QED
    BY <2>2, <2>3
<1>9. ASSUME NEW request \in Calling, AgentServesLate(u, request)
      PROVE  [Atomic!Next]_(Atomic!vars)
  <2>1. CASE request = "rename"
    BY <1>9, <2>1, RenameReplaces DEF AgentServesLate, Handle, Atomic!Next
  <2>2. CASE request # "rename"
    BY <1>9, <2>2, OnlyRenameReplaces, Silent DEF AgentServesLate, Reported
  <2> QED
    BY <2>1, <2>2
<1> QED
  BY <1>4, <1>5, <1>6, <1>7, <1>8, <1>9 DEF UploadStep

\* upload_file implements AtomicReplace: the target's file is replaced by a
\* complete upload at once (mcp.rs:340) and success is reported only after
\* that, whatever is refused, lost or late; a crash of the target leaves a file
\* that was there since the crash before, or what the disk has of one, and
\* only uploads called before a crash can replace the file by less.
THEOREM UploadsReplaceAtOnce == TransferSpec => UploadsAtomic
<1>1. TransferInit => Atomic!Init
  BY DEF TransferInit, Atomic!Init
<1>2. TransferInv /\ [TransferNext]_transferVars => [Atomic!Next]_(Atomic!vars)
  <2> SUFFICES ASSUME TransferInv, [TransferNext]_transferVars
               PROVE  [Atomic!Next]_(Atomic!vars)
    OBVIOUS
  <2>1. ASSUME NEW u \in Uploads, UploadStep(u) PROVE [Atomic!Next]_(Atomic!vars)
    BY <2>1, UploadStepMaps
  <2>2. ASSUME NEW d \in Downloads, DownloadStep(d) PROVE UNCHANGED Atomic!vars
    BY <2>2, DownloadsKeep, Silent DEF uploading, Reported, destination
  <2>5. CASE TargetCrashes
    BY <2>5, CrashIsCrash DEF Atomic!Next
  <2>3. CASE MachineCrashes
    <3>1. UNCHANGED <<remote, ondisk, exposed, renamed>>
      BY <2>3 DEF MachineCrashes, destination
    <3>2. ASSUME NEW u \in Uploads PROVE Reported(u)' = Reported(u)
      BY <2>3 DEF MachineCrashes, Reported, Calling, destination
    <3> QED
      BY <3>1, <3>2, Silent
  <2>4. CASE UNCHANGED transferVars
    BY <2>4, Silent DEF transferVars, uploading, Reported, destination
  <2> QED
    BY <2>1, <2>2, <2>3, <2>4, <2>5 DEF TransferNext
<1> QED
  BY <1>1, <1>2, TransfersKeepTrack, PTL DEF TransferSpec, UploadsAtomic, Atomic!Spec

-----------------------------------------------------------------------------
\* The downloads: which part of the target's file each of them holds.

\* Chunks that can be received.
Chunks == Sources \cup {Lost}

\* A file that was one source's, as far as crashes of the target left it.
Whole(f) == \E s \in Sources : f \in Damages(Complete(s))

\* The first n chunks of file f.
First(f, n) == [k \in 1 .. n |-> f[k]]

\* What has been received while the target's file stayed: its first chunks,
\* then all of it; and a destination that was replaced is on disk.
Received(d) ==
  /\ stage[d] \in {"read", "sync", "rename"} => local_temp[d] \in Seq(Chunks)
  /\ stage[d] = "read" /\ d \notin mixed => \E n \in 0 .. Len(remote) : local_temp[d] = First(remote, n)
  /\ stage[d] \in {"sync", "rename"} /\ d \notin mixed => Whole(local_temp[d])
  /\ stage[d] \in {"rename", "ok"} => durable[d]
  /\ d \notin mixed => Whole(local[d])

DownloadTypeOK ==
  /\ local \in [Downloads -> Seq(Chunks)]
  /\ local_temp \in [Downloads -> Seq(Chunks) \cup {NoFile}]
  /\ stage \in [Downloads -> {"idle", "read", "sync", "rename"} \cup Ended]
  /\ durable \in [Downloads -> BOOLEAN]
  /\ mixed \subseteq Downloads
  /\ faults \in 0 .. MaxFaults

DownloadInv ==
  /\ DownloadTypeOK
  /\ Whole(remote) /\ \A f \in ondisk : Whole(f)
  /\ \A d \in Downloads : Received(d)

\* A file that was one source's is a sequence of its chunks and lost ones.
LEMMA WholeFacts ==
  ASSUME NEW s \in Sources, NEW f \in Damages(Complete(s))
  PROVE  /\ f \in Seq(Chunks) /\ Len(f) = Size[s] /\ Size[s] \in Nat
         /\ \A k \in 1 .. Size[s] : f[k] \in {s, Lost}
         /\ Complete(s) \in Damages(Complete(s))
         /\ Damages(f) \subseteq Damages(Complete(s))
<1>1. /\ Complete(s) \in Seq(Sources) /\ Len(Complete(s)) = Size[s] /\ Size[s] \in Nat
      /\ \A k \in 1 .. Size[s] : Complete(s)[k] = s
  BY TransferAssumption DEF Complete
<1>2. f \in Seq(Chunks) /\ Len(f) = Len(Complete(s))
  BY <1>1, DamageFacts DEF Chunks
<1>3. \A k \in 1 .. Size[s] : f[k] \in {Complete(s)[k], Lost}
  BY <1>1, DamageFacts
<1>4. Complete(s) \in Damages(Complete(s)) /\ Damages(f) \subseteq Damages(Complete(s))
  BY <1>1, DamageFacts
<1> QED
  BY <1>1, <1>2, <1>3, <1>4

\* A complete file is whole.
LEMMA CompleteIsWhole ==
  ASSUME NEW s \in Sources
  PROVE  Complete(s) \in Seq(Chunks) /\ Complete(s) \in Damages(Complete(s))
<1>1. PICK f : f \in Damages(Complete(s))
  BY DEF Damages
<1>2. Complete(s) \in Damages(Complete(s))
  BY <1>1, WholeFacts
<1> QED
  BY <1>2, WholeFacts

\* Nothing changes for a download that does not move, as long as the target's
\* file stays.
LEMMA ReceivedKept ==
  ASSUME NEW d, Received(d), remote' = remote, d \in mixed' <=> d \in mixed,
         local'[d] = local[d], local_temp'[d] = local_temp[d], stage'[d] = stage[d], durable'[d] = durable[d]
  PROVE  Received(d)'
BY DEF Received, Whole

\* A download takes its next chunk.
LEMMA ReadChunkKeeps ==
  ASSUME DownloadInv, NEW d \in Downloads, ReadChunk(d)
  PROVE  DownloadInv'
<1> DEFINE f == local_temp[d]
<1>1. /\ DownloadTypeOK /\ Whole(remote) /\ \A c \in Downloads : Received(c)
      /\ \A x \in ondisk : Whole(x)
  BY DEF DownloadInv
<1>2. PICK s \in Sources : remote \in Damages(Complete(s))
  BY <1>1 DEF Whole
<1>3. /\ Len(remote) = Size[s] /\ Size[s] \in Nat
      /\ remote \in Seq(Chunks) /\ \A k \in 1 .. Size[s] : remote[k] \in Chunks
  BY <1>2, WholeFacts DEF Chunks
<1>4. /\ stage[d] = "read" /\ f \in Seq(Chunks) /\ Len(f) \in Nat
      /\ UNCHANGED <<remote, ondisk, local, durable, mixed, faults>>
      /\ d \notin mixed => \E n \in 0 .. Size[s] : f = First(remote, n)
  BY <1>1, <1>3 DEF ReadChunk, Received, uploading, destination
<1>5. /\ local_temp' = IF Len(f) + 1 > Size[s] THEN local_temp
                       ELSE [local_temp EXCEPT ![d] = Append(f, remote[Len(f) + 1])]
      /\ \E end \in eof(Len(f) + 1) : stage' = IF end THEN [stage EXCEPT ![d] = "sync"] ELSE stage
  BY <1>3 DEF ReadChunk
<1>6. \A n \in 0 .. Size[s] : First(remote, n) \in Seq(Chunks) /\ Len(First(remote, n)) = n
  BY <1>3 DEF First
<1>7. First(remote, Size[s]) = remote
  BY <1>3 DEF First
<1> HIDE DEF f
<1>8. CASE Len(f) + 1 > Size[s]
  <2>1. local_temp' = local_temp /\ stage' = [stage EXCEPT ![d] = "sync"]
    BY <1>3, <1>5, <1>8 DEF eof
  <2>2. d \notin mixed => f = remote
    BY <1>3, <1>4, <1>6, <1>7, <1>8
  <2>3. DownloadTypeOK'
    BY <1>1, <1>4, <2>1 DEF DownloadTypeOK
  <2>4. Received(d)'
    BY <1>1, <1>4, <2>1, <2>2 DEF Received, Whole, DownloadTypeOK, f
  <2>5. \A c \in Downloads \ {d} : Received(c)'
    BY <1>1, <1>4, <2>1, ReceivedKept DEF DownloadTypeOK
  <2> QED
    BY <1>1, <1>4, <2>3, <2>4, <2>5 DEF DownloadInv, Whole
<1>9. CASE Len(f) + 1 <= Size[s]
  <2> DEFINE k == Len(f) + 1
             g == Append(f, remote[k])
  <2>1. /\ local_temp' = [local_temp EXCEPT ![d] = g]
        /\ stage' = stage \/ (k = Size[s] /\ stage' = [stage EXCEPT ![d] = "sync"])
    <3>1. ~(k > Size[s]) /\ ~(k > Len(remote)) /\ Len(remote) = Size[s]
      BY <1>3, <1>4, <1>9
    <3>2. \A end \in eof(k) : end \in BOOLEAN /\ (end => k = Size[s])
      <4>1. eof(k) = {k = Len(remote) /\ short :
                        short \in IF remote[k] = Lost THEN BOOLEAN ELSE {remote[k] \in Short}}
        BY <3>1 DEF eof
      <4> HIDE DEF k
      <4> QED
        BY <3>1, <4>1
    <3>3. local_temp' = [local_temp EXCEPT ![d] = g]
      BY <1>5, <3>1
    <3>4. \E end \in eof(k) : stage' = IF end THEN [stage EXCEPT ![d] = "sync"] ELSE stage
      BY <1>5
    <3> HIDE DEF k, g
    <3> QED
      BY <3>2, <3>3, <3>4
  <2>2. g \in Seq(Chunks)
    BY <1>3, <1>4, <1>9
  <2>3. ASSUME d \notin mixed
        PROVE  g = First(remote, k) /\ k \in 0 .. Size[s]
    <3>1. PICK n \in 0 .. Size[s] : f = First(remote, n)
      BY <1>4, <2>3
    <3>2. n = Len(f)
      BY <1>3, <1>4, <1>6, <1>9, <3>1
    <3>3. First(remote, k) \in Seq(Chunks) /\ Len(First(remote, k)) = k
      BY <1>4, <1>6, <1>9
    <3>4. \A i \in 1 .. k : g[i] = First(remote, k)[i]
      <4> SUFFICES ASSUME NEW i \in 1 .. k
                   PROVE  g[i] = remote[i]
        BY <1>4 DEF First
      <4>1. i \in 1 .. Len(f) => f[i] = remote[i]
        BY <3>1, <3>2 DEF First
      <4>2. i \in 1 .. Len(f) => g[i] = f[i]
        BY <1>4
      <4>3. i = k => g[i] = remote[k]
        BY <1>4
      <4> QED
        BY <1>4, <3>2, <4>1, <4>2, <4>3
    <3>5. Len(g) = k
      BY <1>4
    <3> HIDE DEF g, k
    <3>6. g = First(remote, k)
      BY <2>2, <3>3, <3>4, <3>5
    <3> QED
      BY <1>4, <1>9, <3>6 DEF k
  <2> HIDE DEF g, k
  <2>4. DownloadTypeOK'
    <3>1. local_temp' \in [Downloads -> Seq(Chunks) \cup {NoFile}]
      BY <1>1, <2>1, <2>2 DEF DownloadTypeOK
    <3>2. stage' \in [Downloads -> {"idle", "read", "sync", "rename"} \cup Ended]
      BY <1>1, <2>1 DEF DownloadTypeOK
    <3> QED
      BY <1>1, <1>4, <3>1, <3>2 DEF DownloadTypeOK
  <2>5. local_temp'[d] = g /\ (stage'[d] = "read" \/ (stage'[d] = "sync" /\ k = Size[s]))
    BY <1>1, <1>4, <2>1 DEF DownloadTypeOK
  <2>6. Received(d)'
    <3>1. stage'[d] = "read" /\ d \notin mixed' => \E n \in 0 .. Len(remote') : local_temp'[d] = First(remote', n)
      BY <1>3, <1>4, <2>3, <2>5
    <3>2. stage'[d] \in {"sync", "rename"} /\ d \notin mixed' => Whole(local_temp'[d])
      <4>1. stage'[d] # "read" /\ d \notin mixed => local_temp'[d] = remote
        BY <1>4, <1>7, <2>3, <2>5
      <4> QED
        BY <1>1, <1>4, <4>1
    <3>3. d \notin mixed => Whole(local[d])
      BY <1>1 DEF Received, Whole
    <3> QED
      BY <1>4, <2>2, <2>5, <3>1, <3>2, <3>3 DEF Received, Whole
  <2>7. \A c \in Downloads \ {d} : Received(c)'
    BY <1>1, <1>4, <2>1, ReceivedKept DEF DownloadTypeOK
  <2> QED
    BY <1>1, <1>4, <2>4, <2>6, <2>7 DEF DownloadInv, Whole
<1> QED
  BY <1>3, <1>4, <1>8, <1>9

\* The other steps of a download.
LEMMA DownloadMovesKeep ==
  ASSUME DownloadInv, NEW d \in Downloads,
         download_file(d) \/ SyncsFile(d) \/ ReplacesLocal(d) \/ DownloadFails(d)
  PROVE  DownloadInv'
<1>1. /\ DownloadTypeOK /\ Whole(remote) /\ \A c \in Downloads : Received(c)
      /\ \A x \in ondisk : Whole(x)
  BY DEF DownloadInv
<1>2. UNCHANGED <<remote, ondisk, mixed>>
  BY DEF download_file, SyncsFile, ReplacesLocal, DownloadFails, uploading, destination
<1>3. /\ \A c \in Downloads \ {d} : /\ local'[c] = local[c] /\ local_temp'[c] = local_temp[c]
                                   /\ stage'[c] = stage[c] /\ durable'[c] = durable[c]
  BY <1>1 DEF download_file, SyncsFile, ReplacesLocal, DownloadFails, sync_all, DownloadTypeOK
<1>4. \A c \in Downloads \ {d} : Received(c)'
  BY <1>1, <1>2, <1>3, ReceivedKept
<1>5. /\ Whole(remote)'
      /\ \A x \in ondisk' : Whole(x)
  BY <1>1, <1>2 DEF Whole
<1>6. CASE download_file(d)
  <2>1. /\ stage' = [stage EXCEPT ![d] = "read"] /\ local_temp' = [local_temp EXCEPT ![d] = <<>>]
        /\ UNCHANGED <<local, durable, faults>>
    BY <1>6 DEF download_file
  <2>2. <<>> \in Seq(Chunks) /\ First(remote, 0) = <<>> /\ Len(remote) \in Nat
    BY <1>1, WholeFacts DEF First, Whole
  <2>3. DownloadTypeOK'
    BY <1>1, <1>2, <2>1, <2>2 DEF DownloadTypeOK
  <2>4. stage'[d] = "read" /\ local_temp'[d] = <<>>
    BY <1>1, <2>1 DEF DownloadTypeOK
  <2>5. \E n \in 0 .. Len(remote) : <<>> = First(remote, n)
    <3>1. 0 \in 0 .. Len(remote)
      BY <2>2
    <3> QED
      BY <2>2, <3>1
  <2>6. Received(d)'
    BY <1>1, <1>2, <2>1, <2>2, <2>4, <2>5 DEF Received, Whole
  <2> QED
    BY <1>4, <1>5, <2>3, <2>6 DEF DownloadInv
<1>7. CASE SyncsFile(d)
  <2>1. /\ stage[d] = "sync" /\ stage' = [stage EXCEPT ![d] = "rename"]
        /\ durable' = [durable EXCEPT ![d] = TRUE]
        /\ UNCHANGED <<local, local_temp, faults>>
    BY <1>7 DEF SyncsFile, sync_all
  <2>2. DownloadTypeOK'
    BY <1>1, <1>2, <2>1 DEF DownloadTypeOK
  <2>3. stage'[d] = "rename" /\ durable'[d]
    BY <1>1, <2>1 DEF DownloadTypeOK
  <2>4. Received(d)'
    BY <1>1, <1>2, <2>1, <2>3 DEF Received, Whole
  <2> QED
    BY <1>4, <1>5, <2>2, <2>4 DEF DownloadInv
<1>8. CASE ReplacesLocal(d)
  <2>1. /\ stage[d] = "rename" /\ stage' = [stage EXCEPT ![d] = "ok"]
        /\ local' = [local EXCEPT ![d] = local_temp[d]]
        /\ local_temp' = [local_temp EXCEPT ![d] = NoFile]
        /\ UNCHANGED <<durable, faults>>
    BY <1>8 DEF ReplacesLocal
  <2>2. local_temp[d] \in Seq(Chunks)
    BY <1>1, <2>1 DEF Received
  <2>3. DownloadTypeOK'
    BY <1>1, <1>2, <2>1, <2>2 DEF DownloadTypeOK, Ended
  <2>4. stage'[d] = "ok" /\ local'[d] = local_temp[d]
    BY <1>1, <2>1 DEF DownloadTypeOK
  <2>5. Received(d)'
    BY <1>1, <1>2, <2>1, <2>4 DEF Received, Whole
  <2> QED
    BY <1>4, <1>5, <2>3, <2>5 DEF DownloadInv
<1>9. CASE DownloadFails(d)
  <2>1. /\ faults' = faults + 1 /\ faults < MaxFaults
        /\ stage' = [stage EXCEPT ![d] = "error"]
        /\ local_temp' = local_temp \/ local_temp' = [local_temp EXCEPT ![d] = NoFile]
        /\ UNCHANGED <<local, durable>>
    BY <1>9 DEF DownloadFails, Fault
  <2>2. DownloadTypeOK'
    BY <1>1, <1>2, <2>1, TransferAssumption DEF DownloadTypeOK, Ended, TransferAssumption
  <2>3. stage'[d] = "error"
    BY <1>1, <2>1 DEF DownloadTypeOK
  <2>4. Received(d)'
    BY <1>1, <1>2, <2>1, <2>3 DEF Received, Whole
  <2> QED
    BY <1>4, <1>5, <2>2, <2>4 DEF DownloadInv
<1> QED
  BY <1>6, <1>7, <1>8, <1>9

\* The agent carries out a request: a rename marks the downloads that have
\* part of the old file.
LEMMA HandleKeeps ==
  ASSUME TransferInv, DownloadInv, NEW u \in Uploads, NEW request \in Calling, Handle(u, request),
         UNCHANGED downloading, UNCHANGED faults,
         request = "rename" => temp[u] \in Damages(Complete(u))
  PROVE  DownloadInv'
<1>1. /\ DownloadTypeOK /\ Whole(remote) /\ \A d \in Downloads : Received(d)
      /\ \A x \in ondisk : Whole(x)
  BY DEF DownloadInv
<1>2. UNCHANGED <<local, local_temp, stage, durable, faults>>
  BY DEF downloading
<1>3. CASE UNCHANGED <<remote, ondisk, mixed>>
  <2>1. \A d \in Downloads : Received(d)'
    BY <1>1, <1>2, <1>3, ReceivedKept
  <2>2. DownloadTypeOK'
    BY <1>1, <1>2, <1>3 DEF DownloadTypeOK
  <2>3. Whole(remote)' /\ \A x \in ondisk' : Whole(x)
    BY <1>1, <1>3 DEF Whole
  <2> QED
    BY <2>1, <2>2, <2>3 DEF DownloadInv
<1>4. CASE request = "rename" /\ rename(u)
  <2>1. /\ remote' = temp[u] /\ u \in Sources /\ temp[u] \in Damages(Complete(u))
        /\ ondisk' = ondisk \cup Damages(temp[u])
        /\ mixed' = mixed \cup {d \in Downloads : Reading(d)}
    BY <1>4 DEF rename, Sources
  <2>2. DownloadTypeOK' /\ Whole(remote)' /\ \A x \in ondisk' : Whole(x)
    <3>1. DownloadTypeOK'
      BY <1>1, <1>2, <2>1 DEF DownloadTypeOK
    <3>2. Whole(remote)'
      BY <2>1 DEF Whole
    <3>3. \A x \in Damages(temp[u]) : Whole(x)
      BY <2>1, WholeFacts DEF Whole
    <3> QED
      BY <1>1, <2>1, <3>1, <3>2, <3>3
  <2>3. \E n \in 0 .. Len(remote') : <<>> = First(remote', n)
    <3>1. 0 \in 0 .. Len(remote') /\ First(remote', 0) = <<>>
      BY <2>1, WholeFacts DEF First
    <3> QED
      BY <3>1
  <2>4. ASSUME NEW d \in Downloads
        PROVE  Received(d)'
    <3>1. d \notin mixed' => d \notin mixed /\ (stage[d] = "read" => local_temp[d] = <<>>)
      BY <2>1 DEF Reading
    <3> QED
      BY <1>1, <1>2, <2>3, <3>1 DEF Received, Whole
  <2> QED
    BY <2>2, <2>4 DEF DownloadInv
<1> QED
  BY <1>3, <1>4 DEF Handle, write_file, write_at, truncate, remove, Calling, destination

\* An upload reaches the downloads through the target's file alone.
LEMMA UploadsKeepDownloads ==
  ASSUME TransferInv, DownloadInv, NEW u \in Uploads, UploadStep(u)
  PROVE  DownloadInv'
<1>1. /\ DownloadTypeOK /\ Whole(remote) /\ \A d \in Downloads : Received(d)
      /\ \A x \in ondisk : Whole(x)
  BY DEF DownloadInv
<1>2. UploadInv(u)
  BY DEF TransferInv
<1>3. ASSUME UNCHANGED <<remote, ondisk, downloading, mixed>>, faults' = faults \/ Fault
      PROVE  DownloadInv'
  <2>1. UNCHANGED <<local, local_temp, stage, durable>>
    BY <1>3 DEF downloading
  <2>2. \A d \in Downloads : Received(d)'
    BY <1>1, <1>3, <2>1, ReceivedKept
  <2>3. faults' \in 0 .. MaxFaults
    BY <1>1, <1>3, TransferAssumption DEF DownloadTypeOK, Fault, TransferAssumption
  <2>4. DownloadTypeOK'
    BY <1>1, <1>3, <2>1, <2>3 DEF DownloadTypeOK
  <2>5. Whole(remote)' /\ \A x \in ondisk' : Whole(x)
    BY <1>1, <1>3 DEF Whole
  <2> QED
    BY <2>2, <2>4, <2>5 DEF DownloadInv
<1>4. CASE AgentServes(u)
  <2>1. Waits(u) /\ Handle(u, phase[u]) /\ UNCHANGED downloading /\ UNCHANGED faults
    BY <1>4 DEF AgentServes
  <2>2. phase[u] \in Calling /\ (phase[u] = "rename" => temp[u] \in Damages(Complete(u)))
    BY <1>2, <2>1, StoredComplete DEF Waits, UploadInv, TempFollows, Handle, rename
  <2> QED
    BY <2>1, <2>2, HandleKeeps
<1>5. ASSUME NEW request \in Calling, AgentServesLate(u, request)
      PROVE  DownloadInv'
  <2>1. request \in late[u] /\ Handle(u, request) /\ UNCHANGED downloading /\ UNCHANGED faults
    BY <1>5 DEF AgentServesLate
  <2>2. request = "rename" => temp[u] \in Damages(Complete(u))
    BY <1>2, <2>1, StoredComplete DEF Handle, rename, UploadInv, LateIsHarmless
  <2> QED
    BY <2>1, <2>2, HandleKeeps
<1>6. CASE upload_file(u) \/ AgentRefuses(u) \/ GoesOn(u) \/ GivesUp(u) \/ CallLost(u)
  <2>1. UNCHANGED <<remote, ondisk, downloading, mixed>> /\ (faults' = faults \/ Fault)
    BY <1>6 DEF upload_file, AgentRefuses, GoesOn, GivesUp, CallLost, destination
  <2> QED
    BY <1>3, <2>1
<1> QED
  BY <1>4, <1>5, <1>6 DEF UploadStep

\* A crash undoes a replacement, or leaves it: what was replaced is on disk.
LEMMA CrashKeepsDownloads ==
  ASSUME DownloadInv, MachineCrashes
  PROVE  DownloadInv'
<1>1. /\ DownloadTypeOK /\ Whole(remote) /\ \A d \in Downloads : Received(d)
      /\ \A x \in ondisk : Whole(x)
  BY DEF DownloadInv
<1>2. /\ stage' = [d \in Downloads |-> IF stage[d] \in {"read", "sync", "rename"} THEN "dead" ELSE stage[d]]
      /\ faults < MaxFaults /\ faults' = faults + 1
      /\ UNCHANGED <<remote, ondisk, local_temp, durable, mixed>>
  BY DEF MachineCrashes, Fault, destination
<1>3. PICK undone \in SUBSET {d \in Downloads : stage[d] = "ok"},
           hit \in SUBSET {d \in Downloads : stage[d] = "ok" /\ ~durable[d]} :
        local' = [d \in Downloads |-> IF d \in undone THEN Complete(Old)
                                      ELSE IF d \in hit THEN Torn_of(local[d]) ELSE local[d]]
  BY DEF MachineCrashes
<1>4. hit = {}
  BY <1>1 DEF Received
<1>5. /\ local' \in [Downloads -> Seq(Chunks)]
      /\ \A d \in Downloads : local'[d] = local[d] \/ local'[d] = Complete(Old)
  <2>1. Complete(Old) \in Seq(Chunks)
    BY CompleteIsWhole DEF Sources
  <2> QED
    BY <1>1, <1>3, <1>4, <2>1 DEF DownloadTypeOK
<1>6. DownloadTypeOK'
  <2>1. stage' \in [Downloads -> {"idle", "read", "sync", "rename"} \cup Ended]
    BY <1>1, <1>2 DEF DownloadTypeOK, Ended
  <2> QED
    BY <1>1, <1>2, <1>5, <2>1, TransferAssumption DEF DownloadTypeOK, TransferAssumption
<1>7. ASSUME NEW d \in Downloads
      PROVE  Received(d)'
  <2>1. /\ stage'[d] \notin {"read", "sync", "rename"}
        /\ stage'[d] = "ok" => stage[d] = "ok"
    BY <1>1, <1>2 DEF DownloadTypeOK
  <2>2. d \notin mixed => Whole(local'[d])
    BY <1>1, <1>5, CompleteIsWhole DEF Received, Whole, Sources
  <2> QED
    BY <1>1, <1>2, <2>1, <2>2 DEF Received, Whole
<1> QED
  BY <1>1, <1>2, <1>6, <1>7 DEF DownloadInv, Whole

\* A crash of the target leaves a file that was there once, as a rename would.
LEMMA TargetCrashKeepsDownloads ==
  ASSUME DownloadInv, TargetCrashes
  PROVE  DownloadInv'
<1>1. /\ DownloadTypeOK /\ \A d \in Downloads : Received(d)
      /\ \A x \in ondisk : Whole(x)
  BY DEF DownloadInv
<1>2. /\ UNCHANGED <<local, local_temp, stage, durable>>
      /\ remote' \in ondisk /\ ondisk' = {remote'}
      /\ mixed' = mixed \cup {d \in Downloads : Reading(d)}
      /\ faults < MaxFaults /\ faults' = faults + 1
  BY DEF TargetCrashes, downloading, Fault
<1>3. DownloadTypeOK'
  BY <1>1, <1>2, TransferAssumption DEF DownloadTypeOK, TransferAssumption
<1>4. Whole(remote') /\ \A x \in ondisk' : Whole(x)
  BY <1>1, <1>2
<1>5. \E n \in 0 .. Len(remote') : <<>> = First(remote', n)
  <2>1. 0 \in 0 .. Len(remote') /\ First(remote', 0) = <<>>
    BY <1>4, WholeFacts DEF First, Whole
  <2> QED
    BY <2>1
<1>6. ASSUME NEW d \in Downloads
      PROVE  Received(d)'
  <2>1. d \notin mixed' => d \notin mixed /\ (stage[d] = "read" => local_temp[d] = <<>>)
    BY <1>2 DEF Reading
  <2> QED
    BY <1>1, <1>2, <1>5, <2>1 DEF Received, Whole
<1> QED
  BY <1>3, <1>4, <1>6 DEF DownloadInv, Whole

\* What every download holds (download_file, mcp.rs:451).
THEOREM DownloadsKeepTrack == TransferSpec => []DownloadInv
<1>1. TransferInit => DownloadInv
  <2> SUFFICES ASSUME TransferInit PROVE DownloadInv
    OBVIOUS
  <2>1. Old \in Sources /\ Complete(Old) \in Seq(Chunks) /\ Complete(Old) \in Damages(Complete(Old))
    BY CompleteIsWhole DEF Sources
  <2>2. DownloadTypeOK
    BY <2>1, TransferAssumption DEF TransferInit, DownloadTypeOK, TransferAssumption
  <2>3. \A d \in Downloads : Received(d)
    BY <2>1 DEF TransferInit, Received, Whole
  <2> QED
    BY <2>1, <2>2, <2>3 DEF TransferInit, DownloadInv, Whole
<1>2. TransferInv /\ DownloadInv /\ [TransferNext]_transferVars => DownloadInv'
  <2> SUFFICES ASSUME TransferInv, DownloadInv, [TransferNext]_transferVars PROVE DownloadInv'
    OBVIOUS
  <2>1. ASSUME NEW u \in Uploads, UploadStep(u) PROVE DownloadInv'
    BY <2>1, UploadsKeepDownloads
  <2>2. ASSUME NEW d \in Downloads, DownloadStep(d) PROVE DownloadInv'
    BY <2>2, ReadChunkKeeps, DownloadMovesKeep DEF DownloadStep
  <2>3. CASE MachineCrashes \/ TargetCrashes
    BY <2>3, CrashKeepsDownloads, TargetCrashKeepsDownloads
  <2>4. CASE UNCHANGED transferVars
    <3>1. UNCHANGED <<remote, ondisk, local, local_temp, stage, durable, mixed, faults>>
      BY <2>4 DEF transferVars, uploading, downloading, destination
    <3>2. \A d \in Downloads : Received(d)'
      BY <3>1, ReceivedKept DEF DownloadInv
    <3>3. DownloadTypeOK'
      BY <3>1 DEF DownloadInv, DownloadTypeOK
    <3> QED
      BY <3>1, <3>2, <3>3 DEF DownloadInv, Whole
  <2> QED
    BY <2>1, <2>2, <2>3, <2>4 DEF TransferNext
<1> QED
  BY <1>1, <1>2, TransfersKeepTrack, PTL DEF TransferSpec

\* download_file leaves the old file or what the target's was as a whole, also
\* after a crash, for any number of transfers, files of any size and any faults.
THEOREM DownloadsAreWhole == TransferSpec => []DownloadWhole
<1>1. DownloadInv => DownloadWhole
  <2> SUFFICES ASSUME DownloadInv, NEW d \in Downloads
               PROVE  /\ \A k \in DOMAIN local[d] : local[d][k] # Torn
                      /\ d \notin mixed => \E s \in Sources : local[d] \in Damages(Complete(s))
    BY DEF DownloadWhole
  <2>1. local[d] \in Seq(Chunks) /\ Torn \notin Chunks
    BY TransferAssumption DEF DownloadInv, DownloadTypeOK, TransferAssumption, Chunks
  <2>2. d \notin mixed => Whole(local[d])
    BY DEF DownloadInv, Received
  <2> QED
    BY <2>1, <2>2 DEF Whole
<1> QED
  BY <1>1, DownloadsKeepTrack, PTL

\* The transfers' type invariant.
THEOREM TransferTypes == TransferSpec => []TransferTypeOK
<1>1. TransferInv /\ DownloadInv => TransferTypeOK
  <2>1. Seq(Chunks) \subseteq Content
    BY DEF Content, Chunks
  <2> QED
    BY <2>1 DEF TransferInv, UploadTypeOK, DownloadInv, DownloadTypeOK, TransferTypeOK
<1> QED
  BY <1>1, TransfersKeepTrack, DownloadsKeepTrack, PTL

=============================================================================
