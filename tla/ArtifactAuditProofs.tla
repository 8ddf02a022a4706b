------------------------ MODULE ArtifactAuditProofs -------------------------
(***************************************************************************)
(* What an audit and a receipt vouch for, for any files, writers and       *)
(* sizes.                                                                  *)
(***************************************************************************)
EXTENDS ArtifactAudit, TLAPS

\* A content is a sequence of chunks no longer than the bound.
LEMMA ContentIsSeq ==
    \A s : s \in Content <=> s \in Seq(Chunks) /\ Len(s) <= MaxChunks
<1>1. ASSUME NEW s, s \in Content
      PROVE  s \in Seq(Chunks) /\ Len(s) <= MaxChunks
  <2>1. PICK n \in 0 .. MaxChunks : s \in [1 .. n -> Chunks]
    BY <1>1 DEF Content
  <2>2. n \in Nat /\ n <= MaxChunks
    BY AuditAssumption
  <2>3. s \in Seq(Chunks) /\ Len(s) = n
    BY <2>1, <2>2
  <2> QED BY <2>2, <2>3
<1>2. ASSUME NEW s, s \in Seq(Chunks), Len(s) <= MaxChunks
      PROVE  s \in Content
  <2>1. Len(s) \in 0 .. MaxChunks /\ s \in [1 .. Len(s) -> Chunks]
    BY <1>2, AuditAssumption
  <2> QED BY <2>1 DEF Content
<1> QED BY <1>1, <1>2

\* A file may be longer by a chunk as long as the bound allows.
LEMMA ContentGrows ==
    ASSUME NEW s \in Content, Len(s) < MaxChunks, NEW c \in Chunks
    PROVE  Append(s, c) \in Content
<1>1. s \in Seq(Chunks) /\ Len(s) \in Nat
  BY ContentIsSeq
<1>2. Append(s, c) \in Seq(Chunks) /\ Len(Append(s, c)) = Len(s) + 1
  BY <1>1
<1>3. Len(Append(s, c)) <= MaxChunks
  BY <1>1, <1>2, AuditAssumption
<1> QED BY <1>2, <1>3, ContentIsSeq

LEMMA EmptyIsContent == <<>> \in Content
<1>1. <<>> \in Seq(Chunks) /\ Len(<<>>) <= MaxChunks
  BY AuditAssumption
<1> QED BY <1>1, ContentIsSeq, Zenon

-----------------------------------------------------------------------------
(* Type correctness.  A reader only holds a handle while its recording or  *)
(* its audit is at it.                                                     *)

HandlesHaveOwners ==
    /\ hash["recorder"] # None =>
          /\ recording # None /\ recording.path = hash["recorder"].path
          /\ recording.sha256 = None /\ recording.size = None
    /\ recording # None /\ recording.size # None => recording.sha256 # None
    /\ audit # None => audit.left \subseteq Recorded(audit.receipts)
    /\ audit # None /\ audit.current # None => audit.current \in audit.left
    /\ \A r \in Readers : hash[r] # None => View(hash[r]) # None
    /\ hash["auditor"] # None =>
          /\ audit # None /\ audit.current # None
          /\ hash["auditor"].path = PathOf(audit.current)

TypeInv == TypeOK /\ HandlesHaveOwners

\* What is read through a handle is a content.
LEMMA ViewIsContent ==
    ASSUME TypeInv, NEW r \in Readers, hash[r] # None
    PROVE  hash[r] \in Handle /\ View(hash[r]) \in Content
  BY DEF TypeInv, TypeOK, HandlesHaveOwners, View, Handle

\* Judging an artifact changes the audit and nothing else of it.
LEMMA SettleTyped ==
    ASSUME audit \in Audit, NEW n \in Names, NEW stale, Settle(n, stale)
    PROVE  /\ audit' \in Audit /\ audit' # None
           /\ audit'.goal = audit.goal /\ audit'.receipts = audit.receipts
           /\ audit'.left = audit.left \ {n} /\ audit'.current = None
           /\ audit'.bad = IF stale THEN audit.bad \cup {n} ELSE audit.bad
<1>1. /\ audit' \in Audit
      /\ audit'.goal = audit.goal /\ audit'.receipts = audit.receipts
      /\ audit'.left = audit.left \ {n} /\ audit'.current = None
      /\ audit'.bad = IF stale THEN audit.bad \cup {n} ELSE audit.bad
  BY DEF Settle, Audit
<1> QED BY <1>1, NoneAssumption

LEMMA InitTyped == Init => TypeInv
<1> SUFFICES ASSUME Init PROVE TypeInv
  OBVIOUS
<1>1. TypeOK
  BY DEF Init, TypeOK
<1>2. HandlesHaveOwners
  BY DEF Init, HandlesHaveOwners, Readers
<1> QED BY <1>1, <1>2 DEF TypeInv

LEMMA NextTyped == TypeInv /\ [Next]_vars => TypeInv'
<1> SUFFICES ASSUME TypeInv, [Next]_vars PROVE TypeInv'
  OBVIOUS
<1> USE DEF TypeInv
<1>1. ASSUME NEW r \in Readers, ReadChunk(r) PROVE TypeInv'
  <2>1. /\ hash[r] \in Handle /\ View(hash[r]) \in Content
        /\ Len(hash[r].got) < Len(View(hash[r]))
    BY <1>1, ViewIsContent, ContentIsSeq DEF ReadChunk, AtEnd, Handle
  <2>2. /\ Len(hash[r].got) < MaxChunks
        /\ View(hash[r])[Len(hash[r].got) + 1] \in Chunks
    BY <2>1, ContentIsSeq, AuditAssumption DEF Handle
  <2>3. Append(hash[r].got, View(hash[r])[Len(hash[r].got) + 1]) \in Content
    BY <2>1, <2>2, ContentGrows DEF Handle
  <2>4. hash' \in [Readers -> Handle \cup {None}]
    BY <1>1, <2>1, <2>3 DEF ReadChunk, TypeOK, Handle
  <2>5. TypeOK'
    BY <1>1, <2>4 DEF ReadChunk, TypeOK
  <2>6. /\ hash'[r] = [hash[r] EXCEPT !.got = Append(@, View(hash[r])[Len(@) + 1])]
        /\ \A x \in Readers \ {r} : hash'[x] = hash[x]
    BY <1>1 DEF ReadChunk, TypeOK
  <2>7. \A x \in Readers : hash[x] # None =>
           /\ hash'[x].path = hash[x].path /\ hash'[x].orphan = hash[x].orphan
    BY <2>1, <2>6 DEF Handle
  <2>8. \A x \in Readers : hash'[x] # None => hash[x] # None
    BY <1>1, <2>6 DEF ReadChunk
  <2>9. HandlesHaveOwners'
    BY <1>1, <2>7, <2>8 DEF ReadChunk, HandlesHaveOwners, View, Readers, PathOf, Recorded
  <2> QED BY <2>5, <2>9
<1>2. ASSUME NEW t \in Targets, StartRecording(t[1], t[2]) PROVE TypeInv'
  <2>1. t[1] \in Names /\ t[2] \in Paths
    BY AuditAssumption
  <2>2. Opened(t[2]) \in Handle /\ Opened(t[2]) # None
    BY <2>1, EmptyIsContent, NoneAssumption DEF Opened, Handle
  <2>3. recording' \in Recording /\ recording' # None
    BY <1>2, <2>1, NoneAssumption DEF StartRecording, Recording
  <2>4. TypeOK'
    BY <1>2, <2>2, <2>3 DEF StartRecording, TypeOK, Readers
  <2>5. HandlesHaveOwners'
    BY <1>2, <2>1, <2>2, <2>3
       DEF StartRecording, HandlesHaveOwners, TypeOK, Opened, View, Readers, PathOf, Recorded
  <2> QED BY <2>4, <2>5
<1>3. CASE FinishHash
  <2>1. recording \in Recording /\ hash["recorder"].got \in Content
    BY <1>3 DEF FinishHash, TypeOK, HandlesHaveOwners, Handle, Readers
  <2>2. recording' \in Recording /\ recording' # None
    BY <1>3, <2>1, NoneAssumption DEF FinishHash, Recording
  <2>3. TypeOK'
    BY <1>3, <2>2 DEF FinishHash, TypeOK, Readers
  <2>4. HandlesHaveOwners'
    BY <1>3, <2>1, <2>2
       DEF FinishHash, HandlesHaveOwners, TypeOK, View, Readers, PathOf, Recorded, Recording
  <2> QED BY <2>3, <2>4
<1>4. CASE StatRecorded
  <2>1. recording \in Recording /\ recording.path \in Paths
    BY <1>4 DEF StatRecorded, TypeOK, Recording
  <2>2. files[recording.path] # None => Len(files[recording.path]) \in 0 .. MaxChunks
    BY <2>1, ContentIsSeq, AuditAssumption DEF TypeOK
  <2>3. recording' \in Recording \cup {None}
    BY <1>4, <2>1, <2>2 DEF StatRecorded, Recording
  <2>4. touched' \in [Readers \cup {"approval"} -> SUBSET Paths]
    BY <1>4 DEF StatRecorded, TypeOK, Forget
  <2>5. TypeOK'
    BY <1>4, <2>3, <2>4 DEF StatRecorded, TypeOK
  <2>6. hash["recorder"] = None
    BY <1>4 DEF StatRecorded, HandlesHaveOwners
  <2>7. recording' # None => recording'.sha256 # None
    BY <1>4, <2>1 DEF StatRecorded, Recording
  <2>8. HandlesHaveOwners'
    BY <1>4, <2>6, <2>7
       DEF StatRecorded, HandlesHaveOwners, View, PathOf, Recorded
  <2> QED BY <2>5, <2>8
<1>5. CASE StoreReceipt
  <2>1. recording \in Recording /\ recording.size \in 0 .. MaxChunks /\ recording.sha256 \in Content
    BY <1>5 DEF StoreReceipt, TypeOK, HandlesHaveOwners, Recording
  <2>2. NewReceipt \in Receipt /\ recording.name \in Names
    BY <2>1 DEF NewReceipt, Receipt, Recording
  <2>3. receipts' \in [Names -> Receipt \cup {None}]
    BY <1>5, <2>2 DEF StoreReceipt, TypeOK
  <2>4. touched' \in [Readers \cup {"approval"} -> SUBSET Paths]
    BY <1>5 DEF StoreReceipt, TypeOK, Forget
  <2>5. TypeOK'
    BY <1>5, <2>3, <2>4 DEF StoreReceipt, TypeOK
  <2>6. hash["recorder"] = None
    BY <1>5 DEF StoreReceipt, HandlesHaveOwners
  <2>7. HandlesHaveOwners'
    BY <1>5, <2>6 DEF StoreReceipt, HandlesHaveOwners, View, PathOf, Recorded
  <2> QED BY <2>5, <2>7
<1>6. ASSUME NEW goal \in Goals, BeginAudit(goal) PROVE TypeInv'
  <2>1. audit' \in Audit /\ audit' # None
    BY <1>6, NoneAssumption DEF BeginAudit, TypeOK, Audit, Recorded
  <2>2. hash["auditor"] = None
    BY <1>6 DEF BeginAudit, HandlesHaveOwners
  <2>3. witnessed' \subseteq Names
    BY <1>6 DEF BeginAudit, Matching, Recorded
  <2>4. TypeOK'
    BY <1>6, <2>1, <2>3 DEF BeginAudit, TypeOK
  <2>5. HandlesHaveOwners'
    BY <1>6, <2>2 DEF BeginAudit, HandlesHaveOwners, View, PathOf, Recorded
  <2> QED BY <2>4, <2>5
<1>7. ASSUME NEW n \in Names, StatAudited(n) PROVE TypeInv'
  <2>1. audit \in Audit /\ hash["auditor"] = None
    BY <1>7 DEF StatAudited, TypeOK, HandlesHaveOwners
  <2>2. /\ audit' \in Audit /\ audit' # None
        /\ audit'.left \subseteq audit.left /\ audit'.receipts = audit.receipts
        /\ audit'.current # None => audit'.current \in audit'.left
    <3>1. CASE audit' = [audit EXCEPT !.current = n]
      <4>1. audit' \in Audit /\ audit'.left = audit.left /\ audit'.receipts = audit.receipts
            /\ audit'.current = n
        BY <2>1, <3>1 DEF Audit
      <4> QED BY <1>7, <4>1, NoneAssumption DEF StatAudited
    <3>2. CASE Settle(n, TRUE)
      BY <2>1, <3>2, SettleTyped
    <3> QED BY <1>7, <3>1, <3>2 DEF StatAudited
  <2>3. TypeOK'
    BY <1>7, <2>2 DEF StatAudited, TypeOK
  <2>4. HandlesHaveOwners'
    BY <1>7, <2>1, <2>2 DEF StatAudited, HandlesHaveOwners, View, PathOf, Recorded
  <2> QED BY <2>3, <2>4
<1>8. CASE OpenAudited
  <2>1. /\ audit \in Audit /\ audit.current \in Names
        /\ audit.current \in Recorded(audit.receipts)
    BY <1>8 DEF OpenAudited, TypeOK, HandlesHaveOwners, Audit, Recorded
  <2>2. PathOf(audit.current) \in Paths
    BY <2>1 DEF PathOf, Audit, Recorded, Receipt
  <2>3. CASE files[PathOf(audit.current)] = None
    <3>1. /\ audit' \in Audit /\ audit' # None
          /\ audit'.left \subseteq audit.left /\ audit'.receipts = audit.receipts
          /\ audit'.current = None
      BY <1>8, <2>1, <2>3, SettleTyped DEF OpenAudited
    <3>2. TypeOK'
      BY <1>8, <2>3, <3>1 DEF OpenAudited, TypeOK
    <3>3. HandlesHaveOwners'
      BY <1>8, <2>3, <3>1 DEF OpenAudited, HandlesHaveOwners, View, PathOf, Recorded
    <3> QED BY <3>2, <3>3
  <2>4. CASE files[PathOf(audit.current)] # None
    <3>1. Opened(PathOf(audit.current)) \in Handle /\ Opened(PathOf(audit.current)) # None
      BY <2>2, EmptyIsContent, NoneAssumption DEF Opened, Handle
    <3>2. TypeOK'
      BY <1>8, <2>4, <3>1 DEF OpenAudited, TypeOK, Readers
    <3>3. HandlesHaveOwners'
      BY <1>8, <2>4, <3>1
         DEF OpenAudited, HandlesHaveOwners, TypeOK, Opened, View, Readers, PathOf, Recorded
    <3> QED BY <3>2, <3>3
  <2> QED BY <2>3, <2>4
<1>9. CASE FinishAuditHash
  <2>1. audit \in Audit /\ audit.current \in Names
    BY <1>9 DEF FinishAuditHash, TypeOK, HandlesHaveOwners, Audit
  <2>2. /\ audit' \in Audit /\ audit' # None
        /\ audit'.left \subseteq audit.left /\ audit'.receipts = audit.receipts
        /\ audit'.current = None
    BY <1>9, <2>1, SettleTyped DEF FinishAuditHash
  <2>3. TypeOK'
    BY <1>9, <2>2 DEF FinishAuditHash, TypeOK, Readers
  <2>4. HandlesHaveOwners'
    BY <1>9, <2>2
       DEF FinishAuditHash, HandlesHaveOwners, TypeOK, View, Readers, PathOf, Recorded
  <2> QED BY <2>3, <2>4
<1>10. CASE Conclude
  <2>1. hash["auditor"] = None
    BY <1>10 DEF Conclude, Concluded, HandlesHaveOwners
  <2>2. touched' \in [Readers \cup {"approval"} -> SUBSET Paths]
    BY <1>10 DEF Conclude, TypeOK, Forget
  <2>3. status' \in {"running", "verified", "failed", "approved", "submitted"}
    <3>1. audit.goal \in {"verify", "approve", "submit", "compare"}
      BY <1>10, AuditAssumption DEF Conclude, Concluded, TypeOK, Audit
    <3> QED BY <1>10, <3>1 DEF Conclude, TypeOK, Passed
  <2>4. TypeOK'
    BY <1>10, <2>2, <2>3 DEF Conclude, TypeOK
  <2>5. HandlesHaveOwners'
    BY <1>10, <2>1 DEF Conclude, HandlesHaveOwners, View, PathOf, Recorded
  <2> QED BY <2>4, <2>5
<1>11. ASSUME NEW p \in Paths, NEW c \in Contents, Swap(p, c) PROVE TypeInv'
  <2>1. files' \in [Paths -> Content \cup {None}]
    BY <1>11, AuditAssumption DEF Swap, TypeOK
  <2>2. ASSUME NEW r \in Readers
        PROVE  /\ hash'[r] \in Handle \cup {None} /\ (hash'[r] # None <=> hash[r] # None)
               /\ hash[r] # None => /\ hash'[r].path = hash[r].path
                                    /\ (View(hash[r]))' = View(hash[r])
    <3>1. CASE hash[r] # None /\ hash[r].path = p /\ hash[r].orphan = None
      <4>1. hash[r] \in Handle /\ files[p] \in Content
        BY <3>1, ViewIsContent DEF View
      <4>2. hash'[r] = [hash[r] EXCEPT !.orphan = files[p]]
        BY <1>11, <3>1 DEF Swap
      <4> QED BY <3>1, <4>1, <4>2, NoneAssumption DEF View, Handle
    <3>2. CASE ~(hash[r] # None /\ hash[r].path = p /\ hash[r].orphan = None)
      <4>1. hash'[r] = hash[r]
        BY <1>11, <3>2 DEF Swap
      <4>2. hash[r] # None /\ hash[r].orphan = None => files'[hash[r].path] = files[hash[r].path]
        BY <1>11, <3>2 DEF Swap, TypeOK, Handle
      <4> QED BY <4>1, <4>2 DEF View, TypeOK
    <3> QED BY <3>1, <3>2
  <2>3. TypeOK'
    <3>1. hash' \in [Readers -> Handle \cup {None}]
      BY <1>11, <2>2 DEF Swap
    <3>2. touched' \in [Readers \cup {"approval"} -> SUBSET Paths] /\ witnessed' \subseteq Names
      BY <1>11 DEF Swap, Note, TypeOK, Matching, Recorded
    <3> QED BY <1>11, <2>1, <3>1, <3>2 DEF Swap, Note, TypeOK
  <2>4. HandlesHaveOwners'
    BY <1>11, <2>2 DEF Swap, Note, HandlesHaveOwners, Readers, PathOf, Recorded
  <2> QED BY <2>3, <2>4
<1>12. ASSUME NEW p \in Paths, Truncate(p) PROVE TypeInv'
  <2>1. files' \in [Paths -> Content \cup {None}] /\ \A x \in Paths : files[x] # None => files'[x] # None
    BY <1>12, EmptyIsContent, NoneAssumption DEF Truncate, TypeOK
  <2>2. TypeOK'
    BY <1>12, <2>1 DEF Truncate, Note, TypeOK, Matching, Recorded
  <2>3. HandlesHaveOwners'
    BY <1>12, <2>1 DEF Truncate, Note, HandlesHaveOwners, TypeOK, View, Handle, PathOf, Recorded
  <2> QED BY <2>2, <2>3
<1>13. ASSUME NEW p \in Paths, NEW c \in Chunks, AppendChunk(p, c) PROVE TypeInv'
  <2>1. Append(files[p], c) \in Content
    BY <1>13, ContentGrows DEF AppendChunk, TypeOK
  <2>2. files' \in [Paths -> Content \cup {None}] /\ \A x \in Paths : files[x] # None => files'[x] # None
    BY <1>13, <2>1, NoneAssumption DEF AppendChunk, TypeOK
  <2>3. TypeOK'
    BY <1>13, <2>2 DEF AppendChunk, Note, TypeOK, Matching, Recorded
  <2>4. HandlesHaveOwners'
    BY <1>13, <2>2 DEF AppendChunk, Note, HandlesHaveOwners, TypeOK, View, Handle, PathOf, Recorded
  <2> QED BY <2>3, <2>4
<1>14. CASE RecordingRaises
  <2>1. recording' = None /\ hash'["recorder"] = None /\ audit' = audit
    BY <1>14 DEF RecordingRaises, TypeOK, Readers
  <2>2. hash' \in [Readers -> Handle \cup {None}] /\ hash'["auditor"] = hash["auditor"]
    BY <1>14 DEF RecordingRaises, TypeOK, Readers
  <2>3. touched' \in [Readers \cup {"approval"} -> SUBSET Paths]
    BY <1>14 DEF RecordingRaises, TypeOK, Forget
  <2>4. TypeOK'
    BY <1>14, <2>1, <2>2, <2>3 DEF RecordingRaises, TypeOK
  <2>5. HandlesHaveOwners'
    BY <1>14, <2>1, <2>2
       DEF RecordingRaises, HandlesHaveOwners, View, Readers, PathOf, Recorded
  <2> QED BY <2>4, <2>5
<1>15. ASSUME NEW n \in Names, AuditRaises(n) PROVE TypeInv'
  <2>1. audit \in Audit
    BY <1>15 DEF AuditRaises, TypeOK
  <2>2. /\ audit' \in Audit /\ audit' # None
        /\ audit'.left \subseteq audit.left /\ audit'.receipts = audit.receipts
        /\ audit'.current = None
    BY <1>15, <2>1, SettleTyped DEF AuditRaises
  <2>3. /\ hash' \in [Readers -> Handle \cup {None}] /\ hash'["auditor"] = None
        /\ hash'["recorder"] = hash["recorder"]
    BY <1>15 DEF AuditRaises, TypeOK, Readers
  <2>4. TypeOK'
    BY <1>15, <2>2, <2>3 DEF AuditRaises, TypeOK
  <2>5. HandlesHaveOwners'
    BY <1>15, <2>2, <2>3
       DEF AuditRaises, HandlesHaveOwners, View, Readers, PathOf, Recorded
  <2> QED BY <2>4, <2>5
<1>16. CASE UNCHANGED vars
  BY <1>16 DEF vars, TypeOK, HandlesHaveOwners, View, PathOf, Recorded
<1> QED
  BY <1>1, <1>2, <1>3, <1>4, <1>5, <1>6, <1>7, <1>8, <1>9, <1>10, <1>11, <1>12,
     <1>13, <1>14, <1>15, <1>16 DEF Next

\* The state is well formed for any files, receipts and sizes.
THEOREM AuditTypeCorrect == Spec => []TypeOK
<1>1. TypeInv => TypeOK
  BY DEF TypeInv
<1> QED BY InitTyped, NextTyped, <1>1, PTL DEF Spec

-----------------------------------------------------------------------------
(* What a reader has so far of a file that was left alone is true of it.   *)

HandleFaithful(r) ==
    hash[r] # None /\ hash[r].path \notin touched[r] =>
        /\ hash[r].orphan = None
        /\ Len(hash[r].got) <= Len(files[hash[r].path])
        /\ \A i \in 1 .. Len(hash[r].got) : hash[r].got[i] = files[hash[r].path][i]

RecordingFaithful ==
    recording # None /\ recording.path \notin touched["recorder"] =>
        /\ recording.sha256 # None => recording.sha256 = files[recording.path]
        /\ recording.size # None => recording.size = Len(files[recording.path])

AuditFaithful ==
    /\ audit = None => unread = {}
    /\ audit # None =>
          /\ audit.bad \cap audit.left = {} /\ unread \cap audit.left = {}
          /\ audit.current # None /\ PathOf(audit.current) \notin touched["auditor"] =>
                Len(files[PathOf(audit.current)]) = audit.receipts[audit.current].size
          /\ \A n \in Recorded(audit.receipts) \ audit.left :
                PathOf(n) \notin touched["auditor"] =>
                    (n \in audit.bad <=> n \in unread \/ ~Describes(audit.receipts[n]))

Inv ==
    /\ TypeInv
    /\ \A r \in Readers : HandleFaithful(r)
    /\ RecordingFaithful
    /\ AuditFaithful

\* At the end of a file that was left alone all of it has been read.
LEMMA WholeFileRead ==
    ASSUME Inv, NEW r \in Readers, hash[r] # None, AtEnd(hash[r]),
           hash[r].path \notin touched[r]
    PROVE  hash[r].got = files[hash[r].path]
<1>1. /\ hash[r] \in Handle /\ View(hash[r]) \in Content
      /\ View(hash[r]) = files[hash[r].path]
  BY ViewIsContent DEF Inv, HandleFaithful, View
<1>2. /\ hash[r].got \in Seq(Chunks) /\ files[hash[r].path] \in Seq(Chunks)
      /\ Len(hash[r].got) \in Nat /\ Len(files[hash[r].path]) \in Nat
  BY <1>1, ContentIsSeq DEF Handle
<1>3. Len(hash[r].got) = Len(files[hash[r].path])
  BY <1>1, <1>2 DEF Inv, HandleFaithful, AtEnd
<1>4. \A i \in 1 .. Len(hash[r].got) : hash[r].got[i] = files[hash[r].path][i]
  BY DEF Inv, HandleFaithful
<1> QED BY <1>2, <1>3, <1>4

\* A writer takes nothing back of what is known of the files it leaves alone.
LEMMA WritingKeepsInv ==
    ASSUME Inv, TypeInv', NEW p \in Paths, Note(p),
           \A x \in Paths \ {p} : files'[x] = files[x],
           \A r \in Readers : hash'[r] # None =>
               /\ hash[r] # None /\ hash'[r].path = hash[r].path
               /\ hash[r].path # p => hash'[r] = hash[r]
    PROVE  Inv'
<1>1. ASSUME NEW r \in Readers, Watched(r)
      PROVE  touched'[r] = touched[r] \cup {p}
  BY <1>1 DEF Note, Inv, TypeInv, TypeOK
<1>2. recording' = recording /\ audit' = audit
  BY DEF Note
<1>3. \A r \in Readers : hash[r] # None => Watched(r)
  BY DEF Watched, Inv, TypeInv, HandlesHaveOwners, Readers
<1>4. ASSUME NEW r \in Readers PROVE HandleFaithful(r)'
  BY <1>1, <1>3, <1>4, ViewIsContent DEF Inv, HandleFaithful, Handle
<1>5. RecordingFaithful'
  <2>1. recording # None =>
          /\ recording.path \in Paths
          /\ touched'["recorder"] = touched["recorder"] \cup {p}
    BY <1>1 DEF Inv, TypeInv, TypeOK, Recording, Watched, Readers
  <2> QED BY <1>2, <2>1 DEF Inv, RecordingFaithful
<1>6. AuditFaithful'
  <2> SUFFICES ASSUME audit # None
               PROVE  AuditFaithful'
    BY <1>2 DEF Note, Inv, AuditFaithful
  <2>1. touched'["auditor"] = touched["auditor"] \cup {p}
    BY <1>1 DEF Watched, Readers
  <2>2. \A n \in Recorded(audit.receipts) : PathOf(n) \in Paths /\ audit.receipts[n].path = PathOf(n)
    BY DEF Inv, TypeInv, TypeOK, Audit, Recorded, PathOf, Receipt
  <2>3. audit.current # None => audit.current \in Recorded(audit.receipts)
    BY DEF Inv, TypeInv, HandlesHaveOwners
  <2>4. unread' = unread
    BY DEF Note
  <2> QED BY <1>2, <2>1, <2>2, <2>3, <2>4 DEF Inv, AuditFaithful, Describes, PathOf, Recorded
<1> QED BY <1>4, <1>5, <1>6 DEF Inv

LEMMA InitFaithful == Init => Inv
  BY InitTyped DEF Init, Inv, HandleFaithful, RecordingFaithful, AuditFaithful

\* Nothing that a step of the recorder reads or writes matters to the audit.
LEMMA AuditUntouched ==
    ASSUME AuditFaithful, UNCHANGED <<files, audit, unread>>, touched'["auditor"] = touched["auditor"]
    PROVE  AuditFaithful'
  BY DEF AuditFaithful, Describes, PathOf, Recorded

\* A judgement that is true of its file if that was left alone keeps them all true.
LEMMA SettledTruly ==
    ASSUME AuditFaithful, audit # None, audit \in Audit,
           NEW n \in audit.left, n \in Recorded(audit.receipts), n \in Names, NEW stale \in BOOLEAN,
           Settle(n, stale), UNCHANGED <<files, touched, unread>>,
           PathOf(n) \notin touched["auditor"] => (stale <=> ~Describes(audit.receipts[n]))
    PROVE  AuditFaithful'
<1>1. /\ audit' # None /\ audit'.receipts = audit.receipts /\ audit'.current = None
      /\ audit'.left = audit.left \ {n}
      /\ audit'.bad = IF stale THEN audit.bad \cup {n} ELSE audit.bad
  BY SettleTyped
<1>2. n \notin audit.bad /\ n \notin unread
  BY DEF AuditFaithful
<1>3. ASSUME NEW m \in Recorded(audit.receipts) \ (audit.left \ {n}),
             PathOf(m) \notin touched["auditor"]
      PROVE  m \in audit'.bad <=> m \in unread \/ ~Describes(audit.receipts[m])
  <2>1. CASE m = n
    BY <1>1, <1>2, <1>3, <2>1
  <2>2. CASE m # n
    BY <1>1, <1>3, <2>2 DEF AuditFaithful
  <2> QED BY <2>1, <2>2
<1>4. audit'.bad \cap audit'.left = {} /\ unread \cap audit'.left = {}
  BY <1>1 DEF AuditFaithful
<1> QED BY <1>1, <1>3, <1>4 DEF AuditFaithful, Describes, PathOf, Recorded

LEMMA NextFaithful == Inv /\ [Next]_vars => Inv'
<1> SUFFICES ASSUME Inv, [Next]_vars PROVE Inv'
  OBVIOUS
<1>0. TypeInv /\ TypeInv'
  BY NextTyped DEF Inv
<1>1. ASSUME NEW r \in Readers, ReadChunk(r) PROVE Inv'
  <2>1. /\ hash[r] \in Handle /\ View(hash[r]) \in Content /\ hash[r] # None
        /\ Len(hash[r].got) < Len(View(hash[r]))
    BY <1>0, <1>1, ViewIsContent, ContentIsSeq DEF ReadChunk, AtEnd, Handle
  <2>2. /\ hash'[r] = [hash[r] EXCEPT !.got = Append(@, View(hash[r])[Len(@) + 1])]
        /\ \A x \in Readers \ {r} : hash'[x] = hash[x]
    BY <1>0, <1>1 DEF ReadChunk, TypeInv, TypeOK
  <2>3. HandleFaithful(r)'
    <3> SUFFICES ASSUME hash[r].path \notin touched[r]
                 PROVE  HandleFaithful(r)'
      BY <1>1, <2>1, <2>2 DEF ReadChunk, HandleFaithful, Handle
    <3>1. View(hash[r]) = files[hash[r].path] /\ hash[r].orphan = None
      BY <2>1 DEF Inv, HandleFaithful, View
    <3> DEFINE g == hash[r].got
               f == files[hash[r].path]
    <3>2. /\ g \in Seq(Chunks) /\ f \in Seq(Chunks) /\ Len(g) \in Nat /\ Len(f) \in Nat
          /\ Len(g) < Len(f) /\ f[Len(g) + 1] \in Chunks
      BY <2>1, <3>1, ContentIsSeq DEF Handle
    <3>3. /\ hash'[r].got = Append(g, f[Len(g) + 1]) /\ hash'[r].path = hash[r].path
          /\ hash'[r].orphan = None
      BY <2>1, <2>2, <3>1 DEF Handle
    <3>4. \A i \in 1 .. Len(g) : g[i] = f[i]
      BY <2>1 DEF Inv, HandleFaithful
    <3> HIDE DEF g, f
    <3>5. /\ Len(Append(g, f[Len(g) + 1])) <= Len(f)
          /\ \A i \in 1 .. Len(Append(g, f[Len(g) + 1])) : Append(g, f[Len(g) + 1])[i] = f[i]
      BY <3>2, <3>4
    <3> QED BY <1>1, <3>3, <3>5 DEF ReadChunk, HandleFaithful, f
  <2>4. \A x \in Readers : HandleFaithful(x)'
    BY <1>1, <2>2, <2>3 DEF ReadChunk, Inv, HandleFaithful
  <2>5. RecordingFaithful' /\ AuditFaithful'
    BY <1>1, AuditUntouched DEF ReadChunk, Inv, RecordingFaithful
  <2> QED BY <1>0, <2>4, <2>5 DEF Inv
<1>2. ASSUME NEW t \in Targets, StartRecording(t[1], t[2]) PROVE Inv'
  <2>1. t[2] \in Paths /\ files[t[2]] \in Content
    BY <1>0, <1>2, AuditAssumption DEF StartRecording, TypeInv, TypeOK
  <2>2. Len(<<>>) <= Len(files[t[2]]) /\ Len(<<>>) = 0
    BY <2>1, ContentIsSeq
  <2>3. \A x \in Readers : HandleFaithful(x)'
    BY <1>0, <1>2, <2>2 DEF StartRecording, Inv, TypeInv, TypeOK, HandleFaithful, Opened, Readers
  <2>4. RecordingFaithful' /\ AuditFaithful'
    BY <1>2, AuditUntouched DEF StartRecording, Inv, RecordingFaithful
  <2> QED BY <1>0, <2>3, <2>4 DEF Inv
<1>3. CASE FinishHash
  <2>1. recording \in Recording /\ recording.path = hash["recorder"].path /\ recording.size = None
    BY <1>0, <1>3 DEF FinishHash, TypeInv, TypeOK, HandlesHaveOwners
  <2>2. /\ recording'.path = recording.path /\ recording'.size = None
        /\ recording'.sha256 = hash["recorder"].got
    BY <1>3, <2>1 DEF FinishHash, Recording
  <2>3. RecordingFaithful'
    BY <1>3, <2>1, <2>2, WholeFileRead DEF FinishHash, RecordingFaithful, Readers
  <2>4. \A x \in Readers : HandleFaithful(x)'
    BY <1>0, <1>3 DEF FinishHash, Inv, TypeInv, TypeOK, HandleFaithful
  <2>5. AuditFaithful'
    BY <1>3, AuditUntouched DEF FinishHash, Inv
  <2> QED BY <1>0, <2>3, <2>4, <2>5 DEF Inv
<1>4. CASE StatRecorded
  <2>1. recording \in Recording /\ hash["recorder"] = None
    BY <1>0, <1>4 DEF StatRecorded, TypeInv, TypeOK, HandlesHaveOwners
  <2>2. \A r \in Readers \ {"recorder"} : touched'[r] = touched[r]
    BY <1>0, <1>4 DEF StatRecorded, Forget, TypeInv, TypeOK
  <2>3. RecordingFaithful'
    BY <1>4, <2>1 DEF StatRecorded, Inv, RecordingFaithful, Recording
  <2>4. \A x \in Readers : HandleFaithful(x)'
    BY <1>4, <2>1, <2>2 DEF StatRecorded, Inv, HandleFaithful
  <2>5. AuditFaithful'
    BY <1>4, <2>2, AuditUntouched DEF StatRecorded, Inv, Readers
  <2> QED BY <1>0, <2>3, <2>4, <2>5 DEF Inv
<1>5. CASE StoreReceipt
  <2>1. hash["recorder"] = None
    BY <1>0, <1>5 DEF StoreReceipt, TypeInv, HandlesHaveOwners
  <2>2. \A r \in Readers \ {"recorder"} : touched'[r] = touched[r]
    BY <1>0, <1>5 DEF StoreReceipt, Forget, TypeInv, TypeOK
  <2>3. RecordingFaithful'
    BY <1>5 DEF StoreReceipt, RecordingFaithful
  <2>4. \A x \in Readers : HandleFaithful(x)'
    BY <1>5, <2>1, <2>2 DEF StoreReceipt, Inv, HandleFaithful
  <2>5. AuditFaithful'
    BY <1>5, <2>2, AuditUntouched DEF StoreReceipt, Inv, Readers
  <2> QED BY <1>0, <2>3, <2>4, <2>5 DEF Inv
<1>6. ASSUME NEW goal \in Goals, BeginAudit(goal) PROVE Inv'
  BY <1>0, <1>6 DEF BeginAudit, Inv, HandleFaithful, RecordingFaithful, AuditFaithful
<1>7. ASSUME NEW n \in Names, StatAudited(n) PROVE Inv'
  <2> DEFINE receipt == audit.receipts[n]
  <2>1. /\ audit \in Audit /\ audit # None /\ n \in audit.left /\ n \in Recorded(audit.receipts)
        /\ receipt \in Receipt /\ receipt.path = PathOf(n) /\ receipt.sha256 \in Content
    BY <1>0, <1>7 DEF StatAudited, TypeInv, TypeOK, HandlesHaveOwners, Audit, Recorded, PathOf, Receipt
  <2>2. ASSUME ~(files[PathOf(n)] = None \/ Len(files[PathOf(n)]) # receipt.size),
               audit' = [audit EXCEPT !.current = n]
        PROVE  AuditFaithful'
    <3>1. /\ audit'.current = n /\ audit'.receipts = audit.receipts
          /\ audit'.bad = audit.bad /\ audit'.left = audit.left /\ audit' \in Audit
      BY <2>1, <2>2 DEF Audit
    <3>2. /\ files' = files /\ touched' = touched /\ unread' = unread
          /\ Len(files[PathOf(n)]) = audit.receipts[n].size /\ AuditFaithful
      BY <1>7, <2>2 DEF StatAudited, Inv
    <3> QED BY <2>1, <3>1, <3>2, NoneAssumption DEF AuditFaithful, Describes, PathOf, Recorded
  <2>3. ASSUME files[PathOf(n)] = None \/ Len(files[PathOf(n)]) # receipt.size,
               Settle(n, TRUE)
        PROVE  AuditFaithful'
    <3>1. ~Describes(receipt)
      BY <2>1, <2>3, NoneAssumption DEF Describes
    <3>2. AuditFaithful /\ UNCHANGED <<files, touched, unread>>
      BY <1>7 DEF StatAudited, Inv
    <3> QED BY <2>1, <2>3, <3>1, <3>2, SettledTruly
  <2>4. AuditFaithful'
    BY <1>7, <2>2, <2>3 DEF StatAudited
  <2>5. (\A x \in Readers : HandleFaithful(x)') /\ RecordingFaithful'
    BY <1>7 DEF StatAudited, Inv, HandleFaithful, RecordingFaithful
  <2> QED BY <1>0, <2>4, <2>5 DEF Inv
<1>8. CASE OpenAudited
  <2> DEFINE n == audit.current
             receipt == audit.receipts[n]
  <2>1. /\ audit \in Audit /\ audit # None /\ n \in audit.left /\ n \in Recorded(audit.receipts)
        /\ n \in Names /\ receipt \in Receipt /\ receipt.path = PathOf(n)
        /\ receipt.sha256 \in Content /\ PathOf(n) \in Paths
    BY <1>0, <1>8 DEF OpenAudited, TypeInv, TypeOK, HandlesHaveOwners, Audit, Recorded, PathOf, Receipt
  <2>2. CASE files[PathOf(n)] = None
    <3>1. ~Describes(receipt)
      BY <2>1, <2>2, NoneAssumption DEF Describes
    <3>2. Settle(n, TRUE) /\ hash' = hash
      BY <1>8, <2>2 DEF OpenAudited
    <3>3. AuditFaithful /\ UNCHANGED <<files, touched, unread>>
      BY <1>8 DEF OpenAudited, Inv
    <3>4. AuditFaithful'
      BY <2>1, <3>1, <3>2, <3>3, SettledTruly
    <3>5. (\A x \in Readers : HandleFaithful(x)') /\ RecordingFaithful'
      BY <1>8, <3>2 DEF OpenAudited, Inv, HandleFaithful, RecordingFaithful
    <3> QED BY <1>0, <3>4, <3>5 DEF Inv
  <2>3. CASE files[PathOf(n)] # None
    <3>1. files[PathOf(n)] \in Content
      BY <1>0, <2>1, <2>3 DEF TypeInv, TypeOK
    <3>2. Len(<<>>) <= Len(files[PathOf(n)]) /\ Len(<<>>) = 0
      BY <3>1, ContentIsSeq
    <3>3. /\ hash'["auditor"] = Opened(PathOf(n)) /\ hash'["recorder"] = hash["recorder"]
          /\ audit' = audit
      BY <1>0, <1>8, <2>3 DEF OpenAudited, TypeInv, TypeOK, Readers
    <3>4. \A x \in Readers : HandleFaithful(x)'
      BY <1>8, <3>2, <3>3 DEF OpenAudited, Inv, HandleFaithful, Opened, Readers
    <3>5. RecordingFaithful' /\ AuditFaithful'
      BY <1>8, <3>3, AuditUntouched DEF OpenAudited, Inv, RecordingFaithful
    <3> QED BY <1>0, <3>4, <3>5 DEF Inv
  <2> QED BY <2>2, <2>3
<1>9. CASE FinishAuditHash
  <2> DEFINE n == audit.current
             receipt == audit.receipts[n]
  <2>1. /\ audit \in Audit /\ audit # None /\ n \in audit.left /\ n \in Recorded(audit.receipts)
        /\ n \in Names /\ receipt.path = PathOf(n) /\ hash["auditor"].path = PathOf(n)
    BY <1>0, <1>9 DEF FinishAuditHash, TypeInv, TypeOK, HandlesHaveOwners, Audit, Recorded, PathOf
  <2>2. PathOf(n) \notin touched["auditor"] =>
           (hash["auditor"].got # receipt.sha256 <=> ~Describes(receipt))
    <3> SUFFICES ASSUME PathOf(n) \notin touched["auditor"]
                 PROVE  hash["auditor"].got # receipt.sha256 <=> ~Describes(receipt)
      OBVIOUS
    <3>1. hash["auditor"].got = files[PathOf(n)]
      BY <1>9, <2>1, WholeFileRead DEF FinishAuditHash, Readers
    <3>2. Len(files[PathOf(n)]) = receipt.size
      BY <1>0, <1>9, <2>1, NoneAssumption DEF Inv, AuditFaithful, Audit
    <3> QED BY <2>1, <3>1, <3>2 DEF Describes
  <2>3. /\ Settle(n, hash["auditor"].got # receipt.sha256)
        /\ AuditFaithful /\ UNCHANGED <<files, touched, unread>>
    BY <1>9 DEF FinishAuditHash, Inv
  <2>4. AuditFaithful'
    BY <2>1, <2>2, <2>3, SettledTruly
  <2>5. \A x \in Readers : HandleFaithful(x)'
    BY <1>0, <1>9 DEF FinishAuditHash, Inv, TypeInv, TypeOK, HandleFaithful
  <2>6. RecordingFaithful'
    BY <1>9 DEF FinishAuditHash, Inv, RecordingFaithful
  <2> QED BY <1>0, <2>4, <2>5, <2>6 DEF Inv
<1>10. CASE Conclude
  <2>1. hash["auditor"] = None
    BY <1>0, <1>10 DEF Conclude, Concluded, TypeInv, HandlesHaveOwners
  <2>2. touched'["recorder"] = touched["recorder"]
    BY <1>0, <1>10 DEF Conclude, Forget, TypeInv, TypeOK, Readers
  <2>3. \A x \in Readers : HandleFaithful(x)'
    BY <1>10, <2>1, <2>2 DEF Conclude, Inv, HandleFaithful, Readers
  <2>4. RecordingFaithful' /\ AuditFaithful'
    BY <1>10, <2>2 DEF Conclude, Inv, RecordingFaithful, AuditFaithful
  <2> QED BY <1>0, <2>3, <2>4 DEF Inv
<1>11. ASSUME NEW p \in Paths, NEW c \in Contents, Swap(p, c) PROVE Inv'
  <2>1. \A x \in Paths \ {p} : files'[x] = files[x]
    BY <1>0, <1>11 DEF Swap, TypeInv, TypeOK
  <2>2. ASSUME NEW r \in Readers, hash'[r] # None
        PROVE  /\ hash[r] # None /\ hash'[r].path = hash[r].path
               /\ hash[r].path # p => hash'[r] = hash[r]
    BY <1>0, <1>11, <2>2 DEF Swap, TypeInv, TypeOK, Handle
  <2>3. Note(p)
    BY <1>11 DEF Swap
  <2> QED BY <1>0, <2>1, <2>2, <2>3, WritingKeepsInv
<1>12. ASSUME NEW p \in Paths, Truncate(p) PROVE Inv'
  <2>1. Note(p) /\ hash' = hash /\ \A x \in Paths \ {p} : files'[x] = files[x]
    BY <1>0, <1>12 DEF Truncate, TypeInv, TypeOK
  <2> QED BY <1>0, <2>1, WritingKeepsInv
<1>13. ASSUME NEW p \in Paths, NEW c \in Chunks, AppendChunk(p, c) PROVE Inv'
  <2>1. Note(p) /\ hash' = hash /\ \A x \in Paths \ {p} : files'[x] = files[x]
    BY <1>0, <1>13 DEF AppendChunk, TypeInv, TypeOK
  <2> QED BY <1>0, <2>1, WritingKeepsInv
<1>14. CASE RecordingRaises
  <2>1. hash'["recorder"] = None /\ hash'["auditor"] = hash["auditor"]
    BY <1>0, <1>14 DEF RecordingRaises, TypeInv, TypeOK, Readers
  <2>2. touched'["auditor"] = touched["auditor"]
    BY <1>0, <1>14 DEF RecordingRaises, Forget, TypeInv, TypeOK, Readers
  <2>3. RecordingFaithful'
    BY <1>14 DEF RecordingRaises, RecordingFaithful
  <2>4. \A x \in Readers : HandleFaithful(x)'
    BY <1>14, <2>1, <2>2 DEF RecordingRaises, Inv, HandleFaithful, Readers
  <2>5. AuditFaithful'
    BY <1>14, <2>2, AuditUntouched DEF RecordingRaises, Inv
  <2> QED BY <1>0, <2>3, <2>4, <2>5 DEF Inv
<1>15. ASSUME NEW n \in Names, AuditRaises(n) PROVE Inv'
  <2>1. /\ audit \in Audit /\ audit # None /\ n \in audit.left /\ n \in Recorded(audit.receipts)
    BY <1>0, <1>15 DEF AuditRaises, TypeInv, TypeOK, HandlesHaveOwners
  <2>2. /\ audit' # None /\ audit'.receipts = audit.receipts /\ audit'.current = None
        /\ audit'.left = audit.left \ {n} /\ audit'.bad = audit.bad \cup {n}
    BY <1>15, <2>1, SettleTyped DEF AuditRaises
  <2>3. AuditFaithful'
    BY <1>15, <2>1, <2>2 DEF AuditRaises, Inv, AuditFaithful, Describes, PathOf, Recorded
  <2>4. hash'["auditor"] = None /\ hash'["recorder"] = hash["recorder"]
    BY <1>0, <1>15 DEF AuditRaises, TypeInv, TypeOK, Readers
  <2>5. \A x \in Readers : HandleFaithful(x)'
    BY <1>15, <2>4 DEF AuditRaises, Inv, HandleFaithful, Readers
  <2>6. RecordingFaithful'
    BY <1>15 DEF AuditRaises, Inv, RecordingFaithful
  <2> QED BY <1>0, <2>3, <2>5, <2>6 DEF Inv
<1>16. CASE UNCHANGED vars
  <2>1. \A x \in Readers : HandleFaithful(x)'
    BY <1>16 DEF vars, Inv, HandleFaithful
  <2>2. RecordingFaithful' /\ AuditFaithful'
    BY <1>16, AuditUntouched DEF vars, Inv, RecordingFaithful
  <2> QED BY <1>0, <2>1, <2>2 DEF Inv
<1> QED
  BY <1>1, <1>2, <1>3, <1>4, <1>5, <1>6, <1>7, <1>8, <1>9, <1>10, <1>11, <1>12,
     <1>13, <1>14, <1>15, <1>16 DEF Next

\* What an audit says of an artifact whose file was left alone is exactly
\* true, however the writers of other files interleave: it is stale if and only
\* if the receipt does not describe the file or the file could not be read
\* (_artifact_issues).
THEOREM VerdictOnQuietFilesIsTrue == Spec => []QuietVerdictIsTrue
<1>1. Inv => QuietVerdictIsTrue
  BY DEF Inv, AuditFaithful, QuietVerdictIsTrue, Concluded
<1> QED BY InitFaithful, NextFaithful, <1>1, PTL DEF Spec

\* A receipt describes its file if it was left alone meanwhile
\* (record_artifact).
THEOREM ReceiptOfQuietFileIsTrue == Spec => []QuietReceiptIsTrue
<1>1. Inv => QuietReceiptIsTrue
  BY DEF Inv, TypeInv, HandlesHaveOwners, RecordingFaithful, QuietReceiptIsTrue,
         Describes, NewReceipt
<1> QED BY InitFaithful, NextFaithful, <1>1, PTL DEF Spec

-----------------------------------------------------------------------------
(* Where a file is replaced whole, a handle keeps showing what it was when *)
(* it was opened.                                                          *)

HandleSeesOneFile ==
    hash["auditor"] # None /\ hash["auditor"].path \notin InPlace =>
        /\ LET h == hash["auditor"]
           IN  /\ Len(h.got) <= Len(View(h))
               /\ \A i \in 1 .. Len(h.got) : h.got[i] = View(h)[i]
               /\ View(h) = audit.receipts[audit.current].sha256 =>
                     audit.current \in witnessed

WitnessInv ==
    audit # None =>
        /\ Matching(audit.receipts, files) \subseteq witnessed
        /\ HandleSeesOneFile
        /\ \A n \in Recorded(audit.receipts) \ (audit.bad \cup audit.left) :
              PathOf(n) \in InPlace \/ n \in witnessed

LEMMA NextWitnessed == TypeInv /\ WitnessInv /\ [Next]_vars => WitnessInv'
<1> SUFFICES ASSUME TypeInv, WitnessInv, [Next]_vars PROVE WitnessInv'
  OBVIOUS
<1>0. TypeInv'
  BY NextTyped
<1>1. ASSUME NEW r \in Readers, ReadChunk(r) PROVE WitnessInv'
  <2>1. /\ hash[r] \in Handle /\ View(hash[r]) \in Content /\ hash[r] # None
        /\ Len(hash[r].got) < Len(View(hash[r]))
    BY <1>1, ViewIsContent, ContentIsSeq DEF ReadChunk, AtEnd, Handle
  <2>2. /\ hash'[r] = [hash[r] EXCEPT !.got = Append(@, View(hash[r])[Len(@) + 1])]
        /\ \A x \in Readers \ {r} : hash'[x] = hash[x]
    BY <1>1 DEF ReadChunk, TypeInv, TypeOK
  <2>3. (View(hash[r]))' = View(hash[r])
    BY <1>1, <2>1, <2>2 DEF ReadChunk, View, Handle
  <2>4. ASSUME HandleSeesOneFile, r = "auditor", hash[r].path \notin InPlace
        PROVE  HandleSeesOneFile'
    <3> DEFINE g == hash[r].got
               v == View(hash[r])
    <3>1. /\ g \in Seq(Chunks) /\ v \in Seq(Chunks) /\ Len(g) \in Nat /\ Len(v) \in Nat
          /\ Len(g) < Len(v) /\ v[Len(g) + 1] \in Chunks
      BY <2>1, ContentIsSeq DEF Handle
    <3>2. hash'[r].got = Append(g, v[Len(g) + 1]) /\ (View(hash[r]))' = v
      BY <2>1, <2>2, <2>3 DEF Handle
    <3>3. \A i \in 1 .. Len(g) : g[i] = v[i]
      BY <2>1, <2>4 DEF HandleSeesOneFile
    <3>4. v = audit.receipts[audit.current].sha256 => audit.current \in witnessed
      BY <2>1, <2>4 DEF HandleSeesOneFile
    <3> HIDE DEF g, v
    <3>5. /\ Len(Append(g, v[Len(g) + 1])) <= Len(v)
          /\ \A i \in 1 .. Len(Append(g, v[Len(g) + 1])) : Append(g, v[Len(g) + 1])[i] = v[i]
      BY <3>1, <3>3
    <3> QED BY ZenonT(30), <1>1, <2>4, <3>2, <3>4, <3>5 DEF ReadChunk, HandleSeesOneFile
  <2>5. ASSUME HandleSeesOneFile, r = "recorder" PROVE HandleSeesOneFile'
    BY <1>1, <2>2, <2>5 DEF ReadChunk, HandleSeesOneFile, View, Readers
  <2>6. ASSUME r = "auditor", hash[r].path \in InPlace PROVE HandleSeesOneFile'
    BY <2>1, <2>2, <2>6 DEF HandleSeesOneFile, Handle
  <2> QED BY <1>1, <2>4, <2>5, <2>6 DEF ReadChunk, WitnessInv, Matching, Recorded, PathOf, Readers
<1>2. ASSUME NEW t \in Targets, StartRecording(t[1], t[2]) PROVE WitnessInv'
  BY <1>2 DEF StartRecording, WitnessInv, HandleSeesOneFile, View, Matching, Recorded, PathOf,
          TypeInv, TypeOK, Readers
<1>3. CASE FinishHash
  BY <1>3 DEF FinishHash, WitnessInv, HandleSeesOneFile, View, Matching, Recorded, PathOf,
          TypeInv, TypeOK, Readers
<1>4. CASE StatRecorded
  BY <1>4 DEF StatRecorded, WitnessInv, HandleSeesOneFile, View, Matching, Recorded, PathOf
<1>5. CASE StoreReceipt
  BY <1>5 DEF StoreReceipt, WitnessInv, HandleSeesOneFile, View, Matching, Recorded, PathOf
<1>6. ASSUME NEW goal \in Goals, BeginAudit(goal) PROVE WitnessInv'
  BY <1>6 DEF BeginAudit, WitnessInv, HandleSeesOneFile, Matching, Recorded, PathOf, TypeInv,
          HandlesHaveOwners
<1>7. ASSUME NEW n \in Names, StatAudited(n) PROVE WitnessInv'
  <2>1. audit \in Audit /\ hash["auditor"] = None
    BY <1>7 DEF StatAudited, TypeInv, TypeOK, HandlesHaveOwners
  <2>2. CASE audit' = [audit EXCEPT !.current = n]
    <3>1. /\ audit'.receipts = audit.receipts /\ audit'.bad = audit.bad
          /\ audit'.left = audit.left
      BY <2>1, <2>2 DEF Audit
    <3> QED BY <1>7, <2>1, <3>1
            DEF StatAudited, WitnessInv, HandleSeesOneFile, Matching, Recorded, PathOf
  <2>3. CASE Settle(n, TRUE)
    <3>1. /\ audit'.receipts = audit.receipts /\ audit'.bad = audit.bad \cup {n}
          /\ audit'.left = audit.left \ {n}
      BY <2>1, <2>3, SettleTyped
    <3> QED BY <1>7, <2>1, <3>1
            DEF StatAudited, WitnessInv, HandleSeesOneFile, Matching, Recorded, PathOf
  <2> QED BY <1>7, <2>2, <2>3 DEF StatAudited
<1>8. CASE OpenAudited
  <2> DEFINE n == audit.current
  <2>1. /\ audit \in Audit /\ n \in Names /\ n \in Recorded(audit.receipts)
        /\ PathOf(n) \in Paths
    BY <1>8 DEF OpenAudited, TypeInv, TypeOK, HandlesHaveOwners, Audit, Recorded, PathOf, Receipt
  <2>2. CASE files[PathOf(n)] = None
    <3>1. Settle(n, TRUE) /\ hash' = hash
      BY <1>8, <2>2 DEF OpenAudited
    <3>2. /\ audit'.receipts = audit.receipts /\ audit'.bad = audit.bad \cup {n}
          /\ audit'.left = audit.left \ {n}
      BY <2>1, <3>1, SettleTyped
    <3> QED BY <1>8, <3>1, <3>2
            DEF OpenAudited, WitnessInv, HandleSeesOneFile, Matching, Recorded, PathOf
  <2>3. CASE files[PathOf(n)] # None
    <3>1. hash'["auditor"] = Opened(PathOf(n)) /\ audit' = audit
      BY <1>8, <2>3 DEF OpenAudited, TypeInv, TypeOK, Readers
    <3>2. files[PathOf(n)] \in Content /\ (View(hash["auditor"]))' = files[PathOf(n)]
      BY <1>8, <2>1, <2>3, <3>1 DEF OpenAudited, View, Opened, TypeInv, TypeOK
    <3>3. Len(<<>>) <= Len(files[PathOf(n)]) /\ Len(<<>>) = 0
      BY <3>2, ContentIsSeq
    <3>4. audit.receipts[n].sha256 = files[PathOf(n)] => n \in witnessed
      BY <1>8, <2>1 DEF OpenAudited, WitnessInv, Matching, PathOf
    <3>5. HandleSeesOneFile'
      BY <1>8, <3>1, <3>2, <3>3, <3>4 DEF OpenAudited, HandleSeesOneFile, Opened
    <3> QED BY <1>8, <3>1, <3>5 DEF OpenAudited, WitnessInv, Matching, Recorded, PathOf
  <2> QED BY <2>2, <2>3
<1>9. CASE FinishAuditHash
  <2> DEFINE n == audit.current
             h == hash["auditor"]
             stale == h.got # audit.receipts[n].sha256
  <2>1. audit \in Audit /\ audit # None /\ n \in Names /\ h \in Handle /\ View(h) \in Content
    BY <1>9, ViewIsContent
       DEF FinishAuditHash, TypeInv, TypeOK, HandlesHaveOwners, Audit, Readers
  <2>2. /\ audit'.receipts = audit.receipts /\ audit'.left = audit.left \ {n}
        /\ audit'.bad = IF stale THEN audit.bad \cup {n} ELSE audit.bad
    BY <1>9, <2>1, SettleTyped DEF FinishAuditHash
  <2>3. hash'["auditor"] = None
    BY <1>9 DEF FinishAuditHash, TypeInv, TypeOK, Readers
  <2>4. ~stale => PathOf(n) \in InPlace \/ n \in witnessed
    <3> SUFFICES ASSUME PathOf(n) \notin InPlace, ~stale PROVE n \in witnessed
      OBVIOUS
    <3>0. h.path = PathOf(n)
      BY <1>9 DEF FinishAuditHash, TypeInv, HandlesHaveOwners
    <3>1. /\ Len(h.got) <= Len(View(h)) /\ Len(h.got) >= Len(View(h))
          /\ \A i \in 1 .. Len(h.got) : h.got[i] = View(h)[i]
          /\ View(h) = audit.receipts[n].sha256 => n \in witnessed
      BY <1>9, <2>1, <3>0 DEF FinishAuditHash, AtEnd, WitnessInv, HandleSeesOneFile
    <3>2. /\ h.got \in Seq(Chunks) /\ View(h) \in Seq(Chunks)
          /\ Len(h.got) \in Nat /\ Len(View(h)) \in Nat
      BY <2>1, ContentIsSeq DEF Handle
    <3>3. h.got = View(h)
      BY <3>1, <3>2
    <3> QED BY <3>1, <3>3
  <2> QED BY <1>9, <2>1, <2>2, <2>3, <2>4
          DEF FinishAuditHash, WitnessInv, HandleSeesOneFile, Matching, Recorded, PathOf
<1>10. CASE Conclude
  BY <1>10 DEF Conclude, WitnessInv
<1>11. ASSUME NEW p \in Paths, NEW c \in Contents, Swap(p, c) PROVE WitnessInv'
  <2>1. Note(p) /\ audit' = audit
    BY <1>11 DEF Swap, Note
  <2>2. audit # None => Matching(audit.receipts, files') \subseteq witnessed' /\ witnessed \subseteq witnessed'
    BY <2>1 DEF Note
  <2>3. ASSUME hash["auditor"] # None
        PROVE  /\ hash'["auditor"] # None /\ hash'["auditor"].got = hash["auditor"].got
               /\ hash'["auditor"].path = hash["auditor"].path
               /\ (View(hash["auditor"]))' = View(hash["auditor"])
    <3> DEFINE h == hash["auditor"]
    <3>1. CASE h.path = p /\ h.orphan = None
      <4>1. h \in Handle /\ files[p] \in Content
        BY <2>3, <3>1, ViewIsContent DEF View, Readers
      <4>2. hash'["auditor"] = [h EXCEPT !.orphan = files[p]]
        BY <1>11, <2>3, <3>1 DEF Swap, Readers
      <4>3. /\ hash'["auditor"] \in Handle /\ hash'["auditor"].got = h.got
            /\ hash'["auditor"].path = h.path /\ hash'["auditor"].orphan = files[p]
        BY <4>1, <4>2 DEF Handle
      <4> QED BY <3>1, <4>1, <4>3, NoneAssumption DEF View
    <3>2. CASE ~(h.path = p /\ h.orphan = None)
      <4>1. hash'["auditor"] = h /\ h \in Handle
        BY <1>11, <2>3, <3>2, ViewIsContent DEF Swap, Readers
      <4>2. h.orphan = None => files'[h.path] = files[h.path]
        BY <1>11, <3>2, <4>1 DEF Swap, TypeInv, TypeOK, Handle
      <4> QED BY <2>3, <4>1, <4>2 DEF View
    <3> QED BY <3>1, <3>2
  <2>4. hash'["auditor"] # None => hash["auditor"] # None
    BY <1>11 DEF Swap, Readers
  <2>5. audit # None /\ HandleSeesOneFile => HandleSeesOneFile'
    BY <2>1, <2>2, <2>3, <2>4 DEF HandleSeesOneFile
  <2> QED BY <2>1, <2>2, <2>5 DEF WitnessInv, Recorded, PathOf
<1>12. ASSUME NEW p \in InPlace, Note(p), hash' = hash,
              \A x \in Paths \ {p} : files'[x] = files[x]
       PROVE  WitnessInv'
  <2>1. audit' = audit
    BY <1>12 DEF Note
  <2>2. audit # None => Matching(audit.receipts, files') \subseteq witnessed' /\ witnessed \subseteq witnessed'
    BY <1>12 DEF Note
  <2>3. ASSUME hash["auditor"] # None, hash["auditor"].path \notin InPlace
        PROVE  (View(hash["auditor"]))' = View(hash["auditor"])
    <3>1. hash["auditor"].path \in Paths \ {p}
      BY <1>12, <2>3, ViewIsContent DEF Handle, Readers
    <3> QED BY <1>12, <3>1 DEF View
  <2>4. audit # None /\ HandleSeesOneFile => HandleSeesOneFile'
    BY <1>12, <2>1, <2>2, <2>3 DEF HandleSeesOneFile
  <2> QED BY <2>1, <2>2, <2>4 DEF WitnessInv, Recorded, PathOf
<1>13. ASSUME NEW p \in Paths, Truncate(p) PROVE WitnessInv'
  BY <1>12, <1>13 DEF Truncate, TypeInv, TypeOK
<1>14. ASSUME NEW p \in Paths, NEW c \in Chunks, AppendChunk(p, c) PROVE WitnessInv'
  BY <1>12, <1>14 DEF AppendChunk, TypeInv, TypeOK
<1>15. CASE RecordingRaises
  BY <1>15 DEF RecordingRaises, WitnessInv, HandleSeesOneFile, View, Matching, Recorded, PathOf,
          TypeInv, TypeOK, Readers
<1>16. ASSUME NEW n \in Names, AuditRaises(n) PROVE WitnessInv'
  <2>1. audit \in Audit
    BY <1>16 DEF AuditRaises, TypeInv, TypeOK
  <2>2. /\ audit'.receipts = audit.receipts /\ audit'.bad = audit.bad \cup {n}
        /\ audit'.left = audit.left \ {n}
    BY <1>16, <2>1, SettleTyped DEF AuditRaises
  <2>3. hash'["auditor"] = None
    BY <1>16 DEF AuditRaises, TypeInv, TypeOK, Readers
  <2> QED BY <1>16, <2>2, <2>3
          DEF AuditRaises, WitnessInv, HandleSeesOneFile, Matching, Recorded, PathOf
<1>17. CASE UNCHANGED vars
  BY <1>17 DEF vars, WitnessInv, HandleSeesOneFile, View, Matching, Recorded, PathOf
<1> QED
  BY <1>1, <1>2, <1>3, <1>4, <1>5, <1>6, <1>7, <1>8, <1>9, <1>10, <1>11,
     <1>13, <1>14, <1>15, <1>16, <1>17 DEF Next

\* Where writers replace a file whole, an artifact that passes had its digest
\* at some moment of the audit (_artifact_issues).
THEOREM PassesAreWitnessed == Spec => []PassWasWitnessed
<1>1. Init => WitnessInv
  BY DEF Init, WitnessInv
<1>2. WitnessInv => PassWasWitnessed
  BY DEF WitnessInv, PassWasWitnessed, Concluded
<1> QED BY InitTyped, NextTyped, NextWitnessed, <1>1, <1>2, PTL DEF Spec

-----------------------------------------------------------------------------
(* What an approval rests on stays true until a file is written.           *)

Good(rs) ==
    /\ Required \subseteq Recorded(rs)
    /\ \A n \in Recorded(rs) : Describes(rs[n])

ApprovalInv ==
    /\ status = "approved" /\ touched["approval"] = {} => Good(receipts)
    /\ audit = None => touched["auditor"] = {}
    /\ audit # None => audit.bad \subseteq Recorded(audit.receipts)
    /\ audit # None /\ audit.goal \in {"approve", "submit"} =>
          /\ audit.receipts = receipts
          /\ touched["auditor"] \subseteq touched["approval"]
          /\ audit.goal = "submit" => status = "approved"

\* An audit of quiet files that passes proves its receipts good.
LEMMA QuietPassIsGood ==
    ASSUME Inv, Concluded, AuditPasses, touched["auditor"] = {}
    PROVE  Good(audit.receipts)
  BY DEF Inv, AuditFaithful, Concluded, AuditPasses, Good

\* An audit of quiet files that can be read finds nothing wrong with good
\* receipts.
LEMMA GoodPasses ==
    ASSUME Inv, ApprovalInv, Concluded, touched["auditor"] = {}, unread = {},
           Good(audit.receipts)
    PROVE  AuditPasses
  BY DEF Inv, AuditFaithful, ApprovalInv, Concluded, AuditPasses, Good

\* The end of a submission on an untouched approval passes.
LEMMA ApprovalHolds ==
    ASSUME Inv, ApprovalInv, Concluded, audit.goal = "submit", touched["approval"] = {},
           unread = {}
    PROVE  AuditPasses
<1>1. /\ status = "approved" /\ audit.receipts = receipts /\ touched["auditor"] = {}
      /\ Good(receipts)
  BY DEF ApprovalInv, Concluded
<1> QED BY <1>1, GoodPasses

\* An audit that passes has found every receipt of a quiet file true.
LEMMA PassedAreDescribed ==
    ASSUME Inv, Concluded, AuditPasses, NEW n \in Recorded(audit.receipts),
           PathOf(n) \notin touched["auditor"]
    PROVE  Describes(audit.receipts[n])
  BY DEF Inv, AuditFaithful, Concluded, AuditPasses

LEMMA NextApproval == Inv /\ ApprovalInv /\ [Next]_vars => ApprovalInv'
<1> SUFFICES ASSUME Inv, ApprovalInv, [Next]_vars PROVE ApprovalInv'
  OBVIOUS
<1>0. TypeInv /\ TypeInv'
  BY NextTyped DEF Inv
<1>1. ASSUME UNCHANGED <<files, audit, receipts, status>>,
             touched'["auditor"] = touched["auditor"], touched'["approval"] = touched["approval"]
      PROVE  ApprovalInv'
  BY <1>1 DEF ApprovalInv, Good, Describes, Recorded
<1>2. ASSUME NEW r \in Readers, ReadChunk(r) PROVE ApprovalInv'
  BY <1>1, <1>2 DEF ReadChunk
<1>3. ASSUME NEW t \in Targets, StartRecording(t[1], t[2]) PROVE ApprovalInv'
  BY <1>1, <1>3 DEF StartRecording
<1>4. CASE FinishHash
  BY <1>1, <1>4 DEF FinishHash
<1>5. CASE StatRecorded
  BY <1>0, <1>1, <1>5 DEF StatRecorded, Forget, TypeInv, TypeOK, Readers
<1>6. CASE StoreReceipt
  <2>1. /\ touched'["auditor"] = touched["auditor"] /\ touched'["approval"] = touched["approval"]
        /\ files' = files /\ audit' = audit
    BY <1>0, <1>6 DEF StoreReceipt, Forget, TypeInv, TypeOK, Readers
  <2>2. ~(audit # None /\ audit.goal \in {"approve", "submit"})
    BY <1>6 DEF StoreReceipt, Locked
  <2>3. CASE status \in Sealed
    BY <1>1, <1>6, <2>1, <2>3 DEF StoreReceipt
  <2>4. CASE status \notin Sealed
    BY <1>6, <2>1, <2>2, <2>4 DEF StoreReceipt, ApprovalInv, Recorded
  <2> QED BY <2>3, <2>4
<1>7. ASSUME NEW goal \in Goals, BeginAudit(goal) PROVE ApprovalInv'
  <2>1. audit'.goal = goal /\ audit'.receipts = receipts /\ audit'.bad = {}
    BY <1>7 DEF BeginAudit
  <2>2. goal = "submit" => status = "approved"
    BY <1>7 DEF BeginAudit, Admits
  <2> QED BY <1>7, <2>1, <2>2 DEF BeginAudit, ApprovalInv, Good, Describes, Recorded
<1>8. ASSUME NEW n \in Names, StatAudited(n) PROVE ApprovalInv'
  <2>1. audit \in Audit /\ audit # None /\ n \in Recorded(audit.receipts)
    BY <1>0, <1>8 DEF StatAudited, TypeInv, TypeOK, HandlesHaveOwners
  <2>2. /\ audit'.receipts = audit.receipts /\ audit'.goal = audit.goal
        /\ audit'.bad \subseteq audit.bad \cup {n}
    <3>1. CASE audit' = [audit EXCEPT !.current = n]
      BY <2>1, <3>1 DEF Audit
    <3>2. CASE Settle(n, TRUE)
      BY <2>1, <3>2, SettleTyped
    <3> QED BY <1>8, <3>1, <3>2 DEF StatAudited
  <2>3. audit' # None
    <3>1. CASE audit' = [audit EXCEPT !.current = n]
      <4>1. audit' \in Audit
        BY <2>1, <3>1 DEF Audit
      <4> QED BY <4>1, NoneAssumption
    <3>2. CASE Settle(n, TRUE)
      BY <2>1, <3>2, SettleTyped
    <3> QED BY <1>8, <3>1, <3>2 DEF StatAudited
  <2> QED BY <1>8, <2>1, <2>2, <2>3 DEF StatAudited, ApprovalInv, Good, Describes, Recorded
<1>9. CASE OpenAudited
  <2>1. /\ audit \in Audit /\ audit # None /\ audit.current \in Recorded(audit.receipts)
    BY <1>0, <1>9 DEF OpenAudited, TypeInv, TypeOK, HandlesHaveOwners
  <2>2. CASE audit' = audit
    BY <1>1, <1>9, <2>2 DEF OpenAudited
  <2>3. CASE Settle(audit.current, TRUE)
    <3>1. /\ audit' # None /\ audit'.receipts = audit.receipts /\ audit'.goal = audit.goal
          /\ audit'.bad = audit.bad \cup {audit.current}
      BY <2>1, <2>3, SettleTyped DEF Recorded
    <3> QED BY <1>9, <2>1, <3>1 DEF OpenAudited, ApprovalInv, Good, Describes, Recorded
  <2> QED BY <1>9, <2>2, <2>3 DEF OpenAudited
<1>10. CASE FinishAuditHash
  <2>1. /\ audit \in Audit /\ audit # None /\ audit.current \in Recorded(audit.receipts)
    BY <1>0, <1>10 DEF FinishAuditHash, TypeInv, TypeOK, HandlesHaveOwners
  <2>2. /\ audit' # None /\ audit'.receipts = audit.receipts /\ audit'.goal = audit.goal
        /\ audit'.bad \subseteq audit.bad \cup {audit.current}
    BY <1>10, <2>1, SettleTyped DEF FinishAuditHash, Recorded
  <2> QED BY <1>10, <2>1, <2>2 DEF FinishAuditHash, ApprovalInv, Good, Describes, Recorded
<1>11. CASE Conclude
  <2>1. /\ audit' = None /\ audit # None /\ receipts' = receipts /\ files' = files
        /\ touched'["auditor"] = {}
        /\ status' = "approved" => touched'["approval"] = touched["approval"]
    BY <1>0, <1>11 DEF Conclude, Concluded, Forget, TypeInv, TypeOK, Readers
  <2>2. ASSUME status' = "approved", touched["approval"] = {} PROVE Good(receipts)
    <3>1. CASE status = "approved"
      BY <2>2, <3>1 DEF ApprovalInv
    <3>2. CASE status # "approved"
      <4>1. AuditPasses /\ audit.goal = "approve"
        <5>1. audit.goal \in {"verify", "approve", "submit", "compare"}
          BY <1>0, <2>1, AuditAssumption DEF TypeInv, TypeOK, Audit
        <5> QED BY <1>11, <2>2, <3>2, <5>1 DEF Conclude, Passed
      <4>2. touched["auditor"] = {} /\ audit.receipts = receipts
        BY <2>1, <2>2, <4>1 DEF ApprovalInv
      <4> QED BY <1>11, <4>1, <4>2, QuietPassIsGood DEF Conclude
    <3> QED BY <3>1, <3>2
  <2> QED BY <2>1, <2>2 DEF ApprovalInv, Good, Describes, Recorded
<1>12. ASSUME NEW p \in Paths, Note(p),
              \A x \in Paths \ {p} : files'[x] = files[x]
       PROVE  ApprovalInv'
  <2>1. ASSUME NEW r \in Readers \cup {"approval"}
        PROVE  touched'[r] = IF Watched(r) THEN touched[r] \cup {p} ELSE {}
    BY <1>0, <1>12 DEF Note, TypeInv, TypeOK
  <2>2. status = "approved" \/ (audit # None /\ audit.goal = "approve") =>
           touched'["approval"] = touched["approval"] \cup {p}
    BY <2>1 DEF Watched, Readers
  <2>3. touched'["auditor"] = IF audit # None THEN touched["auditor"] \cup {p} ELSE {}
    BY <2>1 DEF Watched, Readers
  <2>4. ~(status = "approved" /\ touched'["approval"] = {})
    BY <2>2
  <2>5. audit' = audit /\ status' = status /\ receipts' = receipts
    BY <1>12 DEF Note
  <2>6. ASSUME audit # None, audit.goal \in {"approve", "submit"}
        PROVE  touched'["auditor"] \subseteq touched'["approval"]
    <3>1. touched'["approval"] = touched["approval"] \cup {p}
      BY <2>2, <2>6 DEF ApprovalInv
    <3>2. touched'["auditor"] = touched["auditor"] \cup {p}
      BY <2>3, <2>6
    <3> QED BY <2>6, <3>1, <3>2 DEF ApprovalInv
  <2> QED BY <2>3, <2>4, <2>5, <2>6 DEF ApprovalInv, Recorded
<1>13. ASSUME NEW p \in Paths, NEW c \in Contents, Swap(p, c) PROVE ApprovalInv'
  BY <1>0, <1>12, <1>13 DEF Swap, TypeInv, TypeOK
<1>14. ASSUME NEW p \in Paths, Truncate(p) PROVE ApprovalInv'
  BY <1>0, <1>12, <1>14 DEF Truncate, TypeInv, TypeOK
<1>15. ASSUME NEW p \in Paths, NEW c \in Chunks, AppendChunk(p, c) PROVE ApprovalInv'
  BY <1>0, <1>12, <1>15 DEF AppendChunk, TypeInv, TypeOK
<1>16. CASE RecordingRaises
  BY <1>0, <1>1, <1>16 DEF RecordingRaises, Forget, TypeInv, TypeOK, Readers
<1>17. ASSUME NEW n \in Names, AuditRaises(n) PROVE ApprovalInv'
  <2>1. audit \in Audit /\ audit # None /\ n \in Recorded(audit.receipts)
    BY <1>0, <1>17 DEF AuditRaises, TypeInv, TypeOK, HandlesHaveOwners
  <2>2. /\ audit' # None /\ audit'.receipts = audit.receipts /\ audit'.goal = audit.goal
        /\ audit'.bad = audit.bad \cup {n}
    BY <1>17, <2>1, SettleTyped DEF AuditRaises
  <2> QED BY <1>17, <2>1, <2>2 DEF AuditRaises, ApprovalInv, Good, Describes, Recorded
<1>18. CASE UNCHANGED vars
  BY <1>1, <1>18 DEF vars
<1> QED
  BY <1>2, <1>3, <1>4, <1>5, <1>6, <1>7, <1>8, <1>9, <1>10, <1>11, <1>13, <1>14,
     <1>15, <1>16, <1>17, <1>18 DEF Next

\* A submission is judged on the files: what is submitted is described by its
\* receipts as far as its files were left alone during the audit, and what is
\* sent back was written since its approval or could not be read (submit).
THEOREM SubmissionsAreJudged == Spec => SubmissionIsJudged
<1>1. Init => ApprovalInv
  BY DEF Init, ApprovalInv, Readers
<1>2. ASSUME Inv, ApprovalInv, [Next]_vars
      PROVE  [Concluded /\ audit.goal = "submit" =>
                /\ status' = "submitted" =>
                      \A n \in Recorded(receipts) :
                          receipts[n].path \notin touched["auditor"] => Describes(receipts[n])
                /\ status' = "failed" => touched["approval"] # {} \/ unread # {}]_vars
  <2> SUFFICES ASSUME Concluded, audit.goal = "submit", Next
               PROVE  /\ status' = "submitted" =>
                            \A n \in Recorded(receipts) :
                                receipts[n].path \notin touched["auditor"]
                                    => Describes(receipts[n])
                      /\ status' = "failed" => touched["approval"] # {} \/ unread # {}
    BY <1>2 DEF vars
  <2>1. status = "approved" /\ audit.receipts = receipts
    BY <1>2 DEF ApprovalInv, Concluded
  <2>2. CASE Conclude
    <3>1. status' = IF AuditPasses THEN "submitted" ELSE "failed"
      BY <2>2 DEF Conclude, Passed
    <3>2. ASSUME AuditPasses, NEW n \in Recorded(receipts),
                 receipts[n].path \notin touched["auditor"]
          PROVE  Describes(receipts[n])
      BY <1>2, <2>1, <3>2, PassedAreDescribed DEF PathOf
    <3>3. touched["approval"] = {} /\ unread = {} => AuditPasses
      BY <1>2, ApprovalHolds
    <3> QED BY <3>1, <3>2, <3>3
  <2>3. CASE ~Conclude
    <3>1. status' = status \/ status' = "running"
      BY <2>3 DEF Next, ReadChunk, StartRecording, FinishHash, StatRecorded, RecordingRaises,
             StoreReceipt, BeginAudit, StatAudited, AuditRaises, OpenAudited,
             FinishAuditHash, Swap, Truncate, AppendChunk, Note
    <3> QED BY <2>1, <3>1
  <2> QED BY <2>2, <2>3
<1> QED BY InitFaithful, NextFaithful, NextApproval, <1>1, <1>2, PTL
    DEF Spec, SubmissionIsJudged
=============================================================================
