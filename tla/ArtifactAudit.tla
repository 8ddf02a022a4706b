--------------------------- MODULE ArtifactAudit ----------------------------
(***************************************************************************)
(* record_artifact and _artifact_issues at the grain of their file         *)
(* accesses.  ControlPlane reads a file in one step; here a file is looked *)
(* up, measured, opened and read chunk by chunk while others write it,     *)
(* and a run is approved and submitted on what such an audit saw.          *)
(*                                                                         *)
(* The content of a file is a sequence of chunks; its size is the length   *)
(* and its digest the sequence itself (SHA-256 is assumed not to collide). *)
(* There is one run, one record_artifact and one audit at a time.  verify, *)
(* approve and submit audit under the ledger lock, which the store of a    *)
(* receipt needs too; compare audits the record it has loaded and holds    *)
(* no lock.  Any access to a file may raise an OSError although the file   *)
(* is there and nobody writes it (permissions, descriptors, the device).   *)
(* Of the evidence only the receipts are kept.                             *)
(***************************************************************************)
EXTENDS Naturals, Sequences

CONSTANTS
    Names,        \* artifact names
    Required,     \* those the run must have
    Paths,        \* files
    Targets,      \* the <<name, path>> pairs that are recorded
    Chunks,       \* what sha256_file reads at a time
    MaxChunks,    \* bound on the size of a file
    Contents,     \* what a file is replaced with; None removes it
    Goals,        \* what audits are made for
    InPlace,      \* the files that are also truncated and appended to
                  \* (Path.write_text)
    None          \* no file, no receipt, nothing going on

Content == UNION {[1 .. n -> Chunks] : n \in 0 .. MaxChunks}

ASSUME AuditAssumption ==
    /\ Required \subseteq Names
    /\ Targets \subseteq Names \X Paths
    /\ MaxChunks \in Nat
    /\ Contents \subseteq Content \cup {None}
    /\ InPlace \subseteq Paths
    /\ Goals \subseteq {"verify", "approve", "submit", "compare"}

Receipt == [path : Paths, sha256 : Content, size : 0 .. MaxChunks]

Readers == {"recorder", "auditor"}

\* An open file.  A file that is removed or replaced while it is open stays
\* readable through the handle: orphan is then its content.
Handle == [path : Paths, got : Content, orphan : Content \cup {None}]

Recording ==
    [name : Names, path : Paths, sha256 : Content \cup {None},
     size : (0 .. MaxChunks) \cup {None}]

\* receipts is the record being judged, left and current what remains to be
\* looked at, bad the artifacts found stale.
Audit ==
    [goal : Goals, receipts : [Names -> Receipt \cup {None}],
     left : SUBSET Names, current : Names \cup {None}, bad : SUBSET Names]

ASSUME NoneAssumption ==
    /\ None \notin Content /\ None \notin Names /\ None \notin Receipt
    /\ None \notin Handle /\ None \notin Recording /\ None \notin Audit
    /\ None \notin 0 .. MaxChunks

VARIABLES
    files,       \* the content at each path, or None
    hash,        \* the file each reader is hashing, or None
    recording,   \* what record_artifact has found out so far, or None
    audit,       \* the audit in progress, or None
    receipts,    \* the receipts in the ledger
    status,      \* the run's status in the ledger
    touched,     \* history: the paths written since a recording, an audit or
                 \* the audit of the last approval began
    witnessed,   \* history: the artifacts whose digest their file has had
                 \* since the audit began
    unread       \* history: the artifacts of the audit an access to which
                 \* raised an OSError of its own

vars == <<files, hash, recording, audit, receipts, status, touched, witnessed, unread>>

TypeOK ==
    /\ files \in [Paths -> Content \cup {None}]
    /\ hash \in [Readers -> Handle \cup {None}]
    /\ recording \in Recording \cup {None}
    /\ audit \in Audit \cup {None}
    /\ receipts \in [Names -> Receipt \cup {None}]
    /\ status \in {"running", "verified", "failed", "approved", "submitted"}
    /\ touched \in [Readers \cup {"approval"} -> SUBSET Paths]
    /\ witnessed \subseteq Names
    /\ unread \subseteq Names

Init ==
    /\ files = [p \in Paths |-> None]
    /\ hash = [r \in Readers |-> None]
    /\ recording = None
    /\ audit = None
    /\ receipts = [n \in Names |-> None]
    /\ status = "running"
    /\ touched = [r \in Readers \cup {"approval"} |-> {}]
    /\ witnessed = {}
    /\ unread = {}

Sealed == {"approved", "submitted"}

Recorded(rs) == {n \in Names : rs[n] # None}

\* The receipts whose digest is what their file now holds.
Matching(rs, fs) == {n \in Recorded(rs) : fs[rs[n].path] = rs[n].sha256}

\* What touched is kept for is over.
Forget(rs) == touched' = [r \in DOMAIN touched |-> IF r \in rs THEN {} ELSE touched[r]]

-----------------------------------------------------------------------------
(* sha256_file.  An error of a read is RecordingRaises or AuditRaises.     *)

Opened(p) == [path |-> p, got |-> <<>>, orphan |-> None]

\* What the handle reads from: the file while the name leads to it.
View(h) == IF h.orphan # None THEN h.orphan ELSE files[h.path]

\* Mutation: only the first chunk is read.
AtEndOfFirstChunk(h) == Len(h.got) >= 1 \/ Len(h.got) >= Len(View(h))

AtEnd(h) == Len(h.got) >= Len(View(h))

ReadChunk(r) ==
    /\ hash[r] # None
    /\ ~AtEnd(hash[r])
    /\ hash' = [hash EXCEPT ![r].got = Append(@, View(hash[r])[Len(@) + 1])]
    /\ UNCHANGED <<files, recording, audit, receipts, status, touched, witnessed, unread>>

-----------------------------------------------------------------------------
(* record_artifact: is_file and open, hash, stat, and the store under the  *)
(* lock.                                                                   *)

StartRecording(n, p) ==
    /\ recording = None
    /\ files[p] # None
    /\ recording' = [name |-> n, path |-> p, sha256 |-> None, size |-> None]
    /\ hash' = [hash EXCEPT !["recorder"] = Opened(p)]
    /\ UNCHANGED <<files, audit, receipts, status, touched, witnessed, unread>>

FinishHash ==
    /\ hash["recorder"] # None
    /\ AtEnd(hash["recorder"])
    /\ recording' = [recording EXCEPT !.sha256 = hash["recorder"].got]
    /\ hash' = [hash EXCEPT !["recorder"] = None]
    /\ UNCHANGED <<files, audit, receipts, status, touched, witnessed, unread>>

\* The size is that of the path, not of the file that was hashed; if the path
\* is gone, stat raises and nothing is recorded.
StatRecorded ==
    /\ recording # None
    /\ recording.sha256 # None /\ recording.size = None
    /\ IF files[recording.path] = None
       THEN recording' = None /\ Forget({"recorder"})
       ELSE /\ recording' = [recording EXCEPT !.size = Len(files[recording.path])]
            /\ UNCHANGED touched
    /\ UNCHANGED <<files, hash, audit, receipts, status, witnessed, unread>>

\* The open, a read or the stat raises: nothing is recorded.
RecordingRaises ==
    /\ recording # None
    /\ recording.size = None
    /\ recording' = None
    /\ hash' = [hash EXCEPT !["recorder"] = None]
    /\ Forget({"recorder"})
    /\ UNCHANGED <<files, audit, receipts, status, witnessed, unread>>

Locked == audit # None /\ audit.goal # "compare"

\* What StoreReceipt is about to store.
NewReceipt == [path |-> recording.path, sha256 |-> recording.sha256,
               size |-> recording.size]

\* Mutation: a sealed run accepts the receipt.
StoreReceiptAnyStatus ==
    /\ recording # None /\ recording.size # None
    /\ ~Locked
    /\ receipts' = [receipts EXCEPT ![recording.name] = NewReceipt]
    /\ recording' = None
    /\ Forget({"recorder"})
    /\ UNCHANGED <<files, hash, audit, status, witnessed, unread>>

\* Mutation: a receipt is stored before its file was measured.
StoreReceiptUnmeasured ==
    /\ recording # None /\ recording.sha256 # None
    /\ ~Locked
    /\ receipts' = [receipts EXCEPT ![recording.name] = NewReceipt]
    /\ recording' = None
    /\ UNCHANGED <<files, hash, audit, status, touched, witnessed, unread>>

StoreReceipt ==
    /\ recording # None /\ recording.size # None
    /\ ~Locked
    /\ IF status \in Sealed THEN UNCHANGED <<receipts, status>>
       ELSE /\ receipts' = [receipts EXCEPT ![recording.name] = NewReceipt]
            /\ status' = "running"
    /\ recording' = None
    /\ Forget({"recorder"})
    /\ UNCHANGED <<files, hash, audit, witnessed, unread>>

-----------------------------------------------------------------------------
(* _artifact_issues.                                                       *)

\* approve refuses a sealed run, submit one that is not approved.
Admits(goal) ==
    CASE goal = "approve" -> status \notin Sealed
      [] goal = "submit"  -> status = "approved"
      [] OTHER            -> TRUE

\* Mutation: submit relies on the verdict of the approval.
BeginAuditTrusting(goal) ==
    /\ audit = None
    /\ Admits(goal)
    /\ audit' = [goal |-> goal, receipts |-> receipts,
                 left |-> IF goal = "submit" THEN {} ELSE Recorded(receipts),
                 current |-> None, bad |-> {}]
    /\ witnessed' = Matching(receipts, files)
    /\ UNCHANGED <<files, hash, recording, receipts, status, touched, unread>>

BeginAudit(goal) ==
    /\ audit = None
    /\ Admits(goal)
    /\ audit' = [goal |-> goal, receipts |-> receipts, left |-> Recorded(receipts),
                 current |-> None, bad |-> {}]
    /\ witnessed' = Matching(receipts, files)
    /\ UNCHANGED <<files, hash, recording, receipts, status, touched, unread>>

PathOf(n) == audit.receipts[n].path

\* The judgement on n is done.
Settle(n, stale) ==
    audit' = [audit EXCEPT !.left = @ \ {n}, !.current = None,
                           !.bad = IF stale THEN @ \cup {n} ELSE @]

\* Mutation: the size is taken for proof and the file is not read.
StatAuditedOnly(n) ==
    /\ audit # None
    /\ audit.current = None /\ n \in audit.left
    /\ Settle(n, files[PathOf(n)] = None \/ Len(files[PathOf(n)]) # audit.receipts[n].size)
    /\ UNCHANGED <<files, hash, recording, receipts, status, touched, witnessed, unread>>

\* Mutation: the digest is taken for proof and the size is not compared.
StatAuditedAnySize(n) ==
    /\ audit # None
    /\ audit.current = None /\ n \in audit.left
    /\ IF files[PathOf(n)] = None THEN Settle(n, TRUE)
       ELSE audit' = [audit EXCEPT !.current = n]
    /\ UNCHANGED <<files, hash, recording, receipts, status, touched, witnessed, unread>>

\* is_file and stat; receipts are looked at in the order of the dictionary.  What
\* raises an OSError, here and until the digest is there, is AuditRaises.
StatAudited(n) ==
    /\ audit # None
    /\ audit.current = None /\ n \in audit.left
    /\ IF files[PathOf(n)] = None \/ Len(files[PathOf(n)]) # audit.receipts[n].size
       THEN Settle(n, TRUE)
       ELSE audit' = [audit EXCEPT !.current = n]
    /\ UNCHANGED <<files, hash, recording, receipts, status, touched, witnessed, unread>>

\* A file that is gone by now raises an OSError too, and is stale.
OpenAudited ==
    /\ audit # None
    /\ audit.current # None /\ hash["auditor"] = None
    /\ IF files[PathOf(audit.current)] = None
       THEN Settle(audit.current, TRUE) /\ UNCHANGED hash
       ELSE /\ hash' = [hash EXCEPT !["auditor"] = Opened(PathOf(audit.current))]
            /\ UNCHANGED audit
    /\ UNCHANGED <<files, recording, receipts, status, touched, witnessed, unread>>

FinishAuditHash ==
    /\ hash["auditor"] # None
    /\ AtEnd(hash["auditor"])
    /\ Settle(audit.current, hash["auditor"].got # audit.receipts[audit.current].sha256)
    /\ hash' = [hash EXCEPT !["auditor"] = None]
    /\ UNCHANGED <<files, recording, receipts, status, touched, witnessed, unread>>

\* Mutation: what cannot be read is passed over.
AuditRaisesUnheard(n) ==
    /\ audit # None
    /\ n \in audit.left /\ audit.current \in {None, n}
    /\ Settle(n, FALSE)
    /\ hash' = [hash EXCEPT !["auditor"] = None]
    /\ unread' = unread \cup {n}
    /\ UNCHANGED <<files, recording, receipts, status, touched, witnessed>>

\* is_file, stat, the open or any read raises an OSError: the artifact counts as
\* stale, whatever its file holds.
AuditRaises(n) ==
    /\ audit # None
    /\ n \in audit.left /\ audit.current \in {None, n}
    /\ Settle(n, TRUE)
    /\ hash' = [hash EXCEPT !["auditor"] = None]
    /\ unread' = unread \cup {n}
    /\ UNCHANGED <<files, recording, receipts, status, touched, witnessed>>

Concluded == audit # None /\ audit.left = {}

AuditPasses == audit.bad = {} /\ Required \subseteq Recorded(audit.receipts)

\* What a passed audit makes of the run.
Passed == [verify |-> "verified", approve |-> "approved", submit |-> "submitted"]

\* compare changes nothing; verify leaves a sealed run alone.
Conclude ==
    /\ Concluded
    /\ status' = IF audit.goal = "compare" \/ (audit.goal = "verify" /\ status \in Sealed)
                 THEN status
                 ELSE IF AuditPasses THEN Passed[audit.goal] ELSE "failed"
    /\ audit' = None
    /\ witnessed' = {} /\ unread' = {}
    /\ Forget({"auditor"} \cup (IF status' = "approved" THEN {} ELSE {"approval"}))
    /\ UNCHANGED <<files, hash, recording, receipts>>

-----------------------------------------------------------------------------
(* Those who write the files.                                              *)

\* What touched is kept for is going on.
Watched(r) ==
    CASE r = "recorder" -> recording # None
      [] r = "auditor"  -> audit # None
      [] OTHER          -> status = "approved" \/ (audit # None /\ audit.goal = "approve")

Note(p) ==
    /\ touched' = [r \in DOMAIN touched |->
                      IF Watched(r) THEN touched[r] \cup {p} ELSE {}]
    /\ witnessed' = IF audit = None THEN {}
                    ELSE witnessed \cup Matching(audit.receipts, files')
    /\ UNCHANGED <<recording, audit, receipts, status, unread>>

\* The file is removed, or replaced by renaming another one onto it.
Swap(p, c) ==
    /\ files' = [files EXCEPT ![p] = c]
    /\ hash' = [r \in Readers |->
                  IF hash[r] # None /\ hash[r].path = p /\ hash[r].orphan = None
                  THEN [hash[r] EXCEPT !.orphan = files[p]]
                  ELSE hash[r]]
    /\ Note(p)

Truncate(p) ==
    /\ p \in InPlace
    /\ files' = [files EXCEPT ![p] = <<>>]
    /\ UNCHANGED hash
    /\ Note(p)

AppendChunk(p, c) ==
    /\ p \in InPlace
    /\ files[p] # None /\ Len(files[p]) < MaxChunks
    /\ files' = [files EXCEPT ![p] = Append(@, c)]
    /\ UNCHANGED hash
    /\ Note(p)

Next ==
    \/ \E r \in Readers : ReadChunk(r)
    \/ \E t \in Targets : StartRecording(t[1], t[2])
    \/ FinishHash \/ StatRecorded \/ RecordingRaises \/ StoreReceipt
    \/ \E goal \in Goals : BeginAudit(goal)
    \/ \E n \in Names : StatAudited(n) \/ AuditRaises(n)
    \/ OpenAudited \/ FinishAuditHash \/ Conclude
    \/ \E p \in Paths :
          \/ \E c \in Contents : Swap(p, c)
          \/ Truncate(p)
          \/ \E c \in Chunks : AppendChunk(p, c)

Spec == Init /\ [][Next]_vars

-----------------------------------------------------------------------------
(* Properties.                                                             *)

Describes(receipt) ==
    /\ files[receipt.path] = receipt.sha256
    /\ Len(receipt.sha256) = receipt.size

\* However the writers of other files interleave, what an audit says of an
\* artifact whose own file was left alone meanwhile is true: it is stale if and
\* only if the receipt does not describe the file or the file could not be read.
QuietVerdictIsTrue ==
    Concluded =>
        \A n \in Recorded(audit.receipts) :
            PathOf(n) \notin touched["auditor"] =>
                (n \in audit.bad <=> n \in unread \/ ~Describes(audit.receipts[n]))

\* A receipt describes its file if the file was left alone while
\* record_artifact hashed and measured it.
QuietReceiptIsTrue ==
    /\ recording # None
    /\ recording.size # None
    /\ recording.path \notin touched["recorder"]
    => Describes(NewReceipt)

\* Where writers replace a file whole, an artifact that passes did have its
\* digest at some moment of the audit, whatever was swapped in between.
PassWasWitnessed ==
    Concluded =>
        \A n \in Recorded(audit.receipts) \ audit.bad :
            PathOf(n) \in InPlace \/ n \in witnessed

\* A submission is judged on the files as they are, not on the approval: each
\* receipt of a run that is submitted describes its file, unless that file was
\* written during this very audit, whatever was written between the approval
\* and the submission and whatever was written while the receipt was taken.
\* And the approval is not taken back for nothing: a file was written since the
\* audit of the approval began, or could not be read now.
SubmissionIsJudged ==
    [][Concluded /\ audit.goal = "submit" =>
          /\ status' = "submitted" =>
                \A n \in Recorded(receipts) :
                    receipts[n].path \notin touched["auditor"] => Describes(receipts[n])
          /\ status' = "failed" => touched["approval"] # {} \/ unread # {}]_vars
=============================================================================
